--------------------------- MODULE ConfigBuilders ---------------------------
(***************************************************************************)
(* What the builders make of the calls on them: WebDriverConfigBuilder     *)
(* (thirtyfour/src/common/config.rs), WebDriverBuilder (web_driver.rs)     *)
(* and WebDriverManagerBuilder (manager/manager.rs).                       *)
(*                                                                         *)
(* A builder is a record, and a method gives the next one.  None is an     *)
(* Option that was not set, "default" what build() puts in its place, and  *)
(* Refused a user agent that is no header value.                           *)
(***************************************************************************)
EXTENDS DriverVersions, SequencesExt

CONSTANTS
  Refused,  \* a user agent that is no header value
  Values    \* pollers, timeouts, paths and the like, "default" among them

(* What a setter of WebDriverConfigBuilder takes is no Option; only the user
   agent may be no header value. *)
ConfigCalls ==
  [method : {"keep_alive"}, arg : BOOLEAN] \cup [method : {"poller", "request_timeout"}, arg : Values]
    \cup [method : {"user_agent"}, arg : Values \cup {Refused}]

(* What build() returns when it does. *)
Configs == [keep_alive : BOOLEAN, poller : Values, user_agent : Values, request_timeout : Values]

Mirrors == {"chrome_metadata", "geckodriver_downloads", "edge_downloads"}

ASSUME ValuesAssumption == "default" \in Values /\ Refused \notin Values /\ Refused # None
ASSUME NothingAssumption == None \notin Values /\ None \notin BOOLEAN /\ None \notin Configs /\ None \notin [Mirrors -> Values]

Call(method, arg) == [method |-> method, arg |-> arg]
\* driver_binary() is called for a browser.
CallFor(browser, path) == [method |-> "driver_binary", arg |-> path, browser |-> browser]

OrDefault(v) == IF v = None THEN "default" ELSE v

-----------------------------------------------------------------------------
(* WebDriverConfigBuilder: every method sets its field. *)

NewConfig == [keep_alive |-> TRUE, poller |-> None, user_agent |-> None, request_timeout |-> "default"]

ConfigCall(b, c) == [b EXCEPT ![c.method] = c.arg]

\* build(), or None for its error.
BuildConfig(b) ==
  IF b.user_agent = Refused THEN None
  ELSE [b EXCEPT !.poller = OrDefault(@), !.user_agent = OrDefault(@)]

\* A configuration, from the calls that made it; WebDriverBuilder hands its
\* calls on to a builder of its own, which connect() builds.
WebDriverConfig(script) == BuildConfig(FoldLeft(ConfigCall, NewConfig, script))

-----------------------------------------------------------------------------
(* WebDriverManagerBuilder *)

Options == {"cache_dir", "host", "download_timeout", "ready_timeout", "stdio", "show_console_window", "offline"}

NewBuilder ==
  [version |-> [spec |-> "match_local", pinned |-> None],
   option |-> [o \in Options |-> None],
   mirror |-> None,
   driver_paths |-> [b \in {"chrome", "firefox", "edge", "safari"} |-> None],
   subscribers |-> <<>>,
   config |-> WebDriverConfig(<<>>)]

\* config(): with the poller, and poller() puts another one in it.
Config(b, script) == [b EXCEPT !.config = WebDriverConfig(script)]
Poller(b, p)      == [b EXCEPT !.config.poller = p]

\* version(), latest(), match_local(), from_caps(), exact()
Version(b, spec, pinned) == [b EXCEPT !.version = [spec |-> spec, pinned |-> pinned]]

\* cache_dir(), host(), download_timeout(), ready_timeout(); offline(),
\* online() and offline_mode(); stdio(), show_console_window()
SetOption(b, o, v)  == [b EXCEPT !.option[o] = v]
OfflineMode(b, yes) == [b EXCEPT !.option["offline"] = yes]
SetOutput(b, o, v)  == [b EXCEPT !.option[o] = v]

\* The first of the mirrors that is set brings the others with it, by default.
SetMirror(b, m, base) ==
  [b EXCEPT !.mirror = [(IF @ = None THEN [x \in Mirrors |-> "default"] ELSE @) EXCEPT ![m] = base]]

DriverBinary(b, browser, path) == [b EXCEPT !.driver_paths[browser] = path]

\* on_status(), on_driver_log()
Subscriber(b, f) == [b EXCEPT !.subscribers = Append(@, f)]

BuilderCall(b, c) ==
  CASE c.method = "config"            -> Config(b, c.arg)
    [] c.method = "poller"            -> Poller(b, c.arg)
    [] c.method \in {"match_local", "latest", "from_caps", "exact"} -> Version(b, c.method, c.arg)
    [] c.method = "offline"           -> OfflineMode(b, c.arg)
    [] c.method \in {"stdio", "show_console_window"} -> SetOutput(b, c.method, c.arg)
    [] c.method \in {"cache_dir", "host", "download_timeout", "ready_timeout"} -> SetOption(b, c.method, c.arg)
    [] c.method \in Mirrors           -> SetMirror(b, c.method, c.arg)
    [] c.method = "driver_binary"     -> DriverBinary(b, c.browser, c.arg)
    [] c.method = "subscribe"         -> Subscriber(b, c.arg)

\* build(): the manager's configuration.
BuildManager(b) ==
  [b EXCEPT !.option = [o \in Options |-> IF o = "offline" THEN @[o] = TRUE ELSE OrDefault(@[o])],
            !.mirror = IF @ = None THEN [m \in Mirrors |-> "default"] ELSE @]

ManagerOf(calls) == BuildManager(FoldLeft(BuilderCall, NewBuilder, calls))

-----------------------------------------------------------------------------
(* The reference: of the calls for one thing the last one counts, however the
   calls for other things are mixed with it, and none of them is forgotten. *)

LastArg(calls, Of(_), default) ==
  LET i == SelectLastInSeq(calls, Of) IN IF i = 0 THEN default ELSE calls[i].arg

\* Of a user agent too: one that was refused is an error only if it is the last.
AskedOfConfig(script) ==
  LET f == [field \in DOMAIN NewConfig |->
              LastArg(script, LAMBDA c : c.method = field, IF field = "keep_alive" THEN TRUE ELSE "default")]
  IN  IF f.user_agent = Refused THEN None ELSE f

\* A configuration is for the poller as well.
AskedOfPoller(calls) ==
  LET i == SelectLastInSeq(calls, LAMBDA c : c.method \in {"config", "poller"})
  IN  IF i = 0 THEN "default"
      ELSE IF calls[i].method = "poller" THEN calls[i].arg ELSE AskedOfConfig(calls[i].arg).poller

Asked(calls) ==
  LET versions == {"match_local", "latest", "from_caps", "exact"}
      last == SelectLastInSeq(calls, LAMBDA c : c.method \in versions)
  IN  [version |-> IF last = 0 THEN [spec |-> "match_local", pinned |-> None]
                               ELSE [spec |-> calls[last].method, pinned |-> calls[last].arg],
       option |-> [o \in Options |->
                     LastArg(calls, LAMBDA c : c.method = o, IF o = "offline" THEN FALSE ELSE "default")],
       mirror |-> [m \in Mirrors |-> LastArg(calls, LAMBDA c : c.method = m, "default")],
       driver_paths |-> [b \in DOMAIN NewBuilder.driver_paths |->
                           LastArg(calls, LAMBDA c : c.method = "driver_binary" /\ c.browser = b, None)],
       subscribers |-> LET s == {i \in DOMAIN calls : calls[i].method = "subscribe"}
                       IN  [n \in 1 .. Cardinality(s) |-> calls[CHOOSE i \in s : Cardinality({j \in s : j <= i}) = n].arg],
       config |-> [AskedOfConfig(LastArg(calls, LAMBDA c : c.method = "config", <<>>))
                     EXCEPT !.poller = AskedOfPoller(calls)]]
=============================================================================
