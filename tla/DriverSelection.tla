--------------------------- MODULE DriverSelection ---------------------------
(***************************************************************************)
(* From launch(caps) to the path of a driver binary:                       *)
(* WebDriverManager::ensure_driver (thirtyfour/src/manager/manager.rs) with *)
(* detect_local_version (manager/browser.rs), resolve_version and the      *)
(* outcome of download::ensure_driver (manager/download.rs; DriverCache is *)
(* about what happens inside).                                             *)
(*                                                                         *)
(* The manager is what its builder made of the calls on it.  Its launches  *)
(* come one after the other here; the browsers of the machine are          *)
(* upgraded, upstream releases drivers and the network fails, between any  *)
(* two steps.                                                              *)
(***************************************************************************)
EXTENDS ConfigBuilders

CONSTANTS
  Browsers,     \* the browsers launched
  Paths,        \* the places where the manager may look for a browser
  Installable,  \* those where there may be one
  Custom,       \* the binaries that capabilities name, among Paths
  Versions,     \* the full versions of browsers and drivers
  Requests,     \* the versions that callers ask for, some a bare major
  Builders      \* the calls that are made on a builder, one sequence for each manager

ASSUME PathsAssumption == Custom \subseteq Paths /\ Installable \subseteq Paths
ASSUME CandidatesAssumption == \A b \in Browsers : Range(CandidatePaths(b)) \subseteq Paths
ASSUME VersionsAssumption == Versions \subseteq Nat \X Nat /\ None \notin Versions \cup Nat \cup {System}

(* The calls on a WebDriverManagerBuilder. *)
BuilderCalls ==
  [method : {"config"}, arg : Seq(ConfigCalls)]
    \cup [method : {"match_local", "latest", "from_caps"}, arg : {None}] \cup [method : {"exact"}, arg : Requests]
    \cup [method : {"offline", "show_console_window"}, arg : BOOLEAN]
    \cup [method : {"poller", "cache_dir", "host", "download_timeout", "ready_timeout", "stdio", "subscribe"} \cup Mirrors,
          arg : Values]
    \cup [method : {"driver_binary"}, browser : DOMAIN NewBuilder.driver_paths, arg : Values]

ASSUME BuildersAssumption ==
  /\ Builders \subseteq Seq(BuilderCalls)
  /\ \A calls \in Builders : \A i \in DOMAIN calls :
       calls[i].method = "config" => WebDriverConfig(calls[i].arg) # None
  /\ Browsers \subseteq DOMAIN NewBuilder.driver_paths

VARIABLES
  cfg,            \* the manager's ResolvedConfig, with its web_driver_config
  asked,          \* what the calls on the builder asked for (history)
  installed,      \* the version of the browser at each place, or None
  upstream,       \* the versions for which there is a driver
  reachable,      \* does the network work?
  local_versions, \* the manager's cache of probes
  cache,          \* the drivers on disk
  launch,         \* the launch under way
  upgraded        \* the places that changed since they were probed (history)

manager == <<cfg, asked>>
selectionVars == <<manager, installed, upstream, reachable, local_versions, cache, launch, upgraded>>
world == <<installed, upstream, reachable>>

Probes == Browsers \X (Custom \cup {None})

(* The newest release is the stable one of the upstream. *)
Latest == Newest(upstream)

NoLaunch == [step |-> "none", browser |-> None, custom |-> None,
             asked |-> None, driver |-> None, result |-> "none"]

SelectionTypeOK ==
  /\ installed \in [Paths -> Versions \cup {None}]
  /\ upstream \in (SUBSET Versions) \ {{}}
  /\ reachable \in BOOLEAN
  /\ \A p \in Probes : local_versions[p] \in Versions \cup {None, System}
  /\ \A d \in cache : d[1] \in Browsers
  /\ launch.step \in {"none", "detect", "resolve", "driver", "done"}
  /\ launch.result \in {"none", "driver", "not_found", "missing", "http", "parse", "offline"}
  /\ launch.step = "resolve" /\ cfg.version.spec = "match_local" => launch.asked # None
  /\ launch.result = "driver" => launch.driver # None
  /\ upgraded \subseteq Paths

SelectionInit ==
  /\ \E calls \in Builders : cfg = ManagerOf(calls) /\ asked = Asked(calls)
  /\ \E f \in [Installable -> Versions \cup {None}] :
       installed = [p \in Paths |-> IF p \in Installable THEN f[p] ELSE None]
  /\ upstream \in {{v} : v \in Versions}
  /\ reachable = TRUE
  /\ local_versions = [p \in Probes |-> None]
  /\ cache \in IF cfg.option["offline"] THEN {{<<b, v>>} : b \in Browsers \ {"firefox", "safari"}, v \in Versions} ELSE {{}}
  /\ launch = NoLaunch
  /\ upgraded = {}

-----------------------------------------------------------------------------
(* The world *)

(* The browser at p is updated in place. *)
Upgrade(p) ==
  /\ \E v \in Versions : installed[p] # None /\ Older(installed[p], v) /\ installed' = [installed EXCEPT ![p] = v]
  /\ upgraded' = upgraded \cup {p}
  /\ UNCHANGED <<manager, upstream, reachable, local_versions, cache, launch>>

Publish(v) ==
  /\ upstream' = upstream \cup {v}
  /\ UNCHANGED <<manager, installed, reachable, local_versions, cache, launch, upgraded>>

Network ==
  /\ reachable' = ~reachable
  /\ UNCHANGED <<manager, installed, upstream, local_versions, cache, launch, upgraded>>

-----------------------------------------------------------------------------
(* The manager *)

Fail(error) ==
  /\ launch' = [NoLaunch EXCEPT !.step = "done", !.browser = launch.browser, !.result = error]
  /\ UNCHANGED <<manager, world, local_versions, cache, upgraded>>

(* launch(): which browser, which of its binaries, and which version the
   capabilities name.  A driver_binary() goes to spawn_or_reuse at once. *)
BeginLaunch(b, custom, v) ==
  /\ launch.step \in {"none", "done"}
  /\ b = "safari" => custom = None
  /\ v # None => cfg.version.spec = "from_caps"
  /\ launch' = IF cfg.driver_paths[b] # None
               THEN [NoLaunch EXCEPT !.step = "done", !.browser = b, !.driver = cfg.driver_paths[b], !.result = "driver"]
               ELSE [NoLaunch EXCEPT !.step = "detect", !.browser = b, !.custom = custom,
                       !.asked = IF cfg.version.spec = "exact" THEN cfg.version.pinned ELSE v]
  /\ UNCHANGED <<manager, world, local_versions, cache, upgraded>>

(* Mutant: one entry of the cache for all binaries of a browser. *)
DetectByBrowser ==
  /\ launch.step = "detect" /\ cfg.version.spec = "match_local"
  /\ LET probe == <<launch.browser, None>>
         found == IF launch.browser = "safari" THEN System
                  ELSE IF local_versions[probe] # None THEN local_versions[probe]
                  ELSE DetectLocalVersion(launch.browser, launch.custom, installed)
     IN  IF found = None THEN Fail("not_found")
         ELSE /\ local_versions' = [local_versions EXCEPT ![probe] = found]
              /\ launch' = [launch EXCEPT !.step = "resolve", !.asked = found]
              /\ UNCHANGED <<manager, world, cache, upgraded>>

(* The probe of a binary is made once by a manager, under the lock of
   local_versions; one that finds nothing is not remembered. *)
Detect ==
  /\ launch.step = "detect" /\ cfg.version.spec = "match_local"
  /\ LET probe == <<launch.browser, launch.custom>>
         found == IF launch.browser = "safari" THEN System
                  ELSE IF local_versions[probe] # None THEN local_versions[probe]
                  ELSE DetectLocalVersion(launch.browser, launch.custom, installed)
     IN  IF found = None THEN Fail("not_found")
         ELSE /\ local_versions' = [local_versions EXCEPT ![probe] = found]
              /\ launch' = [launch EXCEPT !.step = "resolve", !.asked = found]
              /\ UNCHANGED <<manager, world, cache, upgraded>>

(* No probe for the other settings. *)
SkipDetect ==
  /\ launch.step = "detect" /\ cfg.version.spec # "match_local"
  /\ IF cfg.version.spec = "from_caps" /\ launch.asked = None /\ launch.browser # "safari"
     THEN Fail("missing")
     ELSE /\ launch' = [launch EXCEPT !.step = "resolve"]
          /\ UNCHANGED <<manager, world, local_versions, cache, upgraded>>

(* resolve_version, which does not look at the offline setting. *)
Resolve ==
  /\ launch.step = "resolve"
  /\ LET b     == launch.browser
         found == ResolveVersion(b, cfg.version.spec, launch.asked, upstream, Latest)
     IN  IF AsksUpstream(b, cfg.version.spec, launch.asked) /\ ~reachable THEN Fail("http")
         ELSE IF found = None THEN Fail("parse")
         ELSE /\ launch' = [launch EXCEPT !.step = "driver", !.driver = found]
              /\ UNCHANGED <<manager, world, local_versions, cache, upgraded>>

(* Mutant: a driver that is not in the cache is fetched, offline or not. *)
ProvideOnline ==
  /\ launch.step = "driver"
  /\ LET entry == <<launch.browser, launch.driver>>
         done  == launch' = [NoLaunch EXCEPT !.step = "done", !.browser = launch.browser,
                               !.driver = launch.driver, !.result = "driver"]
     IN  IF entry \in cache \/ launch.browser = "safari"
         THEN done /\ UNCHANGED <<manager, world, local_versions, cache, upgraded>>
         ELSE IF ~reachable \/ (launch.browser = "chrome" /\ launch.driver \notin upstream)
         THEN Fail("http")
         ELSE /\ done
              /\ cache' = cache \cup {entry}
              /\ UNCHANGED <<manager, world, local_versions, upgraded>>

(* download::ensure_driver, as a whole. *)
Provide ==
  /\ launch.step = "driver"
  /\ LET entry == <<launch.browser, launch.driver>>
         done  == launch' = [NoLaunch EXCEPT !.step = "done", !.browser = launch.browser,
                               !.driver = launch.driver, !.result = "driver"]
     IN  IF entry \in cache \/ launch.browser = "safari"
         THEN done /\ UNCHANGED <<manager, world, local_versions, cache, upgraded>>
         ELSE IF cfg.option["offline"] THEN Fail("offline")
         ELSE IF ~reachable \/ (launch.browser = "chrome" /\ launch.driver \notin upstream)
         THEN Fail("http")
         ELSE /\ done
              /\ cache' = cache \cup {entry}
              /\ UNCHANGED <<manager, world, local_versions, upgraded>>

-----------------------------------------------------------------------------

World == \/ \E p \in Paths : Upgrade(p)
         \/ \E v \in Versions : Publish(v)
         \/ Network

Manager == \/ \E b \in Browsers, c \in Custom \cup {None}, v \in Requests \cup {None} : BeginLaunch(b, c, v)
           \/ Detect \/ SkipDetect \/ Resolve \/ Provide

SelectionNext == World \/ Manager

-----------------------------------------------------------------------------
(* Properties *)

(* What it takes for a driver to fit version v of a browser: it has the major
   of v and is the newest such one, or the very build; Firefox has the newest
   geckodriver whose range covers it (download.rs:132-138), and Edge may get
   another major only for a bare major that upstream does not know. *)
Fits(driver, b, v) ==
  CASE b = "firefox" -> /\ \E r \in Range(GeckodriverReleases) : r.version = driver /\ Covers(r, v[1])
                        /\ \A r \in Range(GeckodriverReleases) : Covers(r, v[1]) => r.version <= driver
    [] b = "safari"  -> TRUE
    [] OTHER -> \/ driver = v
                \/ /\ SameMajor(driver, v) /\ v \notin upstream
                   /\ \A w \in upstream : SameMajor(w, v) => ~Older(driver, w)
                \/ b = "edge" /\ ~Full(v) /\ ~\E w \in upstream : SameMajor(w, v)

(* The driver chosen fits the version that was asked for, and a launch fails
   for want of a version only if upstream, or the table, has none. *)
ResolvedFits ==
  [][launch.step = "resolve" /\ asked.version.spec \in {"match_local", "from_caps"} =>
       /\ launch'.step = "driver" => Fits(launch'.driver, launch.browser, launch.asked)
       /\ launch'.result = "parse" =>
            IF launch.browser = "firefox"
            THEN ~\E r \in Range(GeckodriverReleases) : Covers(r, launch.asked[1])
            ELSE ~\E w \in upstream : SameMajor(w, launch.asked)]_selectionVars

(* The version that match_local goes by is that of the binary the session
   will use, unless the browser was upgraded under a manager that lives on:
   other launches, with other binaries, do not matter (manager.rs:600-619). *)
DetectedIsInstalled ==
  [][launch.step = "detect" /\ asked.version.spec = "match_local" /\ launch'.step = "resolve" /\ launch.browser # "safari" =>
       LET places == IF launch.custom # None THEN {launch.custom} ELSE Range(CandidatePaths(launch.browser))
       IN  \E p \in places : p \in upgraded \/ installed[p] = launch'.asked]_selectionVars

(* The types, the version a launch goes by, and the driver it resolves to. *)
LaunchFits == []SelectionTypeOK /\ DetectedIsInstalled /\ ResolvedFits

(* manager.rs:262-480: a manager is what the last of the calls for each thing
   asked for, and a driver_binary() is the driver of its browser, whatever
   version was asked for, with the network and upstream as they may be. *)
ManagerIsAsBuilt ==
  /\ cfg = asked
  /\ launch.step # "none" /\ asked.driver_paths[launch.browser] # None =>
       launch.result = "driver" /\ launch.driver = asked.driver_paths[launch.browser]

(* manager.rs:333: an offline manager gets no driver that was not there. *)
OfflineFetchesNothing ==
  [][asked.option["offline"] => cache' = cache]_selectionVars

(* What the builder was told is what the launches go by. *)
LaunchIsAsBuilt == []ManagerIsAsBuilt /\ OfflineFetchesNothing

=============================================================================
