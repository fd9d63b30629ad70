---------------------------- MODULE SessionConfig ----------------------------
(***************************************************************************)
(* The configuration of a session: SessionHandle::config, set_config and   *)
(* set_poller (thirtyfour/src/session/handle.rs), which the WebDriver      *)
(* values and elements of the session share, clone_with_config, and where  *)
(* a handle gets it from: the manager that launched the session            *)
(* (DriverSelection), or a WebDriverBuilder (web_driver.rs).               *)
(*                                                                         *)
(* It is an ArcSwap: readers take a snapshot and writers put another Arc   *)
(* there, set_poller by a compare-and-swap on the Arc that it has copied,  *)
(* to be tried again when there is another one by then.                    *)
(***************************************************************************)
EXTENDS DriverSelection

CONSTANTS
  Setters,   \* threads that change the configuration of a session
  Handles,   \* the SessionHandles that may come to exist
  Scripts,   \* the calls on a WebDriverConfigBuilder
  Pollers,   \* what set_poller() is called with
  MaxStores  \* bound: Arcs put into a handle

ASSUME ScriptsAssumption == Scripts \subseteq Seq(ConfigCalls) /\ Pollers \subseteq Values
ASSUME ArcsAssumption == MaxStores \in Nat /\ None \notin [arc : 1 .. MaxStores, value : Configs]

VARIABLES
  config,    \* handle -> the Arc in it, [arc, value], or None
  stores,    \* Arcs made so far
  swap,      \* task -> its set_poller(): the handle, the poller, the Arc it has copied; or None
  wanted     \* handle -> what its setters asked for, in the order they took effect (history)

sessionVars == <<config, stores, swap, wanted>>

SessionTypeOK ==
  /\ SelectionTypeOK
  /\ DOMAIN config = Handles /\ stores \in 0 .. MaxStores
  /\ \A h \in Handles : config[h] = None <=> wanted[h] = None
  /\ \A h \in Handles : config[h] # None => config[h].arc \in 1 .. stores

SessionInit ==
  /\ SelectionInit
  /\ config = [h \in Handles |-> None]
  /\ stores = 0
  /\ swap = [t \in Setters |-> None]
  /\ wanted = [h \in Handles |-> None]

\* A new Arc in handle h.
Put(h, value) == /\ stores < MaxStores
                 /\ stores' = stores + 1
                 /\ config' = [config EXCEPT ![h] = [arc |-> stores + 1, value |-> value]]

Live(h) == config[h] # None

(* launch() clones the configuration of the manager into the new handle. *)
Launched(h) ==
  /\ launch.step = "done" /\ launch.result = "driver"
  /\ ~Live(h) /\ Put(h, cfg.config)
  /\ wanted' = [wanted EXCEPT ![h] = asked.config]
  /\ launch' = NoLaunch
  /\ UNCHANGED <<manager, world, local_versions, cache, upgraded, swap>>

(* WebDriverBuilder::connect: a user agent that was refused is its error. *)
Connect(h, script) ==
  /\ WebDriverConfig(script) # None
  /\ ~Live(h) /\ Put(h, WebDriverConfig(script))
  /\ wanted' = [wanted EXCEPT ![h] = AskedOfConfig(script)]
  /\ UNCHANGED <<selectionVars, swap>>

(* clone_with_config: the same session in a handle of its own. *)
CloneWithConfig(h, g, script) ==
  /\ Live(h) /\ ~Live(g) /\ WebDriverConfig(script) # None
  /\ Put(g, WebDriverConfig(script))
  /\ wanted' = [wanted EXCEPT ![g] = AskedOfConfig(script)]
  /\ UNCHANGED <<selectionVars, swap>>

(* set_config: a store, whatever was there. *)
SetConfig(h, script) ==
  /\ Live(h) /\ WebDriverConfig(script) # None
  /\ Put(h, WebDriverConfig(script))
  /\ wanted' = [wanted EXCEPT ![h] = AskedOfConfig(script)]
  /\ UNCHANGED <<selectionVars, swap>>

(* set_poller: rcu() loads the Arc and copies it with the other poller. *)
SetPoller(t, h, p) ==
  /\ swap[t] = None /\ Live(h)
  /\ swap' = [swap EXCEPT ![t] = [handle |-> h, poller |-> p, copied |-> config[h]]]
  /\ UNCHANGED <<selectionVars, config, stores, wanted>>

(* Mutant: the copy is stored, whatever has come in between. *)
StorePoller(t) ==
  LET s == swap[t] IN
  /\ s # None
  /\ Put(s.handle, [s.copied.value EXCEPT !.poller = s.poller])
  /\ wanted' = [wanted EXCEPT ![s.handle].poller = s.poller]
  /\ swap' = [swap EXCEPT ![t] = None]
  /\ UNCHANGED selectionVars

(* It stores the copy if the Arc is still there, and begins again if not. *)
SwapPoller(t) ==
  LET s == swap[t] IN
  /\ s # None
  /\ IF config[s.handle].arc = s.copied.arc
     THEN /\ Put(s.handle, [s.copied.value EXCEPT !.poller = s.poller])
          /\ wanted' = [wanted EXCEPT ![s.handle].poller = s.poller]
          /\ swap' = [swap EXCEPT ![t] = None]
     ELSE /\ swap' = [swap EXCEPT ![t].copied = config[s.handle]]
          /\ UNCHANGED <<config, stores, wanted>>
  /\ UNCHANGED selectionVars

-----------------------------------------------------------------------------

SessionStep ==
  \/ \E h \in Handles : Launched(h)
  \/ \E h \in Handles, script \in Scripts :
       Connect(h, script) \/ SetConfig(h, script) \/ \E g \in Handles : CloneWithConfig(h, g, script)
  \/ \E t \in Setters : SwapPoller(t) \/ \E h \in Handles, p \in Pollers : SetPoller(t, h, p)

SessionNext == (SelectionNext /\ UNCHANGED sessionVars) \/ SessionStep

SessionSpec == SessionInit /\ [][SessionNext]_<<selectionVars, sessionVars>>

-----------------------------------------------------------------------------
(* Properties *)

(* handle.rs:158-185: whatever order the setters of several threads come in,
   each changes what it is for and nothing else: no configuration comes back
   that another one had replaced, and no poller is lost, in any handle. *)
ConfigIsAsSet ==
  /\ SessionTypeOK
  /\ \A h \in Handles : Live(h) => config[h].value = wanted[h]
=============================================================================
