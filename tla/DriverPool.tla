----------------------------- MODULE DriverPool -----------------------------
(***************************************************************************)
(* How a WebDriverManager shares driver processes between sessions:        *)
(* launch, ensure_driver and spawn_or_reuse with SessionGuard::release     *)
(* (thirtyfour/src/manager/manager.rs), and spawning, readiness, shutdown  *)
(* and Drop of ManagedDriverProcess (manager/process.rs).                  *)
(*                                                                         *)
(* The `drivers` map holds Weak handles and its mutex is released while a  *)
(* process is spawned, so callers race to register.  A child lives as long *)
(* as somebody holds its ManagedDriverProcess.  The port of a child is     *)
(* found by binding port 0 and letting go of it again.                     *)
(*                                                                         *)
(* Sessions are single handles here; SessionQuit has clones of them.       *)
(***************************************************************************)
EXTENDS Naturals, FiniteSets

CONSTANTS
  Launchers,   \* tasks that launch and use one session at a time
  Keys,        \* DriverKey: browser, resolved version, host
  NoKey,
  Manual,      \* the keys of driver binaries given by the user
  Ports,       \* the ephemeral ports
  NoPort,
  MaxProcs     \* bound on the processes ever spawned

ASSUME LaunchersAssumption == IsFiniteSet(Launchers)
ASSUME NoKeyAssumption == NoKey \notin Keys
ASSUME ManualAssumption == Manual \subseteq Keys
ASSUME NoPortAssumption == NoPort \notin Ports
ASSUME MaxProcsAssumption == MaxProcs \in Nat \ {0}

VARIABLES
  pc,        \* where each task is between launch() and the end of quit()
  key,       \* the driver it asked for
  proc,      \* the process it holds or waits for, 0 for none
  drivers,   \* WebDriverManager::drivers: the process a Weak points to, or 0
  child,     \* the child process, as the operating system sees it
  port,      \* the port it was told to use
  nextProc,  \* processes are numbered as they are spawned
  dropped    \* history: processes let go of without waiting in quit()

taskVars == <<pc, key, proc>>
osVars   == <<child, port, nextProc>>
vars == <<pc, key, proc, drivers, child, port, nextProc, dropped>>

Procs == 1 .. MaxProcs
Alive == {"starting", "listening"}

TypeOK ==
  /\ pc       \in [Launchers -> {"idle", "fast", "check", "spawn", "poll", "register",
                                 "session", "live", "reaping"}]
  /\ key      \in [Launchers -> Keys \cup {NoKey}]
  /\ proc     \in [Launchers -> Procs \cup {0}]
  /\ drivers  \in [Keys -> Procs \cup {0}]
  /\ child    \in [Procs -> Alive \cup {"none", "exited", "killed", "reaped"}]
  /\ port     \in [Procs -> Ports \cup {NoPort}]
  /\ nextProc \in 1 .. MaxProcs + 1
  /\ dropped  \in SUBSET Procs

Init ==
  /\ pc       = [l \in Launchers |-> "idle"]
  /\ key      = [l \in Launchers |-> NoKey]
  /\ proc     = [l \in Launchers |-> 0]
  /\ drivers  = [k \in Keys |-> 0]
  /\ child    = [p \in Procs |-> "none"]
  /\ port     = [p \in Procs |-> NoPort]
  /\ nextProc = 1
  /\ dropped  = {}

-----------------------------------------------------------------------------

(* Who keeps a process alive: its spawner, then the holders of an Arc to it. *)
Holders(p) ==
  {l \in Launchers : proc[l] = p /\ pc[l] \in {"poll", "register", "session", "live"}}

(* map.get(&key).and_then(Weak::upgrade) *)
Upgrades(k) == drivers[k] # 0 /\ Holders(drivers[k]) # {}

(* Drop of ManagedDriverProcess, or of the Child itself: the child is killed
   without waiting for it, once its last holder lets go. *)
LetGo(l) ==
  child' = [child EXCEPT ![proc[l]] = IF Holders(proc[l]) = {l} THEN "killed" ELSE @]

Leave(l) ==
  /\ pc'   = [pc EXCEPT ![l] = "idle"]
  /\ key'  = [key EXCEPT ![l] = NoKey]
  /\ proc' = [proc EXCEPT ![l] = 0]

Listener(x) == \E p \in Procs : child[p] = "listening" /\ port[p] = x

WantsToSpawn == {l \in Launchers : pc[l] \in {"fast", "check", "spawn"}}

-----------------------------------------------------------------------------
(* launch() *)

(* Version resolution and the download change nothing here.  A driver binary
   given by the user has a key of its own, and skips both and with them the
   first look at the map. *)
Launch(l, k) ==
  /\ pc[l] = "idle" /\ nextProc + Cardinality(WantsToSpawn) <= MaxProcs
  /\ pc' = [pc EXCEPT ![l] = IF k \in Manual THEN "check" ELSE "fast"]
  /\ key' = [key EXCEPT ![l] = k]
  /\ UNCHANGED <<proc, drivers, osVars, dropped>>

(* A look at the map under its lock: in ensure_driver before the download,
   then in spawn_or_reuse before the spawn. *)
Lookup(l) ==
  /\ pc[l] \in {"fast", "check"}
  /\ IF Upgrades(key[l])
     THEN /\ proc' = [proc EXCEPT ![l] = drivers[key[l]]]
          /\ pc' = [pc EXCEPT ![l] = "session"]
     ELSE /\ pc' = [pc EXCEPT ![l] = IF pc[l] = "fast" THEN "check" ELSE "spawn"]
          /\ UNCHANGED proc
  /\ UNCHANGED <<key, drivers, osVars, dropped>>

(* pick_port() binds and releases a free port, and the child is started on it
   without awaiting in between.  The retry around this is only for an error
   whose text says the address is in use; starting a program gives no such
   error, so any error here ends the launch. *)
SpawnChild(l) ==
  /\ pc[l] = "spawn"
  /\ \/ /\ \E x \in Ports : ~Listener(x) /\ port' = [port EXCEPT ![nextProc] = x]
        /\ child' = [child EXCEPT ![nextProc] = "starting"]
        /\ nextProc' = nextProc + 1
        /\ proc' = [proc EXCEPT ![l] = nextProc]
        /\ pc' = [pc EXCEPT ![l] = "poll"]
        /\ UNCHANGED key
     \/ /\ Leave(l)
        /\ UNCHANGED osVars
  /\ UNCHANGED <<drivers, dropped>>

(* wait_until_ready(): somebody answers GET /status on the port. *)
Ready(l) ==
  /\ pc[l] = "poll" /\ Listener(port[proc[l]])
  /\ pc' = [pc EXCEPT ![l] = "register"]
  /\ UNCHANGED <<key, proc, drivers, osVars, dropped>>

(* Mutant: the child is left running when it does not get ready. *)
NotReadyNoKill(l) ==
  /\ pc[l] = "poll"
  /\ Leave(l)
  /\ UNCHANGED <<drivers, osVars, dropped>>

(* ready_timeout expires: child.kill().await, then the error. *)
NotReady(l) ==
  /\ pc[l] = "poll"
  /\ child' = [child EXCEPT ![proc[l]] = "killed"]
  /\ pc' = [pc EXCEPT ![l] = "reaping"]
  /\ UNCHANGED <<key, proc, drivers, port, nextProc, dropped>>

(* The end of spawn_or_reuse.  A caller that lost the race takes the process
   that is registered and lets go of its own. *)
Register(l) ==
  /\ pc[l] = "register"
  /\ IF Upgrades(key[l])
     THEN /\ proc' = [proc EXCEPT ![l] = drivers[key[l]]]
          /\ LetGo(l)
          /\ dropped' = dropped \cup {proc[l]}
          /\ UNCHANGED drivers
     ELSE /\ drivers' = [drivers EXCEPT ![key[l]] = proc[l]]
          /\ UNCHANGED <<proc, child, dropped>>
  /\ pc' = [pc EXCEPT ![l] = "session"]
  /\ UNCHANGED <<key, port, nextProc>>

(* start_session(): the server at the url accepts the new session. *)
StartSession(l) ==
  /\ pc[l] = "session" /\ Listener(port[proc[l]])
  /\ pc' = [pc EXCEPT ![l] = "live"]
  /\ UNCHANGED <<key, proc, drivers, osVars, dropped>>

(* Mutant: a handle dropped without quit() leaks the child. *)
AbandonNoKill(l) ==
  /\ pc[l] \in {"fast", "check", "poll", "register", "session", "live", "reaping"}
  /\ dropped' = dropped \cup ({proc[l]} \ {0})
  /\ Leave(l)
  /\ UNCHANGED <<drivers, osVars>>

(* launch() returns an error from the resolution, the download or the new
   session, or its future or that of quit() is dropped at an await, or the
   WebDriver is dropped without quit(). *)
Abandon(l) ==
  /\ pc[l] \in {"fast", "check", "poll", "register", "session", "live", "reaping"}
  /\ IF l \in Holders(proc[l]) THEN LetGo(l) ELSE UNCHANGED child
  /\ dropped' = dropped \cup ({proc[l]} \ {0})
  /\ Leave(l)
  /\ UNCHANGED <<drivers, port, nextProc>>

-----------------------------------------------------------------------------
(* quit() *)

(* Mutant: every session shuts the driver down. *)
ReleaseKills(l) ==
  /\ pc[l] = "live"
  /\ child' = [child EXCEPT ![proc[l]] = "killed"]
  /\ pc' = [pc EXCEPT ![l] = "reaping"]
  /\ UNCHANGED <<key, proc, drivers, port, nextProc, dropped>>

(* SessionGuard::release: take() the Arc; Arc::into_inner gives the process
   to the last holder alone, who kills the child and waits for it. *)
Release(l) ==
  /\ pc[l] = "live"
  /\ IF Holders(proc[l]) = {l}
     THEN /\ child' = [child EXCEPT ![proc[l]] = "killed"]
          /\ pc' = [pc EXCEPT ![l] = "reaping"]
          /\ UNCHANGED <<key, proc>>
     ELSE /\ Leave(l)
          /\ UNCHANGED child
  /\ UNCHANGED <<drivers, port, nextProc, dropped>>

(* child.kill().await returns. *)
Reaped(l) ==
  /\ pc[l] = "reaping" /\ child[proc[l]] = "reaped"
  /\ Leave(l)
  /\ UNCHANGED <<drivers, osVars, dropped>>

-----------------------------------------------------------------------------
(* The children (external) *)

(* The driver binds its port, or exits because another one has it. *)
Bind(p) ==
  /\ child[p] = "starting"
  /\ child' = [child EXCEPT ![p] = IF Listener(port[p]) THEN "exited" ELSE "listening"]
  /\ UNCHANGED <<taskVars, drivers, port, nextProc, dropped>>

Crash(p) ==
  /\ child[p] \in Alive
  /\ child' = [child EXCEPT ![p] = "exited"]
  /\ UNCHANGED <<taskVars, drivers, port, nextProc, dropped>>

(* A killed child ends, and is waited for by shutdown() or by the runtime. *)
Reap(p) ==
  /\ child[p] = "killed"
  /\ child' = [child EXCEPT ![p] = "reaped"]
  /\ UNCHANGED <<taskVars, drivers, port, nextProc, dropped>>

-----------------------------------------------------------------------------

Step(l) == Lookup(l) \/ SpawnChild(l) \/ Ready(l) \/ NotReady(l) \/ Register(l) \/ Reaped(l)

Next ==
  \/ \E l \in Launchers :
       \/ \E k \in Keys : Launch(l, k)
       \/ Step(l) \/ StartSession(l) \/ Abandon(l) \/ Release(l)
  \/ \E p \in Procs : Bind(p) \/ Crash(p) \/ Reap(p)

(* Ready tasks are polled and ready_timeout expires; a killed process ends.
   Nobody owes a launch, a quit or the drop of a WebDriver. *)
Fairness ==
  /\ \A l \in Launchers : WF_vars(Step(l))
  /\ \A p \in Procs : WF_vars(Reap(p))

Spec     == Init /\ [][Next]_vars
FairSpec == Spec /\ Fairness

-----------------------------------------------------------------------------
(* Properties *)

HasSession(l) == pc[l] \in {"session", "live"}

(* Launches of one key share one process, also when they race: two sessions,
   or launches about to start theirs, never sit on two processes of a key. *)
OneDriverPerKey ==
  \A l, m \in Launchers :
    HasSession(l) /\ HasSession(m) /\ key[l] = key[m] => proc[l] = proc[m]

(* A child that nobody has killed has a holder who will: none is orphaned by
   a lost race, a readiness timeout, an error or a dropped future. *)
NoOrphan ==
  \A p \in Procs : child[p] \in Alive \cup {"exited"} => Holders(p) # {}

(* The manager never kills a driver under a session: whichever of the sharing
   sessions quit, fail or are dropped, and in whatever order. *)
DriverOutlivesSessions ==
  \A l \in Launchers : HasSession(l) => child[proc[l]] \notin {"killed", "reaped"}

(* web_driver.rs:361-362: quitting the final session waits for the driver
   process to exit.  So a process all of whose sessions ended by quit(), with
   no quit() still running, has been reaped. *)
FinalQuitReaps ==
  \A p \in Procs \ dropped :
    child[p] = "killed" => \E l \in Launchers : pc[l] = "reaping" /\ proc[l] = p

(* The abstract specification of the pool: a session is a lease from the time
   its task has the process, and a child is kept until somebody kills it. *)
leases == [l \in Launchers |-> IF HasSession(l) THEN <<key[l], proc[l]>> ELSE <<>>]
states == [p \in Procs |-> IF child[p] = "none" THEN "new"
                           ELSE IF child[p] \in {"killed", "reaped"} THEN "ended" ELSE "kept"]

Pool == INSTANCE DriverLease WITH
  Users <- Launchers, Processes <- Procs, lease <- leases, process <- states

(* Whatever the order in which launches race, retry and fail and sessions end,
   the pool is one that lends each key one process, and ends it once, with the
   last session on it. *)
ImplementsDriverLease == Pool!Spec

(* No child is without an owner, none is killed under a session, and a killed
   one is reaped by who killed it. *)
DriversAreOwned ==
  /\ TypeOK
  /\ OneDriverPerKey
  /\ NoOrphan
  /\ FinalQuitReaps
  /\ DriverOutlivesSessions

(* Once every task is done with its session for good, no child is left. *)
NothingLeftRunning ==
  <>[](\A l \in Launchers : pc[l] = "idle")
    => <>[](\A p \in Procs : child[p] \in {"none", "reaped"})

=============================================================================
