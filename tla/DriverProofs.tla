----------------------------- MODULE DriverProofs -----------------------------
(***************************************************************************)
(* Proofs about the local drivers: what is on the disk (DriverCache), what *)
(* runs (DriverPool), and what a launch gets (SessionConfig), for any      *)
(* number of tasks, keys, ports and processes, and for builders of any     *)
(* number of calls.                                                        *)
(*                                                                         *)
(* In the cache, whoever works on the entry has the lock, a driver that is *)
(* there is never downloaded again, and one that is complete is never      *)
(* written to again.  In the pool, sessions of one key share one process,  *)
(* nobody kills a driver under a session, and no child is without somebody *)
(* who will kill it.  A manager is what the last call for each thing asked *)
(* for, by induction over the calls; a launch gets a driver that fits, and *)
(* a handle has the configuration last put there.                          *)
(***************************************************************************)
EXTENDS DriverCache, DriverPool, SessionConfig, SequenceSums, FiniteSetTheorems, TLAPS

-----------------------------------------------------------------------------
(* The cache *)

(* Who is between the second look and the end of its work has the lock. *)
WorkerHasLock == \A t \in Tasks : at[t] \in Locked => lock = t

(* What the one worker finds at the places where it writes. *)
WorkerSees ==
  \A t \in Tasks : /\ at[t] \in {"fetch", "backoff", "create"} => file = "none"
                   /\ at[t] = "copy" => file = "partial"
                   /\ at[t] = "backoff" => attempt[t] < MaxAttempts

CacheInv == CacheTypeOK /\ WorkerHasLock /\ WorkerSees

LEMMA CacheInitOK == CacheInit => CacheInv
  BY NoTaskAssumption DEF CacheInit, CacheInv, CacheTypeOK, WorkerHasLock, WorkerSees, Locked, Blocking, MaxAttempts

(* One step keeps the invariant, whichever task makes it. *)
LEMMA CacheStepOK == CacheInv /\ [CacheNext]_cacheVars => CacheInv'
<1> SUFFICES ASSUME CacheInv, [CacheNext]_cacheVars PROVE CacheInv'
  OBVIOUS
<1> USE NoTaskAssumption DEF CacheInv, CacheTypeOK, WorkerHasLock, WorkerSees, Locked, Blocking, MaxAttempts, Return, Go, Free
<1>1. CASE UNCHANGED cacheVars
  BY <1>1 DEF cacheVars
<1>2. ASSUME NEW t \in Tasks, Ensure(t) PROVE CacheInv'
  BY <1>2 DEF Ensure
<1>3. ASSUME NEW t \in Tasks, Look(t) PROVE CacheInv'
  BY <1>3 DEF Look
<1>4. ASSUME NEW t \in Tasks, Open(t) PROVE CacheInv'
  BY <1>4 DEF Open
<1>5. ASSUME NEW t \in Tasks, Fetch(t) PROVE CacheInv'
  BY <1>5 DEF Fetch
<1>6. ASSUME NEW t \in Tasks, Backoff(t) PROVE CacheInv'
  BY <1>6 DEF Backoff
<1>7. ASSUME NEW t \in Tasks, Create(t) PROVE CacheInv'
  BY <1>7 DEF Create
<1>8. ASSUME NEW t \in Tasks, Copy(t) PROVE CacheInv'
  BY <1>8 DEF Copy
<1>9. ASSUME NEW t \in Tasks, Chmod(t) PROVE CacheInv'
  BY <1>9 DEF Chmod
<1>10. ASSUME NEW t \in Tasks, Lock(t) PROVE CacheInv'
  BY <1>10 DEF Lock
<1>11. ASSUME NEW t \in Tasks, Cancel(t) \/ Die(t) PROVE CacheInv'
  BY <1>11 DEF Cancel, Die
<1> QED
  BY <1>1, <1>2, <1>3, <1>4, <1>5, <1>6, <1>7, <1>8, <1>9, <1>10, <1>11 DEF CacheNext, CacheStep

(* The state of the entry, the lock and the work agree in every reachable
   state, through crashes and cancellations. *)
THEOREM CacheInductive == CacheSpec => []CacheInv
  BY CacheInitOK, CacheStepOK, PTL DEF CacheSpec

(* The types of DriverCache. *)
THEOREM CacheTypeCorrect == CacheSpec => []CacheTypeOK
<1>1. CacheInv => CacheTypeOK
  BY DEF CacheInv
<1> QED
  BY <1>1, CacheInductive, PTL

(* Nobody downloads a driver that is in the cache (download.rs:434-446). *)
THEOREM NothingIsDownloadedTwice == CacheSpec => []NoSecondDownload
<1>1. CacheInv => NoSecondDownload
  BY DEF CacheInv, WorkerSees, NoSecondDownload
<1> QED
  BY <1>1, CacheInductive, PTL

(* Who looked first without the lock writes to nothing that is complete
   (download.rs:400-432 and 677). *)
THEOREM CompleteIsFinal == CacheSpec => ReadyStaysReady
<1>1. CacheInv /\ [CacheNext]_cacheVars => [file = "ready" => file' = "ready"]_cacheVars
  <2> SUFFICES ASSUME CacheInv, CacheNext, file = "ready" PROVE file' = "ready"
    OBVIOUS
  <2> USE DEF CacheInv, CacheTypeOK, WorkerSees
  <2>1. ASSUME NEW t \in Tasks, Create(t) PROVE file' = "ready"
    BY <2>1 DEF Create
  <2>2. ASSUME NEW t \in Tasks, Copy(t) PROVE file' = "ready"
    BY <2>2 DEF Copy
  <2>3. ASSUME NEW t \in Tasks, Chmod(t) PROVE file' = "ready"
    BY <2>3 DEF Chmod
  <2>4. ASSUME NEW t \in Tasks,
               Ensure(t) \/ Look(t) \/ Open(t) \/ Fetch(t) \/ Backoff(t) \/ Lock(t) \/ Cancel(t) \/ Die(t)
        PROVE  file' = "ready"
    BY <2>4 DEF Ensure, Look, Open, Fetch, Backoff, Lock, Cancel, Die
  <2> QED
    BY <2>1, <2>2, <2>3, <2>4 DEF CacheNext, CacheStep
<1> QED
  BY <1>1, CacheInductive, PTL DEF CacheSpec, ReadyStaysReady

(* download.rs:432-446: the cache is filled once. *)
THEOREM CacheIsFilledOnce == CacheSpec => []FilledOnce
<1>1. CacheTypeOK /\ NoSecondDownload => FilledOnce
  BY DEF FilledOnce
<1> QED
  BY <1>1, CacheTypeCorrect, NothingIsDownloadedTwice, PTL

(* Both, which is what the model checker is asked of four launches
   (download.rs:415-464). *)
THEOREM CacheKeepsItsDriver == CacheSpec => CacheIsSafe
  BY CacheIsFilledOnce, CompleteIsFinal DEF CacheIsSafe

-----------------------------------------------------------------------------
(* The pool *)

Holding == {"poll", "register", "session", "live"}

(* A task that has launched has a key; one that has spawned, or joined, has a
   process that was started, and nobody else has any. *)
TasksFollow ==
  \A l \in Launchers : /\ pc[l] # "idle" => key[l] \in Keys
                       /\ pc[l] \in Holding \cup {"reaping"} => proc[l] \in 1 .. nextProc - 1
                       /\ pc[l] \in {"idle", "fast", "check", "spawn"} => proc[l] = 0

(* Processes are started in the order of their numbers. *)
ProcsFollow ==
  /\ \A p \in Procs : child[p] = "none" <=> p >= nextProc
  /\ \A k \in Keys : drivers[k] \in 0 .. nextProc - 1

(* Who is on the way to a spawn is sure of a number. *)
SpawnsAreBounded == nextProc + Cardinality(WantsToSpawn) <= MaxProcs + 1

(* What somebody holds, nobody has killed. *)
HeldIsNotKilled ==
  \A l \in Launchers : pc[l] \in Holding => child[proc[l]] \notin {"killed", "reaped"}

(* Until it is registered, a process is its spawner's alone. *)
SpawnedIsOwn ==
  \A l \in Launchers : pc[l] \in {"poll", "register"} =>
    /\ \A m \in Launchers \ {l} : pc[m] \in Holding => proc[m] # proc[l]
    /\ \A k \in Keys : drivers[k] # proc[l]

(* The map points to the process that the sessions of the key sit on. *)
SessionsAreRegistered == \A l \in Launchers : HasSession(l) => drivers[key[l]] = proc[l]

IInv == /\ TypeOK
        /\ NoOrphan
        /\ FinalQuitReaps
        /\ TasksFollow
        /\ ProcsFollow
        /\ SpawnsAreBounded
        /\ HeldIsNotKilled
        /\ SpawnedIsOwn
        /\ SessionsAreRegistered

-----------------------------------------------------------------------------

LEMMA WantsAreFinite == IsFiniteSet(WantsToSpawn) /\ Cardinality(WantsToSpawn) \in Nat
<1>1. WantsToSpawn \subseteq Launchers
  BY DEF WantsToSpawn
<1> QED
  BY <1>1, LaunchersAssumption, FS_Subset, FS_CardinalityType

LEMMA InitOK == Init => IInv
<1> SUFFICES ASSUME Init PROVE IInv
  OBVIOUS
<1>1. WantsToSpawn = {}
  BY DEF Init, WantsToSpawn
<1>2. SpawnsAreBounded
  BY <1>1, FS_EmptySet, MaxProcsAssumption DEF Init, SpawnsAreBounded
<1>3. TypeOK /\ NoOrphan /\ FinalQuitReaps
  BY MaxProcsAssumption DEF Init, TypeOK, NoOrphan, FinalQuitReaps, Procs, Alive
<1>4. TasksFollow /\ ProcsFollow
  BY MaxProcsAssumption DEF Init, TasksFollow, ProcsFollow, Procs, Holding
<1>5. HeldIsNotKilled /\ SpawnedIsOwn /\ SessionsAreRegistered
  BY DEF Init, HeldIsNotKilled, SpawnedIsOwn, SessionsAreRegistered, HasSession, Holding
<1> QED
  BY <1>2, <1>3, <1>4, <1>5 DEF IInv

(* A task that stops wanting to spawn, or wants no more than before. *)
LEMMA WantsNoMore ==
  ASSUME IInv, WantsToSpawn' \subseteq WantsToSpawn, nextProc' = nextProc
  PROVE  SpawnsAreBounded'
<1>1. Cardinality(WantsToSpawn') <= Cardinality(WantsToSpawn) /\ Cardinality(WantsToSpawn') \in Nat
  <2>1. IsFiniteSet(WantsToSpawn')
    BY WantsAreFinite, FS_Subset
  <2> QED
    BY <2>1, WantsAreFinite, FS_Subset, FS_CardinalityType
<1> QED
  BY <1>1, WantsAreFinite, MaxProcsAssumption DEF IInv, SpawnsAreBounded, TypeOK

LEMMA LaunchOK ==
  ASSUME NEW l \in Launchers, NEW k \in Keys, IInv, Launch(l, k) PROVE IInv'
<1> USE DEF IInv, Launch, osVars
<1>1. TypeOK'
  BY DEF TypeOK
<1>2. NoOrphan' /\ FinalQuitReaps'
  BY DEF NoOrphan, FinalQuitReaps, Holders, TypeOK
<1>3. TasksFollow' /\ ProcsFollow'
  BY DEF TasksFollow, ProcsFollow, TypeOK, Holding
<1>4. SpawnsAreBounded'
  <2>1. WantsToSpawn' = WantsToSpawn \cup {l} /\ l \notin WantsToSpawn
    BY DEF WantsToSpawn, TypeOK
  <2>2. Cardinality(WantsToSpawn') = Cardinality(WantsToSpawn) + 1
    BY <2>1, WantsAreFinite, FS_AddElement
  <2> QED
    BY <2>2, WantsAreFinite, MaxProcsAssumption DEF SpawnsAreBounded, TypeOK
<1>5. HeldIsNotKilled' /\ SpawnedIsOwn' /\ SessionsAreRegistered'
  BY DEF HeldIsNotKilled, SpawnedIsOwn, SessionsAreRegistered, HasSession, Holding, TypeOK
<1> QED
  BY <1>1, <1>2, <1>3, <1>4, <1>5

LEMMA LookupOK ==
  ASSUME NEW l \in Launchers, IInv, Lookup(l) PROVE IInv'
<1> USE DEF IInv, Lookup, osVars
<1>1. key[l] \in Keys /\ proc[l] = 0
  BY DEF TasksFollow
<1>2. SpawnsAreBounded'
  <2>1. WantsToSpawn' \subseteq WantsToSpawn
    BY DEF WantsToSpawn, TypeOK
  <2> QED
    BY <2>1, WantsNoMore
<1>3. CASE Upgrades(key[l])
  <2>1. PICK m \in Launchers : m \in Holders(drivers[key[l]])
    BY <1>3 DEF Upgrades, Holders
  <2>2. /\ pc[m] \in Holding /\ proc[m] = drivers[key[l]] /\ m # l
        /\ drivers[key[l]] \in 1 .. nextProc - 1
    BY <2>1, <1>1, <1>3 DEF Holders, Holding, Upgrades, ProcsFollow, TypeOK, Procs
  <2>3. child[drivers[key[l]]] \notin {"killed", "reaped"}
    BY <2>2 DEF HeldIsNotKilled
  <2>4. proc' = [proc EXCEPT ![l] = drivers[key[l]]] /\ pc' = [pc EXCEPT ![l] = "session"]
    BY <1>3
  <2>5. TypeOK'
    BY <1>1, <2>4 DEF TypeOK
  <2>6. NoOrphan' /\ FinalQuitReaps'
    <3>1. \A p \in Procs : Holders(p) \subseteq Holders(p)'
      BY <1>1, <2>4, <2>2 DEF Holders, TypeOK
    <3>2. NoOrphan'
      BY <3>1 DEF NoOrphan
    <3> QED
      BY <3>2, <2>4 DEF FinalQuitReaps, TypeOK
  <2>7. TasksFollow' /\ ProcsFollow'
    BY <1>1, <2>2, <2>4 DEF TasksFollow, ProcsFollow, TypeOK, Holding
  <2>8. HeldIsNotKilled' /\ SessionsAreRegistered'
    BY <1>1, <2>3, <2>4 DEF HeldIsNotKilled, SessionsAreRegistered, HasSession, TypeOK
  <2>9. SpawnedIsOwn'
    BY <1>1, <2>4 DEF SpawnedIsOwn, TypeOK
  <2> QED
    BY <1>2, <2>5, <2>6, <2>7, <2>8, <2>9
<1>4. CASE ~Upgrades(key[l])
  <2>1. UNCHANGED proc /\ pc' = [pc EXCEPT ![l] = IF pc[l] = "fast" THEN "check" ELSE "spawn"]
    BY <1>4
  <2>2. TypeOK'
    BY <2>1 DEF TypeOK
  <2>3. NoOrphan' /\ FinalQuitReaps'
    BY <2>1 DEF NoOrphan, FinalQuitReaps, Holders, TypeOK
  <2>4. TasksFollow' /\ ProcsFollow'
    BY <1>1, <2>1 DEF TasksFollow, ProcsFollow, TypeOK, Holding
  <2>5. HeldIsNotKilled' /\ SpawnedIsOwn' /\ SessionsAreRegistered'
    BY <2>1 DEF HeldIsNotKilled, SpawnedIsOwn, SessionsAreRegistered, HasSession, Holding, TypeOK
  <2> QED
    BY <1>2, <2>2, <2>3, <2>4, <2>5
<1> QED
  BY <1>3, <1>4

(* A task that holds no process that is still to be killed leaves. *)
LEMMA LeaveOK ==
  ASSUME NEW l \in Launchers, IInv, Leave(l), pc[l] # "idle", UNCHANGED <<drivers, osVars>>,
         dropped' \in SUBSET Procs, dropped \subseteq dropped',
         pc[l] \in Holding => Holders(proc[l]) # {l},
         pc[l] = "reaping" => child[proc[l]] # "killed" \/ proc[l] \in dropped'
  PROVE  IInv'
<1> USE DEF IInv, Leave, osVars
<1>1. TypeOK'
  BY DEF TypeOK
<1>2. NoOrphan'
  <2> SUFFICES ASSUME NEW p \in Procs, child[p] \in Alive \cup {"exited"} PROVE Holders(p)' # {}
    BY DEF NoOrphan
  <2>1. PICK m \in Launchers : m \in Holders(p)
    BY DEF NoOrphan, Holders
  <2>2. CASE m # l
    BY <2>1, <2>2 DEF Holders, TypeOK
  <2>3. CASE m = l
    <3>1. pc[l] \in Holding /\ proc[l] = p
      BY <2>1, <2>3 DEF Holders, Holding
    <3>2. PICK n \in Launchers : n # l /\ n \in Holders(p)
      BY <2>1, <2>3, <3>1 DEF Holders
    <3> QED
      BY <3>2 DEF Holders, TypeOK
  <2> QED
    BY <2>2, <2>3
<1>3. FinalQuitReaps'
  BY DEF FinalQuitReaps, TypeOK
<1>4. TasksFollow' /\ ProcsFollow'
  BY DEF TasksFollow, ProcsFollow, TypeOK, Holding
<1>5. SpawnsAreBounded'
  <2>1. WantsToSpawn' \subseteq WantsToSpawn
    BY DEF WantsToSpawn, TypeOK
  <2> QED
    BY <2>1, WantsNoMore
<1>6. HeldIsNotKilled' /\ SpawnedIsOwn' /\ SessionsAreRegistered'
  BY DEF HeldIsNotKilled, SpawnedIsOwn, SessionsAreRegistered, HasSession, Holding, TypeOK
<1> QED
  BY <1>1, <1>2, <1>3, <1>4, <1>5, <1>6

(* The last holder of a process has it killed. *)
LEMMA KillOK ==
  ASSUME NEW l \in Launchers, IInv, pc[l] \in Holding, Holders(proc[l]) = {l},
         child' = [child EXCEPT ![proc[l]] = "killed"], UNCHANGED <<drivers, port, nextProc>>,
         \/ Leave(l) /\ dropped' = dropped \cup {proc[l]}
         \/ pc' = [pc EXCEPT ![l] = "reaping"] /\ UNCHANGED <<key, proc, dropped>>
  PROVE  IInv'
<1> USE DEF IInv, Leave
<1>1. proc[l] \in Procs /\ proc[l] \in 1 .. nextProc - 1
  BY DEF TasksFollow, TypeOK, Procs
<1>2. \A m \in Launchers \ {l} : pc[m] \in Holding => proc[m] # proc[l]
  BY DEF Holders, Holding
<1>3. TypeOK'
  BY <1>1 DEF TypeOK
<1>4. NoOrphan'
  <2> SUFFICES ASSUME NEW p \in Procs, child'[p] \in Alive \cup {"exited"} PROVE Holders(p)' # {}
    BY DEF NoOrphan
  <2>1. p # proc[l] /\ child[p] = child'[p]
    BY <1>1 DEF Alive, TypeOK
  <2>2. PICK m \in Launchers : m \in Holders(p)
    BY <2>1 DEF NoOrphan, Holders
  <2> QED
    BY <2>1, <2>2 DEF Holders, TypeOK
<1>5. FinalQuitReaps'
  BY <1>1 DEF FinalQuitReaps, TypeOK, Holding
<1>6. TasksFollow' /\ ProcsFollow'
  BY <1>1 DEF TasksFollow, ProcsFollow, TypeOK, Holding, Procs
<1>7. SpawnsAreBounded'
  <2>1. WantsToSpawn' \subseteq WantsToSpawn
    BY DEF WantsToSpawn, TypeOK
  <2> QED
    BY <2>1, WantsNoMore
<1>8. HeldIsNotKilled'
  BY <1>1, <1>2 DEF HeldIsNotKilled, TypeOK, Holding
<1>9. SpawnedIsOwn' /\ SessionsAreRegistered'
  BY DEF SpawnedIsOwn, SessionsAreRegistered, HasSession, Holding, TypeOK
<1> QED
  BY <1>3, <1>4, <1>5, <1>6, <1>7, <1>8, <1>9

LEMMA SpawnChildOK ==
  ASSUME NEW l \in Launchers, IInv, SpawnChild(l) PROVE IInv'
<1>1. CASE Leave(l) /\ UNCHANGED osVars
  BY <1>1, LeaveOK DEF SpawnChild, Holding, IInv, TypeOK
<1>2. ASSUME NEW x \in Ports, port' = [port EXCEPT ![nextProc] = x],
             child' = [child EXCEPT ![nextProc] = "starting"], nextProc' = nextProc + 1,
             proc' = [proc EXCEPT ![l] = nextProc], pc' = [pc EXCEPT ![l] = "poll"], UNCHANGED key
      PROVE  IInv'
  <2> USE <1>2 DEF IInv, SpawnChild
  <2>1. /\ WantsToSpawn' = WantsToSpawn \ {l} /\ l \in WantsToSpawn
        /\ nextProc \in 1 .. MaxProcs + 1 /\ MaxProcs \in Nat
    BY MaxProcsAssumption DEF WantsToSpawn, TypeOK
  <2>2. Cardinality(WantsToSpawn') = Cardinality(WantsToSpawn) - 1 /\ Cardinality(WantsToSpawn') \in Nat
    BY <2>1, WantsAreFinite, FS_RemoveElement, FS_CardinalityType
  <2>3. nextProc \in Procs
    BY <2>1, <2>2, WantsAreFinite DEF SpawnsAreBounded, Procs
  <2>4. SpawnsAreBounded'
    BY <2>1, <2>2, WantsAreFinite DEF SpawnsAreBounded
  <2>5. TypeOK'
    BY <2>1, <2>3 DEF TypeOK, Alive, Procs
  <2>6. child[nextProc] = "none" /\ proc[l] = 0
    BY <2>1, <2>3 DEF ProcsFollow, TasksFollow
  <2>7. NoOrphan'
    <3> SUFFICES ASSUME NEW p \in Procs, child'[p] \in Alive \cup {"exited"} PROVE Holders(p)' # {}
      BY DEF NoOrphan
    <3>1. CASE p = nextProc
      BY <3>1 DEF Holders, TypeOK
    <3>2. CASE p # nextProc
      <4>1. PICK m \in Launchers : m \in Holders(p)
        BY <3>2 DEF NoOrphan, Holders, TypeOK
      <4>2. m # l
        BY <2>6, <4>1 DEF Holders, Procs
      <4> QED
        BY <4>1, <4>2 DEF Holders, TypeOK
    <3> QED
      BY <3>1, <3>2
  <2>8. FinalQuitReaps'
    BY <2>6 DEF FinalQuitReaps, TypeOK
  <2>9. TasksFollow'
    BY <2>1, <2>3 DEF TasksFollow, TypeOK, Holding
  <2>10. ProcsFollow'
    BY <2>1, <2>3 DEF ProcsFollow, TypeOK, Procs
  <2>11. \A m \in Launchers \ {l} : pc[m] \in Holding => proc[m] # nextProc
    BY <2>1 DEF TasksFollow, Holding
  <2>12. \A k \in Keys : drivers[k] # nextProc
    BY <2>1 DEF ProcsFollow
  <2>13. HeldIsNotKilled'
    BY <2>3, <2>11 DEF HeldIsNotKilled, TypeOK, Holding
  <2>14. SpawnedIsOwn'
    BY <2>11, <2>12 DEF SpawnedIsOwn, TypeOK, Holding
  <2>15. SessionsAreRegistered'
    BY DEF SessionsAreRegistered, HasSession, TypeOK
  <2> QED
    BY <2>4, <2>5, <2>7, <2>8, <2>9, <2>10, <2>13, <2>14, <2>15
<1> QED
  BY <1>1, <1>2 DEF SpawnChild

(* The two answers of a server: no process changes hands. *)
LEMMA AnsweredOK ==
  ASSUME NEW l \in Launchers, IInv, Ready(l) \/ StartSession(l) PROVE IInv'
<1> USE DEF IInv, Ready, StartSession, osVars
<1>1. TypeOK'
  BY DEF TypeOK
<1>2. NoOrphan' /\ FinalQuitReaps'
  BY DEF NoOrphan, FinalQuitReaps, Holders, TypeOK
<1>3. TasksFollow' /\ ProcsFollow'
  BY DEF TasksFollow, ProcsFollow, TypeOK, Holding
<1>4. SpawnsAreBounded'
  <2>1. WantsToSpawn' \subseteq WantsToSpawn
    BY DEF WantsToSpawn, TypeOK
  <2> QED
    BY <2>1, WantsNoMore
<1>5. HeldIsNotKilled' /\ SpawnedIsOwn' /\ SessionsAreRegistered'
  BY DEF HeldIsNotKilled, SpawnedIsOwn, SessionsAreRegistered, HasSession, Holding, TypeOK
<1> QED
  BY <1>1, <1>2, <1>3, <1>4, <1>5

LEMMA SpawnerIsAlone ==
  ASSUME NEW l \in Launchers, IInv, pc[l] \in {"poll", "register"} PROVE Holders(proc[l]) = {l}
  BY DEF IInv, SpawnedIsOwn, Holders, Holding

LEMMA NotReadyOK ==
  ASSUME NEW l \in Launchers, IInv, NotReady(l) PROVE IInv'
  BY SpawnerIsAlone, KillOK DEF NotReady, Holding

LEMMA ReleaseOK ==
  ASSUME NEW l \in Launchers, IInv, Release(l) PROVE IInv'
<1>1. CASE Holders(proc[l]) = {l}
  BY <1>1, KillOK DEF Release, Holding
<1>2. CASE Holders(proc[l]) # {l}
  BY <1>2, LeaveOK DEF Release, osVars, IInv, TypeOK
<1> QED
  BY <1>1, <1>2

LEMMA ReapedOK ==
  ASSUME NEW l \in Launchers, IInv, Reaped(l) PROVE IInv'
  BY LeaveOK DEF Reaped, IInv, TypeOK, Holding

LEMMA AbandonOK ==
  ASSUME NEW l \in Launchers, IInv, Abandon(l) PROVE IInv'
<1>1. proc[l] \in Procs \cup {0} /\ child \in [Procs -> Alive \cup {"none", "exited", "killed", "reaped"}]
  BY DEF IInv, TypeOK
<1>2. pc[l] \in Holding => proc[l] \in Procs
  BY DEF IInv, TasksFollow, TypeOK, Procs
<1>3. l \in Holders(proc[l]) <=> pc[l] \in Holding
  BY DEF Holders, Holding
<1>4. CASE pc[l] \in Holding /\ Holders(proc[l]) = {l}
  <2>1. child' = [child EXCEPT ![proc[l]] = "killed"] /\ dropped' = dropped \cup {proc[l]}
    BY <1>2, <1>3, <1>4 DEF Abandon, LetGo, Procs
  <2> QED
    BY <1>4, <2>1, KillOK DEF Abandon
<1>5. CASE pc[l] \in Holding /\ Holders(proc[l]) # {l}
  <2>1. child' = child
    BY <1>1, <1>2, <1>3, <1>5 DEF Abandon, LetGo
  <2> QED
    BY <1>5, <2>1, <1>1, LeaveOK DEF Abandon, osVars, IInv, TypeOK, Holding
<1>6. CASE pc[l] \notin Holding
  <2>1. child' = child /\ (pc[l] = "reaping" => proc[l] \in dropped')
    BY <1>3, <1>6 DEF Abandon, IInv, TasksFollow
  <2> QED
    BY <1>6, <2>1, <1>1, LeaveOK DEF Abandon, osVars, IInv, TypeOK, Holding
<1> QED
  BY <1>4, <1>5, <1>6

LEMMA RegisterOK ==
  ASSUME NEW l \in Launchers, IInv, Register(l) PROVE IInv'
<1> USE DEF IInv, Register
<1>1. /\ key[l] \in Keys /\ proc[l] \in Procs /\ proc[l] \in 1 .. nextProc - 1
      /\ Holders(proc[l]) = {l}
  BY SpawnerIsAlone DEF TasksFollow, TypeOK, Holding, Procs
<1>2. /\ child[proc[l]] \notin {"killed", "reaped"}
      /\ \A m \in Launchers \ {l} : pc[m] \in Holding => proc[m] # proc[l]
      /\ \A k \in Keys : drivers[k] # proc[l]
  BY DEF HeldIsNotKilled, SpawnedIsOwn, Holding
<1>3. SpawnsAreBounded'
  <2>1. WantsToSpawn' \subseteq WantsToSpawn
    BY DEF WantsToSpawn, TypeOK
  <2> QED
    BY <2>1, WantsNoMore
<1>4. CASE Upgrades(key[l])
  <2>1. PICK m \in Launchers : m \in Holders(drivers[key[l]])
    BY <1>4 DEF Upgrades, Holders
  <2> DEFINE d == drivers[key[l]]
  <2>2. d \in Procs /\ d \in 1 .. nextProc - 1 /\ d # proc[l] /\ child[d] \notin {"killed", "reaped"}
    BY <2>1, <1>1, <1>2, <1>4 DEF Upgrades, Holders, Holding, TypeOK, ProcsFollow, HeldIsNotKilled, Procs
  <2>3. /\ proc' = [proc EXCEPT ![l] = d] /\ pc' = [pc EXCEPT ![l] = "session"]
        /\ child' = [child EXCEPT ![proc[l]] = "killed"]
        /\ dropped' = dropped \cup {proc[l]} /\ drivers' = drivers
    BY <1>1, <1>4 DEF LetGo
  <2> HIDE DEF d
  <2>4. TypeOK'
    BY <1>1, <2>2, <2>3 DEF TypeOK
  <2>5. NoOrphan'
    <3> SUFFICES ASSUME NEW p \in Procs, child'[p] \in Alive \cup {"exited"} PROVE Holders(p)' # {}
      BY DEF NoOrphan
    <3>1. p # proc[l] /\ child[p] = child'[p]
      BY <1>1, <2>3 DEF Alive, TypeOK
    <3>2. PICK n \in Launchers : n \in Holders(p)
      BY <3>1 DEF NoOrphan, Holders
    <3>3. n # l
      BY <3>1, <3>2 DEF Holders
    <3> QED
      BY <2>3, <3>2, <3>3 DEF Holders, TypeOK
  <2>6. FinalQuitReaps'
    BY <1>1, <2>3 DEF FinalQuitReaps, TypeOK
  <2>7. TasksFollow' /\ ProcsFollow'
    BY <1>1, <2>2, <2>3 DEF TasksFollow, ProcsFollow, TypeOK, Holding, Procs
  <2>8. HeldIsNotKilled'
    BY <1>2, <2>2, <2>3, <1>1 DEF HeldIsNotKilled, TypeOK, Holding
  <2>9. SpawnedIsOwn'
    <3>1. \A n \in Launchers : pc[n] \in {"poll", "register"} => proc[n] # d
      BY <1>1 DEF SpawnedIsOwn, d
    <3> QED
      BY <2>3, <3>1 DEF SpawnedIsOwn, TypeOK, Holding
  <2>10. SessionsAreRegistered'
    BY <1>1, <2>3 DEF SessionsAreRegistered, HasSession, TypeOK, d
  <2> QED
    BY <1>3, <2>4, <2>5, <2>6, <2>7, <2>8, <2>9, <2>10
<1>5. CASE ~Upgrades(key[l])
  <2>1. /\ drivers' = [drivers EXCEPT ![key[l]] = proc[l]] /\ pc' = [pc EXCEPT ![l] = "session"]
        /\ UNCHANGED <<proc, child, dropped>>
    BY <1>5
  <2>2. TypeOK'
    BY <1>1, <2>1 DEF TypeOK
  <2>3. NoOrphan' /\ FinalQuitReaps'
    BY <2>1 DEF NoOrphan, FinalQuitReaps, Holders, TypeOK
  <2>4. TasksFollow' /\ ProcsFollow'
    BY <1>1, <2>1 DEF TasksFollow, ProcsFollow, TypeOK, Holding
  <2>5. HeldIsNotKilled'
    BY <2>1 DEF HeldIsNotKilled, Holding, TypeOK
  <2>6. SpawnedIsOwn'
    BY <1>1, <1>2, <2>1 DEF SpawnedIsOwn, TypeOK, Holding
  <2>7. \A m \in Launchers : HasSession(m) => key[m] # key[l]
    <3> SUFFICES ASSUME NEW m \in Launchers, HasSession(m), key[m] = key[l] PROVE FALSE
      OBVIOUS
    <3>1. drivers[key[l]] = proc[m] /\ m \in Holders(proc[m]) /\ proc[m] # 0
      BY DEF SessionsAreRegistered, HasSession, Holders, TasksFollow, Holding
    <3> QED
      BY <3>1, <1>5 DEF Upgrades
  <2>8. SessionsAreRegistered'
    BY <1>1, <2>1, <2>7 DEF SessionsAreRegistered, HasSession, TypeOK
  <2> QED
    BY <1>3, <2>2, <2>3, <2>4, <2>5, <2>6, <2>8
<1> QED
  BY <1>4, <1>5

(* What the children do by themselves. *)
LEMMA ChildOK ==
  ASSUME NEW p \in Procs, IInv, Bind(p) \/ Crash(p) \/ Reap(p) PROVE IInv'
<1> USE DEF IInv, Bind, Crash, Reap, taskVars
<1>1. PICK c \in {"listening", "exited", "reaped"} : child' = [child EXCEPT ![p] = c]
  OBVIOUS
<1>2. child[p] # "none" /\ (c = "reaped" <=> child[p] = "killed")
  BY <1>1 DEF Alive, TypeOK
<1>3. TypeOK'
  BY <1>1 DEF TypeOK, Alive
<1>4. NoOrphan'
  BY <1>1, <1>2 DEF NoOrphan, Holders, TypeOK, Alive
<1>5. FinalQuitReaps'
  BY <1>1 DEF FinalQuitReaps, TypeOK
<1>6. TasksFollow' /\ ProcsFollow'
  BY <1>1, <1>2 DEF TasksFollow, ProcsFollow, TypeOK
<1>7. SpawnsAreBounded'
  BY WantsNoMore DEF WantsToSpawn
<1>8. HeldIsNotKilled' /\ SpawnedIsOwn' /\ SessionsAreRegistered'
  BY <1>1, <1>2 DEF HeldIsNotKilled, SpawnedIsOwn, SessionsAreRegistered, HasSession, TypeOK
<1> QED
  BY <1>3, <1>4, <1>5, <1>6, <1>7, <1>8

LEMMA StutterOK ==
  ASSUME IInv, UNCHANGED vars PROVE IInv'
<1> USE DEF IInv, vars
<1>1. SpawnsAreBounded'
  BY WantsNoMore DEF WantsToSpawn
<1>2. TypeOK' /\ NoOrphan' /\ FinalQuitReaps'
  BY DEF TypeOK, NoOrphan, FinalQuitReaps, Holders
<1>3. TasksFollow' /\ ProcsFollow' /\ HeldIsNotKilled' /\ SpawnedIsOwn' /\ SessionsAreRegistered'
  BY DEF TasksFollow, ProcsFollow, HeldIsNotKilled, SpawnedIsOwn, SessionsAreRegistered, HasSession
<1> QED
  BY <1>1, <1>2, <1>3

-----------------------------------------------------------------------------
(* Theorems *)

(* Tasks, processes and the map fit together in every reachable state. *)
THEOREM Inductive == Spec => []IInv
<1>1. IInv /\ [Next]_vars => IInv'
  <2> SUFFICES ASSUME IInv, [Next]_vars PROVE IInv'
    OBVIOUS
  <2>1. ASSUME NEW l \in Launchers, NEW k \in Keys, Launch(l, k) PROVE IInv'
    BY <2>1, LaunchOK
  <2>2. ASSUME NEW l \in Launchers, Step(l) PROVE IInv'
    BY <2>2, LookupOK, SpawnChildOK, AnsweredOK, NotReadyOK, RegisterOK, ReapedOK DEF Step
  <2>3. ASSUME NEW l \in Launchers, StartSession(l) \/ Abandon(l) \/ Release(l) PROVE IInv'
    BY <2>3, AnsweredOK, AbandonOK, ReleaseOK
  <2>4. ASSUME NEW p \in Procs, Bind(p) \/ Crash(p) \/ Reap(p) PROVE IInv'
    BY <2>4, ChildOK
  <2> QED
    BY <2>1, <2>2, <2>3, <2>4, StutterOK DEF Next
<1> QED
  BY <1>1, InitOK, PTL DEF Spec

(* The types of DriverPool. *)
THEOREM TypeCorrect == Spec => []TypeOK
<1>1. IInv => TypeOK
  BY DEF IInv
<1> QED
  BY <1>1, Inductive, PTL

(* Sessions and launches of one key share one process, every child has an
   owner who will kill it, and who kills one by quit() waits for it
   (spawn_or_reuse in manager.rs, spawn_at_port in process.rs). *)
THEOREM Owned == Spec => []DriversAreOwned
<1>1. IInv => OneDriverPerKey
  BY DEF IInv, SessionsAreRegistered, OneDriverPerKey
<1>2. IInv => DriverOutlivesSessions
  BY DEF IInv, HeldIsNotKilled, DriverOutlivesSessions, HasSession, Holding
<1>3. IInv => DriversAreOwned
  BY <1>1, <1>2 DEF IInv, DriversAreOwned
<1> QED
  BY <1>3, Inductive, PTL

(* Whichever of the sharing sessions end, in whatever order, the process is
   not killed under the others (SessionGuard::release, manager.rs:176-186). *)
THEOREM OutlivesSessions == Spec => []DriverOutlivesSessions
<1>1. IInv => DriverOutlivesSessions
  BY DEF IInv, HeldIsNotKilled, DriverOutlivesSessions, HasSession, Holding
<1> QED
  BY <1>1, Inductive, PTL

-----------------------------------------------------------------------------
(* The refinement *)

(* A process is registered for one key. *)
KeysApart == \A j, k \in Keys : drivers[j] # 0 /\ drivers[j] = drivers[k] => j = k

LEMMA KeysApartOK ==
  ASSUME IInv, KeysApart, [Next]_vars PROVE KeysApart'
<1> USE DEF KeysApart
<1>1. ASSUME NEW l \in Launchers, Register(l) PROVE KeysApart'
  <2>1. \A k \in Keys : drivers[k] # proc[l]
    BY <1>1 DEF IInv, SpawnedIsOwn, Register
  <2>2. key[l] \in Keys /\ drivers \in [Keys -> Procs \cup {0}]
    BY <1>1 DEF IInv, TasksFollow, Register, TypeOK
  <2> QED
    BY <1>1, <2>1, <2>2 DEF Register
<1>2. CASE UNCHANGED drivers
  BY <1>2
<1>3. ASSUME NEW l \in Launchers, NEW k \in Keys, Launch(l, k) PROVE UNCHANGED drivers
  BY <1>3 DEF Launch
<1>4. ASSUME NEW l \in Launchers,
             Lookup(l) \/ SpawnChild(l) \/ Ready(l) \/ NotReady(l) \/ Reaped(l) \/ StartSession(l) \/ Abandon(l) \/ Release(l)
      PROVE  UNCHANGED drivers
  BY <1>4 DEF Lookup, SpawnChild, Ready, NotReady, Reaped, StartSession, Abandon, Release
<1>5. ASSUME NEW p \in Procs, Bind(p) \/ Crash(p) \/ Reap(p) PROVE UNCHANGED drivers
  BY <1>5 DEF Bind, Crash, Reap
<1> QED
  BY <1>1, <1>2, <1>3, <1>4, <1>5 DEF Next, Step, vars

(* The leases, as they are read. *)
LEMMA LeaseIs ==
  ASSUME NEW l \in Launchers
  PROVE  /\ leases[l] = <<>> <=> ~HasSession(l)
         /\ HasSession(l) => leases[l][1] = key[l] /\ leases[l][2] = proc[l]
  BY DEF leases

LEMMA LeasesAreSessions == Pool!Leases = {l \in Launchers : HasSession(l)}
  BY LeaseIs DEF Pool!Leases

(* A process that is somebody's is kept, and a spawner's has no sessions. *)
LEMMA HeldIsKept ==
  ASSUME IInv, NEW l \in Launchers, pc[l] \in Holding
  PROVE  /\ proc[l] \in Procs /\ states[proc[l]] = "kept"
         /\ pc[l] \in {"poll", "register"} => Pool!IsFree(proc[l])
         /\ Holders(proc[l]) = {l} <=> \A m \in Launchers \ {l} : HasSession(m) => proc[m] # proc[l]
<1>1. proc[l] \in Procs /\ child[proc[l]] \notin {"none", "killed", "reaped"}
  BY DEF IInv, TasksFollow, ProcsFollow, HeldIsNotKilled, TypeOK, Procs
<1>2. states[proc[l]] = "kept"
  BY <1>1 DEF states
<1>3. pc[l] \in {"poll", "register"} => \A m \in Launchers : HasSession(m) => proc[m] # proc[l]
  BY DEF IInv, SpawnedIsOwn, HasSession, Holding
<1>4. pc[l] \in {"poll", "register"} => Pool!IsFree(proc[l])
  BY <1>2, <1>3, LeasesAreSessions, LeaseIs DEF Pool!IsFree
<1>5. \A m \in Launchers \ {l} : pc[m] \in {"poll", "register"} => proc[m] # proc[l]
  BY DEF IInv, SpawnedIsOwn
<1>6. Holders(proc[l]) = {l} <=> \A m \in Launchers \ {l} : HasSession(m) => proc[m] # proc[l]
  BY <1>5 DEF Holders, HasSession, Holding
<1> QED
  BY <1>1, <1>2, <1>4, <1>6

LEMMA KilledEnds ==
  ASSUME IInv, NEW p \in Procs, child' = [child EXCEPT ![p] = "killed"]
  PROVE  states' = [states EXCEPT ![p] = "ended"]
  BY DEF IInv, TypeOK, states

(* Steps that touch no session, and what they do to processes. *)
LEMMA NoLease ==
  ASSUME IInv, NEW l \in Launchers, ~HasSession(l), ~HasSession(l)',
         \A m \in Launchers \ {l} : pc'[m] = pc[m] /\ key'[m] = key[m] /\ proc'[m] = proc[m]
  PROVE  leases' = leases
  BY DEF leases, HasSession

LEMMA SameTasks ==
  ASSUME UNCHANGED taskVars PROVE leases' = leases
  BY DEF leases, HasSession, taskVars

LEMMA SameChildren ==
  ASSUME child' = child PROVE states' = states
  BY DEF states

(* A task that leaves without a session, or whose process goes with it. *)
LEMMA DiscardStep ==
  ASSUME IInv, NEW l \in Launchers, pc[l] \in {"poll", "register"},
         child' = [child EXCEPT ![proc[l]] = "killed"], leases' = leases
  PROVE  Pool!Discard(proc[l]) /\ proc[l] \in Procs
<1>1. proc[l] \in Procs /\ Pool!IsFree(proc[l])
  BY HeldIsKept DEF Holding
<1> QED
  BY <1>1, KilledEnds DEF Pool!Discard

LEMMA GiveBackStep ==
  ASSUME IInv, NEW l \in Launchers, HasSession(l), ~HasSession(l)',
         \A m \in Launchers \ {l} : pc'[m] = pc[m] /\ key'[m] = key[m] /\ proc'[m] = proc[m],
         child' = IF Holders(proc[l]) = {l} THEN [child EXCEPT ![proc[l]] = "killed"] ELSE child
  PROVE  Pool!GiveBack(l)
<1>1. leases[l] # <<>> /\ leases[l][2] = proc[l]
  BY LeaseIs
<1>2. leases' = [leases EXCEPT ![l] = <<>>]
  BY DEF leases, HasSession
<1>3. /\ proc[l] \in Procs
      /\ Holders(proc[l]) = {l} <=> \A m \in Launchers \ {l} : HasSession(m) => proc[m] # proc[l]
  BY HeldIsKept DEF HasSession, Holding
<1>4. (\E v \in Pool!Leases \ {l} : leases[v][2] = leases[l][2]) <=> Holders(proc[l]) # {l}
  BY <1>1, <1>3, LeasesAreSessions, LeaseIs
<1>5. states' = IF Holders(proc[l]) # {l} THEN states ELSE [states EXCEPT ![proc[l]] = "ended"]
  BY <1>3, KilledEnds, SameChildren
<1>6. states' = IF \E v \in Pool!Leases \ {l} : leases[v][2] = leases[l][2] THEN states
                ELSE [states EXCEPT ![leases[l][2]] = "ended"]
  BY <1>1, <1>4, <1>5
<1> QED
  BY <1>1, <1>2, <1>6 DEF Pool!GiveBack

(* Whoever finds its key's process joins the sessions of the key. *)
LEMMA JoinIsLawful ==
  ASSUME IInv, KeysApart, NEW l \in Launchers, key[l] \in Keys, Upgrades(key[l])
  PROVE  /\ drivers[key[l]] \in Procs /\ states[drivers[key[l]]] = "kept"
         /\ \A v \in Pool!Leases : leases[v][1] = key[l] <=> leases[v][2] = drivers[key[l]]
<1>1. PICK m \in Launchers : pc[m] \in Holding /\ proc[m] = drivers[key[l]]
  BY DEF Upgrades, Holders, Holding
<1>2. drivers[key[l]] \in Procs /\ states[drivers[key[l]]] = "kept"
  BY <1>1, HeldIsKept
<1>3. ASSUME NEW v \in Pool!Leases PROVE leases[v][1] = key[l] <=> leases[v][2] = drivers[key[l]]
  <2>1. v \in Launchers /\ HasSession(v) /\ leases[v][1] = key[v] /\ leases[v][2] = proc[v]
    BY LeasesAreSessions, LeaseIs
  <2>2. drivers[key[v]] = proc[v] /\ key[v] \in Keys /\ drivers[key[l]] # 0
    BY <2>1 DEF IInv, SessionsAreRegistered, TasksFollow, HasSession, Upgrades
  <2> QED
    BY <2>1, <2>2 DEF KeysApart
<1> QED
  BY <1>2, <1>3

LEMMA LookupStep ==
  ASSUME IInv, KeysApart, NEW l \in Launchers, Lookup(l) PROVE [Pool!Next]_Pool!vars
<1>1. key[l] \in Keys /\ ~HasSession(l) /\ child' = child /\ states' = states /\ key' = key
  BY SameChildren DEF Lookup, osVars, IInv, TasksFollow, HasSession
<1>2. CASE Upgrades(key[l])
  <2>1. leases' = [leases EXCEPT ![l] = <<key[l], drivers[key[l]]>>]
    BY <1>1, <1>2 DEF Lookup, leases, HasSession, IInv, TypeOK
  <2>2. Pool!Lend(l, key[l], drivers[key[l]])
    BY <1>1, <1>2, <2>1, JoinIsLawful, LeaseIs DEF Pool!Lend
  <2> QED
    BY <1>1, <1>2, <2>2, JoinIsLawful DEF Pool!Next
<1>3. CASE ~Upgrades(key[l])
  <2>1. leases' = leases
    BY <1>1, <1>3, NoLease DEF Lookup, HasSession, IInv, TypeOK
  <2> QED
    BY <1>1, <2>1 DEF Pool!vars
<1> QED
  BY <1>2, <1>3

LEMMA SpawnChildStep ==
  ASSUME IInv, NEW l \in Launchers, SpawnChild(l) PROVE [Pool!Next]_Pool!vars
<1>1. leases' = leases
  BY NoLease DEF SpawnChild, Leave, HasSession, IInv, TypeOK
<1>2. CASE UNCHANGED osVars
  BY <1>1, <1>2, SameChildren DEF osVars, Pool!vars
<1>3. CASE child' = [child EXCEPT ![nextProc] = "starting"]
  <2>1. nextProc \in Procs /\ child[nextProc] = "none"
    <3>1. l \in WantsToSpawn
      BY DEF SpawnChild, WantsToSpawn
    <3>2. Cardinality(WantsToSpawn) # 0
      BY <3>1, WantsAreFinite, FS_EmptySet
    <3>3. nextProc \in 1 .. MaxProcs + 1 /\ nextProc <= MaxProcs
      BY <3>2, WantsAreFinite, MaxProcsAssumption DEF IInv, SpawnsAreBounded, TypeOK
    <3> QED
      BY <3>3, MaxProcsAssumption DEF IInv, ProcsFollow, Procs
  <2>2. states[nextProc] = "new" /\ states' = [states EXCEPT ![nextProc] = "kept"]
    BY <1>3, <2>1 DEF states, IInv, TypeOK
  <2> QED
    BY <1>1, <2>1, <2>2 DEF Pool!Next, Pool!Start
<1> QED
  BY <1>2, <1>3 DEF SpawnChild

LEMMA RegisterStep ==
  ASSUME IInv, KeysApart, NEW l \in Launchers, Register(l) PROVE [Pool!Next]_Pool!vars
<1>1. /\ key[l] \in Keys /\ key' = key /\ pc[l] = "register" /\ ~HasSession(l) /\ leases[l] = <<>>
      /\ proc[l] \in Procs /\ states[proc[l]] = "kept" /\ Pool!IsFree(proc[l])
      /\ Holders(proc[l]) = {l}
  BY HeldIsKept, SpawnerIsAlone, LeaseIs DEF Register, IInv, TasksFollow, HasSession, Holding
<1>2. CASE Upgrades(key[l])
  <2>1. leases' = [leases EXCEPT ![l] = <<key[l], drivers[key[l]]>>]
    BY <1>1, <1>2 DEF Register, leases, HasSession, IInv, TypeOK
  <2>2. states' = [states EXCEPT ![proc[l]] = "ended"] /\ drivers[key[l]] # proc[l]
    BY <1>1, <1>2, KilledEnds DEF Register, LetGo, IInv, SpawnedIsOwn
  <2>3. Pool!Lend(l, key[l], drivers[key[l]])
    BY <1>1, <1>2, <2>1, <2>2, JoinIsLawful DEF Pool!Lend
  <2> QED
    BY <1>1, <1>2, <2>3, JoinIsLawful DEF Pool!Next
<1>3. CASE ~Upgrades(key[l])
  <2>1. leases' = [leases EXCEPT ![l] = <<key[l], proc[l]>>] /\ states' = states
    BY <1>1, <1>3, SameChildren DEF Register, leases, HasSession, IInv, TypeOK
  <2>2. ASSUME NEW v \in Pool!Leases PROVE leases[v][1] # key[l] /\ leases[v][2] # proc[l]
    <3>1. v \in Launchers /\ HasSession(v) /\ leases[v][1] = key[v] /\ leases[v][2] = proc[v]
      BY LeasesAreSessions, LeaseIs
    <3>2. drivers[key[v]] = proc[v] /\ proc[v] # 0 /\ v \in Holders(proc[v])
      BY <3>1 DEF IInv, SessionsAreRegistered, TasksFollow, HasSession, Holders, Holding
    <3> QED
      BY <1>1, <1>3, <3>1, <3>2 DEF Upgrades
  <2>3. Pool!Lend(l, key[l], proc[l])
    BY <1>1, <2>1, <2>2 DEF Pool!Lend
  <2> QED
    BY <1>1, <2>3 DEF Pool!Next
<1> QED
  BY <1>2, <1>3

LEMMA AbandonStep ==
  ASSUME IInv, NEW l \in Launchers, Abandon(l) PROVE [Pool!Next]_Pool!vars
<1>1. /\ ~HasSession(l)'
      /\ \A m \in Launchers \ {l} : pc'[m] = pc[m] /\ key'[m] = key[m] /\ proc'[m] = proc[m]
      /\ l \in Holders(proc[l]) <=> pc[l] \in Holding
  BY DEF Abandon, Leave, HasSession, Holders, Holding, IInv, TypeOK
<1>2. CASE HasSession(l)
  <2>1. child' = IF Holders(proc[l]) = {l} THEN [child EXCEPT ![proc[l]] = "killed"] ELSE child
    BY <1>1, <1>2, HeldIsKept DEF Abandon, LetGo, HasSession, Holding, IInv, TypeOK
  <2> QED
    BY <1>1, <1>2, <2>1, GiveBackStep DEF Pool!Next
<1>3. CASE pc[l] \in {"poll", "register"}
  <2>1. leases' = leases
    BY <1>1, <1>3, NoLease DEF HasSession
  <2>2. child' = [child EXCEPT ![proc[l]] = "killed"]
    BY <1>1, <1>3, SpawnerIsAlone DEF Abandon, LetGo, Holding
  <2> QED
    BY <1>3, <2>1, <2>2, DiscardStep DEF Pool!Next
<1>4. CASE pc[l] \notin Holding
  <2>1. leases' = leases
    BY <1>1, <1>4, NoLease DEF HasSession, Holding
  <2> QED
    BY <1>1, <1>4, <2>1, SameChildren DEF Abandon, Pool!vars
<1> QED
  BY <1>2, <1>3, <1>4 DEF HasSession, Holding

LEMMA QuitStep ==
  ASSUME IInv, NEW l \in Launchers, NotReady(l) \/ Release(l) \/ Reaped(l) PROVE [Pool!Next]_Pool!vars
<1>1. /\ ~HasSession(l)'
      /\ \A m \in Launchers \ {l} : pc'[m] = pc[m] /\ key'[m] = key[m] /\ proc'[m] = proc[m]
  BY DEF NotReady, Release, Reaped, Leave, HasSession, IInv, TypeOK
<1>2. CASE NotReady(l)
  <2>1. leases' = leases
    BY <1>1, <1>2, NoLease DEF HasSession, NotReady
  <2> QED
    BY <1>2, <2>1, DiscardStep DEF Pool!Next, NotReady
<1>3. CASE Release(l)
  <2>1. HasSession(l) /\ child' = IF Holders(proc[l]) = {l} THEN [child EXCEPT ![proc[l]] = "killed"] ELSE child
    BY <1>3 DEF Release, HasSession
  <2> QED
    BY <1>1, <2>1, GiveBackStep DEF Pool!Next
<1>4. CASE Reaped(l)
  <2>1. leases' = leases
    BY <1>1, <1>4, NoLease DEF HasSession, Reaped
  <2> QED
    BY <1>4, <2>1, SameChildren DEF Reaped, osVars, Pool!vars
<1> QED
  BY <1>2, <1>3, <1>4

(* A launch that begins, a driver that answers, and what children do by
   themselves, is nothing the pool promises. *)
LEMMA QuietStep ==
  ASSUME IInv,
         \/ \E l \in Launchers : Ready(l) \/ StartSession(l) \/ \E k \in Keys : Launch(l, k)
         \/ \E p \in Procs : Bind(p) \/ Crash(p) \/ Reap(p)
         \/ UNCHANGED vars
  PROVE  UNCHANGED Pool!vars
<1>1. ASSUME NEW l \in Launchers, Ready(l) \/ \E k \in Keys : Launch(l, k) PROVE UNCHANGED Pool!vars
  <2>1. leases' = leases
    BY <1>1, NoLease DEF Ready, Launch, HasSession, IInv, TypeOK
  <2> QED
    BY <1>1, <2>1, SameChildren DEF Ready, Launch, osVars, Pool!vars
<1>2. ASSUME NEW l \in Launchers, StartSession(l) PROVE UNCHANGED Pool!vars
  <2>1. leases' = leases
    BY <1>2 DEF StartSession, leases, HasSession, IInv, TypeOK
  <2> QED
    BY <1>2, <2>1, SameChildren DEF StartSession, osVars, Pool!vars
<1>3. ASSUME NEW p \in Procs, Bind(p) \/ Crash(p) \/ Reap(p) PROVE UNCHANGED Pool!vars
  <2>1. leases' = leases
    BY <1>3, SameTasks DEF Bind, Crash, Reap
  <2>2. states' = states
    BY <1>3 DEF Bind, Crash, Reap, states, IInv, TypeOK, Alive
  <2> QED
    BY <2>1, <2>2 DEF Pool!vars
<1>4. CASE UNCHANGED vars
  BY <1>4, SameTasks, SameChildren DEF vars, taskVars, Pool!vars
<1> QED
  BY <1>1, <1>2, <1>3, <1>4

(* The pool is one that lends each key one process and ends it once, with the
   last session on it (spawn_or_reuse, SessionGuard::release, Drop). *)
THEOREM Refinement == Spec => ImplementsDriverLease
<1>1. Init => Pool!Init
  BY DEF Init, Pool!Init, leases, states, HasSession
<1>2. Init => KeysApart
  BY DEF Init, KeysApart
<1>3. IInv /\ KeysApart /\ [Next]_vars => KeysApart'
  BY KeysApartOK
<1>4. IInv /\ KeysApart /\ [Next]_vars => [Pool!Next]_Pool!vars
  <2> SUFFICES ASSUME IInv, KeysApart, [Next]_vars PROVE [Pool!Next]_Pool!vars
    OBVIOUS
  <2> QED
    BY LookupStep, SpawnChildStep, RegisterStep, AbandonStep, QuitStep, QuietStep DEF Next, Step
<1> QED
  BY <1>1, <1>2, <1>3, <1>4, Inductive, PTL DEF Spec, ImplementsDriverLease, Pool!Spec

-----------------------------------------------------------------------------
(* The last of the calls *)

(* No position is 0 or less. *)
LEMMA NoneUpTo0 == ASSUME NEW N \in Nat, NEW H \in SUBSET (1 .. N) PROVE {i \in H : i <= 0} = {}
<1>1. ASSUME NEW i \in H PROVE ~(i <= 0)
  <2>1. i \in 1 .. N
    OBVIOUS
  <2> QED BY <2>1
<1> QED BY <1>1

(* Which of the calls up to n counts. *)
LastIn(H, n) == IF {i \in H : i <= n} = {} THEN 0 ELSE Max({i \in H : i <= n})

(* The last of the positions in H up to n, from that up to n - 1. *)
LEMMA LastInOK ==
  ASSUME NEW N \in Nat, NEW H \in SUBSET (1 .. N), NEW n \in 1 .. N
  PROVE  /\ LastIn(H, 0) = 0
         /\ n \in H => LastIn(H, n) = n
         /\ n \notin H => LastIn(H, n) = LastIn(H, n - 1)
<1>1. {i \in H : i <= 0} = {}
  BY NoneUpTo0
<1>2. ASSUME n \in H PROVE LastIn(H, n) = n
  <2> DEFINE T == {i \in H : i <= n}
  <2>1. T \in SUBSET (1 .. n) /\ n \in T /\ n \in Nat
    <3>1. n \in Nat /\ n <= n /\ n \in T
      BY <1>2
    <3>2. ASSUME NEW i \in T PROVE i \in 1 .. n
      <4>1. i \in 1 .. N /\ i <= n
        OBVIOUS
      <4> QED BY <4>1
    <3> QED BY <3>1, <3>2
  <2> HIDE DEF T
  <2>2. Max(T) = n /\ T # {}
    BY <2>1, MaxIs
  <2> QED BY <2>2 DEF LastIn, T
<1>3. ASSUME n \notin H PROVE {i \in H : i <= n} = {i \in H : i <= n - 1}
  <2>1. \A i \in H : i \in 1 .. N /\ i # n
    BY <1>3
  <2>2. \A i \in H : i <= n <=> i <= n - 1
    BY <2>1
  <2> QED BY <2>2
<1> QED BY <1>1, <1>2, <1>3 DEF LastIn

(* v follows what the calls of H set. *)
Tracks(v, H, arg, base, N) == /\ v[0] = base
                              /\ \A n \in 1 .. N : v[n] = IF n \in H THEN arg[n] ELSE v[n - 1]

(* A value that some of the calls set is what the last of these sets. *)
LEMMA LastCounts ==
  ASSUME NEW N \in Nat, NEW H \in SUBSET (1 .. N), NEW v, NEW arg, NEW base, Tracks(v, H, arg, base, N)
  PROVE  v[N] = IF LastIn(H, N) = 0 THEN base ELSE arg[LastIn(H, N)]
<1> DEFINE S == {n \in Nat : n <= N => v[n] = IF LastIn(H, n) = 0 THEN base ELSE arg[LastIn(H, n)]}
<1>1. 0 \in S
  <2>1. LastIn(H, 0) = 0
    <3>1. {i \in H : i <= 0} = {}
      BY NoneUpTo0
    <3> QED BY <3>1 DEF LastIn
  <2> QED BY <2>1 DEF Tracks
<1>2. ASSUME NEW n \in Nat, n \in S PROVE n + 1 \in S
  <2> SUFFICES ASSUME n + 1 <= N
               PROVE  v[n + 1] = IF LastIn(H, n + 1) = 0 THEN base ELSE arg[LastIn(H, n + 1)]
    OBVIOUS
  <2>1. n + 1 \in 1 .. N /\ n <= N /\ (n + 1) - 1 = n
    OBVIOUS
  <2>2. v[n] = IF LastIn(H, n) = 0 THEN base ELSE arg[LastIn(H, n)]
    BY <1>2, <2>1
  <2>3. v[n + 1] = IF n + 1 \in H THEN arg[n + 1] ELSE v[n]
    BY <2>1 DEF Tracks
  <2>4. CASE n + 1 \in H
    <3>1. LastIn(H, n + 1) = n + 1
      BY <2>1, <2>4, LastInOK
    <3> QED BY <3>1, <2>3, <2>4
  <2>5. CASE n + 1 \notin H
    <3>1. PICK k \in 1 .. N : k = n + 1 /\ k - 1 = n
      BY <2>1
    <3>2. k \notin H
      BY <3>1, <2>5
    <3>3. LastIn(H, k) = LastIn(H, k - 1)
      BY <3>2, LastInOK
    <3> QED BY <3>1, <3>3, <2>2, <2>3, <2>5
  <2> QED BY <2>4, <2>5
<1>3. Nat \subseteq S
  <2> HIDE DEF S
  <2> QED BY <1>1, <1>2, AllNumbers
<1> QED BY <1>3

-----------------------------------------------------------------------------
(* The builder of a configuration *)

ConfigFields == {"keep_alive", "poller", "user_agent", "request_timeout"}
ConfigStates == [keep_alive : BOOLEAN, poller : Values \cup {None}, user_agent : Values \cup {None, Refused},
                 request_timeout : Values]

(* config.rs:94-121: a setter sets its own field and leaves the others. *)
LEMMA ConfigCallOK ==
  ASSUME NEW b \in ConfigStates, NEW c \in ConfigCalls
  PROVE  /\ ConfigCall(b, c) \in ConfigStates
         /\ \A f \in ConfigFields : ConfigCall(b, c)[f] = IF c.method = f THEN c.arg ELSE b[f]
<1>1. CASE c \in [method : {"keep_alive"}, arg : BOOLEAN]
  BY <1>1 DEF ConfigCall, ConfigStates, ConfigFields
<1>2. CASE c \in [method : {"poller", "request_timeout"}, arg : Values]
  BY <1>2 DEF ConfigCall, ConfigStates, ConfigFields
<1>3. CASE c \in [method : {"user_agent"}, arg : Values \cup {Refused}]
  BY <1>3 DEF ConfigCall, ConfigStates, ConfigFields
<1> QED BY <1>1, <1>2, <1>3 DEF ConfigCalls

(* What FoldLeft chooses for the setters of a configuration. *)
IsConfigIter(it, s) == it = [x \in SUBSET DOMAIN s |-> IF x = {} THEN NewConfig ELSE ConfigCall(it[x \ {Max(x)}], s[Max(x)])]

(* FoldLeft, in terms of that choice. *)
LEMMA ConfigUnfold ==
  ASSUME NEW s PROVE FoldLeft(ConfigCall, NewConfig, s) = (CHOOSE it : IsConfigIter(it, s))[DOMAIN s]
  BY DEF FoldLeft, MapThenFoldSet, IsConfigIter

(* The builder after each of the setters, b[n] after n of them: the fold over a
   script of any length comes to the last of these. *)
LEMMA ConfigFold ==
  ASSUME NEW s \in Seq(ConfigCalls)
  PROVE  \E b : /\ b[0] = NewConfig
                /\ \A n \in 1 .. Len(s) : b[n] = ConfigCall(b[n - 1], s[n])
                /\ FoldLeft(ConfigCall, NewConfig, s) = b[Len(s)]
<1> DEFINE f == [p \in ConfigStates \X Nat |-> IF p[2] \in 1 .. Len(s) THEN ConfigCall(p[1], s[p[2]]) ELSE p[1]]
<1>1. DOMAIN s = 1 .. Len(s) /\ Len(s) \in Nat /\ \A n \in 1 .. Len(s) : s[n] \in ConfigCalls
  OBVIOUS
<1>2. f \in [ConfigStates \X Nat -> ConfigStates]
  BY <1>1, ConfigCallOK
<1>3. NewConfig \in ConfigStates
  BY ValuesAssumption DEF NewConfig, ConfigStates
<1>4. ASSUME NEW a \in ConfigStates, NEW n \in 1 .. Len(s) PROVE f[a, n] = ConfigCall(a, s[n])
  <2>1. <<a, n>> \in ConfigStates \X Nat /\ <<a, n>>[1] = a /\ <<a, n>>[2] = n
    OBVIOUS
  <2> QED BY <2>1
<1> HIDE DEF f
<1>5. PICK it \in [SUBSET (1 .. Len(s)) -> ConfigStates] : Iterates(it, f, NewConfig, Len(s))
  BY <1>1, <1>2, <1>3, FoldExists
<1>6. IsConfigIter(it, s)
  <2>1. ASSUME NEW x \in SUBSET (1 .. Len(s))
        PROVE  it[x] = IF x = {} THEN NewConfig ELSE ConfigCall(it[x \ {Max(x)}], s[Max(x)])
    <3>1. CASE x # {}
      <4>1. Max(x) \in x
        BY <1>1, <3>1, MaxOK
      <4>2. x \ {Max(x)} \in SUBSET (1 .. Len(s)) /\ Max(x) \in 1 .. Len(s)
        BY <4>1
      <4>3. it[x \ {Max(x)}] \in ConfigStates
        BY <4>2
      <4>4. f[it[x \ {Max(x)}], Max(x)] = ConfigCall(it[x \ {Max(x)}], s[Max(x)])
        BY <4>2, <4>3, <1>4
      <4> QED BY <3>1, <4>4, <1>5 DEF Iterates
    <3>2. CASE x = {}
      BY <3>2, <1>5 DEF Iterates
    <3> QED BY <3>1, <3>2
  <2>2. it = [x \in SUBSET (1 .. Len(s)) |-> it[x]]
    OBVIOUS
  <2> QED BY <2>1, <2>2, <1>1 DEF IsConfigIter
<1> DEFINE i == CHOOSE g : IsConfigIter(g, s)
<1>7. IsConfigIter(i, s)
  BY <1>6
<1>8. FoldLeft(ConfigCall, NewConfig, s) = i[1 .. Len(s)]
  BY <1>1, ConfigUnfold
<1> HIDE DEF i
<1>9. \A x \in SUBSET (1 .. Len(s)) : i[x] = IF x = {} THEN NewConfig ELSE ConfigCall(i[x \ {Max(x)}], s[Max(x)])
  BY <1>7, <1>1 DEF IsConfigIter
<1> DEFINE b == [n \in 0 .. Len(s) |-> i[1 .. n]]
<1>10. b[0] = NewConfig
  <2>1. 1 .. 0 = {} /\ 0 \in 0 .. Len(s)
    BY <1>1
  <2> QED BY <2>1, <1>9
<1>11. ASSUME NEW n \in 1 .. Len(s) PROVE b[n] = ConfigCall(b[n - 1], s[n])
  <2>1. /\ 1 .. n \in SUBSET (1 .. Len(s)) /\ 1 .. n # {} /\ n \in 0 .. Len(s) /\ n - 1 \in 0 .. Len(s)
        /\ Max(1 .. n) = n /\ (1 .. n) \ {n} = 1 .. n - 1
    BY <1>1, UpTo
  <2>2. i[1 .. n] = ConfigCall(i[(1 .. n) \ {Max(1 .. n)}], s[Max(1 .. n)])
    BY <2>1, <1>9
  <2> QED BY <2>1, <2>2
<1>12. FoldLeft(ConfigCall, NewConfig, s) = b[Len(s)]
  BY <1>1, <1>8
<1> HIDE DEF b
<1> QED BY <1>10, <1>11, <1>12

(* The calls of s to one of the methods. *)
Hits(s, methods) == {i \in 1 .. Len(s) : s[i].method \in methods}

(* What the last call to f gave, or base if there was none. *)
Stays(s, f, base) ==
  IF LastIn(Hits(s, {f}), Len(s)) = 0 THEN base ELSE s[LastIn(Hits(s, {f}), Len(s))].arg

(* The last position in H is in H. *)
LEMMA LastInRange ==
  ASSUME NEW N \in Nat, NEW H \in SUBSET (1 .. N)
  PROVE  LastIn(H, N) # 0 => LastIn(H, N) \in H
<1> SUFFICES ASSUME LastIn(H, N) # 0 PROVE LastIn(H, N) \in H
  OBVIOUS
<1> DEFINE T == {i \in H : i <= N}
<1>1. T # {} /\ LastIn(H, N) = Max(T)
  BY DEF LastIn
<1>2. T \in SUBSET (1 .. N) /\ T \in SUBSET H
  OBVIOUS
<1> HIDE DEF T
<1>3. Max(T) \in T
  BY <1>1, <1>2, MaxOK
<1> QED BY <1>1, <1>2, <1>3

(* SelectLastInSeq finds the last position. *)
LEMMA SelectsLast ==
  ASSUME NEW A, NEW s \in Seq(A), NEW H, H = {i \in 1 .. Len(s) : i \in H}
  PROVE  (IF H # {} THEN Max(H) ELSE 0) = LastIn(H, Len(s))
<1>1. {i \in H : i <= Len(s)} = H
  <2>1. \A i \in H : i \in 1 .. Len(s)
    OBVIOUS
  <2>2. \A i \in H : i <= Len(s)
    BY <2>1
  <2> QED BY <2>2
<1> QED BY <1>1 DEF LastIn

(* What the builder's field holds in the end. *)
LEMMA ConfigField ==
  ASSUME NEW s \in Seq(ConfigCalls), NEW f \in ConfigFields
  PROVE  /\ FoldLeft(ConfigCall, NewConfig, s) \in ConfigStates
         /\ FoldLeft(ConfigCall, NewConfig, s)[f] = Stays(s, f, NewConfig[f])
<1> DEFINE N == Len(s)
<1>1. N \in Nat /\ \A n \in 1 .. N : s[n] \in ConfigCalls
  OBVIOUS
<1> HIDE DEF N
<1>2. PICK b : /\ b[0] = NewConfig
               /\ \A n \in 1 .. N : b[n] = ConfigCall(b[n - 1], s[n])
               /\ FoldLeft(ConfigCall, NewConfig, s) = b[N]
  BY ConfigFold DEF N
<1>3. NewConfig \in ConfigStates
  BY ValuesAssumption DEF NewConfig, ConfigStates
<1>4. \A n \in 0 .. N : b[n] \in ConfigStates
  <2> DEFINE S == {n \in Nat : n <= N => b[n] \in ConfigStates}
  <2>1. 0 \in S
    BY <1>2, <1>3
  <2>2. ASSUME NEW n \in Nat, n \in S PROVE n + 1 \in S
    <3> SUFFICES ASSUME n + 1 <= N PROVE b[n + 1] \in ConfigStates
      OBVIOUS
    <3>1. n + 1 \in 1 .. N /\ (n + 1) - 1 = n /\ n <= N
      BY <1>1
    <3>2. b[n + 1] = ConfigCall(b[n], s[n + 1]) /\ b[n] \in ConfigStates /\ s[n + 1] \in ConfigCalls
      BY <3>1, <2>2, <1>1, <1>2
    <3> QED BY <3>2, ConfigCallOK
  <2>3. Nat \subseteq S
    <3> HIDE DEF S
    <3> QED BY <2>1, <2>2, AllNumbers
  <2> QED BY <2>3
<1> DEFINE H == Hits(s, {f})
           v == [n \in 0 .. N |-> b[n][f]]
           a == [n \in 1 .. N |-> s[n].arg]
<1>5. H \in SUBSET (1 .. N)
  BY DEF Hits, N
<1>6. v[0] = NewConfig[f] /\ v[N] = b[N][f]
  BY <1>1, <1>2
<1>7. ASSUME NEW n \in 1 .. N PROVE v[n] = IF n \in H THEN a[n] ELSE v[n - 1]
  <2>1. n - 1 \in 0 .. N /\ n \in 0 .. N
    BY <1>1
  <2>2. b[n] = ConfigCall(b[n - 1], s[n]) /\ b[n - 1] \in ConfigStates /\ s[n] \in ConfigCalls
    BY <2>1, <1>1, <1>2, <1>4
  <2>3. b[n][f] = IF s[n].method = f THEN s[n].arg ELSE b[n - 1][f]
    BY <2>2, ConfigCallOK
  <2>4. n \in H <=> s[n].method = f
    BY DEF Hits, N
  <2> QED BY <2>1, <2>3, <2>4
<1> HIDE DEF v, a, H
<1>8. v[N] = IF LastIn(H, N) = 0 THEN NewConfig[f] ELSE a[LastIn(H, N)]
  <2> DEFINE base == NewConfig[f]
  <2>1. v[0] = base
    BY <1>6
  <2> HIDE DEF base
  <2>2. Tracks(v, H, a, base, N)
    BY <2>1, <1>7 DEF Tracks
  <2>3. v[N] = IF LastIn(H, N) = 0 THEN base ELSE a[LastIn(H, N)]
    BY <1>1, <1>5, <2>2, LastCounts
  <2> QED BY <2>3 DEF base
<1>9. LastIn(H, N) # 0 => a[LastIn(H, N)] = s[LastIn(H, N)].arg
  <2>1. LastIn(H, N) # 0 => LastIn(H, N) \in 1 .. N
    BY <1>1, <1>5, LastInRange
  <2> QED BY <2>1 DEF a
<1>10. b[N] \in ConfigStates
  BY <1>1, <1>4
<1> QED BY <1>2, <1>6, <1>8, <1>9, <1>10 DEF Stays, H, N

(* LastArg, in the words of the lemmas. *)
LEMMA AskedField ==
  ASSUME NEW A, NEW s \in Seq(A), NEW f, NEW base
  PROVE  LastArg(s, LAMBDA c : c.method = f, base) = Stays(s, f, base)
<1>1. Hits(s, {f}) = {i \in 1 .. Len(s) : s[i].method = f}
  BY DEF Hits
<1>2. Hits(s, {f}) = {i \in 1 .. Len(s) : i \in Hits(s, {f})}
  BY DEF Hits
<1>3. SelectLastInSeq(s, LAMBDA c : c.method = f) = IF Hits(s, {f}) # {} THEN Max(Hits(s, {f})) ELSE 0
  BY <1>1 DEF SelectLastInSeq
<1>4. SelectLastInSeq(s, LAMBDA c : c.method = f) = LastIn(Hits(s, {f}), Len(s))
  BY <1>2, <1>3, SelectsLast
<1> QED BY <1>4 DEF LastArg, Stays

(* config.rs: a configuration is what the last call for each thing asked for. *)
LEMMA ConfigIsAsAsked ==
  ASSUME NEW s \in Seq(ConfigCalls)
  PROVE  /\ WebDriverConfig(s) = AskedOfConfig(s)
         /\ WebDriverConfig(s) # None => WebDriverConfig(s) \in Configs
<1> DEFINE b == FoldLeft(ConfigCall, NewConfig, s)
<1>1. b \in ConfigStates /\ \A f \in ConfigFields : b[f] = Stays(s, f, NewConfig[f])
  <2>1. "poller" \in ConfigFields
    BY DEF ConfigFields
  <2> QED BY <2>1, ConfigField
<1>2. WebDriverConfig(s) = BuildConfig(b)
  BY DEF WebDriverConfig
<1>3. DOMAIN NewConfig = ConfigFields
  BY DEF NewConfig, ConfigFields
<1> DEFINE g == [f \in ConfigFields |-> Stays(s, f, IF f = "keep_alive" THEN TRUE ELSE "default")]
<1>4. AskedOfConfig(s) = IF g.user_agent = Refused THEN None ELSE g
  BY <1>3, AskedField DEF AskedOfConfig
<1>5. ASSUME NEW f \in {"poller", "user_agent"}
      PROVE  /\ OrDefault(Stays(s, f, None)) = Stays(s, f, "default")
             /\ Stays(s, f, None) = Refused <=> Stays(s, f, "default") = Refused
  <2>1. CASE LastIn(Hits(s, {f}), Len(s)) = 0
    BY <2>1, ValuesAssumption DEF Stays, OrDefault
  <2>2. CASE LastIn(Hits(s, {f}), Len(s)) # 0
    <3>1. Len(s) \in Nat /\ Hits(s, {f}) \in SUBSET (1 .. Len(s)) /\ \A n \in 1 .. Len(s) : s[n] \in ConfigCalls
      BY DEF Hits
    <3>2. PICK i \in Hits(s, {f}) : i = LastIn(Hits(s, {f}), Len(s))
      BY <3>1, <2>2, LastInRange
    <3>3. s[i].method = f /\ s[i] \in ConfigCalls
      BY <3>1 DEF Hits
    <3>4. s[i].arg # None
      BY <3>3, ValuesAssumption, NothingAssumption DEF ConfigCalls
    <3> QED BY <2>2, <3>2, <3>4 DEF Stays, OrDefault
  <2> QED BY <2>1, <2>2
<1>6. b.keep_alive = g.keep_alive /\ b.request_timeout = g.request_timeout
  BY <1>1 DEF ConfigFields, NewConfig
<1>7. /\ OrDefault(b.poller) = g.poller /\ OrDefault(b.user_agent) = g.user_agent
      /\ b.user_agent = Refused <=> g.user_agent = Refused
  BY <1>1, <1>5 DEF ConfigFields, NewConfig
<1>8. g = [keep_alive |-> g.keep_alive, poller |-> g.poller, user_agent |-> g.user_agent, request_timeout |-> g.request_timeout]
  <2>1. g = [f \in {"keep_alive", "poller", "user_agent", "request_timeout"} |-> g[f]]
    BY DEF ConfigFields
  <2> HIDE DEF g
  <2> QED BY <2>1
<1> HIDE DEF b, g
<1>9. CASE b.user_agent = Refused
  BY <1>2, <1>4, <1>7, <1>9 DEF BuildConfig
<1>10. CASE b.user_agent # Refused
  <2>1. BuildConfig(b) = [b EXCEPT !.poller = OrDefault(b.poller), !.user_agent = OrDefault(b.user_agent)]
    BY <1>10 DEF BuildConfig
  <2>2. BuildConfig(b) = [keep_alive |-> b.keep_alive, poller |-> OrDefault(b.poller),
                          user_agent |-> OrDefault(b.user_agent), request_timeout |-> b.request_timeout]
    BY <2>1, <1>1 DEF ConfigStates
  <2>3. BuildConfig(b) = g
    BY <2>2, <1>6, <1>7, <1>8
  <2>4. BuildConfig(b) \in Configs
    BY <2>2, <1>1, <1>10, ValuesAssumption DEF Configs, ConfigStates, OrDefault
  <2> QED BY <2>3, <2>4, <1>2, <1>4, <1>7, <1>10
<1> QED BY <1>9, <1>10

-----------------------------------------------------------------------------
(* The builder of a manager *)

Specs == {"match_local", "latest", "from_caps", "exact"}
Kinds == {"chrome", "firefox", "edge", "safari"}
BuilderStates ==
  [version : [spec : Specs, pinned : Requests \cup {None}], option : [Options -> Values \cup BOOLEAN \cup {None}],
   mirror : [Mirrors -> Values] \cup {None}, driver_paths : [Kinds -> Values \cup {None}],
   subscribers : Seq(Values), config : Configs]

(* A call of which build() makes something. *)
GoodCalls == {c \in BuilderCalls : c.method = "config" => WebDriverConfig(c.arg) # None}

Shaped(b) == b = [version |-> b.version, option |-> b.option, mirror |-> b.mirror, driver_paths |-> b.driver_paths,
                  subscribers |-> b.subscribers, config |-> b.config]

Hears(b, c) == IF c.method = "subscribe" THEN Append(b.subscribers, c.arg) ELSE b.subscribers

(* manager.rs:259-444: what a call leaves in each of the builder's fields. *)
LEMMA BuilderCallIs ==
  ASSUME NEW b \in BuilderStates, NEW c \in GoodCalls
  PROVE  BuilderCall(b, c) =
           [version |-> IF c.method \in Specs THEN [spec |-> c.method, pinned |-> c.arg] ELSE b.version,
            option  |-> IF c.method \in Options THEN [b.option EXCEPT ![c.method] = c.arg] ELSE b.option,
            mirror  |-> IF c.method \in Mirrors
                        THEN [(IF b.mirror = None THEN [x \in Mirrors |-> "default"] ELSE b.mirror) EXCEPT ![c.method] = c.arg]
                        ELSE b.mirror,
            driver_paths |-> IF c.method = "driver_binary" THEN [b.driver_paths EXCEPT ![c.browser] = c.arg] ELSE b.driver_paths,
            subscribers  |-> Hears(b, c),
            config |-> IF c.method = "config" THEN WebDriverConfig(c.arg)
                       ELSE IF c.method = "poller" THEN [b.config EXCEPT !.poller = c.arg] ELSE b.config]
<1> USE DEF Specs, Options, Mirrors
<1>1. CASE c.method = "config"
  <2>1. BuilderCall(b, c) = Config(b, c.arg)
    BY <1>1 DEF BuilderCall
  <2> QED BY <2>1, <1>1 DEF Config, Hears, BuilderStates
<1>2. CASE c.method = "poller"
  <2>1. BuilderCall(b, c) = Poller(b, c.arg)
    BY <1>2 DEF BuilderCall
  <2> QED BY <2>1, <1>2 DEF Poller, Hears, BuilderStates
<1>3. CASE c.method \in Specs
  <2>1. BuilderCall(b, c) = Version(b, c.method, c.arg)
    BY <1>3 DEF BuilderCall
  <2> QED BY <2>1, <1>3 DEF Version, Hears, BuilderStates
<1>4. CASE c.method \in Options
  <2>1. CASE c.method = "offline"
    <3>1. BuilderCall(b, c) = OfflineMode(b, c.arg)
      BY <2>1 DEF BuilderCall
    <3> QED BY <3>1, <2>1 DEF OfflineMode, Hears, BuilderStates
  <2>2. CASE c.method \in {"stdio", "show_console_window"}
    <3>1. BuilderCall(b, c) = SetOutput(b, c.method, c.arg)
      BY <2>2 DEF BuilderCall
    <3> QED BY <3>1, <2>2 DEF SetOutput, Hears, BuilderStates
  <2>3. CASE c.method \in {"cache_dir", "host", "download_timeout", "ready_timeout"}
    <3>1. BuilderCall(b, c) = SetOption(b, c.method, c.arg)
      BY <2>3 DEF BuilderCall
    <3> QED BY <3>1, <2>3 DEF SetOption, Hears, BuilderStates
  <2> QED BY <1>4, <2>1, <2>2, <2>3
<1>5. CASE c.method \in Mirrors
  <2>1. BuilderCall(b, c) = SetMirror(b, c.method, c.arg)
    BY <1>5 DEF BuilderCall
  <2> QED BY <2>1, <1>5 DEF SetMirror, Hears, BuilderStates
<1>6. CASE c.method = "driver_binary"
  <2>1. BuilderCall(b, c) = DriverBinary(b, c.browser, c.arg)
    BY <1>6 DEF BuilderCall
  <2> QED BY <2>1, <1>6 DEF DriverBinary, Hears, BuilderStates
<1>7. CASE c.method = "subscribe"
  <2>1. BuilderCall(b, c) = Subscriber(b, c.arg)
    BY <1>7 DEF BuilderCall
  <2> QED BY <2>1, <1>7 DEF Subscriber, Hears, BuilderStates
<1>8. c.method \in {"config", "poller", "driver_binary", "subscribe"} \cup Specs \cup Options \cup Mirrors
  BY DEF GoodCalls, BuilderCalls
<1> QED BY <1>1, <1>2, <1>3, <1>4, <1>5, <1>6, <1>7, <1>8

(* A call leaves a builder. *)
LEMMA BuilderCallOK ==
  ASSUME NEW b \in BuilderStates, NEW c \in GoodCalls PROVE BuilderCall(b, c) \in BuilderStates
<1>1. c \in BuilderCalls
  BY DEF GoodCalls
<1>2. ASSUME c.method \in Specs PROVE [spec |-> c.method, pinned |-> c.arg] \in [spec : Specs, pinned : Requests \cup {None}]
  BY <1>1, <1>2 DEF BuilderCalls, Specs, Mirrors
<1>3. ASSUME c.method \in Options PROVE [b.option EXCEPT ![c.method] = c.arg] \in [Options -> Values \cup BOOLEAN \cup {None}]
  <2>1. c.arg \in Values \cup BOOLEAN
    BY <1>1, <1>3 DEF BuilderCalls, Options, Mirrors
  <2> QED BY <2>1, <1>3 DEF BuilderStates
<1>4. ASSUME c.method \in Mirrors
      PROVE  [(IF b.mirror = None THEN [x \in Mirrors |-> "default"] ELSE b.mirror) EXCEPT ![c.method] = c.arg]
               \in [Mirrors -> Values]
  <2>1. c.arg \in Values
    BY <1>1, <1>4 DEF BuilderCalls, Mirrors
  <2>2. (IF b.mirror = None THEN [x \in Mirrors |-> "default"] ELSE b.mirror) \in [Mirrors -> Values]
    BY ValuesAssumption DEF BuilderStates
  <2> QED BY <2>1, <2>2
<1>5. ASSUME c.method = "driver_binary" PROVE [b.driver_paths EXCEPT ![c.browser] = c.arg] \in [Kinds -> Values \cup {None}]
  <2>1. c.arg \in Values
    BY <1>1, <1>5 DEF BuilderCalls, Mirrors
  <2> QED BY <2>1 DEF BuilderStates
<1>6. ASSUME c.method = "subscribe" PROVE Append(b.subscribers, c.arg) \in Seq(Values)
  <2>1. c.arg \in Values
    BY <1>1, <1>6 DEF BuilderCalls, Mirrors
  <2> QED BY <2>1 DEF BuilderStates
<1>7. ASSUME c.method = "config" PROVE WebDriverConfig(c.arg) \in Configs
  <2>1. c.arg \in Seq(ConfigCalls)
    BY <1>1, <1>7 DEF BuilderCalls, Mirrors
  <2> QED BY <2>1, <1>7, ConfigIsAsAsked DEF GoodCalls
<1>8. ASSUME c.method = "poller" PROVE [b.config EXCEPT !.poller = c.arg] \in Configs
  <2>1. c.arg \in Values
    BY <1>1, <1>8 DEF BuilderCalls, Mirrors
  <2> QED BY <2>1 DEF BuilderStates, Configs
<1>9. /\ b.version \in [spec : Specs, pinned : Requests \cup {None}] /\ b.option \in [Options -> Values \cup BOOLEAN \cup {None}]
      /\ b.mirror \in [Mirrors -> Values] \cup {None} /\ b.driver_paths \in [Kinds -> Values \cup {None}]
      /\ b.subscribers \in Seq(Values) /\ b.config \in Configs
  BY DEF BuilderStates
<1> DEFINE version == IF c.method \in Specs THEN [spec |-> c.method, pinned |-> c.arg] ELSE b.version
           option == IF c.method \in Options THEN [b.option EXCEPT ![c.method] = c.arg] ELSE b.option
           mirror == IF c.method \in Mirrors
                     THEN [(IF b.mirror = None THEN [x \in Mirrors |-> "default"] ELSE b.mirror) EXCEPT ![c.method] = c.arg]
                     ELSE b.mirror
           paths  == IF c.method = "driver_binary" THEN [b.driver_paths EXCEPT ![c.browser] = c.arg] ELSE b.driver_paths
           heard  == Hears(b, c)
           set    == IF c.method = "config" THEN WebDriverConfig(c.arg)
                     ELSE IF c.method = "poller" THEN [b.config EXCEPT !.poller = c.arg] ELSE b.config
<1>10. BuilderCall(b, c) = [version |-> version, option |-> option, mirror |-> mirror, driver_paths |-> paths,
                            subscribers |-> heard, config |-> set]
  BY BuilderCallIs
<1>11. version \in [spec : Specs, pinned : Requests \cup {None}] /\ option \in [Options -> Values \cup BOOLEAN \cup {None}]
  BY <1>2, <1>3, <1>9
<1>12. mirror \in [Mirrors -> Values] \cup {None} /\ paths \in [Kinds -> Values \cup {None}]
  BY <1>4, <1>5, <1>9
<1>13. heard \in Seq(Values) /\ set \in Configs
  BY <1>6, <1>7, <1>8, <1>9 DEF Hears
<1> HIDE DEF version, option, mirror, paths, heard, set
<1> QED BY <1>10, <1>11, <1>12, <1>13 DEF BuilderStates

(* config.rs:85-92: the configuration that nothing was asked of has the defaults. *)
LEMMA EmptyConfig ==
  /\ WebDriverConfig(<<>>) = [keep_alive |-> TRUE, poller |-> "default", user_agent |-> "default", request_timeout |-> "default"]
  /\ WebDriverConfig(<<>>) \in Configs /\ WebDriverConfig(<<>>) = AskedOfConfig(<<>>)
<1>1. <<>> \in Seq(ConfigCalls) /\ Len(<<>>) = 0
  OBVIOUS
<1>2. PICK b : b[0] = NewConfig /\ FoldLeft(ConfigCall, NewConfig, <<>>) = b[Len(<<>>)]
  BY <1>1, ConfigFold
<1>3. FoldLeft(ConfigCall, NewConfig, <<>>) = NewConfig
  BY <1>1, <1>2
<1>4. WebDriverConfig(<<>>) = BuildConfig(NewConfig)
  BY <1>3 DEF WebDriverConfig
<1>5. BuildConfig(NewConfig) = [keep_alive |-> TRUE, poller |-> "default", user_agent |-> "default", request_timeout |-> "default"]
  BY ValuesAssumption DEF BuildConfig, NewConfig, OrDefault
<1>6. BuildConfig(NewConfig) \in Configs
  BY <1>5, ValuesAssumption DEF Configs
<1> QED BY <1>1, <1>4, <1>5, <1>6, ConfigIsAsAsked

(* manager.rs:192-221: the builder that new() makes is one. *)
LEMMA NewBuilderOK == NewBuilder \in BuilderStates
<1>1. <<>> \in Seq(Values)
  OBVIOUS
<1> QED BY <1>1, EmptyConfig DEF NewBuilder, BuilderStates, Specs, Options, Kinds

(* What FoldLeft chooses for the calls on a manager's builder. *)
IsBuilderIter(it, s) == it = [x \in SUBSET DOMAIN s |-> IF x = {} THEN NewBuilder ELSE BuilderCall(it[x \ {Max(x)}], s[Max(x)])]

(* FoldLeft, in terms of that choice. *)
LEMMA BuilderUnfold ==
  ASSUME NEW s PROVE FoldLeft(BuilderCall, NewBuilder, s) = (CHOOSE it : IsBuilderIter(it, s))[DOMAIN s]
  BY DEF FoldLeft, MapThenFoldSet, IsBuilderIter

(* The builder after each of the calls, b[n] after n of them. *)
LEMMA BuilderFold ==
  ASSUME NEW s \in Seq(GoodCalls)
  PROVE  \E b : /\ b[0] = NewBuilder
                /\ \A n \in 1 .. Len(s) : b[n] = BuilderCall(b[n - 1], s[n])
                /\ FoldLeft(BuilderCall, NewBuilder, s) = b[Len(s)]
<1> DEFINE f == [p \in BuilderStates \X Nat |-> IF p[2] \in 1 .. Len(s) THEN BuilderCall(p[1], s[p[2]]) ELSE p[1]]
<1>1. DOMAIN s = 1 .. Len(s) /\ Len(s) \in Nat /\ \A n \in 1 .. Len(s) : s[n] \in GoodCalls
  OBVIOUS
<1>2. f \in [BuilderStates \X Nat -> BuilderStates]
  BY <1>1, BuilderCallOK
<1>4. ASSUME NEW a \in BuilderStates, NEW n \in 1 .. Len(s) PROVE f[a, n] = BuilderCall(a, s[n])
  <2>1. <<a, n>> \in BuilderStates \X Nat /\ <<a, n>>[1] = a /\ <<a, n>>[2] = n
    OBVIOUS
  <2> QED BY <2>1
<1> HIDE DEF f
<1>5. PICK it \in [SUBSET (1 .. Len(s)) -> BuilderStates] : Iterates(it, f, NewBuilder, Len(s))
  BY <1>1, <1>2, NewBuilderOK, FoldExists
<1>6. IsBuilderIter(it, s)
  <2>1. ASSUME NEW x \in SUBSET (1 .. Len(s))
        PROVE  it[x] = IF x = {} THEN NewBuilder ELSE BuilderCall(it[x \ {Max(x)}], s[Max(x)])
    <3>1. CASE x # {}
      <4>1. Max(x) \in x
        BY <1>1, <3>1, MaxOK
      <4>2. x \ {Max(x)} \in SUBSET (1 .. Len(s)) /\ Max(x) \in 1 .. Len(s)
        BY <4>1
      <4>3. it[x \ {Max(x)}] \in BuilderStates
        BY <4>2
      <4>4. f[it[x \ {Max(x)}], Max(x)] = BuilderCall(it[x \ {Max(x)}], s[Max(x)])
        BY <4>2, <4>3, <1>4
      <4> QED BY <3>1, <4>4, <1>5 DEF Iterates
    <3>2. CASE x = {}
      BY <3>2, <1>5 DEF Iterates
    <3> QED BY <3>1, <3>2
  <2>2. it = [x \in SUBSET (1 .. Len(s)) |-> it[x]]
    OBVIOUS
  <2> QED BY <2>1, <2>2, <1>1 DEF IsBuilderIter
<1> DEFINE i == CHOOSE g : IsBuilderIter(g, s)
<1>7. IsBuilderIter(i, s)
  BY <1>6
<1>8. FoldLeft(BuilderCall, NewBuilder, s) = i[1 .. Len(s)]
  BY <1>1, BuilderUnfold
<1> HIDE DEF i
<1>9. \A x \in SUBSET (1 .. Len(s)) : i[x] = IF x = {} THEN NewBuilder ELSE BuilderCall(i[x \ {Max(x)}], s[Max(x)])
  BY <1>7, <1>1 DEF IsBuilderIter
<1> DEFINE b == [n \in 0 .. Len(s) |-> i[1 .. n]]
<1>10. b[0] = NewBuilder
  <2>1. 1 .. 0 = {} /\ 0 \in 0 .. Len(s)
    BY <1>1
  <2> QED BY <2>1, <1>9
<1>11. ASSUME NEW n \in 1 .. Len(s) PROVE b[n] = BuilderCall(b[n - 1], s[n])
  <2>1. /\ 1 .. n \in SUBSET (1 .. Len(s)) /\ 1 .. n # {} /\ n \in 0 .. Len(s) /\ n - 1 \in 0 .. Len(s)
        /\ Max(1 .. n) = n /\ (1 .. n) \ {n} = 1 .. n - 1
    BY <1>1, UpTo
  <2>2. i[1 .. n] = BuilderCall(i[(1 .. n) \ {Max(1 .. n)}], s[Max(1 .. n)])
    BY <2>1, <1>9
  <2> QED BY <2>1, <2>2
<1>12. FoldLeft(BuilderCall, NewBuilder, s) = b[Len(s)]
  BY <1>1, <1>8
<1> HIDE DEF b
<1> QED BY <1>10, <1>11, <1>12

(* The builder after each of the calls. *)
LEMMA BuilderSteps ==
  ASSUME NEW s \in Seq(GoodCalls)
  PROVE  \E b : /\ b[0] = NewBuilder
                /\ \A n \in 0 .. Len(s) : b[n] \in BuilderStates
                /\ \A n \in 1 .. Len(s) : n - 1 \in 0 .. Len(s) /\ s[n] \in GoodCalls /\ b[n] = BuilderCall(b[n - 1], s[n])
                /\ FoldLeft(BuilderCall, NewBuilder, s) = b[Len(s)]
<1> DEFINE N == Len(s)
<1>1. N \in Nat /\ \A n \in 1 .. N : s[n] \in GoodCalls
  OBVIOUS
<1> HIDE DEF N
<1>2. PICK b : /\ b[0] = NewBuilder
               /\ \A n \in 1 .. N : b[n] = BuilderCall(b[n - 1], s[n])
               /\ FoldLeft(BuilderCall, NewBuilder, s) = b[N]
  BY BuilderFold DEF N
<1>4. \A n \in 0 .. N : b[n] \in BuilderStates
  <2> DEFINE S == {n \in Nat : n <= N => b[n] \in BuilderStates}
  <2>1. 0 \in S
    BY <1>2, NewBuilderOK
  <2>2. ASSUME NEW n \in Nat, n \in S PROVE n + 1 \in S
    <3> SUFFICES ASSUME n + 1 <= N PROVE b[n + 1] \in BuilderStates
      OBVIOUS
    <3>1. n + 1 \in 1 .. N /\ (n + 1) - 1 = n /\ n <= N
      BY <1>1
    <3>2. b[n + 1] = BuilderCall(b[n], s[n + 1]) /\ b[n] \in BuilderStates /\ s[n + 1] \in GoodCalls
      BY <3>1, <2>2, <1>1, <1>2
    <3> QED BY <3>2, BuilderCallOK
  <2>3. Nat \subseteq S
    <3> HIDE DEF S
    <3> QED BY <2>1, <2>2, AllNumbers
  <2> QED BY <2>3
<1>5. \A n \in 1 .. N : n - 1 \in 0 .. N
  BY <1>1
<1> QED BY <1>1, <1>2, <1>4, <1>5 DEF N

(* The mirror that build() will use. *)
MirrorOf(b, m) == IF b.mirror = None THEN "default" ELSE b.mirror[m]

(* What one call changes, thing by thing: b becomes d. *)
Sets(b, c, d) ==
  /\ d.version = IF c.method \in Specs THEN [spec |-> c.method, pinned |-> c.arg] ELSE b.version
  /\ \A o \in Options : d.option[o] = IF c.method = o THEN c.arg ELSE b.option[o]
  /\ \A m \in Mirrors : MirrorOf(d, m) = IF c.method = m THEN c.arg ELSE MirrorOf(b, m)
  /\ \A k \in Kinds : d.driver_paths[k] = IF c.method = "driver_binary" /\ c.browser = k THEN c.arg ELSE b.driver_paths[k]
  /\ d.subscribers = Hears(b, c)
  /\ \A f \in ConfigFields \ {"poller"} :
       d.config[f] = IF c.method = "config" THEN WebDriverConfig(c.arg)[f] ELSE b.config[f]
  /\ d.config.poller = IF c.method = "config" THEN WebDriverConfig(c.arg).poller
                       ELSE IF c.method = "poller" THEN c.arg ELSE b.config.poller

(* Each call changes what it is for and nothing else. *)
LEMMA BuilderCallSets ==
  ASSUME NEW b \in BuilderStates, NEW c \in GoodCalls PROVE Sets(b, c, BuilderCall(b, c))
<1> DEFINE d == BuilderCall(b, c)
<1>0. d.version = (IF c.method \in Specs THEN [spec |-> c.method, pinned |-> c.arg] ELSE b.version)
  BY BuilderCallIs
<1>1. d.option = (IF c.method \in Options THEN [b.option EXCEPT ![c.method] = c.arg] ELSE b.option)
  BY BuilderCallIs
<1>2. d.mirror = IF c.method \in Mirrors
                 THEN [(IF b.mirror = None THEN [x \in Mirrors |-> "default"] ELSE b.mirror) EXCEPT ![c.method] = c.arg]
                 ELSE b.mirror
  BY BuilderCallIs
<1>3. d.driver_paths = IF c.method = "driver_binary" THEN [b.driver_paths EXCEPT ![c.browser] = c.arg] ELSE b.driver_paths
  BY BuilderCallIs
<1>4. d.subscribers = Hears(b, c)
  BY BuilderCallIs
<1>5. d.config = IF c.method = "config" THEN WebDriverConfig(c.arg)
                 ELSE IF c.method = "poller" THEN [b.config EXCEPT !.poller = c.arg] ELSE b.config
  BY BuilderCallIs
<1> HIDE DEF d
<1>6. /\ b.option \in [Options -> Values \cup BOOLEAN \cup {None}] /\ b.mirror \in [Mirrors -> Values] \cup {None}
      /\ b.driver_paths \in [Kinds -> Values \cup {None}] /\ b.config \in Configs
  BY DEF BuilderStates
<1>7. \A o \in Options : d.option[o] = IF c.method = o THEN c.arg ELSE b.option[o]
  BY <1>1, <1>6
<1>8. \A m \in Mirrors : MirrorOf(d, m) = IF c.method = m THEN c.arg ELSE MirrorOf(b, m)
  <2>1. CASE c.method \in Mirrors
    <3> DEFINE a == IF b.mirror = None THEN [x \in Mirrors |-> "default"] ELSE b.mirror
    <3>1. a \in [Mirrors -> Values] /\ \A m \in Mirrors : a[m] = MirrorOf(b, m)
      BY <1>6, ValuesAssumption DEF MirrorOf
    <3>2. c.arg \in Values
      BY <2>1 DEF GoodCalls, BuilderCalls, Mirrors
    <3>3. d.mirror = [a EXCEPT ![c.method] = c.arg]
      BY <1>2, <2>1
    <3> HIDE DEF a
    <3>4. d.mirror \in [Mirrors -> Values] /\ \A m \in Mirrors : d.mirror[m] = IF c.method = m THEN c.arg ELSE a[m]
      BY <3>1, <3>2, <3>3
    <3>5. d.mirror # None
      BY <3>4, NothingAssumption
    <3> QED BY <3>1, <3>4, <3>5 DEF MirrorOf
  <2>2. CASE c.method \notin Mirrors
    BY <1>2, <2>2 DEF MirrorOf
  <2> QED BY <2>1, <2>2
<1>9. \A k \in Kinds : d.driver_paths[k] = IF c.method = "driver_binary" /\ c.browser = k THEN c.arg ELSE b.driver_paths[k]
  BY <1>3, <1>6
<1>10. /\ \A f \in ConfigFields \ {"poller"} :
            d.config[f] = IF c.method = "config" THEN WebDriverConfig(c.arg)[f] ELSE b.config[f]
       /\ d.config.poller = IF c.method = "config" THEN WebDriverConfig(c.arg).poller
                            ELSE IF c.method = "poller" THEN c.arg ELSE b.config.poller
  BY <1>5, <1>6 DEF ConfigFields, Configs
<1> QED BY <1>0, <1>4, <1>7, <1>8, <1>9, <1>10 DEF d, Sets

(* The how-manieth of H position i is. *)
Rank(H, i) == Cardinality({j \in H : j <= i})

(* The positions in H up to n + 1, from those up to n. *)
LEMMA UpToNext ==
  ASSUME NEW N \in Nat, NEW H \in SUBSET (1 .. N), NEW n \in Nat
  PROVE  /\ n + 1 \in H => {i \in H : i <= n + 1} = {i \in H : i <= n} \cup {n + 1} /\ n + 1 \notin {i \in H : i <= n}
         /\ n + 1 \notin H => {i \in H : i <= n + 1} = {i \in H : i <= n}
         /\ {i \in H : i <= N} = H
<1>1. ASSUME NEW i \in H PROVE i \in Nat /\ i <= N /\ (i <= n + 1 <=> i <= n \/ i = n + 1)
  <2>1. i \in 1 .. N
    OBVIOUS
  <2> QED BY <2>1
<1>2. ~(n + 1 <= n)
  OBVIOUS
<1> QED BY <1>1, <1>2

(* v grows with the calls of H. *)
Grows(v, H, arg, A, N) ==
  /\ v[0] = <<>>
  /\ \A n \in 1 .. N : /\ arg[n] \in A /\ v[n - 1] \in Seq(A)
                       /\ n \in H => v[n] = Append(v[n - 1], arg[n])
                       /\ n \notin H => v[n] = v[n - 1]

(* Each number up to the size of H is the rank of a position, and the
   arguments in the order of the ranks. *)
Ranked(H) == \A k \in 1 .. Cardinality(H) : \E i \in H : Rank(H, i) = k
InCallOrder(H, arg) == [k \in 1 .. Cardinality(H) |-> arg[CHOOSE i \in H : Rank(H, i) = k]]

(* The list of the subscribers, in the order of the calls. *)
LEMMA SubscribersInOrder ==
  ASSUME NEW N \in Nat, NEW H \in SUBSET (1 .. N), NEW A, NEW v, NEW arg, Grows(v, H, arg, A, N)
  PROVE  v[N] = InCallOrder(H, arg) /\ Ranked(H)
<1> DEFINE T(n) == {i \in H : i <= n}
           Good(n) == /\ v[n] \in Seq(A) /\ Len(v[n]) = Rank(H, n)
                      /\ \A i \in T(n) : Rank(H, i) \in 1 .. Rank(H, n) /\ v[n][Rank(H, i)] = arg[i]
                      /\ \A k \in 1 .. Rank(H, n) : \E i \in T(n) : Rank(H, i) = k
           S == {n \in Nat : n <= N => Good(n)}
<1>0. IsFiniteSet(H) /\ \A n \in Nat : IsFiniteSet(T(n)) /\ Rank(H, n) \in Nat
  <2>1. IsFiniteSet(1 .. N)
    BY FS_Interval
  <2>2. IsFiniteSet(H)
    BY <2>1, FS_Subset
  <2>3. ASSUME NEW n \in Nat PROVE IsFiniteSet(T(n)) /\ Rank(H, n) \in Nat
    <3>1. IsFiniteSet(T(n))
      BY <2>2, FS_Subset
    <3> QED BY <3>1, FS_CardinalityType DEF Rank
  <2> QED BY <2>2, <2>3
<1>1. 0 \in S
  <2>1. T(0) = {}
    BY NoneUpTo0
  <2>2. Rank(H, 0) = 0
    BY <2>1, FS_EmptySet DEF Rank
  <2>3. v[0] \in Seq(A) /\ Len(v[0]) = 0 /\ 1 .. 0 = {}
    BY DEF Grows
  <2> QED BY <2>1, <2>2, <2>3
<1>2. ASSUME NEW n \in Nat, n \in S PROVE n + 1 \in S
  <2> SUFFICES ASSUME n + 1 <= N PROVE Good(n + 1)
    OBVIOUS
  <2>1. n + 1 \in 1 .. N /\ (n + 1) - 1 = n
    OBVIOUS
  <2>2. Good(n)
    BY <1>2, <2>1
  <2>3. CASE n + 1 \in H
    <3>1. T(n + 1) = T(n) \cup {n + 1} /\ n + 1 \notin T(n)
      BY <2>3, UpToNext
    <3>2. Rank(H, n + 1) = Rank(H, n) + 1
      BY <3>1, <1>0, FS_AddElement DEF Rank
    <3>3. v[n + 1] = Append(v[n], arg[n + 1]) /\ arg[n + 1] \in A
      BY <2>1, <2>3 DEF Grows
    <3> DEFINE r == Rank(H, n)
    <3>4. r \in Nat
      BY <1>0
    <3>5. /\ v[n + 1] \in Seq(A) /\ Len(v[n + 1]) = r + 1
          /\ v[n + 1][r + 1] = arg[n + 1] /\ \A k \in 1 .. r : v[n + 1][k] = v[n][k]
      BY <2>2, <3>3, <3>4
    <3>6. ASSUME NEW i \in T(n + 1) PROVE Rank(H, i) \in 1 .. Rank(H, n + 1) /\ v[n + 1][Rank(H, i)] = arg[i]
      <4>1. CASE i = n + 1
        BY <4>1, <3>2, <3>4, <3>5
      <4>2. CASE i \in T(n)
        <5>1. Rank(H, i) \in 1 .. r /\ v[n][Rank(H, i)] = arg[i]
          BY <4>2, <2>2
        <5> QED BY <5>1, <3>2, <3>4, <3>5
      <4> QED BY <4>1, <4>2, <3>1
    <3>7. ASSUME NEW k \in 1 .. Rank(H, n + 1) PROVE \E i \in T(n + 1) : Rank(H, i) = k
      <4>1. CASE k = r + 1
        BY <4>1, <3>1, <3>2
      <4>2. CASE k # r + 1
        <5>1. k \in 1 .. r
          BY <4>2, <3>2, <3>4
        <5> QED BY <5>1, <2>2, <3>1
      <4> QED BY <4>1, <4>2
    <3> QED BY <3>2, <3>5, <3>6, <3>7
  <2>4. CASE n + 1 \notin H
    <3>1. T(n + 1) = T(n)
      <4> HIDE DEF Good, S
      <4> QED BY <2>4, UpToNext
    <3>2. Rank(H, n + 1) = Rank(H, n)
      BY <3>1 DEF Rank
    <3>3. v[n + 1] = v[n]
      BY <2>1, <2>4 DEF Grows
    <3> QED BY <2>2, <3>1, <3>2, <3>3
  <2> QED BY <2>3, <2>4
<1>3. Good(N)
  <2>1. Nat \subseteq S
    <3> HIDE DEF S
    <3> QED BY <1>1, <1>2, AllNumbers
  <2>2. N \in S /\ N <= N
    <3> HIDE DEF S
    <3> QED BY <2>1
  <2> HIDE DEF Good
  <2> QED BY <2>2
<1>4. T(N) = H /\ Rank(H, N) = Cardinality(H)
  <2>2. T(N) = H
    BY UpToNext
  <2> QED BY <2>2 DEF Rank
<1>5. ASSUME NEW k \in 1 .. Cardinality(H) PROVE v[N][k] = arg[CHOOSE i \in H : Rank(H, i) = k]
  <2>1. \E i \in H : Rank(H, i) = k
    BY <1>3, <1>4
  <2>2. PICK i \in H : i = (CHOOSE j \in H : Rank(H, j) = k) /\ Rank(H, i) = k
    BY <2>1
  <2> QED BY <2>2, <1>3, <1>4
<1>6. v[N] \in Seq(A) /\ Len(v[N]) = Cardinality(H)
  BY <1>3, <1>4
<1>7. v[N] = [k \in 1 .. Cardinality(H) |-> v[N][k]]
  BY <1>6
<1>8. Ranked(H)
  BY <1>3, <1>4 DEF Ranked
<1> QED BY <1>5, <1>7, <1>8 DEF InCallOrder

(* The calls of s that give browser k a driver. *)
PathHits(s, k) == {i \in 1 .. Len(s) : s[i].method = "driver_binary" /\ s[i].browser = k}

(* What the last call in H gave, or base. *)
LastOr(H, s, of, base) == IF LastIn(H, Len(s)) = 0 THEN base ELSE of[LastIn(H, Len(s))]

(* What the builder has in the end, thing by thing. *)
LEMMA BuilderFields ==
  ASSUME NEW s \in Seq(GoodCalls)
  PROVE  LET b == FoldLeft(BuilderCall, NewBuilder, s) IN
         /\ b \in BuilderStates
         /\ b.version = LastOr(Hits(s, Specs), s, [i \in 1 .. Len(s) |-> [spec |-> s[i].method, pinned |-> s[i].arg]],
                               [spec |-> "match_local", pinned |-> None])
         /\ \A o \in Options : b.option[o] = LastOr(Hits(s, {o}), s, [i \in 1 .. Len(s) |-> s[i].arg], None)
         /\ \A m \in Mirrors : MirrorOf(b, m) = LastOr(Hits(s, {m}), s, [i \in 1 .. Len(s) |-> s[i].arg], "default")
         /\ \A k \in Kinds : b.driver_paths[k] = LastOr(PathHits(s, k), s, [i \in 1 .. Len(s) |-> s[i].arg], None)
         /\ b.subscribers = InCallOrder(Hits(s, {"subscribe"}), [i \in 1 .. Len(s) |-> s[i].arg]) /\ Ranked(Hits(s, {"subscribe"}))
         /\ \A f \in ConfigFields \ {"poller"} :
              b.config[f] = LastOr(Hits(s, {"config"}), s, [i \in 1 .. Len(s) |-> WebDriverConfig(s[i].arg)[f]],
                                   NewBuilder.config[f])
         /\ b.config.poller = LastOr(Hits(s, {"config", "poller"}), s,
                                     [i \in 1 .. Len(s) |-> IF s[i].method = "config" THEN WebDriverConfig(s[i].arg).poller
                                                                                      ELSE s[i].arg],
                                     NewBuilder.config.poller)
<1> DEFINE N == Len(s)
           calls == [i \in 1 .. N |-> s[i].arg]
<1>1. N \in Nat
  OBVIOUS
<1>2. PICK b : /\ b[0] = NewBuilder
               /\ \A n \in 0 .. N : b[n] \in BuilderStates
               /\ \A n \in 1 .. N : n - 1 \in 0 .. N /\ s[n] \in GoodCalls /\ b[n] = BuilderCall(b[n - 1], s[n])
               /\ FoldLeft(BuilderCall, NewBuilder, s) = b[N]
  BY BuilderSteps
<1>3. 0 \in 0 .. N /\ N \in 0 .. N /\ \A n \in 1 .. N : n \in 0 .. N
  BY <1>1
<1>12. ASSUME NEW n \in 1 .. N PROVE Sets(b[n - 1], s[n], b[n])
  <2>1. b[n - 1] \in BuilderStates /\ s[n] \in GoodCalls /\ b[n] = BuilderCall(b[n - 1], s[n])
    BY <1>2
  <2> QED BY <2>1, BuilderCallSets
<1> HIDE DEF N
<1>4. b[N].version = LastOr(Hits(s, Specs), s, [i \in 1 .. N |-> [spec |-> s[i].method, pinned |-> s[i].arg]],
                            [spec |-> "match_local", pinned |-> None])
  <2> DEFINE H == Hits(s, Specs)
             v == [n \in 0 .. N |-> b[n].version]
             a == [i \in 1 .. N |-> [spec |-> s[i].method, pinned |-> s[i].arg]]
             base == [spec |-> "match_local", pinned |-> None]
  <2>1. H \in SUBSET (1 .. N)
    BY DEF Hits, N
  <2>2. v[0] = base /\ v[N] = b[N].version
    BY <1>2, <1>3 DEF NewBuilder
  <2>3. ASSUME NEW n \in 1 .. N PROVE v[n] = IF n \in H THEN a[n] ELSE v[n - 1]
    <3>1. b[n].version = IF s[n].method \in Specs THEN [spec |-> s[n].method, pinned |-> s[n].arg] ELSE b[n - 1].version
      BY <1>12 DEF Sets
    <3>2. n \in H <=> s[n].method \in Specs
      BY DEF Hits, N
    <3> QED BY <3>1, <3>2, <1>2, <1>3
  <2> HIDE DEF H, v, a, base
  <2>4. Tracks(v, H, a, base, N)
    BY <2>2, <2>3 DEF Tracks
  <2>5. v[N] = IF LastIn(H, N) = 0 THEN base ELSE a[LastIn(H, N)]
    BY <1>1, <2>1, <2>4, LastCounts
  <2> QED BY <2>2, <2>5 DEF LastOr, H, a, base, N
<1>5. ASSUME NEW o \in Options PROVE b[N].option[o] = LastOr(Hits(s, {o}), s, calls, None)
  <2> DEFINE H == Hits(s, {o})
             v == [n \in 0 .. N |-> b[n].option[o]]
  <2>1. H \in SUBSET (1 .. N)
    BY DEF Hits, N
  <2>2. v[0] = None /\ v[N] = b[N].option[o]
    BY <1>2, <1>3 DEF NewBuilder
  <2>3. ASSUME NEW n \in 1 .. N PROVE v[n] = IF n \in H THEN calls[n] ELSE v[n - 1]
    <3>1. b[n].option[o] = IF s[n].method = o THEN s[n].arg ELSE b[n - 1].option[o]
      BY <1>12 DEF Sets
    <3>2. n \in H <=> s[n].method = o
      BY DEF Hits, N
    <3> QED BY <3>1, <3>2, <1>2, <1>3
  <2> HIDE DEF H, v, calls
  <2>4. Tracks(v, H, calls, None, N)
    BY <2>2, <2>3 DEF Tracks
  <2>5. v[N] = IF LastIn(H, N) = 0 THEN None ELSE calls[LastIn(H, N)]
    BY <1>1, <2>1, <2>4, LastCounts
  <2> QED BY <2>2, <2>5 DEF LastOr, H, N
<1>6. ASSUME NEW m \in Mirrors PROVE MirrorOf(b[N], m) = LastOr(Hits(s, {m}), s, calls, "default")
  <2> DEFINE H == Hits(s, {m})
             v == [n \in 0 .. N |-> MirrorOf(b[n], m)]
             base == "default"
  <2>1. H \in SUBSET (1 .. N)
    BY DEF Hits, N
  <2>2. v[0] = base /\ v[N] = MirrorOf(b[N], m)
    BY <1>2, <1>3 DEF NewBuilder, MirrorOf
  <2>3. ASSUME NEW n \in 1 .. N PROVE v[n] = IF n \in H THEN calls[n] ELSE v[n - 1]
    <3>1. MirrorOf(b[n], m) = IF s[n].method = m THEN s[n].arg ELSE MirrorOf(b[n - 1], m)
      BY <1>12 DEF Sets
    <3>2. n \in H <=> s[n].method = m
      BY DEF Hits, N
    <3> QED BY <3>1, <3>2, <1>2, <1>3
  <2> HIDE DEF H, v, calls, base
  <2>4. Tracks(v, H, calls, base, N)
    BY <2>2, <2>3 DEF Tracks
  <2>5. v[N] = IF LastIn(H, N) = 0 THEN base ELSE calls[LastIn(H, N)]
    BY <1>1, <2>1, <2>4, LastCounts
  <2> QED BY <2>2, <2>5 DEF LastOr, H, N, base
<1>7. ASSUME NEW k \in Kinds PROVE b[N].driver_paths[k] = LastOr(PathHits(s, k), s, calls, None)
  <2> DEFINE H == PathHits(s, k)
             v == [n \in 0 .. N |-> b[n].driver_paths[k]]
  <2>1. H \in SUBSET (1 .. N)
    BY DEF PathHits, N
  <2>2. v[0] = None /\ v[N] = b[N].driver_paths[k]
    BY <1>2, <1>3 DEF NewBuilder, Kinds
  <2>3. ASSUME NEW n \in 1 .. N PROVE v[n] = IF n \in H THEN calls[n] ELSE v[n - 1]
    <3>1. b[n].driver_paths[k] = IF s[n].method = "driver_binary" /\ s[n].browser = k THEN s[n].arg ELSE b[n - 1].driver_paths[k]
      BY <1>12 DEF Sets
    <3>2. n \in H <=> s[n].method = "driver_binary" /\ s[n].browser = k
      BY DEF PathHits, N
    <3> QED BY <3>1, <3>2, <1>2, <1>3
  <2> HIDE DEF H, v, calls
  <2>4. Tracks(v, H, calls, None, N)
    BY <2>2, <2>3 DEF Tracks
  <2>5. v[N] = IF LastIn(H, N) = 0 THEN None ELSE calls[LastIn(H, N)]
    BY <1>1, <2>1, <2>4, LastCounts
  <2> QED BY <2>2, <2>5 DEF LastOr, H, N
<1>8. b[N].subscribers = InCallOrder(Hits(s, {"subscribe"}), calls) /\ Ranked(Hits(s, {"subscribe"}))
  <2> DEFINE H == Hits(s, {"subscribe"})
             v == [n \in 0 .. N |-> b[n].subscribers]
             A == Values \cup {calls[n] : n \in 1 .. N}
  <2>1. H \in SUBSET (1 .. N)
    BY DEF Hits, N
  <2>2. v[0] = <<>> /\ v[N] = b[N].subscribers
    BY <1>2, <1>3 DEF NewBuilder
  <2>3. ASSUME NEW n \in 1 .. N
        PROVE  /\ calls[n] \in A /\ v[n - 1] \in Seq(A)
               /\ n \in H => v[n] = Append(v[n - 1], calls[n])
               /\ n \notin H => v[n] = v[n - 1]
    <3>1. b[n].subscribers = Hears(b[n - 1], s[n])
      BY <1>12 DEF Sets
    <3>2. n \in H <=> s[n].method = "subscribe"
      BY DEF Hits, N
    <3>3. b[n - 1].subscribers \in Seq(Values)
      BY <1>2 DEF BuilderStates
    <3>4. b[n - 1].subscribers \in Seq(A)
      BY <3>3
    <3>5. v[n] = b[n].subscribers /\ v[n - 1] = b[n - 1].subscribers /\ calls[n] = s[n].arg
      BY <1>2, <1>3
    <3>6. calls[n] \in A
      OBVIOUS
    <3> HIDE DEF v, calls, H, A
    <3> QED BY <3>1, <3>2, <3>4, <3>5, <3>6 DEF Hears
  <2> HIDE DEF H, v, calls, A
  <2>4. Grows(v, H, calls, A, N)
    BY <2>2, <2>3 DEF Grows
  <2>5. v[N] = InCallOrder(H, calls) /\ Ranked(H)
    BY <1>1, <2>1, <2>4, SubscribersInOrder
  <2> QED BY <2>2, <2>5 DEF H
<1>9. ASSUME NEW f \in ConfigFields \ {"poller"}
      PROVE  b[N].config[f] = LastOr(Hits(s, {"config"}), s, [i \in 1 .. N |-> WebDriverConfig(s[i].arg)[f]],
                                     NewBuilder.config[f])
  <2> DEFINE H == Hits(s, {"config"})
             v == [n \in 0 .. N |-> b[n].config[f]]
             a == [i \in 1 .. N |-> WebDriverConfig(s[i].arg)[f]]
             base == NewBuilder.config[f]
  <2>1. H \in SUBSET (1 .. N)
    BY DEF Hits, N
  <2>2. v[0] = base /\ v[N] = b[N].config[f]
    BY <1>2, <1>3
  <2>3. ASSUME NEW n \in 1 .. N PROVE v[n] = IF n \in H THEN a[n] ELSE v[n - 1]
    <3>1. b[n].config[f] = IF s[n].method = "config" THEN WebDriverConfig(s[n].arg)[f] ELSE b[n - 1].config[f]
      BY <1>12 DEF Sets
    <3>2. n \in H <=> s[n].method = "config"
      BY DEF Hits, N
    <3> QED BY <3>1, <3>2, <1>2, <1>3
  <2> HIDE DEF H, v, a, base
  <2>4. Tracks(v, H, a, base, N)
    BY <2>2, <2>3 DEF Tracks
  <2>5. v[N] = IF LastIn(H, N) = 0 THEN base ELSE a[LastIn(H, N)]
    BY <1>1, <2>1, <2>4, LastCounts
  <2> QED BY <2>2, <2>5 DEF LastOr, H, a, base, N
<1>10. b[N].config.poller = LastOr(Hits(s, {"config", "poller"}), s,
                                   [i \in 1 .. N |-> IF s[i].method = "config" THEN WebDriverConfig(s[i].arg).poller ELSE s[i].arg],
                                   NewBuilder.config.poller)
  <2> DEFINE H == Hits(s, {"config", "poller"})
             v == [n \in 0 .. N |-> b[n].config.poller]
             a == [i \in 1 .. N |-> IF s[i].method = "config" THEN WebDriverConfig(s[i].arg).poller ELSE s[i].arg]
             base == NewBuilder.config.poller
  <2>1. H \in SUBSET (1 .. N)
    BY DEF Hits, N
  <2>2. v[0] = base /\ v[N] = b[N].config.poller
    BY <1>2, <1>3
  <2>3. ASSUME NEW n \in 1 .. N PROVE v[n] = IF n \in H THEN a[n] ELSE v[n - 1]
    <3>1. b[n].config.poller = IF s[n].method = "config" THEN WebDriverConfig(s[n].arg).poller
                               ELSE IF s[n].method = "poller" THEN s[n].arg ELSE b[n - 1].config.poller
      BY <1>12 DEF Sets
    <3>2. n \in H <=> s[n].method \in {"config", "poller"}
      BY DEF Hits, N
    <3> QED BY <3>1, <3>2, <1>2, <1>3
  <2> HIDE DEF H, v, a, base
  <2>4. Tracks(v, H, a, base, N)
    BY <2>2, <2>3 DEF Tracks
  <2>5. v[N] = IF LastIn(H, N) = 0 THEN base ELSE a[LastIn(H, N)]
    BY <1>1, <2>1, <2>4, LastCounts
  <2> QED BY <2>2, <2>5 DEF LastOr, H, a, base, N
<1>11. b[N] \in BuilderStates
  BY <1>2, <1>3
<1> QED BY <1>2, <1>4, <1>5, <1>6, <1>7, <1>8, <1>9, <1>10, <1>11 DEF N

(* A manager's builder is called with configurations that were built. *)
LEMMA CallsAreGood == ASSUME NEW s \in Builders PROVE s \in Seq(GoodCalls)
<1>1. s \in Seq(BuilderCalls) /\ \A i \in DOMAIN s : s[i].method = "config" => WebDriverConfig(s[i].arg) # None
  BY BuildersAssumption
<1>2. DOMAIN s = 1 .. Len(s) /\ Len(s) \in Nat /\ \A i \in 1 .. Len(s) : s[i] \in BuilderCalls
  BY <1>1
<1>3. \A i \in 1 .. Len(s) : s[i] \in GoodCalls
  BY <1>1, <1>2 DEF GoodCalls
<1>4. s = [i \in 1 .. Len(s) |-> s[i]]
  BY <1>1, <1>2
<1> QED BY <1>2, <1>3, <1>4

(* The arguments of the calls. *)
Args(s) == [i \in 1 .. Len(s) |-> s[i].arg]

(* What Asked() looks for, in the words of the lemmas. *)
LEMMA LastArgIs ==
  ASSUME NEW A, NEW s \in Seq(A), NEW base
  PROVE  /\ \A f : LastArg(s, LAMBDA c : c.method = f, base) = LastOr(Hits(s, {f}), s, Args(s), base)
         /\ \A k : LastArg(s, LAMBDA c : c.method = "driver_binary" /\ c.browser = k, base)
                     = LastOr(PathHits(s, k), s, Args(s), base)
         /\ \A ms : SelectLastInSeq(s, LAMBDA c : c.method \in ms) = LastIn(Hits(s, ms), Len(s))
         /\ \A ms : LastIn(Hits(s, ms), Len(s)) # 0 =>
                      LastIn(Hits(s, ms), Len(s)) \in Hits(s, ms) /\ LastIn(Hits(s, ms), Len(s)) \in 1 .. Len(s)
<1>0. Len(s) \in Nat
  OBVIOUS
<1>1. ASSUME NEW f PROVE LastArg(s, LAMBDA c : c.method = f, base) = LastOr(Hits(s, {f}), s, Args(s), base)
  <2>1. LastArg(s, LAMBDA c : c.method = f, base) = Stays(s, f, base)
    BY AskedField
  <2>2. Hits(s, {f}) \in SUBSET (1 .. Len(s))
    BY DEF Hits
  <2>3. LastIn(Hits(s, {f}), Len(s)) # 0 => LastIn(Hits(s, {f}), Len(s)) \in 1 .. Len(s)
    BY <1>0, <2>2, LastInRange
  <2> QED BY <2>1, <2>3 DEF Stays, LastOr, Args
<1>2. ASSUME NEW k
      PROVE  LastArg(s, LAMBDA c : c.method = "driver_binary" /\ c.browser = k, base) = LastOr(PathHits(s, k), s, Args(s), base)
  <2> DEFINE H == PathHits(s, k)
  <2>1. H = {i \in 1 .. Len(s) : s[i].method = "driver_binary" /\ s[i].browser = k}
    BY DEF PathHits
  <2>2. H = {i \in 1 .. Len(s) : i \in H} /\ H \in SUBSET (1 .. Len(s))
    BY DEF PathHits
  <2> HIDE DEF H
  <2>3. SelectLastInSeq(s, LAMBDA c : c.method = "driver_binary" /\ c.browser = k) = IF H # {} THEN Max(H) ELSE 0
    BY <2>1 DEF SelectLastInSeq
  <2>4. (IF H # {} THEN Max(H) ELSE 0) = LastIn(H, Len(s))
    BY <2>2, SelectsLast
  <2>5. LastIn(H, Len(s)) # 0 => LastIn(H, Len(s)) \in 1 .. Len(s)
    BY <1>0, <2>2, LastInRange
  <2>6. SelectLastInSeq(s, LAMBDA c : c.method = "driver_binary" /\ c.browser = k) = LastIn(H, Len(s))
    BY <2>3, <2>4
  <2> QED BY <2>5, <2>6 DEF LastArg, LastOr, Args, H
<1>3. ASSUME NEW ms
      PROVE  /\ SelectLastInSeq(s, LAMBDA c : c.method \in ms) = LastIn(Hits(s, ms), Len(s))
             /\ LastIn(Hits(s, ms), Len(s)) # 0 =>
                  LastIn(Hits(s, ms), Len(s)) \in Hits(s, ms) /\ LastIn(Hits(s, ms), Len(s)) \in 1 .. Len(s)
  <2> DEFINE H == Hits(s, ms)
  <2>1. H = {i \in 1 .. Len(s) : s[i].method \in ms}
    BY DEF Hits
  <2>2. H = {i \in 1 .. Len(s) : i \in H} /\ H \in SUBSET (1 .. Len(s))
    BY DEF Hits
  <2> HIDE DEF H
  <2>3. SelectLastInSeq(s, LAMBDA c : c.method \in ms) = IF H # {} THEN Max(H) ELSE 0
    BY <2>1 DEF SelectLastInSeq
  <2>4. (IF H # {} THEN Max(H) ELSE 0) = LastIn(H, Len(s))
    BY <2>2, SelectsLast
  <2>5. LastIn(H, Len(s)) # 0 => LastIn(H, Len(s)) \in H /\ LastIn(H, Len(s)) \in 1 .. Len(s)
    BY <1>0, <2>2, LastInRange
  <2> QED BY <2>3, <2>4, <2>5 DEF H
<1> QED BY <1>1, <1>2, <1>3

(* manager.rs:446-482: what build() makes of each of the builder's fields. *)
LEMMA ManagerIs ==
  ASSUME NEW b \in BuilderStates
  PROVE  BuildManager(b) =
           [version |-> b.version,
            option  |-> [o \in Options |-> IF o = "offline" THEN b.option[o] = TRUE ELSE OrDefault(b.option[o])],
            mirror  |-> [m \in Mirrors |-> MirrorOf(b, m)],
            driver_paths |-> b.driver_paths, subscribers |-> b.subscribers, config |-> b.config]
<1>1. b = [version |-> b.version, option |-> b.option, mirror |-> b.mirror, driver_paths |-> b.driver_paths,
           subscribers |-> b.subscribers, config |-> b.config]
  BY DEF BuilderStates
<1>2. (IF b.mirror = None THEN [m \in Mirrors |-> "default"] ELSE b.mirror) = [m \in Mirrors |-> MirrorOf(b, m)]
  <2>1. b.mirror \in [Mirrors -> Values] \cup {None}
    BY DEF BuilderStates
  <2>2. CASE b.mirror = None
    BY <2>2 DEF MirrorOf
  <2>3. CASE b.mirror # None
    <3>1. b.mirror = [m \in Mirrors |-> b.mirror[m]]
      BY <2>1, <2>3
    <3> QED BY <3>1, <2>3 DEF MirrorOf
  <2> QED BY <2>2, <2>3
<1> DEFINE o == [p \in Options |-> IF p = "offline" THEN b.option[p] = TRUE ELSE OrDefault(b.option[p])]
           m == IF b.mirror = None THEN [x \in Mirrors |-> "default"] ELSE b.mirror
<1>3. BuildManager(b) = [b EXCEPT !.option = o, !.mirror = m]
  BY DEF BuildManager
<1> HIDE DEF o, m
<1>4. BuildManager(b) = [version |-> b.version, option |-> o, mirror |-> m,
                         driver_paths |-> b.driver_paths, subscribers |-> b.subscribers, config |-> b.config]
  BY <1>1, <1>3
<1> QED BY <1>4, <1>2 DEF o, m

(* An option of the manager. *)
LEMMA OptionIsAsked ==
  ASSUME NEW s \in Seq(GoodCalls), NEW o \in Options, NEW v, v = LastOr(Hits(s, {o}), s, Args(s), None)
  PROVE  (IF o = "offline" THEN v = TRUE ELSE OrDefault(v))
           = LastOr(Hits(s, {o}), s, Args(s), IF o = "offline" THEN FALSE ELSE "default")
<1> DEFINE i == LastIn(Hits(s, {o}), Len(s))
<1>1. CASE i = 0
  <2>1. v = None
    BY <1>1 DEF LastOr
  <2>2. CASE o = "offline"
    <3>1. ~(v = TRUE)
      BY <2>1, NothingAssumption
    <3> QED BY <3>1, <1>1, <2>2 DEF LastOr
  <2>3. CASE o # "offline"
    BY <2>1, <2>3, <1>1 DEF LastOr, OrDefault
  <2> QED BY <2>2, <2>3
<1>2. CASE i # 0
  <2>1. i \in 1 .. Len(s) /\ i \in Hits(s, {o})
    BY <1>2, LastArgIs
  <2> HIDE DEF i
  <2>2. s[i] \in GoodCalls /\ s[i].method = o
    BY <2>1 DEF Hits
  <2> USE DEF i
  <2>3. v = s[i].arg
    BY <1>2, <2>1 DEF LastOr, Args
  <2>4. CASE o = "offline"
    <3>1. s[i].arg \in BOOLEAN
      <4> HIDE DEF i
      <4> QED BY <2>2, <2>4 DEF GoodCalls, BuilderCalls, Mirrors
    <3>2. (v = TRUE) = s[i].arg
      BY <3>1, <2>3
    <3> QED BY <3>2, <2>4, <2>3, <1>2, <2>1 DEF LastOr, Args
  <2>5. CASE o # "offline"
    <3>1. s[i].arg \in Values \cup BOOLEAN
      <4> HIDE DEF i
      <4> QED BY <2>2 DEF GoodCalls, BuilderCalls, Mirrors, Options
    <3>2. v # None
      BY <3>1, <2>3, NothingAssumption
    <3> QED BY <3>2, <2>5, <2>3, <1>2, <2>1 DEF LastOr, Args, OrDefault
  <2> QED BY <2>4, <2>5
<1> QED BY <1>1, <1>2

(* The configuration for the sessions. *)
LEMMA ManagerConfigIsAsked ==
  ASSUME NEW s \in Seq(GoodCalls), NEW g \in Configs,
         \A f \in ConfigFields \ {"poller"} :
           g[f] = LastOr(Hits(s, {"config"}), s, [i \in 1 .. Len(s) |-> WebDriverConfig(s[i].arg)[f]], NewBuilder.config[f]),
         g.poller = LastOr(Hits(s, {"config", "poller"}), s,
                           [i \in 1 .. Len(s) |-> IF s[i].method = "config" THEN WebDriverConfig(s[i].arg).poller
                                                                             ELSE s[i].arg],
                           NewBuilder.config.poller)
  PROVE  g = [AskedOfConfig(LastArg(s, LAMBDA c : c.method = "config", <<>>)) EXCEPT !.poller = AskedOfPoller(s)]
<1> DEFINE i == LastIn(Hits(s, {"config"}), Len(s))
           j == LastIn(Hits(s, {"config", "poller"}), Len(s))
           a == AskedOfConfig(LastArg(s, LAMBDA c : c.method = "config", <<>>))
<1>1. NewBuilder.config = WebDriverConfig(<<>>)
  BY DEF NewBuilder
<1>2. ASSUME NEW k \in 1 .. Len(s), s[k].method = "config"
      PROVE  WebDriverConfig(s[k].arg) = AskedOfConfig(s[k].arg) /\ WebDriverConfig(s[k].arg) \in Configs
  <2>1. s[k] \in BuilderCalls /\ WebDriverConfig(s[k].arg) # None
    BY <1>2 DEF GoodCalls
  <2>2. s[k].arg \in Seq(ConfigCalls)
    BY <1>2, <2>1 DEF BuilderCalls, Mirrors
  <2> QED BY <2>1, <2>2, ConfigIsAsAsked
<1>3. LastArg(s, LAMBDA c : c.method = "config", <<>>) = LastOr(Hits(s, {"config"}), s, Args(s), <<>>)
  BY LastArgIs
<1>4. a \in Configs /\ \A f \in ConfigFields \ {"poller"} : g[f] = a[f]
  <2>1. CASE i = 0
    <3>1. LastArg(s, LAMBDA c : c.method = "config", <<>>) = <<>>
      BY <1>3, <2>1 DEF LastOr
    <3>2. a = WebDriverConfig(<<>>) /\ a \in Configs
      BY <3>1, EmptyConfig
    <3> QED BY <3>2, <1>1, <2>1 DEF LastOr
  <2>2. CASE i # 0
    <3>1. i \in 1 .. Len(s) /\ i \in Hits(s, {"config"})
      BY <2>2, LastArgIs
    <3>2. LastArg(s, LAMBDA c : c.method = "config", <<>>) = s[i].arg
      BY <1>3, <2>2, <3>1 DEF LastOr, Args
    <3>3. s[i].method = "config"
      BY <3>1 DEF Hits
    <3>4. a = WebDriverConfig(s[i].arg) /\ a \in Configs
      BY <3>1, <3>2, <3>3, <1>2
    <3>5. \A f \in ConfigFields \ {"poller"} : g[f] = WebDriverConfig(s[i].arg)[f]
      BY <3>1, <2>2 DEF LastOr
    <3> QED BY <3>4, <3>5
  <2> QED BY <2>1, <2>2
<1>5. g.poller = AskedOfPoller(s)
  <2>1. AskedOfPoller(s) = IF j = 0 THEN "default"
                           ELSE IF s[j].method = "poller" THEN s[j].arg ELSE AskedOfConfig(s[j].arg).poller
    BY LastArgIs DEF AskedOfPoller
  <2>2. CASE j = 0
    BY <2>1, <2>2, <1>1, EmptyConfig DEF LastOr
  <2>3. CASE j # 0
    <3>1. j \in 1 .. Len(s) /\ j \in Hits(s, {"config", "poller"})
      BY <2>3, LastArgIs
    <3>2. s[j].method \in {"config", "poller"}
      BY <3>1 DEF Hits
    <3>3. g.poller = IF s[j].method = "config" THEN WebDriverConfig(s[j].arg).poller ELSE s[j].arg
      BY <3>1, <2>3 DEF LastOr
    <3> QED BY <3>1, <3>2, <3>3, <2>1, <2>3, <1>2
  <2> QED BY <2>2, <2>3
<1> HIDE DEF i, j, a
<1>6. g = [keep_alive |-> g.keep_alive, poller |-> g.poller, user_agent |-> g.user_agent, request_timeout |-> g.request_timeout]
  BY DEF Configs
<1>7. a = [keep_alive |-> a.keep_alive, poller |-> a.poller, user_agent |-> a.user_agent, request_timeout |-> a.request_timeout]
  BY <1>4 DEF Configs
<1>8. g.keep_alive = a.keep_alive /\ g.user_agent = a.user_agent /\ g.request_timeout = a.request_timeout
  BY <1>4 DEF ConfigFields
<1>9. g = [a EXCEPT !.poller = AskedOfPoller(s)]
  BY <1>5, <1>6, <1>7, <1>8
<1> QED BY <1>9 DEF a

(* manager.rs: a manager is what the last call for each thing asked for. *)
LEMMA ManagerIsAsAsked ==
  ASSUME NEW s \in Builders
  PROVE  ManagerOf(s) = Asked(s) /\ Asked(s).config \in Configs /\ Asked(s).driver_paths \in [Kinds -> Values \cup {None}]
         /\ Asked(s).version \in [spec : Specs, pinned : Requests \cup {None}] /\ Asked(s).option["offline"] \in BOOLEAN
<1>1. s \in Seq(GoodCalls)
  BY CallsAreGood
<1> DEFINE b == FoldLeft(BuilderCall, NewBuilder, s)
           H == Hits(s, {"subscribe"})
           last == LastIn(Hits(s, Specs), Len(s))
           d == Asked(s)
<1>2. /\ b \in BuilderStates
      /\ b.version = LastOr(Hits(s, Specs), s, [i \in 1 .. Len(s) |-> [spec |-> s[i].method, pinned |-> s[i].arg]],
                            [spec |-> "match_local", pinned |-> None])
      /\ \A o \in Options : b.option[o] = LastOr(Hits(s, {o}), s, Args(s), None)
      /\ \A m \in Mirrors : MirrorOf(b, m) = LastOr(Hits(s, {m}), s, Args(s), "default")
      /\ \A k \in Kinds : b.driver_paths[k] = LastOr(PathHits(s, k), s, Args(s), None)
      /\ b.subscribers = InCallOrder(H, Args(s)) /\ Ranked(H)
      /\ b.config = [AskedOfConfig(LastArg(s, LAMBDA c : c.method = "config", <<>>)) EXCEPT !.poller = AskedOfPoller(s)]
  <2>1. b \in BuilderStates
    BY <1>1, BuilderFields
  <2>2. b.config \in Configs
    BY <2>1 DEF BuilderStates
  <2>3. b.config = [AskedOfConfig(LastArg(s, LAMBDA c : c.method = "config", <<>>)) EXCEPT !.poller = AskedOfPoller(s)]
    BY <1>1, <2>2, BuilderFields, ManagerConfigIsAsked
  <2> QED BY <1>1, <2>1, <2>3, BuilderFields DEF Args
<1> HIDE DEF b
<1>3. b.version = IF last = 0 THEN [spec |-> "match_local", pinned |-> None]
                              ELSE [spec |-> s[last].method, pinned |-> s[last].arg]
  <2>1. last # 0 => last \in 1 .. Len(s)
    BY <1>1, LastArgIs
  <2> QED BY <2>1, <1>2 DEF LastOr
<1>4. [o \in Options |-> IF o = "offline" THEN b.option[o] = TRUE ELSE OrDefault(b.option[o])]
        = [o \in Options |-> LastArg(s, LAMBDA c : c.method = o, IF o = "offline" THEN FALSE ELSE "default")]
  <2>1. ASSUME NEW o \in Options
        PROVE  (IF o = "offline" THEN b.option[o] = TRUE ELSE OrDefault(b.option[o]))
                 = LastArg(s, LAMBDA c : c.method = o, IF o = "offline" THEN FALSE ELSE "default")
    <3>1. (IF o = "offline" THEN b.option[o] = TRUE ELSE OrDefault(b.option[o]))
            = LastOr(Hits(s, {o}), s, Args(s), IF o = "offline" THEN FALSE ELSE "default")
      BY <1>1, <1>2, OptionIsAsked
    <3>2. LastArg(s, LAMBDA c : c.method = o, IF o = "offline" THEN FALSE ELSE "default")
            = LastOr(Hits(s, {o}), s, Args(s), IF o = "offline" THEN FALSE ELSE "default")
      BY <1>1, LastArgIs
    <3> QED BY <3>1, <3>2
  <2> QED BY <2>1
<1>5. [m \in Mirrors |-> MirrorOf(b, m)] = [m \in Mirrors |-> LastArg(s, LAMBDA c : c.method = m, "default")]
  <2>1. ASSUME NEW m \in Mirrors PROVE MirrorOf(b, m) = LastArg(s, LAMBDA c : c.method = m, "default")
    <3>1. LastArg(s, LAMBDA c : c.method = m, "default") = LastOr(Hits(s, {m}), s, Args(s), "default")
      BY <1>1, LastArgIs
    <3> QED BY <1>2, <3>1
  <2> QED BY <2>1
<1>6. b.driver_paths = [k \in Kinds |-> LastArg(s, LAMBDA c : c.method = "driver_binary" /\ c.browser = k, None)]
  <2>1. ASSUME NEW k \in Kinds
        PROVE  b.driver_paths[k] = LastArg(s, LAMBDA c : c.method = "driver_binary" /\ c.browser = k, None)
    <3>1. LastArg(s, LAMBDA c : c.method = "driver_binary" /\ c.browser = k, None) = LastOr(PathHits(s, k), s, Args(s), None)
      BY <1>1, LastArgIs
    <3> QED BY <1>2, <3>1
  <2>2. b.driver_paths = [k \in Kinds |-> b.driver_paths[k]]
    BY <1>2 DEF BuilderStates
  <2> QED BY <2>1, <2>2
<1>7. b.subscribers = [n \in 1 .. Cardinality(H) |-> s[CHOOSE i \in H : Rank(H, i) = n].arg]
  <2>1. ASSUME NEW n \in 1 .. Cardinality(H)
        PROVE  Args(s)[CHOOSE i \in H : Rank(H, i) = n] = s[CHOOSE i \in H : Rank(H, i) = n].arg
    <3>1. \E i \in H : Rank(H, i) = n
      BY <1>2 DEF Ranked
    <3>2. (CHOOSE i \in H : Rank(H, i) = n) \in 1 .. Len(s)
      BY <3>1 DEF Hits
    <3> QED BY <3>2 DEF Args
  <2> QED BY <2>1, <1>2 DEF InCallOrder
<1>8. H = {i \in DOMAIN s : s[i].method = "subscribe"}
  BY <1>1 DEF Hits
<1>9. SelectLastInSeq(s, LAMBDA c : c.method \in Specs) = last
  BY <1>1, LastArgIs
<1>10. Kinds = DOMAIN NewBuilder.driver_paths
  BY DEF Kinds, NewBuilder
<1>11. d = [version |-> b.version,
            option  |-> [o \in Options |-> LastArg(s, LAMBDA c : c.method = o, IF o = "offline" THEN FALSE ELSE "default")],
            mirror  |-> [m \in Mirrors |-> LastArg(s, LAMBDA c : c.method = m, "default")],
            driver_paths |-> b.driver_paths, subscribers |-> b.subscribers, config |-> b.config]
  <2> DEFINE sel == SelectLastInSeq(s, LAMBDA c : c.method \in Specs)
             sub == {i \in DOMAIN s : s[i].method = "subscribe"}
  <2>1. d = [version |-> IF sel = 0 THEN [spec |-> "match_local", pinned |-> None]
                                    ELSE [spec |-> s[sel].method, pinned |-> s[sel].arg],
             option  |-> [o \in Options |-> LastArg(s, LAMBDA c : c.method = o, IF o = "offline" THEN FALSE ELSE "default")],
             mirror  |-> [m \in Mirrors |-> LastArg(s, LAMBDA c : c.method = m, "default")],
             driver_paths |-> [k \in DOMAIN NewBuilder.driver_paths |->
                                 LastArg(s, LAMBDA c : c.method = "driver_binary" /\ c.browser = k, None)],
             subscribers |-> [n \in 1 .. Cardinality(sub) |-> s[CHOOSE i \in sub : Rank(sub, i) = n].arg],
             config |-> [AskedOfConfig(LastArg(s, LAMBDA c : c.method = "config", <<>>)) EXCEPT !.poller = AskedOfPoller(s)]]
    BY DEF Asked, Specs, Rank
  <2>2. b.version = IF sel = 0 THEN [spec |-> "match_local", pinned |-> None]
                               ELSE [spec |-> s[sel].method, pinned |-> s[sel].arg]
    BY <1>3, <1>9
  <2>3. b.driver_paths = [k \in DOMAIN NewBuilder.driver_paths |->
                            LastArg(s, LAMBDA c : c.method = "driver_binary" /\ c.browser = k, None)]
    BY <1>6, <1>10
  <2>4. b.subscribers = [n \in 1 .. Cardinality(sub) |-> s[CHOOSE i \in sub : Rank(sub, i) = n].arg]
    <3>1. H = sub
      BY <1>8
    <3> HIDE DEF H, sub
    <3> QED BY <3>1, <1>7
  <2>5. b.config = [AskedOfConfig(LastArg(s, LAMBDA c : c.method = "config", <<>>)) EXCEPT !.poller = AskedOfPoller(s)]
    BY <1>2
  <2> HIDE DEF d, sel, sub
  <2> QED BY <2>1, <2>2, <2>3, <2>4, <2>5
<1>12. d = BuildManager(b)
  BY <1>2, <1>4, <1>5, <1>11, ManagerIs
<1>13. d.config = b.config /\ d.driver_paths = b.driver_paths /\ d.version = b.version
       /\ d.option["offline"] = (b.option["offline"] = TRUE)
  <2>1. "offline" \in Options
    BY DEF Options
  <2>2. b \in BuilderStates
    BY <1>2
  <2> HIDE DEF d
  <2>3. d = [version |-> b.version,
             option  |-> [o \in Options |-> IF o = "offline" THEN b.option[o] = TRUE ELSE OrDefault(b.option[o])],
             mirror  |-> [m \in Mirrors |-> MirrorOf(b, m)],
             driver_paths |-> b.driver_paths, subscribers |-> b.subscribers, config |-> b.config]
    BY <2>2, <1>12, ManagerIs
  <2>4. d.option = [o \in Options |-> IF o = "offline" THEN b.option[o] = TRUE ELSE OrDefault(b.option[o])]
    BY <2>3
  <2>5. d.option["offline"] = (b.option["offline"] = TRUE)
    BY <2>1, <2>4
  <2> QED BY <2>3, <2>5
<1> HIDE DEF d
<1>14. b.config \in Configs /\ b.driver_paths \in [Kinds -> Values \cup {None}]
       /\ b.version \in [spec : Specs, pinned : Requests \cup {None}]
  BY <1>2 DEF BuilderStates
<1>15. d.option["offline"] \in BOOLEAN
  BY <1>13
<1>16. ManagerOf(s) = BuildManager(b)
  BY DEF ManagerOf, b
<1> QED BY <1>12, <1>13, <1>14, <1>15, <1>16 DEF d

-----------------------------------------------------------------------------
(* The launches *)

Places(b, c) == IF c # None THEN {c} ELSE Range(CandidatePaths(b))

(* The parts of the invariant: the manager is as it was asked to be; the world
   and its versions; the remembered probes, each of which is what a binary
   reports or reported before an upgrade; the cache; the launch, whose driver
   fits what was asked for. *)
BuiltOK == /\ cfg = asked
           /\ asked.config \in Configs /\ asked.driver_paths \in [Kinds -> Values \cup {None}]
           /\ asked.version \in [spec : Specs, pinned : Requests \cup {None}]

WorldOK == /\ installed \in [Paths -> Versions \cup {None}]
           /\ upstream \in SUBSET Versions /\ upstream # {} /\ IsFiniteSet(upstream)
           /\ reachable \in BOOLEAN /\ upgraded \subseteq Paths

ProbesOK ==
  /\ local_versions \in [Probes -> Versions \cup {None, System}]
  /\ \A b \in Browsers \ {"safari"}, c \in Custom \cup {None} :
       local_versions[<<b, c>>] # None =>
         /\ local_versions[<<b, c>>] \in Versions
         /\ \E p \in Places(b, c) : p \in upgraded \/ installed[p] = local_versions[<<b, c>>]

CacheOK == \A d \in cache : d[1] \in Browsers

Shape == launch = [step |-> launch.step, browser |-> launch.browser, custom |-> launch.custom,
                   asked |-> launch.asked, driver |-> launch.driver, result |-> launch.result]

LaunchTyped ==
  /\ Shape
  /\ launch.step \in {"none", "detect", "resolve", "driver", "done"}
  /\ launch.result \in {"none", "driver", "not_found", "missing", "http", "parse", "offline"}
  /\ launch.step # "none" => launch.browser \in Browsers
  /\ launch.custom \in Custom \cup {None}
  /\ launch.step # "done" => launch.result = "none"
  /\ launch.step \in {"detect", "resolve", "driver"} => cfg.driver_paths[launch.browser] = None
  /\ launch.step = "driver" \/ launch.result = "driver" => launch.driver # None
  /\ launch.step = "done" /\ cfg.driver_paths[launch.browser] # None =>
       launch.result = "driver" /\ launch.driver = cfg.driver_paths[launch.browser]
  /\ launch.step = "resolve" /\ cfg.version.spec = "match_local" =>
       launch.asked # None /\ (launch.browser # "safari" => launch.asked \in Versions)
  /\ launch.step = "resolve" /\ cfg.version.spec = "from_caps" /\ launch.browser # "safari" => launch.asked # None

SelectionInv == BuiltOK /\ WorldOK /\ ProbesOK /\ CacheOK /\ LaunchTyped

(* The invariant holds for a new manager of any builder that build() accepts. *)
LEMMA SelectionStarts == SelectionInit => SelectionInv
<1> SUFFICES ASSUME SelectionInit PROVE SelectionInv
  OBVIOUS
<1>1. BuiltOK
  BY ManagerIsAsAsked DEF SelectionInit, BuiltOK
<1>2. WorldOK
  <2>1. PICK f \in [Installable -> Versions \cup {None}] :
          installed = [p \in Paths |-> IF p \in Installable THEN f[p] ELSE None]
    BY DEF SelectionInit
  <2>2. installed \in [Paths -> Versions \cup {None}]
    BY <2>1
  <2>3. PICK v \in Versions : upstream = {v}
    BY DEF SelectionInit
  <2>4. IsFiniteSet(upstream)
    BY <2>3, FS_Singleton
  <2>5. upstream \in SUBSET Versions /\ upstream # {}
    BY <2>3
  <2>6. reachable \in BOOLEAN /\ upgraded \subseteq Paths
    BY DEF SelectionInit
  <2> QED BY <2>2, <2>4, <2>5, <2>6 DEF WorldOK
<1>3. ProbesOK
  <2>1. local_versions = [p \in Probes |-> None]
    BY DEF SelectionInit
  <2>2. ASSUME NEW b \in Browsers, NEW c \in Custom \cup {None} PROVE local_versions[<<b, c>>] = None
    BY <2>1 DEF Probes
  <2> QED BY <2>1, <2>2 DEF ProbesOK
<1>4. CacheOK
  BY DEF SelectionInit, CacheOK
<1>5. LaunchTyped
  BY DEF SelectionInit, NoLaunch, LaunchTyped, Shape
<1> QED BY <1>1, <1>2, <1>3, <1>4, <1>5 DEF SelectionInv

(* The invariant gives the types, and that the manager is as it was built. *)
LEMMA InvGives ==
  ASSUME SelectionInv PROVE SelectionTypeOK /\ ManagerIsAsBuilt
<1>1. SelectionTypeOK
  BY DEF SelectionInv, BuiltOK, WorldOK, ProbesOK, CacheOK, LaunchTyped, SelectionTypeOK
<1>2. ManagerIsAsBuilt
  BY DEF SelectionInv, BuiltOK, LaunchTyped, ManagerIsAsBuilt
<1> QED BY <1>1, <1>2

LEMMA WorldKeeps == ASSUME SelectionInv, World PROVE SelectionInv'
<1>1. manager' = manager /\ local_versions' = local_versions /\ cache' = cache /\ launch' = launch
  BY DEF World, Upgrade, Publish, Network, manager
<1>2. BuiltOK' /\ CacheOK' /\ LaunchTyped'
  BY <1>1 DEF SelectionInv, BuiltOK, CacheOK, LaunchTyped, Shape, manager
<1>3. CASE \E p \in Paths : Upgrade(p)
  <2>1. PICK p \in Paths, v \in Versions :
          /\ installed' = [installed EXCEPT ![p] = v] /\ upgraded' = upgraded \cup {p}
          /\ upstream' = upstream /\ reachable' = reachable
    BY <1>3 DEF Upgrade
  <2>2. WorldOK'
    <3>1. installed' \in [Paths -> Versions \cup {None}]
      <4>1. installed \in [Paths -> Versions \cup {None}]
        BY DEF SelectionInv, WorldOK
      <4> QED BY <4>1, <2>1
    <3>2. upgraded' \subseteq Paths
      BY <2>1 DEF SelectionInv, WorldOK
    <3>3. upstream' = upstream /\ reachable' = reachable
      BY <2>1
    <3> QED BY <3>1, <3>2, <3>3 DEF SelectionInv, WorldOK
  <2>3. \A q : q # p => installed'[q] = installed[q]
    BY <2>1
  <2>4. ProbesOK'
    BY <2>1, <2>3, <1>1 DEF SelectionInv, ProbesOK
  <2> QED BY <2>2, <2>4, <1>2 DEF SelectionInv
<1>4. CASE \E v \in Versions : Publish(v)
  <2>1. PICK v \in Versions : upstream' = upstream \cup {v} /\ installed' = installed /\ upgraded' = upgraded /\ reachable' = reachable
    BY <1>4 DEF Publish
  <2>2. IsFiniteSet(upstream')
    BY <2>1, FS_AddElement DEF SelectionInv, WorldOK
  <2>3. WorldOK'
    BY <2>1, <2>2 DEF SelectionInv, WorldOK
  <2>4. ProbesOK'
    BY <2>1, <1>1 DEF SelectionInv, ProbesOK
  <2> QED BY <2>3, <2>4, <1>2 DEF SelectionInv
<1>5. CASE Network
  <2>1. upstream' = upstream /\ installed' = installed /\ upgraded' = upgraded /\ reachable' = ~reachable
    BY <1>5 DEF Network
  <2>2. WorldOK'
    BY <2>1 DEF SelectionInv, WorldOK
  <2>3. ProbesOK'
    BY <2>1, <1>1 DEF SelectionInv, ProbesOK
  <2> QED BY <2>2, <2>3, <1>2 DEF SelectionInv
<1> QED BY <1>3, <1>4, <1>5 DEF World

(* A step of a launch that leaves the rest alone. *)
LEMMA LaunchKeeps ==
  ASSUME SelectionInv, UNCHANGED <<manager, world, local_versions, cache, upgraded>>, LaunchTyped' PROVE SelectionInv'
<1>1. UNCHANGED <<cfg, asked, installed, upstream, reachable, local_versions, cache, upgraded>>
  BY DEF manager, world
<1>2. BuiltOK' /\ WorldOK' /\ ProbesOK' /\ CacheOK'
  BY <1>1 DEF SelectionInv, BuiltOK, WorldOK, ProbesOK, CacheOK
<1> QED BY <1>2 DEF SelectionInv

(* manager.rs:580-661: a launch that fails fetches nothing. *)
LEMMA FailKeeps ==
  ASSUME SelectionInv, NEW error \in {"not_found", "missing", "http", "parse", "offline"},
         launch.step \in {"detect", "resolve", "driver"}, Fail(error)
  PROVE  SelectionInv' /\ launch'.step = "done" /\ launch'.result = error /\ cache' = cache
<1>1. launch' = [step |-> "done", browser |-> launch.browser, custom |-> None, asked |-> None, driver |-> None, result |-> error]
  BY DEF Fail, NoLaunch
<1>2. UNCHANGED <<manager, world, local_versions, cache, upgraded>>
  BY DEF Fail
<1>3. cfg' = cfg
  BY <1>2 DEF manager
<1>4. LaunchTyped'
  BY <1>1, <1>3 DEF SelectionInv, LaunchTyped, Shape
<1> QED BY <1>1, <1>2, <1>4, LaunchKeeps

(* launch() with a pinned driver is done, any other begins with what it asks for. *)
LEMMA BeginKeeps ==
  ASSUME SelectionInv, NEW b \in Browsers, NEW c \in Custom \cup {None}, NEW v \in Requests \cup {None}, BeginLaunch(b, c, v)
  PROVE  SelectionInv'
<1>1. UNCHANGED <<manager, world, local_versions, cache, upgraded>> /\ cfg' = cfg
  BY DEF BeginLaunch, manager
<1>2. CASE cfg.driver_paths[b] # None
  <2>1. launch' = [step |-> "done", browser |-> b, custom |-> None, asked |-> None,
                   driver |-> cfg.driver_paths[b], result |-> "driver"]
    BY <1>2 DEF BeginLaunch, NoLaunch
  <2>2. LaunchTyped'
    BY <2>1, <1>1, <1>2 DEF LaunchTyped, Shape
  <2> QED BY <1>1, <2>2, LaunchKeeps
<1>3. CASE cfg.driver_paths[b] = None
  <2>1. launch' = [step |-> "detect", browser |-> b, custom |-> c,
                   asked |-> IF cfg.version.spec = "exact" THEN cfg.version.pinned ELSE v, driver |-> None, result |-> "none"]
    BY <1>3 DEF BeginLaunch, NoLaunch
  <2>2. LaunchTyped'
    BY <2>1, <1>1, <1>3 DEF LaunchTyped, Shape
  <2> QED BY <1>1, <2>2, LaunchKeeps
<1> QED BY <1>2, <1>3

(* The first of the places where there is a browser. *)
LEMMA DetectsInstalled ==
  ASSUME WorldOK, NEW b \in Browsers, NEW c \in Custom \cup {None}, DetectLocalVersion(b, c, installed) # None
  PROVE  /\ DetectLocalVersion(b, c, installed) \in Versions
         /\ \E p \in Places(b, c) : installed[p] = DetectLocalVersion(b, c, installed)
<1> DEFINE paths == IF c = None THEN CandidatePaths(b) ELSE <<c>>
           found == {k \in DOMAIN paths : installed[paths[k]] # None}
           k == CHOOSE n \in found : \A j \in found : n <= j
<1>1. found # {} /\ DetectLocalVersion(b, c, installed) = installed[paths[k]]
  BY DEF DetectLocalVersion
<1>2. paths \in Seq(Paths) /\ \A n \in DOMAIN paths : paths[n] \in Places(b, c)
  <2>1. CASE c = None
    <3>1. Range(CandidatePaths(b)) \subseteq Paths
      BY CandidatesAssumption
    <3>2. CandidatePaths(b) \in Seq(Paths)
      <4>1. b \in {"chrome", "firefox", "edge", "safari"}
        BY BuildersAssumption DEF NewBuilder
      <4> QED BY <3>1, <4>1 DEF CandidatePaths, Range
    <3> QED BY <3>2, <2>1 DEF Places, Range
  <2>2. CASE c # None
    <3>1. c \in Paths
      BY <2>2, PathsAssumption
    <3> QED BY <3>1, <2>2 DEF Places
  <2> QED BY <2>1, <2>2
<1>3. found \in SUBSET Nat
  BY <1>2
<1>4. k \in found
  <2> HIDE DEF found
  <2>1. \E n \in found : \A j \in found : n <= j
    BY <1>1, <1>3, LeastOK
  <2> QED BY <2>1
<1> HIDE DEF k
<1>5. k \in DOMAIN paths /\ installed[paths[k]] # None
  BY <1>4
<1> HIDE DEF found, paths
<1>6. paths[k] \in Places(b, c) /\ paths[k] \in Paths
  BY <1>2, <1>5
<1> QED BY <1>1, <1>5, <1>6 DEF WorldOK

(* Detection goes by what one of the launch's own binaries reports, or reported
   before an upgrade that the remembered probe does not show. *)
LEMMA DetectKeeps ==
  ASSUME SelectionInv, Detect
  PROVE  /\ SelectionInv' /\ cache' = cache
         /\ launch'.step = "resolve" /\ launch.browser # "safari" =>
              \E p \in Places(launch.browser, launch.custom) : p \in upgraded \/ installed[p] = launch'.asked
<1> DEFINE b == launch.browser
           c == launch.custom
           found == IF b = "safari" THEN System
                    ELSE IF local_versions[<<b, c>>] # None THEN local_versions[<<b, c>>]
                    ELSE DetectLocalVersion(b, c, installed)
<1>1. b \in Browsers /\ c \in Custom \cup {None} /\ launch.step = "detect" /\ cfg.version.spec = "match_local" /\ WorldOK
  BY DEF Detect, SelectionInv, LaunchTyped
<1>2. CASE found = None
  <2>1. Fail("not_found")
    BY <1>2 DEF Detect
  <2>2. SelectionInv' /\ launch'.step = "done" /\ cache' = cache
    BY <2>1, <1>1, FailKeeps
  <2> QED BY <2>2
<1>3. CASE found # None
  <2>1. /\ local_versions' = [local_versions EXCEPT ![<<b, c>>] = found]
        /\ launch' = [launch EXCEPT !.step = "resolve", !.asked = found]
        /\ UNCHANGED <<manager, world, cache, upgraded>>
    BY <1>3 DEF Detect
  <2>2. b # "safari" => found \in Versions /\ \E p \in Places(b, c) : p \in upgraded \/ installed[p] = found
    <3>1. CASE b # "safari" /\ local_versions[<<b, c>>] # None
      BY <3>1, <1>1 DEF SelectionInv, ProbesOK
    <3>2. CASE b # "safari" /\ local_versions[<<b, c>>] = None
      <4>1. found = DetectLocalVersion(b, c, installed)
        BY <3>2
      <4> QED BY <4>1, <1>1, <1>3, DetectsInstalled
    <3> QED BY <3>1, <3>2
  <2>3. found \in Versions \cup {System}
    BY <2>2
  <2> HIDE DEF found
  <2>4. launch' = [step |-> "resolve", browser |-> b, custom |-> c, asked |-> found, driver |-> launch.driver, result |-> launch.result]
    BY <2>1 DEF SelectionInv, LaunchTyped, Shape
  <2>5. UNCHANGED <<cfg, asked, installed, upstream, reachable, cache, upgraded>>
    BY <2>1 DEF manager, world
  <2>6. LaunchTyped'
    BY <2>2, <2>4, <2>5, <1>1, <1>3 DEF SelectionInv, LaunchTyped, Shape
  <2>7. ProbesOK'
    <3>1. <<b, c>> \in Probes /\ local_versions \in [Probes -> Versions \cup {None, System}]
      BY <1>1 DEF Probes, SelectionInv, ProbesOK
    <3>2. local_versions' \in [Probes -> Versions \cup {None, System}]
      BY <3>1, <2>1, <2>3
    <3>3. ASSUME NEW d \in Browsers \ {"safari"}, NEW e \in Custom \cup {None}, local_versions'[<<d, e>>] # None
          PROVE  /\ local_versions'[<<d, e>>] \in Versions
                 /\ \E p \in Places(d, e) : p \in upgraded' \/ installed'[p] = local_versions'[<<d, e>>]
      <4>0. <<d, e>> \in Probes
        BY DEF Probes
      <4>1. CASE d = b /\ e = c
        <5>1. local_versions'[<<d, e>>] = found
          BY <4>1, <3>1, <2>1
        <5> QED BY <5>1, <4>1, <2>2, <2>5
      <4>2. CASE ~(d = b /\ e = c)
        <5>1. <<d, e>> # <<b, c>>
          BY <4>2
        <5>2. local_versions'[<<d, e>>] = local_versions[<<d, e>>]
          BY <5>1, <4>0, <3>1, <2>1
        <5> QED BY <5>2, <3>3, <2>5 DEF SelectionInv, ProbesOK
      <4> QED BY <4>1, <4>2
    <3> QED BY <3>2, <3>3 DEF ProbesOK
  <2>8. BuiltOK' /\ WorldOK' /\ CacheOK'
    BY <2>5 DEF SelectionInv, BuiltOK, WorldOK, CacheOK
  <2> QED BY <2>2, <2>4, <2>5, <2>6, <2>7, <2>8 DEF SelectionInv
<1> QED BY <1>2, <1>3

(* A launch that detects nothing goes by its builder or its capabilities. *)
LEMMA SkipKeeps ==
  ASSUME SelectionInv, SkipDetect PROVE SelectionInv' /\ cache' = cache
<1>1. launch.step = "detect" /\ cfg.version.spec # "match_local"
  BY DEF SkipDetect
<1>2. CASE Fail("missing")
  BY <1>1, <1>2, FailKeeps
<1>3. CASE ~Fail("missing")
  <2>1. /\ launch' = [launch EXCEPT !.step = "resolve"]
        /\ UNCHANGED <<manager, world, local_versions, cache, upgraded>>
        /\ ~(cfg.version.spec = "from_caps" /\ launch.asked = None /\ launch.browser # "safari")
    BY <1>3 DEF SkipDetect
  <2>2. launch' = [step |-> "resolve", browser |-> launch.browser, custom |-> launch.custom, asked |-> launch.asked,
                   driver |-> launch.driver, result |-> launch.result]
    BY <2>1 DEF SelectionInv, LaunchTyped, Shape
  <2>3. cfg' = cfg
    BY <2>1 DEF manager
  <2>4. LaunchTyped'
    BY <1>1, <2>1, <2>2, <2>3 DEF SelectionInv, LaunchTyped, Shape
  <2> QED BY <2>1, <2>4, LaunchKeeps
<1> QED BY <1>2, <1>3

(* download.rs:375-464: only a manager that is not offline fetches a driver. *)
LEMMA ProvideKeeps ==
  ASSUME SelectionInv, Provide
  PROVE  SelectionInv' /\ (asked.option["offline"] => cache' = cache)
<1> DEFINE entry == <<launch.browser, launch.driver>>
           done == [step |-> "done", browser |-> launch.browser, custom |-> None, asked |-> None,
                    driver |-> launch.driver, result |-> "driver"]
<1>1. /\ launch.step = "driver" /\ launch.browser \in Browsers /\ launch.driver # None
      /\ cfg.driver_paths[launch.browser] = None /\ cfg = asked
  BY DEF Provide, SelectionInv, LaunchTyped, BuiltOK
<1>2. \/ launch' = done /\ UNCHANGED <<manager, world, local_versions, cache, upgraded>>
      \/ \E error \in {"offline", "http"} : Fail(error)
      \/ /\ ~cfg.option["offline"] /\ launch' = done /\ cache' = cache \cup {entry}
         /\ UNCHANGED <<manager, world, local_versions, upgraded>>
  BY DEF Provide, NoLaunch
<1>3. ASSUME launch' = done, UNCHANGED <<manager, world, local_versions, upgraded>> PROVE LaunchTyped'
  <2>1. cfg' = cfg
    BY <1>3 DEF manager
  <2> QED BY <1>1, <1>3, <2>1 DEF LaunchTyped, Shape
<1>4. CASE launch' = done /\ UNCHANGED <<manager, world, local_versions, cache, upgraded>>
  BY <1>3, <1>4, LaunchKeeps
<1>5. CASE \E error \in {"offline", "http"} : Fail(error)
  BY <1>1, <1>5, FailKeeps
<1>6. CASE /\ ~cfg.option["offline"] /\ launch' = done /\ cache' = cache \cup {entry}
           /\ UNCHANGED <<manager, world, local_versions, upgraded>>
  <2>1. LaunchTyped'
    BY <1>3, <1>6
  <2>2. UNCHANGED <<cfg, asked, installed, upstream, reachable, local_versions, upgraded>>
    BY <1>6 DEF manager, world
  <2>3. CacheOK'
    BY <1>1, <1>6 DEF SelectionInv, CacheOK
  <2>4. BuiltOK' /\ WorldOK' /\ ProbesOK'
    BY <2>2 DEF SelectionInv, BuiltOK, WorldOK, ProbesOK
  <2> QED BY <2>1, <2>3, <2>4, <1>1, <1>6 DEF SelectionInv
<1> QED BY <1>2, <1>4, <1>5, <1>6

HasNewest(T) == \E w \in T : \A x \in T : ~Older(w, x)

(* Of some versions one is the newest. *)
LEMMA NewestOK ==
  ASSUME NEW T \in SUBSET (Nat \X Nat), IsFiniteSet(T), T # {}
  PROVE  Newest(T) \in T /\ \A x \in T : ~Older(Newest(T), x)
<1> DEFINE S == {n \in Nat : \A U \in SUBSET (Nat \X Nat) : IsFiniteSet(U) /\ Cardinality(U) = n + 1 => HasNewest(U)}
<1>1. 0 \in S
  <2>1. ASSUME NEW U \in SUBSET (Nat \X Nat), IsFiniteSet(U), Cardinality(U) = 1 PROVE HasNewest(U)
    <3>1. PICK u : U = {u}
      BY <2>1, FS_Singleton
    <3>2. u \in Nat \X Nat /\ ~Older(u, u)
      BY <3>1 DEF Older, SameMajor
    <3> QED BY <3>1, <3>2 DEF HasNewest
  <2> QED BY <2>1
<1>2. ASSUME NEW n \in Nat, n \in S PROVE n + 1 \in S
  <2>1. ASSUME NEW U \in SUBSET (Nat \X Nat), IsFiniteSet(U), Cardinality(U) = (n + 1) + 1 PROVE HasNewest(U)
    <3>1. U # {}
      BY <2>1, FS_EmptySet
    <3>2. PICK u : u \in U
      BY <3>1
    <3>3. IsFiniteSet(U \ {u}) /\ Cardinality(U \ {u}) = n + 1 /\ U \ {u} \in SUBSET (Nat \X Nat)
      BY <2>1, <3>2, FS_RemoveElement
    <3>4. HasNewest(U \ {u})
      BY <3>3, <1>2
    <3>5. PICK w \in U \ {u} : \A x \in U \ {u} : ~Older(w, x)
      BY <3>4 DEF HasNewest
    <3>6. \A x \in U : x \in Nat \X Nat /\ x[1] \in Nat /\ x[2] \in Nat
      OBVIOUS
    <3>7. CASE Older(w, u)
      <4>1. ASSUME NEW x \in U PROVE ~Older(u, x)
        <5>1. x # u => ~Older(w, x)
          BY <3>5
        <5> QED BY <5>1, <3>2, <3>5, <3>6, <3>7 DEF Older, SameMajor
      <4> QED BY <4>1, <3>2 DEF HasNewest
    <3>8. CASE ~Older(w, u)
      BY <3>5, <3>8 DEF HasNewest
    <3> QED BY <3>7, <3>8
  <2> QED BY <2>1
<1>3. Nat \subseteq S
  <2> HIDE DEF S
  <2> QED BY <1>1, <1>2, AllNumbers
<1>4. PICK n \in Nat : Cardinality(T) = n + 1
  <2>1. Cardinality(T) \in Nat /\ Cardinality(T) # 0
    BY FS_CardinalityType, FS_EmptySet
  <2>2. Cardinality(T) - 1 \in Nat /\ Cardinality(T) = (Cardinality(T) - 1) + 1
    BY <2>1
  <2> QED BY <2>2
<1>5. HasNewest(T)
  BY <1>3, <1>4
<1> QED BY <1>5 DEF HasNewest, Newest

(* Of the versions with the major of v the newest. *)
LEMMA MatchesOK ==
  ASSUME WorldOK, NEW v, NEW T, T = {w \in upstream : SameMajor(w, v)}, T # {}
  PROVE  /\ Newest(T) \in Versions /\ SameMajor(Newest(T), v)
         /\ \A w \in upstream : SameMajor(w, v) => ~Older(Newest(T), w)
<1>1. T \in SUBSET upstream /\ IsFiniteSet(upstream) /\ upstream \in SUBSET Versions /\ Versions \in SUBSET (Nat \X Nat)
  BY VersionsAssumption DEF WorldOK
<1>2. IsFiniteSet(T)
  BY <1>1, FS_Subset
<1>3. T \in SUBSET (Nat \X Nat)
  BY <1>1
<1>4. Newest(T) \in T /\ \A x \in T : ~Older(Newest(T), x)
  BY <1>2, <1>3, NewestOK
<1> HIDE DEF Older
<1> QED BY <1>1, <1>4

(* fetch_chrome_latest() answers with a version that was published. *)
LEMMA LatestOK == ASSUME WorldOK PROVE Latest \in Versions
<1>1. IsFiniteSet(upstream) /\ upstream # {} /\ upstream \in SUBSET Versions /\ Versions \in SUBSET (Nat \X Nat)
  BY VersionsAssumption DEF WorldOK
<1>2. upstream \in SUBSET (Nat \X Nat)
  BY <1>1
<1>3. Newest(upstream) \in upstream
  BY <1>1, <1>2, NewestOK
<1> QED BY <1>1, <1>3 DEF Latest

(* The table of geckodrivers goes down. *)
LEMMA TableOK ==
  /\ Len(GeckodriverReleases) = 8 /\ DOMAIN GeckodriverReleases = 1 .. 8
  /\ \A k \in 1 .. 8 : GeckodriverReleases[k].version \in Nat
  /\ \A j, k \in 1 .. 8 : j <= k => GeckodriverReleases[k].version <= GeckodriverReleases[j].version
<1>1. \A k \in 1 .. 8 : k = 1 \/ k = 2 \/ k = 3 \/ k = 4 \/ k = 5 \/ k = 6 \/ k = 7 \/ k = 8
  OBVIOUS
<1>2. Len(GeckodriverReleases) = 8 /\ DOMAIN GeckodriverReleases = 1 .. 8
  BY DEF GeckodriverReleases
<1>3. /\ GeckodriverReleases[1].version = 360 /\ GeckodriverReleases[2].version = 350 /\ GeckodriverReleases[3].version = 340
      /\ GeckodriverReleases[4].version = 330 /\ GeckodriverReleases[5].version = 322 /\ GeckodriverReleases[6].version = 310
      /\ GeckodriverReleases[7].version = 300 /\ GeckodriverReleases[8].version = 291
  BY DEF GeckodriverReleases, Geckodriver
<1>4. \A k \in 1 .. 8 : GeckodriverReleases[k].version \in Nat
  BY <1>1, <1>3
<1> DEFINE g == [k \in 1 .. 8 |-> GeckodriverReleases[k].version]
<1>5. /\ g[1] = 360 /\ g[2] = 350 /\ g[3] = 340 /\ g[4] = 330 /\ g[5] = 322 /\ g[6] = 310 /\ g[7] = 300 /\ g[8] = 291
  BY <1>3
<1>6. ASSUME NEW j \in 1 .. 8, NEW k \in 1 .. 8, j <= k PROVE g[k] <= g[j]
  <2> HIDE DEF g
  <2> QED BY <1>1, <1>5, <1>6
<1> QED BY <1>2, <1>4, <1>6

(* geckodriver_for_firefox() finds the newest release that covers Firefox m,
   and None only if no release does. *)
LEMMA GeckodriverOK ==
  ASSUME NEW m
  PROVE  IF \E r \in Range(GeckodriverReleases) : Covers(r, m)
         THEN /\ \E r \in Range(GeckodriverReleases) : r.version = GeckodriverFor(m) /\ Covers(r, m)
              /\ \A r \in Range(GeckodriverReleases) : Covers(r, m) => r.version <= GeckodriverFor(m)
              /\ GeckodriverFor(m) \in Nat
         ELSE GeckodriverFor(m) = None
<1> DEFINE found == {k \in 1 .. Len(GeckodriverReleases) : Covers(GeckodriverReleases[k], m)}
           first == CHOOSE k \in found : \A j \in found : k <= j
<1>1. found = {k \in 1 .. 8 : Covers(GeckodriverReleases[k], m)} /\ found \in SUBSET Nat
  BY TableOK
<1>2. \A r : r \in Range(GeckodriverReleases) <=> \E k \in 1 .. 8 : r = GeckodriverReleases[k]
  BY TableOK DEF Range
<1>3. found # {} <=> \E r \in Range(GeckodriverReleases) : Covers(r, m)
  <2> HIDE DEF found
  <2> QED BY <1>1, <1>2
<1>4. GeckodriverFor(m) = IF found = {} THEN None ELSE GeckodriverReleases[first].version
  BY DEF GeckodriverFor
<1>5. ASSUME found # {} PROVE first \in found /\ \A j \in found : first <= j
  <2> HIDE DEF found
  <2>1. \E k \in found : \A j \in found : k <= j
    BY <1>1, <1>5, LeastOK
  <2> QED BY <2>1
<1> HIDE DEF found, first
<1>6. CASE found = {}
  BY <1>3, <1>4, <1>6
<1>7. CASE found # {}
  <2>1. first \in 1 .. 8 /\ Covers(GeckodriverReleases[first], m) /\ GeckodriverFor(m) = GeckodriverReleases[first].version
    BY <1>1, <1>4, <1>5, <1>7
  <2>2. ASSUME NEW r \in Range(GeckodriverReleases), Covers(r, m) PROVE r.version <= GeckodriverFor(m)
    <3>1. PICK k \in 1 .. 8 : r = GeckodriverReleases[k]
      BY <1>2
    <3>2. k \in found
      BY <1>1, <2>2, <3>1
    <3>3. first <= k
      BY <3>2, <1>5, <1>7
    <3> QED BY <3>1, <3>3, <2>1, TableOK
  <2> QED BY <2>1, <2>2, <1>2, <1>3, <1>7, TableOK
<1> QED BY <1>6, <1>7

(* A request that is no full version is not among the versions. *)
LEMMA FullOnes == \A v \in Versions : Full(v) /\ v # None
<1>1. ASSUME NEW v \in Versions PROVE Full(v) /\ v # None
  <2>1. v \in Nat \X Nat /\ v # None
    BY VersionsAssumption
  <2>2. PICK i \in Nat, j \in Nat : v = <<i, j>>
    BY <2>1
  <2> QED BY <2>1, <2>2 DEF Full
<1> QED BY <1>1

FitsAll(driver, b, v) ==
  /\ driver # None => Fits(driver, b, v)
  /\ driver = None => IF b = "firefox" THEN ~\E r \in Range(GeckodriverReleases) : Covers(r, v[1])
                                      ELSE ~\E w \in upstream : SameMajor(w, v)

(* resolve_version() answers with a driver that fits v, for each browser and
   whatever upstream has; it fails for want of one only if there is none. *)
LEMMA ResolvesFitting ==
  ASSUME WorldOK, NEW b \in Kinds, NEW spec \in {"match_local", "from_caps"}, NEW v, b # "safari" => v # None
  PROVE  FitsAll(ResolveVersion(b, spec, v, upstream, Latest), b, v)
<1> DEFINE matches == {w \in upstream : SameMajor(w, v)}
           found == ResolveVersion(b, spec, v, upstream, Latest)
<1>1. matches # {} => /\ Newest(matches) \in Versions /\ SameMajor(Newest(matches), v)
                      /\ \A w \in upstream : SameMajor(w, v) => ~Older(Newest(matches), w)
  BY MatchesOK
<1>2. Full(v) \/ v \notin upstream
  BY FullOnes DEF WorldOK
<1>3. CASE b = "safari"
  <2>1. found = System
    BY <1>3 DEF ResolveVersion
  <2> HIDE DEF found
  <2>2. found # None /\ Fits(found, b, v)
    BY <2>1, <1>3, VersionsAssumption DEF Fits
  <2> QED BY <2>2 DEF FitsAll, found
<1>4. CASE b = "firefox"
  <2>1. found = GeckodriverFor(v[1])
    BY <1>4 DEF ResolveVersion, DriverFor
  <2> HIDE DEF found
  <2>2. CASE \E r \in Range(GeckodriverReleases) : Covers(r, v[1])
    <3>1. found # None
      BY <2>1, <2>2, GeckodriverOK, VersionsAssumption
    <3>2. Fits(found, b, v)
      BY <2>1, <2>2, <1>4, GeckodriverOK DEF Fits
    <3> QED BY <3>1, <3>2 DEF FitsAll, found
  <2>3. CASE ~\E r \in Range(GeckodriverReleases) : Covers(r, v[1])
    <3>1. found = None
      BY <2>1, <2>3, GeckodriverOK
    <3> QED BY <3>1, <2>3, <1>4 DEF FitsAll, found
  <2> QED BY <2>2, <2>3
<1>5. CASE b = "chrome"
  <2>1. found = IF Full(v) /\ v \in upstream THEN v ELSE IF matches = {} THEN None ELSE Newest(matches)
    BY <1>5 DEF ResolveVersion, DriverFor, ResolveChromeExact
  <2>2. matches = {} <=> ~\E w \in upstream : SameMajor(w, v)
    OBVIOUS
  <2> HIDE DEF found, matches
  <2>3. CASE Full(v) /\ v \in upstream
    <3>1. found = v /\ v # None
      BY <2>1, <2>3, <1>5
    <3> QED BY <3>1, <1>5 DEF FitsAll, found, Fits
  <2>4. CASE ~(Full(v) /\ v \in upstream) /\ matches = {}
    <3>1. found = None
      BY <2>1, <2>4
    <3> QED BY <3>1, <2>2, <2>4, <1>5 DEF FitsAll, found
  <2>5. CASE ~(Full(v) /\ v \in upstream) /\ matches # {}
    <3>1. found = Newest(matches) /\ v \notin upstream /\ found # None
      BY <2>1, <2>5, <1>1, <1>2, FullOnes
    <3>2. Fits(found, b, v)
      BY <3>1, <2>5, <1>1, <1>5 DEF Fits
    <3> QED BY <3>1, <3>2 DEF FitsAll, found
  <2> QED BY <2>3, <2>4, <2>5
<1>6. CASE b = "edge"
  <2>1. found = IF Full(v) THEN v ELSE IF matches = {} THEN Latest ELSE Newest(matches)
    BY <1>6 DEF ResolveVersion, DriverFor, ResolveEdgeExact
  <2>2. matches = {} <=> ~\E w \in upstream : SameMajor(w, v)
    OBVIOUS
  <2> HIDE DEF found, matches
  <2>3. CASE Full(v)
    <3>1. found = v /\ v # None
      BY <2>1, <2>3, <1>6
    <3> QED BY <3>1, <1>6 DEF FitsAll, found, Fits
  <2>4. CASE ~Full(v) /\ matches = {}
    <3>1. found # None
      BY <2>1, <2>4, LatestOK, FullOnes
    <3>2. Fits(found, b, v)
      BY <2>2, <2>4, <1>6 DEF Fits
    <3> QED BY <3>1, <3>2 DEF FitsAll, found
  <2>5. CASE ~Full(v) /\ matches # {}
    <3>1. found = Newest(matches) /\ v \notin upstream /\ found # None
      BY <2>1, <2>5, <1>1, <1>2, FullOnes
    <3>2. Fits(found, b, v)
      BY <3>1, <2>5, <1>1, <1>6 DEF Fits
    <3> QED BY <3>1, <3>2 DEF FitsAll, found
  <2> QED BY <2>3, <2>4, <2>5
<1> QED BY <1>3, <1>4, <1>5, <1>6 DEF Kinds

(* The step of a launch that resolves its version gets a driver that fits. *)
LEMMA ResolveKeeps ==
  ASSUME SelectionInv, Resolve
  PROVE  /\ SelectionInv' /\ cache' = cache
         /\ cfg.version.spec \in {"match_local", "from_caps"} =>
              /\ launch'.step = "driver" => Fits(launch'.driver, launch.browser, launch.asked)
              /\ launch'.result = "parse" =>
                   IF launch.browser = "firefox"
                   THEN ~\E r \in Range(GeckodriverReleases) : Covers(r, launch.asked[1])
                   ELSE ~\E w \in upstream : SameMajor(w, launch.asked)
<1> DEFINE b == launch.browser
           found == ResolveVersion(b, cfg.version.spec, launch.asked, upstream, Latest)
<1>1. launch.step = "resolve" /\ b \in Browsers /\ b \in Kinds /\ WorldOK /\ launch.result = "none"
  BY BuildersAssumption DEF Resolve, SelectionInv, LaunchTyped, NewBuilder, Kinds
<1>2. cfg.version.spec \in {"match_local", "from_caps"} => FitsAll(found, b, launch.asked)
  <2>1. cfg.version.spec \in {"match_local", "from_caps"} => (b # "safari" => launch.asked # None)
    BY <1>1 DEF SelectionInv, LaunchTyped
  <2> QED BY <2>1, <1>1, ResolvesFitting
<1>3. \/ Fail("http")
      \/ found = None /\ Fail("parse")
      \/ /\ found # None /\ launch' = [launch EXCEPT !.step = "driver", !.driver = found]
         /\ UNCHANGED <<manager, world, local_versions, cache, upgraded>>
  BY DEF Resolve
<1> HIDE DEF found
<1>4. CASE Fail("http")
  <2>1. SelectionInv' /\ launch'.step = "done" /\ launch'.result = "http" /\ cache' = cache
    BY <1>1, <1>4, FailKeeps
  <2> QED BY <2>1
<1>5. CASE found = None /\ Fail("parse")
  <2>1. SelectionInv' /\ launch'.step = "done" /\ launch'.result = "parse" /\ cache' = cache
    BY <1>1, <1>5, FailKeeps
  <2> QED BY <2>1, <1>2, <1>5 DEF FitsAll
<1>6. CASE /\ found # None /\ launch' = [launch EXCEPT !.step = "driver", !.driver = found]
           /\ UNCHANGED <<manager, world, local_versions, cache, upgraded>>
  <2>1. launch' = [step |-> "driver", browser |-> b, custom |-> launch.custom, asked |-> launch.asked,
                   driver |-> found, result |-> launch.result]
    BY <1>6 DEF SelectionInv, LaunchTyped, Shape
  <2>2. cfg' = cfg
    BY <1>6 DEF manager
  <2>3. LaunchTyped'
    BY <2>1, <2>2, <1>1, <1>6 DEF SelectionInv, LaunchTyped, Shape
  <2>4. SelectionInv'
    BY <2>3, <1>6, LaunchKeeps
  <2> QED BY <2>1, <2>4, <1>1, <1>2, <1>6 DEF FitsAll
<1> QED BY <1>3, <1>4, <1>5, <1>6

-----------------------------------------------------------------------------
(* The configuration of a session *)

Arcs == [arc : 1 .. MaxStores, value : Configs]

HandlesOK ==
  /\ stores \in 0 .. MaxStores
  /\ config \in [Handles -> Arcs \cup {None}] /\ wanted \in [Handles -> Configs \cup {None}]
  /\ \A h \in Handles :
       /\ config[h] = None <=> wanted[h] = None
       /\ config[h] # None => config[h].arc <= stores /\ config[h].value = wanted[h]

(* What a set_poller() has copied is what the handle has, or an Arc that has been replaced. *)
CopyOK(s) ==
  /\ s = [handle |-> s.handle, poller |-> s.poller, copied |-> s.copied]
  /\ s.handle \in Handles /\ s.poller \in Values /\ s.copied \in Arcs /\ s.copied.arc <= stores
  /\ config[s.handle] # None
  /\ s.copied.arc = config[s.handle].arc => s.copied = config[s.handle]

SwapsOK == DOMAIN swap = Setters /\ \A t \in Setters : swap[t] # None => CopyOK(swap[t])

ConfigInv == SelectionInv /\ HandlesOK /\ SwapsOK

(* handle.rs:67-110, 153-167: a new Arc is no other's, so what a swap has copied
   from the cell is still there or gone for good. *)
LEMMA PutKeeps ==
  ASSUME HandlesOK, SwapsOK, NEW h \in Handles, NEW value \in Configs, Put(h, value), wanted' = [wanted EXCEPT ![h] = value]
  PROVE  /\ HandlesOK' /\ config'[h] # None
         /\ \A s : CopyOK(s) => CopyOK(s)'
<1> DEFINE new == [arc |-> stores + 1, value |-> value]
<1>1. stores + 1 \in 1 .. MaxStores /\ stores' = stores + 1 /\ stores \in Nat /\ stores' \in 0 .. MaxStores
  BY ArcsAssumption DEF Put, HandlesOK
<1>2. new \in Arcs /\ new # None /\ value # None
  BY <1>1, ArcsAssumption, NothingAssumption DEF Arcs
<1>3. config' = [config EXCEPT ![h] = new] /\ config \in [Handles -> Arcs \cup {None}]
  BY DEF Put, HandlesOK
<1>4. new.arc = stores + 1 /\ new.value = value
  OBVIOUS
<1> HIDE DEF new
<1>5. config'[h] = new /\ \A g \in Handles \ {h} : config'[g] = config[g]
  BY <1>3
<1>6. wanted'[h] = value /\ \A g \in Handles \ {h} : wanted'[g] = wanted[g]
  BY DEF HandlesOK
<1>7. config' \in [Handles -> Arcs \cup {None}] /\ wanted' \in [Handles -> Configs \cup {None}]
  BY <1>2, <1>3 DEF HandlesOK
<1>8. ASSUME NEW g \in Handles
      PROVE  /\ config'[g] = None <=> wanted'[g] = None
             /\ config'[g] # None => config'[g].arc <= stores' /\ config'[g].value = wanted'[g]
  <2>1. CASE g = h
    BY <2>1, <1>1, <1>2, <1>4, <1>5, <1>6
  <2>2. CASE g # h
    <3>1. config'[g] = config[g] /\ wanted'[g] = wanted[g] /\ config[g] \in Arcs \cup {None}
      BY <2>2, <1>3, <1>5, <1>6
    <3>2. config[g] # None => config[g].arc \in Nat
      BY <3>1 DEF Arcs
    <3>3. /\ config[g] = None <=> wanted[g] = None
          /\ config[g] # None => config[g].arc <= stores /\ config[g].value = wanted[g]
      BY DEF HandlesOK
    <3>4. config[g] # None => config[g].arc <= stores'
      BY <3>2, <3>3, <1>1
    <3> QED BY <3>1, <3>3, <3>4
  <2> QED BY <2>1, <2>2
<1>9. HandlesOK'
  BY <1>1, <1>7, <1>8 DEF HandlesOK
<1>10. ASSUME NEW s, CopyOK(s) PROVE CopyOK(s)'
  <2>1. s.handle \in Handles /\ s.copied \in Arcs /\ s.copied.arc <= stores /\ s.copied.arc \in Nat
    BY <1>10 DEF CopyOK, Arcs
  <2>2. CASE s.handle = h
    <3>1. s.copied.arc # config'[h].arc
      BY <2>1, <1>1, <1>4, <1>5
    <3> QED BY <3>1, <2>1, <2>2, <1>1, <1>2, <1>5, <1>10 DEF CopyOK
  <2>3. CASE s.handle # h
    <3>1. config'[s.handle] = config[s.handle]
      BY <2>1, <2>3, <1>5
    <3> QED BY <3>1, <2>1, <1>1, <1>10 DEF CopyOK
  <2> QED BY <2>2, <2>3
<1> QED BY <1>2, <1>5, <1>9, <1>10

(* What is under way in set_poller() stays as good as it was. *)
LEMMA PutSwaps ==
  ASSUME SwapsOK, \A s : CopyOK(s) => CopyOK(s)', swap' = swap PROVE SwapsOK'
<1>1. ASSUME NEW t \in Setters, swap[t] # None PROVE CopyOK(swap[t])'
  <2>1. PICK s : s = swap[t]
    OBVIOUS
  <2>2. CopyOK(s)'
    BY <1>1, <2>1 DEF SwapsOK
  <2>3. s = swap'[t]
    BY <2>1
  <2> QED BY <2>2, <2>3 DEF CopyOK
<1> QED BY <1>1 DEF SwapsOK

(* Nothing changes for the launches. *)
LEMMA SelectionStands ==
  ASSUME SelectionInv, UNCHANGED selectionVars PROVE SelectionInv'
  BY DEF SelectionInv, BuiltOK, WorldOK, ProbesOK, CacheOK, LaunchTyped, Shape, selectionVars, manager, Probes

(* Nothing changes for the sessions. *)
LEMMA SessionStands ==
  ASSUME HandlesOK, SwapsOK, UNCHANGED sessionVars PROVE HandlesOK' /\ SwapsOK'
<1>1. UNCHANGED <<config, stores, swap, wanted>>
  BY DEF sessionVars
<1>2. HandlesOK'
  BY <1>1 DEF HandlesOK
<1>3. SwapsOK'
  BY <1>1 DEF SwapsOK, CopyOK
<1> QED BY <1>2, <1>3

(* The steps of the launches alone. *)
LEMMA SelectionKeeps ==
  ASSUME SelectionInv, SelectionNext
  PROVE  /\ SelectionInv' /\ (asked.option["offline"] => cache' = cache)
         /\ launch.step = "detect" /\ asked.version.spec = "match_local" /\ launch'.step = "resolve" /\ launch.browser # "safari" =>
               \E p \in Places(launch.browser, launch.custom) : p \in upgraded \/ installed[p] = launch'.asked
         /\ launch.step = "resolve" /\ asked.version.spec \in {"match_local", "from_caps"} =>
              /\ launch'.step = "driver" => Fits(launch'.driver, launch.browser, launch.asked)
              /\ launch'.result = "parse" =>
                   IF launch.browser = "firefox"
                   THEN ~\E r \in Range(GeckodriverReleases) : Covers(r, launch.asked[1])
                   ELSE ~\E w \in upstream : SameMajor(w, launch.asked)
<1>0. cfg = asked /\ (launch.step # "done" => launch.result = "none")
  BY DEF SelectionInv, BuiltOK, LaunchTyped
<1>1. CASE World
  <2>1. launch' = launch /\ cache' = cache
    BY <1>1 DEF World, Upgrade, Publish, Network
  <2> QED BY <2>1, <1>0, <1>1, WorldKeeps
<1>2. CASE \E b \in Browsers, c \in Custom \cup {None}, v \in Requests \cup {None} : BeginLaunch(b, c, v)
  <2>1. launch.step \in {"none", "done"} /\ cache' = cache
    BY <1>2 DEF BeginLaunch
  <2>2. SelectionInv'
    BY <1>2, BeginKeeps
  <2> QED BY <2>1, <2>2
<1>3. CASE Detect
  <2>1. launch.step = "detect"
    BY <1>3 DEF Detect
  <2> QED BY <2>1, <1>3, DetectKeeps
<1>4. CASE SkipDetect
  <2>1. launch.step = "detect" /\ asked.version.spec # "match_local"
    BY <1>0, <1>4 DEF SkipDetect
  <2> QED BY <2>1, <1>4, SkipKeeps
<1>5. CASE Resolve
  <2>1. launch.step = "resolve"
    BY <1>5 DEF Resolve
  <2> QED BY <2>1, <1>0, <1>5, ResolveKeeps
<1>6. CASE Provide
  <2>1. launch.step = "driver"
    BY <1>6 DEF Provide
  <2> QED BY <2>1, <1>6, ProvideKeeps
<1> QED BY <1>1, <1>2, <1>3, <1>4, <1>5, <1>6 DEF SelectionNext, Manager

(* connect() gives the session of a launch the manager's configuration. *)
LEMMA LaunchedKeeps ==
  ASSUME ConfigInv, NEW h \in Handles, Launched(h) PROVE ConfigInv' /\ cache' = cache /\ launch.step = "done"
<1>1. /\ launch' = NoLaunch /\ launch.step = "done" /\ Put(h, cfg.config) /\ wanted' = [wanted EXCEPT ![h] = asked.config]
      /\ UNCHANGED <<manager, world, local_versions, cache, upgraded, swap>>
  BY DEF Launched
<1>2. cfg' = cfg /\ cfg = asked /\ asked.config \in Configs
  BY <1>1 DEF manager, ConfigInv, SelectionInv, BuiltOK
<1>3. LaunchTyped'
  BY <1>1, <1>2 DEF NoLaunch, LaunchTyped, Shape
<1>4. SelectionInv'
  BY <1>1, <1>3, LaunchKeeps DEF ConfigInv
<1>5. HandlesOK' /\ \A s : CopyOK(s) => CopyOK(s)'
  BY <1>1, <1>2, PutKeeps DEF ConfigInv
<1>6. SwapsOK'
  BY <1>1, <1>5, PutSwaps DEF ConfigInv
<1> QED BY <1>1, <1>4, <1>5, <1>6 DEF ConfigInv

(* connect(), set_config() and clone_with_config(). *)
LEMMA StoreKeeps ==
  ASSUME ConfigInv, NEW g \in Handles, NEW script \in Scripts, WebDriverConfig(script) # None,
         Put(g, WebDriverConfig(script)), wanted' = [wanted EXCEPT ![g] = AskedOfConfig(script)],
         UNCHANGED <<selectionVars, swap>>
  PROVE  ConfigInv'
<1>1. WebDriverConfig(script) = AskedOfConfig(script) /\ WebDriverConfig(script) \in Configs
  BY ConfigIsAsAsked, ScriptsAssumption
<1>2. HandlesOK' /\ \A s : CopyOK(s) => CopyOK(s)'
  BY <1>1, PutKeeps DEF ConfigInv
<1>3. SwapsOK'
  BY <1>2, PutSwaps DEF ConfigInv
<1> QED BY <1>2, <1>3, SelectionStands DEF ConfigInv

(* handle.rs:169-182: set_poller() loads what the cell has. *)
LEMMA SetPollerKeeps ==
  ASSUME ConfigInv, NEW t \in Setters, NEW h \in Handles, NEW p \in Pollers, SetPoller(t, h, p) PROVE ConfigInv'
<1>1. /\ config[h] # None /\ swap' = [swap EXCEPT ![t] = [handle |-> h, poller |-> p, copied |-> config[h]]]
      /\ UNCHANGED <<selectionVars, config, stores, wanted>>
  BY DEF SetPoller, Live
<1>2. HandlesOK'
  BY <1>1 DEF ConfigInv, HandlesOK
<1>3. config[h] \in Arcs /\ config[h].arc <= stores /\ p \in Values
  BY <1>1, ScriptsAssumption DEF ConfigInv, HandlesOK
<1>4. ASSUME NEW u \in Setters, swap'[u] # None PROVE CopyOK(swap[u])'
  <2>1. CASE u = t
    <3>1. swap'[u] = [handle |-> h, poller |-> p, copied |-> config[h]]
      BY <1>1, <2>1 DEF ConfigInv, SwapsOK
    <3> QED BY <3>1, <1>1, <1>3 DEF CopyOK
  <2>2. CASE u # t
    <3>1. swap'[u] = swap[u]
      BY <1>1, <2>2 DEF ConfigInv, SwapsOK
    <3> QED BY <3>1, <1>1, <1>4 DEF CopyOK, ConfigInv, SwapsOK
  <2> QED BY <2>1, <2>2
<1>5. SwapsOK'
  BY <1>1, <1>4 DEF ConfigInv, SwapsOK
<1>6. SelectionInv'
  BY <1>1, SelectionStands DEF ConfigInv
<1> QED BY <1>2, <1>5, <1>6 DEF ConfigInv

(* set_poller() stores its poller only into the very Arc that it copied. *)
LEMMA SwapPollerKeeps ==
  ASSUME ConfigInv, NEW t \in Setters, SwapPoller(t) PROVE ConfigInv'
<1> DEFINE s == swap[t]
           h == s.handle
           value == [s.copied.value EXCEPT !.poller = s.poller]
<1>0. SelectionInv'
  BY SelectionStands DEF ConfigInv, SwapPoller
<1>1. /\ s # None /\ CopyOK(s) /\ h \in Handles /\ s.poller \in Values /\ s.copied \in Arcs /\ config[h] # None
      /\ HandlesOK /\ SwapsOK
  BY DEF SwapPoller, ConfigInv, SwapsOK, CopyOK
<1>2. CASE config[h].arc = s.copied.arc
  <2>1. /\ Put(h, value) /\ wanted' = [wanted EXCEPT ![h].poller = s.poller] /\ swap' = [swap EXCEPT ![t] = None]
    BY <1>2 DEF SwapPoller
  <2>2. s.copied = config[h] /\ config[h].value = wanted[h] /\ wanted[h] \in Configs
    BY <1>1, <1>2 DEF CopyOK, HandlesOK, Arcs
  <2>3. value \in Configs /\ value = [wanted[h] EXCEPT !.poller = s.poller]
    BY <1>1, <2>2 DEF Configs
  <2>4. wanted' = [wanted EXCEPT ![h] = value]
    BY <2>1, <2>3
  <2> HIDE DEF value
  <2>5. HandlesOK' /\ \A r : CopyOK(r) => CopyOK(r)'
    BY <1>1, <2>1, <2>3, <2>4, PutKeeps
  <2>6. ASSUME NEW u \in Setters, swap'[u] # None PROVE CopyOK(swap[u])'
    <3>1. u # t /\ swap'[u] = swap[u]
      BY <2>1, <2>6, <1>1 DEF SwapsOK
    <3>2. PICK r : r = swap[u]
      OBVIOUS
    <3>3. CopyOK(r)'
      BY <2>5, <2>6, <3>1, <3>2, <1>1 DEF SwapsOK
    <3>4. r = swap'[u]
      BY <3>1, <3>2
    <3> QED BY <3>3, <3>4 DEF CopyOK
  <2>7. SwapsOK'
    BY <2>1, <2>6, <1>1 DEF SwapsOK
  <2> QED BY <1>0, <2>5, <2>7 DEF ConfigInv
<1>3. CASE config[h].arc # s.copied.arc
  <2>1. swap' = [swap EXCEPT ![t].copied = config[h]] /\ UNCHANGED <<config, stores, wanted>>
    BY <1>3 DEF SwapPoller
  <2>2. s = [handle |-> h, poller |-> s.poller, copied |-> s.copied]
    BY <1>1 DEF CopyOK
  <2>3. [s EXCEPT !.copied = config[h]] = [handle |-> h, poller |-> s.poller, copied |-> config[h]]
    BY <2>2
  <2>4. swap' = [swap EXCEPT ![t] = [s EXCEPT !.copied = config[h]]]
    BY <2>1
  <2>5. HandlesOK'
    BY <2>1, <1>1 DEF HandlesOK
  <2>6. config[h] \in Arcs /\ config[h].arc <= stores
    BY <1>1 DEF HandlesOK
  <2>7. ASSUME NEW u \in Setters, swap'[u] # None PROVE CopyOK(swap[u])'
    <3>1. CASE u = t
      <4>1. swap'[u] = [handle |-> h, poller |-> s.poller, copied |-> config[h]]
        BY <2>3, <2>4, <3>1, <1>1 DEF SwapsOK
      <4> QED BY <4>1, <2>1, <2>6, <1>1 DEF CopyOK
    <3>2. CASE u # t
      <4>1. swap'[u] = swap[u]
        BY <2>4, <3>2, <1>1 DEF SwapsOK
      <4> QED BY <4>1, <2>1, <2>7, <1>1 DEF CopyOK, SwapsOK
    <3> QED BY <3>1, <3>2
  <2>8. SwapsOK'
    BY <2>4, <2>7, <1>1 DEF SwapsOK
  <2> QED BY <1>0, <2>5, <2>8 DEF ConfigInv
<1> QED BY <1>2, <1>3

(* The invariant holds before there is a session. *)
LEMMA ConfigStarts == SessionInit => ConfigInv
<1> SUFFICES ASSUME SessionInit PROVE ConfigInv
  OBVIOUS
<1>1. SelectionInv
  BY SelectionStarts DEF SessionInit
<1>2. HandlesOK
  BY ArcsAssumption DEF SessionInit, HandlesOK
<1>3. SwapsOK
  BY DEF SessionInit, SwapsOK
<1> QED BY <1>1, <1>2, <1>3 DEF ConfigInv

(* Every step keeps the invariant. *)
LEMMA SessionKeeps == ConfigInv /\ [SessionNext]_<<selectionVars, sessionVars>> => ConfigInv'
<1> SUFFICES ASSUME ConfigInv, [SessionNext]_<<selectionVars, sessionVars>> PROVE ConfigInv'
  OBVIOUS
<1>1. CASE SelectionNext /\ UNCHANGED sessionVars
  BY <1>1, SelectionKeeps, SessionStands DEF ConfigInv
<1>2. CASE \E h \in Handles : Launched(h)
  BY <1>2, LaunchedKeeps
<1>3. CASE \E h \in Handles, script \in Scripts :
             Connect(h, script) \/ SetConfig(h, script) \/ \E g \in Handles : CloneWithConfig(h, g, script)
  <2>1. PICK h \in Handles, script \in Scripts :
               Connect(h, script) \/ SetConfig(h, script) \/ \E g \in Handles : CloneWithConfig(h, g, script)
    BY <1>3
  <2>2. \E g \in Handles : /\ WebDriverConfig(script) # None /\ Put(g, WebDriverConfig(script))
                           /\ wanted' = [wanted EXCEPT ![g] = AskedOfConfig(script)]
                           /\ UNCHANGED <<selectionVars, swap>>
    BY <2>1 DEF Connect, SetConfig, CloneWithConfig
  <2> QED BY <2>2, StoreKeeps
<1>4. CASE \E t \in Setters : SwapPoller(t) \/ \E h \in Handles, p \in Pollers : SetPoller(t, h, p)
  BY <1>4, SwapPollerKeeps, SetPollerKeeps
<1>5. CASE UNCHANGED <<selectionVars, sessionVars>>
  BY <1>5, SelectionStands, SessionStands DEF ConfigInv
<1> QED BY <1>1, <1>2, <1>3, <1>4, <1>5 DEF SessionNext, SessionStep

(* The inductive invariant of launches and configurations: the manager is what
   the calls on its builder asked for, a launch has what fits, and a handle has
   what was last put there, with every swap under way from an Arc that is still
   the cell's or never will be again. *)
THEOREM ConfigInvariant == SessionSpec => []ConfigInv
  BY ConfigStarts, SessionKeeps, PTL DEF SessionSpec

(* What a step of the session does to the launches: nothing, or it takes the
   driver of one that is done. *)
LEMMA SessionStepIs ==
  ASSUME ConfigInv, [SessionNext]_<<selectionVars, sessionVars>>
  PROVE  \/ SelectionNext
         \/ launch.step = "done" /\ cache' = cache
         \/ UNCHANGED selectionVars
<1>1. CASE \E h \in Handles : Launched(h)
  BY <1>1, LaunchedKeeps
<1>2. CASE ~\E h \in Handles : Launched(h)
  BY <1>2 DEF SessionNext, SessionStep, Connect, SetConfig, CloneWithConfig, SetPoller, SwapPoller
<1> QED BY <1>1, <1>2

(* What a step may do to a launch: go by what is installed, get a driver that
   fits, and fetch nothing if offline. *)
LEMMA StepsFit ==
  ConfigInv /\ [SessionNext]_<<selectionVars, sessionVars>> =>
    /\ [launch.step = "detect" /\ asked.version.spec = "match_local" /\ launch'.step = "resolve" /\ launch.browser # "safari" =>
         LET places == IF launch.custom # None THEN {launch.custom} ELSE Range(CandidatePaths(launch.browser))
         IN  \E p \in places : p \in upgraded \/ installed[p] = launch'.asked]_selectionVars
    /\ [launch.step = "resolve" /\ asked.version.spec \in {"match_local", "from_caps"} =>
         /\ launch'.step = "driver" => Fits(launch'.driver, launch.browser, launch.asked)
         /\ launch'.result = "parse" =>
              IF launch.browser = "firefox"
              THEN ~\E r \in Range(GeckodriverReleases) : Covers(r, launch.asked[1])
              ELSE ~\E w \in upstream : SameMajor(w, launch.asked)]_selectionVars
    /\ [asked.option["offline"] => cache' = cache]_selectionVars
<1> SUFFICES ASSUME ConfigInv, [SessionNext]_<<selectionVars, sessionVars>>, ~UNCHANGED selectionVars
             PROVE
    /\ (launch.step = "detect" /\ asked.version.spec = "match_local" /\ launch'.step = "resolve" /\ launch.browser # "safari" =>
         \E p \in Places(launch.browser, launch.custom) : p \in upgraded \/ installed[p] = launch'.asked)
    /\ (launch.step = "resolve" /\ asked.version.spec \in {"match_local", "from_caps"} =>
         /\ launch'.step = "driver" => Fits(launch'.driver, launch.browser, launch.asked)
         /\ launch'.result = "parse" =>
              IF launch.browser = "firefox"
              THEN ~\E r \in Range(GeckodriverReleases) : Covers(r, launch.asked[1])
              ELSE ~\E w \in upstream : SameMajor(w, launch.asked))
    /\ (asked.option["offline"] => cache' = cache)
  BY DEF Places
<1>1. CASE SelectionNext
  BY <1>1, SelectionKeeps DEF ConfigInv
<1>2. CASE launch.step = "done" /\ cache' = cache
  BY <1>2
<1> QED BY <1>1, <1>2, SessionStepIs

(* manager.rs:580-661, download.rs:53-209: a launch that matches the browser goes
   by the version of the very binary that the session will use, unless that was
   upgraded since the probe, and gets a driver that fits the version asked for;
   it fails for want of a driver only if upstream or the table has none. *)
THEOREM LaunchesFit == SessionSpec => LaunchFits
<1>1. ConfigInv => SelectionTypeOK
  BY InvGives DEF ConfigInv
<1> QED BY <1>1, ConfigInvariant, StepsFit, PTL DEF SessionSpec, LaunchFits, DetectedIsInstalled, ResolvedFits

(* manager.rs:259-482: launches go by what the last call for each thing told the
   builder, a pinned driver is used as it is, and an offline manager fetches
   nothing; whatever calls there were, in whatever order. *)
THEOREM LaunchesAreAsBuilt == SessionSpec => LaunchIsAsBuilt
<1>1. ConfigInv => ManagerIsAsBuilt
  BY InvGives DEF ConfigInv
<1> QED BY <1>1, ConfigInvariant, StepsFit, PTL DEF SessionSpec, LaunchIsAsBuilt, OfflineFetchesNothing

(* handle.rs:153-182: each handle has the configuration that was last put there,
   with the changes of all setters: no set_poller() brings back a configuration
   that another thread had replaced, and none is lost. *)
THEOREM ConfigsAreAsSet == SessionSpec => []ConfigIsAsSet
<1>1. ConfigInv => ConfigIsAsSet
  <2> SUFFICES ASSUME ConfigInv PROVE ConfigIsAsSet
    OBVIOUS
  <2>1. SelectionTypeOK
    BY InvGives DEF ConfigInv
  <2>2. ASSUME NEW h \in Handles, config[h] # None PROVE config[h].arc \in 1 .. stores
    <3>1. config[h] \in Arcs /\ config[h].arc <= stores
      BY <2>2 DEF ConfigInv, HandlesOK
    <3>2. config[h].arc \in Nat /\ config[h].arc >= 1
      BY <3>1, ArcsAssumption DEF Arcs
    <3> QED BY <3>1, <3>2, ArcsAssumption DEF ConfigInv, HandlesOK
  <2>3. SessionTypeOK
    BY <2>1, <2>2 DEF ConfigInv, HandlesOK, SessionTypeOK
  <2> QED BY <2>3 DEF ConfigInv, HandlesOK, ConfigIsAsSet, Live
<1> QED BY <1>1, ConfigInvariant, PTL
=============================================================================
