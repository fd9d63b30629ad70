----------------------- MODULE BidiSubscriptionsProofs -----------------------
(***************************************************************************)
(* Proofs about BidiSubscriptions, for any number of tasks and events and  *)
(* any bound on the backlog: the counts are the streams, the remote end    *)
(* agrees with them, and a command for an event is out only while nobody   *)
(* has a stream for it.                                                    *)
(***************************************************************************)
EXTENDS BidiSubscriptions, FiniteSetTheorems, TLAPS

Streams(m)  == {t \in Tasks : Live(t, m)}
Involved(m) == {t \in Tasks : method[t] = m}

(* Whoever is on the way to a stream, or has one, knows for which event. *)
HasMethod == \A t \in Tasks : pc[t] # "idle" => method[t] \in Methods

(* The lock of a command is its task's, which waits for the answer. *)
HolderWaits ==
  /\ \A t \in Tasks : pc[t] = "command" => lock # Free /\ lock.by = t /\ lock.method = method[t]
  /\ lock # Free /\ lock.by \in Tasks => pc[lock.by] = "command"

(* Nobody counts the event that a command is about. *)
UncountedInCommand == lock # Free => count[lock.method] = 0

(* The remote end is subscribed to what is counted. *)
CountedIsSubscribed == conn = "open" => \A m \in Methods : count[m] > 0 => m \in remoteSubs

(* What the state of the command says about the remote end. *)
AnswersAreTrue ==
  conn = "open" /\ lock # Free =>
    /\ lock.stage # "hung"
    /\ lock.by = Job => lock.stage # "err"
    /\ lock.by \in Tasks /\ lock.stage = "ok" => lock.method \in remoteSubs
    /\ (lock.by \in Tasks /\ lock.stage \in {"sent", "err"}) \/ (lock.by = Job /\ lock.stage = "ok")
         => lock.method \notin remoteSubs \ stray

(* A command without a caller has made its event a stray one. *)
OrphansAreStray == \A m \in Methods : orphans[m] > 0 => m \in stray

(* Each of those who are busy with an event leaves at most one release. *)
BacklogIsBounded ==
  \A m \in Methods : releases[m] + leaked[m] + Cardinality(Involved(m)) <= MaxJobs

IInv == /\ TypeOK
        /\ CountsAreStreams
        /\ NothingLeftSubscribed
        /\ HasMethod
        /\ HolderWaits
        /\ UncountedInCommand
        /\ CountedIsSubscribed
        /\ AnswersAreTrue
        /\ OrphansAreStray
        /\ BacklogIsBounded

-----------------------------------------------------------------------------
(* Counting *)

LEMMA StreamsAreFinite == \A m : IsFiniteSet(Streams(m)) /\ Cardinality(Streams(m)) \in Nat
                              /\ IsFiniteSet(Involved(m)) /\ Cardinality(Involved(m)) \in Nat
<1>1. ASSUME NEW m PROVE Streams(m) \subseteq Tasks /\ Involved(m) \subseteq Tasks
  BY DEF Streams, Involved
<1> QED
  BY <1>1, TasksAssumption, FS_Subset, FS_CardinalityType

LEMMA TasksAreFinite == Cardinality(Tasks) \in Nat /\ MaxJobs \in Nat
  BY TasksAssumption, FS_CardinalityType, MaxBacklogAssumption DEF MaxJobs

(* The lock, between Free and the commands it is held for. *)
LEMMA LockIsHeld == ASSUME TypeOK, lock # Free
                    PROVE  /\ lock \in Locked
                           /\ lock.by \in Tasks \cup {Job} /\ lock.method \in Methods /\ lock.stage \in Stages
  BY DEF TypeOK, Locked

LEMMA CommandIsLocked == ASSUME NEW h \in Tasks \cup {Job}, NEW m \in Methods, TypeOK, SendRaw(h, m)
                         PROVE  /\ lock' \in Locked /\ lock' # Free
                                /\ lock'.by = h /\ lock'.method = m
                                /\ conn = "open" => lock'.stage = "sent"
  BY FreeAssumption DEF SendRaw, Locked, Stages, TypeOK

(* A step that opens and drops no stream leaves their counts alone. *)
LEMMA SameStreams ==
  ASSUME CountsAreStreams, UNCHANGED <<count, releases, leaked>>,
         \A t \in Tasks, m \in Methods : Live(t, m)' <=> Live(t, m)
  PROVE  CountsAreStreams'
<1>1. ASSUME NEW m \in Methods PROVE {t \in Tasks : Live(t, m)}' = {t \in Tasks : Live(t, m)}
  OBVIOUS
<1> QED
  BY <1>1 DEF CountsAreStreams

LEMMA SameInvolved ==
  ASSUME BacklogIsBounded, UNCHANGED <<method, releases, leaked>>
  PROVE  BacklogIsBounded'
  BY DEF BacklogIsBounded, Involved

(* A task that turns away from an event leaves room for its release. *)
LEMMA OneLess ==
  ASSUME NEW t \in Tasks, TypeOK, method[t] \in Methods, method' = [method EXCEPT ![t] = NoMethod]
  PROVE  \A m \in Methods : Cardinality(Involved(m)') =
           Cardinality(Involved(m)) - (IF m = method[t] THEN 1 ELSE 0)
<1> SUFFICES ASSUME NEW m \in Methods
             PROVE  Cardinality(Involved(m)') = Cardinality(Involved(m)) - (IF m = method[t] THEN 1 ELSE 0)
  OBVIOUS
<1>1. CASE m = method[t]
  <2>1. Involved(m)' = Involved(m) \ {t} /\ t \in Involved(m)
    BY <1>1, NoMethodAssumption DEF Involved, TypeOK
  <2> QED
    BY <1>1, <2>1, StreamsAreFinite, FS_RemoveElement
<1>2. CASE m # method[t]
  <2>1. Involved(m)' = Involved(m)
    BY <1>2, NoMethodAssumption DEF Involved, TypeOK
  <2> QED
    BY <1>2, <2>1, StreamsAreFinite
<1> QED
  BY <1>1, <1>2

(* So a count has a bound. *)
LEMMA CountIsBounded ==
  ASSUME TypeOK, CountsAreStreams, BacklogIsBounded
  PROVE  \A m \in Methods : count[m] <= MaxJobs /\ releases[m] + leaked[m] <= MaxJobs
<1> SUFFICES ASSUME NEW m \in Methods PROVE count[m] <= MaxJobs /\ releases[m] + leaked[m] <= MaxJobs
  OBVIOUS
<1>1. Streams(m) \subseteq Involved(m)
  BY DEF Streams, Involved, Live
<1>2. Cardinality(Streams(m)) <= Cardinality(Involved(m))
  BY <1>1, StreamsAreFinite, FS_Subset
<1>3. /\ count[m] = Cardinality(Streams(m)) + releases[m] + leaked[m]
      /\ releases[m] + leaked[m] + Cardinality(Involved(m)) <= MaxJobs
      /\ releases[m] \in Nat /\ leaked[m] \in Nat
  BY DEF CountsAreStreams, BacklogIsBounded, TypeOK, Streams
<1> QED
  BY <1>2, <1>3, StreamsAreFinite, TasksAreFinite

(* An event that is not counted has no stream. *)
LEMMA UncountedHasNoStream ==
  ASSUME TypeOK, CountsAreStreams, NEW m \in Methods, count[m] = 0
  PROVE  \A t \in Tasks : ~Live(t, m)
<1>1. /\ count[m] = Cardinality(Streams(m)) + releases[m] + leaked[m]
      /\ releases[m] \in Nat /\ leaked[m] \in Nat
  BY DEF CountsAreStreams, TypeOK, Streams
<1>2. Cardinality(Streams(m)) = 0
  BY <1>1, StreamsAreFinite
<1>3. Streams(m) = {}
  BY <1>2, StreamsAreFinite, FS_EmptySet
<1> QED
  BY <1>3 DEF Streams

(* An event with a stream is counted. *)
LEMMA StreamIsCounted ==
  ASSUME TypeOK, CountsAreStreams, NEW m \in Methods, NEW t \in Tasks, Live(t, m)
  PROVE  count[m] > 0
  BY UncountedHasNoStream DEF TypeOK

(* A task gets a stream as it counts it. *)
LEMMA StreamGained ==
  ASSUME NEW t \in Tasks, TypeOK, CountsAreStreams, pc[t] \in {"locking", "command"},
         method[t] \in Methods, pc' = [pc EXCEPT ![t] = "opening"],
         count' = [count EXCEPT ![method[t]] = @ + 1], UNCHANGED <<method, releases, leaked>>
  PROVE  CountsAreStreams'
<1> SUFFICES ASSUME NEW m \in Methods
             PROVE  count'[m] = Cardinality(Streams(m)') + releases[m] + leaked[m]
  BY DEF CountsAreStreams, Streams
<1>1. count[m] = Cardinality(Streams(m)) + releases[m] + leaked[m]
  BY DEF CountsAreStreams, Streams
<1>2. CASE m = method[t]
  <2>1. Streams(m)' = Streams(m) \cup {t} /\ t \notin Streams(m)
    BY <1>2 DEF Streams, Live, TypeOK
  <2>2. Cardinality(Streams(m)') = Cardinality(Streams(m)) + 1
    BY <2>1, StreamsAreFinite, FS_AddElement
  <2> QED
    BY <1>1, <1>2, <2>2, StreamsAreFinite DEF TypeOK
<1>3. CASE m # method[t]
  <2>1. Streams(m)' = Streams(m)
    BY <1>3 DEF Streams, Live, TypeOK
  <2> QED
    BY <1>1, <1>3, <2>1 DEF TypeOK
<1> QED
  BY <1>2, <1>3

-----------------------------------------------------------------------------
(* One lemma for each action *)

LEMMA InitOK == Init => IInv
<1> SUFFICES ASSUME Init PROVE IInv
  OBVIOUS
<1>1. TypeOK
  BY TasksAreFinite, MaxBacklogAssumption DEF Init, TypeOK
<1>2. \A m \in Methods : Streams(m) = {} /\ Involved(m) = {}
  BY NoMethodAssumption DEF Init, Streams, Involved, Live
<1>3. \A m \in Methods : Cardinality(Streams(m)) = 0 /\ Cardinality(Involved(m)) = 0
  BY <1>2, FS_EmptySet
<1>4. CountsAreStreams
  BY <1>3 DEF Init, CountsAreStreams, Streams
<1>5. BacklogIsBounded
  BY <1>3, TasksAreFinite DEF Init, BacklogIsBounded
<1> QED
  BY <1>1, <1>4, <1>5
     DEF Init, IInv, NothingLeftSubscribed, HasMethod, HolderWaits, UncountedInCommand,
         CountedIsSubscribed, AnswersAreTrue, OrphansAreStray

(* The parts of the invariant that are about the counts, the commands and the
   remote end follow when a step leaves those alone. *)
LEMMA RemoteUntouched ==
  ASSUME IInv, UNCHANGED <<lock, count, orphans, stray, remoteSubs, conn>>
  PROVE  /\ NothingLeftSubscribed' /\ UncountedInCommand' /\ CountedIsSubscribed'
         /\ AnswersAreTrue' /\ OrphansAreStray'
  BY DEF IInv, NothingLeftSubscribed, UncountedInCommand, CountedIsSubscribed, AnswersAreTrue, OrphansAreStray

LEMMA SubscribeOK ==
  ASSUME NEW t \in Tasks, NEW m \in Methods, IInv, Subscribe(t, m) PROVE IInv'
<1> USE DEF IInv, Subscribe, dropVars, remoteVars
<1>1. TypeOK'
  BY DEF TypeOK
<1>2. CountsAreStreams'
  BY SameStreams DEF Live, TypeOK
<1>3. HasMethod' /\ HolderWaits'
  BY DEF HasMethod, HolderWaits, TypeOK
<1>4. BacklogIsBounded'
  <2> SUFFICES ASSUME NEW k \in Methods
               PROVE  releases[k] + leaked[k] + Cardinality(Involved(k)') <= MaxJobs
    BY DEF BacklogIsBounded
  <2>1. releases[k] \in Nat /\ leaked[k] \in Nat /\ MaxBacklog \in Nat
    BY MaxBacklogAssumption DEF TypeOK
  <2>2. IsFiniteSet(Involved(k)') /\ Cardinality(Involved(k)') \in Nat
         /\ Cardinality(Involved(k)') <= Cardinality(Tasks)
    <3>1. Involved(k)' \subseteq Tasks
      BY DEF Involved
    <3> QED
      BY <3>1, TasksAssumption, FS_Subset, FS_CardinalityType
  <2>3. CASE k = m
    BY <2>1, <2>2, <2>3, TasksAreFinite DEF MaxJobs
  <2>4. CASE k # m
    <3>1. Involved(k)' \subseteq Involved(k)
      BY <2>4 DEF Involved, TypeOK
    <3>2. Cardinality(Involved(k)') <= Cardinality(Involved(k))
      BY <3>1, StreamsAreFinite, FS_Subset
    <3> QED
      BY <2>1, <2>2, <3>2, StreamsAreFinite, TasksAreFinite DEF BacklogIsBounded
  <2> QED
    BY <2>3, <2>4
<1> QED
  BY <1>1, <1>2, <1>3, <1>4, RemoteUntouched

LEMMA AcquireOK ==
  ASSUME NEW t \in Tasks, IInv, Acquire(t) PROVE IInv'
<1> USE DEF IInv, Acquire, dropVars, remoteVars
<1>1. method[t] \in Methods /\ Cardinality(Tasks) \in Nat \ {0} /\ MaxJobs \in Nat
  BY TasksAssumption, TasksAreFinite, FS_EmptySet DEF HasMethod
<1>2. BacklogIsBounded'
  BY SameInvolved
<1>3. OrphansAreStray'
  BY DEF OrphansAreStray
<1>4. HasMethod'
  BY DEF HasMethod, TypeOK
<1>5. CASE count[method[t]] = 0
  <2>1. /\ lock' \in Locked /\ lock' # Free /\ lock'.by = t /\ lock'.method = method[t]
        /\ conn = "open" => lock'.stage = "sent"
    BY <1>1, <1>5, CommandIsLocked
  <2>2. TypeOK'
    BY <1>5, <2>1 DEF TypeOK
  <2>3. CountsAreStreams'
    BY <1>5, SameStreams DEF Live, TypeOK
  <2>4. HolderWaits'
    BY <1>5, <2>1 DEF HolderWaits, TypeOK
  <2>5. UncountedInCommand' /\ CountedIsSubscribed' /\ NothingLeftSubscribed'
    BY <1>5, <2>1 DEF UncountedInCommand, CountedIsSubscribed, NothingLeftSubscribed
  <2>6. AnswersAreTrue'
    BY <1>5, <2>1, <1>1, JobAssumption DEF AnswersAreTrue, NothingLeftSubscribed, TypeOK
  <2> QED
    BY <1>2, <1>3, <1>4, <2>2, <2>3, <2>4, <2>5, <2>6
<1>6. CASE count[method[t]] # 0
  <2>1. count[method[t]] \in Nat \ {0} /\ count[method[t]] <= MaxJobs
    BY <1>1, <1>6, CountIsBounded DEF TypeOK
  <2>2. count' = [count EXCEPT ![method[t]] = @ + 1] /\ pc' = [pc EXCEPT ![t] = "opening"] /\ lock' = lock
    BY <1>6
  <2>3. TypeOK'
    BY <1>1, <1>6, <2>1, <2>2 DEF TypeOK
  <2>4. CountsAreStreams'
    BY <1>1, <2>2, StreamGained
  <2>5. HolderWaits' /\ UncountedInCommand' /\ AnswersAreTrue'
    BY <2>2 DEF HolderWaits, UncountedInCommand, AnswersAreTrue, TypeOK
  <2>6. CountedIsSubscribed' /\ NothingLeftSubscribed'
    BY <1>1, <2>1, <2>2 DEF CountedIsSubscribed, NothingLeftSubscribed, TypeOK
  <2> QED
    BY <1>2, <1>3, <1>4, <2>3, <2>4, <2>5, <2>6
<1> QED
  BY <1>5, <1>6

LEMMA SubscribeOkOK ==
  ASSUME NEW t \in Tasks, IInv, SubscribeOk(t) PROVE IInv'
<1> USE DEF IInv, SubscribeOk, dropVars, remoteVars
<1>1. /\ method[t] \in Methods /\ lock # Free /\ lock.by = t /\ lock.method = method[t]
      /\ count[method[t]] = 0
  BY DEF HasMethod, HolderWaits, UncountedInCommand
<1>2. TypeOK' /\ count' = [count EXCEPT ![method[t]] = @ + 1]
  <2>1. Cardinality(Tasks) \in Nat \ {0} /\ MaxJobs \in Nat
    BY TasksAssumption, TasksAreFinite, FS_EmptySet
  <2> QED
    BY <1>1, <2>1 DEF TypeOK
<1>3. CountsAreStreams'
  BY <1>1, <1>2, StreamGained
<1>4. HasMethod' /\ HolderWaits'
  BY <1>1 DEF HasMethod, HolderWaits, TypeOK
<1>5. UncountedInCommand' /\ AnswersAreTrue' /\ OrphansAreStray'
  BY DEF UncountedInCommand, AnswersAreTrue, OrphansAreStray
<1>6. CountedIsSubscribed' /\ NothingLeftSubscribed'
  BY <1>1 DEF CountedIsSubscribed, NothingLeftSubscribed, AnswersAreTrue, TypeOK
<1> QED
  BY <1>2, <1>3, <1>4, <1>5, <1>6, SameInvolved

(* A task that leaves before it has a stream. *)
LEMMA LeavingInvolved ==
  ASSUME NEW t \in Tasks, IInv, pc[t] # "idle", UNCHANGED <<releases, leaked>>,
         method' = [method EXCEPT ![t] = NoMethod]
  PROVE  BacklogIsBounded'
<1> SUFFICES ASSUME NEW m \in Methods
             PROVE  releases[m] + leaked[m] + Cardinality(Involved(m)') <= MaxJobs
  BY DEF BacklogIsBounded
<1>1. Cardinality(Involved(m)') = Cardinality(Involved(m)) - (IF m = method[t] THEN 1 ELSE 0)
  BY OneLess DEF IInv, HasMethod
<1>2. releases[m] + leaked[m] + Cardinality(Involved(m)) <= MaxJobs /\ releases[m] \in Nat /\ leaked[m] \in Nat
  BY DEF IInv, BacklogIsBounded, TypeOK
<1> QED
  BY <1>1, <1>2, StreamsAreFinite, TasksAreFinite

LEMMA SubscribeErrOK ==
  ASSUME NEW t \in Tasks, IInv, SubscribeErr(t) PROVE IInv'
<1> USE DEF IInv, SubscribeErr, dropVars, remoteVars
<1>1. lock # Free /\ lock.by = t /\ lock.method = method[t] /\ method[t] \in Methods
  BY DEF HasMethod, HolderWaits
<1>2. TypeOK'
  BY DEF TypeOK
<1>3. CountsAreStreams'
  BY <1>1, SameStreams, NoMethodAssumption DEF Live, TypeOK
<1>4. HasMethod' /\ HolderWaits'
  BY <1>1 DEF HasMethod, HolderWaits, TypeOK
<1>5. UncountedInCommand' /\ AnswersAreTrue' /\ OrphansAreStray' /\ CountedIsSubscribed'
  BY DEF UncountedInCommand, AnswersAreTrue, OrphansAreStray, CountedIsSubscribed
<1>6. NothingLeftSubscribed'
  BY <1>1 DEF NothingLeftSubscribed, AnswersAreTrue
<1> QED
  BY <1>2, <1>3, <1>4, <1>5, <1>6, LeavingInvolved

LEMMA CancelOK ==
  ASSUME NEW t \in Tasks, IInv, Cancel(t) PROVE IInv'
<1> USE DEF IInv, Cancel, dropVars
<1>1. method[t] \in Methods
  BY DEF HasMethod
<1>2. CountsAreStreams'
  BY <1>1, SameStreams, NoMethodAssumption DEF Live, TypeOK
<1>3. BacklogIsBounded'
  BY LeavingInvolved
<1>4. HasMethod'
  BY DEF HasMethod, TypeOK
<1>5. CASE pc[t] = "command"
  <2>1. lock # Free /\ lock.by = t /\ lock.method = method[t]
    BY <1>5 DEF HolderWaits
  <2>2. TypeOK'
    BY <1>5, <1>1, MaxBacklogAssumption DEF TypeOK
  <2>3. HolderWaits'
    BY <1>5, <2>1 DEF HolderWaits, TypeOK
  <2>4. UncountedInCommand' /\ AnswersAreTrue' /\ CountedIsSubscribed'
    BY <1>5 DEF UncountedInCommand, AnswersAreTrue, CountedIsSubscribed
  <2>5. NothingLeftSubscribed'
    <3>1. lock.stage \in Stages
      BY <2>1, LockIsHeld
    <3>2. CASE lock.stage \in {"sent", "ok"}
      BY <1>5, <2>1, <3>2 DEF NothingLeftSubscribed
    <3>3. CASE lock.stage \in {"err", "hung"}
      BY <1>5, <2>1, <3>3 DEF NothingLeftSubscribed, AnswersAreTrue
    <3> QED
      BY <3>1, <3>2, <3>3 DEF Stages
  <2>6. OrphansAreStray'
    BY <1>5, <1>1 DEF OrphansAreStray, TypeOK
  <2> QED
    BY <1>2, <1>3, <1>4, <2>2, <2>3, <2>4, <2>5, <2>6
<1>6. CASE pc[t] = "locking"
  <2>1. TypeOK' /\ HolderWaits'
    BY <1>6 DEF TypeOK, HolderWaits
  <2> QED
    BY <1>2, <1>3, <1>4, <1>6, <2>1, RemoteUntouched
<1> QED
  BY <1>5, <1>6

LEMMA OpenOK ==
  ASSUME NEW t \in Tasks, IInv, Open(t) PROVE IInv'
<1> USE DEF IInv, Open, dropVars, remoteVars
<1>1. TypeOK' /\ HasMethod' /\ HolderWaits'
  BY DEF TypeOK, HasMethod, HolderWaits
<1>2. CountsAreStreams'
  BY SameStreams DEF Live, TypeOK
<1> QED
  BY <1>1, <1>2, SameInvolved, RemoteUntouched

LEMMA DropStreamOK ==
  ASSUME NEW t \in Tasks, IInv, DropStream(t) PROVE IInv'
<1> USE DEF IInv, DropStream, remoteVars
<1>1. method[t] \in Methods
  BY DEF HasMethod
<1>2. \A m \in Methods : releases'[m] + leaked'[m] = releases[m] + leaked[m] + (IF m = method[t] THEN 1 ELSE 0)
  BY <1>1 DEF TypeOK
<1>3. \A m \in Methods : Cardinality(Involved(m)') = Cardinality(Involved(m)) - (IF m = method[t] THEN 1 ELSE 0)
  BY <1>1, OneLess
<1>4. \A m \in Methods : Cardinality(Streams(m)') = Cardinality(Streams(m)) - (IF m = method[t] THEN 1 ELSE 0)
  <2> SUFFICES ASSUME NEW m \in Methods
               PROVE  Cardinality(Streams(m)') = Cardinality(Streams(m)) - (IF m = method[t] THEN 1 ELSE 0)
    OBVIOUS
  <2>1. CASE m = method[t]
    <3>1. Streams(m)' = Streams(m) \ {t} /\ t \in Streams(m)
      BY <2>1, NoMethodAssumption DEF Streams, Live, TypeOK
    <3> QED
      BY <2>1, <3>1, StreamsAreFinite, FS_RemoveElement
  <2>2. CASE m # method[t]
    <3>1. Streams(m)' = Streams(m)
      BY <2>2, NoMethodAssumption DEF Streams, Live, TypeOK
    <3> QED
      BY <2>2, <3>1, StreamsAreFinite
  <2> QED
    BY <2>1, <2>2
<1>5. \A m \in Methods : /\ releases[m] \in Nat /\ leaked[m] \in Nat
                         /\ releases'[m] \in Nat /\ leaked'[m] \in Nat
  BY <1>1 DEF TypeOK
<1>6. CountsAreStreams'
  <2> SUFFICES ASSUME NEW m \in Methods
               PROVE  count[m] = Cardinality(Streams(m)') + releases'[m] + leaked'[m]
    BY DEF CountsAreStreams, Streams
  <2>1. count[m] = Cardinality(Streams(m)) + releases[m] + leaked[m]
    BY DEF CountsAreStreams, Streams
  <2> QED
    BY <1>2, <1>4, <1>5, <2>1, StreamsAreFinite
<1>7. BacklogIsBounded'
  <2> SUFFICES ASSUME NEW m \in Methods
               PROVE  releases'[m] + leaked'[m] + Cardinality(Involved(m)') <= MaxJobs
    BY DEF BacklogIsBounded
  <2>1. releases[m] + leaked[m] + Cardinality(Involved(m)) <= MaxJobs
    BY DEF BacklogIsBounded
  <2> QED
    BY <1>2, <1>3, <1>5, <2>1, StreamsAreFinite, TasksAreFinite
<1>8. TypeOK'
  <2>1. \A m \in Methods : releases'[m] <= MaxJobs /\ leaked'[m] <= MaxJobs
    <3> SUFFICES ASSUME NEW m \in Methods PROVE releases'[m] <= MaxJobs /\ leaked'[m] <= MaxJobs
      OBVIOUS
    <3>1. Cardinality(Involved(m)') \in Nat
      BY <1>3, OneLess, StreamsAreFinite, FS_CardinalityType, FS_Subset, TasksAssumption DEF Involved
    <3> QED
      BY <1>5, <1>7, <3>1, TasksAreFinite DEF BacklogIsBounded
  <2> QED
    BY <1>1, <1>5, <2>1, TasksAreFinite DEF TypeOK
<1>9. HasMethod' /\ HolderWaits'
  BY DEF HasMethod, HolderWaits, TypeOK
<1> QED
  BY <1>6, <1>7, <1>8, <1>9, RemoteUntouched

LEMMA ReleaseOK ==
  ASSUME NEW m \in Methods, IInv, Release(m) PROVE IInv'
<1> USE DEF IInv, Release, streamVars, remoteVars
<1>1. /\ count[m] = Cardinality(Streams(m)) + releases[m] + leaked[m]
      /\ releases[m] \in Nat \ {0} /\ leaked[m] \in Nat /\ count[m] \in Nat
  BY DEF CountsAreStreams, Streams, TypeOK
<1>2. count[m] > 0
  BY <1>1, StreamsAreFinite
<1>3. count' = [count EXCEPT ![m] = @ - 1] /\ releases' = [releases EXCEPT ![m] = @ - 1]
  <2>1. count[m] # 0
    BY <1>1, <1>2
  <2> QED
    BY <2>1
<1>4. CountsAreStreams'
  <2> SUFFICES ASSUME NEW k \in Methods
               PROVE  count'[k] = Cardinality(Streams(k)') + releases'[k] + leaked'[k]
    BY DEF CountsAreStreams, Streams
  <2>1. Streams(k)' = Streams(k)
    BY DEF Streams, Live
  <2>2. count[k] = Cardinality(Streams(k)) + releases[k] + leaked[k]
    BY DEF CountsAreStreams, Streams
  <2> QED
    BY <1>1, <1>3, <2>1, <2>2, StreamsAreFinite DEF TypeOK
<1>5. BacklogIsBounded'
  <2> SUFFICES ASSUME NEW k \in Methods
               PROVE  releases'[k] + leaked'[k] + Cardinality(Involved(k)') <= MaxJobs
    BY DEF BacklogIsBounded
  <2>1. Involved(k)' = Involved(k)
    BY DEF Involved
  <2>2. releases[k] + leaked[k] + Cardinality(Involved(k)) <= MaxJobs
    BY DEF BacklogIsBounded
  <2> QED
    BY <1>1, <1>3, <2>1, <2>2, StreamsAreFinite, TasksAreFinite DEF TypeOK
<1>6. HasMethod' /\ OrphansAreStray'
  BY DEF HasMethod, OrphansAreStray
<1>7. CASE count[m] = 1
  <2>1. /\ lock' \in Locked /\ lock' # Free /\ lock'.by = Job /\ lock'.method = m
        /\ conn = "open" => lock'.stage = "sent"
    BY <1>7, CommandIsLocked
  <2>2. TypeOK'
    BY <1>1, <1>3, <2>1, TasksAreFinite DEF TypeOK
  <2>3. HolderWaits'
    BY <2>1, JobAssumption DEF HolderWaits
  <2>4. UncountedInCommand' /\ CountedIsSubscribed' /\ NothingLeftSubscribed'
    BY <1>3, <1>7, <2>1 DEF UncountedInCommand, CountedIsSubscribed, NothingLeftSubscribed, TypeOK
  <2>5. AnswersAreTrue'
    BY <2>1, JobAssumption DEF AnswersAreTrue
  <2> QED
    BY <1>4, <1>5, <1>6, <2>2, <2>3, <2>4, <2>5
<1>8. CASE count[m] # 1
  <2>1. count'[m] > 0 /\ lock' = lock /\ lock = Free
    BY <1>1, <1>2, <1>3, <1>8 DEF TypeOK
  <2>2. TypeOK'
    BY <1>1, <1>2, <1>3, <2>1, TasksAreFinite DEF TypeOK
  <2>3. HolderWaits' /\ UncountedInCommand' /\ AnswersAreTrue'
    BY <2>1 DEF HolderWaits, UncountedInCommand, AnswersAreTrue
  <2>4. CountedIsSubscribed' /\ NothingLeftSubscribed'
    BY <1>2, <1>3, <2>1 DEF CountedIsSubscribed, NothingLeftSubscribed, TypeOK
  <2> QED
    BY <1>4, <1>5, <1>6, <2>2, <2>3, <2>4
<1> QED
  BY <1>7, <1>8

LEMMA ReleaseDoneOK ==
  ASSUME IInv, ReleaseDone PROVE IInv'
<1> USE DEF IInv, ReleaseDone, streamVars, dropVars, remoteVars
<1>1. TypeOK' /\ HasMethod' /\ OrphansAreStray' /\ CountedIsSubscribed'
  BY DEF TypeOK, HasMethod, OrphansAreStray, CountedIsSubscribed
<1>2. CountsAreStreams'
  BY SameStreams DEF Live
<1>3. HolderWaits' /\ UncountedInCommand' /\ AnswersAreTrue'
  BY JobAssumption DEF HolderWaits, UncountedInCommand, AnswersAreTrue
<1>4. NothingLeftSubscribed'
  BY DEF NothingLeftSubscribed, AnswersAreTrue
<1> QED
  BY <1>1, <1>2, <1>3, <1>4, SameInvolved

LEMMA ExecuteOK ==
  ASSUME IInv, Execute PROVE IInv'
<1> USE DEF IInv, Execute, streamVars, dropVars
<1>1. lock \in Locked /\ lock.by \in Tasks \cup {Job} /\ lock.method \in Methods /\ count[lock.method] = 0
  BY LockIsHeld DEF UncountedInCommand
<1>2. /\ lock' \in Locked /\ lock' # Free
      /\ lock'.by = lock.by /\ lock'.method = lock.method
  BY <1>1, FreeAssumption DEF Locked, Stages
<1>3. \/ /\ lock.by \in Tasks /\ lock'.stage = "ok" /\ stray' = stray
         /\ remoteSubs' = remoteSubs \cup {lock.method}
      \/ /\ lock.by \in Tasks /\ lock'.stage = "err" /\ stray' = stray /\ remoteSubs' = remoteSubs
      \/ /\ lock.by = Job /\ lock'.stage = "ok"
         /\ remoteSubs' = remoteSubs \ {lock.method}
         /\ stray' = IF orphans[lock.method] = 0 THEN stray \ {lock.method} ELSE stray
  BY <1>1 DEF Locked
<1>4. TypeOK'
  BY <1>1, <1>2 DEF TypeOK
<1>5. CountsAreStreams'
  BY SameStreams DEF Live
<1>6. HasMethod' /\ HolderWaits' /\ UncountedInCommand'
  BY <1>2 DEF HasMethod, HolderWaits, UncountedInCommand
<1>7. CountedIsSubscribed'
  BY <1>1 DEF CountedIsSubscribed
<1>8. NothingLeftSubscribed'
  BY <1>1, <1>2 DEF NothingLeftSubscribed
<1>9. AnswersAreTrue'
  <2>1. CASE lock.by \in Tasks
    BY <1>1, <1>2, <1>3, <2>1, JobAssumption DEF AnswersAreTrue
  <2>2. CASE lock.by = Job
    BY <1>1, <1>2, <1>3, <2>2, JobAssumption DEF AnswersAreTrue
  <2> QED
    BY <1>1, <2>1, <2>2
<1>10. OrphansAreStray'
  BY <1>1 DEF OrphansAreStray
<1> QED
  BY <1>4, <1>5, <1>6, <1>7, <1>8, <1>9, <1>10, SameInvolved

LEMMA ExecuteOrphanOK ==
  ASSUME NEW m \in Methods, IInv, ExecuteOrphan(m) PROVE IInv'
<1> USE DEF IInv, ExecuteOrphan, streamVars, dropVars
<1>1. m \in stray
  BY DEF OrphansAreStray
<1>2. TypeOK'
  BY MaxBacklogAssumption DEF TypeOK
<1>3. HasMethod' /\ HolderWaits' /\ UncountedInCommand' /\ CountsAreStreams'
  BY SameStreams DEF Live, HasMethod, HolderWaits, UncountedInCommand
<1>4. CountedIsSubscribed' /\ NothingLeftSubscribed' /\ AnswersAreTrue'
  BY <1>1 DEF CountedIsSubscribed, NothingLeftSubscribed, AnswersAreTrue
<1>5. OrphansAreStray'
  BY <1>1 DEF OrphansAreStray, TypeOK
<1> QED
  BY <1>2, <1>3, <1>4, <1>5, SameInvolved

LEMMA EndOK ==
  ASSUME IInv, Close \/ Drain \/ WriterGone PROVE IInv'
<1> USE DEF IInv, Close, Drain, WriterGone, streamVars, dropVars, remoteVars
<1>1. \/ lock' = lock
      \/ /\ lock # Free /\ lock' \in Locked /\ lock' # Free
         /\ lock'.by = lock.by /\ lock'.method = lock.method
  <2>1. CASE lock # Free
    <3>1. lock \in Locked
      BY <2>1, LockIsHeld
    <3> QED
      BY <2>1, <3>1, FreeAssumption DEF Locked, Stages
  <2> QED
    BY <2>1
<1>2. TypeOK'
  BY <1>1 DEF TypeOK
<1>3. CountsAreStreams'
  BY SameStreams DEF Live
<1>4. HasMethod' /\ OrphansAreStray'
  BY DEF HasMethod, OrphansAreStray
<1>5. HolderWaits' /\ UncountedInCommand'
  BY <1>1 DEF HolderWaits, UncountedInCommand
<1>6. CountedIsSubscribed' /\ NothingLeftSubscribed' /\ AnswersAreTrue'
  BY DEF CountedIsSubscribed, NothingLeftSubscribed, AnswersAreTrue
<1> QED
  BY <1>2, <1>3, <1>4, <1>5, <1>6, SameInvolved

LEMMA StutterOK ==
  ASSUME IInv, UNCHANGED vars PROVE IInv'
<1> USE DEF IInv, vars
<1>1. TypeOK' /\ HasMethod' /\ HolderWaits'
  BY DEF TypeOK, HasMethod, HolderWaits
<1>2. CountsAreStreams'
  BY SameStreams DEF Live
<1> QED
  BY <1>1, <1>2, SameInvolved, RemoteUntouched

-----------------------------------------------------------------------------
(* Theorems *)

(* The counts, the lock, the commands under way and the remote end fit together
   in every reachable state. *)
THEOREM Inductive == Spec => []IInv
<1>1. IInv /\ [Next]_vars => IInv'
  <2> SUFFICES ASSUME IInv, [Next]_vars PROVE IInv'
    OBVIOUS
  <2>1. ASSUME NEW t \in Tasks, NEW m \in Methods, Subscribe(t, m) PROVE IInv'
    BY <2>1, SubscribeOK
  <2>2. ASSUME NEW t \in Tasks, Acquire(t) \/ Progress(t) \/ Cancel(t) \/ DropStream(t) PROVE IInv'
    BY <2>2, AcquireOK, SubscribeOkOK, SubscribeErrOK, OpenOK, CancelOK, DropStreamOK DEF Progress
  <2>3. ASSUME NEW m \in Methods, Release(m) \/ ExecuteOrphan(m) PROVE IInv'
    BY <2>3, ReleaseOK, ExecuteOrphanOK
  <2>4. ASSUME ReleaseDone \/ Execute \/ Close \/ Drain \/ WriterGone PROVE IInv'
    BY <2>4, ReleaseDoneOK, ExecuteOK, EndOK
  <2> QED
    BY <2>1, <2>2, <2>3, <2>4, StutterOK DEF Next
<1> QED
  BY <1>1, InitOK, PTL DEF Spec

(* The types of BidiSubscriptions. *)
THEOREM TypeCorrect == Spec => []TypeOK
<1>1. IInv => TypeOK
  BY DEF IInv
<1> QED
  BY <1>1, Inductive, PTL

(* subscribe() and unsubscribe commands go out only for events without a
   stream (ws.rs:41-44). *)
LEMMA HoldersAreAlone == IInv => CommandOnlyWhenUnused
<1> SUFFICES ASSUME IInv, lock # Free PROVE \A t \in Tasks : ~Live(t, lock.method)
  BY DEF CommandOnlyWhenUnused
<1>1. lock.method \in Methods /\ count[lock.method] = 0
  BY LockIsHeld DEF IInv, UncountedInCommand
<1> QED
  BY <1>1, UncountedHasNoStream DEF IInv

(* A live stream's event is counted, and what is counted is subscribed. *)
LEMMA StreamsAreSubscribed == IInv => LiveStreamIsSubscribed
  BY StreamIsCounted DEF IInv, LiveStreamIsSubscribed, CountedIsSubscribed

(* The reference counts of events are right, and the remote end agrees with
   them, under every interleaving of subscribes, releases, refusals,
   cancellations and the end of the connection (ensure_subscribed and
   release_subscription in ws.rs). *)
THEOREM CountsAgree == Spec => []SubscriptionsAreCounted
<1>1. IInv => SubscriptionsAreCounted
  BY HoldersAreAlone, StreamsAreSubscribed DEF IInv, SubscriptionsAreCounted
<1> QED
  BY <1>1, Inductive, PTL

=============================================================================
