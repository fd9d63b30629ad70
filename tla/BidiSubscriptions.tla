------------------------- MODULE BidiSubscriptions -------------------------
(***************************************************************************)
(* Typed event subscriptions over one BiDi connection: ensure_subscribed   *)
(* and release_subscription (thirtyfour/src/bidi/transport/ws.rs),         *)
(* BiDi::subscribe (bidi/handle.rs) and EventStream with its Drop          *)
(* (bidi/stream.rs).                                                       *)
(*                                                                         *)
(* A reference count per event method decides when session.subscribe and   *)
(* session.unsubscribe go out.  One async mutex guards the counts and is   *)
(* held across the command, so the step that takes the lock and the step   *)
(* that continues after the reply are apart, and the caller may drop the   *)
(* future, the connection may end, and other tasks queue up in between.    *)
(* Of the connection only what a command can come to is kept; the channel  *)
(* itself is CommandChannel.                                               *)
(***************************************************************************)
EXTENDS Naturals, FiniteSets

CONSTANTS
  Tasks,       \* each opens and drops one stream at a time
  Methods,     \* event names
  NoMethod,    \* a task that is not subscribing and has no stream
  Job,         \* a release_subscription future spawned by a Drop
  Free,        \* the mutex is not held
  MaxBacklog   \* bound on release jobs and leaked counts per method

ASSUME NoMethodAssumption == NoMethod \notin Methods
ASSUME TasksAssumption == IsFiniteSet(Tasks)
ASSUME JobAssumption == Job \notin Tasks
ASSUME MaxBacklogAssumption == MaxBacklog \in Nat \ {0}

VARIABLES
  pc,          \* where each task is in subscribe() and the life of its stream
  method,      \* the event method it is about
  lock,        \* Inner::subscriptions' mutex: holder, method, state of its command
  count,       \* Inner::subscriptions, 0 for a missing key
  releases,    \* spawned release jobs that wait for the lock
  leaked,      \* history: streams dropped where no runtime was current
  orphans,     \* subscribe commands under way whose caller has gone away
  stray,       \* history: methods such a command may have left subscribed
  remoteSubs,  \* the remote end's global subscriptions
  conn         \* what becomes of a command sent now

streamVars == <<pc, method>>
dropVars   == <<releases, leaked>>
remoteVars == <<orphans, stray, remoteSubs>>
vars == <<pc, method, lock, count, releases, leaked, orphans, stray, remoteSubs, conn>>

Stages == {"sent", "ok", "err", "hung"}
Locked == [by : Tasks \cup {Job}, method : Methods, stage : Stages]
ASSUME FreeAssumption == Free \notin Locked
MaxJobs == MaxBacklog - 1 + Cardinality(Tasks)

TypeOK ==
  /\ pc         \in [Tasks -> {"idle", "locking", "command", "opening", "streaming"}]
  /\ method     \in [Tasks -> Methods \cup {NoMethod}]
  /\ lock       \in Locked \cup {Free}
  /\ count      \in [Methods -> 0 .. MaxJobs + Cardinality(Tasks)]
  /\ releases   \in [Methods -> 0 .. MaxJobs]
  /\ leaked     \in [Methods -> 0 .. MaxJobs]
  /\ orphans    \in [Methods -> 0 .. MaxBacklog]
  /\ stray      \in SUBSET Methods
  /\ remoteSubs \in SUBSET Methods
  /\ conn       \in {"open", "closing", "drained", "gone"}

Init ==
  /\ pc         = [t \in Tasks |-> "idle"]
  /\ method     = [t \in Tasks |-> NoMethod]
  /\ lock       = Free
  /\ count      = [m \in Methods |-> 0]
  /\ releases   = [m \in Methods |-> 0]
  /\ leaked     = [m \in Methods |-> 0]
  /\ orphans    = [m \in Methods |-> 0]
  /\ stray      = {}
  /\ remoteSubs = {}
  /\ conn       = "open"

-----------------------------------------------------------------------------
(* send_raw, as the lock holder sees it: until the reader has drained
   `pending` the command gets an answer, after that it hangs, and once the
   writer is gone it is refused. *)
SendRaw(h, m) ==
  lock' = [by |-> h, method |-> m,
           stage |-> CASE conn \in {"open", "closing"} -> "sent"
                       [] conn = "drained"             -> "hung"
                       [] conn = "gone"                -> "err"]

(* bidi.subscribe::<E>() is called, and waits for the subscriptions lock. *)
Subscribe(t, m) ==
  /\ pc[t] = "idle" /\ releases[m] + leaked[m] < MaxBacklog
  /\ pc' = [pc EXCEPT ![t] = "locking"]
  /\ method' = [method EXCEPT ![t] = m]
  /\ UNCHANGED <<lock, count, dropVars, remoteVars, conn>>

(* Mutant: the guard lives on in the stream when no command was needed. *)
AcquireKeepsLock(t) ==
  /\ pc[t] = "locking" /\ lock = Free
  /\ IF count[method[t]] = 0
     THEN /\ SendRaw(t, method[t])
          /\ pc' = [pc EXCEPT ![t] = "command"]
          /\ UNCHANGED count
     ELSE /\ count' = [count EXCEPT ![method[t]] = @ + 1]
          /\ pc' = [pc EXCEPT ![t] = "opening"]
          /\ lock' = [by |-> t, method |-> method[t], stage |-> "hung"]
  /\ UNCHANGED <<method, dropVars, remoteVars, conn>>

(* ensure_subscribed from lock().await on: with a count of zero it goes on to
   the command, otherwise it counts and is done. *)
Acquire(t) ==
  /\ pc[t] = "locking" /\ lock = Free
  /\ IF count[method[t]] = 0
     THEN /\ SendRaw(t, method[t])
          /\ pc' = [pc EXCEPT ![t] = "command"]
          /\ UNCHANGED count
     ELSE /\ count' = [count EXCEPT ![method[t]] = @ + 1]
          /\ pc' = [pc EXCEPT ![t] = "opening"]
          /\ UNCHANGED lock
  /\ UNCHANGED <<method, dropVars, remoteVars, conn>>

(* subs.insert(method, current + 1), where current was read as zero. *)
SubscribeOk(t) ==
  /\ pc[t] = "command" /\ lock.stage = "ok"
  /\ count' = [count EXCEPT ![method[t]] = 1]
  /\ lock' = Free
  /\ pc' = [pc EXCEPT ![t] = "opening"]
  /\ UNCHANGED <<method, dropVars, remoteVars, conn>>

(* The ? after send_raw: nothing is counted and there is no stream. *)
SubscribeErr(t) ==
  /\ pc[t] = "command" /\ lock.stage = "err"
  /\ lock' = Free
  /\ pc' = [pc EXCEPT ![t] = "idle"]
  /\ method' = [method EXCEPT ![t] = NoMethod]
  /\ UNCHANGED <<count, dropVars, remoteVars, conn>>

(* The caller drops the future at one of its two awaits.  A command already
   sent is not recalled: it may still be executed, or has been. *)
Cancel(t) ==
  /\ pc[t] \in {"locking", "command"}
  /\ IF pc[t] = "command"
     THEN /\ lock' = Free
          /\ stray' = IF lock.stage \in {"sent", "ok"} THEN stray \cup {method[t]} ELSE stray
          /\ IF lock.stage = "sent"
             THEN /\ orphans[method[t]] < MaxBacklog
                  /\ orphans' = [orphans EXCEPT ![method[t]] = @ + 1]
             ELSE UNCHANGED orphans
     ELSE UNCHANGED <<lock, stray, orphans>>
  /\ pc' = [pc EXCEPT ![t] = "idle"]
  /\ method' = [method EXCEPT ![t] = NoMethod]
  /\ UNCHANGED <<count, dropVars, remoteSubs, conn>>

(* EventStream::new, in the same poll: the task cannot be cancelled here, but
   others run. *)
Open(t) ==
  /\ pc[t] = "opening"
  /\ pc' = [pc EXCEPT ![t] = "streaming"]
  /\ UNCHANGED <<method, lock, count, dropVars, remoteVars, conn>>

(* Drop for EventStream: spawn the release, or skip it for want of a runtime. *)
DropStream(t) ==
  /\ pc[t] = "streaming"
  /\ \/ /\ releases' = [releases EXCEPT ![method[t]] = @ + 1]
        /\ UNCHANGED leaked
     \/ /\ leaked' = [leaked EXCEPT ![method[t]] = @ + 1]
        /\ UNCHANGED releases
  /\ pc' = [pc EXCEPT ![t] = "idle"]
  /\ method' = [method EXCEPT ![t] = NoMethod]
  /\ UNCHANGED <<lock, count, remoteVars, conn>>

-----------------------------------------------------------------------------
(* The spawned release jobs *)

(* Mutant: the count is removed but nothing is sent. *)
ReleaseNoSend(m) ==
  /\ releases[m] > 0 /\ lock = Free
  /\ releases' = [releases EXCEPT ![m] = @ - 1]
  /\ count' = [count EXCEPT ![m] = IF @ = 0 THEN 0 ELSE @ - 1]
  /\ UNCHANGED <<streamVars, lock, leaked, remoteVars, conn>>

(* Mutant: the count is tested before it is decremented, one too early. *)
ReleaseEarly(m) ==
  /\ releases[m] > 0 /\ lock = Free
  /\ releases' = [releases EXCEPT ![m] = @ - 1]
  /\ count' = [count EXCEPT ![m] = IF @ = 0 THEN 0 ELSE @ - 1]
  /\ IF count[m] = 2 THEN SendRaw(Job, m) ELSE UNCHANGED lock
  /\ UNCHANGED <<streamVars, leaked, remoteVars, conn>>

(* release_subscription from lock().await on.  A missing or zero entry ends
   it; reaching zero it goes on to the command with the lock held. *)
Release(m) ==
  /\ releases[m] > 0 /\ lock = Free
  /\ releases' = [releases EXCEPT ![m] = @ - 1]
  /\ count' = [count EXCEPT ![m] = IF @ = 0 THEN 0 ELSE @ - 1]
  /\ IF count[m] = 1 THEN SendRaw(Job, m) ELSE UNCHANGED lock
  /\ UNCHANGED <<streamVars, leaked, remoteVars, conn>>

(* `let _ =`: the answer is not looked at. *)
ReleaseDone ==
  /\ lock # Free /\ lock.by = Job /\ lock.stage \in {"ok", "err"}
  /\ lock' = Free
  /\ UNCHANGED <<streamVars, count, dropVars, remoteVars, conn>>

-----------------------------------------------------------------------------
(* The remote end (external) executes each command once, in any order.  It
   may refuse an event name it does not know. *)

Execute ==
  /\ conn = "open" /\ lock # Free /\ lock.stage = "sent"
  /\ \/ /\ lock.by \in Tasks
        /\ remoteSubs' = remoteSubs \cup {lock.method}
        /\ lock' = [lock EXCEPT !.stage = "ok"]
        /\ UNCHANGED stray
     \/ /\ lock.by \in Tasks
        /\ lock' = [lock EXCEPT !.stage = "err"]
        /\ UNCHANGED <<remoteSubs, stray>>
     \/ /\ lock.by = Job
        /\ remoteSubs' = remoteSubs \ {lock.method}
        /\ stray' = IF orphans[lock.method] = 0 THEN stray \ {lock.method} ELSE stray
        /\ lock' = [lock EXCEPT !.stage = "ok"]
  /\ UNCHANGED <<streamVars, count, dropVars, orphans, conn>>

ExecuteOrphan(m) ==
  /\ conn = "open" /\ orphans[m] > 0
  /\ orphans' = [orphans EXCEPT ![m] = @ - 1]
  /\ remoteSubs' \in {remoteSubs, remoteSubs \cup {m}}
  /\ UNCHANGED <<streamVars, lock, count, dropVars, stray, conn>>

(* The connection ends in three steps: the socket, the reader's drain of
   `pending`, the writer. *)
Close ==
  /\ conn = "open"
  /\ conn' = "closing"
  /\ UNCHANGED <<streamVars, lock, count, dropVars, remoteVars>>

(* fail_all_pending.  A reply that was executed but not read is lost. *)
Drain ==
  /\ conn = "closing"
  /\ conn' = "drained"
  /\ IF lock # Free /\ lock.stage \in {"sent", "ok"}
     THEN \E s \in {"err", lock.stage} \ {"sent"} : lock' = [lock EXCEPT !.stage = s]
     ELSE UNCHANGED lock
  /\ UNCHANGED <<streamVars, count, dropVars, remoteVars>>

WriterGone ==
  /\ conn = "drained"
  /\ conn' = "gone"
  /\ UNCHANGED <<streamVars, lock, count, dropVars, remoteVars>>

-----------------------------------------------------------------------------

Progress(t) == SubscribeOk(t) \/ SubscribeErr(t) \/ Open(t)

Next ==
  \/ \E t \in Tasks :
       \/ \E m \in Methods : Subscribe(t, m)
       \/ Acquire(t) \/ Progress(t) \/ Cancel(t) \/ DropStream(t)
  \/ \E m \in Methods : Release(m) \/ ExecuteOrphan(m)
  \/ ReleaseDone \/ Execute \/ Close \/ Drain \/ WriterGone

(* tokio's mutex is granted in the order it was asked for, so a task that
   waits for it gets it if it is free again and again.  Nobody owes a new
   subscription, a cancellation, the dropping of a stream or a close. *)
Fairness ==
  /\ \A t \in Tasks : SF_vars(Acquire(t)) /\ WF_vars(Progress(t))
  /\ \A m \in Methods : SF_vars(Release(m))
  /\ WF_vars(ReleaseDone)
  /\ WF_vars(Execute)

Spec     == Init /\ [][Next]_vars
FairSpec == Spec /\ Fairness

-----------------------------------------------------------------------------
(* Properties *)

(* A stream, or a subscribe() call that only has to build it. *)
Live(t, m) == pc[t] \in {"opening", "streaming"} /\ method[t] = m

(* The count of a method is the number of its streams, plus those dropped
   whose release has not run, plus those dropped outside a runtime: failed
   and cancelled calls leave no count behind and none is released twice. *)
CountsAreStreams ==
  \A m \in Methods :
    count[m] = Cardinality({t \in Tasks : Live(t, m)}) + releases[m] + leaked[m]

(* While the connection is up the remote end is subscribed to every method
   that somebody has a stream for: a concurrent unsubscribe, a failed call or
   a late command never takes the events away from a live stream. *)
LiveStreamIsSubscribed ==
  conn = "open" => \A t \in Tasks, m \in Methods : Live(t, m) => m \in remoteSubs

(* ws.rs:41-44: callers serialise on the lock "instead of double-subscribing".
   A subscribe or unsubscribe command for a method is out only while nobody
   has a stream for it. *)
CommandOnlyWhenUnused ==
  lock # Free => \A t \in Tasks : ~Live(t, lock.method)

(* While the connection is up, a method nobody counts or is busy with is not
   subscribed at the remote end, unless a cancelled call left it so. *)
NothingLeftSubscribed ==
  conn = "open" =>
    \A m \in remoteSubs \ stray : count[m] > 0 \/ (lock # Free /\ lock.method = m)

(* The counts, the commands and the remote end agree, whatever is interleaved,
   cancelled or fails. *)
SubscriptionsAreCounted ==
  /\ TypeOK
  /\ CountsAreStreams
  /\ LiveStreamIsSubscribed
  /\ CommandOnlyWhenUnused
  /\ NothingLeftSubscribed

(* docs/src/bidi/events.md:237-240: after the last stream for an event drops,
   session.unsubscribe is sent.  If from some point on nobody wants the
   method, the remote end ends up not subscribed, unless a call for it was
   cancelled or a stream was dropped outside a runtime. *)
LastDropUnsubscribes ==
  \A m \in Methods :
    <>[](conn = "open" /\ \A t \in Tasks : method[t] # m)
      => <>[](m \in remoteSubs => m \in stray \/ leaked[m] > 0)

(* While the connection is up a subscribe() call gets the lock and its answer,
   however many other calls and releases queue for it. *)
SubscribeReturns ==
  \A t \in Tasks : pc[t] \in {"locking", "command"}
                     ~> (pc[t] \notin {"locking", "command"} \/ conn # "open")

=============================================================================
