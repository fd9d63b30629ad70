---------------------------- MODULE SessionQuit ----------------------------
(***************************************************************************)
(* The end of one managed session: WebDriver::quit and leak                *)
(* (thirtyfour/src/web_driver.rs), SessionHandle::quit, leak,              *)
(* clone_with_config and Drop (session/handle.rs), the DriverGuard         *)
(* contract (session/mod.rs) and SessionGuard::release                     *)
(* (manager/manager.rs).                                                   *)
(*                                                                         *)
(* WebDriver values share a SessionHandle by Arc; clone_with_config makes  *)
(* another handle that shares the `quit` OnceCell and the guard.  DELETE   *)
(* /session is sent under the cell, which a failure or a cancellation      *)
(* leaves empty for the next one to try.  The Drop of a handle falls back  *)
(* to a thread that does the same while the dropping thread is blocked.    *)
(* The driver process serves this session alone; DriverPool has sharing.   *)
(***************************************************************************)
EXTENDS Naturals

CONSTANTS
  Drivers,       \* the WebDriver values that may come to exist
  Handles,       \* the SessionHandles that may come to exist
  NoHandle,
  SingleThread   \* do all tasks share one executor thread?

ASSUME NoHandleAssumption == NoHandle \notin Handles
ASSUME SingleThreadAssumption == SingleThread \in BOOLEAN
ASSUME CellAssumption == {"empty", "set"} \cap Drivers = {}

VARIABLES
  of,         \* the handle each WebDriver points to
  pc,         \* where each WebDriver is on its way out
  cell,       \* SessionHandle::quit: "empty", "set", or who is initialising it
  lease,      \* does SessionGuard::driver still hold the process?
  process,    \* the driver process
  session,    \* the session at the driver
  returned,   \* history: WebDrivers whose quit() returned Ok
  leaked,     \* history: did leak() return Ok?
  reported    \* history: was a failed DELETE returned or logged?

guardVars   == <<lease, process>>
historyVars == <<returned, leaked, reported>>
vars == <<of, pc, cell, lease, process, session, returned, leaked, reported>>

(* The thread that Drop starts, and waits for. *)
ThreadPcs == {"thread_cell", "thread_delete"}

TypeOK ==
  /\ of       \in [Drivers -> Handles \cup {NoHandle}]
  /\ pc       \in [Drivers -> {"none", "held", "cell", "delete", "release", "shutdown",
                               "drop", "drop_guard", "gone"} \cup ThreadPcs]
  /\ cell     \in {"empty", "set"} \cup Drivers
  /\ lease    \in BOOLEAN
  /\ process  \in {"running", "killed", "reaped"}
  /\ session  \in {"alive", "deleted"}
  /\ returned \in SUBSET Drivers
  /\ leaked   \in BOOLEAN
  /\ reported \in BOOLEAN
  /\ \A d \in Drivers : of[d] = NoHandle <=> pc[d] = "none"
  /\ lease => process = "running"

(* launch() has returned the first WebDriver. *)
Init ==
  /\ \E d \in Drivers, h \in Handles :
       /\ of = [e \in Drivers |-> IF e = d THEN h ELSE NoHandle]
       /\ pc = [e \in Drivers |-> IF e = d THEN "held" ELSE "none"]
  /\ cell     = "empty"
  /\ lease    = TRUE
  /\ process  = "running"
  /\ session  = "alive"
  /\ returned = {}
  /\ leaked   = FALSE
  /\ reported = FALSE

-----------------------------------------------------------------------------

Go(d, to) == pc' = [pc EXCEPT ![d] = to]

(* On a single-threaded executor no task runs while a Drop blocks it. *)
Runs(d) ==
  SingleThread => \A e \in Drivers \ {d} : pc[e] \notin ThreadPcs \cup {"drop_guard"}

Deletes(d) == pc[d] \in {"delete", "thread_delete"}

Clone(d, e) ==
  /\ pc[d] = "held" /\ Runs(d) /\ pc[e] = "none"
  /\ Go(e, "held")
  /\ of' = [of EXCEPT ![e] = of[d]]
  /\ UNCHANGED <<cell, guardVars, session, historyVars>>

CloneWithConfig(d, e, h) ==
  /\ pc[d] = "held" /\ Runs(d) /\ pc[e] = "none"
  /\ \A x \in Drivers : of[x] # h
  /\ Go(e, "held")
  /\ of' = [of EXCEPT ![e] = h]
  /\ UNCHANGED <<cell, guardVars, session, historyVars>>

(* quit(self) up to get_or_try_init; or the value goes out of scope. *)
Quit(d) ==
  /\ pc[d] = "held" /\ Runs(d)
  /\ \E to \in {"cell", "drop"} : Go(d, to)
  /\ UNCHANGED <<of, cell, guardVars, session, historyVars>>

(* quit.set(()) fails on a cell that is set or being initialised; either way
   the WebDriver is dropped. *)
Leak(d) ==
  /\ pc[d] = "held" /\ Runs(d)
  /\ IF cell = "empty" THEN cell' = "set" /\ leaked' = TRUE ELSE UNCHANGED <<cell, leaked>>
  /\ Go(d, "drop")
  /\ UNCHANGED <<of, guardVars, session, returned, reported>>

(* Mutant: the flag is only looked at, so two callers get in. *)
EnterCellUnlocked(d) ==
  /\ \/ pc[d] = "cell" /\ Runs(d)
     \/ pc[d] = "thread_cell"
  /\ IF cell = "set"
     THEN /\ Go(d, IF pc[d] = "cell" THEN "release" ELSE "drop_guard")
          /\ UNCHANGED cell
     ELSE /\ Go(d, IF pc[d] = "cell" THEN "delete" ELSE "thread_delete")
          /\ cell' = d
  /\ UNCHANGED <<of, guardVars, session, historyVars>>

(* get_or_try_init: wait for the cell, and send DELETE if it is still empty. *)
EnterCell(d) ==
  /\ \/ pc[d] = "cell" /\ Runs(d)
     \/ pc[d] = "thread_cell"
  /\ \/ /\ cell = "set"
        /\ Go(d, IF pc[d] = "cell" THEN "release" ELSE "drop_guard")
        /\ UNCHANGED cell
     \/ /\ cell = "empty"
        /\ Go(d, IF pc[d] = "cell" THEN "delete" ELSE "thread_delete")
        /\ cell' = d
  /\ UNCHANGED <<of, guardVars, session, historyVars>>

(* The driver has closed the session and says so. *)
DeleteOk(d) ==
  /\ Deletes(d) /\ (pc[d] = "delete" => Runs(d))
  /\ process = "running" /\ session = "alive"
  /\ session' = "deleted"
  /\ cell' = "set"
  /\ Go(d, IF pc[d] = "delete" THEN "release" ELSE "drop_guard")
  /\ UNCHANGED <<of, guardVars, historyVars>>

(* Mutant: a failed initialisation never gives the cell back. *)
DeleteErrKeepsCell(d) ==
  /\ Deletes(d) /\ (pc[d] = "delete" => Runs(d))
  /\ session' \in IF process = "running" THEN {session, "deleted"} ELSE {session}
  /\ Go(d, IF pc[d] = "delete" THEN "drop" ELSE "drop_guard")
  /\ reported' = TRUE
  /\ UNCHANGED <<of, cell, guardVars, returned, leaked>>

(* An error, or a timeout after which the driver may still have acted.  quit()
   returns it without releasing the guard; the thread of Drop logs it. *)
DeleteErr(d) ==
  /\ Deletes(d) /\ (pc[d] = "delete" => Runs(d))
  /\ session' \in IF process = "running" THEN {session, "deleted"} ELSE {session}
  /\ cell' = "empty"
  /\ Go(d, IF pc[d] = "delete" THEN "drop" ELSE "drop_guard")
  /\ reported' = TRUE
  /\ UNCHANGED <<of, guardVars, returned, leaked>>

(* The future of quit() is dropped at an await, and the WebDriver with it.
   The driver may still act on a DELETE already sent. *)
Cancel(d) ==
  /\ pc[d] \in {"cell", "delete", "shutdown"} /\ Runs(d)
  /\ IF pc[d] = "delete"
     THEN /\ cell' = "empty"
          /\ session' \in IF process = "running" THEN {session, "deleted"} ELSE {session}
     ELSE UNCHANGED <<cell, session>>
  /\ Go(d, "drop")
  /\ UNCHANGED <<of, guardVars, historyVars>>

(* SessionGuard::release: the first caller takes the process and kills it,
   any other is done at once. *)
Release(d) ==
  /\ pc[d] = "release" /\ Runs(d)
  /\ \/ /\ lease
        /\ lease' = FALSE
        /\ process' = "killed"
        /\ Go(d, "shutdown")
        /\ UNCHANGED returned
     \/ /\ ~lease
        /\ returned' = returned \cup {d}
        /\ Go(d, "drop")
        /\ UNCHANGED guardVars
  /\ UNCHANGED <<of, cell, session, leaked, reported>>

(* child.kill().await returns, and quit() with it. *)
Shutdown(d) ==
  /\ pc[d] = "shutdown" /\ Runs(d) /\ process = "reaped"
  /\ returned' = returned \cup {d}
  /\ Go(d, "drop")
  /\ UNCHANGED <<of, cell, guardVars, session, leaked, reported>>

-----------------------------------------------------------------------------
(* Drop *)

(* WebDrivers that still keep handle h. *)
Keep(h) == {d \in Drivers : of[d] = h /\ pc[d] \notin {"none", "gone"}}

(* The last WebDriver of a handle drops the handle.  Unless the cell is set a
   thread is started and joined; if that thread cannot build its runtime, it
   logs that the session may leak. *)
DropDriver(d) ==
  /\ pc[d] = "drop" /\ Runs(d)
  /\ \/ /\ Keep(of[d]) # {d}
        /\ Go(d, "gone")
        /\ UNCHANGED reported
     \/ /\ Keep(of[d]) = {d} /\ cell = "set"
        /\ Go(d, "drop_guard")
        /\ UNCHANGED reported
     \/ /\ Keep(of[d]) = {d} /\ cell # "set"
        /\ \/ Go(d, "thread_cell") /\ UNCHANGED reported
           \/ Go(d, "drop_guard") /\ reported' = TRUE
  /\ UNCHANGED <<of, cell, guardVars, session, returned, leaked>>

(* Mutant: the guard is not shared but goes with any of the handles. *)
DropGuardEarly(d) ==
  /\ pc[d] = "drop_guard"
  /\ lease' = FALSE
  /\ process' = IF lease THEN "killed" ELSE process
  /\ Go(d, "gone")
  /\ UNCHANGED <<of, cell, session, historyVars>>

(* Mutant: a handle whose cell is set leaves the process to quit(). *)
DropGuardTrusting(d) ==
  /\ pc[d] = "drop_guard"
  /\ IF cell # "set" /\ lease /\ \A h \in Handles \ {of[d]} : Keep(h) = {}
     THEN /\ lease' = FALSE
          /\ process' = "killed"
     ELSE UNCHANGED guardVars
  /\ Go(d, "gone")
  /\ UNCHANGED <<of, cell, session, historyVars>>

(* driver_guard is the last field to go: the last handle drops SessionGuard,
   and with it the process if nobody has taken it, which kills the child. *)
DropGuard(d) ==
  /\ pc[d] = "drop_guard"
  /\ IF lease /\ \A h \in Handles \ {of[d]} : Keep(h) = {}
     THEN /\ lease' = FALSE
          /\ process' = "killed"
     ELSE UNCHANGED guardVars
  /\ Go(d, "gone")
  /\ UNCHANGED <<of, cell, session, historyVars>>

(* The operating system (external): a killed driver ends and is waited for. *)
Reap ==
  /\ process = "killed"
  /\ process' = "reaped"
  /\ UNCHANGED <<of, pc, cell, lease, session, historyVars>>

-----------------------------------------------------------------------------

Step(d) == DeleteOk(d) \/ DeleteErr(d) \/ Release(d) \/ Shutdown(d) \/ DropDriver(d) \/ DropGuard(d)

Next ==
  \/ \E d, e \in Drivers : Clone(d, e) \/ \E h \in Handles : CloneWithConfig(d, e, h)
  \/ \E d \in Drivers : Quit(d) \/ Leak(d) \/ EnterCell(d) \/ Step(d) \/ Cancel(d)
  \/ Reap

(* Ready tasks and threads run, a request is answered or times out, a killed
   process ends.  tokio's OnceCell lets waiters in one after the other, in the
   order they came.  Nobody owes a quit, a clone or a cancellation. *)
Fairness ==
  /\ \A d \in Drivers : WF_vars(Step(d)) /\ SF_vars(EnterCell(d))
  /\ WF_vars(Reap)

Spec     == Init /\ [][Next]_vars
FairSpec == Spec /\ Fairness

-----------------------------------------------------------------------------
(* Properties *)

(* However many handles quit or drop at once, one DELETE is out at a time, and
   none any more once one has succeeded or the session was leaked. *)
OneDelete ==
  /\ \A d, e \in Drivers : Deletes(d) /\ Deletes(e) => d = e
  /\ cell = "set" => \A d \in Drivers : ~Deletes(d)

(* session/mod.rs:14-16: external resources outlive the DELETE /session call.
   The process is not killed while a DELETE is out, nor while anybody holding
   a live session could still send one. *)
DriverOutlivesDelete ==
  process # "running" =>
    \A d \in Drivers : ~Deletes(d) /\ (cell # "set" => pc[d] \in {"none", "gone"})

(* No session is lost in silence: when the last WebDriver is gone the session
   was deleted, or leaked on purpose, or the failure was returned or logged. *)
NotSilentlyLost ==
  (\A d \in Drivers : pc[d] \in {"none", "gone"})
    => session = "deleted" \/ leaked \/ reported

(* A driver process is not left behind either: it was taken by release(), or
   killed with the last handle. *)
DriverIsNotLeft ==
  (\A d \in Drivers : pc[d] \in {"none", "gone"}) => process # "running"

(* When the last WebDriver is gone nothing is left, or somebody was told. *)
NothingIsLeft ==
  /\ TypeOK
  /\ NotSilentlyLost
  /\ DriverIsNotLeft

(* A quit() or a Drop comes to its end, whatever the others do. *)
QuitEnds == \A d \in Drivers : (pc[d] \notin {"none", "held"}) ~> (pc[d] = "gone")

-----------------------------------------------------------------------------
(* The inductive invariant behind the safety properties above. *)

(* What is in the cell is who sends DELETE, and it is set before a release. *)
CellIsHeld ==
  /\ \A d \in Drivers : Deletes(d) <=> cell = d
  /\ \A d \in Drivers : pc[d] \in {"release", "shutdown"} => cell = "set"

(* The guard has the process until it is killed, and some handle has the guard. *)
GuardIsHeld ==
  /\ process = "running" => lease
  /\ lease => \E d \in Drivers : pc[d] \notin {"none", "gone"}

(* A handle is dropped by the last WebDriver on it, and by nobody else. *)
LastOnHandle ==
  \A d \in Drivers : pc[d] \in ThreadPcs \cup {"drop_guard"} => Keep(of[d]) = {d}

(* A cell is set for a reason, and a Drop gives up only with it set or aloud. *)
Accounted ==
  /\ cell = "set" => session = "deleted" \/ leaked
  /\ \A d \in Drivers : pc[d] = "drop_guard" => cell = "set" \/ reported

IInv ==
  /\ TypeOK /\ CellIsHeld /\ GuardIsHeld /\ LastOnHandle /\ Accounted
  /\ DriverOutlivesDelete /\ NotSilentlyLost

=============================================================================
