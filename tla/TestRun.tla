------------------------------- MODULE TestRun -------------------------------
(***************************************************************************)
(* One browser test: run_browser_test (thirtyfour/src/testing/runner.rs)   *)
(* and WebDriver::run_and_quit (web_driver.rs) over start_session          *)
(* (session/create.rs), with the log lines of the driver process           *)
(* (manager/process.rs: spawn_pump; manager/status.rs: LogSubscribers),    *)
(* the status events of the manager (Emitter) and a                        *)
(* FailureArtifactCollector (testing/artifacts.rs).                        *)
(*                                                                         *)
(* Log lines and status events reach their subscribers alike: an emitter   *)
(* goes through a snapshot of the list, calling one closure after the      *)
(* other, while other threads add to the list and remove from it by        *)
(* ArcSwap::rcu, that is, by compare-and-swap.  A panic of a closure is    *)
(* caught, so a closure that panics is one that was called.                *)
(***************************************************************************)
EXTENDS FailureReport, Functions

CONSTANTS
  Listeners,     \* the subscriptions that may come to exist
  Collector,     \* that of the artifact collector, one of Listeners
  Sessions,      \* the sessions the driver may create
  Lines,         \* the lines the driver may write
  MaxLines,      \* bound: lines written on one stream
  MaxFaults,     \* bound: requests that fail
  ProcessLimits, \* FailureArtifactConfig::driver_process_logs
  BrowserLimits, \* FailureArtifactConfig::browser_logs
  SourceMax,     \* FailureArtifactConfig::source_max_bytes
  Pages,         \* the sources a page may have
  BrowserLogs    \* what the browser's log may hold

ASSUME CollectorAssumption == Collector \in Listeners
ASSUME SessionsAssumption == None \notin Sessions
ASSUME TextsAssumption ==
  Lines \subseteq Seq(Nat) /\ Pages \subseteq Seq(Nat) /\ BrowserLogs \subseteq Seq(Entries)
ASSUME LimitsAssumption ==
  /\ MaxFaults \in Nat /\ SourceMax \in Nat
  /\ ProcessLimits \in LogLimits /\ BrowserLimits \in LogLimits

VARIABLES
  managed,   \* was the driver launched by a WebDriverManager?
  sessions,  \* the sessions at the driver
  mine,      \* the session of the WebDriver, or None
  lost,      \* history: sessions whose New Session was answered with an error
  attempt,   \* the New Session requests sent
  faults,    \* the requests that have failed
  phase,     \* where the run is
  quitCell,  \* is SessionHandle::quit set?
  body,      \* the outcome of the test's body
  cleanup,   \* the outcome of quit() after it
  result,    \* what the run returns
  driver,    \* the driver process, and who has its lease
  list,      \* listener -> the list it is for
  sub,       \* listener -> the state of its subscription
  seenlist,  \* listener -> the list that its rcu() has loaded
  subs,      \* the lists of subscribers
  output,    \* emitter -> what the driver or the manager has put out
  at,        \* emitter -> [n: how much of it was taken, level, todo: closures not called yet]
  heard,     \* listener -> the items it was called with
  since,     \* history: listener -> what had been taken when it was subscribed
  buffer,    \* DriverProcessLogBuffer of the collector
  report     \* the artifacts captured

remote  == <<managed, sessions, mine, lost, attempt, faults>>
runner  == <<phase, quitCell, body, cleanup, result>>
pubsub  == <<list, sub, seenlist, subs, since>>
stream  == <<output, at, heard, buffer>>
runVars == <<remote, runner, driver, pubsub, stream, report>>

Streams  == {"stdout", "stderr"}
Emitters == Streams \cup {"manager"}
Lists(e) == IF e = "manager" THEN <<"status">> ELSE <<"process", "manager">>
Fields   == <<"url", "title", "screenshot", "source", "browser_logs">>
NoReport == [next |-> 0, failed |-> {}, source |-> <<>>, original |-> <<>>, browser |-> <<>>, entries |-> <<>>, process |-> <<>>]

RunTypeOK ==
  /\ managed \in BOOLEAN /\ quitCell \in BOOLEAN
  /\ sessions \subseteq Sessions /\ lost \subseteq sessions /\ mine \in Sessions \cup {None}
  /\ attempt \in 0 .. 2 /\ faults \in 0 .. MaxFaults
  /\ phase \in {"start", "request", "timeouts", "failed", "body", "leaving", "quit", "drop", "guard", "done"}
  /\ body \in {"none", "ok", "err", "panic"} /\ cleanup \in {"none", "ok", "err", "panic"}
  /\ result \in {"none", "ok", "setup", "cancelled", "body", "cleanup", "body_and_cleanup", "panic", "cleanup_panic"}
  /\ driver \in {"running", "killed"}
  /\ list \in [Listeners -> {"status", "process", "manager"}]
  /\ sub \in [Listeners -> {"out", "adding", "in", "dropping", "gone"}]
  /\ seenlist \in [Listeners -> Seq(Listeners)]
  /\ subs \in [{"status", "process", "manager"} -> Seq(Listeners)]
  /\ at \in [Emitters -> [n : Nat, level : 0 .. 2, todo : Seq(Listeners)]]
  /\ \A e \in Emitters : at[e].n <= Len(output[e])
  /\ \A x \in Listeners : heard[x] \in Seq(Emitters \X Nat) /\ since[x] \in [Emitters -> Nat]
  /\ report.next <= Len(Fields) /\ report.failed \subseteq Range(Fields)

RunInit ==
  /\ managed \in BOOLEAN
  /\ sessions = {} /\ mine = None /\ lost = {} /\ attempt = 0 /\ faults = 0
  /\ phase = "start" /\ quitCell = FALSE /\ body = "none" /\ cleanup = "none" /\ result = "none"
  /\ driver = "running"
  /\ list \in {f \in [Listeners -> {"status", "process", "manager"}] : f[Collector] = "process"}
  /\ sub = [x \in Listeners |-> "out"]
  /\ seenlist = [x \in Listeners |-> <<>>]
  /\ subs = [l \in {"status", "process", "manager"} |-> <<>>]
  /\ output = [e \in Emitters |-> <<>>]
  /\ at = [e \in Emitters |-> [n |-> 0, level |-> 0, todo |-> <<>>]]
  /\ heard = [x \in Listeners |-> <<>>]
  /\ since = [x \in Listeners |-> [e \in Emitters |-> 0]]
  /\ buffer = <<>>
  /\ report = NoReport

-----------------------------------------------------------------------------
(* Subscriptions *)

SubscriberStep(x, from, to) == sub[x] = from /\ sub' = [sub EXCEPT ![x] = to]

(* The process-level list is reached through the guard of a session, which
   has it until somebody takes the process (SessionGuard::subscribe_log). *)
Reachable(x) ==
  /\ list[x] = "process" => phase \in {"body", "leaving", "quit"} /\ driver = "running"
  /\ x = Collector => phase = "body"

(* add_arc, drop: rcu() loads the list; if it was changed by the time of the
   swap, it loads it again. *)
Load(x) ==
  /\ managed
  /\ \/ SubscriberStep(x, "out", "adding") /\ Reachable(x)
     \/ SubscriberStep(x, "in", "dropping") /\ (x = Collector => phase = "leaving")
  /\ seenlist' = [seenlist EXCEPT ![x] = subs[list[x]]]
  /\ UNCHANGED <<remote, runner, driver, list, subs, since, stream, report>>

\* Ids are unique: what drop() filters out is one entry.
Swapped(x) ==
  LET seen == seenlist[x]
  IN  IF sub[x] = "adding" THEN Append(seen, x)
      ELSE IF x \in Range(seen) THEN RemoveAt(seen, CHOOSE i \in DOMAIN seen : seen[i] = x)
      ELSE seen

(* The closure goes with the last list that has it; that of the collector
   owns the buffer, with the collector. *)
Subscribed(x) ==
  /\ subs' = [subs EXCEPT ![list[x]] = Swapped(x)]
  /\ seenlist' = [seenlist EXCEPT ![x] = <<>>]
  /\ IF sub[x] = "adding"
     THEN /\ SubscriberStep(x, "adding", "in")
          /\ since' = [since EXCEPT ![x] = [e \in Emitters |-> at[e].n]]
          /\ UNCHANGED <<heard, buffer>>
     ELSE /\ SubscriberStep(x, "dropping", "gone")
          /\ since' = [since EXCEPT ![x] = [e \in Emitters |-> 0]]
          /\ heard' = [heard EXCEPT ![x] = <<>>]
          /\ buffer' = IF x = Collector THEN <<>> ELSE buffer
  /\ UNCHANGED <<remote, runner, driver, list, output, at, report>>

(* Mutant: the new list is stored whatever has happened to the old one. *)
SwapBlindly(x) ==
  /\ sub[x] \in {"adding", "dropping"}
  /\ Subscribed(x)

Swap(x) ==
  /\ sub[x] \in {"adding", "dropping"}
  /\ IF subs[list[x]] = seenlist[x]
     THEN Subscribed(x)
     ELSE /\ seenlist' = [seenlist EXCEPT ![x] = subs[list[x]]]
          /\ UNCHANGED <<remote, runner, driver, list, sub, subs, since, stream, report>>

-----------------------------------------------------------------------------
(* Emitters: the pump task of each stream, and the manager *)

Busy(e) == at[e].level > 0

(* The driver writes a line. *)
Writes(s, line) ==
  /\ managed /\ driver = "running" /\ Len(output[s]) < MaxLines
  /\ output' = [output EXCEPT ![s] = Append(@, line)]
  /\ UNCHANGED <<remote, runner, driver, pubsub, at, heard, buffer, report>>

(* spawn_pump: the next line is there, and dispatch() loads the first list.
   Once the process was shut down the pump is aborted, or sees the flag, no
   later than after the line it is at. *)
Read(s) ==
  /\ managed /\ ~Busy(s) /\ at[s].n < Len(output[s])
  /\ driver = "running"
  /\ at' = [at EXCEPT ![s] = [n |-> @.n + 1, level |-> 1, todo |-> subs[Lists(s)[1]]]]
  /\ UNCHANGED <<remote, runner, driver, pubsub, output, heard, buffer, report>>

(* One closure is called; that of the collector pushes the line.  One that was
   removed after the snapshot is still called: nobody looks at what it does. *)
CallNext(e) ==
  /\ Busy(e) /\ at[e].todo # <<>>
  /\ LET x == Head(at[e].todo)
     IN  /\ heard' = IF sub[x] = "gone" THEN heard ELSE [heard EXCEPT ![x] = Append(@, <<e, at[e].n>>)]
         /\ buffer' = IF x = Collector /\ sub[x] # "gone" THEN Push(buffer, output[e][at[e].n], ProcessLimits) ELSE buffer
  /\ at' = [at EXCEPT ![e].todo = Tail(@)]
  /\ UNCHANGED <<remote, runner, driver, pubsub, output, report>>

(* The end of a list: the next one is loaded, or the item is done. *)
NextList(e) ==
  /\ Busy(e) /\ at[e].todo = <<>>
  /\ at' = IF at[e].level < Len(Lists(e))
           THEN [at EXCEPT ![e] = [n |-> @.n, level |-> @.level + 1, todo |-> subs[Lists(e)[@.level + 1]]]]
           ELSE [at EXCEPT ![e].level = 0]
  /\ UNCHANGED <<remote, runner, driver, pubsub, output, heard, buffer, report>>

(* emit(), in the task that runs the test, which goes on after the last call. *)
Emit(status) ==
  IF managed
  THEN /\ output' = [output EXCEPT !["manager"] = Append(@, status)]
       /\ at' = [at EXCEPT !["manager"] = [n |-> @.n + 1, level |-> 1, todo |-> subs["status"]]]
       /\ UNCHANGED <<heard, buffer>>
  ELSE UNCHANGED stream

-----------------------------------------------------------------------------
(* The run *)

Goes(from, to) == phase = from /\ ~Busy("manager") /\ phase' = to

Fault == faults < MaxFaults /\ faults' = faults + 1

(* launch(), or connect(), up to start_session. *)
Start ==
  /\ Goes("start", "request")
  /\ Emit("SessionStarting")
  /\ UNCHANGED <<remote, quitCell, body, cleanup, result, driver, pubsub, report>>

(* New Session is answered. *)
Created ==
  /\ Goes("request", "timeouts")
  /\ \E s \in Sessions \ sessions :
       sessions' = sessions \cup {s} /\ mine' = s
  /\ attempt' = attempt + 1
  /\ UNCHANGED <<managed, lost, faults, quitCell, body, cleanup, result, driver, pubsub, stream, report>>

(* A New Session whose answer is not had may have made a session. *)
Orphan ==
  \E made \in {{}} \cup {{s} : s \in Sessions \ sessions} :
    sessions' = sessions \cup made /\ lost' = lost \cup made

(* New Session is answered with an error.  The first 500 is tried again. *)
NotCreated(status) ==
  /\ Goes("request", IF status = 500 /\ attempt = 0 THEN "request" ELSE "failed")
  /\ Fault
  /\ attempt' = attempt + 1
  /\ Orphan
  /\ UNCHANGED <<managed, mine, quitCell, body, cleanup, result, driver, pubsub, stream, report>>

(* SetTimeouts; after an error nobody has the session's id. *)
TimeoutsSet ==
  /\ Goes("timeouts", "body")
  /\ Emit("SessionStarted")
  /\ UNCHANGED <<remote, quitCell, body, cleanup, result, driver, pubsub, report>>

TimeoutsErr ==
  /\ Goes("timeouts", "failed")
  /\ Fault
  /\ UNCHANGED <<managed, sessions, mine, lost, attempt, quitCell, body, cleanup, result, driver, pubsub, stream, report>>

(* launch() gives up, and with it goes the process. *)
SetupFailed ==
  /\ Goes("failed", "done")
  /\ result' = IF result = "none" THEN "setup" ELSE result
  /\ driver' = IF managed THEN "killed" ELSE driver
  /\ Emit("DriverShutdown")
  /\ UNCHANGED <<remote, quitCell, body, cleanup, pubsub, report>>

Quiet == sub[Collector] \notin {"adding", "dropping"}

(* capture(): every field is asked for, whatever became of the one before;
   the last is the buffer of process logs. *)
Capture(ok) ==
  /\ phase = "body" /\ Quiet /\ report.next < Len(Fields)
  /\ \/ (ok <=> ~quitCell) /\ UNCHANGED faults
     \/ ~ok /\ ~quitCell /\ Fault
  /\ LET field == Fields[report.next + 1]
         next  == [report EXCEPT !.next = @ + 1, !.failed = IF ok THEN @ ELSE @ \cup {field},
                     !.process = IF field = "browser_logs" /\ sub[Collector] = "in" THEN buffer ELSE @]
     IN  IF ok /\ field = "source"
         THEN \E page \in Pages : report' = [next EXCEPT !.source = TruncateMiddle(page, SourceMax), !.original = page]
         ELSE IF ok /\ field = "browser_logs"
         THEN \E log \in BrowserLogs : report' = [next EXCEPT !.browser = BoundBrowserLogs(log, BrowserLimits), !.entries = log]
         ELSE report' = next
  /\ UNCHANGED <<managed, sessions, mine, lost, attempt, runner, driver, pubsub, stream>>

(* The body returns, or panics; then its future is dropped, and the collector. *)
BodyEnds(outcome) ==
  /\ Goes("body", "leaving") /\ Quiet
  /\ body' = outcome
  /\ UNCHANGED <<remote, quitCell, cleanup, result, driver, pubsub, stream, report>>

Left ==
  /\ Goes("leaving", IF result = "cancelled" THEN "drop" ELSE "quit")
  /\ sub[Collector] \in {"out", "gone"}
  /\ report' = NoReport
  /\ UNCHANGED <<remote, quitCell, body, cleanup, result, driver, pubsub, stream>>

(* quit() sends DELETE, unless quit() has succeeded before, and then shuts the
   driver down; an error of the shutdown, whose process is killed all the same
   when it is dropped, is the error of quit().  In the body it is a call of the
   test's own. *)
QuitRun ==
  /\ \/ Goes("body", "body") /\ ~quitCell /\ UNCHANGED <<cleanup, faults>>
     \/ Goes("quit", "drop") /\ cleanup' = "ok" /\ UNCHANGED faults
     \/ Goes("quit", "drop") /\ cleanup' = "err" /\ managed /\ driver = "running" /\ Fault
  /\ Quiet
  /\ quitCell' = TRUE
  /\ sessions' = IF quitCell THEN sessions ELSE sessions \ {mine}
  /\ IF managed /\ driver = "running"
     THEN driver' = "killed" /\ Emit("DriverShutdown")
     ELSE UNCHANGED <<driver, stream>>
  /\ UNCHANGED <<managed, mine, lost, attempt, body, result, pubsub, report>>

(* DELETE fails, or the client panics. *)
QuitFails(outcome) ==
  /\ Goes("quit", "drop") /\ ~quitCell
  /\ Fault
  /\ cleanup' = outcome
  /\ UNCHANGED <<managed, sessions, mine, lost, attempt, quitCell, body, result, driver, pubsub, stream, report>>

(* The future of the run is dropped. *)
CancelRun ==
  /\ Goes(phase, CASE phase \in {"request", "timeouts"} -> "failed"
                [] phase = "body" -> "leaving"
                [] OTHER -> "drop")
  /\ phase \in {"request", "timeouts", "body", "quit"} /\ Quiet
  /\ result' = "cancelled"
  /\ IF phase = "request" THEN Orphan ELSE UNCHANGED <<sessions, lost>>
  /\ UNCHANGED <<managed, mine, attempt, faults, quitCell, body, cleanup, driver, pubsub, stream, report>>

(* The Drop of the session's handle tries DELETE once more if it has to, and
   logs an error; then it drops the SessionGuard. *)
DropHandle ==
  /\ Goes("drop", "guard")
  /\ \/ sessions' = (IF quitCell THEN sessions ELSE sessions \ {mine}) /\ UNCHANGED faults
     \/ ~quitCell /\ Fault /\ UNCHANGED sessions
  /\ Emit("SessionEnded")
  /\ UNCHANGED <<managed, mine, lost, attempt, quitCell, body, cleanup, result, driver, pubsub, report>>

(* Mutant: an error of the cleanup stands for the whole. *)
OutcomeCleanupFirst ==
  CASE cleanup = "panic"                 -> "panic"
    [] cleanup = "err"                   -> "cleanup"
    [] body = "panic"                    -> "panic"
    [] body = "ok"                       -> "ok"
    [] OTHER                             -> "body"

(* run_and_quit, and run_browser_test after it. *)
Outcome ==
  IF body = "panic" THEN "panic"
  ELSE IF cleanup = "panic" THEN "cleanup_panic"
  ELSE IF body = "ok" THEN IF cleanup = "ok" THEN "ok" ELSE "cleanup"
  ELSE IF cleanup = "ok" THEN "body" ELSE "body_and_cleanup"

(* The guard drops the process, if quit() has not taken it, and the run returns. *)
Done ==
  /\ Goes("guard", "done")
  /\ IF managed /\ driver = "running"
     THEN driver' = "killed" /\ Emit("DriverShutdown")
     ELSE UNCHANGED <<driver, stream>>
  /\ result' = IF result = "none" THEN Outcome ELSE result
  /\ UNCHANGED <<remote, quitCell, body, cleanup, pubsub, report>>

-----------------------------------------------------------------------------

Subscriber(x) == Load(x) \/ Swap(x)

Emitter(e) == CallNext(e) \/ NextList(e)

Setup == Start \/ Created \/ NotCreated(500) \/ NotCreated(404) \/ TimeoutsSet \/ TimeoutsErr \/ SetupFailed

Run == \/ \E ok \in BOOLEAN : Capture(ok)
       \/ \E outcome \in {"ok", "err", "panic"} : BodyEnds(outcome)
       \/ Left \/ QuitRun
       \/ \E outcome \in {"err", "panic"} : QuitFails(outcome)
       \/ CancelRun \/ DropHandle \/ Done

RunNext ==
  \/ \E x \in Listeners : Subscriber(x)
  \/ \E s \in Streams : Read(s) \/ \E line \in Lines : Writes(s, line)
  \/ \E e \in Emitters : Emitter(e)
  \/ Setup \/ Run

RunSpec == RunInit /\ [][RunNext]_runVars

-----------------------------------------------------------------------------
(* Properties *)

(* runner.rs:66-75 and web_driver.rs: what goes wrong is reported.  An "ok"
   means that the body succeeded and its session is gone; an error and a panic
   of the body come before those of the cleanup, which are not lost either; a
   session is left behind only by a run that fails, or by a New Session that
   was answered with an error. *)
FailureIsReported ==
  phase = "done" =>
    /\ result = "ok" => body = "ok" /\ mine \notin sessions
    /\ body = "err" => result \in {"body", "body_and_cleanup", "cleanup_panic", "cancelled"}
    /\ body = "panic" => result \in {"panic", "cancelled"}
    /\ cleanup # "ok" => result \notin {"ok", "body"}
    /\ mine \in sessions => result \notin {"ok", "body"}
    /\ sessions \ {mine} \subseteq lost

(* A subscription that was handed out is called with every item that is taken
   from then on, of each stream in order, however many others come and go; one
   that was dropped is on no list. *)
SubscribedHears ==
  \A x \in Listeners :
    /\ sub[x] = "in" => \A e \in Emitters :
         list[x] \in Range(Lists(e)) =>
           \A n \in since[x][e] + 1 .. at[e].n - (IF Busy(e) THEN 1 ELSE 0) : <<e, n>> \in Range(heard[x])
    /\ sub[x] = "gone" => x \notin Range(subs[list[x]])
    /\ \A i, j \in DOMAIN heard[x] : i < j /\ heard[x][i][1] = heard[x][j][1] => heard[x][i][2] < heard[x][j][2]

(* The newest of the lines, as many of them as the limits allow. *)
Newest(lines, limits) ==
  LET last(k) == SubSeq(lines, Len(lines) - k + 1, Len(lines))
      fits    == {k \in 0 .. Len(lines) : /\ k <= limits.max_entries
                                          /\ k > 0 => limits.max_total_text_bytes > 0
                                          /\ Total(last(k)) <= limits.max_total_text_bytes}
  IN  last(CHOOSE k \in fits : \A j \in fits : j <= k)

\* The lines that the collector was called with, as it keeps them.
LinesHeard ==
  [i \in DOMAIN heard[Collector] |-> Cut(output[heard[Collector][i][1]][heard[Collector][i][2]], ProcessLimits)]

(* The collector's buffer is what it promises: the newest of the lines that
   the driver wrote, as many of them as the limits allow. *)
KeepsNewest == buffer = Newest(LinesHeard, ProcessLimits)

(* What is kept of an entry: its texts, cut at their ends if at all. *)
IsExcerpt(part, entry) ==
  /\ IsPrefix(part[1], entry[1]) /\ IsPrefix(part[3], entry[3])
  /\ IF entry[2] = None THEN part[2] = None ELSE IsPrefix(part[2], entry[2])

(* LogLimits (artifacts.rs:42-54) for the browser's log.  What is kept is an
   excerpt of each of the newest entries, in their order; an older one is left
   out only when the number or the bytes of the newer ones reach their limit;
   no entry and not all of them together are over theirs; and a message, the
   part that "normally carries the useful failure detail" (artifacts.rs:373),
   is whole whenever its entry fits in what its own limit and the newer ones
   leave.  The level and the source are not: they are cut to an eighth of
   that. *)
IsNewestOf(kept, entries, limits) ==
  LET room(i) == Least(limits.max_entry_text_bytes,
                       limits.max_total_text_bytes - LogBytes(SubSeq(kept, i + 1, Len(kept))))
      of(i)   == entries[Len(entries) - Len(kept) + i]
  IN  /\ Len(kept) <= Len(entries) /\ Len(kept) <= limits.max_entries
      /\ LogBytes(kept) <= limits.max_total_text_bytes
      /\ Len(kept) < Len(entries) => Len(kept) = limits.max_entries \/ LogBytes(kept) = limits.max_total_text_bytes
      /\ \A i \in DOMAIN kept :
           /\ Total(Texts(kept[i])) <= limits.max_entry_text_bytes
           /\ IsExcerpt(kept[i], of(i))
           /\ Total(Texts(of(i))) <= room(i) => kept[i][3] = of(i)[3]

(* The excerpt of the source stays within its limit and is whole when it fits;
   the browser's log is the newest of its entries. *)
ReportIsBounded ==
  /\ Bytes(report.source) <= SourceMax
  /\ Bytes(report.original) <= SourceMax => report.source = report.original
  /\ IsNewestOf(report.browser, report.entries, BrowserLimits)

(* The types, and what a failure's report is made from: the newest of what the
   driver and the browser logged, as much of it as the limits of the collector
   allow, whoever logged, in whatever order. *)
EvidenceIsKept == RunTypeOK /\ KeepsNewest /\ ReportIsBounded

=============================================================================
