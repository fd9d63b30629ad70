----------------------------- MODULE DriverCache -----------------------------
(***************************************************************************)
(* One entry of the driver cache on disk and the tasks that want it:       *)
(* ensure_driver, fetch_bytes_with_retry and extract_zip or                *)
(* extract_geckodriver_tar_gz (thirtyfour/src/manager/download.rs).        *)
(*                                                                         *)
(* A task looks for the binary, takes a file lock if there is none, looks  *)
(* again, downloads with up to three attempts, extracts in place and makes *)
(* the file executable.  The lock is an OS lock that is waited for without *)
(* awaiting, so a task that waits for it holds its executor thread; so do  *)
(* the two steps of an extraction.  Tasks are launches of one process, or  *)
(* of several that share the cache directory.                              *)
(***************************************************************************)
EXTENDS Naturals

CONSTANTS
  Tasks,
  NoTask,
  Offline,         \* the tasks whose manager is offline
  SharedExecutor   \* do all tasks run on one executor thread?

ASSUME NoTaskAssumption == NoTask \notin Tasks
ASSUME OfflineAssumption == Offline \subseteq Tasks
ASSUME SharedExecutorAssumption == SharedExecutor \in BOOLEAN

VARIABLES
  at,        \* where each task is in ensure_driver
  attempt,   \* its attempts at the download so far
  lock,      \* who has locked the lock file
  file,      \* the binary in the cache: "whole" still lacks its mode
  got        \* what ensure_driver last returned to each task

cacheVars == <<at, attempt, lock, file, got>>

MaxAttempts == 3

Blocking == {"flock", "create", "copy"}
Locked   == {"fetch", "backoff", "create", "copy", "chmod"}

CacheTypeOK ==
  /\ at      \in [Tasks -> {"idle", "look", "open"} \cup Blocking \cup Locked]
  /\ attempt \in [Tasks -> 0 .. MaxAttempts]
  /\ lock    \in Tasks \cup {NoTask}
  /\ file    \in {"none", "partial", "whole", "ready"}
  /\ got     \in [Tasks -> {"nothing", "path", "error"}]

CacheInit ==
  /\ at      = [t \in Tasks |-> "idle"]
  /\ attempt = [t \in Tasks |-> 0]
  /\ lock    = NoTask
  /\ file    = "none"
  /\ got     = [t \in Tasks |-> "nothing"]

-----------------------------------------------------------------------------

(* A task runs unless another one holds the thread they share. *)
Runs(t) == SharedExecutor => \A u \in Tasks \ {t} : at[u] \notin Blocking

Go(t, to) == at' = [at EXCEPT ![t] = to]

(* Mutant: only an explicit unlock at the very end lets go of the lock. *)
FreeNever(t) == UNCHANGED lock

Free(t) == lock' = IF lock = t THEN NoTask ELSE lock

(* The end of ensure_driver; the lock file is closed with it. *)
Return(t, result) ==
  /\ Go(t, "idle")
  /\ Free(t)
  /\ attempt' = [attempt EXCEPT ![t] = 0]
  /\ got' = [got EXCEPT ![t] = result]

(* launch() gets to the cache, or fails to resolve a version before that. *)
Ensure(t) ==
  /\ at[t] = "idle" /\ Runs(t)
  /\ Go(t, "look")
  /\ got' = [got EXCEPT ![t] = "nothing"]
  /\ UNCHANGED <<attempt, lock, file>>

(* The first look, without the lock. *)
Look(t) ==
  /\ at[t] = "look" /\ Runs(t)
  /\ \/ file # "none" /\ Return(t, "path")
     \/ file = "none" /\ t \in Offline /\ Return(t, "error")
     \/ file = "none" /\ t \notin Offline /\ Go(t, "open") /\ UNCHANGED <<attempt, lock, got>>
  /\ UNCHANGED file

(* create_dir_all and File::create of the lock file. *)
Open(t) ==
  /\ at[t] = "open" /\ Runs(t)
  /\ \/ Go(t, "flock") /\ UNCHANGED <<attempt, lock, got>>
     \/ Return(t, "error")
  /\ UNCHANGED file

(* The lock is there, and the second look follows at once. *)
Lock(t) ==
  /\ at[t] = "flock" /\ lock = NoTask
  /\ \/ file # "none" /\ Return(t, "path")
     \/ /\ file = "none"
        /\ lock' = t
        /\ attempt' = [attempt EXCEPT ![t] = 1]
        /\ Go(t, "fetch")
        /\ UNCHANGED got
  /\ UNCHANGED file

(* One GET: the archive, an error that is not worth a retry, or a transient
   one, which the last attempt returns without sleeping. *)
Fetch(t) ==
  /\ at[t] = "fetch" /\ Runs(t)
  /\ \/ Go(t, "create") /\ UNCHANGED <<attempt, lock, got>>
     \/ Return(t, "error")
     \/ attempt[t] < MaxAttempts /\ Go(t, "backoff") /\ UNCHANGED <<attempt, lock, got>>
  /\ UNCHANGED file

(* tokio::time::sleep of 1 s, then 2 s *)
Backoff(t) ==
  /\ at[t] = "backoff" /\ Runs(t)
  /\ attempt' = [attempt EXCEPT ![t] = @ + 1]
  /\ Go(t, "fetch")
  /\ UNCHANGED <<lock, file, got>>

(* The archive holds no driver, or the file is created where it will stay. *)
Create(t) ==
  /\ at[t] = "create"
  /\ \/ Return(t, "error") /\ UNCHANGED file
     \/ file' = "partial" /\ Go(t, "copy") /\ UNCHANGED <<attempt, lock, got>>

(* Its contents are written, or an error leaves what was written.  A tar
   archive also brings the mode. *)
Copy(t) ==
  /\ at[t] = "copy"
  /\ \/ file' \in {"whole", "ready"} /\ Go(t, "chmod") /\ UNCHANGED <<attempt, lock, got>>
     \/ Return(t, "error") /\ UNCHANGED file

(* metadata() and set_permissions(0o755) *)
Chmod(t) ==
  /\ at[t] = "chmod" /\ Runs(t)
  /\ \/ file' = "ready" /\ Return(t, "path")
     \/ Return(t, "error") /\ UNCHANGED file

(* Mutant: what is dropped cleans up the binary, whoever has extracted it. *)
CancelCleansUp(t) ==
  /\ at[t] \in {"open", "fetch", "backoff", "chmod"} /\ Runs(t)
  /\ Return(t, "nothing")
  /\ file' = "none"

(* The future of launch() is dropped at one of its awaits. *)
Cancel(t) ==
  /\ at[t] \in {"open", "fetch", "backoff", "chmod"} /\ Runs(t)
  /\ Return(t, "nothing")
  /\ UNCHANGED file

(* The process dies.  The system closes its files, and so unlocks them. *)
Die(t) ==
  /\ ~SharedExecutor /\ at[t] # "idle"
  /\ Return(t, "nothing")
  /\ UNCHANGED file

-----------------------------------------------------------------------------

CacheStep(t) == Look(t) \/ Open(t) \/ Fetch(t) \/ Backoff(t) \/ Create(t) \/ Copy(t) \/ Chmod(t)

CacheNext == \E t \in Tasks : Ensure(t) \/ CacheStep(t) \/ Lock(t) \/ Cancel(t) \/ Die(t)

(* Ready tasks run, a request ends by its timeout, and the system gives a
   lock that is free again and again to everybody who waits for it. *)
CacheFairness == \A t \in Tasks : WF_cacheVars(CacheStep(t)) /\ SF_cacheVars(Lock(t))

CacheSpec     == CacheInit /\ [][CacheNext]_cacheVars
FairCacheSpec == CacheSpec /\ CacheFairness

-----------------------------------------------------------------------------
(* Properties *)

(* Nobody downloads a driver that is in the cache: who fetches does so with
   no file there, although it waited for the lock while others came and went. *)
NoSecondDownload ==
  \A t \in Tasks : at[t] \in {"fetch", "backoff", "create"} => file = "none"

(* The cache is filled by one task at a time, and once. *)
FilledOnce == CacheTypeOK /\ NoSecondDownload

(* A binary that is complete is never written to again, by anybody, through
   crashes, errors and cancellations: a driver that runs keeps its file. *)
ReadyStaysReady == [][file = "ready" => file' = "ready"]_cacheVars

(* What an installed driver is safe from, together: a second download, and a
   write under those who run it (download.rs:415-464). *)
CacheIsSafe == []FilledOnce /\ ReadyStaysReady

(* Every call of ensure_driver comes to its end when those that wait for the
   lock have threads or processes of their own (download.rs:426-433). *)
EnsureEnds == \A t \in Tasks : (at[t] # "idle") ~> (at[t] = "idle")

=============================================================================
