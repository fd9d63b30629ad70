--------------------------- MODULE SessionProofs ----------------------------
(***************************************************************************)
(* Proofs about the end of a session.  SessionQuit: its safety properties  *)
(* hold for any number of WebDrivers and handles, on one executor thread   *)
(* or several.  TestRun (whose names say Run where SessionQuit has the     *)
(* same one): who listens to the driver hears all of it, what goes wrong   *)
(* in a test is reported, and the evidence of it is the newest that its    *)
(* limits allow, for any number of subscriptions, lines, sessions and      *)
(* failures, and any limits.                                               *)
(***************************************************************************)
EXTENDS SessionQuit, TestRun, SequenceSums, SequenceTheorems, TLAPS

-----------------------------------------------------------------------------
(* Cloning and quitting: nothing is sent or released yet. *)

LEMMA CloneIInv ==
  ASSUME NEW d \in Drivers, NEW e \in Drivers, IInv, Clone(d, e) PROVE IInv'
<1> USE CellAssumption, NoHandleAssumption DEF IInv, Clone, Go, guardVars, historyVars
<1>1. TypeOK'
  BY DEF TypeOK
<1>2. CellIsHeld'
  BY DEF CellIsHeld, Deletes
<1>3. GuardIsHeld'
  BY DEF GuardIsHeld
<1>4. LastOnHandle'
  BY DEF LastOnHandle, TypeOK, Keep, ThreadPcs
<1>5. Accounted'
  BY DEF Accounted
<1>6. DriverOutlivesDelete'
  BY DEF DriverOutlivesDelete, Deletes
<1>7. NotSilentlyLost'
  BY DEF NotSilentlyLost
<1> QED
  BY <1>1, <1>2, <1>3, <1>4, <1>5, <1>6, <1>7

LEMMA CloneWithConfigIInv ==
  ASSUME NEW d \in Drivers, NEW e \in Drivers, NEW h \in Handles, IInv, CloneWithConfig(d, e, h) PROVE IInv'
<1> USE CellAssumption, NoHandleAssumption DEF IInv, CloneWithConfig, Go, guardVars, historyVars
<1>1. TypeOK'
  BY DEF TypeOK
<1>2. CellIsHeld'
  BY DEF CellIsHeld, Deletes
<1>3. GuardIsHeld'
  BY DEF GuardIsHeld
<1>4. LastOnHandle'
  BY DEF LastOnHandle, TypeOK, Keep
<1>5. Accounted'
  BY DEF Accounted
<1>6. DriverOutlivesDelete'
  BY DEF DriverOutlivesDelete, Deletes
<1>7. NotSilentlyLost'
  BY DEF NotSilentlyLost
<1> QED
  BY <1>1, <1>2, <1>3, <1>4, <1>5, <1>6, <1>7

LEMMA QuitIInv ==
  ASSUME NEW d \in Drivers, IInv, Quit(d) PROVE IInv'
<1> USE CellAssumption, NoHandleAssumption DEF IInv, Quit, Go, guardVars, historyVars
<1>1. TypeOK'
  BY DEF TypeOK
<1>2. CellIsHeld'
  BY DEF CellIsHeld, Deletes
<1>3. GuardIsHeld'
  BY DEF GuardIsHeld
<1>4. LastOnHandle'
  BY DEF LastOnHandle, Keep, ThreadPcs
<1>5. Accounted'
  BY DEF Accounted
<1>6. DriverOutlivesDelete'
  BY DEF DriverOutlivesDelete, Deletes
<1>7. NotSilentlyLost'
  BY DEF NotSilentlyLost
<1> QED
  BY <1>1, <1>2, <1>3, <1>4, <1>5, <1>6, <1>7

LEMMA LeakIInv ==
  ASSUME NEW d \in Drivers, IInv, Leak(d) PROVE IInv'
<1> USE CellAssumption, NoHandleAssumption DEF IInv, Leak, Go, guardVars, historyVars
<1>1. TypeOK'
  BY DEF TypeOK
<1>2. CellIsHeld'
  BY DEF CellIsHeld, Deletes
<1>3. GuardIsHeld'
  BY DEF GuardIsHeld
<1>4. LastOnHandle'
  BY DEF LastOnHandle, Keep, ThreadPcs
<1>5. Accounted'
  BY DEF Accounted
<1>6. DriverOutlivesDelete'
  BY DEF DriverOutlivesDelete, Deletes
<1>7. NotSilentlyLost'
  BY DEF NotSilentlyLost
<1> QED
  BY <1>1, <1>2, <1>3, <1>4, <1>5, <1>6, <1>7

-----------------------------------------------------------------------------
(* The OnceCell and the DELETE under it. *)

LEMMA EnterCellIInv ==
  ASSUME NEW d \in Drivers, IInv, EnterCell(d) PROVE IInv'
<1> USE CellAssumption, NoHandleAssumption DEF IInv, EnterCell, Go, guardVars, historyVars
<1>1. TypeOK'
  BY DEF TypeOK, ThreadPcs
<1>2. CellIsHeld'
  BY DEF CellIsHeld, TypeOK, Deletes
<1>3. GuardIsHeld'
  BY DEF GuardIsHeld, TypeOK
<1>4. LastOnHandle'
  BY DEF LastOnHandle, TypeOK, Keep, ThreadPcs
<1>5. Accounted'
  BY DEF Accounted, TypeOK
<1>6. DriverOutlivesDelete'
  BY DEF DriverOutlivesDelete, TypeOK, Deletes
<1>7. NotSilentlyLost'
  BY DEF NotSilentlyLost, TypeOK
<1> QED
  BY <1>1, <1>2, <1>3, <1>4, <1>5, <1>6, <1>7

LEMMA DeleteOkIInv ==
  ASSUME NEW d \in Drivers, IInv, DeleteOk(d) PROVE IInv'
<1> USE CellAssumption, NoHandleAssumption DEF IInv, DeleteOk, Go, guardVars, historyVars
<1>1. TypeOK'
  BY DEF TypeOK, Deletes
<1>2. CellIsHeld'
  BY DEF CellIsHeld, TypeOK, Deletes
<1>3. GuardIsHeld'
  BY DEF GuardIsHeld
<1>4. LastOnHandle'
  <2>1. \A h : Keep(h)' = Keep(h)
    BY DEF Keep, Deletes
  <2>2. \A e \in Drivers : pc'[e] \in ThreadPcs \cup {"drop_guard"} => pc[e] \in ThreadPcs \cup {"drop_guard"}
    BY DEF Deletes, ThreadPcs
  <2> QED
    BY <2>1, <2>2 DEF LastOnHandle
<1>5. Accounted'
  BY DEF Accounted
<1>6. DriverOutlivesDelete'
  BY DEF DriverOutlivesDelete
<1>7. NotSilentlyLost'
  BY DEF NotSilentlyLost
<1> QED
  BY <1>1, <1>2, <1>3, <1>4, <1>5, <1>6, <1>7

LEMMA DeleteErrIInv ==
  ASSUME NEW d \in Drivers, IInv, DeleteErr(d) PROVE IInv'
<1> USE CellAssumption, NoHandleAssumption DEF IInv, DeleteErr, Go, guardVars, historyVars
<1>1. TypeOK'
  BY DEF TypeOK, Deletes
<1>2. CellIsHeld'
  BY DEF CellIsHeld, TypeOK, Deletes
<1>3. GuardIsHeld'
  BY DEF GuardIsHeld
<1>4. LastOnHandle'
  <2>1. \A h : Keep(h)' = Keep(h)
    BY DEF Keep, Deletes
  <2>2. \A e \in Drivers : pc'[e] \in ThreadPcs \cup {"drop_guard"} => pc[e] \in ThreadPcs \cup {"drop_guard"}
    BY DEF Deletes, ThreadPcs
  <2> QED
    BY <2>1, <2>2 DEF LastOnHandle
<1>5. Accounted'
  BY DEF Accounted
<1>6. DriverOutlivesDelete'
  BY DEF DriverOutlivesDelete
<1>7. NotSilentlyLost'
  BY DEF NotSilentlyLost
<1> QED
  BY <1>1, <1>2, <1>3, <1>4, <1>5, <1>6, <1>7

LEMMA CancelIInv ==
  ASSUME NEW d \in Drivers, IInv, Cancel(d) PROVE IInv'
<1> USE CellAssumption, NoHandleAssumption DEF IInv, Cancel, Go, guardVars, historyVars
<1>1. TypeOK'
  BY DEF TypeOK
<1>2. CellIsHeld'
  BY DEF CellIsHeld, TypeOK, Deletes
<1>3. GuardIsHeld'
  BY DEF GuardIsHeld
<1>4. LastOnHandle'
  BY DEF LastOnHandle, Keep, ThreadPcs
<1>5. Accounted'
  BY DEF Accounted, CellIsHeld, Deletes
<1>6. DriverOutlivesDelete'
  BY DEF DriverOutlivesDelete, Deletes
<1>7. NotSilentlyLost'
  BY DEF NotSilentlyLost
<1> QED
  BY <1>1, <1>2, <1>3, <1>4, <1>5, <1>6, <1>7

-----------------------------------------------------------------------------
(* The release of the guard, and the drops. *)

LEMMA ReleaseIInv ==
  ASSUME NEW d \in Drivers, IInv, Release(d) PROVE IInv'
<1> USE CellAssumption, NoHandleAssumption DEF IInv, Release, Go, guardVars, historyVars
<1>1. TypeOK'
  <2>1. CASE lease
    BY <2>1 DEF TypeOK, ThreadPcs
  <2>2. CASE ~lease
    BY <2>2 DEF TypeOK, ThreadPcs
  <2> QED
    BY <2>1, <2>2
<1>2. CellIsHeld'
  BY DEF CellIsHeld, TypeOK, Deletes
<1>3. GuardIsHeld'
  BY DEF GuardIsHeld
<1>4. LastOnHandle'
  BY DEF LastOnHandle, TypeOK, Keep, ThreadPcs
<1>5. Accounted'
  BY DEF Accounted, CellIsHeld
<1>6. DriverOutlivesDelete'
  BY DEF DriverOutlivesDelete, TypeOK, CellIsHeld, Deletes
<1>7. NotSilentlyLost'
  BY DEF NotSilentlyLost, CellIsHeld, Accounted
<1> QED
  BY <1>1, <1>2, <1>3, <1>4, <1>5, <1>6, <1>7

LEMMA ShutdownIInv ==
  ASSUME NEW d \in Drivers, IInv, Shutdown(d) PROVE IInv'
<1> USE CellAssumption, NoHandleAssumption DEF IInv, Shutdown, Go, guardVars, historyVars
<1>1. TypeOK'
  BY DEF TypeOK
<1>2. CellIsHeld'
  BY DEF CellIsHeld, Deletes
<1>3. GuardIsHeld'
  BY DEF GuardIsHeld
<1>4. LastOnHandle'
  BY DEF LastOnHandle, Keep, ThreadPcs
<1>5. Accounted'
  BY DEF Accounted
<1>6. DriverOutlivesDelete'
  BY DEF DriverOutlivesDelete, Deletes
<1>7. NotSilentlyLost'
  BY DEF NotSilentlyLost
<1> QED
  BY <1>1, <1>2, <1>3, <1>4, <1>5, <1>6, <1>7

LEMMA DropDriverIInv ==
  ASSUME NEW d \in Drivers, IInv, DropDriver(d) PROVE IInv'
<1> USE CellAssumption, NoHandleAssumption DEF IInv, DropDriver, Go, guardVars, historyVars
<1>1. TypeOK'
  BY DEF TypeOK, ThreadPcs
<1>2. CellIsHeld'
  BY DEF CellIsHeld, TypeOK, Deletes
<1>3. GuardIsHeld'
  BY DEF GuardIsHeld, TypeOK, Keep
<1>4. LastOnHandle'
  BY DEF LastOnHandle, TypeOK, Keep, ThreadPcs
<1>5. Accounted'
  BY DEF Accounted, TypeOK
<1>6. DriverOutlivesDelete'
  BY DEF DriverOutlivesDelete, TypeOK, Deletes
<1>7. NotSilentlyLost'
  BY DEF NotSilentlyLost, TypeOK, Keep
<1> QED
  BY <1>1, <1>2, <1>3, <1>4, <1>5, <1>6, <1>7

LEMMA DropGuardIInv ==
  ASSUME NEW d \in Drivers, IInv, DropGuard(d) PROVE IInv'
<1> USE CellAssumption, NoHandleAssumption DEF IInv, DropGuard, Go, guardVars, historyVars
<1>1. TypeOK'
  BY DEF TypeOK
<1>2. CellIsHeld'
  BY DEF CellIsHeld, Deletes
<1>3. GuardIsHeld'
  BY DEF GuardIsHeld, Keep
<1>4. LastOnHandle'
  BY DEF LastOnHandle, Keep, ThreadPcs
<1>5. Accounted'
  BY DEF Accounted
<1>6. DriverOutlivesDelete'
  BY DEF DriverOutlivesDelete, TypeOK, Deletes, LastOnHandle, Keep
<1>7. NotSilentlyLost'
  BY DEF NotSilentlyLost, Accounted
<1> QED
  BY <1>1, <1>2, <1>3, <1>4, <1>5, <1>6, <1>7

LEMMA ReapIInv ==
  ASSUME IInv, Reap PROVE IInv'
<1> USE CellAssumption, NoHandleAssumption DEF IInv, Reap, Go, guardVars, historyVars
<1>1. TypeOK'
  BY DEF TypeOK
<1>2. CellIsHeld'
  BY DEF CellIsHeld, Deletes
<1>3. GuardIsHeld'
  BY DEF GuardIsHeld
<1>4. LastOnHandle'
  BY DEF LastOnHandle, Keep
<1>5. Accounted'
  BY DEF Accounted
<1>6. DriverOutlivesDelete'
  BY DEF DriverOutlivesDelete, Deletes
<1>7. NotSilentlyLost'
  BY DEF NotSilentlyLost
<1> QED
  BY <1>1, <1>2, <1>3, <1>4, <1>5, <1>6, <1>7

-----------------------------------------------------------------------------
(* The theorems. *)

LEMMA InitIInv == Init => IInv
<1> SUFFICES ASSUME Init PROVE IInv
  OBVIOUS
<1> PICK d \in Drivers, h \in Handles :
      /\ of = [e \in Drivers |-> IF e = d THEN h ELSE NoHandle]
      /\ pc = [e \in Drivers |-> IF e = d THEN "held" ELSE "none"]
  BY DEF Init
<1> USE CellAssumption, NoHandleAssumption DEF Init
<1>1. TypeOK
  BY DEF TypeOK
<1>2. CellIsHeld /\ DriverOutlivesDelete
  BY DEF CellIsHeld, DriverOutlivesDelete, Deletes
<1>3. GuardIsHeld /\ LastOnHandle /\ Accounted /\ NotSilentlyLost
  BY DEF GuardIsHeld, LastOnHandle, ThreadPcs, Accounted, NotSilentlyLost
<1> QED
  BY <1>1, <1>2, <1>3 DEF IInv

LEMMA StutterIInv == IInv /\ UNCHANGED vars => IInv'
<1> SUFFICES ASSUME IInv, UNCHANGED vars PROVE IInv'
  OBVIOUS
<1> USE DEF IInv, vars
<1>1. (TypeOK /\ CellIsHeld /\ GuardIsHeld)'
  BY DEF TypeOK, CellIsHeld, GuardIsHeld, Deletes
<1>2. (LastOnHandle /\ Accounted)'
  BY DEF LastOnHandle, Keep, Accounted
<1>3. (DriverOutlivesDelete /\ NotSilentlyLost)'
  BY DEF DriverOutlivesDelete, Deletes, NotSilentlyLost
<1> QED
  BY <1>1, <1>2, <1>3

(* The invariant holds of every behaviour, whoever quits, fails, is cancelled,
   leaks or is dropped, and in whatever order. *)
THEOREM Inductive == Spec => []IInv
<1>1. IInv /\ [Next]_vars => IInv'
  BY CloneIInv, CloneWithConfigIInv, QuitIInv, LeakIInv, EnterCellIInv, DeleteOkIInv, DeleteErrIInv,
     CancelIInv, ReleaseIInv, ShutdownIInv, DropDriverIInv, DropGuardIInv, ReapIInv, StutterIInv
  DEF Next, Step
<1> QED
  BY InitIInv, <1>1, PTL DEF Spec

(* Every variable has its type: in particular the guard holds only a process
   that has not been killed. *)
THEOREM TypeCorrect == Spec => []TypeOK
  BY Inductive, PTL DEF IInv

(* At most one DELETE /session is out, and none after the session was deleted
   or leaked. *)
THEOREM OneDeleteAtATime == Spec => []OneDelete
<1>1. IInv => OneDelete
  BY CellAssumption DEF IInv, CellIsHeld, OneDelete
<1> QED
  BY Inductive, <1>1, PTL

(* The driver process is not killed under a DELETE or before one that can
   still come. *)
THEOREM DriverOutlives == Spec => []DriverOutlivesDelete
  BY Inductive, PTL DEF IInv

(* A session that was not deleted was leaked, or its failure was reported. *)
THEOREM NothingIsSilentlyLost == Spec => []NotSilentlyLost
  BY Inductive, PTL DEF IInv

(* The last handle to go leaves no running driver process behind. *)
THEOREM NoDriverIsLeft == Spec => []DriverIsNotLeft
<1>1. IInv => DriverIsNotLeft
  BY DEF IInv, GuardIsHeld, DriverIsNotLeft
<1> QED
  BY Inductive, <1>1, PTL

(* handle.rs:1243-1342: after the last WebDriver, neither its session nor its
   driver process is left, but by leak() or with a report. *)
THEOREM NothingRemains == Spec => []NothingIsLeft
<1>1. TypeOK /\ NotSilentlyLost /\ DriverIsNotLeft => NothingIsLeft
  BY DEF NothingIsLeft
<1> QED
  BY <1>1, TypeCorrect, NothingIsSilentlyLost, NoDriverIsLeft, PTL

-----------------------------------------------------------------------------
(* Who is called with what *)

ListNames == {"status", "process", "manager"}

Heard(x, e, n) == <<e, n>> \in Range(heard[x])

\* The types of the lists, the emitters and what they call.
PubSubTypes ==
  /\ list \in [Listeners -> ListNames]
  /\ sub \in [Listeners -> {"out", "adding", "in", "dropping", "gone"}]
  /\ subs \in [ListNames -> Seq(Listeners)]
  /\ at \in [Emitters -> [n : Nat, level : 0 .. 2, todo : Seq(Listeners)]]
  /\ \A e \in Emitters : at[e].level <= Len(Lists(e))
  /\ heard \in [Listeners -> Seq(Emitters \X Nat)]
  /\ since \in [Listeners -> [Emitters -> Nat]]

Distinct(s) == \A i, j \in DOMAIN s : s[i] = s[j] => i = j

\* A subscription is on the list it is for, once, as long as it lasts.
Listed ==
  /\ \A x \in Listeners : sub[x] \in {"in", "dropping"} <=> x \in Range(subs[list[x]])
  /\ \A l \in ListNames : Distinct(subs[l])
  /\ \A l \in ListNames : \A x \in Range(subs[l]) : list[x] = l

\* An emitter has yet to call the rest of its snapshot with the item, each once.
CalledOnce ==
  \A e \in Emitters : Busy(e) =>
    /\ Distinct(at[e].todo)
    /\ \A x \in Range(at[e].todo) :
         list[x] = Lists(e)[at[e].level] /\ sub[x] \notin {"out", "adding"} /\ ~Heard(x, e, at[e].n)

Ordered(h) == \A i, j \in DOMAIN h : i < j /\ h[i][1] = h[j][1] => h[i][2] < h[j][2]

Taken(x, item) ==
  LET e == item[1] IN
  /\ item[2] <= at[e].n
  /\ Busy(e) /\ item[2] = at[e].n => \E l \in 1 .. at[e].level : list[x] = Lists(e)[l]

\* What was heard has been taken, in order, and an item that an emitter is at
\* only by the lists it has come to.
HeardIsTaken ==
  \A x \in Listeners :
    /\ heard[x] # <<>> => sub[x] \in {"in", "dropping"}
    /\ \A k \in DOMAIN heard[x] : Taken(x, heard[x][k])
    /\ Ordered(heard[x])

\* What was taken since the subscription was heard, the item that an emitter is
\* at unless its list is still to come or the closure is in the snapshot.
TakenIsHeard ==
  \A x \in Listeners, e \in Emitters : sub[x] = "in" =>
    /\ since[x][e] <= at[e].n
    /\ \A l \in DOMAIN Lists(e) : list[x] = Lists(e)[l] =>
         /\ \A n \in Nat : since[x][e] < n /\ n < at[e].n => Heard(x, e, n)
         /\ since[x][e] < at[e].n =>
              \/ Heard(x, e, at[e].n)
              \/ Busy(e) /\ (at[e].level < l \/ (at[e].level = l /\ x \in Range(at[e].todo)))

PubSubIInv == PubSubTypes /\ Listed /\ CalledOnce /\ HeardIsTaken /\ TakenIsHeard

-----------------------------------------------------------------------------

(* The lists of an emitter are one or two, and different. *)
LEMMA ListsAre ==
  ASSUME NEW e \in Emitters
  PROVE  /\ DOMAIN Lists(e) = 1 .. Len(Lists(e)) /\ Len(Lists(e)) \in {1, 2}
         /\ \A l \in DOMAIN Lists(e) : Lists(e)[l] \in ListNames
         /\ \A k, l \in DOMAIN Lists(e) : Lists(e)[k] = Lists(e)[l] => k = l
<1>1. CASE e = "manager"
  BY <1>1 DEF Lists, ListNames
<1>2. CASE e # "manager"
  BY <1>2 DEF Lists, ListNames
<1> QED
  BY <1>1, <1>2

\* A list with one more member.
IsLonger(r, s, x) ==
  /\ Range(r) = Range(s) \cup {x}
  /\ DOMAIN r = 1 .. Len(s) + 1 /\ DOMAIN s = 1 .. Len(s) /\ Len(s) \in Nat
  /\ \A i \in DOMAIN s : r[i] = s[i]
  /\ r[Len(s) + 1] = x

(* What Append adds to a list. *)
LEMMA Longer ==
  ASSUME NEW S, NEW s \in Seq(S), NEW x \in S
  PROVE  Append(s, x) \in Seq(S) /\ IsLonger(Append(s, x), s, x)
<1>1. /\ Append(s, x) \in Seq(S)
      /\ DOMAIN Append(s, x) = 1 .. Len(s) + 1 /\ DOMAIN s = 1 .. Len(s) /\ Len(s) \in Nat
      /\ \A i \in DOMAIN s : Append(s, x)[i] = s[i]
      /\ Append(s, x)[Len(s) + 1] = x
  OBVIOUS
<1>2. Range(Append(s, x)) = Range(s) \cup {x}
  BY <1>1 DEF Range
<1> QED
  BY <1>1, <1>2 DEF IsLonger

\* r is s without the member at p; a is what stands before p, b what stands after.
IsWithout(r, s, p) ==
  /\ DOMAIN r = 1 .. Len(s) - 1
  /\ \A i \in 1 .. Len(s) - 1 : r[i] = IF i < p THEN s[i] ELSE s[i + 1]

IsBefore(a, s, p) == Len(a) = p - 1 /\ \A i \in 1 .. p - 1 : a[i] = s[i]
IsAfter(b, s, p)  == Len(b) = Len(s) - p /\ \A i \in 1 .. Len(s) - p : b[i] = s[p + i]

LEMMA Around ==
  ASSUME NEW S, NEW s \in Seq(S), NEW p \in 1 .. Len(s), NEW a \in Seq(S), NEW b \in Seq(S), IsBefore(a, s, p), IsAfter(b, s, p)
  PROVE  a \o b \in Seq(S) /\ IsWithout(a \o b, s, p)
<1> USE DEF IsBefore, IsAfter
<1>1. /\ a \o b \in Seq(S) /\ Len(a \o b) = Len(a) + Len(b)
      /\ \A i \in 1 .. Len(a) + Len(b) : (a \o b)[i] = IF i <= Len(a) THEN a[i] ELSE b[i - Len(a)]
  BY ConcatProperties
<1>2. Len(a) + Len(b) = Len(s) - 1 /\ Len(s) \in Nat /\ DOMAIN (a \o b) = 1 .. Len(s) - 1
  BY <1>1
<1>3. ASSUME NEW i \in 1 .. Len(s) - 1 PROVE (a \o b)[i] = IF i < p THEN s[i] ELSE s[i + 1]
  <2>1. (a \o b)[i] = IF i <= p - 1 THEN a[i] ELSE b[i - (p - 1)]
    BY <1>1, <1>2
  <2>2. CASE i < p
    BY <2>1, <2>2
  <2>3. CASE i >= p
    <3>1. i - (p - 1) \in 1 .. Len(s) - p /\ p + (i - (p - 1)) = i + 1 /\ ~(i <= p - 1) /\ ~(i < p)
      BY <1>2, <2>3
    <3> QED
      BY <2>1, <3>1
  <2> QED
    BY <2>2, <2>3
<1> QED
  BY <1>1, <1>2, <1>3 DEF IsWithout

(* What stands before a position, and what after it. *)
LEMMA Before ==
  ASSUME NEW S, NEW s \in Seq(S), NEW p \in 1 .. Len(s)
  PROVE  SubSeq(s, 1, p - 1) \in Seq(S) /\ IsBefore(SubSeq(s, 1, p - 1), s, p)
<1>1. 1 \in Int /\ p - 1 \in Int /\ \A i \in 1 .. p - 1 : s[i] \in S
  OBVIOUS
<1>2. /\ SubSeq(s, 1, p - 1) \in Seq(S) /\ Len(SubSeq(s, 1, p - 1)) = (IF 1 <= p - 1 THEN p - 1 - 1 + 1 ELSE 0)
      /\ \A i \in 1 .. p - 1 - 1 + 1 : SubSeq(s, 1, p - 1)[i] = s[1 + i - 1]
  BY <1>1, SubSeqProperties
<1>3. p - 1 - 1 + 1 = p - 1 /\ (1 <= p - 1 \/ p - 1 = 0) /\ \A i \in 1 .. p - 1 : 1 + i - 1 = i
  OBVIOUS
<1> QED
  BY <1>2, <1>3 DEF IsBefore

LEMMA After ==
  ASSUME NEW S, NEW s \in Seq(S), NEW p \in 1 .. Len(s)
  PROVE  SubSeq(s, p + 1, Len(s)) \in Seq(S) /\ IsAfter(SubSeq(s, p + 1, Len(s)), s, p)
<1>1. p + 1 \in Int /\ Len(s) \in Int /\ \A i \in p + 1 .. Len(s) : s[i] \in S
  OBVIOUS
<1>2. /\ SubSeq(s, p + 1, Len(s)) \in Seq(S)
      /\ Len(SubSeq(s, p + 1, Len(s))) = (IF p + 1 <= Len(s) THEN Len(s) - (p + 1) + 1 ELSE 0)
      /\ \A i \in 1 .. Len(s) - (p + 1) + 1 : SubSeq(s, p + 1, Len(s))[i] = s[p + 1 + i - 1]
  BY <1>1, SubSeqProperties
<1>3. /\ Len(s) - (p + 1) + 1 = Len(s) - p /\ (p + 1 <= Len(s) \/ Len(s) - p = 0)
      /\ \A i \in 1 .. Len(s) - p : p + 1 + i - 1 = p + i
  OBVIOUS
<1> QED
  BY <1>2, <1>3 DEF IsAfter

(* A list without the member at a position. *)
LEMMA Without ==
  ASSUME NEW S, NEW s \in Seq(S), NEW p \in 1 .. Len(s)
  PROVE  RemoveAt(s, p) \in Seq(S) /\ IsWithout(RemoveAt(s, p), s, p)
  BY Before, After, Around DEF RemoveAt

(* What is left of a list of different members when one is taken out. *)
LEMMA TakenOut ==
  ASSUME NEW S, NEW s \in Seq(S), NEW p \in 1 .. Len(s), NEW r,
         IsWithout(r, s, p)
  PROVE  /\ \A x : x \in Range(r) => \E j \in DOMAIN s : x = s[j] /\ j # p
         /\ \A j \in DOMAIN s : j # p => s[j] \in Range(r)
         /\ Distinct(s) => Distinct(r)
<1> USE DEF IsWithout
<1>1. Len(s) \in Nat /\ DOMAIN s = 1 .. Len(s)
  OBVIOUS
<1>2. ASSUME NEW i \in DOMAIN r PROVE r[i] = s[IF i < p THEN i ELSE i + 1] /\ (IF i < p THEN i ELSE i + 1) \in DOMAIN s
  BY <1>1
<1>3. \A i \in DOMAIN r : (IF i < p THEN i ELSE i + 1) # p
  BY <1>1
<1>4. \A x : x \in Range(r) => \E j \in DOMAIN s : x = s[j] /\ j # p
  BY <1>2, <1>3 DEF Range
<1>5. \A j \in DOMAIN s : j # p => s[j] \in Range(r)
  <2> SUFFICES ASSUME NEW j \in DOMAIN s, j # p PROVE \E i \in DOMAIN r : r[i] = s[j]
    BY DEF Range
  <2>1. CASE j < p
    <3>1. j \in DOMAIN r
      BY <1>1, <2>1
    <3> QED
      BY <2>1, <3>1, <1>2
  <2>2. CASE j > p
    <3>1. j - 1 \in DOMAIN r /\ (j - 1) + 1 = j /\ ~(j - 1 < p)
      BY <1>1, <2>2
    <3> QED
      BY <3>1, <1>2
  <2> QED
    BY <1>1, <2>1, <2>2
<1>6. ASSUME NEW i \in DOMAIN r, NEW j \in DOMAIN r
      PROVE  \E k, l \in DOMAIN s : r[i] = s[k] /\ r[j] = s[l] /\ (k = l => i = j)
  <2> DEFINE k == IF i < p THEN i ELSE i + 1
             l == IF j < p THEN j ELSE j + 1
  <2>1. k = l => i = j
    BY <1>1
  <2> QED
    BY <2>1, <1>2
<1>7. Distinct(s) => Distinct(r)
  BY <1>6 DEF Distinct
<1> QED
  BY <1>4, <1>5, <1>7

(* A list of different members, without one of them. *)
LEMMA Dropped ==
  ASSUME NEW S, NEW s \in Seq(S), NEW x \in Range(s), Distinct(s),
         NEW r, r = RemoveAt(s, CHOOSE i \in DOMAIN s : s[i] = x)
  PROVE  r \in Seq(S) /\ Range(r) = Range(s) \ {x} /\ Distinct(r)
<1>1. PICK p \in DOMAIN s : s[p] = x /\ r = RemoveAt(s, p)
  BY DEF Range
<1>2. p \in 1 .. Len(s)
  OBVIOUS
<1>3. r \in Seq(S) /\ IsWithout(r, s, p)
  BY <1>1, <1>2, Without
<1>4. /\ \A y : y \in Range(r) => \E j \in DOMAIN s : y = s[j] /\ j # p
      /\ \A j \in DOMAIN s : j # p => s[j] \in Range(r)
      /\ Distinct(r)
  <2>1. \A y : y \in Range(r) => \E j \in DOMAIN s : y = s[j] /\ j # p
    BY <1>2, <1>3, TakenOut
  <2>2. \A j \in DOMAIN s : j # p => s[j] \in Range(r)
    BY <1>2, <1>3, TakenOut
  <2>3. Distinct(r)
    BY <1>2, <1>3, TakenOut
  <2> QED
    BY <2>1, <2>2, <2>3
<1>5. \A y \in Range(r) : y \in Range(s) /\ y # x
  <2> SUFFICES ASSUME NEW y \in Range(r) PROVE y \in Range(s) /\ y # x
    OBVIOUS
  <2>1. PICK j \in DOMAIN s : y = s[j] /\ j # p
    BY <1>4
  <2> QED
    BY <2>1, <1>1 DEF Range, Distinct
<1>6. \A y \in Range(s) : y # x => y \in Range(r)
  <2> SUFFICES ASSUME NEW y \in Range(s), y # x PROVE y \in Range(r)
    OBVIOUS
  <2>1. PICK j \in DOMAIN s : y = s[j]
    BY DEF Range
  <2> QED
    BY <2>1, <1>1, <1>4
<1> QED
  BY <1>3, <1>4, <1>5, <1>6

-----------------------------------------------------------------------------
(* Steps that change a subscription *)

(* Most steps touch none of this. *)
LEMMA PubSubSame ==
  ASSUME PubSubIInv, UNCHANGED <<list, sub, subs, since, at, heard>> PROVE PubSubIInv'
<1>1. PubSubTypes'
  BY DEF PubSubIInv, PubSubTypes
<1>2. Listed'
  BY DEF PubSubIInv, Listed
<1>3. CalledOnce'
  BY DEF PubSubIInv, CalledOnce, Heard, Busy
<1>4. HeardIsTaken'
  BY DEF PubSubIInv, HeardIsTaken, Taken, Busy
<1>5. TakenIsHeard'
  BY DEF PubSubIInv, TakenIsHeard, Heard, Busy
<1> QED
  BY <1>1, <1>2, <1>3, <1>4, <1>5 DEF PubSubIInv

LEMMA LoadOK ==
  ASSUME NEW x \in Listeners, PubSubIInv, Load(x) PROVE PubSubIInv'
<1> DEFINE to == IF sub[x] = "out" THEN "adding" ELSE "dropping"
<1>1. sub[x] \in {"out", "in"} /\ sub' = [sub EXCEPT ![x] = to]
  BY DEF Load, SubscriberStep
<1>2. UNCHANGED <<list, subs, since, at, heard>>
  BY DEF Load, stream
<1>3. PubSubTypes'
  BY <1>1, <1>2 DEF PubSubIInv, PubSubTypes
<1>4. Listed'
  BY <1>1, <1>2 DEF PubSubIInv, PubSubTypes, Listed
<1>5. CalledOnce'
  BY <1>1, <1>2 DEF PubSubIInv, PubSubTypes, CalledOnce, Heard, Busy
<1>6. HeardIsTaken'
  BY <1>1, <1>2 DEF PubSubIInv, PubSubTypes, HeardIsTaken, Taken, Busy
<1>7. TakenIsHeard'
  BY <1>1, <1>2 DEF PubSubIInv, PubSubTypes, TakenIsHeard, Heard, Busy
<1> QED
  BY <1>3, <1>4, <1>5, <1>6, <1>7 DEF PubSubIInv

LEMMA AddedOK ==
  ASSUME NEW x \in Listeners, PubSubIInv, Subscribed(x), sub[x] = "adding", subs[list[x]] = seenlist[x]
  PROVE  PubSubIInv'
<1> DEFINE old == subs[list[x]]
<1>1. /\ sub' = [sub EXCEPT ![x] = "in"]
      /\ subs' = [subs EXCEPT ![list[x]] = Append(old, x)]
      /\ since' = [since EXCEPT ![x] = [e \in Emitters |-> at[e].n]]
      /\ UNCHANGED <<list, at, heard>>
  BY DEF Subscribed, SubscriberStep, Swapped
<1>2. list[x] \in ListNames /\ old \in Seq(Listeners) /\ x \notin Range(old) /\ Distinct(old)
  BY DEF PubSubIInv, PubSubTypes, Listed
<1>3. /\ Range(Append(old, x)) = Range(old) \cup {x} /\ Append(old, x) \in Seq(Listeners)
      /\ DOMAIN Append(old, x) = 1 .. Len(old) + 1 /\ DOMAIN old = 1 .. Len(old) /\ Len(old) \in Nat
      /\ \A i \in DOMAIN old : Append(old, x)[i] = old[i]
      /\ Append(old, x)[Len(old) + 1] = x
  BY <1>2, Longer DEF IsLonger
<1>4. Distinct(Append(old, x))
  <2>1. \A i \in DOMAIN old : old[i] # x
    BY <1>2 DEF Range
  <2>2. \A i \in DOMAIN Append(old, x) : i \in DOMAIN old \/ i = Len(old) + 1
    BY <1>3
  <2> QED
    BY <1>2, <1>3, <2>1, <2>2 DEF Distinct
<1> HIDE DEF old
<1>5. PubSubTypes'
  BY <1>1, <1>2, <1>3 DEF PubSubIInv, PubSubTypes
<1>6. Listed'
  <2>1. \A l \in ListNames : subs'[l] = IF l = list[x] THEN Append(old, x) ELSE subs[l]
    BY <1>1 DEF PubSubIInv, PubSubTypes
  <2>2. \A y \in Listeners : sub'[y] = IF y = x THEN "in" ELSE sub[y]
    BY <1>1 DEF PubSubIInv, PubSubTypes
  <2>3. \A y \in Listeners : sub'[y] \in {"in", "dropping"} <=> y \in Range(subs'[list[y]])
    <3> SUFFICES ASSUME NEW y \in Listeners
                 PROVE  sub'[y] \in {"in", "dropping"} <=> y \in Range(subs'[list[y]])
      OBVIOUS
    <3>1. list[y] \in ListNames /\ (sub[y] \in {"in", "dropping"} <=> y \in Range(subs[list[y]]))
      BY DEF PubSubIInv, PubSubTypes, Listed
    <3>2. CASE y = x
      BY <1>2, <1>3, <2>1, <2>2, <3>2
    <3>3. CASE y # x
      BY <1>3, <2>1, <2>2, <3>1, <3>3 DEF old
    <3> QED
      BY <3>2, <3>3
  <2>4. \A l \in ListNames : Distinct(subs'[l])
    BY <1>4, <2>1 DEF PubSubIInv, Listed
  <2>5. \A l \in ListNames : \A y \in Range(subs'[l]) : list[y] = l
    BY <1>3, <2>1 DEF PubSubIInv, Listed, old
  <2> QED
    BY <1>1, <2>3, <2>4, <2>5 DEF Listed
<1>7. CalledOnce'
  BY <1>1 DEF PubSubIInv, PubSubTypes, CalledOnce, Heard, Busy
<1>8. HeardIsTaken'
  BY <1>1 DEF PubSubIInv, PubSubTypes, HeardIsTaken, Taken, Busy
<1>9. TakenIsHeard'
  <2> SUFFICES ASSUME NEW y \in Listeners, NEW e \in Emitters, sub'[y] = "in"
               PROVE  /\ since'[y][e] <= at[e].n
                      /\ \A l \in DOMAIN Lists(e) : list[y] = Lists(e)[l] =>
                           /\ \A n \in Nat : since'[y][e] < n /\ n < at[e].n => Heard(y, e, n)
                           /\ since'[y][e] < at[e].n =>
                                \/ Heard(y, e, at[e].n)
                                \/ Busy(e) /\ (at[e].level < l \/ (at[e].level = l /\ y \in Range(at[e].todo)))
    BY <1>1 DEF TakenIsHeard, Heard, Busy
  <2>1. CASE y = x
    <3>1. since'[y][e] = at[e].n /\ at[e].n \in Nat
      BY <1>1, <2>1 DEF PubSubIInv, PubSubTypes
    <3> QED
      BY <3>1
  <2>2. CASE y # x
    BY <1>1, <2>2 DEF PubSubIInv, PubSubTypes, TakenIsHeard
  <2> QED
    BY <2>1, <2>2
<1> QED
  BY <1>5, <1>6, <1>7, <1>8, <1>9 DEF PubSubIInv

LEMMA RemovedOK ==
  ASSUME NEW x \in Listeners, PubSubIInv, Subscribed(x), sub[x] = "dropping", subs[list[x]] = seenlist[x]
  PROVE  PubSubIInv'
<1> DEFINE old == subs[list[x]]
<1>1. PICK r : r = RemoveAt(old, CHOOSE i \in DOMAIN old : old[i] = x)
  OBVIOUS
<1>2. list[x] \in ListNames /\ old \in Seq(Listeners) /\ x \in Range(old) /\ Distinct(old)
  BY DEF PubSubIInv, PubSubTypes, Listed
<1>3. /\ sub' = [sub EXCEPT ![x] = "gone"]
      /\ subs' = [subs EXCEPT ![list[x]] = r]
      /\ since' = [since EXCEPT ![x] = [e \in Emitters |-> 0]]
      /\ heard' = [heard EXCEPT ![x] = <<>>]
      /\ UNCHANGED <<list, at>>
  BY <1>1, <1>2 DEF Subscribed, SubscriberStep, Swapped
<1>4. r \in Seq(Listeners) /\ Range(r) = Range(old) \ {x} /\ Distinct(r)
  BY <1>1, <1>2, Dropped
<1> HIDE DEF old
<1>5. PubSubTypes'
  BY <1>3, <1>2, <1>4 DEF PubSubIInv, PubSubTypes
<1>6. Listed'
  <2>1. \A l \in ListNames : subs'[l] = IF l = list[x] THEN r ELSE subs[l]
    BY <1>3 DEF PubSubIInv, PubSubTypes
  <2>2. \A y \in Listeners : sub'[y] = IF y = x THEN "gone" ELSE sub[y]
    BY <1>3 DEF PubSubIInv, PubSubTypes
  <2>3. \A y \in Listeners : sub'[y] \in {"in", "dropping"} <=> y \in Range(subs'[list[y]])
    BY <1>2, <1>4, <2>1, <2>2 DEF PubSubIInv, PubSubTypes, Listed, old
  <2>4. \A l \in ListNames : Distinct(subs'[l])
    BY <1>4, <2>1 DEF PubSubIInv, Listed
  <2>5. \A l \in ListNames : \A y \in Range(subs'[l]) : list[y] = l
    BY <1>4, <2>1 DEF PubSubIInv, Listed, old
  <2> QED
    BY <1>3, <2>3, <2>4, <2>5 DEF Listed
<1>7. \A y \in Listeners : heard'[y] = IF y = x THEN <<>> ELSE heard[y]
  BY <1>3 DEF PubSubIInv, PubSubTypes
<1>8. \A y \in Listeners, e \in Emitters, n \in Nat : Heard(y, e, n)' => Heard(y, e, n) /\ y # x
  BY <1>7 DEF Heard, Range
<1>9. CalledOnce'
  <2> SUFFICES ASSUME NEW e \in Emitters, Busy(e)
               PROVE  /\ Distinct(at[e].todo)
                      /\ \A y \in Range(at[e].todo) :
                           list[y] = Lists(e)[at[e].level] /\ sub'[y] \notin {"out", "adding"} /\ ~Heard(y, e, at[e].n)'
    BY <1>3 DEF CalledOnce, Busy, Heard
  <2>1. at[e].n \in Nat /\ \A y \in Range(at[e].todo) : y \in Listeners
    BY DEF PubSubIInv, PubSubTypes, Range
  <2> QED
    BY <1>3, <1>8, <2>1 DEF PubSubIInv, PubSubTypes, CalledOnce
<1>10. HeardIsTaken'
  <2> SUFFICES ASSUME NEW y \in Listeners
               PROVE  /\ heard'[y] # <<>> => sub'[y] \in {"in", "dropping"}
                      /\ \A k \in DOMAIN heard'[y] :
                           LET e == heard'[y][k][1] IN
                           /\ heard'[y][k][2] <= at[e].n
                           /\ Busy(e) /\ heard'[y][k][2] = at[e].n => \E l \in 1 .. at[e].level : list[y] = Lists(e)[l]
                      /\ Ordered(heard'[y])
    BY <1>3 DEF HeardIsTaken, Taken, Busy
  <2>1. CASE y = x
    BY <1>7, <2>1 DEF Ordered
  <2>2. CASE y # x
    <3>1. heard'[y] = heard[y] /\ sub'[y] = sub[y]
      BY <1>3, <1>7, <2>2 DEF PubSubIInv, PubSubTypes
    <3> QED
      BY <3>1 DEF PubSubIInv, HeardIsTaken, Taken
  <2> QED
    BY <2>1, <2>2
<1>11. TakenIsHeard'
  <2> SUFFICES ASSUME NEW y \in Listeners, NEW e \in Emitters, sub'[y] = "in"
               PROVE  /\ since'[y][e] <= at[e].n
                      /\ \A l \in DOMAIN Lists(e) : list[y] = Lists(e)[l] =>
                           /\ \A n \in Nat : since'[y][e] < n /\ n < at[e].n => Heard(y, e, n)'
                           /\ since'[y][e] < at[e].n =>
                                \/ Heard(y, e, at[e].n)'
                                \/ Busy(e) /\ (at[e].level < l \/ (at[e].level = l /\ y \in Range(at[e].todo)))
    BY <1>3 DEF TakenIsHeard, Heard, Busy
  <2>1. y # x /\ sub[y] = "in" /\ since'[y] = since[y] /\ heard'[y] = heard[y]
    BY <1>3 DEF PubSubIInv, PubSubTypes
  <2>2. \A n : Heard(y, e, n)' <=> Heard(y, e, n)
    BY <2>1 DEF Heard
  <2> QED
    <3>1. /\ since[y][e] <= at[e].n
          /\ \A l \in DOMAIN Lists(e) : list[y] = Lists(e)[l] =>
               /\ \A n \in Nat : since[y][e] < n /\ n < at[e].n => Heard(y, e, n)
               /\ since[y][e] < at[e].n =>
                    \/ Heard(y, e, at[e].n)
                    \/ Busy(e) /\ (at[e].level < l \/ (at[e].level = l /\ y \in Range(at[e].todo)))
      BY <2>1 DEF PubSubIInv, TakenIsHeard
    <3>2. Heard(y, e, at[e].n)' <=> Heard(y, e, at[e].n)
      BY <1>3, <2>1 DEF Heard
    <3>3. \A n \in Nat : Heard(y, e, n)' <=> Heard(y, e, n)
      BY <2>1 DEF Heard
    <3> HIDE DEF Heard
    <3> QED
      BY <2>1, <3>1, <3>2, <3>3
<1> QED
  BY <1>5, <1>6, <1>9, <1>10, <1>11 DEF PubSubIInv

LEMMA SwapOK ==
  ASSUME NEW x \in Listeners, PubSubIInv, Swap(x) PROVE PubSubIInv'
<1>1. CASE subs[list[x]] = seenlist[x]
  BY <1>1, AddedOK, RemovedOK DEF Swap
<1>2. CASE subs[list[x]] # seenlist[x]
  <2>1. UNCHANGED <<list, sub, subs, since, at, heard>>
    BY <1>2 DEF Swap, stream
  <2> QED
    BY <2>1, PubSubSame
<1> QED
  BY <1>1, <1>2

-----------------------------------------------------------------------------
(* Steps of an emitter *)

\* What the invariant says of one emitter and one subscription.
WasHeard(y, f) ==
  /\ since[y][f] <= at[f].n
  /\ \A l \in DOMAIN Lists(f) : list[y] = Lists(f)[l] =>
       /\ \A n \in Nat : since[y][f] < n /\ n < at[f].n => Heard(y, f, n)
       /\ since[y][f] < at[f].n =>
            \/ Heard(y, f, at[f].n)
            \/ Busy(f) /\ (at[f].level < l \/ (at[f].level = l /\ y \in Range(at[f].todo)))

Place(e, n, level, todo) ==
  /\ at'[e] = [n |-> n, level |-> level, todo |-> todo]
  /\ \A f \in Emitters : f # e => at'[f] = at[f]

(* The types after a step of an emitter. *)
LEMMA PlaceTyped ==
  ASSUME NEW e \in Emitters, PubSubTypes, NEW r \in [n : Nat, level : 0 .. 2, todo : Seq(Listeners)],
         r.level <= Len(Lists(e)), at' = [at EXCEPT ![e] = r], UNCHANGED <<list, sub, subs, since>>,
         heard' \in [Listeners -> Seq(Emitters \X Nat)]
  PROVE  PubSubTypes' /\ Place(e, r.n, r.level, r.todo)
<1>1. at'[e] = r /\ \A f \in Emitters : f # e => at'[f] = at[f]
  BY DEF PubSubTypes
<1>2. at' \in [Emitters -> [n : Nat, level : 0 .. 2, todo : Seq(Listeners)]]
  BY DEF PubSubTypes
<1>3. PubSubTypes'
  BY <1>1, <1>2 DEF PubSubTypes
<1> QED
  BY <1>1, <1>3 DEF Place

LEMMA TakeOK ==
  ASSUME NEW e \in Emitters, PubSubIInv, ~Busy(e), UNCHANGED <<list, sub, subs, since, heard>>,
         at' = [at EXCEPT ![e] = [n |-> @.n + 1, level |-> 1, todo |-> subs[Lists(e)[1]]]]
  PROVE  PubSubIInv'
<1> DEFINE n == at[e].n
           L == Lists(e)[1]
<1>1. /\ L \in ListNames /\ 1 \in DOMAIN Lists(e) /\ Len(Lists(e)) \in {1, 2} /\ DOMAIN Lists(e) = 1 .. Len(Lists(e))
      /\ subs[L] \in Seq(Listeners) /\ n \in Nat
  BY ListsAre DEF PubSubIInv, PubSubTypes
<1>3. PubSubTypes' /\ Place(e, n + 1, 1, subs[L])
  <2> DEFINE r == [n |-> n + 1, level |-> 1, todo |-> subs[L]]
  <2>1. r \in [n : Nat, level : 0 .. 2, todo : Seq(Listeners)] /\ r.level <= Len(Lists(e))
    BY <1>1
  <2>2. at' = [at EXCEPT ![e] = r]
    OBVIOUS
  <2>3. heard' \in [Listeners -> Seq(Emitters \X Nat)]
    BY DEF PubSubIInv, PubSubTypes
  <2>4. PubSubTypes' /\ Place(e, r.n, r.level, r.todo)
    <3> HIDE DEF r
    <3> QED
      BY <2>1, <2>2, <2>3, PlaceTyped DEF PubSubIInv
  <2> QED
    BY <2>4
<1>4. Listed'
  BY DEF PubSubIInv, Listed
<1>5. \A y \in Listeners, m \in Nat : Heard(y, e, m) => m <= n
  BY DEF PubSubIInv, HeardIsTaken, Taken, Heard, Range
<1>6. CalledOnce'
  <2> SUFFICES ASSUME NEW f \in Emitters, Busy(f)'
               PROVE  /\ Distinct(at'[f].todo)
                      /\ \A y \in Range(at'[f].todo) :
                           list[y] = Lists(f)[at'[f].level] /\ sub[y] \notin {"out", "adding"} /\ ~Heard(y, f, at'[f].n)
    BY DEF CalledOnce, Heard
  <2>1. CASE f = e
    <3>1. at'[e].todo = subs[L] /\ at'[e].level = 1 /\ at'[e].n = n + 1
      BY <1>3 DEF Place
    <3>2. \A y \in Range(subs[L]) : y \in Listeners /\ list[y] = L /\ sub[y] \in {"in", "dropping"}
      <4>1. \A y \in Range(subs[L]) : y \in Listeners
        BY <1>1 DEF Range
      <4>2. \A y \in Range(subs[L]) : list[y] = L
        BY <1>1 DEF PubSubIInv, Listed
      <4>3. \A y \in Listeners : y \in Range(subs[list[y]]) => sub[y] \in {"in", "dropping"}
        BY DEF PubSubIInv, Listed
      <4> QED
        BY <4>1, <4>2, <4>3
    <3>3. \A y \in Listeners : ~Heard(y, e, n + 1)
      BY <1>1, <1>5
    <3>4. Distinct(subs[L])
      BY <1>1 DEF PubSubIInv, Listed
    <3> QED
      BY <2>1, <3>1, <3>2, <3>3, <3>4
  <2>2. CASE f # e
    BY <1>3, <2>2 DEF Place, PubSubIInv, CalledOnce, Busy
  <2> QED
    BY <2>1, <2>2
<1>7. HeardIsTaken'
  <2> SUFFICES ASSUME NEW y \in Listeners, NEW k \in DOMAIN heard[y], NEW f \in Emitters, f = heard[y][k][1]
               PROVE  /\ heard[y][k][2] <= at'[f].n
                      /\ Busy(f)' /\ heard[y][k][2] = at'[f].n => \E l \in 1 .. at'[f].level : list[y] = Lists(f)[l]
    <3>1. \A y \in Listeners : \A k \in DOMAIN heard[y] : heard[y][k][1] \in Emitters
      BY DEF PubSubIInv, PubSubTypes
    <3> QED
      BY <3>1 DEF PubSubIInv, HeardIsTaken, Taken
  <2>1. /\ heard[y][k][2] \in Nat /\ heard[y][k][2] <= at[f].n
        /\ Busy(f) /\ heard[y][k][2] = at[f].n => \E l \in 1 .. at[f].level : list[y] = Lists(f)[l]
    <3>1. heard[y] \in Seq(Emitters \X Nat)
      BY DEF PubSubIInv, PubSubTypes
    <3>2. heard[y][k] \in Emitters \X Nat
      BY <3>1
    <3> QED
      BY <3>2 DEF PubSubIInv, HeardIsTaken, Taken
  <2>2. CASE f = e
    <3>1. at'[f].n = n + 1
      BY <1>3, <2>2 DEF Place
    <3> QED
      BY <1>1, <2>1, <2>2, <3>1
  <2>3. CASE f # e
    BY <1>3, <2>1, <2>3 DEF Place, Busy
  <2> QED
    BY <2>2, <2>3
<1>8. TakenIsHeard'
  <2> SUFFICES ASSUME NEW y \in Listeners, NEW f \in Emitters, sub[y] = "in"
               PROVE  /\ since[y][f] <= at'[f].n
                      /\ \A l \in DOMAIN Lists(f) : list[y] = Lists(f)[l] =>
                           /\ \A m \in Nat : since[y][f] < m /\ m < at'[f].n => Heard(y, f, m)
                           /\ since[y][f] < at'[f].n =>
                                \/ Heard(y, f, at'[f].n)
                                \/ Busy(f)' /\ (at'[f].level < l \/ (at'[f].level = l /\ y \in Range(at'[f].todo)))
    BY DEF TakenIsHeard, Heard
  <2>1. /\ since[y][f] <= at[f].n /\ since[y][f] \in Nat
        /\ \A l \in DOMAIN Lists(f) : list[y] = Lists(f)[l] =>
             /\ \A m \in Nat : since[y][f] < m /\ m < at[f].n => Heard(y, f, m)
             /\ since[y][f] < at[f].n =>
                  \/ Heard(y, f, at[f].n)
                  \/ Busy(f) /\ (at[f].level < l \/ (at[f].level = l /\ y \in Range(at[f].todo)))
    BY DEF PubSubIInv, PubSubTypes, TakenIsHeard
  <2>2. CASE f = e
    <3>1. at'[f].todo = subs[L] /\ at'[f].level = 1 /\ at'[f].n = n + 1 /\ Busy(f)'
      BY <1>3, <2>2 DEF Place, Busy
    <3>2. since[y][f] <= n + 1
      BY <1>1, <2>1, <2>2
    <3>3. ASSUME NEW l \in DOMAIN Lists(f), list[y] = Lists(f)[l], NEW m \in Nat, since[y][f] < m, m < n + 1
          PROVE  Heard(y, f, m)
      <4>1. m < n \/ m = n
        BY <1>1, <3>3
      <4> QED
        BY <2>1, <2>2, <3>3, <4>1
    <3>4. ASSUME NEW l \in DOMAIN Lists(f), list[y] = Lists(f)[l]
          PROVE  1 < l \/ (1 = l /\ y \in Range(subs[L]))
      <4>1. y \in Range(subs[list[y]])
        BY DEF PubSubIInv, Listed
      <4>2. l \in Nat /\ (l = 1 \/ 1 < l)
        BY <1>1, <2>2
      <4> QED
        BY <3>4, <4>1, <4>2, <2>2
    <3> QED
      BY <3>1, <3>2, <3>3, <3>4
  <2>3. CASE f # e
    BY <1>3, <2>1, <2>3 DEF Place, Busy
  <2> QED
    BY <2>2, <2>3
<1> QED
  BY <1>3, <1>4, <1>6, <1>7, <1>8 DEF PubSubIInv

LEMMA NextListOK ==
  ASSUME NEW e \in Emitters, PubSubIInv, NextList(e) PROVE PubSubIInv'
<1> DEFINE n == at[e].n
           k == at[e].level
           more == k < Len(Lists(e))
           todo == IF more THEN subs[Lists(e)[k + 1]] ELSE <<>>
           level == IF more THEN k + 1 ELSE 0
<1>1. /\ Busy(e) /\ at[e].todo = <<>> /\ UNCHANGED <<list, sub, subs, since, heard>>
      /\ at' = IF more THEN [at EXCEPT ![e] = [n |-> @.n, level |-> @.level + 1, todo |-> subs[Lists(e)[@.level + 1]]]]
                       ELSE [at EXCEPT ![e].level = 0]
  BY DEF NextList, pubsub
<1>0. UNCHANGED <<list, sub, subs, since, heard>>
  BY <1>1
<1>2. at[e] \in [n : Nat, level : 0 .. 2, todo : Seq(Listeners)] /\ at[e].level <= Len(Lists(e)) /\ DOMAIN at = Emitters
  BY DEF PubSubIInv, PubSubTypes
<1>3. n \in Nat /\ k \in 1 .. 2 /\ k <= Len(Lists(e))
  BY <1>1, <1>2 DEF Busy
<1>4. DOMAIN Lists(e) = 1 .. Len(Lists(e)) /\ Len(Lists(e)) \in {1, 2}
  BY ListsAre
<1>5. more => k + 1 \in DOMAIN Lists(e) /\ Lists(e)[k + 1] \in ListNames
  BY <1>3, <1>4, ListsAre
<1>6. todo \in Seq(Listeners)
  BY <1>5 DEF PubSubIInv, PubSubTypes
<1>7. PubSubTypes' /\ Place(e, n, level, todo)
  <2> DEFINE r == [n |-> n, level |-> level, todo |-> todo]
  <2>1. r \in [n : Nat, level : 0 .. 2, todo : Seq(Listeners)] /\ r.level <= Len(Lists(e))
    BY <1>3, <1>4, <1>6
  <2>2. at' = [at EXCEPT ![e] = r]
    <3>1. at[e] = [n |-> n, level |-> k, todo |-> <<>>]
      BY <1>1, <1>2
    <3>2. CASE more
      BY <1>1, <3>2
    <3>3. CASE ~more
      <4>1. [at[e] EXCEPT !.level = 0] = r
        BY <3>1, <3>3
      <4>2. at' = [at EXCEPT ![e] = [at[e] EXCEPT !.level = 0]]
        BY <1>1, <1>2, <3>3
      <4> QED
        BY <4>1, <4>2
    <3> QED
      BY <3>2, <3>3
  <2>3. heard' \in [Listeners -> Seq(Emitters \X Nat)]
    BY <1>1 DEF PubSubIInv, PubSubTypes
  <2>4. PubSubTypes' /\ Place(e, r.n, r.level, r.todo)
    <3> HIDE DEF r
    <3> QED
      BY <1>1, <2>1, <2>2, <2>3, PlaceTyped DEF PubSubIInv
  <2> QED
    BY <2>4
<1>8. at'[e].n = n /\ at'[e].level = level /\ at'[e].todo = todo /\ \A f \in Emitters : f # e => at'[f] = at[f]
  BY <1>7 DEF Place
<1>9. Listed'
  BY <1>1 DEF PubSubIInv, Listed
<1>10. CalledOnce'
  <2> SUFFICES ASSUME NEW f \in Emitters, Busy(f)'
               PROVE  /\ Distinct(at'[f].todo)
                      /\ \A y \in Range(at'[f].todo) :
                           list[y] = Lists(f)[at'[f].level] /\ sub[y] \notin {"out", "adding"} /\ ~Heard(y, f, at'[f].n)
    BY <1>1 DEF CalledOnce, Heard
  <2>1. CASE f = e
    <3>1. more
      BY <1>8, <2>1 DEF Busy
    <3> DEFINE L == Lists(e)[k + 1]
    <3>2. \A y \in Range(subs[L]) : y \in Listeners /\ list[y] = L /\ sub[y] \in {"in", "dropping"}
      <4>1. \A y \in Range(subs[L]) : y \in Listeners
        BY <1>5, <3>1 DEF Range, PubSubIInv, PubSubTypes
      <4>2. \A y \in Range(subs[L]) : list[y] = L
        BY <1>5, <3>1 DEF PubSubIInv, Listed
      <4>3. \A y \in Listeners : y \in Range(subs[list[y]]) => sub[y] \in {"in", "dropping"}
        BY DEF PubSubIInv, Listed
      <4> QED
        BY <4>1, <4>2, <4>3
    <3>3. ASSUME NEW y \in Listeners, list[y] = L PROVE ~Heard(y, e, n)
      <4> SUFFICES ASSUME Heard(y, e, n) PROVE FALSE
        OBVIOUS
      <4>1. PICK i \in DOMAIN heard[y] : heard[y][i] = <<e, n>>
        BY DEF Heard, Range
      <4>2. PICK l \in 1 .. k : list[y] = Lists(e)[l]
        BY <1>1, <4>1 DEF PubSubIInv, HeardIsTaken, Taken
      <4>3. l \in DOMAIN Lists(e) /\ l # k + 1
        BY <1>3, <1>4
      <4> QED
        BY <1>5, <3>1, <3>3, <4>2, <4>3, ListsAre
    <3>4. Distinct(subs[L])
      BY <1>5, <3>1 DEF PubSubIInv, Listed
    <3> QED
      BY <1>8, <2>1, <3>1, <3>2, <3>3, <3>4
  <2>2. CASE f # e
    <3>1. at'[f] = at[f] /\ Busy(f)
      BY <1>8, <2>2 DEF Busy
    <3> QED
      BY <3>1 DEF PubSubIInv, CalledOnce
  <2> QED
    BY <2>1, <2>2
<1>11. HeardIsTaken'
  <2> SUFFICES ASSUME NEW y \in Listeners, NEW i \in DOMAIN heard[y], NEW f \in Emitters, f = heard[y][i][1]
               PROVE  /\ heard[y][i][2] <= at'[f].n
                      /\ Busy(f)' /\ heard[y][i][2] = at'[f].n => \E l \in 1 .. at'[f].level : list[y] = Lists(f)[l]
    <3>1. \A y \in Listeners : \A i \in DOMAIN heard[y] : heard[y][i][1] \in Emitters
      BY DEF PubSubIInv, PubSubTypes
    <3> QED
      BY <1>0, <3>1 DEF PubSubIInv, HeardIsTaken, Taken
  <2>1. /\ heard[y][i][2] <= at[f].n
        /\ Busy(f) /\ heard[y][i][2] = at[f].n => \E l \in 1 .. at[f].level : list[y] = Lists(f)[l]
    BY DEF PubSubIInv, HeardIsTaken, Taken
  <2>2. CASE f = e
    <3>1. Busy(f)' => level = k + 1
      BY <1>8, <2>2 DEF Busy
    <3>2. \A l \in 1 .. k : l \in 1 .. k + 1
      BY <1>3
    <3> QED
      BY <1>1, <1>8, <2>1, <2>2, <3>1, <3>2
  <2>3. CASE f # e
    BY <1>8, <2>1, <2>3 DEF Busy
  <2> QED
    BY <2>2, <2>3
<1>12. ASSUME NEW y \in Listeners, NEW f \in Emitters, sub[y] = "in" PROVE WasHeard(y, f)'
  <2>1. WasHeard(y, f)
    BY <1>12 DEF PubSubIInv, TakenIsHeard, WasHeard
  <2>2. CASE f = e
    <3>1. ASSUME NEW l \in DOMAIN Lists(e), list[y] = Lists(e)[l], since[y][e] < n
          PROVE  Heard(y, e, n) \/ (level > 0 /\ (level < l \/ (level = l /\ y \in Range(todo))))
      <4>1. Heard(y, e, n) \/ k < l
        BY <1>1, <2>1, <2>2, <3>1 DEF WasHeard, Range
      <4>2. CASE k < l
        <5>1. more /\ level = k + 1 /\ level > 0 /\ (level < l \/ level = l)
          BY <1>3, <1>4, <4>2
        <5>2. y \in Range(subs[list[y]])
          BY <1>12 DEF PubSubIInv, Listed
        <5> QED
          BY <3>1, <5>1, <5>2
      <4> QED
        BY <4>1, <4>2
    <3> HIDE DEF level, todo, k, more
    <3>2. since'[y][f] <= at'[f].n /\ (\A m \in Nat : Heard(y, f, m)' <=> Heard(y, f, m)) /\ list'[y] = list[y]
      BY <1>1, <1>8, <2>1, <2>2 DEF WasHeard, Heard
    <3>3. Busy(f)' <=> level > 0
      BY <1>8, <2>2 DEF Busy
    <3>4. Heard(y, f, at[f].n)' <=> Heard(y, e, n)
      BY <1>1, <1>8, <2>2 DEF Heard
    <3> QED
      BY <1>1, <1>8, <2>1, <2>2, <3>1, <3>2, <3>3, <3>4 DEF WasHeard
  <2>3. CASE f # e
    BY <1>1, <1>8, <2>1, <2>3 DEF WasHeard, Busy, Heard
  <2> QED
    BY <2>2, <2>3
<1>13. TakenIsHeard'
  BY <1>1, <1>12 DEF TakenIsHeard, WasHeard
<1> QED
  BY <1>7, <1>9, <1>10, <1>11, <1>13 DEF PubSubIInv

(* What is left of a snapshot when the first closure was called. *)
LEMMA Rested ==
  ASSUME NEW S, NEW s \in Seq(S), s # <<>>, Distinct(s)
  PROVE  /\ Tail(s) \in Seq(S) /\ Head(s) \in Range(s) /\ Head(s) \in S /\ Distinct(Tail(s))
         /\ Range(Tail(s)) = Range(s) \ {Head(s)}
<1>1. /\ Tail(s) \in Seq(S) /\ Head(s) \in S /\ 1 \in DOMAIN s /\ Head(s) = s[1]
      /\ \A k \in DOMAIN Tail(s) : k + 1 \in DOMAIN s /\ Tail(s)[k] = s[k + 1] /\ k \in Nat
  OBVIOUS
<1>2. \A k \in DOMAIN s : k = 1 \/ (k - 1 \in DOMAIN Tail(s) /\ k \in Nat)
  OBVIOUS
<1>3. \A k \in DOMAIN s : k # 1 => k - 1 \in DOMAIN Tail(s) /\ Tail(s)[k - 1] = s[k]
  BY <1>1, <1>2
<1>4. \A k \in DOMAIN Tail(s) : Tail(s)[k] \in Range(s) /\ Tail(s)[k] # Head(s)
  <2> SUFFICES ASSUME NEW k \in DOMAIN Tail(s) PROVE Tail(s)[k] \in Range(s) /\ Tail(s)[k] # Head(s)
    OBVIOUS
  <2>1. k + 1 \in DOMAIN s /\ k + 1 # 1 /\ Tail(s)[k] = s[k + 1]
    BY <1>1
  <2> QED
    BY <1>1, <2>1 DEF Distinct, Range
<1>5. \A k \in DOMAIN s : s[k] # Head(s) => s[k] \in Range(Tail(s))
  BY <1>1, <1>3 DEF Range
<1>6. Distinct(Tail(s))
  <2> SUFFICES ASSUME NEW i \in DOMAIN Tail(s), NEW j \in DOMAIN Tail(s), Tail(s)[i] = Tail(s)[j] PROVE i = j
    BY DEF Distinct
  <2>1. i + 1 \in DOMAIN s /\ j + 1 \in DOMAIN s /\ s[i + 1] = s[j + 1] /\ i \in Nat /\ j \in Nat
    BY <1>1
  <2>2. i + 1 = j + 1
    BY <2>1 DEF Distinct
  <2> QED
    BY <2>1, <2>2
<1>7. Range(Tail(s)) = Range(s) \ {Head(s)}
  BY <1>4, <1>5 DEF Range
<1> QED
  BY <1>1, <1>6, <1>7 DEF Range

(* A closure is called with the item and leaves the snapshot. *)
LEMMA CalledOK ==
  ASSUME NEW e \in Emitters, PubSubIInv, Busy(e), UNCHANGED <<list, sub, subs, since>>,
         NEW n \in Nat, NEW k \in 1 .. 2, n = at[e].n, k = at[e].level,
         NEW x \in Listeners, x \in Range(at[e].todo),
         NEW todo \in Seq(Listeners), Distinct(todo), Range(todo) = Range(at[e].todo) \ {x},
         at' = [at EXCEPT ![e] = [n |-> n, level |-> k, todo |-> todo]],
         heard' = IF sub[x] = "gone" THEN heard ELSE [heard EXCEPT ![x] = Append(@, <<e, n>>)]
  PROVE  PubSubIInv'
<1>1. heard[x] \in Seq(Emitters \X Nat) /\ <<e, n>> \in Emitters \X Nat
  BY DEF PubSubIInv, PubSubTypes
<1>2. PICK longer \in Seq(Emitters \X Nat) : longer = Append(heard[x], <<e, n>>) /\ IsLonger(longer, heard[x], <<e, n>>)
  BY <1>1, Longer
<1>3. heard' = IF sub[x] = "gone" THEN heard ELSE [heard EXCEPT ![x] = longer]
  BY <1>2
<1>4. /\ \A y \in Listeners : heard'[y] = IF y = x /\ sub[x] # "gone" THEN longer ELSE heard[y]
      /\ heard' \in [Listeners -> Seq(Emitters \X Nat)]
  BY <1>3 DEF PubSubIInv, PubSubTypes
<1>5. PubSubTypes' /\ Place(e, n, k, todo)
  <2>1. k <= Len(Lists(e))
    BY DEF PubSubIInv, PubSubTypes
  <2> DEFINE r == [n |-> n, level |-> k, todo |-> todo]
  <2>2. r \in [n : Nat, level : 0 .. 2, todo : Seq(Listeners)] /\ r.level <= Len(Lists(e))
    BY <2>1
  <2>3. at' = [at EXCEPT ![e] = r]
    OBVIOUS
  <2>4. PubSubTypes' /\ Place(e, r.n, r.level, r.todo)
    <3> HIDE DEF r
    <3> QED
      BY <1>4, <2>2, <2>3, PlaceTyped DEF PubSubIInv
  <2> QED
    BY <2>4
<1>6. at'[e].n = n /\ at'[e].level = k /\ at'[e].todo = todo /\ \A f \in Emitters : f # e => at'[f] = at[f]
  BY <1>5 DEF Place
<1>7. \A f \in Emitters : at'[f].n = at[f].n /\ at'[f].level = at[f].level /\ (Busy(f)' <=> Busy(f))
  BY <1>6 DEF Busy
<1>8. \A y \in Listeners, f \in Emitters, m \in Nat :
        (<<f, m>> \in Range(heard'[y])) <=> Heard(y, f, m) \/ (y = x /\ f = e /\ m = n /\ sub[x] # "gone")
  BY <1>2, <1>4 DEF Heard, IsLonger
<1>9. \A y \in Range(at[e].todo) : list[y] = Lists(e)[k] /\ sub[y] \notin {"out", "adding"} /\ ~Heard(y, e, n)
  BY DEF PubSubIInv, CalledOnce
<1>10. Listed'
  BY DEF PubSubIInv, Listed
<1>11. CalledOnce'
  <2> SUFFICES ASSUME NEW f \in Emitters, Busy(f)'
               PROVE  /\ Distinct(at'[f].todo)
                      /\ \A y \in Range(at'[f].todo) :
                           /\ list[y] = Lists(f)[at'[f].level] /\ sub[y] \notin {"out", "adding"}
                           /\ ~(<<f, at'[f].n>> \in Range(heard'[y]))
    BY DEF CalledOnce, Heard
  <2>1. CASE f = e
    <3>1. \A y \in Range(todo) : y \in Listeners
      BY DEF Range
    <3>2. \A y \in Range(todo) : y \in Range(at[e].todo) /\ y # x
      OBVIOUS
    <3>3. \A y \in Range(todo) : ~(<<e, n>> \in Range(heard'[y]))
      BY <1>8, <1>9, <3>1, <3>2
    <3> QED
      BY <1>6, <1>9, <2>1, <3>2, <3>3
  <2>2. CASE f # e
    <3>1. at'[f] = at[f] /\ Busy(f)
      BY <1>6, <1>7, <2>2
    <3>2. at[f] \in [n : Nat, level : 0 .. 2, todo : Seq(Listeners)]
      BY DEF PubSubIInv, PubSubTypes
    <3>3. \A y \in Range(at[f].todo) : y \in Listeners
      BY <3>2 DEF Range
    <3>4. /\ Distinct(at[f].todo)
          /\ \A y \in Range(at[f].todo) :
               list[y] = Lists(f)[at[f].level] /\ sub[y] \notin {"out", "adding"} /\ ~Heard(y, f, at[f].n)
      BY <3>1 DEF PubSubIInv, CalledOnce
    <3>5. \A y \in Range(at[f].todo) : ~(<<f, at[f].n>> \in Range(heard'[y]))
      BY <1>8, <2>2, <3>2, <3>3, <3>4
    <3> QED
      BY <3>1, <3>4, <3>5
  <2> QED
    BY <2>1, <2>2
<1>12. \A y \in Listeners : \A i \in DOMAIN heard[y] : heard[y][i] \in Emitters \X Nat
  BY DEF PubSubIInv, PubSubTypes
<1>13. \A y \in Listeners : \A i \in DOMAIN heard[y] : Taken(y, heard[y][i])
  BY DEF PubSubIInv, HeardIsTaken
<1>14. ASSUME NEW y \in Listeners, NEW item \in Emitters \X Nat, Taken(y, item) \/ (y = x /\ item = <<e, n>>)
       PROVE  Taken(y, item)'
  <2>1. CASE Taken(y, item)
    <3>1. item[1] \in Emitters /\ item[2] \in Nat
      OBVIOUS
    <3> QED
      BY <1>7, <2>1, <3>1 DEF Taken
  <2>2. CASE y = x /\ item = <<e, n>>
    <3>1. item[1] = e /\ item[2] = n /\ k \in 1 .. k /\ list[y] = Lists(e)[k]
      BY <1>9, <2>2
    <3> QED
      BY <1>6, <3>1 DEF Taken
  <2> QED
    BY <1>14, <2>1, <2>2
<1>15. HeardIsTaken'
  <2> SUFFICES ASSUME NEW y \in Listeners
               PROVE  /\ heard'[y] # <<>> => sub[y] \in {"in", "dropping"}
                      /\ \A i \in DOMAIN heard'[y] : Taken(y, heard[y][i])'
                      /\ Ordered(heard'[y])
    BY DEF HeardIsTaken
  <2>1. /\ heard[y] # <<>> => sub[y] \in {"in", "dropping"}
        /\ Ordered(heard[y])
    BY DEF PubSubIInv, HeardIsTaken
  <2>2. \A item \in Emitters \X Nat : Taken(y, item) => Taken(y, item)'
    BY <1>14
  <2>3. CASE ~(y = x /\ sub[x] # "gone")
    <3>1. heard'[y] = heard[y]
      BY <1>4, <2>3
    <3>2. ASSUME NEW i \in DOMAIN heard'[y] PROVE Taken(y, heard[y][i])'
      <4>1. PICK item \in Emitters \X Nat : item = heard[y][i] /\ Taken(y, item)
        BY <1>12, <1>13, <3>1, <3>2
      <4>2. Taken(y, item)'
        BY <2>2, <4>1
      <4>3. heard'[y][i] = item
        BY <3>1, <4>1
      <4> QED
        BY <4>2, <4>3 DEF Taken
    <3>3. Ordered(heard'[y])
      BY <2>1, <3>1
    <3>4. heard'[y] # <<>> => sub[y] \in {"in", "dropping"}
      BY <2>1, <3>1
    <3> QED
      BY <3>2, <3>3, <3>4
  <2>4. CASE y = x /\ sub[x] # "gone"
    <3>1. heard'[y] = longer /\ \A i \in DOMAIN longer : i \in DOMAIN heard[x] \/ i = Len(heard[x]) + 1
      BY <1>2, <1>4, <2>4 DEF IsLonger
    <3>2. sub[y] \in {"in", "dropping"}
      BY <1>9, <2>4 DEF PubSubIInv, PubSubTypes
    <3>3. ASSUME NEW i \in DOMAIN heard'[y] PROVE Taken(y, heard[y][i])'
      <4>1. i \in DOMAIN longer /\ longer[i] \in Emitters \X Nat
        BY <3>1, <3>3
      <4>2. PICK item \in Emitters \X Nat : item = longer[i]
        BY <4>1
      <4>3. Taken(y, item) \/ (y = x /\ item = <<e, n>>)
        BY <1>2, <1>13, <2>4, <3>1, <4>1, <4>2 DEF IsLonger
      <4>4. Taken(y, item)'
        BY <1>14, <4>3
      <4>5. heard'[y][i] = item
        BY <3>1, <4>2
      <4> QED
        BY <4>4, <4>5 DEF Taken
    <3>4. \A i \in DOMAIN heard[x] : heard[x][i][1] = e => heard[x][i][2] < n
      <4> SUFFICES ASSUME NEW i \in DOMAIN heard[x], heard[x][i][1] = e PROVE heard[x][i][2] < n
        OBVIOUS
      <4>1. heard[x][i] \in Emitters \X Nat /\ heard[x][i][2] <= n
        BY <1>12, <1>13 DEF Taken
      <4>2. heard[x][i] # <<e, n>>
        BY <1>9 DEF Heard, Range
      <4> QED
        BY <4>1, <4>2
    <3>5. ASSUME NEW i \in DOMAIN longer, NEW j \in DOMAIN longer, i < j, longer[i][1] = longer[j][1]
          PROVE  longer[i][2] < longer[j][2]
      <4>1. i \in DOMAIN heard[x]
        BY <1>2, <3>5 DEF IsLonger
      <4>2. CASE j \in DOMAIN heard[x]
        BY <1>2, <2>1, <2>4, <3>5, <4>1, <4>2 DEF IsLonger, Ordered
      <4>3. CASE j = Len(heard[x]) + 1
        BY <1>2, <3>4, <3>5, <4>1, <4>3 DEF IsLonger
      <4> QED
        BY <3>1, <4>2, <4>3
    <3>6. Ordered(heard'[y])
      <4>1. Ordered(longer)
        BY <3>5 DEF Ordered
      <4> QED
        BY <3>1, <4>1
    <3> QED
      BY <3>2, <3>3, <3>6
  <2> QED
    BY <2>3, <2>4
<1>16. ASSUME NEW y \in Listeners, NEW f \in Emitters, sub[y] = "in" PROVE WasHeard(y, f)'
  <2>1. WasHeard(y, f) /\ since[y][f] \in Nat /\ at[f].n \in Nat
    <3>1. WasHeard(y, f)
      BY <1>16 DEF PubSubIInv, TakenIsHeard, WasHeard
    <3>2. since[y][f] \in Nat /\ at[f].n \in Nat
      BY DEF PubSubIInv, PubSubTypes
    <3> QED
      BY <3>1, <3>2
  <2>2. \A m \in Nat : Heard(y, f, m) => <<f, m>> \in Range(heard'[y])
    BY <1>8
  <2>3. Busy(f) /\ y \in Range(at[f].todo) => y \in Range(at'[f].todo) \/ <<f, at[f].n>> \in Range(heard'[y])
    <3>1. CASE f = e /\ y = x
      BY <1>8, <1>16, <3>1
    <3>2. CASE f = e /\ y # x
      BY <1>6, <3>2
    <3>3. CASE f # e
      BY <1>6, <3>3
    <3> QED
      BY <3>1, <3>2, <3>3
  <2>4. at'[f].n = at[f].n /\ at'[f].level = at[f].level /\ (Busy(f)' <=> Busy(f))
    BY <1>7
  <2> QED
    BY <2>1, <2>2, <2>3, <2>4 DEF WasHeard, Heard
<1>17. TakenIsHeard'
  BY <1>16 DEF TakenIsHeard, WasHeard
<1> QED
  BY <1>5, <1>10, <1>11, <1>15, <1>17 DEF PubSubIInv

LEMMA CallNextOK ==
  ASSUME NEW e \in Emitters, PubSubIInv, CallNext(e) PROVE PubSubIInv'
<1>1. at[e] \in [n : Nat, level : 0 .. 2, todo : Seq(Listeners)] /\ DOMAIN at = Emitters
  BY DEF PubSubIInv, PubSubTypes
<1>2. /\ Busy(e) /\ at[e].todo # <<>> /\ UNCHANGED <<list, sub, subs, since>>
      /\ heard' = IF sub[Head(at[e].todo)] = "gone" THEN heard
                  ELSE [heard EXCEPT ![Head(at[e].todo)] = Append(@, <<e, at[e].n>>)]
      /\ at' = [at EXCEPT ![e].todo = Tail(@)]
  BY DEF CallNext, pubsub
<1>3. PICK n \in Nat, k \in 1 .. 2, snapshot \in Seq(Listeners) : at[e] = [n |-> n, level |-> k, todo |-> snapshot]
  BY <1>1, <1>2 DEF Busy
<1>4. Distinct(snapshot)
  BY <1>2, <1>3 DEF PubSubIInv, CalledOnce
<1>5. PICK x \in Listeners, todo \in Seq(Listeners) :
        x = Head(snapshot) /\ todo = Tail(snapshot) /\ x \in Range(snapshot) /\ Distinct(todo)
        /\ Range(todo) = Range(snapshot) \ {x}
  <2>1. snapshot # <<>>
    BY <1>2, <1>3
  <2>2. /\ Tail(snapshot) \in Seq(Listeners) /\ Head(snapshot) \in Range(snapshot) /\ Head(snapshot) \in Listeners
        /\ Distinct(Tail(snapshot)) /\ Range(Tail(snapshot)) = Range(snapshot) \ {Head(snapshot)}
    BY <1>4, <2>1, Rested
  <2> QED
    BY <2>2
<1>6. at' = [at EXCEPT ![e] = [n |-> n, level |-> k, todo |-> todo]]
  <2>1. Tail(at[e].todo) = todo
    BY <1>3, <1>5
  <2>2. [at[e] EXCEPT !.todo = todo] = [n |-> n, level |-> k, todo |-> todo]
    BY <1>3
  <2>3. at' = [at EXCEPT ![e] = [at[e] EXCEPT !.todo = todo]]
    BY <1>1, <1>2, <2>1
  <2> QED
    BY <2>2, <2>3
<1>7. heard' = IF sub[x] = "gone" THEN heard ELSE [heard EXCEPT ![x] = Append(@, <<e, n>>)]
  BY <1>2, <1>3, <1>5
<1>8. n = at[e].n /\ k = at[e].level /\ at[e].todo = snapshot
  BY <1>3
<1>9. /\ Busy(e) /\ UNCHANGED <<list, sub, subs, since>>
      /\ x \in Range(at[e].todo) /\ Distinct(todo) /\ Range(todo) = Range(at[e].todo) \ {x}
  BY <1>2, <1>5, <1>8
<1> QED
  BY <1>6, <1>7, <1>8, <1>9, CalledOK

-----------------------------------------------------------------------------
(* Every step of the run *)

(* A status event goes out while the manager is at no other one. *)
LEMMA EmitOK ==
  ASSUME PubSubIInv, ~Busy("manager"), UNCHANGED <<list, sub, subs, since>>, NEW status,
         Emit(status) \/ UNCHANGED stream
  PROVE  PubSubIInv'
<1>1. CASE UNCHANGED <<at, heard>>
  BY <1>1, PubSubSame
<1>2. CASE heard' = heard /\ at' = [at EXCEPT !["manager"] = [n |-> @.n + 1, level |-> 1, todo |-> subs["status"]]]
  <2>1. "manager" \in Emitters /\ Lists("manager")[1] = "status"
    BY DEF Emitters, Lists
  <2> QED
    BY <1>2, <2>1, TakeOK
<1> QED
  BY <1>1, <1>2 DEF Emit, stream

LEMMA ReadOK ==
  ASSUME NEW s \in Streams, PubSubIInv, Read(s) PROVE PubSubIInv'
<1>1. s \in Emitters /\ ~Busy(s) /\ UNCHANGED <<list, sub, subs, since, heard>>
  BY DEF Read, Emitters, pubsub
<1>2. at' = [at EXCEPT ![s] = [n |-> @.n + 1, level |-> 1, todo |-> subs[Lists(s)[1]]]]
  BY DEF Read
<1> QED
  BY <1>1, <1>2, TakeOK

(* The steps of the run itself touch the subscriptions by their events only. *)
LEMMA SetupOrRunOK ==
  ASSUME PubSubIInv, Setup \/ Run PROVE PubSubIInv'
<1>1. ASSUME Start \/ TimeoutsSet \/ SetupFailed \/ QuitRun \/ DropHandle \/ Done PROVE PubSubIInv'
  <2>1. ~Busy("manager") /\ UNCHANGED <<list, sub, subs, since>>
    BY <1>1 DEF Start, TimeoutsSet, SetupFailed, QuitRun, DropHandle, Done, Goes, pubsub
  <2>2. \E status \in {"SessionStarting", "SessionStarted", "DriverShutdown", "SessionEnded"} :
          Emit(status) \/ UNCHANGED stream
    BY <1>1 DEF Start, TimeoutsSet, SetupFailed, QuitRun, DropHandle, Done
  <2> QED
    BY <2>1, <2>2, EmitOK
<1>2. ASSUME Created \/ NotCreated(500) \/ NotCreated(404) \/ TimeoutsErr PROVE PubSubIInv'
  <2>1. UNCHANGED <<list, sub, subs, since, at, heard>>
    BY <1>2 DEF Created, NotCreated, TimeoutsErr, pubsub, stream
  <2> QED
    BY <2>1, PubSubSame
<1>3. ASSUME \/ \E ok \in BOOLEAN : Capture(ok)
             \/ \E outcome \in {"ok", "err", "panic"} : BodyEnds(outcome)
             \/ Left
             \/ \E outcome \in {"err", "panic"} : QuitFails(outcome)
             \/ CancelRun
      PROVE  PubSubIInv'
  <2>1. UNCHANGED <<list, sub, subs, since, at, heard>>
    BY <1>3 DEF Capture, BodyEnds, Left, QuitFails, CancelRun, pubsub, stream
  <2> QED
    BY <2>1, PubSubSame
<1> QED
  BY <1>1, <1>2, <1>3 DEF Setup, Run

LEMMA PubSubInit == RunInit => PubSubIInv
<1> SUFFICES ASSUME RunInit PROVE PubSubIInv
  OBVIOUS
<1>1. \A e \in Emitters : at[e].n = 0 /\ at[e].level = 0 /\ at[e] = [n |-> 0, level |-> 0, todo |-> <<>>]
  BY DEF RunInit
<1>2. /\ \A x \in Listeners : sub[x] = "out" /\ heard[x] = <<>>
      /\ \A l \in ListNames : subs[l] = <<>>
      /\ list \in [Listeners -> ListNames]
  BY DEF RunInit, ListNames
<1>3. Range(<<>>) = {} /\ Distinct(<<>>) /\ Ordered(<<>>)
  BY DEF Range, Distinct, Ordered
<1>4. PubSubTypes
  <2>1. \A e \in Emitters : at[e].level <= Len(Lists(e))
    BY <1>1, ListsAre
  <2>2. at \in [Emitters -> [n : Nat, level : 0 .. 2, todo : Seq(Listeners)]]
    BY DEF RunInit
  <2> QED
    BY <1>2, <2>1, <2>2 DEF RunInit, PubSubTypes, ListNames
<1>5. Listed
  BY <1>2, <1>3 DEF Listed
<1>6. CalledOnce
  BY <1>1 DEF CalledOnce, Busy
<1>7. HeardIsTaken
  BY <1>2, <1>3 DEF HeardIsTaken
<1>8. TakenIsHeard
  BY <1>2 DEF TakenIsHeard
<1> QED
  BY <1>4, <1>5, <1>6, <1>7, <1>8 DEF PubSubIInv

LEMMA PubSubStep == PubSubIInv /\ [RunNext]_runVars => PubSubIInv'
<1> SUFFICES ASSUME PubSubIInv, [RunNext]_runVars PROVE PubSubIInv'
  OBVIOUS
<1>1. ASSUME NEW x \in Listeners, Subscriber(x) PROVE PubSubIInv'
  BY <1>1, LoadOK, SwapOK DEF Subscriber
<1>2. ASSUME NEW s \in Streams, NEW line \in Lines, Writes(s, line) PROVE PubSubIInv'
  <2>1. UNCHANGED <<list, sub, subs, since, at, heard>>
    BY <1>2 DEF Writes, pubsub
  <2> QED
    BY <2>1, PubSubSame
<1>3. ASSUME NEW e \in Emitters, Emitter(e) PROVE PubSubIInv'
  BY <1>3, CallNextOK, NextListOK DEF Emitter
<1>4. CASE UNCHANGED runVars
  <2>1. UNCHANGED <<list, sub, subs, since, at, heard>>
    BY <1>4 DEF runVars, pubsub, stream
  <2> QED
    BY <2>1, PubSubSame
<1> QED
  BY <1>1, <1>2, <1>3, <1>4, ReadOK, SetupOrRunOK DEF RunNext

(* What is kept of the subscriptions, of the snapshots that the emitters go
   through, and of what was heard. *)
THEOREM SubscriptionsInductive == RunSpec => []PubSubIInv
  BY PubSubInit, PubSubStep, PTL DEF RunSpec

LEMMA HearsFromIInv == PubSubIInv => SubscribedHears
<1> SUFFICES ASSUME PubSubIInv, NEW x \in Listeners
             PROVE  /\ sub[x] = "in" => \A e \in Emitters :
                         list[x] \in Range(Lists(e)) =>
                           \A n \in since[x][e] + 1 .. at[e].n - (IF Busy(e) THEN 1 ELSE 0) : Heard(x, e, n)
                    /\ sub[x] = "gone" => x \notin Range(subs[list[x]])
                    /\ Ordered(heard[x])
  BY DEF SubscribedHears, Heard, Ordered
<1>1. ASSUME sub[x] = "in", NEW e \in Emitters, list[x] \in Range(Lists(e)),
             NEW n \in since[x][e] + 1 .. at[e].n - (IF Busy(e) THEN 1 ELSE 0)
      PROVE  Heard(x, e, n)
  <2>1. PICK l \in DOMAIN Lists(e) : list[x] = Lists(e)[l]
    BY <1>1 DEF Range
  <2>2. since[x][e] \in Nat /\ at[e].n \in Nat
    BY DEF PubSubIInv, PubSubTypes
  <2>3. /\ \A m \in Nat : since[x][e] < m /\ m < at[e].n => Heard(x, e, m)
        /\ since[x][e] < at[e].n => Heard(x, e, at[e].n) \/ Busy(e)
    BY <1>1, <2>1 DEF PubSubIInv, TakenIsHeard
  <2>4. n \in Nat /\ since[x][e] < n /\ n <= at[e].n /\ (Busy(e) => n < at[e].n)
    BY <1>1, <2>2
  <2> QED
    BY <2>2, <2>3, <2>4
<1>2. sub[x] = "gone" => x \notin Range(subs[list[x]])
  BY DEF PubSubIInv, Listed
<1>3. Ordered(heard[x])
  BY DEF PubSubIInv, HeardIsTaken
<1> QED
  BY <1>1, <1>2, <1>3

(* A subscription is called with every line and event that is taken while it
   lasts, of each stream in order, however the threads that add and remove
   others run into each other: for any number of subscriptions and lines. *)
THEOREM SubscribedHearsAlways == RunSpec => []SubscribedHears
  BY SubscriptionsInductive, HearsFromIInv, PTL

-----------------------------------------------------------------------------
(* What the run returns *)

Phases == {"start", "request", "timeouts", "failed", "body", "leaving", "quit", "drop", "guard", "done"}

\* Where the run is tells what has been decided: the session, the outcome of the
\* body, that of the cleanup, and whether the run was cancelled.
RunIsInOrder ==
  /\ phase \in Phases /\ mine \in Sessions \cup {None} /\ sessions \subseteq Sessions
  /\ body \in {"none", "ok", "err", "panic"} /\ cleanup \in {"none", "ok", "err", "panic"}
  /\ phase \in {"start", "request"} => mine = None
  /\ sessions \subseteq lost \cup {mine}
  /\ phase \in {"start", "request", "timeouts", "body"} => result = "none"
  /\ phase # "done" => result \in {"none", "cancelled"}
  /\ phase \in {"start", "request", "timeouts", "failed", "body"} => body = "none"
  /\ phase \in {"start", "request", "timeouts", "failed", "body", "leaving", "quit"} => cleanup = "none"
  /\ phase \in {"start", "request", "timeouts", "failed"} => ~quitCell
  /\ phase \in {"leaving", "quit", "drop", "guard"} /\ result = "none" => body # "none"
  /\ phase \in {"drop", "guard"} /\ result = "none" => cleanup # "none"
  /\ quitCell => mine \notin sessions
  /\ cleanup = "ok" => quitCell

\* What a run that was not cancelled, or whose setup failed, returns.
RunIInv == RunIsInOrder /\ FailureIsReported

LEMMA RunInOrderInit == RunInit => RunIInv
  BY SessionsAssumption DEF RunInit, RunIInv, RunIsInOrder, FailureIsReported, Phases

(* Setting up: nothing is returned before it has failed. *)
LEMMA SetupRunIInv ==
  ASSUME RunIInv, Setup PROVE RunIInv'
<1> USE SessionsAssumption DEF RunIInv, RunIsInOrder, FailureIsReported, Phases, Goes
<1>1. CASE Start
  BY <1>1 DEF Start, remote
<1>2. CASE Created
  BY <1>2 DEF Created
<1>3. ASSUME NEW status \in {500, 404}, NotCreated(status) PROVE RunIInv'
  BY <1>3 DEF NotCreated, Orphan
<1>4. CASE TimeoutsSet
  BY <1>4 DEF TimeoutsSet, remote
<1>5. CASE TimeoutsErr
  BY <1>5 DEF TimeoutsErr
<1>6. CASE SetupFailed
  BY <1>6 DEF SetupFailed, remote
<1> QED
  BY <1>1, <1>2, <1>3, <1>4, <1>5, <1>6 DEF Setup

LEMMA RunRunIInv ==
  ASSUME RunIInv, Run PROVE RunIInv'
<1> USE SessionsAssumption DEF RunIInv, RunIsInOrder, FailureIsReported, Phases, Goes
<1>1. ASSUME NEW ok \in BOOLEAN, Capture(ok) PROVE RunIInv'
  BY <1>1 DEF Capture, runner
<1>2. ASSUME NEW outcome \in {"ok", "err", "panic"}, BodyEnds(outcome) PROVE RunIInv'
  BY <1>2 DEF BodyEnds, remote
<1>3. CASE Left
  BY <1>3 DEF Left, remote
<1>4. CASE QuitRun
  BY <1>4 DEF QuitRun
<1>5. ASSUME NEW outcome \in {"err", "panic"}, QuitFails(outcome) PROVE RunIInv'
  BY <1>5 DEF QuitFails
<1>6. CASE CancelRun
  BY <1>6 DEF CancelRun, Orphan
<1>7. CASE DropHandle
  BY <1>7 DEF DropHandle
<1>8. CASE Done
  <2>1. /\ phase = "guard" /\ phase' = "done" /\ UNCHANGED <<sessions, mine, lost, quitCell, body, cleanup>>
        /\ result' = IF result = "none" THEN Outcome ELSE result
    BY <1>8 DEF Done, remote
  <2>2. CASE result = "none"
    <3>1. body \in {"ok", "err", "panic"} /\ cleanup \in {"ok", "err", "panic"} /\ result' = Outcome
      BY <2>1, <2>2
    <3>2. /\ Outcome = "ok" => body = "ok" /\ cleanup = "ok"
          /\ body = "err" => Outcome \in {"body", "body_and_cleanup", "cleanup_panic"}
          /\ body = "panic" => Outcome = "panic"
          /\ cleanup # "ok" => Outcome \notin {"ok", "body"}
      BY <3>1 DEF Outcome
    <3> QED
      BY <2>1, <2>2, <3>1, <3>2
  <2>3. CASE result = "cancelled"
    BY <2>1, <2>3
  <2> QED
    BY <2>1, <2>2, <2>3
<1> QED
  BY <1>1, <1>2, <1>3, <1>4, <1>5, <1>6, <1>7, <1>8 DEF Run

LEMMA RunStep == RunIInv /\ [RunNext]_runVars => RunIInv'
<1> SUFFICES ASSUME RunIInv, [RunNext]_runVars PROVE RunIInv'
  OBVIOUS
<1>1. CASE UNCHANGED <<remote, runner>>
  BY <1>1 DEF remote, runner, RunIInv, RunIsInOrder, FailureIsReported
<1>2. ASSUME NEW x \in Listeners, Subscriber(x) PROVE UNCHANGED <<remote, runner>>
  BY <1>2 DEF Subscriber, Load, Swap, Subscribed
<1>3. ASSUME NEW s \in Streams, Read(s) \/ \E line \in Lines : Writes(s, line) PROVE UNCHANGED <<remote, runner>>
  BY <1>3 DEF Read, Writes
<1>4. ASSUME NEW e \in Emitters, Emitter(e) PROVE UNCHANGED <<remote, runner>>
  BY <1>4 DEF Emitter, CallNext, NextList
<1>5. CASE UNCHANGED runVars
  BY <1>1, <1>5 DEF runVars
<1> QED
  BY <1>1, <1>2, <1>3, <1>4, <1>5, SetupRunIInv, RunRunIInv DEF RunNext

(* Where a run is tells what has been decided by then. *)
THEOREM RunInductive == RunSpec => []RunIsInOrder
  BY RunInOrderInit, RunStep, PTL DEF RunSpec, RunIInv

(* What goes wrong in a test, or in the cleanup after it, is in what the run
   returns, wherever it is cancelled and whichever requests fail, with or
   without anybody listening to the log. *)
THEOREM FailureIsReportedAlways == RunSpec => []FailureIsReported
  BY RunInOrderInit, RunStep, PTL DEF RunSpec, RunIInv

-----------------------------------------------------------------------------
(* The bytes of texts *)

(* What FoldLeft chooses for the widths of a text, and for those of texts. *)
IsBytesIter(it, s) == it = [x \in SUBSET DOMAIN s |-> IF x = {} THEN 0 ELSE it[x \ {Max(x)}] + s[Max(x)]]
IsTotalIter(it, s) == it = [x \in SUBSET DOMAIN s |-> IF x = {} THEN 0 ELSE it[x \ {Max(x)}] + Bytes(s[Max(x)])]

(* FoldLeft, in terms of that choice. *)
LEMMA BytesUnfold == ASSUME NEW s PROVE Bytes(s) = (CHOOSE it : IsBytesIter(it, s))[DOMAIN s]
  BY DEF Bytes, FoldLeft, MapThenFoldSet, IsBytesIter

(* FoldLeft, in terms of that choice. *)
LEMMA TotalUnfold == ASSUME NEW s PROVE Total(s) = (CHOOSE it : IsTotalIter(it, s))[DOMAIN s]
  BY DEF Total, FoldLeft, MapThenFoldSet, IsTotalIter

(* The bytes of a text are the sum of its widths. *)
LEMMA BytesIs == ASSUME NEW s \in Seq(Nat) PROVE Bytes(s) = SumTo(s, Len(s)) /\ Len(s) \in Nat /\ s \in [1 .. Len(s) -> Nat]
<1>1. DOMAIN s = 1 .. Len(s) /\ Len(s) \in Nat /\ s \in [1 .. Len(s) -> Nat]
  OBVIOUS
<1>2. PICK it \in [SUBSET (1 .. Len(s)) -> Nat] : SumsSets(it, s, Len(s))
  BY <1>1, SumsSetsExists
<1>3. IsBytesIter(it, s)
  <2>1. it = [x \in SUBSET (1 .. Len(s)) |-> it[x]]
    OBVIOUS
  <2> QED BY <2>1, <1>1, <1>2 DEF IsBytesIter, SumsSets
<1> DEFINE i == CHOOSE g : IsBytesIter(g, s)
<1>4. IsBytesIter(i, s)
  BY <1>3
<1>5. Bytes(s) = i[1 .. Len(s)]
  BY <1>1, BytesUnfold
<1> HIDE DEF i
<1>6. SumsSets(i, s, Len(s))
  BY <1>4, <1>1 DEF IsBytesIter, SumsSets
<1>7. PICK b \in [0 .. Len(s) -> Nat] : Sums(s, Len(s), b) /\ i[1 .. Len(s)] = b[Len(s)]
  BY <1>1, <1>6, SumsOfSets
<1> QED BY <1>1, <1>5, <1>7, SumToIs

(* They are a number. *)
LEMMA BytesOK == ASSUME NEW s \in Seq(Nat) PROVE Bytes(s) \in Nat
<1>1. PICK b \in [0 .. Len(s) -> Nat] : SumTo(s, Len(s)) = b[Len(s)]
  BY BytesIs, SumsExist
<1>2. Len(s) \in 0 .. Len(s)
  OBVIOUS
<1> QED BY <1>1, <1>2, BytesIs

(* The weights of texts. *)
Widths(texts) == [i \in 1 .. Len(texts) |-> Bytes(texts[i])]

(* Each text has one. *)
LEMMA WidthsOK == ASSUME NEW s \in Seq(Seq(Nat)) PROVE Widths(s) \in [1 .. Len(s) -> Nat] /\ Len(s) \in Nat
<1>1. ASSUME NEW i \in 1 .. Len(s) PROVE Bytes(s[i]) \in Nat
  BY BytesOK
<1> QED BY <1>1 DEF Widths

(* The bytes of texts are the sum of theirs. *)
LEMMA TotalIs == ASSUME NEW s \in Seq(Seq(Nat)) PROVE Total(s) = SumTo(Widths(s), Len(s))
<1> DEFINE w == Widths(s)
<1>1. DOMAIN s = 1 .. Len(s) /\ Len(s) \in Nat /\ w \in [1 .. Len(s) -> Nat] /\ \A k \in 1 .. Len(s) : w[k] = Bytes(s[k])
  BY WidthsOK DEF Widths
<1> HIDE DEF w
<1>0. ASSUME NEW x \in SUBSET (1 .. Len(s)), x # {} PROVE w[Max(x)] = Bytes(s[Max(x)])
  <2>1. Max(x) \in x
    BY <1>0, <1>1, MaxOK
  <2> QED BY <2>1, <1>1
<1>2. PICK it \in [SUBSET (1 .. Len(s)) -> Nat] : SumsSets(it, w, Len(s))
  BY <1>1, SumsSetsExists
<1>3. IsTotalIter(it, s)
  <2>1. it = [x \in SUBSET (1 .. Len(s)) |-> it[x]]
    OBVIOUS
  <2> QED BY <2>1, <1>0, <1>1, <1>2 DEF IsTotalIter, SumsSets
<1> DEFINE i == CHOOSE g : IsTotalIter(g, s)
<1>4. IsTotalIter(i, s)
  BY <1>3
<1>5. Total(s) = i[1 .. Len(s)]
  BY <1>1, TotalUnfold
<1> HIDE DEF i
<1>6. SumsSets(i, w, Len(s))
  BY <1>4, <1>0, <1>1 DEF IsTotalIter, SumsSets
<1>7. PICK b \in [0 .. Len(s) -> Nat] : Sums(w, Len(s), b) /\ i[1 .. Len(s)] = b[Len(s)]
  <2>1. Len(s) \in Nat /\ w \in [1 .. Len(s) -> Nat]
    BY <1>1
  <2> QED BY <2>1, <1>6, SumsOfSets
<1>8. Total(s) = SumTo(w, Len(s))
  BY <1>1, <1>5, <1>7, SumToIs
<1> QED BY <1>8 DEF w

(* What a prefix of a text takes. *)
LEMMA BytesOfParts ==
  ASSUME NEW s \in Seq(Nat), NEW t \in Seq(Nat)
  PROVE  Bytes(s \o t) = Bytes(s) + Bytes(t)
<1>1. /\ s \o t \in Seq(Nat) /\ Len(s \o t) = Len(s) + Len(t) /\ Len(s) \in Nat /\ Len(t) \in Nat
      /\ \A k \in 1 .. Len(s) : (s \o t)[k] = s[k]
      /\ \A k \in 1 .. Len(t) : (s \o t)[Len(s) + k] = t[k]
  OBVIOUS
<1>0. PICK w : w = s \o t
  OBVIOUS
<1>2. PICK n \in Nat : n = Len(s) + Len(t) /\ w = s \o t
  BY <1>0, <1>1
<1>3. w \in [1 .. n -> Nat] /\ Len(s) \in 0 .. n /\ n - Len(s) = Len(t)
  <2>1. w \in Seq(Nat) /\ Len(w) = n
    BY <1>1, <1>2
  <2>2. w \in [1 .. n -> Nat]
    BY <2>1, LenProperties
  <2> QED BY <2>2, <1>1, <1>2
<1>4. SumTo(w, n) = SumTo(s, Len(s)) + SumTo(t, n - Len(s))
  <2>1. s \in [1 .. Len(s) -> Nat] /\ t \in [1 .. n - Len(s) -> Nat] /\ \A k \in 1 .. n - Len(s) : t[k] = w[Len(s) + k]
    BY <1>1, <1>2, <1>3
  <2> QED BY <2>1, <1>1, <1>2, <1>3, SumOfBoth
<1> QED BY <1>1, <1>2, <1>3, <1>4, BytesIs

(* An empty text has none. *)
LEMMA NoBytes == Bytes(<<>>) = 0
<1>1. <<>> \in Seq(Nat) /\ <<>> \o <<>> = <<>>
  OBVIOUS
<1>2. Bytes(<<>>) \in Nat /\ Bytes(<<>>) = Bytes(<<>>) + Bytes(<<>>)
  BY <1>1, BytesOK, BytesOfParts
<1> QED BY <1>2

(* A text of one character has its width. *)
LEMMA OneWidth == ASSUME NEW n \in Nat PROVE Bytes(<<n>>) = n
<1>1. <<n>> \in Seq(Nat) /\ Len(<<n>>) = 1 /\ <<n>>[1] = n /\ <<n>> \in [1 .. 1 -> Nat]
  OBVIOUS
<1>2. PICK b \in [0 .. 1 -> Nat] : Sums(<<n>>, 1, b) /\ SumTo(<<n>>, 1) = b[1]
  BY <1>1, SumsExist
<1>3. b[1] = b[0] + n /\ b[0] = 0
  BY <1>1, <1>2 DEF Sums
<1>4. Bytes(<<n>>) = SumTo(<<n>>, 1)
  BY <1>1, BytesIs
<1> QED BY <1>2, <1>3, <1>4

(* From back to front it is as long. *)
LEMMA BytesOfReverse == ASSUME NEW s \in Seq(Nat) PROVE Reverse(s) \in Seq(Nat) /\ Bytes(Reverse(s)) = Bytes(s)
<1>1. /\ Reverse(s) \in Seq(Nat) /\ Len(Reverse(s)) = Len(s) /\ Len(s) \in Nat
      /\ \A k \in 1 .. Len(s) : Reverse(s)[k] = s[Len(s) + 1 - k]
  <2>1. Reverse(s) = [i \in 1 .. Len(s) |-> s[(Len(s) - i) + 1]]
    BY DEF Reverse
  <2>2. ASSUME NEW k \in 1 .. Len(s) PROVE (Len(s) - k) + 1 = Len(s) + 1 - k /\ (Len(s) - k) + 1 \in 1 .. Len(s)
    OBVIOUS
  <2>3. Reverse(s) \in [1 .. Len(s) -> Nat]
    BY <2>1, <2>2
  <2> QED BY <2>1, <2>2, <2>3
<1>2. PICK n \in Nat : n = Len(s)
  BY <1>1
<1>5. PICK r : r = Reverse(s)
  OBVIOUS
<1>3. r \in [1 .. n -> Nat] /\ s \in [1 .. n -> Nat] /\ \A k \in 1 .. n : r[k] = s[n + 1 - k]
  BY <1>1, <1>2, <1>5
<1>4. SumTo(r, n) = SumTo(s, n)
  BY <1>3, SumOfReverse
<1> QED BY <1>1, <1>2, <1>4, <1>5, BytesIs

(* artifacts.rs: truncate_prefix() stays within its limit. *)
LEMMA PrefixOK ==
  ASSUME NEW s \in Seq(Nat), NEW max \in Nat
  PROVE  TruncatePrefix(s, max) \in Seq(Nat) /\ Bytes(TruncatePrefix(s, max)) <= max
<1> DEFINE fits == {k \in 0 .. Len(s) : Bytes(SubSeq(s, 1, k)) <= max}
           last == CHOOSE k \in fits : \A j \in fits : j <= k
<1>1. 0 \in fits
  <2>1. SubSeq(s, 1, 0) = <<>>
    BY SubSeqEmpty
  <2>2. Bytes(SubSeq(s, 1, 0)) = 0
    BY <2>1, NoBytes, Zenon
  <2>3. Len(s) \in Nat
    OBVIOUS
  <2>4. 0 \in 0 .. Len(s) /\ 0 <= max
    BY <2>3
  <2> QED BY <2>2, <2>4
<1>2. last \in fits
  <2>1. fits \in SUBSET (0 .. Len(s)) /\ Len(s) \in Nat
    OBVIOUS
  <2> HIDE DEF fits
  <2>2. \E k \in fits : \A j \in fits : j <= k
    BY <2>1, <1>1, GreatestOK
  <2> QED BY <2>2
<1>3. TruncatePrefix(s, max) = SubSeq(s, 1, last)
  BY DEF TruncatePrefix
<1>4. SubSeq(s, 1, last) \in Seq(Nat)
  <2>1. last \in 0 .. Len(s)
    BY <1>2
  <2> HIDE DEF last
  <2>2. last \in Int /\ \A i \in 1 .. last : s[i] \in Nat
    BY <2>1
  <2> QED BY <2>2, SubSeqProperties
<1> QED BY <1>2, <1>3, <1>4

(* artifacts.rs: truncate_prefix() cuts at the end, if at all. *)
LEMMA PrefixIsStart ==
  ASSUME NEW s \in Seq(Nat), NEW max \in Nat
  PROVE  /\ IsPrefix(TruncatePrefix(s, max), s)
         /\ Bytes(s) <= max => TruncatePrefix(s, max) = s
         /\ Bytes(TruncatePrefix(s, max)) <= Bytes(s)
<1> DEFINE fits == {k \in 0 .. Len(s) : Bytes(SubSeq(s, 1, k)) <= max}
           last == CHOOSE k \in fits : \A j \in fits : j <= k
<1>1. 0 \in fits
  <2>1. SubSeq(s, 1, 0) = <<>>
    BY SubSeqEmpty
  <2>2. Bytes(SubSeq(s, 1, 0)) = 0
    BY <2>1, NoBytes, Zenon
  <2>3. Len(s) \in Nat
    OBVIOUS
  <2>4. 0 \in 0 .. Len(s) /\ 0 <= max
    BY <2>3
  <2> QED BY <2>2, <2>4
<1>2. last \in fits /\ \A j \in fits : j <= last
  <2>1. fits \in SUBSET (0 .. Len(s)) /\ Len(s) \in Nat
    OBVIOUS
  <2> HIDE DEF fits
  <2>2. \E k \in fits : \A j \in fits : j <= k
    BY <2>1, <1>1, GreatestOK
  <2> QED BY <2>2
<1>3. TruncatePrefix(s, max) = SubSeq(s, 1, last)
  BY DEF TruncatePrefix
<1> HIDE DEF last
<1>4. PICK n \in Nat : n = Len(s)
  OBVIOUS
<1>5. last \in 0 .. n
  BY <1>2, <1>4
<1> HIDE DEF fits
<1>6. PICK p : p = SubSeq(s, 1, last)
  OBVIOUS
<1>7. PICK q : q = SubSeq(s, last + 1, n)
  OBVIOUS
<1>8. p \in Seq(Nat) /\ Len(p) = last /\ \A i \in 1 .. last : p[i] = s[i]
  BY <1>4, <1>5, <1>6
<1>9. q \in Seq(Nat) /\ s = p \o q
  <2>1. SubSeq(s, 1, last) \o SubSeq(s, last + 1, n) = SubSeq(s, 1, n)
    <3>1. 1 \in 1 .. Len(s) + 1 /\ last \in 1 - 1 .. Len(s) /\ n \in last .. Len(s)
      BY <1>4, <1>5
    <3> QED BY <3>1, ConcatAdjacentSubSeq
  <2>2. SubSeq(s, 1, n) = s
    BY <1>4, SubSeqFull
  <2>3. q \in Seq(Nat)
    BY <1>4, <1>5, <1>7, SubSeqProperties
  <2> QED BY <2>1, <2>2, <2>3, <1>6, <1>7
<1>10. SubSeq(p, 1, Len(p)) = SubSeq(s, 1, Len(p))
  BY <1>4, <1>5, <1>6, <1>8
<1>11. IsPrefix(p, s)
  BY <1>4, <1>5, <1>8, <1>10 DEF IsPrefix
<1>12. Bytes(p) <= Bytes(s)
  BY <1>8, <1>9, BytesOfParts, BytesOK
<1>13. ASSUME Bytes(s) <= max PROVE p = s
  <2>1. SubSeq(s, 1, n) = s
    BY <1>4, SubSeqFull
  <2>2. n \in fits
    <3>1. n \in 0 .. Len(s)
      BY <1>4
    <3>2. Bytes(SubSeq(s, 1, n)) <= max
      BY <1>13, <2>1, Zenon
    <3> QED BY <3>1, <3>2, Zenon DEF fits
  <2>3. last = n
    BY <2>2, <1>2, <1>5
  <2> QED BY <2>1, <2>3, <1>6
<1> QED BY <1>3, <1>6, <1>11, <1>12, <1>13

(* artifacts.rs: and so does truncate_suffix(). *)
LEMMA SuffixOK ==
  ASSUME NEW s \in Seq(Nat), NEW max \in Nat
  PROVE  TruncateSuffix(s, max) \in Seq(Nat) /\ Bytes(TruncateSuffix(s, max)) <= max
  BY BytesOfReverse, PrefixOK DEF TruncateSuffix

(* artifacts.rs: an excerpt of the source stays within its limit, and is the
   source when that fits. *)
LEMMA MiddleOK ==
  ASSUME NEW s \in Seq(Nat), NEW max \in Nat
  PROVE  /\ TruncateMiddle(s, max) \in Seq(Nat) /\ Bytes(TruncateMiddle(s, max)) <= max
         /\ Bytes(s) <= max => TruncateMiddle(s, max) = s
<1>1. CASE Bytes(s) <= max
  BY <1>1 DEF TruncateMiddle
<1>2. CASE Bytes(s) > max /\ max <= Omitted
  BY <1>2, BytesOK, PrefixOK DEF TruncateMiddle
<1>3. CASE Bytes(s) > max /\ ~(max <= Omitted)
  <2>1. PICK p \in Nat : p = max - Omitted
    BY <1>3, OmittedAssumption
  <2>2. (p + 1) \div 2 \in Nat /\ p \div 2 \in Nat /\ (p + 1) \div 2 + p \div 2 = p
    OBVIOUS
  <2>3. PICK x \in Nat, y \in Nat : x = (p + 1) \div 2 /\ y = p \div 2 /\ x + y = p
    BY <2>2
  <2>4. PICK a, c : a = TruncatePrefix(s, x) /\ c = TruncateSuffix(s, y)
    OBVIOUS
  <2>0. PICK mark : mark = <<Omitted>>
    OBVIOUS
  <2>10. ~(Bytes(s) <= max)
    BY <1>3, BytesOK
  <2>5. TruncateMiddle(s, max) = a \o mark \o c
    BY <1>3, <2>0, <2>10, <2>1, <2>3, <2>4, Zenon DEF TruncateMiddle
  <2>6. a \in Seq(Nat) /\ Bytes(a) <= x /\ c \in Seq(Nat) /\ Bytes(c) <= y /\ Bytes(a) \in Nat /\ Bytes(c) \in Nat
    BY <2>4, PrefixOK, SuffixOK, BytesOK
  <2>7. mark \in Seq(Nat) /\ Bytes(mark) = Omitted
    BY <2>0, OmittedAssumption, OneWidth
  <2>13. PICK am : am = a \o mark
    OBVIOUS
  <2>8. am = a \o mark /\ am \in Seq(Nat) /\ Bytes(am) = Bytes(a) + Omitted
    <3>1. Bytes(a \o mark) = Bytes(a) + Bytes(mark)
      BY <2>6, <2>7, BytesOfParts
    <3>2. a \o mark \in Seq(Nat)
      BY <2>6, <2>7, ConcatProperties
    <3> QED BY <3>1, <3>2, <2>7, <2>13
  <2>14. PICK amc : amc = am \o c
    OBVIOUS
  <2>9. amc = am \o c /\ amc \in Seq(Nat) /\ Bytes(amc) = Bytes(am) + Bytes(c)
    <3>1. Bytes(am \o c) = Bytes(am) + Bytes(c)
      BY <2>6, <2>8, BytesOfParts
    <3>2. am \o c \in Seq(Nat)
      BY <2>6, <2>8, ConcatProperties
    <3> QED BY <3>1, <3>2, <2>14
  <2>11. Bytes(amc) <= max
    <3>1. PICK u \in Nat, v \in Nat : u = Bytes(a) /\ v = Bytes(c)
      BY <2>6
    <3>2. Bytes(amc) = (u + Omitted) + v /\ u <= x /\ v <= y
      BY <3>1, <2>6, <2>8, <2>9
    <3>3. max = p + Omitted
      BY <2>1, OmittedAssumption
    <3> QED BY <3>1, <3>2, <3>3, <2>3, OmittedAssumption
  <2>12. TruncateMiddle(s, max) = amc
    BY <2>5, <2>8, <2>9
  <2> QED BY <2>9, <2>10, <2>11, <2>12
<1> QED BY <1>1, <1>2, <1>3, BytesOK

-----------------------------------------------------------------------------
(* The newest lines *)

(* The lines from i + 1 to j. *)
LEMMA PartOf ==
  ASSUME NEW s \in Seq(Seq(Nat)), NEW j \in 0 .. Len(s), NEW i \in 0 .. j
  PROVE  /\ SubSeq(s, i + 1, j) \in Seq(Seq(Nat)) /\ Len(SubSeq(s, i + 1, j)) = j - i
         /\ \A k \in 1 .. j - i : SubSeq(s, i + 1, j)[k] = s[i + k]
<1>1. \A k \in i + 1 .. j : s[k] \in Seq(Nat)
  OBVIOUS
<1>2. i + 1 \in Int /\ j \in Int
  OBVIOUS
<1>3. PICK t : t = SubSeq(s, i + 1, j)
  OBVIOUS
<1>4. /\ t \in Seq(Seq(Nat))
      /\ Len(t) = (IF i + 1 <= j THEN j - (i + 1) + 1 ELSE 0)
      /\ \A k \in 1 .. j - (i + 1) + 1 : t[k] = s[(i + 1) + k - 1]
  BY <1>1, <1>2, <1>3, SubSeqProperties
<1>5. Len(t) = j - i
  BY <1>4
<1>6. ASSUME NEW k \in 1 .. j - i PROVE t[k] = s[i + k]
  <2>1. k \in 1 .. j - (i + 1) + 1 /\ (i + 1) + k - 1 = i + k
    OBVIOUS
  <2> QED BY <2>1, <1>4
<1> QED BY <1>3, <1>4, <1>5, <1>6

(* The bytes of the lines from i + 1 to j, by the sums b of the first lines. *)
LEMMA TotalOfPart ==
  ASSUME NEW s \in Seq(Seq(Nat)), NEW b \in [0 .. Len(s) -> Nat], Sums(Widths(s), Len(s), b),
         NEW j \in 0 .. Len(s), NEW i \in 0 .. j
  PROVE  Total(SubSeq(s, i + 1, j)) = b[j] - b[i] /\ b[i] <= b[j]
<1>0. PICK w : w = Widths(s)
  OBVIOUS
<1>1. w \in [1 .. Len(s) -> Nat] /\ Len(s) \in Nat /\ \A k \in 1 .. Len(s) : w[k] = Bytes(s[k])
  BY <1>0, WidthsOK DEF Widths
<1>2. PICK m \in Nat : m = j - i
  OBVIOUS
<1>3. PICK t : t = SubSeq(s, i + 1, j)
  OBVIOUS
<1>4. t \in Seq(Seq(Nat)) /\ Len(t) = m /\ \A k \in 1 .. m : t[k] = s[i + k]
  BY <1>2, <1>3, PartOf
<1>5. PICK v : v = Widths(t)
  OBVIOUS
<1>6. v \in [1 .. m -> Nat] /\ \A k \in 1 .. m : v[k] = Bytes(t[k])
  BY <1>4, <1>5, WidthsOK DEF Widths
<1>7. \A k \in 1 .. m : v[k] = w[i + k]
  <2>1. ASSUME NEW k \in 1 .. m PROVE v[k] = w[i + k]
    <3>1. i + k \in 1 .. Len(s)
      BY <1>1, <1>2
    <3>2. v[k] = Bytes(t[k]) /\ t[k] = s[i + k] /\ w[i + k] = Bytes(s[i + k])
      BY <3>1, <1>1, <1>4, <1>6
    <3> QED BY <3>2
  <2> QED BY <2>1
<1>8. SumTo(v, m) = b[i + m] - b[i] /\ b[i] <= b[i + m]
  <2>1. i \in 0 .. Len(s) /\ i + m <= Len(s)
    BY <1>1, <1>2
  <2> QED BY <2>1, <1>0, <1>1, <1>6, <1>7, SumOfPart
<1>9. i + m = j /\ Total(t) = SumTo(v, m)
  <2>1. Total(t) = SumTo(Widths(t), Len(t))
    BY <1>4, TotalIs
  <2> QED BY <2>1, <1>2, <1>4, <1>5
<1> QED BY <1>3, <1>8, <1>9

(* The last k of the lines fit. *)
Fitting(k, N, b, limits) ==
  k <= limits.max_entries /\ (k > 0 => limits.max_total_text_bytes > 0) /\ b[N] - b[N - k] <= limits.max_total_text_bytes

Most(k, N, b, limits) ==
  k \in 0 .. N /\ Fitting(k, N, b, limits) /\ \A j \in 0 .. N : Fitting(j, N, b, limits) => j <= k

(* Newest is the last k lines, for the one k that is the most. *)
LEMMA NewestIs ==
  ASSUME NEW s \in Seq(Seq(Nat)), NEW limits \in LogLimits, NEW b \in [0 .. Len(s) -> Nat], Sums(Widths(s), Len(s), b)
  PROVE  /\ \E k : Most(k, Len(s), b, limits)
         /\ \A k : Most(k, Len(s), b, limits) => Newest(s, limits) = SubSeq(s, Len(s) - k + 1, Len(s))
<1> DEFINE last(k) == SubSeq(s, Len(s) - k + 1, Len(s))
           fits == {k \in 0 .. Len(s) : /\ k <= limits.max_entries
                                        /\ k > 0 => limits.max_total_text_bytes > 0
                                        /\ Total(last(k)) <= limits.max_total_text_bytes}
<1>0. Len(s) \in Nat
  OBVIOUS
<1>1. ASSUME NEW k \in 0 .. Len(s) PROVE Total(last(k)) = b[Len(s)] - b[Len(s) - k]
  <2>1. Len(s) - k \in 0 .. Len(s) /\ Len(s) \in 0 .. Len(s)
    BY <1>0
  <2> QED BY <2>1, TotalOfPart
<1>2. fits = {k \in 0 .. Len(s) : Fitting(k, Len(s), b, limits)}
  BY <1>1 DEF Fitting
<1>3. Newest(s, limits) = last(CHOOSE k \in fits : \A j \in fits : j <= k)
  BY DEF Newest
<1> HIDE DEF fits, last
<1>4. 0 \in fits
  <2>1. Len(s) - 0 = Len(s) /\ Len(s) \in 0 .. Len(s) /\ b[Len(s)] \in Nat
    BY <1>0
  <2>2. PICK x \in Nat : x = b[Len(s)]
    BY <2>1
  <2>3. b[Len(s)] - b[Len(s) - 0] = x - x
    BY <2>1, <2>2
  <2>4. Fitting(0, Len(s), b, limits)
    BY <2>3, <2>2 DEF Fitting, LogLimits
  <2> QED BY <2>4, <1>0, <1>2
<1>5. PICK m \in fits : \A j \in fits : j <= m
  <2>1. fits \in SUBSET (0 .. Len(s))
    BY <1>2
  <2> QED BY <2>1, <1>0, <1>4, GreatestOK
<1>6. Most(m, Len(s), b, limits)
  BY <1>2, <1>5 DEF Most
<1>7. ASSUME NEW k, Most(k, Len(s), b, limits) PROVE Newest(s, limits) = last(k)
  <2>1. k \in fits /\ \A j \in fits : j <= k
    BY <1>2, <1>7 DEF Most
  <2>2. PICK c : c = CHOOSE n \in fits : \A j \in fits : j <= n
    OBVIOUS
  <2>3. c \in fits /\ \A j \in fits : j <= c
    BY <2>1, <2>2
  <2>4. k <= c /\ c <= k /\ k \in Int /\ c \in Int
    BY <2>1, <2>3, <1>2
  <2>5. c = k
    BY <2>4
  <2> QED BY <2>2, <2>5, <1>3
<1> QED BY <1>6, <1>7 DEF last

(* A line is cut to what the buffer may hold at all. *)
LEMMA CutOK ==
  ASSUME NEW text \in Seq(Nat), NEW limits \in LogLimits
  PROVE  /\ Cut(text, limits) \in Seq(Nat) /\ Bytes(Cut(text, limits)) \in Nat
         /\ Bytes(Cut(text, limits)) <= limits.max_total_text_bytes
<1>1. PICK m \in Nat : m = Least(limits.max_entry_text_bytes, limits.max_total_text_bytes) /\ m <= limits.max_total_text_bytes
  BY DEF Least, LogLimits
<1>2. TruncatePrefix(text, m) \in Seq(Nat) /\ Bytes(TruncatePrefix(text, m)) <= m
  BY PrefixOK
<1>3. Cut(text, limits) = TruncatePrefix(text, m)
  BY <1>1 DEF Cut
<1>4. Bytes(Cut(text, limits)) \in Nat
  BY <1>2, <1>3, BytesOK
<1> QED BY <1>1, <1>2, <1>3, <1>4 DEF LogLimits

(* One line more, and its weight. *)
LEMMA SumsOfAppend ==
  ASSUME NEW s \in Seq(Seq(Nat)), NEW line \in Seq(Nat), NEW b \in [0 .. Len(s) + 1 -> Nat],
         Sums(Widths(Append(s, line)), Len(s) + 1, b)
  PROVE  \E c \in [0 .. Len(s) -> Nat] : /\ Sums(Widths(s), Len(s), c)
                                         /\ \A k \in 0 .. Len(s) : c[k] = b[k]
                                         /\ b[Len(s) + 1] = c[Len(s)] + Bytes(line)
<1>0. PICK n \in Nat : n = Len(s)
  OBVIOUS
<1>1. PICK t : t = Append(s, line)
  OBVIOUS
<1>2. t \in Seq(Seq(Nat)) /\ Len(t) = n + 1 /\ (\A k \in 1 .. n : t[k] = s[k]) /\ t[n + 1] = line
  BY <1>0, <1>1, AppendProperties
<1>3. \A k \in 1 .. n + 1 : Widths(t)[k] = Bytes(t[k])
  BY <1>2 DEF Widths
<1>4. \A k \in 1 .. n : Widths(s)[k] = Bytes(s[k])
  BY <1>0 DEF Widths
<1> DEFINE c == [k \in 0 .. n |-> b[k]]
<1>5. c \in [0 .. n -> Nat] /\ \A k \in 0 .. n : c[k] = b[k]
  BY <1>0
<1> HIDE DEF c
<1>6. Sums(Widths(s), n, c)
  <2>1. c[0] = 0
    BY <1>0, <1>1, <1>5 DEF Sums
  <2>2. ASSUME NEW k \in 1 .. n PROVE c[k] = c[k - 1] + Widths(s)[k]
    <3>1. k \in 0 .. n /\ k - 1 \in 0 .. n /\ k \in 1 .. n + 1
      OBVIOUS
    <3>2. b[k] = b[k - 1] + Widths(t)[k]
      BY <3>1, <1>0, <1>1 DEF Sums
    <3>3. Widths(t)[k] = Widths(s)[k]
      BY <3>1, <1>2, <1>3, <1>4
    <3> QED BY <3>1, <3>2, <3>3, <1>5
  <2> QED BY <2>1, <2>2 DEF Sums
<1>7. b[n + 1] = c[n] + Bytes(line)
  <2>1. n + 1 \in 1 .. n + 1 /\ (n + 1) - 1 = n /\ n \in 0 .. n
    OBVIOUS
  <2>2. b[n + 1] = b[n] + Widths(t)[n + 1]
    BY <2>1, <1>0, <1>1 DEF Sums
  <2> QED BY <2>1, <2>2, <1>2, <1>3, <1>5
<1> QED BY <1>0, <1>5, <1>6, <1>7

(* artifacts.rs:338-361: after each line the full has the newest of the lines
   pushed so far, as many as the limits allow. *)
LEMMA PushKeepsNewest ==
  ASSUME NEW s \in Seq(Seq(Nat)), NEW limits \in LogLimits, NEW text \in Seq(Nat)
  PROVE  Push(Newest(s, limits), text, limits) = Newest(Append(s, Cut(text, limits)), limits)
<1> DEFINE E == limits.max_entries
           T == limits.max_total_text_bytes
<1>0. E \in Nat /\ T \in Nat
  BY DEF LogLimits
<1> HIDE DEF E, T
<1> DEFINE line == Cut(text, limits)
<1>1. line = Cut(text, limits)
  OBVIOUS
<1> HIDE DEF line
<1>2. PICK W \in Nat : W = Bytes(line) /\ W <= T /\ line \in Seq(Nat)
  BY CutOK DEF T, line
<1>3. PICK s2 : s2 = Append(s, line)
  OBVIOUS
<1>4. PICK N \in Nat : N = Len(s)
  OBVIOUS
<1>5. /\ s2 \in Seq(Seq(Nat)) /\ Len(s2) = N + 1
      /\ \A k \in 1 .. N : s2[k] = s[k]
      /\ s2[N + 1] = line
  BY <1>2, <1>3, <1>4, AppendProperties
<1>6. PICK b2 \in [0 .. N + 1 -> Nat] : Sums(Widths(s2), N + 1, b2)
  BY <1>5, WidthsOK, SumsExist
<1>7. PICK b \in [0 .. N -> Nat] : Sums(Widths(s), N, b) /\ (\A k \in 0 .. N : b[k] = b2[k]) /\ b2[N + 1] = b[N] + W
  BY <1>2, <1>3, <1>4, <1>6, SumsOfAppend
<1>8. PICK K : Most(K, N, b, limits)
  BY <1>4, <1>7, NewestIs
<1>9. PICK full : full = Newest(s, limits)
  OBVIOUS
<1>10. full = SubSeq(s, N - K + 1, N)
  BY <1>4, <1>7, <1>8, <1>9, NewestIs
<1>11. K \in 0 .. N /\ N - K \in 0 .. N /\ N \in 0 .. N /\ K \in Nat
  BY <1>8 DEF Most
<1>12. /\ full \in Seq(Seq(Nat)) /\ Len(full) = K
       /\ \A k \in 1 .. K : full[k] = s[(N - K) + k]
  <2>1. N - (N - K) = K
    BY <1>11
  <2> QED BY <2>1, <1>4, <1>10, <1>11, PartOf
<1> DEFINE from(k) == SubSeq(full, k + 1, Len(full))
           room == {k \in 0 .. Len(full) : k = Len(full) \/ (Len(from(k)) < E /\ Total(from(k)) + Bytes(line) <= T)}
<1>13. ASSUME NEW k \in 0 .. K PROVE from(k) = SubSeq(s, (N - K + k) + 1, N) /\ Len(from(k)) = K - k /\ from(k) \in Seq(Seq(Nat))
  <2>1. from(k) \in Seq(Seq(Nat)) /\ Len(from(k)) = K - k /\ \A i \in 1 .. K - k : from(k)[i] = full[k + i]
    <3>1. k \in 0 .. K /\ K \in 0 .. K
      BY <1>11
    <3> QED BY <3>1, <1>12, PartOf
  <2>2. PICK j \in 0 .. N : j = N - K + k
    BY <1>11
  <2>3. PICK p : p = SubSeq(s, j + 1, N)
    OBVIOUS
  <2>4. p \in Seq(Seq(Nat)) /\ Len(p) = N - j /\ \A i \in 1 .. N - j : p[i] = s[j + i]
    BY <1>4, <1>11, <2>2, <2>3, PartOf
  <2>5. N - j = K - k
    BY <1>11, <2>2
  <2>6. ASSUME NEW i \in 1 .. K - k PROVE from(k)[i] = p[i]
    <3>1. k + i \in 1 .. K /\ (N - K) + (k + i) = j + i
      BY <1>11, <2>2
    <3>2. full[k + i] = s[j + i]
      BY <3>1, <1>12
    <3> QED BY <3>2, <2>1, <2>4, <2>5
  <2>7. PICK q : q = from(k)
    OBVIOUS
  <2>8. q \in Seq(Seq(Nat)) /\ Len(q) = Len(p) /\ \A i \in 1 .. Len(q) : q[i] = p[i]
    BY <2>1, <2>4, <2>5, <2>6, <2>7
  <2>9. q = p
    BY <2>4, <2>8, SeqEqual
  <2> QED BY <2>1, <2>2, <2>3, <2>7, <2>9
<1>14. ASSUME NEW k \in 0 .. K PROVE Total(from(k)) = b[N] - b[N - (K - k)] /\ N - (K - k) \in 0 .. N
  <2>1. PICK j \in 0 .. N : j = N - K + k /\ j = N - (K - k)
    BY <1>11
  <2>2. Total(SubSeq(s, j + 1, N)) = b[N] - b[j]
    BY <2>1, <1>4, <1>7, <1>11, TotalOfPart
  <2> QED BY <2>1, <2>2, <1>13
<1> HIDE DEF from
<1> DEFINE kept == from(CHOOSE k \in room : \A j \in room : k <= j)
<1>15. Push(full, text, limits) = IF E > 0 /\ T > 0 THEN Append(kept, line) ELSE kept
  BY DEF Push, from, E, T, line
<1>16. room \in SUBSET (0 .. K) /\ K \in room
  BY <1>11, <1>12
<1>17. \A k \in 0 .. K : k \in room <=> k = K \/ (K - k < E /\ b[N] - b[N - (K - k)] + W <= T)
  BY <1>2, <1>12, <1>13, <1>14
<1> HIDE DEF room
<1>18. PICK g \in room : \A j \in room : g <= j
  <2>1. room \in SUBSET Nat /\ room # {}
    BY <1>16
  <2> QED BY <2>1, LeastOK
<1>19. kept = from(g)
  <2>1. PICK c : c = CHOOSE k \in room : \A j \in room : k <= j
    OBVIOUS
  <2>2. c \in room /\ \A j \in room : c <= j
    BY <2>1, <1>18
  <2>3. c = g
    BY <2>2, <1>18, <1>16
  <2> QED BY <2>1, <2>3
<1> HIDE DEF kept
<1>20. g \in 0 .. K /\ kept = SubSeq(s, (N - K + g) + 1, N) /\ Len(kept) = K - g /\ kept \in Seq(Seq(Nat))
  BY <1>13, <1>16, <1>18, <1>19
<1>21. CASE E > 0 /\ T > 0
  <2>1. PICK M \in 1 .. N + 1 : M = K - g + 1
    BY <1>11, <1>20
  <2>2. M <= E
    BY <2>1, <1>0, <1>11, <1>17, <1>18, <1>20, <1>21
  <2>3. ASSUME NEW i \in 0 .. N PROVE /\ b2[N + 1] - b2[N + 1 - (i + 1)] = (b[N] + W) - b[N - i]
                                      /\ b[N] \in Nat /\ b[N - i] \in Nat
    <3>1. N + 1 - (i + 1) = N - i /\ N - i \in 0 .. N
      OBVIOUS
    <3>2. b2[N - i] = b[N - i] /\ b[N] \in Nat /\ b[N - i] \in Nat
      BY <3>1, <1>7, <1>11
    <3> QED BY <3>1, <3>2, <1>7
  <2>4. K - g \in 0 .. N /\ (b[N] + W) - b[N - (K - g)] <= T
    <3>1. K - g \in 0 .. N
      BY <1>11, <1>20
    <3>2. CASE g = K
      <4>1. N - (K - g) = N
        BY <3>2, <1>11, <1>20
      <4>2. PICK x \in Nat : x = b[N]
        BY <1>11
      <4>3. (b[N] + W) - b[N - (K - g)] = (x + W) - x
        BY <4>1, <4>2
      <4> QED BY <3>1, <4>3, <1>0, <1>2
    <3>3. CASE g # K
      <4>1. b[N] - b[N - (K - g)] + W <= T
        BY <3>3, <1>17, <1>18, <1>20
      <4>2. PICK x \in Nat, y \in Nat : x = b[N] /\ y = b[N - (K - g)]
        BY <2>3, <3>1
      <4>3. x - y + W <= T
        BY <4>1, <4>2
      <4>4. (x + W) - y <= T
        BY <4>3, <1>0
      <4> QED BY <3>1, <4>2, <4>4
    <3> QED BY <3>2, <3>3
  <2>5. b2[N + 1] - b2[N + 1 - M] <= T
    <3>1. M = (K - g) + 1
      BY <2>1
    <3> QED BY <3>1, <2>3, <2>4
  <2>6. ASSUME NEW j \in 0 .. N + 1, Fitting(j, N + 1, b2, limits) PROVE j <= M
    <3>1. CASE j = 0
      BY <3>1, <2>1
    <3>2. CASE j # 0
      <4>1. PICK i \in 0 .. N : j = i + 1
        <5>1. j - 1 \in 0 .. N /\ j = (j - 1) + 1
          BY <3>2
        <5> QED BY <5>1
      <4>2. i + 1 <= E /\ (b[N] + W) - b[N - i] <= T
        BY <4>1, <2>3, <2>6 DEF Fitting, E, T
      <4>3. PICK x \in Nat, y \in Nat : x = b[N] /\ y = b[N - i]
        BY <2>3
      <4>4. (x + W) - y <= T
        BY <4>2, <4>3
      <4>5. x - y <= T /\ x - y + W <= T
        BY <4>4, <1>0
      <4>6. Fitting(i, N, b, limits)
        <5>1. i <= E /\ b[N] - b[N - i] <= T
          BY <4>2, <4>3, <4>5, <1>0
        <5> QED BY <5>1, <1>21 DEF Fitting, E, T
      <4>7. i <= K
        BY <4>6, <1>8 DEF Most
      <4>8. K - i \in 0 .. K /\ K - (K - i) = i
        BY <4>7, <1>11
      <4>9. b[N] - b[N - (K - (K - i))] + W <= T /\ K - (K - i) < E
        <5>1. K - (K - i) = i /\ i < E
          BY <4>2, <4>8, <1>0
        <5>2. b[N] - b[N - i] + W <= T
          BY <4>3, <4>5
        <5> QED BY <5>1, <5>2
      <4>10. K - i \in room
        BY <4>8, <4>9, <1>17
      <4>11. g <= K - i
        BY <4>10, <1>18
      <4> QED BY <4>1, <4>11, <2>1, <1>11, <1>20
    <3> QED BY <3>1, <3>2
  <2>7. Most(M, N + 1, b2, limits)
    <3>1. M \in 0 .. N + 1
      OBVIOUS
    <3>2. Fitting(M, N + 1, b2, limits)
      BY <2>2, <2>5, <1>21 DEF Fitting, E, T
    <3> QED BY <3>1, <3>2, <2>6 DEF Most
  <2>8. Newest(s2, limits) = SubSeq(s2, ((N + 1) - M) + 1, N + 1)
    BY <2>7, <1>5, <1>6, NewestIs
  <2>9. PICK p : p = SubSeq(s2, ((N + 1) - M) + 1, N + 1)
    OBVIOUS
  <2>10. PICK o \in 0 .. N : o = (N + 1) - M /\ o = N - K + g
    BY <2>1, <1>11, <1>20
  <2>11. p \in Seq(Seq(Nat)) /\ Len(p) = (N + 1) - o /\ \A k \in 1 .. (N + 1) - o : p[k] = s2[o + k]
    <3>1. N + 1 \in 0 .. Len(s2) /\ o \in 0 .. N + 1
      BY <1>5
    <3> QED BY <3>1, <2>9, <2>10, <1>5, PartOf
  <2>12. PICK q : q = Append(kept, line)
    OBVIOUS
  <2>13. /\ q \in Seq(Seq(Nat)) /\ Len(q) = (K - g) + 1
         /\ \A k \in 1 .. K - g : q[k] = kept[k]
         /\ q[(K - g) + 1] = line
    <3>1. PICK l : l = kept
      OBVIOUS
    <3>2. l \in Seq(Seq(Nat)) /\ line \in Seq(Nat) /\ q = Append(l, line) /\ Len(l) = K - g
      BY <3>1, <2>12, <1>2, <1>20
    <3>3. /\ q \in Seq(Seq(Nat)) /\ Len(q) = Len(l) + 1
          /\ \A k \in 1 .. Len(l) : q[k] = l[k]
          /\ q[Len(l) + 1] = line
      BY <3>2, AppendProperties
    <3> QED BY <3>1, <3>2, <3>3
  <2>14. \A k \in 1 .. K - g : kept[k] = s[o + k]
    <3>1. N \in 0 .. Len(s) /\ o \in 0 .. N /\ N - o = K - g
      BY <1>4, <2>10, <1>11, <1>20
    <3>2. kept = SubSeq(s, o + 1, N)
      BY <1>20, <2>10, Zenon
    <3> QED BY <3>1, <3>2, <1>4, PartOf
  <2>15. (N + 1) - o = (K - g) + 1 /\ o + ((K - g) + 1) = N + 1
    <3>1. PICK h \in Nat, l \in Nat : h = g /\ l = K
      BY <1>11, <1>20
    <3>2. o = N - l + h
      BY <2>10, <3>1
    <3>3. (N + 1) - o = (l - h) + 1 /\ o + ((l - h) + 1) = N + 1
      BY <3>2
    <3> QED BY <3>1, <3>3
  <2>16. ASSUME NEW k \in 1 .. (K - g) + 1 PROVE q[k] = p[k]
    <3>1. p[k] = s2[o + k]
      BY <2>11, <2>15
    <3>2. CASE k = (K - g) + 1
      <4>1. s2[o + k] = line
        BY <3>2, <2>15, <1>5
      <4> QED BY <3>1, <3>2, <4>1, <2>13
    <3>3. CASE k # (K - g) + 1
      <4>1. k \in 1 .. K - g /\ o + k \in 1 .. N
        BY <3>3, <2>10, <1>11, <1>20
      <4> QED BY <3>1, <4>1, <2>13, <2>14, <1>5
    <3> QED BY <3>2, <3>3
  <2>17. q = p
    <3>1. Len(q) = Len(p) /\ \A k \in 1 .. Len(q) : q[k] = p[k]
      BY <2>11, <2>13, <2>15, <2>16
    <3> QED BY <3>1, <2>11, <2>13, SeqEqual
  <2> QED BY <2>8, <2>9, <2>12, <2>17, <1>1, <1>3, <1>9, <1>15, <1>21
<1>22. CASE ~(E > 0 /\ T > 0)
  <2>1. K = 0
    <3>1. K <= E /\ (K > 0 => T > 0)
      BY <1>8 DEF Most, Fitting, E, T
    <3> QED BY <3>1, <1>0, <1>11, <1>22
  <2>2. Len(kept) = 0
    BY <2>1, <1>20
  <2>3. kept = <<>>
    BY <2>2, <1>20, EmptySeq
  <2>4. ASSUME NEW j \in 0 .. N + 1, Fitting(j, N + 1, b2, limits) PROVE j <= 0
    BY <2>4, <1>0, <1>22 DEF Fitting, E, T
  <2>5. b2[N + 1] - b2[N + 1 - 0] <= T
    <3>1. N + 1 - 0 = N + 1 /\ N + 1 \in 0 .. N + 1
      OBVIOUS
    <3>2. PICK x \in Nat : x = b2[N + 1]
      BY <3>1
    <3>3. b2[N + 1] - b2[N + 1 - 0] = x - x
      BY <3>1, <3>2
    <3> QED BY <3>3, <1>0
  <2>6. Most(0, N + 1, b2, limits)
    BY <2>4, <2>5, <1>0 DEF Most, Fitting, E, T
  <2>7. Newest(s2, limits) = SubSeq(s2, ((N + 1) - 0) + 1, N + 1)
    BY <2>6, <1>5, <1>6, NewestIs
  <2>8. SubSeq(s2, ((N + 1) - 0) + 1, N + 1) = <<>>
    <3>1. ((N + 1) - 0) + 1 \in Int /\ N + 1 \in Int /\ N + 1 < ((N + 1) - 0) + 1
      OBVIOUS
    <3> QED BY <3>1, SubSeqEmpty
  <2> QED BY <2>3, <2>7, <2>8, <1>1, <1>3, <1>9, <1>15, <1>22
<1> QED BY <1>21, <1>22

-----------------------------------------------------------------------------
(* The browser's log *)

(* The bytes of two texts, and of three. *)
LEMMA TotalOfTwo == ASSUME NEW a \in Seq(Nat), NEW c \in Seq(Nat) PROVE Total(<<a, c>>) = Bytes(a) + Bytes(c)
<1>1. PICK s : s = <<a, c>>
  OBVIOUS
<1>2. s \in Seq(Seq(Nat)) /\ Len(s) = 2 /\ s[1] = a /\ s[2] = c
  BY <1>1
<1>3. PICK w : w = Widths(s)
  OBVIOUS
<1>4. w \in [1 .. 2 -> Nat] /\ w[1] = Bytes(a) /\ w[2] = Bytes(c)
  <2>1. w \in [1 .. 2 -> Nat]
    BY <1>2, <1>3, WidthsOK
  <2>2. w = [i \in 1 .. 2 |-> Bytes(s[i])]
    BY <1>2, <1>3 DEF Widths
  <2>3. 1 \in 1 .. 2 /\ 2 \in 1 .. 2 /\ 2 \in 1 .. 2
    OBVIOUS
  <2> QED BY <2>1, <2>2, <2>3, <1>2
<1>5. PICK b \in [0 .. 2 -> Nat] : Sums(w, 2, b) /\ SumTo(w, 2) = b[2]
  BY <1>4, SumsExist
<1>6. b[0] = 0 /\ b[1] = b[0] + w[1] /\ b[2] = b[1] + w[2]
  BY <1>5 DEF Sums
<1>7. Total(s) = SumTo(w, 2)
  BY <1>2, <1>3, TotalIs
<1>8. Bytes(a) \in Nat /\ Bytes(c) \in Nat
  BY BytesOK
<1>9. PICK x \in Nat, y \in Nat : x = Bytes(a) /\ y = Bytes(c)
  BY <1>8
<1>10. b[2] = x + y
  BY <1>4, <1>6, <1>9
<1> QED BY <1>1, <1>5, <1>7, <1>9, <1>10

(* The same of three texts: what they take together is the sum of what each takes. *)
LEMMA TotalOfThree ==
  ASSUME NEW a \in Seq(Nat), NEW d \in Seq(Nat), NEW c \in Seq(Nat)
  PROVE  Total(<<a, d, c>>) = Bytes(a) + Bytes(d) + Bytes(c)
<1>1. PICK s : s = <<a, d, c>>
  OBVIOUS
<1>2. s \in Seq(Seq(Nat)) /\ Len(s) = 3 /\ s[1] = a /\ s[2] = d /\ s[3] = c
  BY <1>1
<1>3. PICK w : w = Widths(s)
  OBVIOUS
<1>4. w \in [1 .. 3 -> Nat] /\ w[1] = Bytes(a) /\ w[2] = Bytes(d) /\ w[3] = Bytes(c)
  <2>1. w \in [1 .. 3 -> Nat]
    BY <1>2, <1>3, WidthsOK
  <2>2. w = [i \in 1 .. 3 |-> Bytes(s[i])]
    BY <1>2, <1>3 DEF Widths
  <2>3. 1 \in 1 .. 3 /\ 2 \in 1 .. 3 /\ 3 \in 1 .. 3
    OBVIOUS
  <2> QED BY <2>1, <2>2, <2>3, <1>2
<1>5. PICK b \in [0 .. 3 -> Nat] : Sums(w, 3, b) /\ SumTo(w, 3) = b[3]
  BY <1>4, SumsExist
<1>6. b[0] = 0 /\ b[1] = b[0] + w[1] /\ b[2] = b[1] + w[2] /\ b[3] = b[2] + w[3]
  BY <1>5 DEF Sums
<1>7. Total(s) = SumTo(w, 3)
  BY <1>2, <1>3, TotalIs
<1>8. Bytes(a) \in Nat /\ Bytes(d) \in Nat /\ Bytes(c) \in Nat
  BY BytesOK
<1>9. PICK x \in Nat, y \in Nat, z \in Nat : x = Bytes(a) /\ y = Bytes(c) /\ z = Bytes(d)
  BY <1>8
<1>10. b[3] = x + z + y
  BY <1>4, <1>6, <1>9
<1> QED BY <1>1, <1>5, <1>7, <1>9, <1>10

(* The texts of an entry, and their bytes. *)
LEMMA TextsOK ==
  ASSUME NEW e \in Entries
  PROVE  /\ Texts(e) \in Seq(Seq(Nat))
         /\ Total(Texts(e)) = Bytes(e[1]) + (IF e[2] = None THEN 0 ELSE Bytes(e[2])) + Bytes(e[3])
         /\ Total(Texts(e)) \in Nat
<1>0. PICK a \in Seq(Nat), d \in Seq(Nat) \cup {None}, c \in Seq(Nat) : e = <<a, d, c>>
  BY DEF Entries
<1>1. e[1] = a /\ e[2] = d /\ e[3] = c
  BY <1>0
<1>2. Bytes(a) \in Nat /\ Bytes(c) \in Nat /\ (d # None => Bytes(d) \in Nat)
  BY BytesOK
<1>3. CASE d = None
  <2>1. Texts(e) = <<a, c>>
    BY <1>1, <1>3 DEF Texts
  <2>2. <<a, c>> \in Seq(Seq(Nat))
    OBVIOUS
  <2>3. Total(Texts(e)) = Bytes(a) + Bytes(c)
    BY <2>1, TotalOfTwo
  <2> QED BY <2>1, <2>2, <2>3, <1>1, <1>2, <1>3
<1>4. CASE d # None
  <2>1. Texts(e) = <<a, d, c>>
    BY <1>0, <1>1, <1>4 DEF Texts
  <2>2. <<a, d, c>> \in Seq(Seq(Nat)) /\ d \in Seq(Nat)
    BY <1>4
  <2>3. Total(Texts(e)) = Bytes(a) + Bytes(d) + Bytes(c)
    BY <2>1, <2>2, TotalOfThree
  <2>4. PICK x \in Nat, y \in Nat, z \in Nat : x = Bytes(a) /\ y = Bytes(d) /\ z = Bytes(c)
    BY <1>2, <1>4
  <2> QED BY <2>1, <2>2, <2>3, <2>4, <1>1, <1>4
<1> QED BY <1>3, <1>4

(* artifacts.rs:373-396: what is kept of an entry fits. *)
LEMMA BoundedOK ==
  ASSUME NEW e \in Entries, NEW n \in Nat
  PROVE  Bounded(e, n) \in Entries /\ Total(Texts(Bounded(e, n))) <= n
<1>0. e[1] \in Seq(Nat) /\ e[2] \in Seq(Nat) \cup {None} /\ e[3] \in Seq(Nat)
  BY DEF Entries
<1>1. PICK q \in Nat : q = n \div 8 /\ q + q <= n
  <2>1. n \div 8 \in Nat /\ n \div 8 + n \div 8 <= n
    OBVIOUS
  <2> QED BY <2>1
<1>2. PICK level \in Seq(Nat) : level = TruncatePrefix(e[1], q)
  BY <1>0, PrefixOK
<1>3. Bytes(level) \in Nat /\ Bytes(level) <= q
  BY <1>0, <1>2, PrefixOK, BytesOK
<1>4. PICK source : source = IF e[2] = None THEN None ELSE TruncatePrefix(e[2], q)
  OBVIOUS
<1>5. PICK u \in Nat : u = (IF e[2] = None THEN 0 ELSE Bytes(source)) /\ u <= q
  <2>1. CASE e[2] = None
    BY <2>1
  <2>2. CASE e[2] # None
    <3>1. source \in Seq(Nat) /\ Bytes(source) <= q
      BY <2>2, <1>0, <1>4, PrefixOK
    <3> QED BY <3>1, <2>2, BytesOK
  <2> QED BY <2>1, <2>2
<1>50. source \in Seq(Nat) \cup {None} /\ (IF source = None THEN 0 ELSE Bytes(source)) <= u /\ (IF source = None THEN 0 ELSE Bytes(source)) \in Nat
  <2>1. CASE e[2] = None
    BY <2>1, <1>4
  <2>2. CASE e[2] # None
    <3>1. source \in Seq(Nat) /\ u = Bytes(source)
      BY <2>2, <1>0, <1>4, <1>5, PrefixOK
    <3> QED BY <3>1
  <2> QED BY <2>1, <2>2
<1>6. PICK used \in Nat : used = Bytes(level) + u /\ used <= n
  BY <1>1, <1>3, <1>5
<1>7. Least(used, n) = used
  BY <1>6 DEF Least
<1>8. PICK m \in Nat : m = n - used
  BY <1>6
<1>9. PICK message \in Seq(Nat) : message = TruncatePrefix(e[3], m)
  BY <1>0, PrefixOK
<1>10. Bytes(message) \in Nat /\ Bytes(message) <= m
  BY <1>0, <1>9, PrefixOK, BytesOK
<1>11. Bounded(e, n) = <<level, source, message>>
  <2>1. Bytes(level) + (IF e[2] = None THEN 0 ELSE Bytes(source)) = used
    BY <1>5, <1>6
  <2>2. m = n - Least(used, n)
    BY <1>7, <1>8
  <2> QED BY <2>1, <2>2, <1>1, <1>2, <1>4, <1>9, Zenon DEF Bounded
<1>12. PICK x : x = <<level, source, message>>
  OBVIOUS
<1>13. x \in Entries /\ x[1] = level /\ x[2] = source /\ x[3] = message
  BY <1>12, <1>50 DEF Entries
<1>14. PICK v \in Nat : v = (IF source = None THEN 0 ELSE Bytes(source)) /\ v <= u
  BY <1>50
<1>15. Total(Texts(x)) = Bytes(level) + v + Bytes(message)
  BY <1>13, <1>14, TextsOK
<1>16. Total(Texts(x)) <= n
  <2>1. PICK y \in Nat, z \in Nat : y = Bytes(level) /\ z = Bytes(message)
    BY <1>3, <1>10
  <2>2. Total(Texts(x)) = (y + v) + z /\ used = y + u /\ z <= m
    BY <2>1, <1>6, <1>10, <1>15
  <2>3. m = n - used /\ v <= u
    BY <1>8, <1>14
  <2>4. (y + v) + z <= n
    BY <2>2, <2>3
  <2> QED BY <2>2, <2>4
<1> QED BY <1>11, <1>12, <1>13, <1>16

(* artifacts.rs:373-396: it is an excerpt, whose message is whole when the
   entry fits. *)
LEMMA BoundedIsExcerpt ==
  ASSUME NEW e \in Entries, NEW n \in Nat
  PROVE  IsExcerpt(Bounded(e, n), e) /\ (Total(Texts(e)) <= n => Bounded(e, n)[3] = e[3])
<1>0. e[1] \in Seq(Nat) /\ e[2] \in Seq(Nat) \cup {None} /\ e[3] \in Seq(Nat)
  BY DEF Entries
<1>1. PICK q \in Nat : q = n \div 8
  <2>1. n \div 8 \in Nat
    OBVIOUS
  <2> QED BY <2>1
<1>2. PICK level : level = TruncatePrefix(e[1], q)
  OBVIOUS
<1>3. level \in Seq(Nat) /\ IsPrefix(level, e[1]) /\ Bytes(level) <= Bytes(e[1]) /\ Bytes(level) \in Nat /\ Bytes(level) <= q
  BY <1>0, <1>2, PrefixOK, PrefixIsStart, BytesOK
<1>4. PICK source : source = IF e[2] = None THEN None ELSE TruncatePrefix(e[2], q)
  OBVIOUS
<1>5. PICK u \in Nat : /\ u = (IF e[2] = None THEN 0 ELSE Bytes(source))
                       /\ u <= (IF e[2] = None THEN 0 ELSE Bytes(e[2]))
                       /\ u <= q
  <2>1. CASE e[2] = None
    BY <2>1, <1>1
  <2>2. CASE e[2] # None
    <3>1. source \in Seq(Nat) /\ Bytes(source) <= Bytes(e[2]) /\ Bytes(source) <= q /\ Bytes(source) \in Nat
      BY <2>2, <1>0, <1>4, PrefixOK, PrefixIsStart, BytesOK
    <3> QED BY <3>1, <2>2
  <2> QED BY <2>1, <2>2
<1>6. IF e[2] = None THEN source = None ELSE IsPrefix(source, e[2])
  BY <1>0, <1>4, PrefixIsStart
<1>7. PICK l \in Nat : l = Bytes(level)
  BY <1>3
<1>8. PICK used \in Nat : used = l + u /\ used <= n
  <2>1. q + q <= n
    BY <1>1
  <2>2. l <= q /\ u <= q
    BY <1>3, <1>5, <1>7
  <2>3. l + u \in Nat /\ l + u <= n
    BY <2>1, <2>2
  <2> QED BY <2>3
<1>9. Least(used, n) = used
  BY <1>8 DEF Least
<1>10. PICK m \in Nat : m = n - used
  BY <1>8
<1>11. PICK message : message = TruncatePrefix(e[3], m)
  OBVIOUS
<1>12. IsPrefix(message, e[3])
  BY <1>0, <1>11, PrefixIsStart
<1>13. Bounded(e, n) = <<level, source, message>>
  <2>1. Bytes(level) + (IF e[2] = None THEN 0 ELSE Bytes(source)) = used
    BY <1>5, <1>7, <1>8
  <2>2. m = n - Least(used, n)
    BY <1>9, <1>10
  <2> QED BY <2>1, <2>2, <1>1, <1>2, <1>4, <1>11, Zenon DEF Bounded
<1>14. PICK x : x = <<level, source, message>>
  OBVIOUS
<1>15. x[1] = level /\ x[2] = source /\ x[3] = message
  BY <1>14
<1>16. IsExcerpt(x, e)
  BY <1>3, <1>6, <1>12, <1>15, Zenon DEF IsExcerpt
<1>17. ASSUME Total(Texts(e)) <= n PROVE message = e[3]
  <2>1. PICK a \in Nat, c \in Nat : a = Bytes(e[1]) /\ c = Bytes(e[3])
    BY <1>0, BytesOK
  <2>2. PICK d \in Nat : d = (IF e[2] = None THEN 0 ELSE Bytes(e[2]))
    BY <1>0, BytesOK
  <2>3. Total(Texts(e)) = a + d + c
    BY <2>1, <2>2, TextsOK
  <2>4. l <= a /\ u <= d /\ a + d + c <= n
    BY <2>1, <2>2, <2>3, <1>3, <1>5, <1>7, <1>17
  <2>5. c <= m
    BY <2>4, <1>8, <1>10
  <2> QED BY <2>1, <2>5, <1>0, <1>11, PrefixIsStart
<1> QED BY <1>13, <1>14, <1>15, <1>16, <1>17

(* What FoldLeft chooses for the bytes of entries. *)
IsLogBytesIter(it, s) == it = [x \in SUBSET DOMAIN s |-> IF x = {} THEN 0 ELSE it[x \ {Max(x)}] + Total(Texts(s[Max(x)]))]

(* FoldLeft, in terms of that choice. *)
LEMMA LogBytesUnfold == ASSUME NEW s PROVE LogBytes(s) = (CHOOSE it : IsLogBytesIter(it, s))[DOMAIN s]
  BY DEF LogBytes, FoldLeft, MapThenFoldSet, IsLogBytesIter

(* The bytes of each entry. *)
EntryWidths(s) == [i \in 1 .. Len(s) |-> Total(Texts(s[i]))]

(* Each entry has some. *)
LEMMA EntryWidthsOK == ASSUME NEW s \in Seq(Entries) PROVE EntryWidths(s) \in [1 .. Len(s) -> Nat] /\ Len(s) \in Nat
<1>1. ASSUME NEW i \in 1 .. Len(s) PROVE Total(Texts(s[i])) \in Nat
  BY TextsOK
<1> QED BY <1>1 DEF EntryWidths

(* The bytes of entries are the sum of theirs. *)
LEMMA LogBytesIs == ASSUME NEW s \in Seq(Entries) PROVE LogBytes(s) = SumTo(EntryWidths(s), Len(s)) /\ LogBytes(s) \in Nat
<1> DEFINE w == EntryWidths(s)
<1>1. DOMAIN s = 1 .. Len(s) /\ Len(s) \in Nat /\ w \in [1 .. Len(s) -> Nat] /\ \A k \in 1 .. Len(s) : w[k] = Total(Texts(s[k]))
  BY EntryWidthsOK DEF EntryWidths
<1> HIDE DEF w
<1>0. ASSUME NEW x \in SUBSET (1 .. Len(s)), x # {} PROVE w[Max(x)] = Total(Texts(s[Max(x)]))
  <2>1. Max(x) \in x
    BY <1>0, <1>1, MaxOK
  <2> QED BY <2>1, <1>1
<1>2. PICK it \in [SUBSET (1 .. Len(s)) -> Nat] : SumsSets(it, w, Len(s))
  BY <1>1, SumsSetsExists
<1>3. IsLogBytesIter(it, s)
  <2>1. it = [x \in SUBSET (1 .. Len(s)) |-> it[x]]
    OBVIOUS
  <2> QED BY <2>1, <1>0, <1>1, <1>2 DEF IsLogBytesIter, SumsSets
<1> DEFINE i == CHOOSE g : IsLogBytesIter(g, s)
<1>4. IsLogBytesIter(i, s)
  BY <1>3
<1>5. LogBytes(s) = i[1 .. Len(s)]
  BY <1>1, LogBytesUnfold
<1> HIDE DEF i
<1>6. SumsSets(i, w, Len(s))
  BY <1>4, <1>0, <1>1 DEF IsLogBytesIter, SumsSets
<1>7. PICK b \in [0 .. Len(s) -> Nat] : Sums(w, Len(s), b) /\ i[1 .. Len(s)] = b[Len(s)]
  <2>1. Len(s) \in Nat /\ w \in [1 .. Len(s) -> Nat]
    BY <1>1
  <2> QED BY <2>1, <1>6, SumsOfSets
<1>8. LogBytes(s) = SumTo(w, Len(s)) /\ b[Len(s)] \in Nat /\ LogBytes(s) = b[Len(s)]
  <2>1. Len(s) \in 0 .. Len(s)
    BY <1>1
  <2> QED BY <2>1, <1>1, <1>5, <1>7, SumToIs
<1> QED BY <1>8 DEF w

(* One more entry, in front. *)
LEMMA LogBytesOfCons ==
  ASSUME NEW x \in Entries, NEW s \in Seq(Entries)
  PROVE  <<x>> \o s \in Seq(Entries) /\ Len(<<x>> \o s) = 1 + Len(s) /\ LogBytes(<<x>> \o s) = Total(Texts(x)) + LogBytes(s)
<1>1. PICK t : t = <<x>> \o s
  OBVIOUS
<1>2. PICK n \in Nat : n = 1 + Len(s)
  OBVIOUS
<1>3. PICK h : h = <<x>>
  OBVIOUS
<1>4. h \in Seq(Entries) /\ Len(h) = 1 /\ h[1] = x /\ h \in [1 .. 1 -> Entries]
  BY <1>3
<1>5. /\ t \in Seq(Entries) /\ Len(t) = n
      /\ \A k \in 1 .. 1 : t[k] = h[k]
      /\ \A k \in 1 .. Len(s) : t[1 + k] = s[k]
  <2>1. /\ h \o s \in Seq(Entries)
        /\ Len(h \o s) = Len(h) + Len(s)
        /\ \A i \in 1 .. Len(h) + Len(s) : (h \o s)[i] = IF i <= Len(h) THEN h[i] ELSE s[i - Len(h)]
    BY <1>4, ConcatProperties
  <2>2. t = h \o s
    BY <1>1, <1>3
  <2>3. /\ t \in Seq(Entries) /\ Len(t) = n /\ n = Len(h) + Len(s)
        /\ \A i \in 1 .. n : t[i] = IF i <= 1 THEN h[i] ELSE s[i - 1]
    BY <2>1, <2>2, <1>2, <1>4
  <2>4. ASSUME NEW k \in 1 .. Len(s) PROVE t[1 + k] = s[k]
    <3>1. 1 + k \in 1 .. n /\ ~(1 + k <= 1) /\ (1 + k) - 1 = k
      BY <1>2
    <3> QED BY <3>1, <2>3
  <2>5. ASSUME NEW k \in 1 .. 1 PROVE t[k] = h[k]
    <3>1. k \in 1 .. n /\ k <= 1
      BY <1>2
    <3> QED BY <3>1, <2>3
  <2> QED BY <2>3, <2>4, <2>5
<1>6. PICK w : w = EntryWidths(t)
  OBVIOUS
<1>7. w \in [1 .. n -> Nat] /\ \A k \in 1 .. n : w[k] = Total(Texts(t[k]))
  BY <1>5, <1>6, EntryWidthsOK DEF EntryWidths
<1>8. PICK u : u = EntryWidths(h)
  OBVIOUS
<1>9. u \in [1 .. 1 -> Nat] /\ \A k \in 1 .. 1 : u[k] = Total(Texts(h[k]))
  BY <1>4, <1>8, EntryWidthsOK DEF EntryWidths
<1>10. PICK v : v = EntryWidths(s)
  OBVIOUS
<1>11. v \in [1 .. n - 1 -> Nat] /\ \A k \in 1 .. n - 1 : v[k] = Total(Texts(s[k]))
  <2>1. n - 1 = Len(s)
    BY <1>2
  <2> QED BY <2>1, <1>10, EntryWidthsOK DEF EntryWidths
<1>12. \A k \in 1 .. 1 : u[k] = w[k]
  <2>1. 1 \in 1 .. n
    BY <1>2
  <2> QED BY <2>1, <1>5, <1>7, <1>9
<1>13. \A k \in 1 .. n - 1 : v[k] = w[1 + k]
  <2>1. \A k \in 1 .. n - 1 : 1 + k \in 1 .. n /\ k \in 1 .. Len(s)
    BY <1>2
  <2> QED BY <2>1, <1>5, <1>7, <1>11
<1>14. SumTo(w, n) = SumTo(u, 1) + SumTo(v, n - 1)
  <2>1. 1 \in 0 .. n
    BY <1>2
  <2> QED BY <2>1, <1>7, <1>9, <1>11, <1>12, <1>13, SumOfBoth
<1>15. PICK b \in [0 .. 1 -> Nat] : Sums(u, 1, b) /\ SumTo(u, 1) = b[1]
  BY <1>9, SumsExist
<1>16. SumTo(u, 1) = Total(Texts(x))
  <2>1. 1 \in 1 .. 1 /\ 0 \in 0 .. 1
    OBVIOUS
  <2>2. b[1] = b[0] + u[1] /\ b[0] = 0 /\ u[1] \in Nat
    BY <2>1, <1>9, <1>15 DEF Sums
  <2> QED BY <2>1, <2>2, <1>4, <1>9, <1>15
<1>17. LogBytes(t) = SumTo(w, n) /\ LogBytes(s) = SumTo(v, n - 1)
  <2>1. n - 1 = Len(s)
    BY <1>2
  <2> QED BY <2>1, <1>5, <1>6, <1>10, LogBytesIs
<1> QED BY <1>1, <1>2, <1>5, <1>14, <1>16, <1>17

(* No entries have none. *)
LEMMA NoLogBytes == LogBytes(<<>>) = 0
<1>1. PICK s : s = <<>>
  OBVIOUS
<1>2. s \in Seq(Entries) /\ Len(s) = 0
  BY <1>1
<1>3. PICK w : w = EntryWidths(s)
  OBVIOUS
<1>4. w \in [1 .. 0 -> Nat]
  BY <1>2, <1>3, EntryWidthsOK
<1>5. PICK b \in [0 .. 0 -> Nat] : Sums(w, 0, b) /\ SumTo(w, 0) = b[0]
  BY <1>4, SumsExist
<1>6. b[0] = 0
  BY <1>5 DEF Sums
<1> QED BY <1>1, <1>2, <1>3, <1>5, <1>6, LogBytesIs

(* What the log is after one more entry. *)
WithEntry(kept, e, limits) ==
  LET total == LogBytes(kept)
  IN  IF Len(kept) >= limits.max_entries \/ total >= limits.max_total_text_bytes THEN kept
      ELSE <<Bounded(e, Least(limits.max_entry_text_bytes, limits.max_total_text_bytes - total))>> \o kept

(* The logs that are within their limits. *)
WithinLimits(limits) ==
  {s \in Seq(Entries) : LogBytes(s) <= limits.max_total_text_bytes /\ Len(s) <= limits.max_entries}

(* One more entry keeps the log within its limits. *)
LEMMA WithEntryOK ==
  ASSUME NEW limits \in LogLimits, NEW e \in Entries, NEW kept \in WithinLimits(limits)
  PROVE  WithEntry(kept, e, limits) \in WithinLimits(limits)
<1> DEFINE E == limits.max_entries
           T == limits.max_total_text_bytes
<1>0. E \in Nat /\ T \in Nat /\ limits.max_entry_text_bytes \in Nat
  BY DEF LogLimits
<1>1. kept \in Seq(Entries) /\ LogBytes(kept) <= T /\ Len(kept) <= E /\ LogBytes(kept) \in Nat /\ Len(kept) \in Nat
  BY LogBytesIs DEF WithinLimits
<1> HIDE DEF E, T
<1>2. CASE Len(kept) >= E \/ LogBytes(kept) >= T
  <2>1. WithEntry(kept, e, limits) = kept
    BY <1>2 DEF WithEntry, E, T
  <2> QED BY <2>1 DEF E, T
<1>3. CASE ~(Len(kept) >= E \/ LogBytes(kept) >= T)
  <2>1. PICK n \in Nat : n = Least(limits.max_entry_text_bytes, T - LogBytes(kept)) /\ n <= T - LogBytes(kept)
    <3>1. PICK d \in Nat : d = T - LogBytes(kept)
      BY <1>0, <1>1, <1>3
    <3>2. Least(limits.max_entry_text_bytes, d) \in Nat /\ Least(limits.max_entry_text_bytes, d) <= d
      BY <1>0 DEF Least
    <3> QED BY <3>1, <3>2
  <2>2. PICK x \in Entries : x = Bounded(e, n) /\ Total(Texts(x)) <= n
    BY BoundedOK
  <2>3. PICK t : t = <<x>> \o kept
    OBVIOUS
  <2>4. WithEntry(kept, e, limits) = t
    BY <2>1, <2>2, <2>3, <1>3 DEF WithEntry, E, T
  <2>5. t \in Seq(Entries) /\ Len(t) = 1 + Len(kept) /\ LogBytes(t) = Total(Texts(x)) + LogBytes(kept)
    BY <2>3, <1>1, LogBytesOfCons
  <2>6. PICK a \in Nat, c \in Nat : a = Total(Texts(x)) /\ c = LogBytes(kept)
    BY <1>1, TextsOK
  <2>7. LogBytes(t) <= T
    <3>1. LogBytes(t) = a + c /\ a <= n /\ n <= T - c
      BY <2>1, <2>2, <2>5, <2>6
    <3> QED BY <3>1, <1>0
  <2>8. Len(t) <= E
    <3>1. PICK k \in Nat : k = Len(kept)
      BY <1>1
    <3> QED BY <3>1, <2>5, <1>0, <1>3
  <2> QED BY <2>4, <2>5, <2>7, <2>8 DEF WithinLimits, E, T
<1> QED BY <1>2, <1>3

(* A sequence from a place on. *)
LEMMA FromThere ==
  ASSUME NEW S, NEW u \in Seq(S), NEW a \in Int, NEW b \in Int, b = Len(u), 1 <= a, a <= b + 1
  PROVE  /\ SubSeq(u, a, b) \in Seq(S) /\ Len(SubSeq(u, a, b)) = b - a + 1
         /\ \A i \in 1 .. b - a + 1 : SubSeq(u, a, b)[i] = u[a + i - 1]
<1>1. \A i \in a .. b : u[i] \in S
  OBVIOUS
<1>2. /\ SubSeq(u, a, b) \in Seq(S)
      /\ Len(SubSeq(u, a, b)) = IF a <= b THEN b - a + 1 ELSE 0
      /\ \A i \in 1 .. b - a + 1 : SubSeq(u, a, b)[i] = u[a + i - 1]
  BY <1>1, SubSeqProperties
<1> QED BY <1>2

(* What is behind the first of a sequence. *)
LEMMA BehindFirst ==
  ASSUME NEW S, NEW x \in S, NEW s \in Seq(S), NEW t, t = <<x>> \o s
  PROVE  /\ t[1] = x /\ SubSeq(t, 1 + 1, Len(t)) = s
         /\ \A i \in 1 .. Len(s) : t[i + 1] = s[i] /\ SubSeq(t, (i + 1) + 1, Len(t)) = SubSeq(s, i + 1, Len(s))
<1>1. PICK n \in Nat : n = Len(s)
  OBVIOUS
<1>2. PICK h : h = <<x>>
  OBVIOUS
<1>3. h \in Seq(S) /\ Len(h) = 1 /\ h[1] = x
  BY <1>2
<1>4. t \in Seq(S) /\ Len(t) = n + 1 /\ \A i \in 1 .. n + 1 : t[i] = IF i <= 1 THEN h[i] ELSE s[i - 1]
  <2>1. /\ h \o s \in Seq(S)
        /\ Len(h \o s) = Len(h) + Len(s)
        /\ \A i \in 1 .. Len(h) + Len(s) : (h \o s)[i] = IF i <= Len(h) THEN h[i] ELSE s[i - Len(h)]
    BY <1>3, ConcatProperties
  <2> QED BY <2>1, <1>1, <1>2, <1>3
<1>5. t[1] = x /\ \A i \in 1 .. n : t[i + 1] = s[i]
  <2>1. 1 \in 1 .. n + 1
    BY <1>1
  <2>2. ASSUME NEW i \in 1 .. n PROVE t[i + 1] = s[i]
    <3>1. i + 1 \in 1 .. n + 1 /\ ~(i + 1 <= 1) /\ (i + 1) - 1 = i
      BY <1>1
    <3> QED BY <3>1, <1>4
  <2> QED BY <2>1, <2>2, <1>3, <1>4
<1>6. ASSUME NEW m \in 0 .. n PROVE SubSeq(t, (m + 1) + 1, n + 1) = SubSeq(s, m + 1, n)
  <2>1. PICK p : p = SubSeq(t, (m + 1) + 1, n + 1)
    OBVIOUS
  <2>2. PICK q : q = SubSeq(s, m + 1, n)
    OBVIOUS
  <2>3. p \in Seq(S) /\ Len(p) = n - m /\ \A i \in 1 .. n - m : p[i] = t[m + 1 + i]
    <3>1. PICK a \in Int, b \in Int : a = (m + 1) + 1 /\ b = n + 1
      OBVIOUS
    <3>2. 1 <= a /\ a <= b + 1 /\ b - a + 1 = n - m /\ b = Len(t)
      BY <3>1, <1>4
    <3>3. p = SubSeq(t, a, b)
      BY <3>1, <2>1
    <3>4. p \in Seq(S) /\ Len(p) = n - m /\ \A i \in 1 .. n - m : p[i] = t[a + i - 1]
      BY <3>2, <3>3, <1>4, FromThere
    <3>5. \A i \in 1 .. n - m : a + i - 1 = m + 1 + i
      BY <3>1
    <3> QED BY <3>4, <3>5
  <2>4. q \in Seq(S) /\ Len(q) = n - m /\ \A i \in 1 .. n - m : q[i] = s[m + i]
    <3>1. PICK a \in Int : a = m + 1
      OBVIOUS
    <3>2. n \in Int /\ 1 <= a /\ a <= n + 1 /\ n - a + 1 = n - m
      BY <3>1
    <3>3. q = SubSeq(s, a, n)
      BY <3>1, <2>2
    <3>4. q \in Seq(S) /\ Len(q) = n - m /\ \A i \in 1 .. n - m : q[i] = s[a + i - 1]
      BY <3>2, <3>3, <1>1, FromThere
    <3>5. \A i \in 1 .. n - m : a + i - 1 = m + i
      BY <3>1
    <3> QED BY <3>4, <3>5
  <2>5. ASSUME NEW i \in 1 .. n - m PROVE p[i] = q[i]
    <3>1. m + i \in 1 .. n /\ m + 1 + i = (m + i) + 1
      OBVIOUS
    <3> QED BY <3>1, <2>3, <2>4, <1>5
  <2>6. p = q
    <3>1. p = [i \in 1 .. n - m |-> p[i]] /\ q = [i \in 1 .. n - m |-> q[i]]
      BY <2>3, <2>4
    <3> QED BY <3>1, <2>5
  <2> QED BY <2>1, <2>2, <2>6
<1>7. SubSeq(t, 1 + 1, Len(t)) = s
  <2>1. 0 \in 0 .. n /\ 0 + 1 = 1
    OBVIOUS
  <2>2. SubSeq(t, 1 + 1, n + 1) = SubSeq(s, 1, n)
    BY <2>1, <1>6
  <2>3. SubSeq(s, 1, n) = s
    BY <1>1, SubSeqFull
  <2> QED BY <2>2, <2>3, <1>4
<1>8. ASSUME NEW i \in 1 .. n PROVE SubSeq(t, (i + 1) + 1, Len(t)) = SubSeq(s, i + 1, n)
  <2>1. i \in 0 .. n
    OBVIOUS
  <2> QED BY <2>1, <1>4, <1>6
<1> QED BY <1>1, <1>5, <1>7, <1>8

(* What is promised of one entry in the log, e being the one it is made from. *)
EntryKept(kept, i, e, limits) ==
  /\ Total(Texts(kept[i])) <= limits.max_entry_text_bytes
  /\ IsExcerpt(kept[i], e)
  /\ Total(Texts(e)) <= Least(limits.max_entry_text_bytes,
                            limits.max_total_text_bytes - LogBytes(SubSeq(kept, i + 1, Len(kept))))
       => kept[i][3] = e[3]

(* The log after the n newest entries, r being all of them from the newest back. *)
KeptSoFar(kept, r, n, limits) ==
  /\ Len(kept) <= n
  /\ Len(kept) < n => Len(kept) = limits.max_entries \/ LogBytes(kept) = limits.max_total_text_bytes
  /\ \A i \in 1 .. Len(kept) : EntryKept(kept, i, r[Len(kept) + 1 - i], limits)

(* One more entry, and the log is that of the entries so far. *)
LEMMA WithEntryKeeps ==
  ASSUME NEW limits \in LogLimits, NEW r \in Seq(Entries), NEW n \in 1 .. Len(r), NEW kept \in WithinLimits(limits),
         KeptSoFar(kept, r, n - 1, limits)
  PROVE  KeptSoFar(WithEntry(kept, r[n], limits), r, n, limits)
<1> DEFINE E == limits.max_entries
           T == limits.max_total_text_bytes
           M == limits.max_entry_text_bytes
<1>0. E \in Nat /\ T \in Nat /\ M \in Nat /\ r[n] \in Entries
  BY DEF LogLimits
<1>1. kept \in Seq(Entries) /\ LogBytes(kept) <= T /\ Len(kept) <= E /\ LogBytes(kept) \in Nat /\ Len(kept) \in Nat
  BY LogBytesIs DEF WithinLimits
<1>2. /\ Len(kept) <= n - 1
      /\ Len(kept) < n - 1 => Len(kept) = E \/ LogBytes(kept) = T
      /\ \A i \in 1 .. Len(kept) : EntryKept(kept, i, r[Len(kept) + 1 - i], limits)
  BY DEF KeptSoFar
<1> HIDE DEF E, T, M
<1>3. CASE Len(kept) >= E \/ LogBytes(kept) >= T
  <2>1. WithEntry(kept, r[n], limits) = kept
    BY <1>3 DEF WithEntry, E, T
  <2>2. Len(kept) <= n /\ (Len(kept) = E \/ LogBytes(kept) = T)
    BY <1>0, <1>1, <1>2, <1>3
  <2> QED BY <2>1, <2>2, <1>2 DEF KeptSoFar, E, T
<1>4. CASE ~(Len(kept) >= E \/ LogBytes(kept) >= T)
  <2>1. Len(kept) = n - 1
    BY <1>0, <1>1, <1>2, <1>4
  <2>2. PICK a \in Nat : a = Least(M, T - LogBytes(kept)) /\ a <= M
    <3>1. PICK d \in Nat : d = T - LogBytes(kept)
      BY <1>0, <1>1, <1>4
    <3>2. Least(M, d) \in Nat /\ Least(M, d) <= M
      BY <1>0 DEF Least
    <3> QED BY <3>1, <3>2
  <2>3. PICK x \in Entries : /\ x = Bounded(r[n], a) /\ Total(Texts(x)) <= a /\ IsExcerpt(x, r[n])
                             /\ Total(Texts(r[n])) <= a => x[3] = r[n][3]
    BY <1>0, BoundedOK, BoundedIsExcerpt
  <2>4. PICK t : t = <<x>> \o kept
    OBVIOUS
  <2>5. WithEntry(kept, r[n], limits) = t
    BY <2>2, <2>3, <2>4, <1>4 DEF WithEntry, E, T, M
  <2>6. Len(t) = n
    BY <2>1, <2>4, <1>1, LogBytesOfCons
  <2>7. /\ t[1] = x /\ SubSeq(t, 1 + 1, Len(t)) = kept
        /\ \A i \in 1 .. n - 1 : t[i + 1] = kept[i] /\ SubSeq(t, (i + 1) + 1, Len(t)) = SubSeq(kept, i + 1, Len(kept))
    BY <2>1, <2>4, <1>1, BehindFirst
  <2>8. EntryKept(t, 1, r[n], limits)
    <3>1. Total(Texts(x)) <= M
      <4>1. Total(Texts(x)) \in Nat
        BY TextsOK
      <4> QED BY <4>1, <2>2, <2>3, <1>0
    <3>2. Total(Texts(r[n])) <= Least(M, T - LogBytes(SubSeq(t, 1 + 1, Len(t)))) => t[1][3] = r[n][3]
      BY <2>2, <2>3, <2>7
    <3> QED BY <3>1, <3>2, <2>3, <2>7, Zenon DEF EntryKept, M, T
  <2>9. ASSUME NEW i \in 1 .. n - 1 PROVE EntryKept(t, i + 1, r[n - i], limits)
    <3>1. EntryKept(kept, i, r[n - i], limits)
      <4>1. i \in 1 .. Len(kept) /\ Len(kept) + 1 - i = n - i
        BY <2>1
      <4> QED BY <4>1, <1>2
    <3> QED BY <3>1, <2>7, Zenon DEF EntryKept
  <2>10. ASSUME NEW j \in 1 .. n PROVE EntryKept(t, j, r[n + 1 - j], limits)
    <3>1. CASE j = 1
      <4>1. n + 1 - j = n
        BY <3>1
      <4> QED BY <4>1, <3>1, <2>8
    <3>2. CASE j # 1
      <4>1. PICK i \in 1 .. n - 1 : j = i + 1 /\ n + 1 - j = n - i
        <5>1. j - 1 \in 1 .. n - 1 /\ j = (j - 1) + 1 /\ n + 1 - j = n - (j - 1)
          BY <3>2
        <5> QED BY <5>1
      <4> QED BY <4>1, <2>9
    <3> QED BY <3>1, <3>2
  <2> QED BY <2>5, <2>6, <2>10 DEF KeptSoFar
<1> QED BY <1>3, <1>4

(* What FoldLeft chooses for the log. *)
IsLogIter(it, s, limits) == it = [x \in SUBSET DOMAIN s |-> IF x = {} THEN <<>> ELSE WithEntry(it[x \ {Max(x)}], s[Max(x)], limits)]

(* FoldLeft, in terms of that choice. *)
LEMMA LogUnfold ==
  ASSUME NEW s, NEW limits
  PROVE  BoundBrowserLogs(s, limits) = (CHOOSE it : IsLogIter(it, Reverse(s), limits))[DOMAIN Reverse(s)]
  BY DEF BoundBrowserLogs, FoldLeft, MapThenFoldSet, IsLogIter, WithEntry

(* artifacts.rs:364-401: the browser's log is the newest of its entries, as many
   of them as the limits allow. *)
LEMMA LogsOK ==
  ASSUME NEW limits \in LogLimits, NEW s \in Seq(Entries)
  PROVE  BoundBrowserLogs(s, limits) \in Seq(Entries) /\ IsNewestOf(BoundBrowserLogs(s, limits), s, limits)
<1> DEFINE B == WithinLimits(limits)
<1>1. PICK r : r = Reverse(s)
  OBVIOUS
<1>2. r \in Seq(Entries) /\ Len(r) = Len(s) /\ Len(s) \in Nat /\ \A k \in 1 .. Len(s) : r[k] = s[(Len(s) - k) + 1]
  <2>1. r = [i \in 1 .. Len(s) |-> s[(Len(s) - i) + 1]]
    BY <1>1 DEF Reverse
  <2>2. ASSUME NEW i \in 1 .. Len(s) PROVE s[(Len(s) - i) + 1] \in Entries
    <3>1. (Len(s) - i) + 1 \in 1 .. Len(s)
      OBVIOUS
    <3> QED BY <3>1
  <2>3. r \in [1 .. Len(s) -> Entries]
    BY <2>1, <2>2
  <2>4. \A k \in 1 .. Len(s) : r[k] = s[(Len(s) - k) + 1]
    BY <2>1
  <2> QED BY <2>1, <2>3, <2>4
<1>3. PICK N \in Nat : N = Len(r)
  BY <1>2
<1>4. DOMAIN r = 1 .. N /\ \A n \in 1 .. N : r[n] \in Entries
  BY <1>2, <1>3
<1>5. <<>> \in B
  <2>1. PICK o : o = <<>>
    OBVIOUS
  <2>2. o \in Seq(Entries) /\ Len(o) = 0 /\ LogBytes(o) = 0
    BY <2>1, NoLogBytes
  <2> QED BY <2>1, <2>2 DEF WithinLimits, LogLimits
<1> HIDE DEF B
<1>6. ASSUME NEW kept \in B, NEW n \in 1 .. N PROVE WithEntry(kept, r[n], limits) \in B
  BY <1>4, WithEntryOK DEF B
<1> DEFINE f == [p \in B \X Nat |-> IF p[2] \in 1 .. N THEN WithEntry(p[1], r[p[2]], limits) ELSE p[1]]
<1>7. f \in [B \X Nat -> B]
  BY <1>6
<1>8. ASSUME NEW a \in B, NEW n \in 1 .. N PROVE f[a, n] = WithEntry(a, r[n], limits)
  <2>1. <<a, n>> \in B \X Nat /\ <<a, n>>[1] = a /\ <<a, n>>[2] = n
    OBVIOUS
  <2> QED BY <2>1
<1> HIDE DEF f
<1>9. PICK it \in [SUBSET (1 .. N) -> B] : Iterates(it, f, <<>>, N)
  BY <1>5, <1>7, FoldExists
<1>10. IsLogIter(it, r, limits)
  <2>1. ASSUME NEW x \in SUBSET (1 .. N)
        PROVE  it[x] = IF x = {} THEN <<>> ELSE WithEntry(it[x \ {Max(x)}], r[Max(x)], limits)
    <3>1. CASE x # {}
      <4>1. Max(x) \in x
        BY <3>1, MaxOK
      <4>2. x \ {Max(x)} \in SUBSET (1 .. N) /\ Max(x) \in 1 .. N
        BY <4>1
      <4>3. it[x \ {Max(x)}] \in B
        BY <4>2
      <4>4. PICK a \in B, n \in 1 .. N : a = it[x \ {Max(x)}] /\ n = Max(x)
        BY <4>2, <4>3
      <4>5. f[a, n] = WithEntry(a, r[n], limits)
        BY <1>8
      <4>6. it[x] = f[a, n]
        BY <3>1, <4>4, <1>9 DEF Iterates
      <4> QED BY <3>1, <4>4, <4>5, <4>6
    <3>2. CASE x = {}
      BY <3>2, <1>9 DEF Iterates
    <3> QED BY <3>1, <3>2
  <2>2. it = [x \in SUBSET (1 .. N) |-> it[x]]
    OBVIOUS
  <2> QED BY <2>1, <2>2, <1>4 DEF IsLogIter
<1> DEFINE i == CHOOSE g : IsLogIter(g, r, limits)
<1>11. IsLogIter(i, r, limits)
  BY <1>10
<1>12. BoundBrowserLogs(s, limits) = i[1 .. N]
  BY <1>1, <1>4, LogUnfold
<1> HIDE DEF i
<1>13. \A x \in SUBSET (1 .. N) : i[x] = IF x = {} THEN <<>> ELSE WithEntry(i[x \ {Max(x)}], r[Max(x)], limits)
  BY <1>11, <1>4 DEF IsLogIter
<1> DEFINE S == {n \in Nat : n <= N => i[1 .. n] \in B /\ KeptSoFar(i[1 .. n], r, n, limits)}
<1>14. 0 \in S
  <2>1. 1 .. 0 = {}
    OBVIOUS
  <2>2. i[1 .. 0] = <<>>
    BY <2>1, <1>13
  <2>3. PICK o : o = <<>>
    OBVIOUS
  <2>4. Len(o) = 0
    BY <2>3
  <2>5. KeptSoFar(o, r, 0, limits)
    BY <2>4 DEF KeptSoFar
  <2> QED BY <2>2, <2>3, <2>5, <1>5
<1>15. ASSUME NEW n \in 1 .. N, i[1 .. n - 1] \in B, KeptSoFar(i[1 .. n - 1], r, n - 1, limits)
       PROVE  i[1 .. n] \in B /\ KeptSoFar(i[1 .. n], r, n, limits)
  <2>1. /\ 1 .. n \in SUBSET (1 .. N) /\ 1 .. n # {}
        /\ Max(1 .. n) = n /\ (1 .. n) \ {n} = 1 .. n - 1
    BY UpTo
  <2>2. i[1 .. n] = WithEntry(i[1 .. n - 1], r[n], limits)
    BY <2>1, <1>13
  <2>3. n \in 1 .. Len(r)
    BY <1>3
  <2>4. i[1 .. n] \in B
    BY <2>2, <1>6, <1>15
  <2>5. PICK kept \in WithinLimits(limits) : kept = i[1 .. n - 1] /\ KeptSoFar(kept, r, n - 1, limits)
    BY <1>15 DEF B
  <2>6. KeptSoFar(WithEntry(kept, r[n], limits), r, n, limits)
    BY <2>3, <2>5, <1>2, WithEntryKeeps
  <2> QED BY <2>2, <2>4, <2>5, <2>6
<1>16. ASSUME NEW n \in Nat, n \in S PROVE n + 1 \in S
  <2> SUFFICES ASSUME n + 1 <= N PROVE i[1 .. n + 1] \in B /\ KeptSoFar(i[1 .. n + 1], r, n + 1, limits)
    OBVIOUS
  <2>1. PICK m \in 1 .. N : m = n + 1 /\ m - 1 = n
    <3>1. n + 1 \in 1 .. N /\ (n + 1) - 1 = n
      OBVIOUS
    <3> QED BY <3>1
  <2>2. i[1 .. m - 1] \in B /\ KeptSoFar(i[1 .. m - 1], r, m - 1, limits)
    BY <1>16, <2>1
  <2> QED BY <2>1, <2>2, <1>15
<1>17. Nat \subseteq S
  <2> HIDE DEF S
  <2> QED BY <1>14, <1>16, AllNumbers
<1>18. PICK kept : kept = i[1 .. N]
  OBVIOUS
<1>19. kept \in B /\ KeptSoFar(kept, r, N, limits)
  BY <1>17, <1>18
<1>20. kept \in Seq(Entries) /\ LogBytes(kept) <= limits.max_total_text_bytes /\ Len(kept) <= limits.max_entries
  BY <1>19 DEF B, WithinLimits
<1>21. IsNewestOf(kept, s, limits)
  <2>1. PICK k \in Nat : k = Len(kept) /\ k <= N
    BY <1>19, <1>20 DEF KeptSoFar
  <2>2. Len(s) = N
    BY <1>2, <1>3
  <2>3. ASSUME NEW j \in 1 .. k PROVE EntryKept(kept, j, s[N - k + j], limits)
    <3>1. EntryKept(kept, j, r[k + 1 - j], limits)
      BY <2>1, <1>19 DEF KeptSoFar
    <3>2. k + 1 - j \in 1 .. N /\ (N - (k + 1 - j)) + 1 = N - k + j
      BY <2>1
    <3>3. r[k + 1 - j] = s[N - k + j]
      BY <3>2, <2>2, <1>2
    <3> QED BY <3>1, <3>3
  <2>4. DOMAIN kept = 1 .. k
    BY <2>1, <1>20
  <2>5. k < N => k = limits.max_entries \/ LogBytes(kept) = limits.max_total_text_bytes
    BY <2>1, <1>19 DEF KeptSoFar
  <2>6. k <= N /\ k <= limits.max_entries /\ LogBytes(kept) <= limits.max_total_text_bytes
    BY <2>1, <1>20
  <2>7. ASSUME NEW j \in DOMAIN kept PROVE EntryKept(kept, j, s[Len(s) - Len(kept) + j], limits)
    BY <2>1, <2>2, <2>3, <2>4
  <2> QED BY <2>1, <2>2, <2>5, <2>6, <2>7, Zenon DEF IsNewestOf, EntryKept
<1> QED BY <1>12, <1>18, <1>20, <1>21

-----------------------------------------------------------------------------
(* The types of the run, and its report *)

(* The status events of a run. *)
Statuses == {"SessionStarting", "SessionStarted", "DriverShutdown", "SessionEnded"}

\* The types of what the run itself keeps: the session that is left to the
\* driver is not this one, and the second New Session is the last.
RemoteTypes ==
  /\ managed \in BOOLEAN /\ quitCell \in BOOLEAN /\ driver \in {"running", "killed"}
  /\ lost \subseteq sessions /\ mine \notin lost
  /\ attempt \in 0 .. 2
  /\ phase = "start" => attempt = 0
  /\ phase = "request" => attempt <= 1
  /\ faults \in 0 .. MaxFaults
  /\ result \in {"none", "ok", "setup", "cancelled", "body", "cleanup", "body_and_cleanup", "panic", "cleanup_panic"}

(* They hold when the run begins. *)
LEMMA RemoteTypesInit == RunInit => RemoteTypes
<1> SUFFICES ASSUME RunInit PROVE RemoteTypes
  OBVIOUS
<1>1. /\ managed \in BOOLEAN /\ quitCell = FALSE /\ driver = "running" /\ sessions = {} /\ lost = {}
      /\ attempt = 0 /\ faults = 0 /\ phase = "start" /\ result = "none"
  BY DEF RunInit
<1>2. attempt \in 0 .. 2 /\ faults \in 0 .. MaxFaults /\ phase # "request"
  BY <1>1, LimitsAssumption
<1> QED
  BY <1>1, <1>2, Zenon DEF RemoteTypes

(* create.rs: a session is made by the first New Session or the one retry. *)
LEMMA RemoteTypesSetup ==
  ASSUME RunIInv, RemoteTypes, Setup PROVE RemoteTypes'
<1> USE SessionsAssumption, LimitsAssumption DEF RunIInv, RunIsInOrder, Phases, RemoteTypes, Goes, Fault
<1>1. CASE Start
  BY <1>1 DEF Start, remote
<1>2. CASE Created
  BY <1>2 DEF Created
<1>3. ASSUME NEW status \in {500, 404}, NotCreated(status) PROVE RemoteTypes'
  BY <1>3 DEF NotCreated, Orphan
<1>4. CASE TimeoutsSet
  BY <1>4 DEF TimeoutsSet, remote
<1>5. CASE TimeoutsErr
  BY <1>5 DEF TimeoutsErr
<1>6. CASE SetupFailed
  BY <1>6 DEF SetupFailed, remote
<1> QED
  BY <1>1, <1>2, <1>3, <1>4, <1>5, <1>6 DEF Setup

(* web_driver.rs: the steps of run_and_quit() keep them. *)
LEMMA RemoteTypesRun ==
  ASSUME RunIInv, RemoteTypes, Run PROVE RemoteTypes'
<1> USE SessionsAssumption, LimitsAssumption DEF RunIInv, RunIsInOrder, Phases, RemoteTypes, Goes, Fault
<1>1. ASSUME NEW ok \in BOOLEAN, Capture(ok) PROVE RemoteTypes'
  <2>1. /\ UNCHANGED <<managed, sessions, mine, lost, attempt, runner, driver>> /\ phase = "body"
        /\ UNCHANGED faults \/ Fault
    BY <1>1 DEF Capture
  <2> QED
    BY <2>1 DEF runner
<1>2. ASSUME NEW outcome \in {"ok", "err", "panic"}, BodyEnds(outcome) PROVE RemoteTypes'
  BY <1>2 DEF BodyEnds, remote
<1>3. CASE Left
  BY <1>3 DEF Left, remote
<1>4. CASE QuitRun
  BY <1>4 DEF QuitRun
<1>5. ASSUME NEW outcome \in {"err", "panic"}, QuitFails(outcome) PROVE RemoteTypes'
  BY <1>5 DEF QuitFails
<1>6. CASE CancelRun
  BY <1>6 DEF CancelRun, Orphan
<1>7. CASE DropHandle
  BY <1>7 DEF DropHandle
<1>8. CASE Done
  BY <1>8 DEF Done, remote, Outcome
<1> QED
  BY <1>1, <1>2, <1>3, <1>4, <1>5, <1>6, <1>7, <1>8 DEF Run

(* Every step keeps them. *)
LEMMA RemoteTypesStep == RunIInv /\ RemoteTypes /\ [RunNext]_runVars => RemoteTypes'
<1> SUFFICES ASSUME RunIInv, RemoteTypes, [RunNext]_runVars PROVE RemoteTypes'
  OBVIOUS
<1>1. CASE UNCHANGED <<remote, runner, driver>>
  BY <1>1 DEF remote, runner, RemoteTypes
<1>2. ASSUME NEW x \in Listeners, Subscriber(x) PROVE UNCHANGED <<remote, runner, driver>>
  BY <1>2 DEF Subscriber, Load, Swap, Subscribed
<1>3. ASSUME NEW s \in Streams, Read(s) \/ \E line \in Lines : Writes(s, line) PROVE UNCHANGED <<remote, runner, driver>>
  BY <1>3 DEF Read, Writes
<1>4. ASSUME NEW e \in Emitters, Emitter(e) PROVE UNCHANGED <<remote, runner, driver>>
  BY <1>4 DEF Emitter, CallNext, NextList
<1>5. CASE UNCHANGED runVars
  BY <1>1, <1>5 DEF runVars
<1> QED
  BY <1>1, <1>2, <1>3, <1>4, <1>5, RemoteTypesSetup, RemoteTypesRun DEF RunNext

-----------------------------------------------------------------------------
(* What a report holds, and that it is bounded. *)
Reports ==
  [next : 0 .. Len(Fields), failed : SUBSET Range(Fields), source : Seq(Nat), original : Seq(Nat),
   browser : Seq(Entries), entries : Seq(Entries), process : Seq(Seq(Nat))]

ReportIInv == report \in Reports /\ ReportIsBounded

(* The empty report is within any limits. *)
LEMMA NoReportOK ==
  /\ NoReport \in Reports
  /\ NoReport.source = NoReport.original /\ Bytes(NoReport.source) = 0
  /\ \A limits \in LogLimits : IsNewestOf(NoReport.browser, NoReport.entries, limits)
<1>1. PICK o : o = <<>>
  OBVIOUS
<1>2. o \in Seq(Nat) /\ o \in Seq(Entries) /\ o \in Seq(Seq(Nat)) /\ Len(o) = 0 /\ DOMAIN o = {}
  BY <1>1
<1>3. NoReport = [next |-> 0, failed |-> {}, source |-> o, original |-> o, browser |-> o, entries |-> o, process |-> o]
  BY <1>1 DEF NoReport
<1>4. Bytes(o) = 0 /\ LogBytes(o) = 0
  BY <1>1, NoBytes, NoLogBytes
<1>5. 0 \in 0 .. Len(Fields)
  BY DEF Fields
<1>6. NoReport \in Reports
  BY <1>2, <1>3, <1>5 DEF Reports
<1>7. NoReport.source = o /\ NoReport.original = o /\ NoReport.browser = o /\ NoReport.entries = o
  BY <1>3
<1>8. ASSUME NEW limits \in LogLimits PROVE IsNewestOf(o, o, limits)
  <2>1. 0 <= limits.max_entries /\ 0 <= limits.max_total_text_bytes /\ 0 <= 0 /\ ~(0 < 0)
    BY DEF LogLimits
  <2> QED BY <2>1, <1>2, <1>4, Zenon DEF IsNewestOf
<1> QED BY <1>4, <1>6, <1>7, <1>8

(* artifacts.rs: whichever field is captured, the report stays bounded. *)
LEMMA CaptureOK ==
  ASSUME NEW ok \in BOOLEAN, Capture(ok), ReportIInv, buffer \in Seq(Seq(Nat)) PROVE ReportIInv'
<1> DEFINE field == Fields[report.next + 1]
           next == [report EXCEPT !.next = @ + 1, !.failed = IF ok THEN @ ELSE @ \cup {field},
                      !.process = IF field = "browser_logs" /\ sub[Collector] = "in" THEN buffer ELSE @]
<1>1. report \in Reports /\ report.next \in Nat /\ report.next < Len(Fields) /\ Len(Fields) = 5 /\ ReportIsBounded
  <2>1. report.next < Len(Fields) /\ report \in Reports /\ ReportIsBounded
    BY DEF Capture, ReportIInv
  <2>2. Len(Fields) = 5
    BY DEF Fields
  <2> QED
    BY <2>1, <2>2 DEF Reports
<1>2. report.next + 1 \in 0 .. Len(Fields) /\ field \in Range(Fields)
  <2>1. report.next + 1 \in 1 .. 5 /\ DOMAIN Fields = 1 .. 5
    BY <1>1 DEF Fields
  <2> QED BY <1>1, <2>1 DEF Range
<1> HIDE DEF field
<1>3. PICK d : d = IF ok THEN report.failed ELSE report.failed \cup {field}
  OBVIOUS
<1>4. PICK b : b = IF field = "browser_logs" /\ sub[Collector] = "in" THEN buffer ELSE report.process
  OBVIOUS
<1>5. d \in SUBSET Range(Fields) /\ b \in Seq(Seq(Nat))
  BY <1>1, <1>2, <1>3, <1>4 DEF Reports
<1>6. next = [report EXCEPT !.next = report.next + 1, !.failed = d, !.process = b]
  BY <1>3, <1>4
<1>7. /\ next \in Reports
      /\ next.source = report.source /\ next.original = report.original
      /\ next.browser = report.browser /\ next.entries = report.entries
  BY <1>1, <1>2, <1>5, <1>6 DEF Reports
<1> HIDE DEF next
<1>8. CASE report' = next
  BY <1>1, <1>7, <1>8 DEF ReportIInv, ReportIsBounded
<1>9. ASSUME NEW page \in Pages, report' = [next EXCEPT !.source = TruncateMiddle(page, SourceMax), !.original = page]
      PROVE  ReportIInv'
  <2>1. page \in Seq(Nat) /\ SourceMax \in Nat
    BY TextsAssumption, LimitsAssumption
  <2>2. PICK src : src = TruncateMiddle(page, SourceMax)
    OBVIOUS
  <2>3. src \in Seq(Nat) /\ Bytes(src) <= SourceMax /\ (Bytes(page) <= SourceMax => src = page)
    BY <2>1, <2>2, MiddleOK
  <2>4. report' = [next EXCEPT !.source = src, !.original = page]
    BY <1>9, <2>2
  <2>5. report' \in Reports /\ report'.source = src /\ report'.original = page
        /\ report'.browser = report.browser /\ report'.entries = report.entries
    BY <1>7, <2>1, <2>3, <2>4 DEF Reports
  <2> QED BY <1>1, <2>3, <2>5 DEF ReportIInv, ReportIsBounded
<1>10. ASSUME NEW log \in BrowserLogs, report' = [next EXCEPT !.browser = BoundBrowserLogs(log, BrowserLimits), !.entries = log]
       PROVE  ReportIInv'
  <2>1. log \in Seq(Entries) /\ BrowserLimits \in LogLimits
    BY TextsAssumption, LimitsAssumption
  <2>2. PICK kept : kept = BoundBrowserLogs(log, BrowserLimits)
    OBVIOUS
  <2>3. kept \in Seq(Entries) /\ IsNewestOf(kept, log, BrowserLimits)
    BY <2>1, <2>2, LogsOK
  <2>4. report' = [next EXCEPT !.browser = kept, !.entries = log]
    BY <1>10, <2>2
  <2>5. report' \in Reports /\ report'.browser = kept /\ report'.entries = log
        /\ report'.source = report.source /\ report'.original = report.original
    BY <1>7, <2>1, <2>3, <2>4 DEF Reports
  <2> QED BY <1>1, <2>3, <2>5 DEF ReportIInv, ReportIsBounded
<1>11. \/ report' = next
       \/ \E page \in Pages : report' = [next EXCEPT !.source = TruncateMiddle(page, SourceMax), !.original = page]
       \/ \E log \in BrowserLogs : report' = [next EXCEPT !.browser = BoundBrowserLogs(log, BrowserLimits), !.entries = log]
  BY Zenon DEF Capture, next, field
<1> QED BY <1>8, <1>9, <1>10, <1>11

(* No other step of the run, of an emitter or of a subscriber touches the report. *)
LEMMA ReportStep ==
  ASSUME ReportIInv, buffer \in Seq(Seq(Nat)), [RunNext]_runVars PROVE ReportIInv'
<1>1. CASE UNCHANGED report
  BY <1>1 DEF ReportIInv, ReportIsBounded
<1>2. CASE report' = NoReport
  BY <1>2, NoReportOK, LimitsAssumption DEF ReportIInv, ReportIsBounded, LogLimits
<1>3. ASSUME NEW x \in Listeners, Subscriber(x) PROVE UNCHANGED report
  BY <1>3 DEF Subscriber, Load, Swap, Subscribed
<1>4. ASSUME NEW s \in Streams, Read(s) \/ \E line \in Lines : Writes(s, line) PROVE UNCHANGED report
  BY <1>4 DEF Read, Writes
<1>5. ASSUME NEW e \in Emitters, Emitter(e) PROVE UNCHANGED report
  BY <1>5 DEF Emitter, CallNext, NextList
<1>6. ASSUME Setup PROVE UNCHANGED report
  BY <1>6 DEF Setup, Start, Created, NotCreated, TimeoutsSet, TimeoutsErr, SetupFailed
<1>7. ASSUME Run PROVE UNCHANGED report \/ report' = NoReport \/ \E ok \in BOOLEAN : Capture(ok)
  BY <1>7 DEF Run, BodyEnds, Left, QuitRun, QuitFails, CancelRun, DropHandle, Done
<1>8. CASE UNCHANGED runVars
  BY <1>1, <1>8 DEF runVars
<1> QED
  BY <1>1, <1>2, <1>3, <1>4, <1>5, <1>6, <1>7, <1>8, CaptureOK DEF RunNext

-----------------------------------------------------------------------------
(* The collector's buffer *)

\* Each emitter has put out what it is said to have taken, an emitter that is at
\* an item has taken one, and what the collector heard is lines of the driver.
HeardLines(h, o) == \A k \in DOMAIN h : h[k][1] \in Streams /\ h[k][2] \in 1 .. Len(o[h[k][1]])

StreamTypes ==
  /\ seenlist \in [Listeners -> Seq(Listeners)]
  /\ list[Collector] = "process"
  /\ output \in [Emitters -> Seq(Seq(Nat) \cup Statuses)]
  /\ \A s \in Streams : output[s] \in Seq(Seq(Nat))
  /\ \A e \in Emitters : at[e].n <= Len(output[e]) /\ (Busy(e) => at[e].n > 0)
  /\ HeardLines(heard[Collector], output)

\* What the collector keeps of one line that it heard.
Kept(item, o) == Cut(o[item[1]][item[2]], ProcessLimits)

(* What it keeps of all that it heard. *)
KeptOf(h, o) == [i \in DOMAIN h |-> Kept(h[i], o)]

(* The buffer, with what it rests on. *)
BufferIInv == StreamTypes /\ KeepsNewest

(* LinesHeard, in the words of the lemmas. *)
LEMMA KeptIs == LinesHeard = KeptOf(heard[Collector], output)
  BY DEF LinesHeard, KeptOf, Kept

(* What is kept is one line for each item that was heard. *)
LEMMA KeptTyped ==
  ASSUME NEW h \in Seq(Emitters \X Nat), NEW o, \A s \in Streams : o[s] \in Seq(Seq(Nat)), HeardLines(h, o)
  PROVE  KeptOf(h, o) \in Seq(Seq(Nat)) /\ Len(KeptOf(h, o)) = Len(h) /\ Len(h) \in Nat
<1>1. Len(h) \in Nat /\ DOMAIN h = 1 .. Len(h)
  OBVIOUS
<1>2. ASSUME NEW i \in DOMAIN h PROVE Kept(h[i], o) \in Seq(Nat)
  <2>1. h[i][1] \in Streams /\ h[i][2] \in 1 .. Len(o[h[i][1]])
    BY DEF HeardLines
  <2>2. PICK s : s = o[h[i][1]]
    OBVIOUS
  <2>3. PICK n : n = h[i][2]
    OBVIOUS
  <2>4. s \in Seq(Seq(Nat)) /\ n \in 1 .. Len(s)
    BY <2>1, <2>2, <2>3
  <2>5. s[n] \in Seq(Nat)
    BY <2>4
  <2>6. Kept(h[i], o) = Cut(s[n], ProcessLimits)
    BY <2>2, <2>3 DEF Kept
  <2> QED
    BY <2>5, <2>6, CutOK, LimitsAssumption
<1>3. KeptOf(h, o) \in [1 .. Len(h) -> Seq(Nat)]
  BY <1>1, <1>2 DEF KeptOf
<1>4. PICK n \in Nat : n = Len(h)
  BY <1>1
<1>5. PICK g : g = KeptOf(h, o)
  OBVIOUS
<1>6. g \in [1 .. n -> Seq(Nat)]
  BY <1>3, <1>4, <1>5
<1>7. g \in Seq(Seq(Nat)) /\ Len(g) = n
  BY <1>6
<1> QED
  BY <1>4, <1>5, <1>7

\* Lines that are added at the end change nothing of those before.
Extends(p, o) == \A e \in Streams : Len(o[e]) <= Len(p[e]) /\ \A n \in 1 .. Len(o[e]) : p[e][n] = o[e][n]

(* What was heard is kept as it was, when the streams have only got longer. *)
LEMMA KeptSame ==
  ASSUME NEW h, NEW o, NEW p, HeardLines(h, o), Extends(p, o),
         \A s \in Streams : o[s] \in Seq(Seq(Nat)) /\ p[s] \in Seq(Seq(Nat))
  PROVE  KeptOf(h, p) = KeptOf(h, o) /\ HeardLines(h, p)
<1>1. ASSUME NEW i \in DOMAIN h PROVE Kept(h[i], p) = Kept(h[i], o) /\ h[i][2] \in 1 .. Len(p[h[i][1]])
  <2>1. PICK e : e = h[i][1]
    OBVIOUS
  <2>2. PICK n : n = h[i][2]
    OBVIOUS
  <2>3. e \in Streams /\ n \in 1 .. Len(o[e]) /\ Len(o[e]) \in Nat /\ Len(p[e]) \in Nat
    BY <2>1, <2>2 DEF HeardLines
  <2>4. p[e][n] = o[e][n] /\ n \in 1 .. Len(p[e])
    BY <2>3 DEF Extends
  <2> QED
    BY <2>1, <2>2, <2>4 DEF Kept
<1>2. KeptOf(h, p) = KeptOf(h, o)
  BY <1>1 DEF KeptOf
<1>3. HeardLines(h, p)
  BY <1>1 DEF HeardLines
<1> QED
  BY <1>2, <1>3

(* The newest of some lines are lines. *)
LEMMA NewestTyped ==
  ASSUME NEW s \in Seq(Seq(Nat)), NEW limits \in LogLimits PROVE Newest(s, limits) \in Seq(Seq(Nat))
<1>1. PICK b \in [0 .. Len(s) -> Nat] : Sums(Widths(s), Len(s), b)
  BY WidthsOK, SumsExist
<1>2. PICK k : Most(k, Len(s), b, limits)
  BY <1>1, NewestIs
<1>3. Newest(s, limits) = SubSeq(s, Len(s) - k + 1, Len(s))
  BY <1>1, <1>2, NewestIs
<1>4. Len(s) \in Nat /\ k \in 0 .. Len(s)
  BY <1>2 DEF Most, Fitting
<1>5. Len(s) - k \in 0 .. Len(s)
  BY <1>4
<1> QED
  BY <1>3, <1>4, <1>5, PartOf

(* And of none, none. *)
LEMMA NewestOfNone ==
  ASSUME NEW limits \in LogLimits PROVE Newest(<<>>, limits) = <<>>
<1>1. PICK s : s = <<>>
  OBVIOUS
<1>2. s \in Seq(Seq(Nat)) /\ Len(s) = 0
  BY <1>1
<1>3. PICK b \in [0 .. Len(s) -> Nat] : Sums(Widths(s), Len(s), b)
  BY <1>2, WidthsOK, SumsExist
<1>4. PICK k : Most(k, Len(s), b, limits)
  BY <1>2, <1>3, NewestIs
<1>5. Newest(s, limits) = SubSeq(s, Len(s) - k + 1, Len(s))
  BY <1>2, <1>3, <1>4, NewestIs
<1>6. k = 0
  BY <1>2, <1>4 DEF Most, Fitting
<1>7. Newest(s, limits) = SubSeq(s, 1, 0)
  BY <1>2, <1>5, <1>6
<1> QED
  BY <1>1, <1>2, <1>7, SubSeqEmpty

-----------------------------------------------------------------------------
(* A step that calls nobody: what was put out only grows, and what was heard
   stays, with the buffer. *)
LEMMA QuietOK ==
  ASSUME BufferIInv, heard' = heard, buffer' = buffer, Extends(output', output),
         \A s \in Streams : output'[s] \in Seq(Seq(Nat))
  PROVE  KeepsNewest' /\ HeardLines(heard[Collector], output')
<1>1. /\ HeardLines(heard[Collector], output) /\ \A s \in Streams : output[s] \in Seq(Seq(Nat))
      /\ KeepsNewest
  BY DEF BufferIInv, StreamTypes
<1>2. /\ KeptOf(heard[Collector], output') = KeptOf(heard[Collector], output)
      /\ HeardLines(heard[Collector], output')
  BY <1>1, KeptSame, Zenon
<1>3. LinesHeard' = LinesHeard
  <2>1. LinesHeard' = KeptOf(heard[Collector], output')
    BY DEF LinesHeard, KeptOf, Kept
  <2> QED BY <2>1, <1>2, KeptIs
<1> QED
  BY <1>1, <1>2, <1>3 DEF KeepsNewest

(* Where an emitter is at does not matter to what was heard. *)
LEMMA StreamSame ==
  ASSUME BufferIInv, UNCHANGED <<list, seenlist, output, at, heard, buffer>> PROVE BufferIInv'
  BY DEF BufferIInv, StreamTypes, KeepsNewest, LinesHeard, Busy

(* The list of an emitter, with one more item. *)
LEMMA OneMore ==
  ASSUME BufferIInv, NEW e \in Emitters, NEW item \in Seq(Nat) \cup Statuses,
         e \in Streams => item \in Seq(Nat),
         output' = [output EXCEPT ![e] = Append(output[e], item)]
  PROVE  /\ output' \in [Emitters -> Seq(Seq(Nat) \cup Statuses)]
         /\ \A s \in Streams : output'[s] \in Seq(Seq(Nat))
         /\ Extends(output', output)
         /\ \A f \in Emitters : Len(output[f]) \in Nat /\ Len(output'[f]) = Len(output[f]) + (IF f = e THEN 1 ELSE 0)
<1>1. output \in [Emitters -> Seq(Seq(Nat) \cup Statuses)] /\ \A s \in Streams : output[s] \in Seq(Seq(Nat))
  BY DEF BufferIInv, StreamTypes
<1>2. PICK old : old = output[e]
  OBVIOUS
<1>3. PICK new : new = Append(old, item)
  OBVIOUS
<1>4. old \in Seq(Seq(Nat) \cup Statuses) /\ (e \in Streams => old \in Seq(Seq(Nat)))
  BY <1>1, <1>2
<1>5. /\ new \in Seq(Seq(Nat) \cup Statuses) /\ (e \in Streams => new \in Seq(Seq(Nat)))
      /\ Len(old) \in Nat /\ Len(new) = Len(old) + 1 /\ \A n \in 1 .. Len(old) : new[n] = old[n]
  BY <1>3, <1>4, AppendProperties
<1>6. output' = [output EXCEPT ![e] = new]
  BY <1>2, <1>3
<1>7. output'[e] = new /\ \A f \in Emitters : f # e => output'[f] = output[f]
  BY <1>1, <1>6
<1>8. \A f \in Emitters : Len(output[f]) \in Nat
  BY <1>1
<1>9. \A s \in Streams : output'[s] \in Seq(Seq(Nat))
  BY <1>1, <1>5, <1>7 DEF Emitters
<1>10. Extends(output', output)
  <2>1. ASSUME NEW s \in Streams PROVE Len(output[s]) <= Len(output'[s]) /\ \A n \in 1 .. Len(output[s]) : output'[s][n] = output[s][n]
    <3>1. s \in Emitters
      BY DEF Emitters
    <3>2. CASE s = e
      <4>1. Len(old) <= Len(new)
        BY <1>5
      <4> QED BY <1>2, <1>5, <1>7, <3>2, <4>1
    <3>3. CASE s # e
      <4>1. output'[s] = output[s]
        BY <1>7, <3>1, <3>3
      <4>2. Len(output[s]) <= Len(output[s])
        BY <1>8, <3>1
      <4> QED BY <4>1, <4>2
    <3> QED BY <3>2, <3>3
  <2> QED BY <2>1 DEF Extends
<1>11. output' \in [Emitters -> Seq(Seq(Nat) \cup Statuses)]
  BY <1>1, <1>5, <1>6
<1>12. ASSUME NEW f \in Emitters PROVE Len(output'[f]) = Len(output[f]) + (IF f = e THEN 1 ELSE 0)
  <2>1. CASE f = e
    BY <1>2, <1>5, <1>7, <2>1
  <2>2. CASE f # e
    <3>1. PICK n \in Nat : n = Len(output[f])
      BY <1>8
    <3> QED
      BY <1>7, <2>2, <3>1
  <2> QED
    BY <2>1, <2>2
<1> QED
  BY <1>8, <1>9, <1>10, <1>11, <1>12

(* What an emitter has taken was put out. *)
Counted(e) == at[e].n <= Len(output[e]) /\ (Busy(e) => at[e].n > 0)

(* process.rs: the driver may write a line while closures are called. *)
LEMMA WritesBuffer ==
  ASSUME PubSubIInv, BufferIInv, NEW s \in Streams, NEW line \in Lines, Writes(s, line) PROVE BufferIInv'
<1>1. /\ output' = [output EXCEPT ![s] = Append(output[s], line)]
      /\ UNCHANGED <<list, seenlist, at, heard, buffer>>
  BY DEF Writes, pubsub
<1>2. s \in Emitters /\ line \in Seq(Nat)
  BY TextsAssumption DEF Emitters
<1>3. /\ output' \in [Emitters -> Seq(Seq(Nat) \cup Statuses)] /\ Extends(output', output)
      /\ \A f \in Streams : output'[f] \in Seq(Seq(Nat))
      /\ \A f \in Emitters : Len(output[f]) \in Nat /\ Len(output'[f]) = Len(output[f]) + (IF f = s THEN 1 ELSE 0)
  BY <1>1, <1>2, OneMore
<1>4. KeepsNewest' /\ HeardLines(heard[Collector], output')
  BY <1>1, <1>3, QuietOK
<1>5. ASSUME NEW e \in Emitters PROVE Counted(e)'
  <2>1. at[e].n \in Nat /\ at[e].n <= Len(output[e]) /\ (Busy(e) => at[e].n > 0)
    BY DEF PubSubIInv, PubSubTypes, BufferIInv, StreamTypes
  <2>2. at[e].n <= Len(output'[e])
    <3>1. PICK n \in Nat : n = Len(output[e])
      BY <1>3
    <3>2. PICK d \in {0, 1} : d = IF e = s THEN 1 ELSE 0
      OBVIOUS
    <3>3. Len(output'[e]) = n + d
      BY <1>3, <3>1, <3>2
    <3>4. at[e].n <= n + d
      BY <2>1, <3>1
    <3> QED
      BY <3>3, <3>4
  <2> QED
    BY <1>1, <2>1, <2>2 DEF Counted, Busy
<1> QED
  BY <1>1, <1>3, <1>4, <1>5 DEF BufferIInv, StreamTypes, Counted

(* status.rs: the events of the manager are no lines. *)
LEMMA EmitBuffer ==
  ASSUME PubSubIInv, BufferIInv, UNCHANGED <<list, seenlist>>, NEW status \in Statuses,
         Emit(status) \/ UNCHANGED stream
  PROVE  BufferIInv'
<1>1. CASE UNCHANGED stream
  BY <1>1, StreamSame DEF stream
<1>2. CASE /\ output' = [output EXCEPT !["manager"] = Append(@, status)]
           /\ at' = [at EXCEPT !["manager"] = [n |-> @.n + 1, level |-> 1, todo |-> subs["status"]]]
           /\ UNCHANGED <<heard, buffer>>
  <2>1. "manager" \in Emitters /\ "manager" \notin Streams
    BY DEF Emitters, Streams
  <2>2. /\ output' \in [Emitters -> Seq(Seq(Nat) \cup Statuses)] /\ Extends(output', output)
        /\ \A f \in Streams : output'[f] \in Seq(Seq(Nat))
        /\ \A f \in Emitters : Len(output[f]) \in Nat /\ Len(output'[f]) = Len(output[f]) + (IF f = "manager" THEN 1 ELSE 0)
    BY <1>2, <2>1, OneMore
  <2>3. KeepsNewest' /\ HeardLines(heard[Collector], output')
    BY <1>2, <2>2, QuietOK
  <2>4. ASSUME NEW e \in Emitters PROVE Counted(e)'
    <3>1. at[e].n \in Nat /\ at[e].n <= Len(output[e]) /\ (Busy(e) => at[e].n > 0) /\ at \in [Emitters -> [n : Nat, level : 0 .. 2, todo : Seq(Listeners)]]
      BY DEF PubSubIInv, PubSubTypes, BufferIInv, StreamTypes
    <3>2. CASE e = "manager"
      <4>1. at'[e].n = at[e].n + 1
        BY <1>2, <3>1, <3>2
      <4>2. PICK n \in Nat : n = at[e].n
        BY <3>1
      <4>3. n + 1 <= Len(output[e]) + 1 /\ n + 1 > 0
        BY <2>2, <3>1, <4>2
      <4> QED
        BY <2>2, <3>2, <4>1, <4>2, <4>3 DEF Counted
    <3>3. CASE e # "manager"
      <4>1. at'[e] = at[e] /\ Len(output'[e]) = Len(output[e])
        BY <1>2, <2>2, <3>1, <3>3
      <4> QED
        BY <3>1, <4>1 DEF Counted, Busy
    <3> QED
      BY <3>2, <3>3
  <2> QED
    BY <1>2, <2>2, <2>3, <2>4 DEF BufferIInv, StreamTypes, Counted
<1> QED
  BY <1>1, <1>2 DEF Emit

(* Neither the lines nor what was heard change. *)
LEMMA MovesBuffer ==
  ASSUME PubSubIInv, BufferIInv, NEW e \in Emitters, UNCHANGED <<list, seenlist, output, heard, buffer>>,
         NEW p \in [n : Nat, level : 0 .. 2, todo : Seq(Listeners)], at' = [at EXCEPT ![e] = p],
         p.n <= Len(output[e]) /\ (p.level > 0 => p.n > 0)
  PROVE  BufferIInv'
<1>1. ASSUME NEW f \in Emitters PROVE Counted(f)'
  <2>1. Counted(f) /\ at \in [Emitters -> [n : Nat, level : 0 .. 2, todo : Seq(Listeners)]]
    BY DEF PubSubIInv, PubSubTypes, BufferIInv, StreamTypes, Counted
  <2>2. at'[f] = IF f = e THEN p ELSE at[f]
    BY <2>1
  <2> QED
    BY <2>1, <2>2 DEF Counted, Busy
<1>2. KeepsNewest'
  BY DEF BufferIInv, KeepsNewest, LinesHeard
<1> QED
  BY <1>1, <1>2 DEF BufferIInv, StreamTypes, Counted

(* process.rs: the pump reads the next line. *)
LEMMA ReadBuffer ==
  ASSUME PubSubIInv, BufferIInv, NEW s \in Streams, Read(s) PROVE BufferIInv'
<1>1. s \in Emitters /\ Lists(s)[1] \in ListNames
  BY DEF Emitters, Streams, Lists, ListNames
<1>2. /\ at[s].n \in Nat /\ subs[Lists(s)[1]] \in Seq(Listeners) /\ Len(output[s]) \in Nat
  BY <1>1 DEF PubSubIInv, PubSubTypes, BufferIInv, StreamTypes
<1>3. PICK p : p = [n |-> at[s].n + 1, level |-> 1, todo |-> subs[Lists(s)[1]]]
  OBVIOUS
<1>4. p \in [n : Nat, level : 0 .. 2, todo : Seq(Listeners)] /\ p.n <= Len(output[s]) /\ p.n > 0
  BY <1>2, <1>3 DEF Read
<1>5. at' = [at EXCEPT ![s] = p] /\ UNCHANGED <<list, seenlist, output, heard, buffer>>
  BY <1>3 DEF Read, pubsub
<1> QED
  BY <1>1, <1>4, <1>5, MovesBuffer

(* status.rs: the pump goes on to the manager's list. *)
LEMMA NextListBuffer ==
  ASSUME PubSubIInv, BufferIInv, NEW e \in Emitters, NextList(e) PROVE BufferIInv'
<1>1. /\ at \in [Emitters -> [n : Nat, level : 0 .. 2, todo : Seq(Listeners)]] /\ Busy(e)
      /\ at[e].n <= Len(output[e]) /\ at[e].n > 0 /\ subs \in [ListNames -> Seq(Listeners)]
  BY DEF PubSubIInv, PubSubTypes, BufferIInv, StreamTypes, NextList
<1>2. UNCHANGED <<list, seenlist, output, heard, buffer>>
  BY DEF NextList, pubsub
<1>3. CASE at[e].level < Len(Lists(e)) /\ at' = [at EXCEPT ![e] = [n |-> @.n, level |-> @.level + 1, todo |-> subs[Lists(e)[@.level + 1]]]]
  <2>1. at[e].level + 1 \in DOMAIN Lists(e) /\ at[e].level + 1 \in 0 .. 2
    <3>1. PICK k \in 0 .. 2 : k = at[e].level
      BY <1>1
    <3>2. DOMAIN Lists(e) = 1 .. Len(Lists(e)) /\ Len(Lists(e)) \in {1, 2} /\ k < Len(Lists(e))
      BY <1>3, <3>1, ListsAre
    <3>3. k + 1 \in 1 .. Len(Lists(e)) /\ k + 1 \in 0 .. 2
      BY <3>2
    <3> QED
      BY <3>1, <3>2, <3>3
  <2>2. subs[Lists(e)[at[e].level + 1]] \in Seq(Listeners)
    BY <1>1, <2>1, ListsAre
  <2>3. PICK p : p = [n |-> at[e].n, level |-> at[e].level + 1, todo |-> subs[Lists(e)[at[e].level + 1]]]
    OBVIOUS
  <2>4. p \in [n : Nat, level : 0 .. 2, todo : Seq(Listeners)] /\ p.n = at[e].n
    BY <1>1, <2>1, <2>2, <2>3
  <2>5. at' = [at EXCEPT ![e] = p]
    BY <1>3, <2>3
  <2> QED
    BY <1>1, <1>2, <2>4, <2>5, MovesBuffer
<1>4. CASE at' = [at EXCEPT ![e].level = 0]
  <2>1. PICK p : p = [n |-> at[e].n, level |-> 0, todo |-> at[e].todo]
    OBVIOUS
  <2>2. p \in [n : Nat, level : 0 .. 2, todo : Seq(Listeners)] /\ p.n = at[e].n /\ at' = [at EXCEPT ![e] = p]
    <3>1. at[e] \in [n : Nat, level : 0 .. 2, todo : Seq(Listeners)]
      BY <1>1
    <3>2. [at[e] EXCEPT !.level = 0] = p
      BY <2>1, <3>1
    <3>3. at' = [at EXCEPT ![e] = [at[e] EXCEPT !.level = 0]]
      BY <1>4
    <3>4. p \in [n : Nat, level : 0 .. 2, todo : Seq(Listeners)] /\ p.n = at[e].n
      BY <2>1, <3>1
    <3> QED
      BY <3>2, <3>3, <3>4, Zenon
  <2> QED
    BY <1>1, <1>2, <2>2, MovesBuffer
<1> QED
  BY <1>3, <1>4 DEF NextList

(* Who subscribes hears nothing yet; the collector takes its buffer with it. *)
LEMMA SubscriberBuffer ==
  ASSUME PubSubIInv, BufferIInv, NEW x \in Listeners, Subscriber(x) PROVE BufferIInv'
<1>1. /\ seenlist \in [Listeners -> Seq(Listeners)] /\ list \in [Listeners -> ListNames] /\ subs \in [ListNames -> Seq(Listeners)]
      /\ heard \in [Listeners -> Seq(Emitters \X Nat)] /\ Collector \in Listeners
  BY CollectorAssumption DEF PubSubIInv, PubSubTypes, BufferIInv, StreamTypes
<1>2. UNCHANGED <<list, output, at>>
  BY DEF Subscriber, Load, Swap, Subscribed, stream
<1>3. seenlist' \in [Listeners -> Seq(Listeners)]
  <2>1. subs[list[x]] \in Seq(Listeners)
    BY <1>1
  <2>2. PICK o : o = <<>>
    OBVIOUS
  <2>3. o \in Seq(Listeners)
    BY <2>2
  <2>4. seenlist' = [seenlist EXCEPT ![x] = subs[list[x]]] \/ seenlist' = [seenlist EXCEPT ![x] = o]
    BY <2>2 DEF Subscriber, Load, Swap, Subscribed
  <2> QED
    BY <1>1, <2>1, <2>3, <2>4
<1>4. \/ UNCHANGED <<heard, buffer>>
      \/ heard' = [heard EXCEPT ![x] = <<>>] /\ buffer' = IF x = Collector THEN <<>> ELSE buffer
  BY DEF Subscriber, Load, Swap, Subscribed, stream
<1>5. \/ heard'[Collector] = heard[Collector] /\ buffer' = buffer
      \/ heard'[Collector] = <<>> /\ buffer' = <<>>
  BY <1>1, <1>4
<1>6. CASE heard'[Collector] = heard[Collector] /\ buffer' = buffer
  BY <1>2, <1>3, <1>6 DEF BufferIInv, StreamTypes, KeepsNewest, LinesHeard, Busy
<1>7. CASE heard'[Collector] = <<>> /\ buffer' = <<>>
  <2>1. DOMAIN heard'[Collector] = {}
    BY <1>7
  <2>2. HeardLines(heard'[Collector], output')
    BY <2>1 DEF HeardLines
  <2>3. LinesHeard' = [i \in {} |-> Kept(heard'[Collector][i], output')]
    BY <2>1 DEF LinesHeard, Kept
  <2>4. [i \in {} |-> Kept(heard'[Collector][i], output')] = <<>>
    OBVIOUS
  <2>5. KeepsNewest'
    BY <1>7, <2>3, <2>4, NewestOfNone, LimitsAssumption DEF KeepsNewest
  <2> QED
    BY <1>2, <1>3, <2>2, <2>5 DEF BufferIInv, StreamTypes, Busy
<1> QED
  BY <1>5, <1>6, <1>7

(* The collector is called with the line that the pump is at, and keeps it. *)
LEMMA CollectorCalled ==
  ASSUME BufferIInv, heard[Collector] \in Seq(Emitters \X Nat), NEW e \in Streams, NEW n \in 1 .. Len(output[e]), output' = output,
         heard'[Collector] = Append(heard[Collector], <<e, n>>),
         buffer' = Push(buffer, output[e][n], ProcessLimits)
  PROVE  KeepsNewest' /\ HeardLines(heard'[Collector], output')
<1>1. PICK h : h = heard[Collector]
  OBVIOUS
<1>2. PICK item : item = <<e, n>>
  OBVIOUS
<1>3. PICK g : g = heard'[Collector]
  OBVIOUS
<1>4. item[1] = e /\ item[2] = n /\ item \in Emitters \X Nat
  BY <1>2 DEF Emitters
<1>5. PICK m \in Nat : m = Len(h)
  BY <1>1
<1>6. /\ h \in Seq(Emitters \X Nat) /\ g \in Seq(Emitters \X Nat) /\ DOMAIN h = 1 .. m /\ DOMAIN g = 1 .. (m + 1)
      /\ g[m + 1] = item /\ \A i \in 1 .. m : g[i] = h[i]
  <2>1. g = Append(h, item)
    BY <1>1, <1>2, <1>3
  <2>2. Len(g) = m + 1 /\ g \in Seq(Emitters \X Nat) /\ g[m + 1] = item /\ \A i \in 1 .. m : g[i] = h[i]
    BY <1>1, <1>4, <1>5, <2>1, AppendProperties
  <2> QED
    BY <1>1, <1>5, <2>2
<1>7. HeardLines(h, output) /\ \A s \in Streams : output[s] \in Seq(Seq(Nat))
  BY <1>1 DEF BufferIInv, StreamTypes
<1>8. HeardLines(g, output)
  <2>1. ASSUME NEW i \in 1 .. (m + 1) PROVE g[i][1] \in Streams /\ g[i][2] \in 1 .. Len(output[g[i][1]])
    <3>1. CASE i = m + 1
      BY <1>4, <1>6, <3>1
    <3>2. CASE i \in 1 .. m
      BY <1>6, <1>7, <3>2 DEF HeardLines
    <3> QED
      BY <1>5, <3>1, <3>2
  <2> QED
    BY <1>6, <2>1 DEF HeardLines
<1>9. PICK s : s = KeptOf(h, output)
  OBVIOUS
<1>10. PICK t : t = KeptOf(g, output)
  OBVIOUS
<1>11. PICK text : text = output[e][n]
  OBVIOUS
<1>12. text \in Seq(Nat)
  BY <1>7, <1>11
<1>13. PICK line : line = Cut(text, ProcessLimits)
  OBVIOUS
<1>14. line \in Seq(Nat)
  BY <1>12, <1>13, CutOK, LimitsAssumption
<1>15. s \in Seq(Seq(Nat)) /\ Len(s) = m
  BY <1>5, <1>6, <1>7, <1>9, KeptTyped
<1>16. t \in Seq(Seq(Nat)) /\ Len(t) = m + 1
  <2>1. Len(g) = m + 1
    BY <1>5, <1>6
  <2> QED
    BY <1>6, <1>7, <1>8, <1>10, <2>1, KeptTyped
<1>17. t = Append(s, line)
  <2>1. PICK u : u = Append(s, line)
    OBVIOUS
  <2>2. u \in Seq(Seq(Nat)) /\ Len(u) = m + 1 /\ u[m + 1] = line /\ \A i \in 1 .. m : u[i] = s[i]
    BY <1>14, <1>15, <2>1, AppendProperties
  <2>3. ASSUME NEW i \in 1 .. (m + 1) PROVE t[i] = u[i]
    <3>1. t[i] = Kept(g[i], output)
      BY <1>6, <1>10 DEF KeptOf
    <3>2. CASE i = m + 1
      BY <1>4, <1>6, <1>11, <1>13, <2>2, <3>1, <3>2 DEF Kept
    <3>3. CASE i \in 1 .. m
      <4>1. s[i] = Kept(h[i], output)
        BY <1>6, <1>9, <3>3 DEF KeptOf
      <4> QED
        BY <1>6, <2>2, <3>1, <3>3, <4>1
    <3> QED
      BY <1>5, <3>2, <3>3
  <2>4. t = u
    BY <1>16, <2>2, <2>3, SeqEqual
  <2> QED
    BY <2>1, <2>4
<1>18. LinesHeard = s
  BY <1>1, <1>9, KeptIs
<1>19. LinesHeard' = t
  BY <1>3, <1>10, output' = output DEF LinesHeard, KeptOf, Kept
<1>20. buffer = Newest(s, ProcessLimits)
  BY <1>18 DEF BufferIInv, KeepsNewest
<1>21. Push(Newest(s, ProcessLimits), text, ProcessLimits) = Newest(t, ProcessLimits)
  BY <1>12, <1>13, <1>15, <1>17, PushKeepsNewest, LimitsAssumption
<1>22. buffer' = Newest(t, ProcessLimits)
  BY <1>11, <1>20, <1>21
<1> QED
  BY <1>3, <1>8, <1>19, <1>22 DEF KeepsNewest

(* A closure is called: the collector's only with a line of a stream, since its
   list is none of the manager's. *)
LEMMA CallNextBuffer ==
  ASSUME PubSubIInv, BufferIInv, NEW e \in Emitters, CallNext(e) PROVE BufferIInv'
<1>1. /\ at \in [Emitters -> [n : Nat, level : 0 .. 2, todo : Seq(Listeners)]] /\ Busy(e) /\ at[e].todo # <<>>
      /\ at[e].n <= Len(output[e]) /\ at[e].n > 0 /\ heard \in [Listeners -> Seq(Emitters \X Nat)] /\ Collector \in Listeners
  BY CollectorAssumption DEF PubSubIInv, PubSubTypes, BufferIInv, StreamTypes, CallNext
<1>2. UNCHANGED <<list, seenlist, output>>
  BY DEF CallNext, pubsub
<1>3. PICK x : x = Head(at[e].todo)
  OBVIOUS
<1>4. at[e].todo \in Seq(Listeners)
  BY <1>1
<1>5. x \in Listeners /\ x \in Range(at[e].todo) /\ Tail(at[e].todo) \in Seq(Listeners)
  <2>1. PICK s : s = at[e].todo
    OBVIOUS
  <2>2. s \in Seq(Listeners) /\ s # <<>>
    BY <1>1, <1>4, <2>1
  <2>3. x = s[1] /\ 1 \in DOMAIN s /\ Tail(s) \in Seq(Listeners)
    BY <1>3, <2>1, <2>2
  <2> QED
    BY <2>1, <2>2, <2>3 DEF Range
<1>6. ASSUME NEW f \in Emitters PROVE Counted(f)'
  <2>1. at' = [at EXCEPT ![e].todo = Tail(@)]
    BY DEF CallNext
  <2>2. at'[f].n = at[f].n /\ at'[f].level = at[f].level
    BY <1>1, <2>1
  <2>3. at[f].n <= Len(output[f]) /\ (Busy(f) => at[f].n > 0)
    BY DEF BufferIInv, StreamTypes
  <2> QED
    BY <1>2, <2>2, <2>3 DEF Counted, Busy
<1>7. HeardLines(heard'[Collector], output') /\ KeepsNewest'
  <2>1. CASE x = Collector /\ sub[x] # "gone"
    <3>1. list[Collector] = Lists(e)[at[e].level] /\ list[Collector] = "process"
      BY <1>1, <1>5, <2>1 DEF PubSubIInv, CalledOnce, BufferIInv, StreamTypes
    <3>2. e # "manager"
      <4>1. SUFFICES ASSUME e = "manager" PROVE FALSE
        OBVIOUS
      <4>2. at[e].level \in 1 .. Len(Lists(e))
        <5>1. at[e].level \in 0 .. 2 /\ at[e].level > 0 /\ at[e].level <= Len(Lists(e))
          BY <1>1 DEF Busy, PubSubIInv, PubSubTypes
        <5>2. Len(Lists(e)) \in {1, 2}
          BY ListsAre
        <5> QED
          BY <5>1, <5>2
      <4>3. Lists(e)[at[e].level] = "status"
        <5>1. Lists(e) = <<"status">>
          BY <4>1 DEF Lists
        <5> QED
          BY <4>2, <5>1
      <4> QED
        BY <3>1, <4>3
    <3>3. e \in Streams
      BY <3>2 DEF Emitters
    <3>4. at[e].n \in 1 .. Len(output[e])
      <4>1. at[e].n \in Nat /\ Len(output[e]) \in Nat
        BY <1>1, <3>3 DEF BufferIInv, StreamTypes
      <4> QED
        BY <1>1, <4>1
    <3>5. heard' = [heard EXCEPT ![x] = Append(@, <<e, at[e].n>>)] /\ buffer' = Push(buffer, output[e][at[e].n], ProcessLimits)
      BY <1>3, <2>1 DEF CallNext
    <3>6. heard'[Collector] = Append(heard[Collector], <<e, at[e].n>>)
      BY <1>1, <2>1, <3>5
    <3> QED
      BY <1>1, <1>2, <3>3, <3>4, <3>5, <3>6, CollectorCalled
  <2>2. CASE ~(x = Collector /\ sub[x] # "gone")
    <3>1. /\ heard' = IF sub[x] = "gone" THEN heard ELSE [heard EXCEPT ![x] = Append(@, <<e, at[e].n>>)]
          /\ buffer' = buffer
      BY <1>3, <2>2 DEF CallNext
    <3>2. heard'[Collector] = heard[Collector]
      BY <1>1, <1>5, <2>2, <3>1
    <3> QED
      BY <1>2, <3>1, <3>2 DEF BufferIInv, StreamTypes, KeepsNewest, LinesHeard, HeardLines
  <2> QED
    BY <2>1, <2>2
<1> QED
  BY <1>2, <1>6, <1>7 DEF BufferIInv, StreamTypes, Counted

(* The run itself logs nothing but the manager's events. *)
LEMMA SetupOrRunBuffer ==
  ASSUME PubSubIInv, BufferIInv, Setup \/ Run PROVE BufferIInv'
<1>1. ASSUME Start \/ TimeoutsSet \/ SetupFailed \/ QuitRun \/ DropHandle \/ Done PROVE BufferIInv'
  <2>1. UNCHANGED <<list, seenlist>>
    BY <1>1 DEF Start, TimeoutsSet, SetupFailed, QuitRun, DropHandle, Done, pubsub
  <2>2. \E status \in {"SessionStarting", "SessionStarted", "DriverShutdown", "SessionEnded"} :
          Emit(status) \/ UNCHANGED stream
    BY <1>1 DEF Start, TimeoutsSet, SetupFailed, QuitRun, DropHandle, Done
  <2> QED
    BY <2>1, <2>2, EmitBuffer DEF Statuses
<1>2. ASSUME Created \/ NotCreated(500) \/ NotCreated(404) \/ TimeoutsErr PROVE BufferIInv'
  <2>1. UNCHANGED <<list, seenlist, output, at, heard, buffer>>
    BY <1>2 DEF Created, NotCreated, TimeoutsErr, pubsub, stream
  <2> QED
    BY <2>1, StreamSame
<1>3. ASSUME \/ \E ok \in BOOLEAN : Capture(ok)
             \/ \E outcome \in {"ok", "err", "panic"} : BodyEnds(outcome)
             \/ Left
             \/ \E outcome \in {"err", "panic"} : QuitFails(outcome)
             \/ CancelRun
      PROVE  BufferIInv'
  <2>1. UNCHANGED <<list, seenlist, output, at, heard, buffer>>
    BY <1>3 DEF Capture, BodyEnds, Left, QuitFails, CancelRun, pubsub, stream
  <2> QED
    BY <2>1, StreamSame
<1> QED
  BY <1>1, <1>2, <1>3 DEF Setup, Run

(* Every step keeps the buffer as it is promised. *)
LEMMA BufferStep == PubSubIInv /\ BufferIInv /\ [RunNext]_runVars => BufferIInv'
<1> SUFFICES ASSUME PubSubIInv, BufferIInv, [RunNext]_runVars PROVE BufferIInv'
  OBVIOUS
<1>1. ASSUME NEW x \in Listeners, Subscriber(x) PROVE BufferIInv'
  BY <1>1, SubscriberBuffer
<1>2. ASSUME NEW e \in Emitters, Emitter(e) PROVE BufferIInv'
  BY <1>2, CallNextBuffer, NextListBuffer DEF Emitter
<1>3. CASE UNCHANGED runVars
  BY <1>3, StreamSame DEF runVars, pubsub, stream
<1> QED
  BY <1>1, <1>2, <1>3, ReadBuffer, WritesBuffer, SetupOrRunBuffer DEF RunNext

(* It is empty when the run begins. *)
LEMMA BufferInit == RunInit => BufferIInv
<1> SUFFICES ASSUME RunInit PROVE BufferIInv
  OBVIOUS
<1>1. PICK o : o = <<>>
  OBVIOUS
<1>2. o \in Seq(Listeners) /\ o \in Seq(Seq(Nat)) /\ o \in Seq(Seq(Nat) \cup Statuses) /\ Len(o) = 0 /\ DOMAIN o = {}
  BY <1>1
<1>3. /\ seenlist = [x \in Listeners |-> o] /\ output = [e \in Emitters |-> o] /\ heard = [x \in Listeners |-> o]
      /\ buffer = o /\ list[Collector] = "process" /\ \A e \in Emitters : at[e].n = 0 /\ ~Busy(e)
  BY <1>1 DEF RunInit, Busy
<1>4. Streams \subseteq Emitters /\ heard[Collector] = o
  BY <1>3, CollectorAssumption DEF Emitters
<1>5. \A e \in Emitters : output[e] = o
  BY <1>3
<1>6. StreamTypes
  BY <1>2, <1>3, <1>4, <1>5 DEF StreamTypes, HeardLines
<1>7. LinesHeard = o
  <2>1. LinesHeard = [i \in {} |-> Kept(heard[Collector][i], output)]
    BY <1>2, <1>4 DEF LinesHeard, Kept
  <2>2. [i \in {} |-> Kept(heard[Collector][i], output)] = <<>>
    OBVIOUS
  <2> QED BY <1>1, <2>1, <2>2
<1>8. KeepsNewest
  BY <1>1, <1>3, <1>7, NewestOfNone, LimitsAssumption DEF KeepsNewest
<1> QED
  BY <1>6, <1>8 DEF BufferIInv

-----------------------------------------------------------------------------
(* The evidence *)

(* The inductive invariant of the evidence. *)
EvidenceIInv == PubSubIInv /\ RunIInv /\ RemoteTypes /\ BufferIInv /\ ReportIInv

(* The buffer holds lines. *)
LEMMA BufferTyped == PubSubIInv /\ BufferIInv => buffer \in Seq(Seq(Nat))
<1> SUFFICES ASSUME PubSubIInv, BufferIInv PROVE buffer \in Seq(Seq(Nat))
  OBVIOUS
<1>1. PICK h : h = heard[Collector]
  OBVIOUS
<1>2. h \in Seq(Emitters \X Nat) /\ HeardLines(h, output) /\ \A s \in Streams : output[s] \in Seq(Seq(Nat))
  BY <1>1, CollectorAssumption DEF PubSubIInv, PubSubTypes, BufferIInv, StreamTypes
<1>3. KeptOf(h, output) \in Seq(Seq(Nat)) /\ buffer = Newest(KeptOf(h, output), ProcessLimits)
  BY <1>1, <1>2, KeptTyped, KeptIs DEF BufferIInv, KeepsNewest
<1> QED
  BY <1>3, NewestTyped, LimitsAssumption

(* The invariant holds when the run begins. *)
LEMMA EvidenceInit == RunInit => EvidenceIInv
<1>1. RunInit => ReportIInv
  BY NoReportOK, LimitsAssumption DEF RunInit, ReportIInv, ReportIsBounded, LogLimits
<1> QED
  BY <1>1, PubSubInit, RunInOrderInit, RemoteTypesInit, BufferInit DEF EvidenceIInv

(* Every step keeps it. *)
LEMMA EvidenceStep == EvidenceIInv /\ [RunNext]_runVars => EvidenceIInv'
<1> SUFFICES ASSUME EvidenceIInv, [RunNext]_runVars PROVE EvidenceIInv'
  OBVIOUS
<1>1. PubSubIInv' /\ RunIInv' /\ RemoteTypes' /\ BufferIInv'
  BY PubSubStep, RunStep, RemoteTypesStep, BufferStep DEF EvidenceIInv
<1>2. ReportIInv'
  BY BufferTyped, ReportStep DEF EvidenceIInv
<1> QED
  BY <1>1, <1>2 DEF EvidenceIInv

(* It gives the types, the buffer and the bounds. *)
LEMMA EvidenceFromIInv == EvidenceIInv => EvidenceIsKept
<1> SUFFICES ASSUME EvidenceIInv PROVE EvidenceIsKept
  OBVIOUS
<1>1. /\ managed \in BOOLEAN /\ quitCell \in BOOLEAN
      /\ sessions \subseteq Sessions /\ lost \subseteq sessions /\ mine \in Sessions \cup {None}
      /\ attempt \in 0 .. 2 /\ faults \in 0 .. MaxFaults
  BY Zenon DEF EvidenceIInv, RemoteTypes, RunIInv, RunIsInOrder
<1>2. /\ phase \in {"start", "request", "timeouts", "failed", "body", "leaving", "quit", "drop", "guard", "done"}
      /\ body \in {"none", "ok", "err", "panic"} /\ cleanup \in {"none", "ok", "err", "panic"}
      /\ result \in {"none", "ok", "setup", "cancelled", "body", "cleanup", "body_and_cleanup", "panic", "cleanup_panic"}
      /\ driver \in {"running", "killed"}
  BY Zenon DEF EvidenceIInv, RemoteTypes, RunIInv, RunIsInOrder, Phases
<1>3. /\ list \in [Listeners -> {"status", "process", "manager"}]
      /\ sub \in [Listeners -> {"out", "adding", "in", "dropping", "gone"}]
      /\ seenlist \in [Listeners -> Seq(Listeners)]
      /\ subs \in [{"status", "process", "manager"} -> Seq(Listeners)]
      /\ at \in [Emitters -> [n : Nat, level : 0 .. 2, todo : Seq(Listeners)]]
      /\ \A e \in Emitters : at[e].n <= Len(output[e])
  BY Zenon DEF EvidenceIInv, PubSubIInv, PubSubTypes, ListNames, BufferIInv, StreamTypes
<1>4. \A x \in Listeners : heard[x] \in Seq(Emitters \X Nat) /\ since[x] \in [Emitters -> Nat]
  BY DEF EvidenceIInv, PubSubIInv, PubSubTypes
<1>5. report.next <= Len(Fields) /\ report.failed \subseteq Range(Fields)
  <2>1. report.next \in 0 .. Len(Fields) /\ report.failed \in SUBSET Range(Fields)
    BY DEF EvidenceIInv, ReportIInv, Reports
  <2>2. Len(Fields) = 5
    BY DEF Fields
  <2> QED BY <2>1, <2>2
<1>6. RunTypeOK
  BY <1>1, <1>2, <1>3, <1>4, <1>5, Zenon DEF RunTypeOK
<1> QED
  BY <1>6 DEF EvidenceIInv, BufferIInv, ReportIInv, EvidenceIsKept

(* The inductive invariant of a run's evidence: the subscriptions, the outcome of
   the run, and the types, the collector's buffer and the bounded report. *)
THEOREM EvidenceInductive == RunSpec => []EvidenceIInv
  BY EvidenceInit, EvidenceStep, PTL DEF RunSpec

(* artifacts.rs:333-401: the collector's buffer holds the newest lines that it
   was called with, as many as its limits allow; the excerpt of the source is
   within its limit and whole when it fits; the browser's log is excerpts of its
   newest entries, in order, within all three of its limits, an older entry left
   out only when the newer ones reach one of them, and a message whole when its
   entry fits: for all limits, lines, pages and logs. *)
THEOREM EvidenceIsAlwaysKept == RunSpec => []EvidenceIsKept
  BY EvidenceInductive, EvidenceFromIInv, PTL
=============================================================================
