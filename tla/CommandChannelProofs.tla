------------------------ MODULE CommandChannelProofs ------------------------
(***************************************************************************)
(* Proofs that the safety properties of CommandChannel hold for every set  *)
(* of callers and every bound on the number of calls.                      *)
(***************************************************************************)
EXTENDS CommandChannel, TLAPS

-----------------------------------------------------------------------------
(* The two queue operations. *)

LEMMA AppendFacts ==
  ASSUME NEW S, NEW s \in Seq(S), NEW x \in S
  PROVE  /\ Append(s, x) \in Seq(S)
         /\ DOMAIN s = 1 .. Len(s) /\ Len(s) \in Nat
         /\ DOMAIN Append(s, x) = 1 .. Len(s) + 1
         /\ Append(s, x)[Len(s) + 1] = x
         /\ \A k \in 1 .. Len(s) : Append(s, x)[k] = s[k] /\ s[k] \in S
  OBVIOUS

LEMMA TailFacts ==
  ASSUME NEW S, NEW s \in Seq(S), s # << >>
  PROVE  /\ Tail(s) \in Seq(S)
         /\ Len(s) \in Nat \ {0} /\ DOMAIN s = 1 .. Len(s)
         /\ DOMAIN Tail(s) = 1 .. Len(s) - 1
         /\ Head(s) = s[1] /\ Head(s) \in S
         /\ \A k \in 1 .. Len(s) - 1 : Tail(s)[k] = s[k + 1]
  OBVIOUS

-----------------------------------------------------------------------------
(* The initial state satisfies the invariant. *)

LEMMA InitIInv == Init => IInv
<1> SUFFICES ASSUME Init PROVE IInv
  OBVIOUS
<1> USE CallersAssumption, MaxCallsAssumption DEF Init, Ids, Outcomes, Empty
<1>1. TypeOK
  BY DEF TypeOK, Replies
<1>2. IdsAreOwned
  BY DEF IdsAreOwned, InFlight, Queued, Coming
<1>3. OnePlace
  BY DEF OnePlace, Unsent, InFlight, Queued, Coming
<1>4. EntriesAreOwned /\ SlotsFollowCalls /\ RepliesMatch /\ WaiterIsReachable
  BY DEF EntriesAreOwned, SlotsFollowCalls, RepliesMatch, WaiterIsReachable
<1>5. InFlightIsPending
  BY DEF InFlightIsPending, InFlight, Queued, Coming
<1> QED
  BY <1>1, <1>2, <1>3, <1>4, <1>5 DEF IInv

-----------------------------------------------------------------------------
(* Every step of a calling task preserves it. *)

LEMMA FetchIdIInv ==
  ASSUME NEW c \in Callers, IInv, FetchId(c) PROVE IInv'
<1> USE CallersAssumption, MaxCallsAssumption
    DEF IInv, FetchId, Ids, Outcomes, Empty, writerVars, remoteVars
<1>1. TypeOK'
  BY DEF TypeOK, Replies
<1>2. IdsAreOwned'
  BY DEF IdsAreOwned, TypeOK, InFlight, Queued, Coming
<1>3. OnePlace'
  BY DEF OnePlace, IdsAreOwned, TypeOK, Unsent, InFlight, Queued, Coming
<1>4. (EntriesAreOwned /\ SlotsFollowCalls)'
  BY DEF EntriesAreOwned, SlotsFollowCalls, IdsAreOwned, TypeOK
<1>5. RepliesMatch' /\ WaiterIsReachable'
  BY DEF RepliesMatch, WaiterIsReachable, SlotsFollowCalls, TypeOK
<1>6. InFlightIsPending'
  BY DEF InFlightIsPending, InFlight, Queued, Coming
<1> QED
  BY <1>1, <1>2, <1>3, <1>4, <1>5, <1>6

LEMMA RegisterIInv ==
  ASSUME NEW c \in Callers, IInv, Register(c) PROVE IInv'
<1> USE CallersAssumption, MaxCallsAssumption
    DEF IInv, Register, Ids, Outcomes, Empty, writerVars, remoteVars
<1>0. callId[c] \in Ids /\ callId[c] < nextId
  BY DEF IdsAreOwned, TypeOK
<1>1. TypeOK'
  BY <1>0 DEF TypeOK, Replies
<1>2. IdsAreOwned'
  BY <1>0 DEF IdsAreOwned, TypeOK, InFlight, Queued, Coming
<1>3. OnePlace'
  BY DEF OnePlace, TypeOK, Unsent, InFlight, Queued, Coming
<1>4. (EntriesAreOwned /\ SlotsFollowCalls)'
  BY <1>0 DEF EntriesAreOwned, SlotsFollowCalls, IdsAreOwned, TypeOK
<1>5. RepliesMatch' /\ WaiterIsReachable'
  BY <1>0 DEF RepliesMatch, WaiterIsReachable, IdsAreOwned, TypeOK
<1>6. InFlightIsPending'
  BY <1>0 DEF InFlightIsPending, InFlight, Queued, Coming, TypeOK
<1> QED
  BY <1>1, <1>2, <1>3, <1>4, <1>5, <1>6

LEMMA LeaveIInv ==
  ASSUME NEW c \in Callers, IInv, Leave(c),
         UNCHANGED <<nextId, pending, out, writerVars, remoteVars, inbound, reader, held>>
  PROVE  IInv'
<1> USE CallersAssumption, MaxCallsAssumption
    DEF IInv, Leave, Ids, Outcomes, Empty, writerVars, remoteVars
<1>1. TypeOK'
  BY DEF TypeOK, Replies
<1>2. IdsAreOwned'
  BY DEF IdsAreOwned, TypeOK, InFlight, Queued, Coming
<1>3. OnePlace'
  BY DEF OnePlace, TypeOK, Unsent, InFlight, Queued, Coming
<1>4. (EntriesAreOwned /\ SlotsFollowCalls)'
  BY DEF EntriesAreOwned, SlotsFollowCalls, TypeOK
<1>5. RepliesMatch' /\ WaiterIsReachable'
  BY DEF RepliesMatch, WaiterIsReachable, TypeOK
<1>6. InFlightIsPending'
  BY DEF InFlightIsPending, InFlight, Queued, Coming
<1> QED
  BY <1>1, <1>2, <1>3, <1>4, <1>5, <1>6

LEMMA EnqueueIInv ==
  ASSUME NEW c \in Callers, IInv, Enqueue(c) PROVE IInv'
<1>1. CASE writer = "gone"
  <2>1. Leave(c) /\ UNCHANGED <<nextId, pending, out, writerVars, remoteVars, inbound, reader, held>>
    BY <1>1 DEF Enqueue
  <2> QED
    BY <2>1, LeaveIInv
<1>2. CASE writer # "gone"
  <2>1. /\ out \in Seq(Ids) /\ callId[c] \in Ids /\ callId[c] < nextId
        /\ out' = Append(out, callId[c]) /\ pc[c] = "registered"
    BY <1>2, CallersAssumption, MaxCallsAssumption DEF Enqueue, IInv, IdsAreOwned, TypeOK, Ids
  <2>2. /\ out' \in Seq(Ids)
        /\ DOMAIN out = 1 .. Len(out) /\ Len(out) \in Nat
        /\ DOMAIN out' = 1 .. Len(out) + 1
        /\ out'[Len(out) + 1] = callId[c]
        /\ \A k \in 1 .. Len(out) : out'[k] = out[k]
    BY <2>1, AppendFacts
  <2>3. \A i \in Ids : Queued(i)' <=> Queued(i) \/ i = callId[c]
    BY <2>2 DEF Queued
  <2> USE <1>2, CallersAssumption, MaxCallsAssumption
      DEF IInv, Enqueue, Ids, Outcomes, Empty, writerVars, remoteVars
  <2>4. \A i \in Ids : InFlight(i)' <=> InFlight(i) \/ i = callId[c]
    BY <2>3 DEF InFlight, Coming
  <2>5. TypeOK'
    BY <2>2 DEF TypeOK, Replies
  <2>6. IdsAreOwned'
    BY <2>1, <2>4 DEF IdsAreOwned, TypeOK
  <2>7. OnePlace'
    <3>1. Unsent(callId[c])
      BY <2>1 DEF Unsent
    <3>2. \A i \in Ids : Unsent(i)' => Unsent(i) /\ i # callId[c]
      BY DEF Unsent, IdsAreOwned, TypeOK
    <3>3. (\A j, k \in DOMAIN out : out[j] = out[k] => j = k)'
      <4>1. \A k \in DOMAIN out : out[k] # callId[c]
        BY <2>1, <3>1 DEF OnePlace, InFlight, Queued
      <4> QED
        BY <2>2, <4>1 DEF OnePlace
    <3> QED
      BY <2>1, <2>3, <2>4, <3>1, <3>2, <3>3 DEF OnePlace, InFlight
  <2>8. (EntriesAreOwned /\ SlotsFollowCalls)'
    BY DEF EntriesAreOwned, SlotsFollowCalls, TypeOK
  <2>9. RepliesMatch' /\ WaiterIsReachable'
    BY <2>1 DEF RepliesMatch, WaiterIsReachable, EntriesAreOwned, TypeOK
  <2>10. InFlightIsPending'
    <3>1. pending' = pending /\ reader' = reader
      OBVIOUS
    <3>2. reader # "done" => pending[callId[c]] = c
      BY <2>1 DEF EntriesAreOwned
    <3> HIDE DEF Enqueue
    <3> QED
      BY <2>4, <3>1, <3>2 DEF InFlightIsPending
  <2> QED
    BY <2>5, <2>6, <2>7, <2>8, <2>9, <2>10
<1> QED
  BY <1>1, <1>2

-----------------------------------------------------------------------------
(* Every step of the writer task and of the remote end preserves it. *)

LEMMA WriterRecvIInv ==
  ASSUME IInv, WriterRecv PROVE IInv'
<1>1. out \in Seq(Ids) /\ out # << >> /\ out' = Tail(out) /\ writing' = Head(out)
  BY DEF WriterRecv, IInv, TypeOK
<1>2. /\ out' \in Seq(Ids)
      /\ Len(out) \in Nat \ {0} /\ DOMAIN out = 1 .. Len(out)
      /\ DOMAIN out' = 1 .. Len(out) - 1
      /\ writing' = out[1] /\ writing' \in Ids
      /\ \A k \in 1 .. Len(out) - 1 : out'[k] = out[k + 1]
  BY <1>1, TailFacts
<1> USE CallersAssumption, MaxCallsAssumption
    DEF IInv, WriterRecv, Outcomes, Empty, callVars, remoteVars
<1>3. \A i \in Ids : Queued(i)' <=> Queued(i) /\ i # writing'
  <2>1. ASSUME NEW i \in Ids, Queued(i)' PROVE Queued(i) /\ i # writing'
    <3>1. PICK k \in 1 .. Len(out) - 1 : out'[k] = i
      BY <2>1, <1>2 DEF Queued
    <3>2. k + 1 \in DOMAIN out /\ 1 \in DOMAIN out /\ out[k + 1] = i /\ k + 1 # 1
      BY <3>1, <1>2
    <3> QED
      BY <3>2, <1>2 DEF Queued, OnePlace
  <2>2. ASSUME NEW i \in Ids, Queued(i), i # writing' PROVE Queued(i)'
    <3>1. PICK k \in 1 .. Len(out) : out[k] = i
      BY <2>2, <1>2 DEF Queued
    <3>2. k - 1 \in 1 .. Len(out) - 1 /\ out'[k - 1] = i
      BY <3>1, <2>2, <1>2
    <3> QED
      BY <3>2, <1>2 DEF Queued
  <2> QED
    BY <2>1, <2>2
<1>4. Queued(writing')
  BY <1>2 DEF Queued
<1>5. \A i \in Ids : InFlight(i)' => InFlight(i)
  BY <1>2, <1>3, <1>4 DEF InFlight, Coming
<1>6. TypeOK'
  BY <1>2 DEF TypeOK, Replies
<1>7. IdsAreOwned'
  BY <1>5 DEF IdsAreOwned
<1>8. OnePlace'
  <2>1. (\A j, k \in DOMAIN out : out[j] = out[k] => j = k)'
    BY <1>2 DEF OnePlace
  <2> QED
    BY <1>2, <1>3, <1>4, <1>5, <2>1 DEF OnePlace, Unsent
<1>9. (EntriesAreOwned /\ SlotsFollowCalls)'
  BY DEF EntriesAreOwned, SlotsFollowCalls
<1>10. RepliesMatch' /\ WaiterIsReachable'
  BY DEF RepliesMatch, WaiterIsReachable
<1>11. InFlightIsPending'
  BY <1>5 DEF InFlightIsPending
<1> QED
  BY <1>6, <1>7, <1>8, <1>9, <1>10, <1>11

LEMMA WriterSendIInv ==
  ASSUME IInv, WriterSend PROVE IInv'
<1> USE CallersAssumption, MaxCallsAssumption
    DEF IInv, WriterSend, Outcomes, Empty, callVars, TypeOK
<1>1. writing' = 0 /\ 0 \notin Ids
  BY DEF Ids
<1>2. \A i \in Ids : InFlight(i)' => InFlight(i)
  BY <1>1 DEF InFlight, Coming, Queued
<1>3. TypeOK'
  BY DEF OnePlace, Replies, Ids
<1>4. IdsAreOwned'
  BY <1>2 DEF IdsAreOwned
<1>5. OnePlace'
  BY <1>1, <1>2 DEF OnePlace, Unsent, Queued
<1>6. (EntriesAreOwned /\ SlotsFollowCalls)' /\ RepliesMatch' /\ WaiterIsReachable'
  BY DEF EntriesAreOwned, SlotsFollowCalls, RepliesMatch, WaiterIsReachable
<1>7. InFlightIsPending'
  BY <1>2 DEF InFlightIsPending
<1> QED
  BY <1>3, <1>4, <1>5, <1>6, <1>7

LEMMA RemoteReplyIInv ==
  ASSUME NEW i \in Ids, IInv, RemoteReply(i) PROVE IInv'
<1> USE CallersAssumption, MaxCallsAssumption
<1> PICK o \in Outcomes : inbound' = Append(inbound, [id |-> i, outcome |-> o])
                           /\ answered' = [answered EXCEPT ![i] = o]
  BY DEF RemoteReply
<1>1. inbound \in Seq(Replies) /\ [id |-> i, outcome |-> o] \in Replies
  BY DEF IInv, TypeOK, Replies
<1>2. /\ inbound' \in Seq(Replies)
      /\ DOMAIN inbound = 1 .. Len(inbound) /\ Len(inbound) \in Nat
      /\ DOMAIN inbound' = 1 .. Len(inbound) + 1
      /\ inbound'[Len(inbound) + 1] = [id |-> i, outcome |-> o]
      /\ \A k \in 1 .. Len(inbound) : inbound'[k] = inbound[k] /\ inbound[k] \in Replies
  BY <1>1, AppendFacts
<1>3. /\ i \in remote /\ remote' = remote \ {i} /\ answered[i] = "none"
      /\ o # "none" /\ answered' = [answered EXCEPT ![i] = o]
      /\ answered \in [Ids -> Outcomes \cup {"none"}]
  BY DEF RemoteReply, IInv, TypeOK, OnePlace, Outcomes
<1>4. \A j \in Ids : Coming(j)' <=> Coming(j) \/ j = i
  BY <1>2 DEF Coming
<1>5. \A k \in DOMAIN inbound : inbound[k].id \in Ids /\ inbound[k].id # i
  <2>1. \A k \in DOMAIN inbound : inbound[k] \in Replies
    BY <1>2
  <2>2. \A k \in DOMAIN inbound : inbound[k].outcome \in Outcomes
                                 /\ inbound[k].outcome = answered[inbound[k].id]
    BY <2>1 DEF Replies, IInv, OnePlace
  <2> QED
    BY <2>1, <2>2, <1>3 DEF Replies, Outcomes
<1> USE DEF IInv, RemoteReply, callVars, writerVars
<1>6. \A j \in Ids : InFlight(j)' <=> InFlight(j)
  BY <1>3, <1>4 DEF InFlight, Queued
<1>7. TypeOK'
  BY <1>2, <1>3 DEF TypeOK, Outcomes
<1>8. IdsAreOwned'
  BY <1>3, <1>6 DEF IdsAreOwned, InFlight
<1>9. OnePlace'
  <2>1. (\A j, k \in DOMAIN inbound : inbound[j].id = inbound[k].id => j = k)'
    BY <1>2, <1>5 DEF OnePlace
  <2>2. (\A k \in DOMAIN inbound : inbound[k].outcome = answered[inbound[k].id])'
    BY <1>2, <1>3, <1>5 DEF OnePlace
  <2>3. \A j \in Ids : Unsent(j)' => Unsent(j)
    BY DEF Unsent
  <2>4. \A j \in Ids : Queued(j)' <=> Queued(j)
    BY DEF Queued
  <2> QED
    BY <1>3, <1>6, <2>1, <2>2, <2>3, <2>4 DEF OnePlace, InFlight
<1>10. (EntriesAreOwned /\ SlotsFollowCalls)' /\ WaiterIsReachable'
  BY DEF EntriesAreOwned, SlotsFollowCalls, WaiterIsReachable
<1>11. RepliesMatch'
  <2>1. ASSUME NEW c \in Callers, slot[c] \in Outcomes, callId[c] = i PROVE FALSE
    BY <2>1, <1>3 DEF RepliesMatch, Outcomes
  <2> QED
    BY <1>3, <2>1 DEF RepliesMatch, TypeOK
<1>12. InFlightIsPending'
  BY <1>6 DEF InFlightIsPending
<1> QED
  BY <1>7, <1>8, <1>9, <1>10, <1>11, <1>12

-----------------------------------------------------------------------------
(* Every step of the reader task preserves it. *)

LEMMA DispatchIInv ==
  ASSUME IInv, Dispatch PROVE IInv'
<1> USE CallersAssumption, MaxCallsAssumption
<1> DEFINE reply == Head(inbound)
           owner == pending[reply.id]
<1>1. inbound \in Seq(Replies) /\ inbound # << >> /\ inbound' = Tail(inbound)
  BY DEF Dispatch, IInv, TypeOK
<1>2. /\ inbound' \in Seq(Replies)
      /\ Len(inbound) \in Nat \ {0} /\ DOMAIN inbound = 1 .. Len(inbound)
      /\ DOMAIN inbound' = 1 .. Len(inbound) - 1
      /\ reply = inbound[1] /\ reply \in Replies
      /\ \A k \in 1 .. Len(inbound) - 1 : inbound'[k] = inbound[k + 1]
  BY <1>1, TailFacts
<1>3. /\ reply.id \in Ids /\ reply.outcome \in Outcomes
      /\ reply.outcome = answered[reply.id] /\ reply.outcome # "none"
      /\ Coming(reply.id) /\ InFlight(reply.id) /\ owner \in Callers
  <2>1. reply.id \in Ids /\ reply.outcome \in Outcomes
    BY <1>2 DEF Replies
  <2>2. reply.outcome = answered[reply.id] /\ Coming(reply.id)
    BY <1>2 DEF Coming, IInv, OnePlace
  <2>3. owner # NoCaller
    BY <2>1, <2>2 DEF InFlight, IInv, InFlightIsPending, Dispatch
  <2> QED
    BY <2>1, <2>2, <2>3 DEF InFlight, IInv, TypeOK, Outcomes
<1>4. \A i \in Ids : Coming(i)' => Coming(i) /\ i # reply.id
  <2> SUFFICES ASSUME NEW i \in Ids, Coming(i)' PROVE Coming(i) /\ i # reply.id
    OBVIOUS
  <2>1. PICK k \in 1 .. Len(inbound) - 1 : inbound'[k].id = i
    BY <1>2 DEF Coming
  <2>2. k + 1 \in DOMAIN inbound /\ 1 \in DOMAIN inbound /\ inbound[k + 1].id = i /\ k + 1 # 1
    BY <2>1, <1>2
  <2> QED
    BY <2>2, <1>2 DEF Coming, IInv, OnePlace
<1>5. /\ reader = "recv" /\ pending' = [pending EXCEPT ![reply.id] = NoCaller]
      /\ slot' = IF Listening(owner, reply.id)
                 THEN [slot EXCEPT ![owner] = reply.outcome] ELSE slot
      /\ UNCHANGED <<callVars, out, writerVars, remoteVars, reader, held>>
  BY DEF Dispatch
<1> HIDE DEF reply, owner
<1> USE DEF IInv, callVars, writerVars, remoteVars
<1>6. \A i \in Ids : InFlight(i)' => InFlight(i) /\ i # reply.id
  <2>1. ~Queued(reply.id) /\ writing # reply.id /\ reply.id \notin remote
    BY <1>3 DEF OnePlace
  <2>2. \A i \in Ids : Queued(i)' <=> Queued(i)
    BY <1>5 DEF Queued
  <2> QED
    BY <1>4, <1>5, <2>1, <2>2 DEF InFlight
<1>7. TypeOK'
  BY <1>2, <1>3, <1>5 DEF TypeOK
<1>8. IdsAreOwned'
  BY <1>3, <1>5, <1>6 DEF IdsAreOwned, TypeOK
<1>9. OnePlace'
  <2>1. (\A j, k \in DOMAIN inbound : inbound[j].id = inbound[k].id => j = k)'
    <3> SUFFICES ASSUME NEW j \in 1 .. Len(inbound) - 1, NEW k \in 1 .. Len(inbound) - 1,
                        inbound'[j].id = inbound'[k].id
                 PROVE  j = k
      BY <1>2
    <3>1. inbound[j + 1].id = inbound[k + 1].id /\ j + 1 \in DOMAIN inbound /\ k + 1 \in DOMAIN inbound
      BY <1>2
    <3>2. j + 1 = k + 1
      BY <3>1 DEF OnePlace
    <3> QED
      BY <3>2
  <2>2. (\A k \in DOMAIN inbound : inbound[k].outcome = answered[inbound[k].id])'
    BY <1>2, <1>5 DEF OnePlace
  <2>3. \A i \in Ids : (Unsent(i)' <=> Unsent(i)) /\ (Queued(i)' <=> Queued(i))
    BY <1>5 DEF Unsent, Queued
  <2> QED
    BY <1>5, <1>6, <2>1, <2>2, <2>3 DEF OnePlace
<1>10. ASSUME Listening(owner, reply.id) PROVE owner \in Callers /\ callId[owner] = reply.id
                                              /\ pc[owner] \in {"registered", "waiting"}
  BY <1>10 DEF Listening
<1>11. (EntriesAreOwned /\ SlotsFollowCalls)'
  <2>1. \A c \in Callers : callId[c] = reply.id => ~Unsent(reply.id)
    BY <1>3 DEF OnePlace
  <2>2. \A c \in Callers : callId[c] = reply.id => pc[c] \notin {"lock", "registered"}
    BY <1>3 DEF OnePlace, Unsent
  <2>3. EntriesAreOwned'
    BY <1>3, <1>5, <1>10, <2>2 DEF EntriesAreOwned, TypeOK
  <2>4. SlotsFollowCalls'
    BY <1>5, <1>10 DEF SlotsFollowCalls, TypeOK
  <2> QED
    BY <2>3, <2>4
<1>12. RepliesMatch'
  BY <1>3, <1>5, <1>10 DEF RepliesMatch, TypeOK
<1>13. WaiterIsReachable'
  <2> SUFFICES ASSUME NEW c \in Callers, pc[c] = "waiting", slot'[c] = Empty
               PROVE  pending'[callId[c]] = c
    BY <1>5 DEF WaiterIsReachable
  <2>1. slot[c] = Empty
    BY <1>3, <1>5, <1>10 DEF TypeOK, Outcomes, Empty
  <2>2. pending[callId[c]] = c /\ callId[c] \in Ids
    BY <1>5, <2>1 DEF WaiterIsReachable, IdsAreOwned, TypeOK
  <2>3. CASE callId[c] = reply.id
    <3>1. Listening(owner, reply.id) /\ owner = c
      BY <2>2, <2>3 DEF owner, Listening
    <3> QED
      BY <3>1, <1>3, <1>5 DEF TypeOK, Outcomes, Empty
  <2> QED
    BY <2>2, <2>3, <1>5 DEF TypeOK
<1>14. InFlightIsPending'
  BY <1>3, <1>5, <1>6 DEF InFlightIsPending, TypeOK
<1> QED
  BY <1>7, <1>8, <1>9, <1>11, <1>12, <1>13, <1>14

LEMMA ReaderBreakIInv ==
  ASSUME IInv, ReaderBreak PROVE IInv'
<1> USE DEF IInv, ReaderBreak, callVars, writerVars, remoteVars
<1>1. inbound' = << >> /\ DOMAIN inbound' = {}
  OBVIOUS
<1>2. \A i \in Ids : InFlight(i)' => InFlight(i)
  BY <1>1 DEF InFlight, Queued, Coming
<1>3. TypeOK'
  BY DEF TypeOK
<1>4. IdsAreOwned'
  BY <1>2 DEF IdsAreOwned
<1>5. OnePlace'
  BY <1>1, <1>2 DEF OnePlace, Unsent, Queued
<1>6. (EntriesAreOwned /\ SlotsFollowCalls /\ RepliesMatch /\ WaiterIsReachable)'
  BY DEF EntriesAreOwned, SlotsFollowCalls, RepliesMatch, WaiterIsReachable
<1>7. InFlightIsPending'
  BY <1>2 DEF InFlightIsPending
<1> QED
  BY <1>3, <1>4, <1>5, <1>6, <1>7

LEMMA DrainIInv ==
  ASSUME IInv, Drain PROVE IInv'
<1> USE CallersAssumption DEF IInv, Drain, callVars, writerVars, remoteVars, Outcomes, Empty
<1>1. \A c \in Callers : slot'[c] # slot[c] =>
        slot'[c] = "closed" /\ pc[c] \in {"registered", "waiting"}
  BY DEF Listening
<1>2. TypeOK'
  BY DEF TypeOK
<1>3. IdsAreOwned' /\ OnePlace'
  BY DEF IdsAreOwned, OnePlace, InFlight, Queued, Coming, Unsent
<1>4. EntriesAreOwned'
  BY DEF EntriesAreOwned, TypeOK
<1>5. SlotsFollowCalls' /\ RepliesMatch'
  BY <1>1 DEF SlotsFollowCalls, RepliesMatch
<1>6. InFlightIsPending' /\ WaiterIsReachable'
  BY DEF InFlightIsPending, WaiterIsReachable
<1> QED
  BY <1>2, <1>3, <1>4, <1>5, <1>6

-----------------------------------------------------------------------------
(* Steps that move nothing the invariant's parts relate. *)

LEMMA OtherIInv ==
  ASSUME IInv, DropHandles \/ WriterEnd \/ WriterClose \/ RemoteClose \/ UNCHANGED vars
  PROVE  IInv'
<1> USE DEF IInv, DropHandles, WriterEnd, WriterClose, RemoteClose, vars,
            callVars, writerVars, remoteVars
<1>1. \A i \in Ids : (Queued(i)' => Queued(i)) /\ (Coming(i)' <=> Coming(i))
  BY DEF Queued, Coming
<1>2. \A i \in Ids : InFlight(i)' => InFlight(i)
  BY <1>1 DEF InFlight
<1>3. TypeOK'
  <2>1. CASE WriterClose
    BY <2>1 DEF TypeOK
  <2>2. CASE ~WriterClose
    BY <2>2 DEF TypeOK
  <2> QED
    BY <2>1, <2>2
<1>4. IdsAreOwned'
  BY <1>2 DEF IdsAreOwned
<1>5. OnePlace'
  BY <1>1, <1>2 DEF OnePlace, Unsent
<1>6. (EntriesAreOwned /\ SlotsFollowCalls /\ RepliesMatch /\ WaiterIsReachable)'
  BY DEF EntriesAreOwned, SlotsFollowCalls, RepliesMatch, WaiterIsReachable
<1>7. InFlightIsPending'
  BY <1>2 DEF InFlightIsPending
<1> QED
  BY <1>3, <1>4, <1>5, <1>6, <1>7

LEMMA NextIInv == IInv /\ [Next]_vars => IInv'
<1> SUFFICES ASSUME IInv, [Next]_vars PROVE IInv'
  OBVIOUS
<1>1. ASSUME NEW c \in Callers, FetchId(c) \/ Register(c) \/ Enqueue(c) PROVE IInv'
  BY <1>1, FetchIdIInv, RegisterIInv, EnqueueIInv
<1>2. ASSUME NEW c \in Callers, Return(c) \/ Cancel(c) PROVE IInv'
  BY <1>2, LeaveIInv DEF Return, Cancel
<1>3. ASSUME Writer PROVE IInv'
  BY <1>3, WriterRecvIInv, WriterSendIInv, OtherIInv DEF Writer
<1>4. ASSUME Reader PROVE IInv'
  BY <1>4, DispatchIInv, ReaderBreakIInv, DrainIInv DEF Reader
<1>5. ASSUME NEW i \in Ids, RemoteReply(i) PROVE IInv'
  BY <1>5, RemoteReplyIInv
<1>6. ASSUME RemoteClose \/ DropHandles \/ UNCHANGED vars PROVE IInv'
  BY <1>6, OtherIInv
<1> QED
  BY <1>1, <1>2, <1>3, <1>4, <1>5, <1>6 DEF Next, Call

-----------------------------------------------------------------------------
(* The theorems. *)

(* The strengthened invariant holds in every reachable state, for any number
   of tasks and of calls. *)
THEOREM Inductive == Spec => []IInv
  BY InitIInv, NextIInv, PTL DEF Spec

(* Every variable keeps its type whatever the interleaving of the tasks, the
   remote end and the end of the connection. *)
THEOREM TypeCorrect == Spec => []TypeOK
<1>1. IInv => TypeOK
  BY DEF IInv
<1> QED
  BY <1>1, Inductive, PTL

(* A reply is only ever handed to the task that sent the command it answers:
   ids are unique and dispatch() takes the entry it resolves. *)
THEOREM RepliesAreMatched == Spec => []RepliesMatch
<1>1. IInv => RepliesMatch
  BY DEF IInv
<1> QED
  BY <1>1, Inductive, PTL

(* send_raw registers before it queues, so that until the reader ends no frame
   is under way without an entry in `pending`. *)
THEOREM FramesAreRegistered == Spec => []InFlightIsPending
<1>1. IInv => InFlightIsPending
  BY DEF IInv
<1> QED
  BY <1>1, Inductive, PTL

(* A task that waits can be reached by the reader as long as the reader runs. *)
THEOREM WaitersAreReachable == Spec => []WaiterIsReachable
<1>1. IInv => WaiterIsReachable
  BY DEF IInv
<1> QED
  BY <1>1, Inductive, PTL

(* No call ever drops the oneshot sender of another. *)
THEOREM EntriesAreNotOverwritten == Spec => EntryNeverOverwritten
<1>1. ASSUME IInv, [Next]_vars
      PROVE  [\A i \in Ids : pending[i] # NoCaller => pending'[i] \in {pending[i], NoCaller}]_vars
  <2> USE DEF IInv, vars, callVars, writerVars, remoteVars
  <2>1. ASSUME NEW c \in Callers, Register(c)
        PROVE  \A i \in Ids : pending[i] # NoCaller => pending'[i] \in {pending[i], NoCaller}
    <3>1. callId[c] \in Ids /\ pending[callId[c]] = NoCaller
      BY <1>1, <2>1 DEF Register, IdsAreOwned, EntriesAreOwned, TypeOK
    <3> QED
      BY <2>1, <3>1 DEF Register, TypeOK
  <2>2. ASSUME Dispatch \/ Drain
        PROVE  \A i \in Ids : pending[i] # NoCaller => pending'[i] \in {pending[i], NoCaller}
    BY <1>1, <2>2 DEF Dispatch, Drain, TypeOK
  <2>3. ASSUME Next, pending' # pending
        PROVE  (\E c \in Callers : Register(c)) \/ Dispatch \/ Drain
    BY <2>3 DEF Next, Call, Writer, Reader, FetchId, Enqueue, Return, Cancel, WriterRecv,
       WriterSend, WriterEnd, WriterClose, ReaderBreak, RemoteReply, RemoteClose, DropHandles
  <2>4. CASE pending' = pending
    BY <2>4
  <2>5. CASE pending' # pending /\ Next
    BY <2>1, <2>2, <2>3, <2>5
  <2>6. [Next]_vars => Next \/ pending' = pending
    OBVIOUS
  <2> QED
    BY <1>1, <2>4, <2>5, <2>6
<1> QED
  BY <1>1, Inductive, PTL DEF Spec, EntryNeverOverwritten

-----------------------------------------------------------------------------
(* While the connection is open every entry has a call about to send or a
   command on its round trip.  What is needed besides IInv is that a call can
   only be refused, and leave its entry behind, on a connection that closed. *)

Registered(i) == \E c \in Callers : pc[c] = "registered" /\ callId[c] = i
Accounted(i)  == pending[i] # NoCaller => InFlight(i) \/ Registered(i)
NoLeakIInv ==
  /\ writer = "gone" => conn = "closed"
  /\ conn = "open" => \A i \in Ids : Accounted(i)

LEMMA CallNoLeak ==
  ASSUME NEW c \in Callers, IInv, NoLeakIInv, Call(c) \/ Cancel(c) PROVE NoLeakIInv'
<1> USE CallersAssumption DEF NoLeakIInv, writerVars, remoteVars
<1>1. writer' = writer /\ conn' = conn
  BY DEF Call, FetchId, Register, Enqueue, Return, Cancel
<1> SUFFICES ASSUME conn = "open", NEW i \in Ids, pending'[i] # NoCaller
             PROVE  InFlight(i)' \/ Registered(i)'
  BY <1>1 DEF Accounted
<1>2. pc \in [Callers -> {"idle", "lock", "registered", "waiting"}]
      /\ callId \in [Callers -> Ids \cup {0}] /\ pending \in [Ids -> Callers \cup {NoCaller}]
  BY DEF IInv, TypeOK
<1>3. CASE Register(c)
  <2>1. InFlight(i)' <=> InFlight(i)
    BY <1>3 DEF Register, InFlight, Queued, Coming
  <2>2. CASE i = callId[c]
    BY <1>2, <1>3, <2>2 DEF Register, Registered
  <2>3. CASE i # callId[c]
    BY <1>2, <1>3, <2>1, <2>3 DEF Register, Registered, Accounted
  <2> QED
    BY <2>2, <2>3
<1>4. CASE Enqueue(c)
  <2>1. out \in Seq(Ids) /\ callId[c] \in Ids /\ out' = Append(out, callId[c]) /\ pending' = pending
    BY <1>1, <1>4, MaxCallsAssumption DEF Enqueue, IInv, TypeOK, IdsAreOwned, Ids
  <2>2. DOMAIN out = 1 .. Len(out) /\ Len(out) \in Nat /\ DOMAIN out' = 1 .. Len(out) + 1
        /\ out'[Len(out) + 1] = callId[c] /\ \A k \in 1 .. Len(out) : out'[k] = out[k]
    BY <2>1, AppendFacts
  <2>3. Queued(i) \/ i = callId[c] => Queued(i)'
    BY <1>4, <2>2 DEF Queued, Enqueue
  <2>4. InFlight(i) => InFlight(i)'
    BY <1>4, <2>3 DEF Enqueue, InFlight, Coming
  <2>5. Registered(i) => Registered(i)' \/ i = callId[c]
    <3>1. \A d \in Callers \ {c} : pc'[d] = pc[d] /\ callId'[d] = callId[d]
      BY <1>2, <1>4, <1>1 DEF Enqueue
    <3> QED
      BY <3>1 DEF Registered
  <2>6. i = callId[c] => InFlight(i)'
    BY <2>3 DEF InFlight
  <2> QED
    BY <2>1, <2>4, <2>5, <2>6 DEF Accounted
<1>5. CASE FetchId(c) \/ Return(c) \/ Cancel(c)
  <2>1. InFlight(i)' <=> InFlight(i)
    BY <1>5 DEF FetchId, Return, Cancel, InFlight, Queued, Coming
  <2>2. pending' = pending /\ pc[c] # "registered"
        /\ \A d \in Callers \ {c} : pc'[d] = pc[d] /\ callId'[d] = callId[d]
    BY <1>2, <1>5 DEF FetchId, Return, Cancel, Leave
  <2> QED
    BY <2>1, <2>2 DEF Accounted, Registered
<1> QED
  BY <1>3, <1>4, <1>5 DEF Call

LEMMA WriterNoLeak ==
  ASSUME IInv, NoLeakIInv, Writer PROVE NoLeakIInv'
<1> USE DEF NoLeakIInv, callVars, remoteVars
<1>1. CASE WriterClose
  BY <1>1 DEF WriterClose
<1>2. CASE WriterEnd
  BY <1>2 DEF WriterEnd, Accounted, Registered, InFlight, Queued, Coming
<1>3. CASE WriterSend
  <2>1. conn = "open" => \A i \in Ids : InFlight(i) => InFlight(i)'
    BY <1>3, MaxCallsAssumption DEF WriterSend, InFlight, Queued, Coming
  <2> QED
    BY <1>3, <2>1 DEF WriterSend, Accounted, Registered
<1>4. CASE WriterRecv
  <2>1. out \in Seq(Ids) /\ out # << >> /\ out' = Tail(out) /\ writing' = Head(out) /\ writing = 0
        /\ 0 \notin Ids
    BY <1>4 DEF WriterRecv, IInv, TypeOK, OnePlace, Ids
  <2>2. Len(out) \in Nat \ {0} /\ DOMAIN out = 1 .. Len(out) /\ DOMAIN out' = 1 .. Len(out) - 1
        /\ writing' = out[1] /\ \A k \in 1 .. Len(out) - 1 : out'[k] = out[k + 1]
    BY <2>1, TailFacts
  <2>3. ASSUME NEW i \in Ids, Queued(i) PROVE Queued(i)' \/ writing' = i
    <3>1. PICK k \in 1 .. Len(out) : out[k] = i
      BY <2>2, <2>3 DEF Queued
    <3>2. CASE k = 1
      BY <2>2, <3>1, <3>2
    <3>3. CASE k # 1
      <4>1. k - 1 \in DOMAIN out' /\ out'[k - 1] = i
        BY <2>2, <3>1, <3>3
      <4> QED
        BY <4>1 DEF Queued
    <3> QED
      BY <3>2, <3>3
  <2>4. \A i \in Ids : InFlight(i) => InFlight(i)'
    BY <1>4, <2>1, <2>3 DEF WriterRecv, InFlight, Coming
  <2> QED
    BY <1>4, <2>4 DEF WriterRecv, Accounted, Registered
<1> QED
  BY <1>1, <1>2, <1>3, <1>4 DEF Writer

LEMMA RemoteNoLeak ==
  ASSUME NEW i \in Ids, IInv, NoLeakIInv, RemoteReply(i) PROVE NoLeakIInv'
<1> USE DEF NoLeakIInv, callVars, writerVars
<1> PICK o \in Outcomes : inbound' = Append(inbound, [id |-> i, outcome |-> o])
  BY DEF RemoteReply
<1>1. inbound \in Seq(Replies) /\ [id |-> i, outcome |-> o] \in Replies
  BY DEF IInv, TypeOK, Replies
<1>2. /\ DOMAIN inbound = 1 .. Len(inbound) /\ Len(inbound) \in Nat
      /\ DOMAIN inbound' = 1 .. Len(inbound) + 1
      /\ inbound'[Len(inbound) + 1] = [id |-> i, outcome |-> o]
      /\ \A k \in 1 .. Len(inbound) : inbound'[k] = inbound[k]
  BY <1>1, AppendFacts
<1>3. Coming(i)' /\ \A j \in Ids : Coming(j) => Coming(j)'
  BY <1>2 DEF Coming
<1>4. \A j \in Ids : InFlight(j) => InFlight(j)'
  BY <1>3 DEF RemoteReply, InFlight, Queued
<1> QED
  BY <1>4 DEF RemoteReply, Accounted, Registered

LEMMA ReaderNoLeak ==
  ASSUME IInv, NoLeakIInv, Reader PROVE NoLeakIInv'
<1> USE DEF NoLeakIInv, callVars, writerVars, remoteVars
<1>1. CASE ReaderBreak
  BY <1>1 DEF ReaderBreak
<1>2. CASE Drain
  BY <1>2 DEF Drain, Accounted
<1>3. CASE Dispatch
  <2> DEFINE reply == Head(inbound)
  <2>1. inbound \in Seq(Replies) /\ inbound # << >> /\ inbound' = Tail(inbound)
        /\ pending' = [pending EXCEPT ![reply.id] = NoCaller]
        /\ pending \in [Ids -> Callers \cup {NoCaller}]
    BY <1>3 DEF Dispatch, IInv, TypeOK
  <2>2. Len(inbound) \in Nat \ {0} /\ DOMAIN inbound = 1 .. Len(inbound)
        /\ DOMAIN inbound' = 1 .. Len(inbound) - 1 /\ reply = inbound[1]
        /\ \A k \in 1 .. Len(inbound) - 1 : inbound'[k] = inbound[k + 1]
    BY <2>1, TailFacts
  <2> HIDE DEF reply
  <2>3. ASSUME NEW i \in Ids, Coming(i), i # reply.id PROVE Coming(i)'
    <3>1. PICK k \in 1 .. Len(inbound) : inbound[k].id = i
      BY <2>2, <2>3 DEF Coming
    <3>2. k # 1
      BY <2>2, <2>3, <3>1
    <3>3. k - 1 \in DOMAIN inbound' /\ inbound'[k - 1].id = i
      BY <2>2, <3>1, <3>2
    <3> QED
      BY <3>3 DEF Coming
  <2>4. ASSUME NEW i \in Ids, InFlight(i), i # reply.id PROVE InFlight(i)'
    BY <1>3, <2>3, <2>4 DEF Dispatch, InFlight, Queued
  <2>5. \A i \in Ids : pending'[i] # NoCaller => pending[i] # NoCaller /\ i # reply.id
    BY <2>1
  <2>6. conn' = conn /\ writer' = writer /\ pc' = pc /\ callId' = callId
    BY <1>3 DEF Dispatch
  <2> QED
    BY <2>4, <2>5, <2>6 DEF Accounted, Registered
<1> QED
  BY <1>1, <1>2, <1>3 DEF Reader

(* Nothing leaks while the connection is up: an entry of `pending` belongs to
   a call that is about to send or to a command on its round trip. *)
THEOREM NothingLeaks == Spec => []NoLeakWhileOpen
<1>1. Init => NoLeakIInv
  BY DEF Init, NoLeakIInv, Accounted
<1>2. IInv /\ NoLeakIInv /\ [Next]_vars => NoLeakIInv'
  <2> SUFFICES ASSUME IInv, NoLeakIInv, [Next]_vars PROVE NoLeakIInv'
    OBVIOUS
  <2>1. CASE RemoteClose \/ DropHandles \/ UNCHANGED vars
    BY <2>1 DEF RemoteClose, DropHandles, vars, callVars, writerVars, remoteVars,
       NoLeakIInv, Accounted, Registered, InFlight, Queued, Coming
  <2> QED
    BY <2>1, CallNoLeak, WriterNoLeak, RemoteNoLeak, ReaderNoLeak DEF Next
<1>3. NoLeakIInv => NoLeakWhileOpen
  BY DEF NoLeakIInv, NoLeakWhileOpen, Accounted, Registered
<1> QED
  BY <1>1, <1>2, <1>3, Inductive, PTL DEF Spec

-----------------------------------------------------------------------------
(* The channel implements the request and reply service. *)

LEMMA InitRefines == Init => Service!Init
  BY DEF Init, Service!Init

(* Calls in hand: an id of its own for FetchId, the end of the call for the
   three ways send_raw is left, nothing for the steps in between. *)
LEMMA CallRefines ==
  ASSUME NEW c \in Callers, IInv, Call(c) \/ Cancel(c)
  PROVE  Service!Next \/ UNCHANGED Service!vars
<1> USE DEF IInv, TypeOK, callVars, writerVars, remoteVars, Service!vars
<1>1. CASE FetchId(c)
  <2>1. nextId \in Ids \ (1 .. nextId - 1) /\ 1 .. nextId' - 1 = (1 .. nextId - 1) \cup {nextId}
    BY <1>1, MaxCallsAssumption DEF FetchId, Ids
  <2>2. callId[c] = 0
    BY <1>1 DEF FetchId, IdsAreOwned
  <2>3. Service!Begin(c)
    BY <1>1, <2>1, <2>2 DEF FetchId, Service!Begin
  <2> QED
    BY <2>3 DEF Service!Next
<1>2. CASE Leave(c) /\ callId[c] # 0 /\ UNCHANGED <<nextId, answered>>
  <2>1. Service!End(c)
    BY <1>2 DEF Leave, Service!End
  <2> QED
    BY <2>1 DEF Service!Next
<1>3. CASE UNCHANGED <<nextId, callId, slot, answered>>
  BY <1>3
<1>4. pc[c] # "idle" => callId[c] # 0
  BY DEF IdsAreOwned
<1> QED
  BY <1>1, <1>2, <1>3, <1>4 DEF Call, Register, Enqueue, Return, Cancel

(* A step of the remote end executes a request it has not executed before. *)
LEMMA RemoteRefines ==
  ASSUME NEW i \in Ids, IInv, RemoteReply(i) PROVE Service!Next
<1>1. i \in 1 .. nextId - 1 /\ answered[i] = "none"
  BY DEF IInv, TypeOK, RemoteReply, IdsAreOwned, OnePlace, InFlight, Ids
<1>2. Service!Execute(i)
  BY <1>1 DEF RemoteReply, callVars, writerVars, Service!Execute
<1> QED
  BY <1>2 DEF Service!Next

(* dispatch() answers the task that waits for the reply's id, or nobody. *)
LEMMA DispatchRefines ==
  ASSUME IInv, Dispatch PROVE Service!Next \/ UNCHANGED Service!vars
<1> DEFINE reply == Head(inbound)
           owner == pending[reply.id]
<1> USE DEF Dispatch, callVars, writerVars, remoteVars, Service!vars
<1>1. CASE Listening(owner, reply.id)
  <2>1. reply \in Replies /\ reply = inbound[1] /\ 1 \in DOMAIN inbound
    BY TailFacts DEF IInv, TypeOK
  <2>2. reply.id \in Ids /\ reply.outcome = answered[reply.id] /\ reply.outcome \in Outcomes
    BY <2>1 DEF IInv, OnePlace, Replies
  <2>3. owner \in Callers /\ callId[owner] = reply.id /\ callId[owner] # 0
    BY <1>1, <2>2 DEF Listening, Ids
  <2>4. slot[owner] = Empty
    BY <2>3, CallersAssumption DEF IInv, EntriesAreOwned
  <2>5. Service!Answer(owner)
    BY <1>1, <2>2, <2>3, <2>4 DEF Service!Answer, Outcomes
  <2> QED
    BY <2>3, <2>5 DEF Service!Next
<1>2. CASE ~Listening(owner, reply.id)
  BY <1>2
<1> QED
  BY <1>1, <1>2

(* fail_all_pending() fails at once every task it can still reach. *)
LEMMA DrainRefines ==
  ASSUME IInv, Drain PROVE Service!Next
<1> DEFINE S == {c \in Callers : \E i \in Ids : pending[i] = c /\ Listening(c, i)}
<1>1. S \in SUBSET {c \in Callers : slot[c] = Empty} /\ \A c \in S : callId[c] # 0
  BY CallersAssumption DEF IInv, EntriesAreOwned, Listening, Ids
<1>2. Service!Fail(S)
  BY <1>1 DEF Drain, callVars, writerVars, remoteVars, Service!Fail
<1> QED
  BY <1>1, <1>2 DEF Service!Next

LEMMA NextRefines ==
  ASSUME IInv, [Next]_vars PROVE [Service!Next]_Service!vars
<1>1. ASSUME NEW c \in Callers, Call(c) \/ Cancel(c) PROVE [Service!Next]_Service!vars
  BY <1>1, CallRefines
<1>2. ASSUME NEW i \in Ids, RemoteReply(i) PROVE [Service!Next]_Service!vars
  BY <1>2, RemoteRefines
<1>3. ASSUME Dispatch \/ Drain PROVE [Service!Next]_Service!vars
  BY <1>3, DispatchRefines, DrainRefines
<1>4. ASSUME Writer \/ ReaderBreak \/ RemoteClose \/ DropHandles \/ UNCHANGED vars
      PROVE  UNCHANGED Service!vars
  BY <1>4 DEF Writer, WriterRecv, WriterSend, WriterEnd, WriterClose, ReaderBreak, RemoteClose,
     DropHandles, vars, callVars, writerVars, remoteVars, Service!vars
<1> QED
  BY <1>1, <1>2, <1>3, <1>4 DEF Next, Reader

(* Seen from its callers, the connection executes each request at most once
   and tells each call the outcome of its own request or a connection error. *)
THEOREM Refinement == Spec => ImplementsRequestReply
  BY InitRefines, NextRefines, Inductive, PTL DEF Spec, ImplementsRequestReply, Service!Spec

(* ws.rs:103-144, 190-249: replies reach the caller of their own command, and
   an entry of pending is there for as long as somebody needs it, no longer. *)
THEOREM RepliesAreWellRouted == Spec => []RepliesAreRouted
<1>1. TypeOK /\ RepliesMatch /\ InFlightIsPending /\ WaiterIsReachable /\ NoLeakWhileOpen => RepliesAreRouted
  BY DEF RepliesAreRouted
<1> QED
  BY <1>1, TypeCorrect, RepliesAreMatched, FramesAreRegistered, WaitersAreReachable, NothingLeaks, PTL

=============================================================================
