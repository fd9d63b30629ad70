-------------------------- MODULE CdpSessionProofs --------------------------
(***************************************************************************)
(* Proofs about CdpSession, for any tasks, domains, traffic and capacity:  *)
(* what a stream yields is what it filters for, and a typed stream is not  *)
(* deaf while its session is attached.                                     *)
(***************************************************************************)
EXTENDS CdpSession, SequenceTheorems, TLAPS

Callers == Tasks \cup {None}
Commands == [by : Callers, cmd : {"enable", "disable", "detach"}, dom : Domains \cup {None}]
Replies == [by : Callers, ok : BOOLEAN]

\* The frames on the wire, and what a receiver remembers.
FramesOK ==
  /\ up \in Seq(Commands) /\ down \in Seq(Replies \cup Events)
  /\ \A i \in DOMAIN up : up[i].cmd = "enable" => up[i].dom \in Enables
  /\ from \in [Tasks -> Nat] /\ next \in [Tasks -> Nat] /\ got \in [Tasks -> SUBSET Nat]
  /\ switched \subseteq Enables

\* A receiver exists from when the stream is opened until it is dropped.
ReceiversOK ==
  \A t \in Tasks :
    /\ pc[t] \notin {"streaming", "ended", "panicked"} => next[t] = 0 /\ got[t] = {}
    /\ \A i \in got[t] : i <= next[t]

\* What a task is waiting for is an event domain that has an ENABLE command.
WantsOK ==
  \A t \in Tasks : /\ pc[t] \in {"locking", "enabling"} => want[t] \in Enables
                   /\ pc[t] \in {"opening", "streaming", "ended", "panicked"} /\ want[t] \in Enables
                        => want[t] \in enabled

\* A command in flight that has a caller is what the caller waits for.
Called(f) ==
  f.by # None => /\ answer[f.by] = "sent"
                 /\ f.cmd = "enable" <=> pc[f.by] = "enabling"
                 /\ f.cmd = "enable" => f.dom = want[f.by]

\* The browser has t's domain enabled, unless the session or the program
\* took it away.
IsOn(t) == attached /\ want[t] \notin switched => want[t] \in remoteOn

CommandsAreCalled ==
  \A i \in DOMAIN up :
    /\ Called(up[i])
    /\ up[i].cmd = "disable" => up[i].dom \in switched
    /\ up[i].by # None =>
         /\ \A j \in DOMAIN up : up[j].by = up[i].by => j = i
         /\ \A j \in DOMAIN down : down[j] \in Replies => down[j].by # up[i].by

\* A reply in flight is the only frame of its caller, and tells the truth.
RepliesAreTrue ==
  \A i \in DOMAIN down :
    down[i] \in Replies /\ down[i].by # None =>
      /\ answer[down[i].by] = "sent"
      /\ down[i].ok /\ pc[down[i].by] = "enabling" => IsOn(down[i].by)
      /\ \A j \in DOMAIN down : down[j] \in Replies /\ down[j].by = down[i].by => j = i

AnswersAreTrue == \A t \in Tasks : answer[t] = "ok" /\ pc[t] = "enabling" => IsOn(t)

EnabledIsOn == attached => enabled \ switched \subseteq remoteOn

IInv == /\ TypeOK
        /\ FramesOK
        /\ ReceiversOK
        /\ WantsOK
        /\ CommandsAreCalled
        /\ RepliesAreTrue
        /\ AnswersAreTrue
        /\ EnabledIsOn
        /\ Delivered

-----------------------------------------------------------------------------
(* Sequences. *)

\* A sequence with one more element.
LEMMA AppendFacts ==
  ASSUME NEW S, NEW s \in Seq(S), NEW x \in S
  PROVE  /\ Len(s) \in Nat /\ DOMAIN s = 1..Len(s)
         /\ Append(s, x) \in Seq(S)
         /\ Len(Append(s, x)) = Len(s) + 1
         /\ DOMAIN Append(s, x) = 1..(Len(s) + 1)
         /\ \A i \in 1..Len(s) : Append(s, x)[i] = s[i]
         /\ Append(s, x)[Len(s) + 1] = x
<1> QED
  BY AppendProperties, LenProperties

\* A sequence without its first element.
LEMMA TailFacts ==
  ASSUME NEW S, NEW s \in Seq(S), s # <<>>
  PROVE  /\ Len(s) \in Nat /\ DOMAIN s = 1..Len(s) /\ 1 \in DOMAIN s
         /\ Head(s) = s[1] /\ Head(s) \in S
         /\ Tail(s) \in Seq(S)
         /\ DOMAIN Tail(s) = 1..(Len(s) - 1)
         /\ \A i \in DOMAIN Tail(s) : i + 1 \in DOMAIN s /\ Tail(s)[i] = s[i + 1]
<1>1. Len(s) \in Nat /\ DOMAIN s = 1..Len(s) /\ Len(s) # 0
  BY LenProperties, EmptySeq
<1>2. Tail(s) \in Seq(S) /\ Len(Tail(s)) = Len(s) - 1 /\ \A i \in 1..Len(Tail(s)) : Tail(s)[i] = s[i + 1]
  BY HeadTailProperties
<1>3. DOMAIN Tail(s) = 1..(Len(s) - 1)
  BY <1>2, LenProperties
<1>4. Head(s) = s[1] /\ s[1] \in S
  BY <1>1, ElementOfSeq
<1> QED
  BY <1>1, <1>2, <1>3, <1>4

\* A reply names its caller, an event does not.
LEMMA RepliesAreNotEvents ==
  /\ \A f \in Replies : "by" \in DOMAIN f
  /\ \A f \in Events : "by" \notin DOMAIN f
  /\ \A f \in Events : f \notin Replies
<1>1. \A f \in Replies : "by" \in DOMAIN f
  BY DEF Replies
<1>2. \A f \in Events : "by" \notin DOMAIN f
  BY DEF Events
<1> QED
  BY <1>1, <1>2

\* What is on the wire has the form of a command, a reply or an event.
LEMMA FramesAreTyped ==
  ASSUME FramesOK
  PROVE  /\ \A i \in DOMAIN up : up[i] \in Commands /\ up[i].by \in Callers
         /\ \A i \in DOMAIN down : down[i] \in Replies \cup Events
         /\ \A i \in DOMAIN down : down[i] \in Replies => down[i].by \in Callers
<1>1. \A i \in DOMAIN up : up[i] \in Commands
  BY ElementOfSeq, LenProperties DEF FramesOK
<1>2. \A i \in DOMAIN down : down[i] \in Replies \cup Events
  BY ElementOfSeq, LenProperties DEF FramesOK
<1> QED
  BY <1>1, <1>2 DEF Commands, Replies

-----------------------------------------------------------------------------
(* What several actions leave as it is. *)

\* Who waits for an answer keeps its call, and nobody else gets one: what is
\* on the wire stays true.
LEMMA CallersStay ==
  ASSUME IInv,
         up' = up, down' = down, remoteOn' = remoteOn, attached' = attached,
         switched \subseteq switched',
         \A u \in Tasks : answer[u] = "sent" => answer'[u] = "sent" /\ pc'[u] = pc[u] /\ want'[u] = want[u],
         \A u \in Tasks : answer'[u] = "ok" /\ pc'[u] = "enabling" =>
                            answer[u] = "ok" /\ pc[u] = "enabling" /\ want'[u] = want[u]
  PROVE  CommandsAreCalled' /\ RepliesAreTrue' /\ AnswersAreTrue'
<1>1. CommandsAreCalled'
  <2>1. ASSUME NEW i \in DOMAIN up PROVE Called(up[i])'
    <3>1. Called(up[i]) /\ up[i].by \in Callers
      BY FramesAreTyped DEF IInv, CommandsAreCalled
    <3> QED
      BY <3>1 DEF Called, Callers
  <2> QED
    BY <2>1 DEF IInv, CommandsAreCalled
<1>2. RepliesAreTrue'
  <2>1. \A i \in DOMAIN down : down[i] \in Replies => down[i].by \in Callers
    BY DEF Replies
  <2> QED
    BY <2>1 DEF IInv, RepliesAreTrue, IsOn, Callers
<1>3. AnswersAreTrue'
  BY DEF IInv, AnswersAreTrue, IsOn
<1> QED
  BY <1>1, <1>2, <1>3

\* The streams that are open see what they saw.
LEMMA ReceiversStay ==
  ASSUME IInv, sent' = sent, UNCHANGED streamVars,
         \A u \in Tasks : pc[u] \in {"streaming", "ended", "panicked"} =>
                            pc'[u] \in {"streaming", "ended", "panicked"} /\ want'[u] = want[u]
  PROVE  ReceiversOK' /\ Delivered'
<1>1. from' = from /\ next' = next /\ got' = got
  BY DEF streamVars
<1>2. ReceiversOK'
  BY <1>1 DEF IInv, ReceiversOK
<1>3. Delivered'
  <2>1. ASSUME NEW t \in Tasks, NEW i \in from[t] + 1 .. next[t]
        PROVE  want'[t] = want[t]
    <3>1. from[t] \in Nat /\ next[t] \in Nat /\ next[t] # 0
      BY DEF IInv, FramesOK
    <3> QED
      BY <3>1 DEF IInv, ReceiversOK
  <2> QED
    BY <1>1, <2>1 DEF IInv, Delivered
<1> QED
  BY <1>2, <1>3

\* A call is sent: its frame is the only one of its caller.
LEMMA SendKeeps ==
  ASSUME IInv, NEW t \in Tasks, NEW cmd \in {"enable", "disable", "detach"}, NEW d \in Domains \cup {None},
         answer[t] = "none", Send(t, cmd, d),
         down' = down, remoteOn' = remoteOn, attached' = attached, want' = want,
         \A u \in Tasks \ {t} : pc'[u] = pc[u],
         switched' = IF cmd = "disable" THEN switched \cup {d} ELSE switched,
         cmd = "enable" => d = want[t] /\ d \in Enables,
         cmd = "enable" <=> pc'[t] = "enabling"
  PROVE  /\ up' \in Seq(Commands) /\ \A i \in DOMAIN up' : up'[i].cmd = "enable" => up'[i].dom \in Enables
         /\ CommandsAreCalled' /\ RepliesAreTrue' /\ AnswersAreTrue'
         /\ answer' \in [Tasks -> {"none", "sent", "ok", "err", "hung"}]
         /\ \A u \in Tasks \ {t} : answer'[u] = answer[u]
         /\ answer'[t] # "none"
<1> USE DEF IInv
<1>0. /\ answer' \in [Tasks -> {"none", "sent", "ok", "err", "hung"}]
      /\ \A u \in Tasks \ {t} : answer'[u] = answer[u]
      /\ answer'[t] \in {"sent", "err", "hung"}
  BY DEF Send, TypeOK
<1>1. CASE conn # "open"
  <2>1. up' = up
    BY <1>1 DEF Send
  <2>2. CommandsAreCalled' /\ RepliesAreTrue' /\ AnswersAreTrue'
    BY <1>0, <2>1, CallersStay
  <2> QED
    BY <1>0, <2>1, <2>2 DEF FramesOK
<1>2. CASE conn = "open"
  <2> DEFINE c == [by |-> t, cmd |-> cmd, dom |-> d]
  <2>1. c \in Commands /\ c.by = t /\ c.cmd = cmd /\ c.dom = d /\ t # None
    BY NamesAssumption DEF Commands, Callers
  <2>2. up' = Append(up, c) /\ answer'[t] = "sent"
    BY <1>2 DEF Send, TypeOK
  <2>3. /\ up' \in Seq(Commands) /\ Len(up) \in Nat /\ DOMAIN up = 1..Len(up) /\ DOMAIN up' = 1..(Len(up) + 1)
        /\ \A i \in 1..Len(up) : up'[i] = up[i]
        /\ up'[Len(up) + 1] = c
    BY <2>1, <2>2, AppendFacts DEF FramesOK
  <2> HIDE DEF c
  <2>4. \A i \in DOMAIN up : up[i].by # t /\ up[i].by \in Callers
    BY <2>1, FramesAreTyped DEF CommandsAreCalled, Called
  <2>5. \A i \in DOMAIN down : down[i] \in Replies => down[i].by # t /\ down[i].by \in Callers
    BY <2>1 DEF RepliesAreTrue, Replies
  <2>6. CommandsAreCalled'
    <3> SUFFICES ASSUME NEW i \in DOMAIN up'
                 PROVE  /\ Called(up[i])'
                        /\ up'[i].cmd = "disable" => up'[i].dom \in switched'
                        /\ up'[i].by # None =>
                             /\ \A j \in DOMAIN up' : up'[j].by = up'[i].by => j = i
                             /\ \A j \in DOMAIN down : down[j] \in Replies => down[j].by # up'[i].by
      BY DEF CommandsAreCalled
    <3>1. CASE i = Len(up) + 1
      BY <2>1, <2>2, <2>3, <2>4, <2>5, <3>1 DEF Called
    <3>2. CASE i \in DOMAIN up
      <4>1. up'[i] = up[i] /\ up[i].by \in Callers /\ up[i].by # t /\ Called(up[i])
        BY <2>3, <2>4, <3>2 DEF CommandsAreCalled
      <4>2. Called(up[i])'
        BY <1>0, <4>1 DEF Called, Callers
      <4>3. \A j \in DOMAIN up' : up'[j].by = up'[i].by => j \in DOMAIN up
        BY <2>1, <2>3, <4>1
      <4>4. up[i].cmd = "disable" => up[i].dom \in switched'
        BY <3>2 DEF CommandsAreCalled
      <4> QED
        BY <2>3, <3>2, <4>1, <4>2, <4>3, <4>4 DEF CommandsAreCalled
    <3> QED
      BY <2>3, <3>1, <3>2
  <2>7. RepliesAreTrue'
    BY <1>0, <2>5 DEF RepliesAreTrue, IsOn, Callers
  <2>8. AnswersAreTrue'
    BY <1>0, <2>2 DEF AnswersAreTrue, IsOn
  <2>9. ASSUME NEW i \in DOMAIN up', up'[i].cmd = "enable"
        PROVE  up'[i].dom \in Enables
    <3>1. CASE i = Len(up) + 1
      BY <2>1, <2>3, <2>9, <3>1
    <3>2. CASE i \in DOMAIN up
      BY <2>3, <2>9, <3>2 DEF FramesOK
    <3> QED
      BY <2>3, <3>1, <3>2
  <2> QED
    BY <1>0, <2>3, <2>6, <2>7, <2>8, <2>9
<1> QED
  BY <1>1, <1>2

-----------------------------------------------------------------------------
(* Each action preserves the invariant. *)

\* A stream is asked for: nothing is sent yet.
LEMMA SubscribeKeepsIInv ==
  ASSUME IInv, NEW t \in Tasks, NEW d \in Domains, Subscribe(t, d)
  PROVE  IInv'
<1> USE DEF IInv, Subscribe, callVars, streamVars, remoteVars
<1>1. answer[t] = "none" /\ lock # t
  BY NamesAssumption DEF TypeOK, Waiting
<1>2. TypeOK'
  BY <1>1 DEF TypeOK, Waiting
<1>3. FramesOK'
  BY DEF FramesOK
<1>4. ReceiversOK' /\ Delivered'
  BY ReceiversStay
<1>5. WantsOK'
  BY DEF WantsOK, TypeOK
<1>6. CommandsAreCalled' /\ RepliesAreTrue' /\ AnswersAreTrue'
  BY <1>1, CallersStay DEF TypeOK
<1>7. EnabledIsOn'
  BY DEF EnabledIsOn
<1> QED
  BY <1>2, <1>3, <1>4, <1>5, <1>6, <1>7

\* A receiver is made: the stream begins with what is broadcast from now on.
LEMMA ReceiverKeepsIInv ==
  ASSUME IInv, NEW t \in Tasks,
         Open(t) \/ \E all \in {AllOfSession, AllOfConnection} : SubscribeRaw(t, all)
  PROVE  IInv'
<1> USE DEF IInv, Open, SubscribeRaw, callVars, remoteVars
<1>0. /\ pc[t] \in {"idle", "opening"} /\ pc' = [pc EXCEPT ![t] = "streaming"]
      /\ from' = [from EXCEPT ![t] = Len(sent)] /\ next' = [next EXCEPT ![t] = Len(sent)]
      /\ got' = got /\ sent' = sent /\ up' = up /\ down' = down /\ answer' = answer
      /\ lock' = lock /\ enabled' = enabled /\ holds' = holds /\ conn' = conn
      /\ remoteOn' = remoteOn /\ attached' = attached /\ switched' = switched
  OBVIOUS
<1>1. answer[t] = "none" /\ lock # t /\ Len(sent) \in Nat
  BY <1>0, LenProperties, NamesAssumption DEF TypeOK, Waiting
<1>2. \/ want' = want /\ pc[t] = "opening"
      \/ \E all \in {AllOfSession, AllOfConnection} : want' = [want EXCEPT ![t] = all]
  OBVIOUS
<1>3. TypeOK'
  <2>1. \A u \in Tasks : 0 <= from'[u] /\ from'[u] <= next'[u] /\ next'[u] <= Len(sent')
    BY <1>0, <1>1 DEF TypeOK, FramesOK
  <2>2. want' \in [Tasks -> Domains \cup {AllOfSession, AllOfConnection, None}]
    BY <1>2 DEF TypeOK
  <2>3. /\ pc' \in [Tasks -> {"idle", "locking", "opening", "streaming", "ended", "panicked"} \cup Waiting]
        /\ \A u \in Tasks : (answer'[u] # "none") = (pc'[u] \in Waiting)
        /\ lock # None => pc'[lock] = "enabling"
    BY <1>0, <1>1 DEF TypeOK, Waiting
  <2> QED
    BY <1>0, <2>1, <2>2, <2>3 DEF TypeOK
<1>4. FramesOK'
  BY <1>0, <1>1 DEF FramesOK
<1>5. ReceiversOK'
  BY <1>0, <1>1 DEF ReceiversOK, TypeOK, FramesOK
<1>6. Delivered'
  <2> SUFFICES ASSUME NEW u \in Tasks, NEW i \in from'[u] + 1 .. next'[u]
               PROVE  LET wanted == /\ want'[u] = AllOfConnection \/ sent[i].session = Mine
                                    /\ want'[u] \in Domains => sent[i].dom = want'[u] /\ sent[i].shape = "typed"
                      IN IF wanted THEN i \in got[u] \/ i <= Len(sent) - Capacity
                                   ELSE i \notin got[u]
    BY <1>0 DEF Delivered
  <2>1. u # t
    BY <1>0, <1>1 DEF FramesOK
  <2>2. want'[u] = want[u] /\ i \in from[u] + 1 .. next[u]
    BY <1>0, <1>2, <2>1 DEF TypeOK, FramesOK
  <2> QED
    BY <2>2 DEF Delivered
<1>7. WantsOK'
  BY <1>0, <1>2, NamesAssumption, EnablesAssumption DEF WantsOK, TypeOK
<1>8. CommandsAreCalled' /\ RepliesAreTrue' /\ AnswersAreTrue'
  <2>1. \A u \in Tasks : u # t => pc'[u] = pc[u] /\ want'[u] = want[u]
    BY <1>0, <1>2 DEF TypeOK
  <2> QED
    BY <1>0, <1>1, <2>1, CallersStay DEF TypeOK
<1>9. EnabledIsOn'
  BY <1>0 DEF EnabledIsOn
<1> QED
  BY <1>3, <1>4, <1>5, <1>6, <1>7, <1>8, <1>9

\* A call gets the lock, and sends its command if the domain is not enabled.
LEMMA AcquireKeepsIInv ==
  ASSUME IInv, NEW t \in Tasks, Acquire(t)
  PROVE  IInv'
<1> USE DEF IInv, Acquire
<1>0. answer[t] = "none" /\ want[t] \in Enables /\ pc[t] = "locking"
  BY DEF TypeOK, WantsOK, Waiting
<1>1. CASE want[t] \in enabled
  <2> USE <1>1 DEF callVars, streamVars, remoteVars
  <2>1. TypeOK'
    BY <1>0, NamesAssumption DEF TypeOK, Waiting
  <2>2. FramesOK'
    BY DEF FramesOK
  <2>3. ReceiversOK' /\ Delivered'
    BY ReceiversStay DEF TypeOK
  <2>4. WantsOK'
    BY DEF WantsOK, TypeOK
  <2>5. CommandsAreCalled' /\ RepliesAreTrue' /\ AnswersAreTrue'
    BY <1>0, CallersStay DEF TypeOK
  <2>6. EnabledIsOn'
    BY DEF EnabledIsOn
  <2> QED
    BY <2>1, <2>2, <2>3, <2>4, <2>5, <2>6
<1>2. CASE want[t] \notin enabled
  <2>0. /\ Send(t, "enable", want[t]) /\ pc' = [pc EXCEPT ![t] = "enabling"] /\ lock' = t
        /\ UNCHANGED <<want, holds, enabled, down, conn, sent, calls, streamVars, remoteVars, switched>>
    BY <1>2
  <2>1. /\ up' \in Seq(Commands) /\ \A i \in DOMAIN up' : up'[i].cmd = "enable" => up'[i].dom \in Enables
        /\ CommandsAreCalled' /\ RepliesAreTrue' /\ AnswersAreTrue'
        /\ answer' \in [Tasks -> {"none", "sent", "ok", "err", "hung"}]
        /\ \A u \in Tasks \ {t} : answer'[u] = answer[u]
        /\ answer'[t] # "none"
    <3>1. want[t] \in Domains \cup {None} /\ (\A u \in Tasks \ {t} : pc'[u] = pc[u]) /\ pc'[t] = "enabling"
      BY <1>0, <2>0, EnablesAssumption DEF TypeOK
    <3>2. remoteOn' = remoteOn /\ attached' = attached
      BY <2>0 DEF remoteVars
    <3> QED
      BY <1>0, <2>0, <3>1, <3>2, SendKeeps
  <2>2. TypeOK'
    BY <1>0, <2>0, <2>1, NamesAssumption DEF TypeOK, Waiting, streamVars, remoteVars
  <2>3. FramesOK'
    BY <2>0, <2>1 DEF FramesOK, streamVars
  <2>4. ReceiversOK' /\ Delivered'
    BY <1>0, <2>0, ReceiversStay DEF TypeOK
  <2>5. WantsOK'
    BY <1>0, <2>0 DEF WantsOK, TypeOK
  <2>6. EnabledIsOn'
    BY <2>0 DEF EnabledIsOn, remoteVars
  <2> QED
    BY <2>1, <2>2, <2>3, <2>4, <2>5, <2>6
<1> QED
  BY <1>1, <1>2

\* The command is answered, and the lock given up.
LEMMA EnabledKeepsIInv ==
  ASSUME IInv, NEW t \in Tasks, EnableOk(t) \/ EnableErr(t)
  PROVE  IInv'
<1> USE DEF IInv, EnableOk, EnableErr, streamVars, remoteVars
<1>1. /\ pc[t] = "enabling" /\ want[t] \in Enables /\ answer[t] \in {"ok", "err"}
      /\ answer' = [answer EXCEPT ![t] = "none"] /\ answer'[t] = "none"
      /\ \A u \in Tasks : u # t => pc'[u] = pc[u] /\ want'[u] = want[u] /\ answer'[u] = answer[u]
      /\ pc'[t] \in {"opening", "idle"} /\ lock' = None
  BY DEF TypeOK, WantsOK
<1>2. TypeOK'
  BY <1>1 DEF TypeOK, Waiting
<1>3. FramesOK'
  BY DEF FramesOK
<1>4. ReceiversOK' /\ Delivered'
  BY <1>1, ReceiversStay DEF TypeOK
<1>5. WantsOK'
  BY <1>1 DEF WantsOK, TypeOK
<1>6. CommandsAreCalled' /\ RepliesAreTrue' /\ AnswersAreTrue'
  BY <1>1, CallersStay DEF TypeOK
<1>7. EnabledIsOn'
  BY <1>1 DEF EnabledIsOn, AnswersAreTrue, IsOn
<1> QED
  BY <1>2, <1>3, <1>4, <1>5, <1>6, <1>7

\* A program's own command: disable, or detach.
LEMMA CommandKeepsIInv ==
  ASSUME IInv, NEW t \in Tasks, (\E d \in Enables : Disable(t, d)) \/ Detach(t)
  PROVE  IInv'
<1> USE DEF IInv
<1>1. PICK cmd \in {"disable", "detach"}, d \in Domains \cup {None} :
        /\ pc[t] = "idle" /\ Send(t, cmd, d)
        /\ pc' = [pc EXCEPT ![t] = IF cmd = "disable" THEN "sending" ELSE "detaching"]
        /\ switched' = IF cmd = "disable" THEN switched \cup {d} ELSE switched
        /\ switched' \subseteq Enables
        /\ UNCHANGED <<want, holds, lock, enabled, down, conn, sent, streamVars, remoteVars>>
  <2>1. ASSUME NEW d \in Enables, Disable(t, d)
        PROVE  /\ pc[t] = "idle" /\ Send(t, "disable", d)
               /\ pc' = [pc EXCEPT ![t] = "sending"]
               /\ switched' = switched \cup {d} /\ switched' \subseteq Enables
               /\ UNCHANGED <<want, holds, lock, enabled, down, conn, sent, streamVars, remoteVars>>
               /\ d \in Domains
    BY <2>1, EnablesAssumption DEF Disable, FramesOK
  <2>2. ASSUME Detach(t)
        PROVE  /\ pc[t] = "idle" /\ Send(t, "detach", None)
               /\ pc' = [pc EXCEPT ![t] = "detaching"]
               /\ switched' = switched /\ switched' \subseteq Enables
               /\ UNCHANGED <<want, holds, lock, enabled, down, conn, sent, streamVars, remoteVars>>
    BY <2>2 DEF Detach, FramesOK
  <2> QED
    BY <2>1, <2>2
<1>2. answer[t] = "none" /\ lock # t
  BY <1>1, NamesAssumption DEF TypeOK, Waiting
<1>3. /\ up' \in Seq(Commands) /\ \A i \in DOMAIN up' : up'[i].cmd = "enable" => up'[i].dom \in Enables
      /\ CommandsAreCalled' /\ RepliesAreTrue' /\ AnswersAreTrue'
      /\ answer' \in [Tasks -> {"none", "sent", "ok", "err", "hung"}]
      /\ \A u \in Tasks \ {t} : answer'[u] = answer[u]
      /\ answer'[t] # "none"
  <2>1. (\A u \in Tasks \ {t} : pc'[u] = pc[u]) /\ pc'[t] # "enabling"
    BY <1>1 DEF TypeOK
  <2>2. remoteOn' = remoteOn /\ attached' = attached
    BY <1>1 DEF remoteVars
  <2> QED
    BY <1>1, <1>2, <2>1, <2>2, SendKeeps
<1>4. TypeOK'
  BY <1>1, <1>2, <1>3 DEF TypeOK, Waiting, streamVars, remoteVars
<1>5. FramesOK'
  BY <1>1, <1>3 DEF FramesOK, streamVars
<1>6. ReceiversOK' /\ Delivered'
  BY <1>1, ReceiversStay DEF TypeOK
<1>7. WantsOK'
  BY <1>1 DEF WantsOK, TypeOK
<1>8. EnabledIsOn'
  BY <1>1 DEF EnabledIsOn, remoteVars
<1> QED
  BY <1>3, <1>4, <1>5, <1>6, <1>7, <1>8

\* That command is answered.
LEMMA ReturnKeepsIInv ==
  ASSUME IInv, NEW t \in Tasks, Return(t)
  PROVE  IInv'
<1> USE DEF IInv, Return, streamVars, remoteVars
<1>1. /\ answer[t] \in {"ok", "err"} /\ lock # t /\ answer'[t] = "none" /\ pc'[t] = "idle"
      /\ \A u \in Tasks : u # t => pc'[u] = pc[u] /\ answer'[u] = answer[u]
  BY NamesAssumption DEF TypeOK
<1>2. TypeOK'
  BY <1>1 DEF TypeOK, Waiting
<1>3. FramesOK'
  BY DEF FramesOK
<1>4. ReceiversOK' /\ Delivered'
  BY ReceiversStay DEF TypeOK
<1>5. WantsOK'
  BY DEF WantsOK, TypeOK
<1>6. CommandsAreCalled' /\ RepliesAreTrue' /\ AnswersAreTrue'
  BY <1>1, CallersStay DEF TypeOK
<1>7. EnabledIsOn'
  BY DEF EnabledIsOn
<1> QED
  BY <1>2, <1>3, <1>4, <1>5, <1>6, <1>7

\* Frames of a caller that has gone are nobody's.
LEMMA DisownFacts ==
  ASSUME FramesOK, NEW t \in Tasks
  PROVE  /\ Disown(up, t) \in Seq(Commands) /\ DOMAIN Disown(up, t) = DOMAIN up
         /\ \A i \in DOMAIN up : /\ Disown(up, t)[i].cmd = up[i].cmd /\ Disown(up, t)[i].dom = up[i].dom
                                 /\ Disown(up, t)[i].by = IF up[i].by = t THEN None ELSE up[i].by
         /\ Disown(down, t) \in Seq(Replies \cup Events) /\ DOMAIN Disown(down, t) = DOMAIN down
         /\ \A i \in DOMAIN down :
              /\ down[i] \in Replies => /\ Disown(down, t)[i] \in Replies
                                        /\ Disown(down, t)[i].ok = down[i].ok
                                        /\ Disown(down, t)[i].by = IF down[i].by = t THEN None ELSE down[i].by
              /\ down[i] \notin Replies => Disown(down, t)[i] \notin Replies
<1> DEFINE Gone(f) == IF "by" \in DOMAIN f /\ f.by = t THEN [f EXCEPT !.by = None] ELSE f
<1>1. /\ DOMAIN up = 1..Len(up) /\ Len(up) \in Nat /\ DOMAIN down = 1..Len(down) /\ Len(down) \in Nat
      /\ \A i \in DOMAIN up : up[i] \in Commands
      /\ \A i \in DOMAIN down : down[i] \in Replies \cup Events
  BY FramesAreTyped, LenProperties DEF FramesOK
<1>2. /\ Disown(up, t) = [i \in DOMAIN up |-> Gone(up[i])]
      /\ Disown(down, t) = [i \in DOMAIN down |-> Gone(down[i])]
  BY DEF Disown
<1>3. ASSUME NEW f \in Commands
      PROVE  /\ Gone(f) \in Commands /\ Gone(f).cmd = f.cmd /\ Gone(f).dom = f.dom
             /\ Gone(f).by = IF f.by = t THEN None ELSE f.by
  BY DEF Commands, Callers
<1>4. ASSUME NEW f \in Replies
      PROVE  /\ Gone(f) \in Replies /\ Gone(f).ok = f.ok
             /\ Gone(f).by = IF f.by = t THEN None ELSE f.by
  BY DEF Replies, Callers
<1>5. ASSUME NEW f \in Events
      PROVE  Gone(f) = f /\ f \notin Replies
  BY RepliesAreNotEvents
<1> HIDE DEF Gone
<1>6. /\ Disown(up, t) \in Seq(Commands) /\ DOMAIN Disown(up, t) = DOMAIN up
      /\ Disown(down, t) \in Seq(Replies \cup Events) /\ DOMAIN Disown(down, t) = DOMAIN down
  <2>1. \A i \in 1..Len(up) : Gone(up[i]) \in Commands
    BY <1>1, <1>3
  <2>2. \A i \in 1..Len(down) : Gone(down[i]) \in Replies \cup Events
    BY <1>1, <1>4, <1>5
  <2> QED
    BY <1>1, <1>2, <2>1, <2>2, IsASeq
<1> QED
  BY <1>1, <1>2, <1>3, <1>4, <1>5, <1>6

\* A call is given up while it waits, for the lock or for its answer.
LEMMA CancelKeepsIInv ==
  ASSUME IInv, NEW t \in Tasks, Cancel(t)
  PROVE  IInv'
<1> USE DEF IInv, Cancel, streamVars, remoteVars
<1>1. /\ pc[t] \in {"locking", "enabling", "sending", "detaching"} /\ t # None
      /\ pc'[t] = "idle" /\ answer'[t] = "none"
      /\ \A u \in Tasks : u # t => pc'[u] = pc[u] /\ want'[u] = want[u] /\ answer'[u] = answer[u]
  BY NamesAssumption DEF TypeOK, Waiting
<1>2. /\ up' \in Seq(Commands) /\ DOMAIN up' = DOMAIN up
      /\ \A i \in DOMAIN up : /\ up'[i].cmd = up[i].cmd /\ up'[i].dom = up[i].dom
                              /\ up'[i].by = IF up[i].by = t THEN None ELSE up[i].by
      /\ down' \in Seq(Replies \cup Events) /\ DOMAIN down' = DOMAIN down
      /\ \A i \in DOMAIN down :
           /\ down[i] \in Replies => /\ down'[i] \in Replies /\ down'[i].ok = down[i].ok
                                     /\ down'[i].by = IF down[i].by = t THEN None ELSE down[i].by
           /\ down[i] \notin Replies => down'[i] \notin Replies
  BY DisownFacts
<1>3. /\ \A i \in DOMAIN up : up[i].by \in Callers
      /\ \A i \in DOMAIN down : down[i] \in Replies => down[i].by \in Callers
  BY FramesAreTyped
<1>4. TypeOK'
  BY <1>1 DEF TypeOK, Waiting
<1>5. FramesOK'
  BY <1>2 DEF FramesOK
<1>6. ReceiversOK' /\ Delivered'
  BY <1>1, ReceiversStay
<1>7. WantsOK'
  BY <1>1 DEF WantsOK, TypeOK
<1>8. CommandsAreCalled'
  <2> SUFFICES ASSUME NEW i \in DOMAIN up
               PROVE  /\ Called(up[i])'
                      /\ up'[i].cmd = "disable" => up'[i].dom \in switched
                      /\ up'[i].by # None =>
                           /\ \A j \in DOMAIN up : up'[j].by = up'[i].by => j = i
                           /\ \A j \in DOMAIN down : down'[j] \in Replies => down'[j].by # up'[i].by
    BY <1>2 DEF CommandsAreCalled
  <2>1. /\ Called(up[i])
        /\ up[i].cmd = "disable" => up[i].dom \in switched
        /\ up[i].by # None =>
             /\ \A j \in DOMAIN up : up[j].by = up[i].by => j = i
             /\ \A j \in DOMAIN down : down[j] \in Replies => down[j].by # up[i].by
    BY DEF CommandsAreCalled
  <2>2. Called(up[i])'
    BY <1>1, <1>2, <1>3, <2>1 DEF Called, Callers
  <2>3. up'[i].by # None => up'[i].by = up[i].by /\ up[i].by # t
    BY <1>2
  <2>4. up'[i].by # None => \A j \in DOMAIN up : up'[j].by = up'[i].by => j = i
    BY <1>2, <2>1, <2>3
  <2>5. up'[i].by # None => \A j \in DOMAIN down : down'[j] \in Replies => down'[j].by # up'[i].by
    BY <1>2, <2>1, <2>3
  <2> QED
    BY <1>2, <2>1, <2>2, <2>4, <2>5
<1>9. RepliesAreTrue'
  <2> SUFFICES ASSUME NEW i \in DOMAIN down, down'[i] \in Replies, down'[i].by # None
               PROVE  /\ answer'[down'[i].by] = "sent"
                      /\ down'[i].ok /\ pc'[down'[i].by] = "enabling" => IsOn(down[i].by)'
                      /\ \A j \in DOMAIN down : down'[j] \in Replies /\ down'[j].by = down'[i].by => j = i
    BY <1>2 DEF RepliesAreTrue
  <2>1. down[i] \in Replies /\ down'[i].by = down[i].by /\ down[i].by # t /\ down[i].by \in Tasks
    BY <1>2, <1>3 DEF Callers
  <2>2. /\ answer[down[i].by] = "sent"
        /\ down[i].ok /\ pc[down[i].by] = "enabling" => IsOn(down[i].by)
        /\ \A j \in DOMAIN down : down[j] \in Replies /\ down[j].by = down[i].by => j = i
    BY <2>1 DEF RepliesAreTrue
  <2>3. \A j \in DOMAIN down : down'[j] \in Replies /\ down'[j].by = down'[i].by => j = i
    BY <1>2, <2>1, <2>2
  <2> QED
    BY <1>1, <1>2, <2>1, <2>2, <2>3 DEF IsOn
<1>10. AnswersAreTrue'
  BY <1>1 DEF AnswersAreTrue, IsOn
<1>11. EnabledIsOn'
  BY DEF EnabledIsOn
<1> QED
  BY <1>4, <1>5, <1>6, <1>7, <1>8, <1>9, <1>10, <1>11

\* A clone or a stream is dropped, or a stream ends: nothing is sent.
LEMMA DropKeepsIInv ==
  ASSUME IInv, NEW t \in Tasks, DropHandle(t) \/ DropStream(t) \/ PollEnd(t)
  PROVE  IInv'
<1> USE DEF IInv, DropHandle, DropStream, PollEnd, callVars, remoteVars
<1>1. /\ answer[t] = "none" /\ lock # t /\ answer' = answer /\ lock' = lock /\ enabled' = enabled
      /\ up' = up /\ down' = down /\ sent' = sent /\ conn' = conn
      /\ remoteOn' = remoteOn /\ attached' = attached /\ switched' = switched
      /\ \A u \in Tasks : u # t => pc'[u] = pc[u] /\ want'[u] = want[u]
      /\ holds' \subseteq Tasks /\ pc'[t] \in {"idle", "streaming", "ended"}
  BY NamesAssumption DEF TypeOK, Waiting
<1>2. \/ /\ want' = want /\ from' = from /\ next' = next /\ got' = got
         /\ pc'[t] = pc[t] \/ (pc[t] = "streaming" /\ pc'[t] = "ended")
      \/ /\ pc'[t] = "idle" /\ want'[t] = None
         /\ from' = [from EXCEPT ![t] = 0] /\ next' = [next EXCEPT ![t] = 0] /\ got' = [got EXCEPT ![t] = {}]
  <2>1. CASE DropHandle(t)
    BY <2>1 DEF streamVars
  <2>2. CASE DropStream(t)
    BY <2>2 DEF TypeOK
  <2>3. CASE PollEnd(t)
    BY <2>3 DEF streamVars, TypeOK
  <2> QED
    BY <2>1, <2>2, <2>3
<1>3. pc' \in [Tasks -> {"idle", "locking", "opening", "streaming", "ended", "panicked"} \cup Waiting]
      /\ want' \in [Tasks -> Domains \cup {AllOfSession, AllOfConnection, None}]
  BY DEF TypeOK
<1>4. TypeOK'
  <2>1. \A u \in Tasks : 0 <= from'[u] /\ from'[u] <= next'[u] /\ next'[u] <= Len(sent')
    BY <1>1, <1>2, LenProperties DEF TypeOK, FramesOK
  <2>2. \A u \in Tasks : (answer'[u] # "none") = (pc'[u] \in Waiting)
    BY <1>1 DEF TypeOK, Waiting
  <2>3. lock' # None => pc'[lock'] = "enabling"
    BY <1>1 DEF TypeOK
  <2> QED
    BY <1>1, <1>3, <2>1, <2>2, <2>3 DEF TypeOK
<1>5. FramesOK'
  <2>0. from \in [Tasks -> Nat] /\ next \in [Tasks -> Nat] /\ got \in [Tasks -> SUBSET Nat]
    BY DEF FramesOK
  <2>1. from' \in [Tasks -> Nat] /\ next' \in [Tasks -> Nat] /\ got' \in [Tasks -> SUBSET Nat]
    BY <1>2, <2>0
  <2> QED
    BY <1>1, <2>1 DEF FramesOK
<1>6. ReceiversOK'
  BY <1>1, <1>2 DEF ReceiversOK, FramesOK
<1>7. Delivered'
  <2> SUFFICES ASSUME NEW u \in Tasks, NEW i \in from'[u] + 1 .. next'[u]
               PROVE  want'[u] = want[u] /\ got'[u] = got[u] /\ i \in from[u] + 1 .. next[u]
    BY <1>1 DEF Delivered
  <2>1. CASE want' = want /\ from' = from /\ next' = next /\ got' = got
    BY <2>1
  <2>2. CASE /\ from' = [from EXCEPT ![t] = 0] /\ next' = [next EXCEPT ![t] = 0]
             /\ got' = [got EXCEPT ![t] = {}]
    BY <1>1, <2>2 DEF FramesOK
  <2> QED
    BY <1>2, <2>1, <2>2
<1>8. WantsOK'
  BY <1>1, <1>2, NamesAssumption, EnablesAssumption DEF WantsOK, TypeOK
<1>9. CommandsAreCalled' /\ RepliesAreTrue' /\ AnswersAreTrue'
  BY <1>1, CallersStay DEF TypeOK
<1>10. EnabledIsOn'
  BY <1>1 DEF EnabledIsOn
<1> QED
  BY <1>4, <1>5, <1>6, <1>7, <1>8, <1>9, <1>10

\* A stream looks at one more event, or skips those pushed out of the ring.
LEMMA PollKeepsIInv ==
  ASSUME IInv, NEW t \in Tasks, Poll(t)
  PROVE  IInv'
<1> USE DEF IInv, Poll, callVars, remoteVars
<1>1. /\ answer[t] = "none" /\ lock # t /\ Len(sent) \in Nat /\ Capacity \in Nat
      /\ next[t] \in Nat /\ from[t] \in Nat /\ next[t] < Len(sent) /\ from' = from /\ pc[t] = "streaming"
      /\ \A u \in Tasks : u # t => pc'[u] = pc[u] /\ next'[u] = next[u] /\ got'[u] = got[u]
      /\ pc' \in [Tasks -> {"idle", "locking", "opening", "streaming", "ended", "panicked"} \cup Waiting]
  BY NamesAssumption, CapacityAssumption, LenProperties DEF TypeOK, FramesOK, Waiting
<1>2. pc'[t] \in {"streaming", "panicked"}
  BY <1>1 DEF TypeOK
<1>3. \/ /\ next'[t] = Overwritten /\ next[t] < Overwritten /\ got'[t] = got[t]
      \/ /\ next'[t] = next[t] + 1
         /\ got'[t] = IF Yields(t, sent[next[t] + 1]) THEN got[t] \cup {next[t] + 1} ELSE got[t]
  BY <1>1 DEF FramesOK
<1>4. next'[t] \in Nat /\ next[t] <= next'[t] /\ next'[t] <= Len(sent)
  BY <1>1, <1>3 DEF Overwritten
<1>5. TypeOK'
  <2>1. \A u \in Tasks : (answer[u] # "none") = (pc'[u] \in Waiting)
    BY <1>1, <1>2 DEF TypeOK, Waiting
  <2>2. \A u \in Tasks : 0 <= from'[u] /\ from'[u] <= next'[u] /\ next'[u] <= Len(sent)
    BY <1>1, <1>4 DEF TypeOK
  <2> QED
    BY <1>1, <2>1, <2>2 DEF TypeOK
<1>6. FramesOK'
  <2>1. next \in [Tasks -> Nat] /\ got \in [Tasks -> SUBSET Nat]
    BY DEF FramesOK
  <2>2. \E n \in Nat : next' = [next EXCEPT ![t] = n]
    BY <1>1, <1>4, <2>1
  <2>3. \E g \in SUBSET Nat : got' = [got EXCEPT ![t] = g]
    <3>1. got[t] \in SUBSET Nat /\ next[t] + 1 \in Nat
      BY <1>1, <2>1
    <3>2. got' = got => got' = [got EXCEPT ![t] = got[t]]
      BY <2>1
    <3> QED
      BY <3>1, <3>2
  <2> QED
    BY <2>1, <2>2, <2>3 DEF FramesOK
<1>7. ReceiversOK'
  <2>1. \A i \in got[t] : i \in Nat /\ i <= next[t]
    BY DEF ReceiversOK, FramesOK
  <2>2. \A i \in got'[t] : i <= next'[t]
    BY <1>1, <1>3, <1>4, <2>1
  <2>3. \A u \in Tasks : u # t => pc'[u] = pc[u] /\ next'[u] = next[u] /\ got'[u] = got[u]
    BY <1>1
  <2> QED
    BY <1>2, <2>2, <2>3 DEF ReceiversOK
<1>8. Delivered'
  <2> SUFFICES ASSUME NEW u \in Tasks, NEW i \in from[u] + 1 .. next'[u]
               PROVE  LET wanted == /\ want[u] = AllOfConnection \/ sent[i].session = Mine
                                    /\ want[u] \in Domains => sent[i].dom = want[u] /\ sent[i].shape = "typed"
                      IN IF wanted THEN i \in got'[u] \/ i <= Len(sent) - Capacity
                                   ELSE i \notin got'[u]
    BY DEF Delivered
  <2>1. CASE u # t
    BY <1>1, <2>1 DEF Delivered
  <2>2. CASE u = t /\ i <= next[t]
    BY <1>1, <1>3, <2>2 DEF Delivered
  <2>3. CASE u = t /\ i > next[t]
    <3>1. i \notin got[t] /\ i \in Nat
      BY <1>1, <2>3 DEF ReceiversOK, FramesOK
    <3>2. CASE next'[t] = Overwritten /\ next[t] < Overwritten /\ got'[t] = got[t]
      <4>1. i <= Len(sent) - Capacity
        BY <1>1, <2>3, <3>2 DEF Overwritten
      <4> QED
        BY <2>3, <3>1, <3>2, <4>1
    <3>3. CASE /\ next'[t] = next[t] + 1
               /\ got'[t] = IF Yields(t, sent[next[t] + 1]) THEN got[t] \cup {next[t] + 1} ELSE got[t]
      <4>1. i = next[t] + 1
        BY <1>1, <2>3, <3>3
      <4> QED
        BY <2>3, <3>1, <3>3, <4>1 DEF Yields, Matches
    <3> QED
      BY <1>3, <3>2, <3>3
  <2> QED
    BY <1>1, <2>1, <2>2, <2>3 DEF FramesOK
<1>9. WantsOK'
  BY <1>1, <1>2 DEF WantsOK
<1>10. CommandsAreCalled' /\ RepliesAreTrue' /\ AnswersAreTrue'
  BY <1>1, <1>2, CallersStay DEF TypeOK
<1>11. EnabledIsOn'
  BY DEF EnabledIsOn
<1> QED
  BY <1>5, <1>6, <1>7, <1>8, <1>9, <1>10, <1>11

\* The browser executes a command: its frame becomes the reply.
LEMMA ExecuteKeepsIInv ==
  ASSUME IInv, Execute
  PROVE  IInv'
<1> USE DEF IInv
<1> DEFINE f == Head(up)
<1>1. /\ f = up[1] /\ 1 \in DOMAIN up /\ f \in Commands /\ f.by \in Callers
      /\ up' = Tail(up) /\ up' \in Seq(Commands)
      /\ \A i \in DOMAIN up' : i \in Nat /\ i + 1 \in DOMAIN up /\ i + 1 # 1 /\ up'[i] = up[i + 1]
  <2>1. up \in Seq(Commands) /\ up # <<>> /\ up' = Tail(up)
    BY DEF Execute, FramesOK
  <2>2. /\ f = up[1] /\ 1 \in DOMAIN up /\ f \in Commands /\ up' \in Seq(Commands)
        /\ Len(up) \in Nat /\ DOMAIN up' = 1..(Len(up) - 1)
        /\ \A i \in DOMAIN up' : i + 1 \in DOMAIN up /\ up'[i] = up[i + 1]
    BY <2>1, TailFacts
  <2>3. f.by \in Callers
    BY <2>2 DEF Commands
  <2> QED
    BY <2>1, <2>2, <2>3
<1>2. PICK ok \in BOOLEAN :
        /\ down' = Append(down, [by |-> f.by, ok |-> ok])
        /\ attached' \in BOOLEAN /\ (attached' => attached)
        /\ remoteOn' \subseteq Enables
        /\ attached' => remoteOn \ switched \subseteq remoteOn'
        /\ f.cmd = "enable" /\ ok => f.dom \in remoteOn'
  <2>1. f.cmd \in {"enable", "disable", "detach"}
    BY <1>1 DEF Commands
  <2>2. CASE f.cmd = "detach"
    BY <2>2 DEF Execute, Reply, TypeOK
  <2>3. CASE f.cmd = "disable"
    <3>1. f.dom \in switched
      BY <1>1, <2>3 DEF CommandsAreCalled
    <3> QED
      BY <2>3, <3>1 DEF Execute, Reply, TypeOK
  <2>4. CASE f.cmd = "enable"
    <3>1. f.dom \in Enables
      BY <1>1, <2>4 DEF FramesOK
    <3> QED
      BY <2>4, <3>1 DEF Execute, Reply, TypeOK
  <2> QED
    BY <2>1, <2>2, <2>3, <2>4
<1>3. UNCHANGED <<pc, want, answer, holds, lock, enabled, conn, sent, streamVars, switched>>
  BY DEF Execute
<1> DEFINE r == [by |-> f.by, ok |-> ok]
           n == Len(down) + 1
<1>4. r \in Replies /\ r.by = f.by /\ r.ok = ok
  BY <1>1 DEF Replies
<1>5. /\ Len(down) \in Nat /\ DOMAIN down = 1..Len(down) /\ DOMAIN down' = 1..n
      /\ down' \in Seq(Replies \cup Events)
      /\ \A i \in DOMAIN down : down'[i] = down[i]
      /\ down'[n] = r
  BY <1>2, <1>4, AppendFacts DEF FramesOK
<1> HIDE DEF f, r
<1>6. \A t : IsOn(t) => IsOn(t)'
  BY <1>2, <1>3 DEF IsOn
<1>7. TypeOK'
  BY <1>2, <1>3 DEF TypeOK, streamVars
<1>8. FramesOK'
  <2>1. \A i \in DOMAIN up' : up'[i].cmd = "enable" => up'[i].dom \in Enables
    BY <1>1 DEF FramesOK
  <2> QED
    BY <1>1, <1>3, <1>5, <2>1 DEF FramesOK, streamVars
<1>9. ReceiversOK' /\ Delivered'
  BY <1>3, ReceiversStay
<1>10. WantsOK'
  BY <1>3 DEF WantsOK
<1>11. CommandsAreCalled'
  <2> SUFFICES ASSUME NEW i \in DOMAIN up'
               PROVE  /\ Called(up[i])'
                      /\ up'[i].cmd = "disable" => up'[i].dom \in switched
                      /\ up'[i].by # None =>
                           /\ \A j \in DOMAIN up' : up'[j].by = up'[i].by => j = i
                           /\ \A j \in DOMAIN down' : down'[j] \in Replies => down'[j].by # up'[i].by
    BY <1>3 DEF CommandsAreCalled
  <2>1. up'[i] = up[i + 1] /\ i + 1 \in DOMAIN up /\ i + 1 # 1 /\ i \in Nat
    BY <1>1, LenProperties
  <2>2. /\ Called(up[i + 1])
        /\ up[i + 1].cmd = "disable" => up[i + 1].dom \in switched
        /\ up[i + 1].by # None =>
             /\ \A j \in DOMAIN up : up[j].by = up[i + 1].by => j = i + 1
             /\ \A j \in DOMAIN down : down[j] \in Replies => down[j].by # up[i + 1].by
    BY <2>1 DEF CommandsAreCalled
  <2>3. Called(up[i])'
    BY <1>3, <2>1, <2>2 DEF Called
  <2>4. ASSUME up'[i].by # None, NEW j \in DOMAIN up', up'[j].by = up'[i].by PROVE j = i
    <3>1. up'[j] = up[j + 1] /\ j + 1 \in DOMAIN up /\ j \in Nat
      BY <1>1, LenProperties
    <3> QED
      BY <2>1, <2>2, <2>4, <3>1
  <2>5. ASSUME up'[i].by # None, NEW j \in DOMAIN down', down'[j] \in Replies PROVE down'[j].by # up'[i].by
    <3>1. CASE j = n
      BY <1>1, <1>4, <1>5, <2>1, <2>2, <2>5, <3>1
    <3>2. CASE j \in DOMAIN down
      BY <1>5, <2>1, <2>2, <2>5, <3>2
    <3> QED
      BY <1>5, <3>1, <3>2
  <2> QED
    BY <2>1, <2>2, <2>3, <2>4, <2>5
<1>12. RepliesAreTrue'
  <2>1. \A i \in DOMAIN down : down[i] \in Replies => f.by = None \/ down[i].by # f.by
    BY <1>1 DEF CommandsAreCalled
  <2> SUFFICES ASSUME NEW i \in DOMAIN down', down'[i] \in Replies, down'[i].by # None
               PROVE  /\ answer[down'[i].by] = "sent"
                      /\ down'[i].ok /\ pc[down'[i].by] = "enabling" => IsOn(down[i].by)'
                      /\ \A j \in DOMAIN down' : down'[j] \in Replies /\ down'[j].by = down'[i].by => j = i
    BY <1>3 DEF RepliesAreTrue
  <2>2. CASE i = n
    <3>1. down'[i].by = f.by /\ down'[i].ok = ok /\ Called(f)
      BY <1>1, <1>4, <1>5, <2>2 DEF CommandsAreCalled
    <3>2. down'[i].ok /\ pc[down'[i].by] = "enabling" => IsOn(down[i].by)'
      BY <1>2, <1>3, <3>1 DEF Called, IsOn
    <3>3. \A j \in DOMAIN down' : down'[j] \in Replies /\ down'[j].by = down'[i].by => j = i
      BY <1>5, <2>1, <2>2, <3>1
    <3> QED
      BY <3>1, <3>2, <3>3 DEF Called
  <2>3. CASE i \in DOMAIN down
    <3>1. down'[i] = down[i]
      BY <1>5, <2>3
    <3>2. /\ answer[down[i].by] = "sent"
          /\ down[i].ok /\ pc[down[i].by] = "enabling" => IsOn(down[i].by)
          /\ \A j \in DOMAIN down : down[j] \in Replies /\ down[j].by = down[i].by => j = i
      BY <2>3, <3>1 DEF RepliesAreTrue
    <3>3. \A j \in DOMAIN down' : down'[j] \in Replies /\ down'[j].by = down'[i].by => j = i
      BY <1>4, <1>5, <2>1, <2>3, <3>1, <3>2
    <3>4. IsOn(down[i].by) => IsOn(down[i].by)'
      BY <1>2, <1>3, <3>1 DEF IsOn
    <3> QED
      BY <3>1, <3>2, <3>3, <3>4
  <2> QED
    BY <1>5, <2>2, <2>3
<1>13. AnswersAreTrue'
  BY <1>3, <1>6 DEF AnswersAreTrue
<1>14. EnabledIsOn'
  BY <1>2, <1>3 DEF EnabledIsOn
<1> QED
  BY <1>7, <1>8, <1>9, <1>10, <1>11, <1>12, <1>13, <1>14

\* The browser sends an event.
LEMMA EmitKeepsIInv ==
  ASSUME IInv, NEW e \in Traffic, Emit(e)
  PROVE  IInv'
<1> USE DEF IInv
<1>1. /\ down' = Append(down, e) /\ e \in Events /\ e \notin Replies
      /\ UNCHANGED <<pc, want, holds, lock, enabled, conn, sent, calls, callVars, streamVars, remoteVars, switched>>
  BY TrafficAssumption, RepliesAreNotEvents DEF Emit
<1>2. /\ Len(down) \in Nat /\ DOMAIN down = 1..Len(down) /\ DOMAIN down' = 1..(Len(down) + 1)
      /\ down' \in Seq(Replies \cup Events)
      /\ \A i \in DOMAIN down : down'[i] = down[i]
      /\ down'[Len(down) + 1] = e
  BY <1>1, AppendFacts DEF FramesOK
<1>3. \A i \in DOMAIN down' : down'[i] \in Replies => i \in DOMAIN down /\ down'[i] = down[i]
  BY <1>1, <1>2
<1>4. up' = up /\ answer' = answer /\ remoteOn' = remoteOn /\ attached' = attached
  BY <1>1 DEF callVars, remoteVars
<1>5. TypeOK'
  BY <1>1, <1>4 DEF TypeOK, streamVars
<1>6. FramesOK'
  BY <1>1, <1>2, <1>4 DEF FramesOK, streamVars
<1>7. ReceiversOK' /\ Delivered'
  BY <1>1, ReceiversStay
<1>8. WantsOK'
  BY <1>1 DEF WantsOK
<1>9. CommandsAreCalled'
  BY <1>1, <1>3, <1>4 DEF CommandsAreCalled, Called
<1>10. RepliesAreTrue'
  BY <1>1, <1>3, <1>4 DEF RepliesAreTrue, IsOn
<1>11. AnswersAreTrue' /\ EnabledIsOn'
  BY <1>1, <1>4 DEF AnswersAreTrue, EnabledIsOn, IsOn
<1> QED
  BY <1>5, <1>6, <1>7, <1>8, <1>9, <1>10, <1>11

\* The reader task hands a reply to its caller, or broadcasts an event.
LEMMA DispatchKeepsIInv ==
  ASSUME IInv, Dispatch
  PROVE  IInv'
<1> USE DEF IInv
<1> DEFINE f == Head(down)
<1>1. /\ f = down[1] /\ 1 \in DOMAIN down /\ f \in Replies \cup Events
      /\ down' \in Seq(Replies \cup Events)
      /\ \A i \in DOMAIN down' : i \in Nat /\ i + 1 \in DOMAIN down /\ i + 1 # 1 /\ down'[i] = down[i + 1]
  <2>1. down \in Seq(Replies \cup Events) /\ down # <<>> /\ down' = Tail(down)
    BY DEF Dispatch, FramesOK
  <2>2. /\ f = down[1] /\ 1 \in DOMAIN down /\ f \in Replies \cup Events
        /\ down' \in Seq(Replies \cup Events)
        /\ Len(down) \in Nat /\ DOMAIN down' = 1..(Len(down) - 1)
        /\ \A i \in DOMAIN down' : i + 1 \in DOMAIN down /\ down'[i] = down[i + 1]
    BY <2>1, TailFacts
  <2> QED
    BY <2>1, <2>2
<1>2. /\ UNCHANGED <<pc, want, up, holds, lock, enabled, conn, streamVars, switched>>
      /\ remoteOn' = remoteOn /\ attached' = attached
  BY DEF Dispatch, remoteVars
<1>3. /\ f \in Replies =>
           /\ answer' = IF f.by = None THEN answer
                        ELSE [answer EXCEPT ![f.by] = IF f.ok THEN "ok" ELSE "err"]
           /\ sent' = sent
      /\ f \notin Replies => f \in Events /\ sent' = Append(sent, f) /\ answer' = answer
  BY <1>1, RepliesAreNotEvents DEF Dispatch
<1> HIDE DEF f
<1>4. f \in Replies /\ f.by # None =>
        /\ f.by \in Tasks /\ answer[f.by] = "sent" /\ f.ok \in BOOLEAN
        /\ f.ok /\ pc[f.by] = "enabling" => IsOn(f.by)
        /\ answer'[f.by] \in {"ok", "err"}
        /\ answer'[f.by] = "ok" => f.ok
        /\ \A u \in Tasks : u # f.by => answer'[u] = answer[u]
        /\ answer' \in [Tasks -> {"none", "sent", "ok", "err", "hung"}]
  <2> SUFFICES ASSUME f \in Replies, f.by # None
               PROVE  /\ f.by \in Tasks /\ answer[f.by] = "sent" /\ f.ok \in BOOLEAN
                      /\ f.ok /\ pc[f.by] = "enabling" => IsOn(f.by)
                      /\ answer'[f.by] \in {"ok", "err"}
                      /\ answer'[f.by] = "ok" => f.ok
                      /\ \A u \in Tasks : u # f.by => answer'[u] = answer[u]
                      /\ answer' \in [Tasks -> {"none", "sent", "ok", "err", "hung"}]
    OBVIOUS
  <2>1. f.by \in Tasks /\ f.ok \in BOOLEAN
    BY DEF Replies, Callers
  <2>2. answer[f.by] = "sent" /\ (f.ok /\ pc[f.by] = "enabling" => IsOn(f.by))
    BY <1>1 DEF RepliesAreTrue
  <2> QED
    BY <1>3, <2>1, <2>2 DEF TypeOK
<1>5. /\ f \notin Replies \/ f.by = None => answer' = answer
      /\ f \in Replies => sent' = sent
      /\ f \notin Replies => sent' = Append(sent, f) /\ f \in Events
  BY <1>3
<1>6. TypeOK'
  <2>1. answer' \in [Tasks -> {"none", "sent", "ok", "err", "hung"}]
    BY <1>4, <1>5 DEF TypeOK
  <2>2. \A t \in Tasks : (answer'[t] # "none") = (pc[t] \in Waiting)
    <3>1. \A t \in Tasks : answer'[t] = answer[t] \/ (answer[t] = "sent" /\ answer'[t] # "none")
      BY <1>4, <1>5
    <3> QED
      BY <3>1 DEF TypeOK
  <2>3. sent' \in Seq(Events) /\ Len(sent) <= Len(sent') /\ Len(sent) \in Nat /\ Len(sent') \in Nat
    BY <1>5, AppendFacts, LenProperties DEF TypeOK
  <2>4. \A t \in Tasks : 0 <= from[t] /\ from[t] <= next[t] /\ next[t] <= Len(sent')
    BY <2>3 DEF TypeOK, FramesOK
  <2> QED
    BY <1>2, <2>1, <2>2, <2>3, <2>4 DEF TypeOK, streamVars
<1>7. FramesOK'
  BY <1>1, <1>2 DEF FramesOK, streamVars
<1>8. from' = from /\ next' = next /\ got' = got
  BY <1>2 DEF streamVars
<1>9. ReceiversOK'
  BY <1>2, <1>8 DEF ReceiversOK
<1>10. Delivered'
  <2>1. CASE f \in Replies
    BY <1>2, <1>5, <2>1, ReceiversStay
  <2>2. CASE f \notin Replies
    <3>1. /\ Len(sent) \in Nat /\ Len(sent') = Len(sent) + 1
          /\ \A i \in 1..Len(sent) : sent'[i] = sent[i]
      BY <1>5, <2>2, AppendFacts DEF TypeOK
    <3>2. ASSUME NEW t \in Tasks, NEW i \in from[t] + 1 .. next[t]
          PROVE  /\ sent'[i] = sent[i] /\ (i <= Len(sent) - Capacity => i <= Len(sent') - Capacity)
                 /\ want'[t] = want[t]
      <4>1. from[t] \in Nat /\ next[t] \in Nat /\ next[t] <= Len(sent)
        BY DEF TypeOK, FramesOK
      <4>2. i \in 1..Len(sent)
        BY <3>1, <4>1
      <4>3. Capacity \in Nat
        BY CapacityAssumption
      <4> QED
        BY <1>2, <3>1, <4>2, <4>3
    <3> QED
      BY <1>8, <3>2 DEF Delivered
  <2> QED
    BY <2>1, <2>2
<1>11. WantsOK'
  BY <1>2 DEF WantsOK
<1>12. \A t \in Tasks : answer[t] = "sent" => answer'[t] = "sent" \/ (f \in Replies /\ t = f.by)
  BY <1>4, <1>5
<1>13. CommandsAreCalled'
  <2> SUFFICES ASSUME NEW i \in DOMAIN up
               PROVE  /\ Called(up[i])'
                      /\ up[i].cmd = "disable" => up[i].dom \in switched
                      /\ up[i].by # None =>
                           /\ \A j \in DOMAIN up : up[j].by = up[i].by => j = i
                           /\ \A j \in DOMAIN down' : down'[j] \in Replies => down'[j].by # up[i].by
    BY <1>2 DEF CommandsAreCalled
  <2>1. /\ Called(up[i])
        /\ up[i].cmd = "disable" => up[i].dom \in switched
        /\ up[i].by # None =>
             /\ \A j \in DOMAIN up : up[j].by = up[i].by => j = i
             /\ \A j \in DOMAIN down : down[j] \in Replies => down[j].by # up[i].by
    BY DEF CommandsAreCalled
  <2>2. up[i].by \in Callers /\ (up[i].by # None /\ f \in Replies => f.by # up[i].by)
    BY <1>1, <2>1, FramesAreTyped
  <2>3. Called(up[i])'
    BY <1>2, <1>12, <2>1, <2>2 DEF Called, Callers
  <2>4. up[i].by # None => \A j \in DOMAIN down' : down'[j] \in Replies => down'[j].by # up[i].by
    BY <1>1, <2>1
  <2> QED
    BY <2>1, <2>3, <2>4
<1>14. RepliesAreTrue'
  <2> SUFFICES ASSUME NEW i \in DOMAIN down', down'[i] \in Replies, down'[i].by # None
               PROVE  /\ answer'[down'[i].by] = "sent"
                      /\ down'[i].ok /\ pc[down'[i].by] = "enabling" => IsOn(down[i].by)'
                      /\ \A j \in DOMAIN down' : down'[j] \in Replies /\ down'[j].by = down'[i].by => j = i
    BY <1>2 DEF RepliesAreTrue
  <2> DEFINE d == down[i + 1]
  <2>1. down'[i] = d /\ i + 1 \in DOMAIN down /\ i + 1 # 1 /\ d \in Replies /\ d.by \in Callers /\ i \in Nat
    BY <1>1, FramesAreTyped
  <2>2. /\ answer[d.by] = "sent"
        /\ d.ok /\ pc[d.by] = "enabling" => IsOn(d.by)
        /\ \A j \in DOMAIN down : down[j] \in Replies /\ down[j].by = d.by => j = i + 1
    BY <2>1 DEF RepliesAreTrue
  <2>3. f \in Replies => f.by # d.by
    BY <1>1, <2>1, <2>2
  <2> HIDE DEF d
  <2>4. \A j \in DOMAIN down' : down'[j] \in Replies /\ down'[j].by = down'[i].by => j = i
    BY <1>1, <2>1, <2>2
  <2>5. answer'[down'[i].by] = "sent"
    BY <1>12, <2>1, <2>2, <2>3 DEF Callers
  <2>6. down'[i].ok /\ pc[down'[i].by] = "enabling" => IsOn(down[i].by)'
    BY <1>2, <2>1, <2>2 DEF IsOn
  <2> QED
    BY <2>4, <2>5, <2>6
<1>15. AnswersAreTrue'
  BY <1>2, <1>4, <1>5 DEF AnswersAreTrue, IsOn
<1>16. EnabledIsOn'
  BY <1>2 DEF EnabledIsOn
<1> QED
  BY <1>6, <1>7, <1>9, <1>10, <1>11, <1>13, <1>14, <1>15, <1>16

\* The connection ends: nothing is in flight, and the session is not attached.
LEMMA CloseKeepsIInv ==
  ASSUME IInv, Close
  PROVE  IInv'
<1> USE DEF IInv, Close
<1>1. TypeOK'
  BY DEF TypeOK, streamVars
<1>2. FramesOK'
  BY EmptySeq DEF FramesOK, streamVars
<1>3. ReceiversOK' /\ Delivered'
  BY ReceiversStay
<1>4. WantsOK'
  BY DEF WantsOK
<1>5. CommandsAreCalled' /\ RepliesAreTrue'
  BY DEF CommandsAreCalled, RepliesAreTrue
<1>6. AnswersAreTrue' /\ EnabledIsOn'
  BY DEF AnswersAreTrue, EnabledIsOn, IsOn
<1> QED
  BY <1>1, <1>2, <1>3, <1>4, <1>5, <1>6

-----------------------------------------------------------------------------
\* The invariant holds at first and at every step.
THEOREM Inductive == Spec => []IInv
<1>1. Init => IInv
  <2> SUFFICES ASSUME Init PROVE IInv
    OBVIOUS
  <2> USE DEF Init
  <2>1. TypeOK
    BY EmptySeq DEF TypeOK, Waiting
  <2>2. FramesOK
    BY EmptySeq DEF FramesOK
  <2>3. ReceiversOK /\ WantsOK /\ Delivered
    BY DEF ReceiversOK, WantsOK, Delivered
  <2>4. CommandsAreCalled /\ RepliesAreTrue /\ AnswersAreTrue /\ EnabledIsOn
    BY DEF CommandsAreCalled, RepliesAreTrue, AnswersAreTrue, EnabledIsOn
  <2> QED
    BY <2>1, <2>2, <2>3, <2>4 DEF IInv
<1>2. IInv /\ [Next]_vars => IInv'
  <2> SUFFICES ASSUME IInv, [Next]_vars PROVE IInv'
    OBVIOUS
  <2>1. CASE Environment
    BY <2>1, ExecuteKeepsIInv, DispatchKeepsIInv, CloseKeepsIInv, EmitKeepsIInv DEF Environment
  <2>2. ASSUME NEW t \in Tasks, Task(t) PROVE IInv'
    <3>1. CASE \E d \in Domains : Subscribe(t, d)
      BY <3>1, SubscribeKeepsIInv
    <3>2. CASE Open(t) \/ \E all \in {AllOfSession, AllOfConnection} : SubscribeRaw(t, all)
      BY <3>2, ReceiverKeepsIInv
    <3>3. CASE (\E d \in Enables : Disable(t, d)) \/ Detach(t)
      BY <3>3, CommandKeepsIInv
    <3>4. CASE Acquire(t)
      BY <3>4, AcquireKeepsIInv
    <3>5. CASE EnableOk(t) \/ EnableErr(t)
      BY <3>5, EnabledKeepsIInv
    <3>6. CASE Cancel(t)
      BY <3>6, CancelKeepsIInv
    <3>7. CASE Return(t)
      BY <3>7, ReturnKeepsIInv
    <3>8. CASE DropHandle(t) \/ DropStream(t) \/ PollEnd(t)
      BY <3>8, DropKeepsIInv
    <3>9. CASE Poll(t)
      BY <3>9, PollKeepsIInv
    <3> QED
      BY <2>2, <3>1, <3>2, <3>3, <3>4, <3>5, <3>6, <3>7, <3>8, <3>9 DEF Task
  <2>3. CASE UNCHANGED vars
    <3> USE <2>3 DEF vars, callVars, streamVars, remoteVars, IInv
    <3>1. TypeOK' /\ FramesOK' /\ WantsOK'
      BY DEF TypeOK, FramesOK, WantsOK
    <3>2. ReceiversOK' /\ Delivered'
      BY ReceiversStay
    <3>3. CommandsAreCalled' /\ RepliesAreTrue' /\ AnswersAreTrue'
      BY CallersStay
    <3>4. EnabledIsOn'
      BY DEF EnabledIsOn
    <3> QED
      BY <3>1, <3>2, <3>3, <3>4
  <2> QED
    BY <2>1, <2>2, <2>3 DEF Next
<1> QED
  BY <1>1, <1>2, PTL DEF Spec

\* An event that a stream filters for, broadcast since its receiver was made
\* and already passed by, was yielded unless Capacity newer ones had pushed it
\* out of the ring, and nothing else is ever yielded (EventStream::poll_next).
THEOREM DeliveredAlways == Spec => []Delivered
<1>1. IInv => Delivered
  BY DEF IInv
<1> QED
  BY <1>1, Inductive, PTL

\* While its session is attached, the browser has a typed stream's domain
\* enabled, unless the program disabled it (CdpSession::subscribe).
THEOREM StreamsAreNotDeaf == Spec => []StreamsAreEnabled
<1>1. IInv => StreamsAreEnabled
  BY DEF IInv, StreamsAreEnabled, StreamIsEnabled, WantsOK, EnabledIsOn
<1> QED
  BY <1>1, Inductive, PTL
=============================================================================
