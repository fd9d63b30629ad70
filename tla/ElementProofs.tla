---------------------------- MODULE ElementProofs ----------------------------
(***************************************************************************)
(* Proofs about finding elements and keeping them.  ElementQuery, for any  *)
(* page, any number of branches and any filters: what a query answers with *)
(* was true of the page in its last poll, and it does not give up before   *)
(* its timeout.  ElementResolver (whose names say Resolver where           *)
(* ElementQuery has the same one), for any number of tasks, nodes and      *)
(* cells: what an invalidate() has discarded is not returned by later      *)
(* calls, and resolve_present() returns what was there.                    *)
(***************************************************************************)
EXTENDS ElementQuery, ElementResolver, SequenceTheorems, FiniteSetTheorems, WellFoundedInduction, TLAPS

-----------------------------------------------------------------------------
(* Queries and waiters *)

\* An element passed the first f filters of branch b, at moments of this poll.
PassedUpTo(b, e, f) == \A g \in 1..f : WasPassed(query.filters[b][g], e)

\* What AnswerWasTrue says of an element that is answered with.
WasFound(e) == \E b \in DOMAIN query.filters :
                  /\ Waiter \/ (e \in Selects[b] /\ WasThere(e))
                  /\ PassedUpTo(b, e, Len(query.filters[b]))

\* What GoneWasGone says of an element of branch b.
WasGone(b, e) == \/ WasAway(e) \/ e \in excused
                 \/ \E f \in DOMAIN query.filters[b] : WasFailed(query.filters[b][f], e)

\* A filter's work is done when it is left.
FilteredIsDone == pc = "filtered" => todo = {}

\* The history of a poll has the page as it is.
HistoryHasPage == pc # "start" => Page \in pages

\* A filter that is half way through has been told so much about the element.
HalfIsSo == /\ pc \notin {"filter", "error"} => half = {} /\ part = 0
            /\ half = {} => part = 0
            /\ pc = "filter" => /\ part = 0 \/ part < Len(Current.of)
                                /\ \A e \in half : \A i \in 1..part : WasSo(Current, e, i)

\* What is found, and what is about to be, matched and passed.
FoundPassed == \A e \in found : WasFound(e)

KeptPassed ==
    pc \in {"filter", "filtered"} =>
        /\ \A e \in todo \cup kept : Waiter \/ (e \in Selects[branch] /\ WasThere(e))
        /\ \A e \in kept : PassedUpTo(branch, e, filter)
        /\ \A e \in todo : PassedUpTo(branch, e, filter - 1)

\* Whatever is neither found nor still looked at was gone: of the branches
\* before this one, of this one, and of all when the poll is over.
MissedWasGone ==
    OnMiss /\ found = {} =>
        /\ pc \in {"find", "filter", "filtered"} =>
             \A b \in 1..(branch - 1) : \A e \in Selects[b] : WasGone(b, e)
        /\ pc \in {"filter", "filtered"} =>
             \A e \in Selects[branch] : WasGone(branch, e) \/ e \in todo \cup kept
        /\ pc \in {"decide", "done"} => \A b \in Branches : \A e \in Selects[b] : WasGone(b, e)

\* A filter is being applied in "filter" only; a waiter looks nothing up.
FilterIsOne == (pc = "filter" => filter \in 1..Count) /\ (pc = "find" => ~Waiter)

IInv == /\ TypeOK
        /\ FilteredIsDone
        /\ FilterIsOne
        /\ HistoryHasPage
        /\ HalfIsSo
        /\ FoundPassed
        /\ KeptPassed
        /\ MissedWasGone
        /\ NotEarly

-----------------------------------------------------------------------------
(***************************************************************************)
(* The operators.                                                          *)
(***************************************************************************)

\* A branch is known by its number.
LEMMA BranchesAreNumbers ==
    /\ Len(Selects) \in Nat \ {0}
    /\ Branches = 1..Len(Selects)
    /\ \A b \in Branches : Selects[b] \in SUBSET Elements
<1>1. Selects \in Seq(SUBSET Elements) /\ Selects # <<>>
  BY QueryAssumption
<1>2. Len(Selects) \in Nat /\ DOMAIN Selects = 1..Len(Selects)
  BY <1>1, LenProperties
<1>3. Len(Selects) # 0
  BY <1>1, EmptySeq
<1>4. \A b \in 1..Len(Selects) : Selects[b] \in SUBSET Elements
  BY <1>1, ElementOfSeq
<1> QED
  BY <1>2, <1>3, <1>4 DEF Branches

AllFilters == Filters \cup Waits \cup NamedWaits \cup CssWaits

\* So many parts, one after the other, are a sequence.
LEMMA FewAreSeq ==
    ASSUME NEW n \in Nat, NEW s \in [1..n -> Parts]
    PROVE  s \in Seq(Parts) /\ Len(s) = n /\ (s = <<>> => n = 0)
<1>1. \E m \in Nat : s \in [1..m -> Parts]
  OBVIOUS
<1>2. s \in UNION {[1..m -> Parts] : m \in Nat}
  BY <1>1, Zenon
<1>3. s \in Seq(Parts)
  BY <1>2, SeqDef, Zenon
<1>4. Len(s) = n
  BY <1>3, LenProperties
<1> QED
  BY <1>3, <1>4, EmptySeq

\* A filter asks for a number of parts; the negated ones for one at least.
LEMMA FilterShape ==
    ASSUME NEW p \in AllFilters
    PROVE  /\ Len(p.of) \in Nat /\ DOMAIN p.of = 1..Len(p.of)
           /\ p.of = <<>> <=> Len(p.of) = 0
           /\ Negated(p) => ~Silent(p) /\ p.kind # "stale"
<1>1. CASE p \in StateFilters
  <2>1. p.of \in One \/ p.of \in Two
    BY <1>1 DEF StateFilters
  <2>2. p.of \in Seq(Parts) /\ p.of # <<>>
    <3>1. CASE p.of \in One
      <4>1. p.of \in [1..1 -> Parts] /\ 1 \in Nat
        BY <3>1 DEF One
      <4>2. p.of \in Seq(Parts) /\ (p.of = <<>> => 1 = 0)
        BY <4>1, FewAreSeq, Zenon
      <4> QED
        BY <4>2
    <3>2. CASE p.of \in Two
      <4>1. p.of \in [1..2 -> Parts] /\ 2 \in Nat
        BY <3>2 DEF Two
      <4>2. p.of \in Seq(Parts) /\ (p.of = <<>> => 2 = 0)
        BY <4>1, FewAreSeq, Zenon
      <4> QED
        BY <4>2
    <3> QED
      BY <2>1, <3>1, <3>2
  <2>3. p.kind = "state"
    BY <1>1 DEF StateFilters
  <2> QED
    BY <2>2, <2>3, LenProperties, EmptySeq DEF Negated, Silent
<1>2. CASE p \notin StateFilters
  <2>1. p.of \in Seq(Parts) /\ p.kind # "state"
    <3>1. CASE p \in TextFilters
      BY <3>1, FewAreSeq DEF TextFilters, One
    <3>2. CASE p \in NamedFilters \cup CssFilters
      BY <3>2 DEF NamedFilters, CssFilters
    <3>3. CASE p \in [kind : {"stale"}, not : {FALSE}, of : {<<>>}]
      BY <3>3, EmptySeq
    <3> QED
      BY <1>2, <3>1, <3>2, <3>3 DEF AllFilters, Filters, Waits, NamedWaits, CssWaits
  <2> QED
    BY <2>1, LenProperties, EmptySeq DEF Negated
<1> QED
  BY <1>1, <1>2

\* A query has a list of filters for each branch, and a waiter only one.
LEMMA QueryShape ==
    ASSUME query \in Queries
    PROVE  /\ Waiter => DOMAIN query.filters = {1}
           /\ ~Waiter => DOMAIN query.filters = Branches
           /\ \A b \in DOMAIN query.filters :
                 /\ Len(query.filters[b]) \in Nat
                 /\ DOMAIN query.filters[b] = 1..Len(query.filters[b])
                 /\ \A f \in DOMAIN query.filters[b] :
                       /\ query.filters[b][f] \in AllFilters
                       /\ ~Waiter => query.filters[b][f].kind # "stale"
<1>1. CASE query \in Query(Modes \ {"wait"}, [Branches -> FilterLists])
  <2>1. ~Waiter /\ query.filters \in [Branches -> FilterLists]
    BY <1>1 DEF Query, Waiter
  <2>2. ASSUME NEW b \in Branches
        PROVE  /\ Len(query.filters[b]) \in Nat
               /\ DOMAIN query.filters[b] = 1..Len(query.filters[b])
               /\ \A f \in DOMAIN query.filters[b] : query.filters[b][f] \in Filters
    <3>1. query.filters[b] \in Seq(Filters)
      BY <2>1, QueryAssumption
    <3> QED
      BY <3>1, LenProperties, ElementOfSeq
  <2>3. \A p \in Filters : p \in AllFilters /\ p.kind # "stale"
    BY DEF AllFilters, Filters, StateFilters, TextFilters, NamedFilters, CssFilters
  <2> QED
    BY <2>1, <2>2, <2>3
<1>2. CASE query \in Query(Modes \cap {"wait"}, {<<c>> : c \in ConditionLists})
  <2>1. Waiter
    BY <1>2 DEF Query, Waiter
  <2>2. PICK c \in ConditionLists : query.filters = <<c>>
    BY <1>2 DEF Query
  <2>3. c \in Seq(Waits \cup NamedWaits \cup CssWaits)
    BY QueryAssumption
  <2>4. Len(c) \in Nat /\ DOMAIN c = 1..Len(c) /\ \A f \in DOMAIN c : c[f] \in Waits \cup NamedWaits \cup CssWaits
    BY <2>3, LenProperties, ElementOfSeq
  <2>5. DOMAIN query.filters = {1} /\ query.filters[1] = c
    BY <2>2
  <2> QED
    BY <2>1, <2>4, <2>5 DEF AllFilters
<1> QED
  BY <1>1, <1>2 DEF Queries

\* The filter that is being applied is one of the branch's.
LEMMA CurrentShape ==
    ASSUME TypeOK, pc = "filter", FilterIsOne
    PROVE  /\ Count \in Nat /\ filter \in 1..Count /\ filter \in DOMAIN query.filters[branch]
           /\ Current = query.filters[branch][filter] /\ Current \in AllFilters
           /\ ~Waiter => Current.kind # "stale"
<1> QED
  BY QueryShape DEF TypeOK, FilterIsOne, Count, Current

\* What a command's answer settles is true of some moments of this poll.
LEMMA VerdictIsTrue ==
    ASSUME TypeOK, HistoryHasPage, HalfIsSo, FilterIsOne, pc = "filter", NEW e \in Turn
    PROVE  /\ Verdict(Current, e) = "more" => /\ part + 1 < Len(Current.of)
                                              /\ \A i \in 1..(part + 1) : WasSo(Current, e, i)
           /\ Verdict(Current, e) = "yes" => WasPassed(Current, e)
           /\ Verdict(Current, e) = "no" /\ ~Waiter => WasAway(e) \/ WasFailed(Current, e)
<1> DEFINE p == Current
           i == part + 1
           so == Says(p, value[e][p.of[i]])
<1>1. p \in AllFilters /\ (~Waiter => p.kind # "stale")
  BY CurrentShape
<1>2. /\ Len(p.of) \in Nat /\ DOMAIN p.of = 1..Len(p.of)
      /\ p.of = <<>> <=> Len(p.of) = 0
      /\ Negated(p) => ~Silent(p) /\ p.kind # "stale"
  BY <1>1, FilterShape
<1>3. Page \in pages /\ Page.attached = attached /\ Page.value = value
  BY DEF HistoryHasPage, Page
<1>4. part \in Nat /\ (part = 0 \/ part < Len(p.of))
  BY DEF TypeOK, HalfIsSo
<1>5. \A j \in 1..part : WasSo(p, e, j)
  BY DEF HalfIsSo, Turn
<1>6. e \notin attached => WasAway(e)
  BY <1>3 DEF WasAway
<1>7. CASE Silent(p)
  BY <1>2, <1>7 DEF Verdict, Silent, WasPassed
<1>8. CASE p.kind = "stale"
  <2> HIDE DEF p
  <2>1. Verdict(p, e) = IF e \in attached THEN "no" ELSE "yes"
    BY <1>8 DEF Verdict, Silent
  <2>2. /\ Verdict(p, e) # "more" /\ (Verdict(p, e) = "yes" => WasPassed(p, e))
        /\ Verdict(p, e) = "no" => Waiter
    BY <1>1, <1>2, <1>6, <1>8, <2>1 DEF WasPassed
  <2> QED
    BY <2>2 DEF p
<1>9. CASE ~Silent(p) /\ p.kind # "stale"
  <2>1. i \in DOMAIN p.of
    BY <1>2, <1>4, <1>9 DEF Silent
  <2>2. CASE e \notin attached
    BY <1>6, <1>9, <2>2 DEF Verdict
  <2>3. CASE e \in attached /\ ~so
    <3>1. WasNotSo(p, e, i)
      BY <1>3, <2>3 DEF WasNotSo
    <3>2. (Negated(p) => WasPassed(p, e)) /\ (~Negated(p) => WasFailed(p, e))
      BY <1>9, <2>1, <3>1 DEF WasPassed, WasFailed
    <3> QED
      BY <1>9, <2>3, <3>2 DEF Verdict
  <2>4. CASE e \in attached /\ so
    <3>1. WasSo(p, e, i)
      BY <1>3, <2>4 DEF WasSo
    <3>2. \A j \in 1..i : WasSo(p, e, j)
      BY <1>4, <1>5, <3>1
    <3>3. i >= Len(p.of) => \A j \in DOMAIN p.of : WasSo(p, e, j)
      BY <1>2, <1>4, <3>2
    <3>4. i >= Len(p.of) => (Negated(p) => WasFailed(p, e)) /\ (~Negated(p) => WasPassed(p, e))
      BY <1>9, <3>3 DEF WasPassed, WasFailed
    <3> HIDE DEF p
    <3>5. Verdict(p, e) = IF i < Len(p.of) THEN "more" ELSE IF Negated(p) THEN "no" ELSE "yes"
      BY <1>9, <2>4 DEF Verdict
    <3>6. CASE i < Len(p.of)
      BY <3>2, <3>5, <3>6 DEF p
    <3>7. CASE i >= Len(p.of)
      <4>1. Verdict(p, e) = IF Negated(p) THEN "no" ELSE "yes"
        BY <1>2, <1>4, <3>5, <3>7
      <4> QED
        BY <3>4, <3>7, <4>1 DEF p
    <3> QED
      BY <1>2, <1>4, <3>6, <3>7
  <2> QED
    BY <2>2, <2>3, <2>4
<1> QED
  BY <1>7, <1>8, <1>9

\* While the poll goes on nothing is taken from its history.
Grows == query' = query /\ pages \subseteq pages' /\ excused \subseteq excused'

LEMMA HistoryGrows ==
    ASSUME Grows
    PROVE  /\ \A e : WasThere(e) => WasThere(e)'
           /\ \A p, e, i : WasSo(p, e, i) => WasSo(p, e, i)'
           /\ \A b, e, f : PassedUpTo(b, e, f) => PassedUpTo(b, e, f)'
           /\ \A e : WasFound(e) => WasFound(e)'
           /\ \A b, e : WasGone(b, e) => WasGone(b, e)'
<1>1. query' = query /\ pages \subseteq pages' /\ excused \subseteq excused' /\ Waiter' = Waiter
  BY DEF Grows, Waiter
<1>2. \A e : (WasThere(e) => WasThere(e)') /\ (WasAway(e) => WasAway(e)')
  BY <1>1 DEF WasThere, WasAway
<1>3. \A p, e, i : (WasSo(p, e, i) => WasSo(p, e, i)') /\ (WasNotSo(p, e, i) => WasNotSo(p, e, i)')
  BY <1>1 DEF WasSo, WasNotSo, Says, StateSays, TextSays, NamedSays, CssSays
<1>4. \A p, e : (WasPassed(p, e) => WasPassed(p, e)') /\ (WasFailed(p, e) => WasFailed(p, e)')
  BY <1>2, <1>3 DEF WasPassed, WasFailed, Negated
<1>5. \A b, e, f : PassedUpTo(b, e, f) => PassedUpTo(b, e, f)'
  BY <1>1, <1>4 DEF PassedUpTo
<1>6. \A e : WasFound(e) => WasFound(e)'
  BY <1>1, <1>2, <1>5 DEF WasFound
<1>7. \A b, e : WasGone(b, e) => WasGone(b, e)'
  BY <1>1, <1>2, <1>4 DEF WasGone
<1> QED
  BY <1>2, <1>3, <1>5, <1>6, <1>7

\* Steps that leave the page, the query and the history alone.
Quiet == UNCHANGED <<page, query, history>>

LEMMA QuietGrows ==
    ASSUME Quiet
    PROVE  /\ Grows /\ query' = query /\ attached' = attached /\ value' = value /\ changes' = changes
           /\ pages' = pages /\ excused' = excused /\ Waiter' = Waiter /\ OnMiss' = OnMiss
           /\ HistoryHasPage /\ (pc' # "start" => pc # "start") => HistoryHasPage'
<1> QED
  BY DEF Quiet, page, history, Grows, Waiter, OnMiss, HistoryHasPage, Page

\* tries and the next time to wake are numbers.
LEMMA TickIsNat ==
    ASSUME TypeOK
    PROVE  tries + 1 \in Nat /\ Interval * (tries + 1) \in Nat
<1> DEFINE k == tries + 1
<1>1. k \in Nat /\ Interval \in Nat
  BY QueryAssumption DEF TypeOK
<1> HIDE DEF k
<1>2. Interval * k \in Nat
  BY <1>1
<1> QED
  BY <1>1, <1>2 DEF k

-----------------------------------------------------------------------------
(***************************************************************************)
(* Each action preserves the invariant.                                    *)
(***************************************************************************)

\* The page changes: the history takes the new page in.
LEMMA ChangeKeepsIInv ==
    ASSUME IInv, Change
    PROVE  IInv'
<1> USE DEF IInv, Change, inner
<1>1. Grows /\ query' = query /\ Page' \in pages' /\ excused' = excused
  BY DEF Grows
<1>2. /\ pc' = pc /\ branch' = branch /\ filter' = filter /\ todo' = todo /\ half' = half
      /\ part' = part /\ kept' = kept /\ found' = found /\ tries' = tries /\ wake' = wake /\ now' = now
  OBVIOUS
<1>3. Count' = Count /\ Current' = Current /\ Waiter' = Waiter /\ OnMiss' = OnMiss
  BY <1>1, <1>2 DEF Count, Current, Waiter, OnMiss
<1>4. TypeOK'
  <2>1. attached' \in SUBSET Elements /\ value' \in [Elements -> Looks]
    BY DEF TypeOK
  <2>2. pages' \subseteq [attached : SUBSET Elements, value : [Elements -> Looks]]
    BY <2>1 DEF TypeOK, Page
  <2>3. changes' \in 0..MaxChanges
    BY QueryAssumption DEF TypeOK
  <2> QED
    BY <1>1, <1>2, <1>3, <2>1, <2>2, <2>3 DEF TypeOK
<1>5. HistoryHasPage'
  BY <1>1 DEF HistoryHasPage
<1>6. HalfIsSo'
  BY <1>1, <1>2, <1>3, HistoryGrows DEF HalfIsSo
<1>7. FoundPassed'
  BY <1>1, <1>2, HistoryGrows DEF FoundPassed
<1>8. KeptPassed'
  BY <1>1, <1>2, <1>3, HistoryGrows DEF KeptPassed
<1>9. MissedWasGone'
  BY <1>1, <1>2, <1>3, HistoryGrows DEF MissedWasGone
<1>10. FilteredIsDone' /\ FilterIsOne' /\ NotEarly'
  BY <1>1, <1>2, <1>3 DEF FilteredIsDone, FilterIsOne, NotEarly, Answered
<1> QED
  BY <1>4, <1>5, <1>6, <1>7, <1>8, <1>9, <1>10

\* Time passes.
LEMMA AdvanceKeepsIInv ==
    ASSUME IInv, Advance
    PROVE  IInv'
<1> USE DEF IInv, Advance, inner
<1>1. Quiet
  BY DEF Quiet
<1>2. /\ pc' = pc /\ branch' = branch /\ filter' = filter /\ todo' = todo /\ half' = half
      /\ part' = part /\ kept' = kept /\ found' = found /\ tries' = tries /\ wake' = wake
  OBVIOUS
<1>3. Count' = Count /\ Current' = Current
  BY <1>1, <1>2, QuietGrows DEF Count, Current
<1>4. TypeOK'
  BY <1>1, <1>2, <1>3, QuietGrows, QueryAssumption DEF TypeOK
<1>5. HistoryHasPage'
  BY <1>1, <1>2, QuietGrows
<1>6. HalfIsSo' /\ FoundPassed'
  BY <1>1, <1>2, <1>3, QuietGrows, HistoryGrows DEF HalfIsSo, FoundPassed
<1>7. KeptPassed' /\ MissedWasGone'
  BY <1>1, <1>2, <1>3, QuietGrows, HistoryGrows DEF KeptPassed, MissedWasGone
<1>8. FilteredIsDone' /\ FilterIsOne' /\ NotEarly'
  BY <1>1, <1>2, <1>3, QuietGrows DEF FilteredIsDone, FilterIsOne, NotEarly, Answered
<1> QED
  BY <1>4, <1>5, <1>6, <1>7, <1>8

\* A poll begins: the history begins anew, with the page as it is.
LEMMA BeginPollKeepsIInv ==
    ASSUME IInv, BeginPoll, UNCHANGED <<page, now, query, tries, wake>>
    PROVE  IInv'
<1> USE DEF IInv, BeginPoll
<1>1. query' = query /\ attached' = attached /\ value' = value /\ changes' = changes /\ now' = now
      /\ tries' = tries /\ wake' = wake
  BY DEF page
<1>2. 1 \in DOMAIN query.filters /\ 1 \in DOMAIN query'.filters /\ Len(query.filters[1]) \in Nat
  BY <1>1, QueryShape, BranchesAreNumbers DEF TypeOK
<1>3. Count' = Len(query.filters[1])
  BY <1>1 DEF Count
<1>4. HasConditions => filter' \in 1..Count' /\ Waiter
  <2>1. HasConditions => Len(query.filters[1]) # 0
    <3>1. query.filters[1] \in Seq(AllFilters)
      <4>1. CASE query \in Query(Modes \ {"wait"}, [Branches -> FilterLists])
        <5>1. query.filters[1] \in Seq(Filters)
          BY <4>1, QueryAssumption, BranchesAreNumbers DEF Query
        <5>2. Filters \subseteq AllFilters
          BY DEF AllFilters
        <5> QED
          BY <5>1, <5>2, SeqMonotonic
      <4>2. CASE query \in Query(Modes \cap {"wait"}, {<<c>> : c \in ConditionLists})
        <5>1. query.filters[1] \in Seq(Waits \cup NamedWaits \cup CssWaits)
          BY <4>2, QueryAssumption DEF Query
        <5>2. Waits \cup NamedWaits \cup CssWaits \subseteq AllFilters
          BY DEF AllFilters
        <5> QED
          BY <5>1, <5>2, SeqMonotonic
      <4> QED
        BY <4>1, <4>2 DEF TypeOK, Queries
    <3> QED
      BY <3>1, EmptySeq DEF HasConditions
  <2> QED
    BY <1>2, <1>3, <2>1 DEF HasConditions
<1>5. pc' \in {"find", "filter", "decide"} /\ pc' # "filtered" /\ (pc' = "filter" <=> HasConditions)
  OBVIOUS
<1>6. (pc' = "find" => ~Waiter) /\ (pc' # "find" => Waiter) /\ Waiter' = Waiter /\ OnMiss' = OnMiss
  BY <1>1 DEF HasConditions, Waiter, OnMiss
<1>7. TypeOK'
  <2>1. branch' \in DOMAIN query'.filters
    BY <1>2
  <2>2. filter' \in 0..Count' /\ todo' \subseteq Elements /\ kept' = {} /\ found' = {} /\ half' = {} /\ part' = 0
    BY <1>2, <1>3, <1>4, QueryAssumption
  <2>3. pages' \subseteq [attached : SUBSET Elements, value : [Elements -> Looks]] /\ excused' = {}
    BY DEF TypeOK, Page
  <2> QED
    BY <1>1, <1>5, <2>1, <2>2, <2>3 DEF TypeOK
<1>8. HistoryHasPage'
  BY <1>1 DEF HistoryHasPage, Page
<1>9. HalfIsSo' /\ FoundPassed'
  BY DEF HalfIsSo, FoundPassed
<1>10. KeptPassed'
  <2>1. pc' = "filter" => Waiter' /\ kept' = {} /\ filter' - 1 = 0
    BY <1>5, <1>6 DEF HasConditions
  <2>2. \A e : PassedUpTo(branch, e, 0)'
    BY DEF PassedUpTo
  <2> QED
    BY <1>5, <2>1, <2>2 DEF KeptPassed
<1>11. MissedWasGone'
  <2>1. OnMiss' => pc' = "find"
    BY <1>6 DEF OnMiss, Waiter
  <2>2. 1..(branch' - 1) = {}
    OBVIOUS
  <2> QED
    BY <2>1, <2>2 DEF MissedWasGone
<1>12. FilteredIsDone' /\ FilterIsOne' /\ NotEarly'
  BY <1>4, <1>5, <1>6 DEF FilteredIsDone, FilterIsOne, NotEarly, Answered
<1> QED
  BY <1>7, <1>8, <1>9, <1>10, <1>11, <1>12

\* The branch's elements are looked up: who is not found is away.
LEMMA FindKeepsIInv ==
    ASSUME IInv, Find
    PROVE  IInv'
<1> USE DEF IInv, Find
<1>1. Quiet
  BY DEF Quiet
<1>2. Count' = Count /\ Count \in Nat /\ branch \in Branches
  BY <1>1, QuietGrows, QueryShape DEF TypeOK, Count, FilterIsOne
<1>3. Selects[branch] \in SUBSET Elements
  BY <1>2, BranchesAreNumbers
<1>4. Page \in pages /\ Page.attached = attached
  BY DEF HistoryHasPage, Page
<1>5. TypeOK'
  BY <1>1, <1>2, <1>3, QuietGrows DEF TypeOK, HalfIsSo
<1>6. HistoryHasPage'
  BY <1>1, QuietGrows
<1>7. HalfIsSo'
  BY DEF HalfIsSo
<1>8. FoundPassed'
  BY <1>1, QuietGrows, HistoryGrows DEF FoundPassed
<1>9. KeptPassed'
  <2>1. \A e \in kept' : e \in Selects[branch'] /\ WasThere(e)
    BY <1>4 DEF WasThere
  <2>2. \A e : PassedUpTo(branch, e, 0)'
    BY DEF PassedUpTo
  <2> QED
    BY <1>1, <2>1, <2>2, QuietGrows, HistoryGrows DEF KeptPassed
<1>10. MissedWasGone'
  <2>1. \A e \in Selects[branch] : e \notin kept' => WasGone(branch, e)
    BY <1>4 DEF WasGone, WasAway
  <2> QED
    BY <1>1, <2>1, QuietGrows, HistoryGrows DEF MissedWasGone
<1>11. FilteredIsDone' /\ FilterIsOne' /\ NotEarly'
  BY <1>1 DEF FilteredIsDone, FilterIsOne, NotEarly, Answered
<1> QED
  BY <1>5, <1>6, <1>7, <1>8, <1>9, <1>10, <1>11

\* The next filter begins with what the last one kept.
LEMMA NextFilterKeepsIInv ==
    ASSUME IInv, NextFilter
    PROVE  IInv'
<1> USE DEF IInv, NextFilter
<1>1. Quiet
  BY DEF Quiet
<1>2. Count' = Count /\ Count \in Nat /\ filter \in 0..Count
  BY <1>1, QuietGrows, QueryShape DEF TypeOK, Count
<1>3. TypeOK'
  BY <1>1, <1>2, QuietGrows DEF TypeOK, HalfIsSo
<1>4. HistoryHasPage'
  BY <1>1, QuietGrows
<1>5. HalfIsSo'
  BY DEF HalfIsSo
<1>6. FoundPassed'
  BY <1>1, QuietGrows, HistoryGrows DEF FoundPassed
<1>7. KeptPassed'
  <2>1. filter' - 1 = filter
    BY <1>2
  <2> QED
    BY <1>1, <2>1, QuietGrows, HistoryGrows DEF KeptPassed
<1>8. MissedWasGone'
  BY <1>1, QuietGrows, HistoryGrows DEF MissedWasGone, FilteredIsDone
<1>9. FilteredIsDone' /\ FilterIsOne' /\ NotEarly'
  BY <1>1, <1>2 DEF FilteredIsDone, FilterIsOne, NotEarly, Answered
<1> QED
  BY <1>3, <1>4, <1>5, <1>6, <1>7, <1>8, <1>9

\* A command is answered and there are more to come: so far the element is so.
LEMMA AskOnKeepsIInv ==
    ASSUME IInv, AskOn
    PROVE  IInv'
<1> USE DEF IInv, AskOn
<1>1. Quiet
  BY DEF Quiet
<1>2. PICK e \in Turn : Verdict(Current, e) = "more" /\ half' = {e}
  OBVIOUS
<1>3. part + 1 < Len(Current.of) /\ \A i \in 1..(part + 1) : WasSo(Current, e, i)
  BY <1>2, VerdictIsTrue
<1>4. Count' = Count /\ Current' = Current
  BY <1>1, QuietGrows DEF Count, Current
<1>5. e \in todo /\ part' = part + 1 /\ part \in Nat
  BY DEF Turn, TypeOK
<1>6. TypeOK'
  BY <1>1, <1>2, <1>4, <1>5, QuietGrows DEF TypeOK
<1>7. HistoryHasPage'
  BY <1>1, QuietGrows
<1>8. HalfIsSo'
  BY <1>1, <1>2, <1>3, <1>4, <1>5, QuietGrows, HistoryGrows DEF HalfIsSo
<1>9. FoundPassed'
  BY <1>1, QuietGrows, HistoryGrows DEF FoundPassed
<1>10. KeptPassed' /\ MissedWasGone'
  BY <1>1, QuietGrows, HistoryGrows DEF KeptPassed, MissedWasGone
<1>11. FilteredIsDone' /\ FilterIsOne' /\ NotEarly'
  BY <1>1, <1>4 DEF FilteredIsDone, FilterIsOne, NotEarly, Answered
<1> QED
  BY <1>6, <1>7, <1>8, <1>9, <1>10, <1>11

\* The filter is done with an element: who passes it was so, and who does not
\* was away, was not so, or is excused.
LEMMA SettleKeepsIInv ==
    ASSUME IInv, pc = "filter", NEW e \in Turn, NEW passes \in BOOLEAN, Settle(e, passes),
           excused \subseteq excused', excused' \subseteq Elements,
           passes => WasPassed(Current, e),
           ~passes /\ ~Waiter => WasAway(e) \/ WasFailed(Current, e) \/ e \in excused'
    PROVE  IInv'
<1> USE DEF IInv, Settle
<1>1. /\ query' = query /\ attached' = attached /\ value' = value /\ changes' = changes /\ pages' = pages
      /\ now' = now /\ branch' = branch /\ filter' = filter /\ found' = found /\ tries' = tries
      /\ wake' = wake
  BY DEF page
<1>2. /\ Grows /\ Waiter' = Waiter /\ OnMiss' = OnMiss /\ Count' = Count /\ Current' = Current
  BY <1>1 DEF Grows, Waiter, OnMiss, Count, Current
<1>3. /\ filter \in 1..Count /\ filter \in DOMAIN query.filters[branch] /\ Count \in Nat
      /\ Current = query.filters[branch][filter]
  BY CurrentShape
<1>4. e \in todo /\ e \in Elements
  BY DEF Turn, TypeOK
<1>5. kept \subseteq kept' /\ kept' \subseteq kept \cup {e} /\ (e \in kept' => passes) /\ (passes => e \in kept')
  BY <1>4 DEF TypeOK
<1>6. TypeOK'
  <2>1. todo' \subseteq Elements /\ kept' \subseteq Elements /\ todo' \cap kept' = {} /\ half' \subseteq todo'
    BY <1>4, <1>5 DEF TypeOK
  <2>2. pc' \in {"filtered", "filter"} /\ part' = 0
    OBVIOUS
  <2> QED
    BY <1>1, <1>2, <2>1, <2>2 DEF TypeOK
<1>7. HistoryHasPage'
  BY <1>1 DEF HistoryHasPage, Page
<1>8. HalfIsSo'
  BY DEF HalfIsSo
<1>9. FoundPassed'
  BY <1>1, <1>2, HistoryGrows DEF FoundPassed
<1>10. KeptPassed'
  <2>1. PassedUpTo(branch, e, filter - 1) /\ (Waiter \/ (e \in Selects[branch] /\ WasThere(e)))
    BY <1>4 DEF KeptPassed
  <2>2. passes => PassedUpTo(branch, e, filter)
    BY <1>3, <2>1 DEF PassedUpTo
  <2>3. \A d \in todo' \cup kept' : Waiter \/ (d \in Selects[branch] /\ WasThere(d))
    BY <1>4, <1>5, <2>1 DEF KeptPassed
  <2>4. \A d \in kept' : PassedUpTo(branch, d, filter)
    BY <1>5, <2>2 DEF KeptPassed
  <2>5. \A d \in todo' : PassedUpTo(branch, d, filter - 1)
    BY DEF KeptPassed
  <2> QED
    BY <1>1, <1>2, <2>3, <2>4, <2>5, HistoryGrows DEF KeptPassed
<1>11. MissedWasGone'
  <2>1. ~Waiter => e \in kept' \/ WasGone(branch, e)'
    <3>1. ~Waiter /\ ~passes => WasGone(branch, e) \/ e \in excused'
      BY <1>3 DEF WasGone
    <3>2. e \in excused' => WasGone(branch, e)'
      BY DEF WasGone
    <3> QED
      BY <1>2, <1>5, <3>1, <3>2, HistoryGrows
  <2>2. \A d \in todo \cup kept : d \in todo' \cup kept' \/ d = e
    BY <1>5
  <2>3. OnMiss => ~Waiter
    BY DEF OnMiss, Waiter
  <2>4. pc' \notin {"find", "decide", "done"}
    OBVIOUS
  <2> QED
    BY <1>1, <1>2, <2>1, <2>2, <2>3, <2>4, HistoryGrows DEF MissedWasGone
<1>12. FilteredIsDone' /\ FilterIsOne' /\ NotEarly'
  BY <1>2, <1>3, <1>1 DEF FilteredIsDone, FilterIsOne, NotEarly, Answered
<1> QED
  BY <1>6, <1>7, <1>8, <1>9, <1>10, <1>11, <1>12

LEMMA AskKeepsIInv ==
    ASSUME IInv, Ask \/ AskIgnored
    PROVE  IInv'
<1>1. CASE Ask
  <2>1. PICK e \in Turn : /\ Verdict(Current, e) \in {"yes", "no"}
                          /\ Settle(e, Verdict(Current, e) = "yes")
    BY <1>1 DEF Ask
  <2> DEFINE passes == Verdict(Current, e) = "yes"
  <2>2. /\ passes \in BOOLEAN /\ (passes => WasPassed(Current, e))
        /\ ~passes /\ ~Waiter => WasAway(e) \/ WasFailed(Current, e)
    BY <1>1, <2>1, VerdictIsTrue DEF Ask, IInv
  <2>3. Settle(e, passes)
    BY <2>1
  <2>4. excused' = excused /\ excused \subseteq Elements /\ pc = "filter"
    BY <1>1 DEF Ask, IInv, TypeOK
  <2> HIDE DEF passes
  <2> QED
    BY <2>2, <2>3, <2>4, SettleKeepsIInv
<1>2. CASE AskIgnored
  <2>1. PICK e \in Turn : Settle(e, FALSE) /\ excused' = excused \cup {e}
    BY <1>2 DEF AskIgnored
  <2>2. e \in Elements /\ pc = "filter" /\ excused \subseteq Elements
    BY <1>2 DEF AskIgnored, Turn, IInv, TypeOK
  <2> QED
    BY <2>1, <2>2, SettleKeepsIInv
<1> QED
  BY <1>1, <1>2

\* An error ends the query: it answers with nothing.
LEMMA ErrKeepsIInv ==
    ASSUME IInv, FindErr \/ AskErr
    PROVE  IInv'
<1> USE DEF IInv, FindErr, AskErr, inner
<1>1. Quiet
  BY DEF Quiet
<1>2. pc # "start" /\ pc' = "error"
  OBVIOUS
<1>3. /\ branch' = branch /\ filter' = filter /\ todo' = todo /\ half' = half
      /\ part' = part /\ kept' = kept /\ found' = found /\ tries' = tries /\ wake' = wake /\ now' = now
  OBVIOUS
<1>4. Count' = Count
  BY <1>1, <1>3, QuietGrows DEF Count
<1>5. TypeOK'
  BY <1>1, <1>2, <1>3, <1>4, QuietGrows DEF TypeOK
<1>6. HistoryHasPage'
  BY <1>1, <1>2, QuietGrows
<1>7. FoundPassed'
  BY <1>1, <1>3, QuietGrows, HistoryGrows DEF FoundPassed
<1>8. HalfIsSo'
  BY <1>2, <1>3 DEF HalfIsSo
<1>9. KeptPassed' /\ MissedWasGone' /\ FilteredIsDone' /\ FilterIsOne' /\ NotEarly'
  BY <1>2 DEF KeptPassed, MissedWasGone, FilteredIsDone, FilterIsOne, NotEarly, Answered
<1> QED
  BY <1>5, <1>6, <1>7, <1>8, <1>9

\* What a branch's last filter has kept has passed them all.
LEMMA KeptIsFound ==
    ASSUME IInv, Filtered, NEW e \in kept
    PROVE  WasFound(e)
<1>1. filter = Count /\ branch \in DOMAIN query.filters
  BY DEF IInv, TypeOK, Filtered
<1>2. (Waiter \/ (e \in Selects[branch] /\ WasThere(e))) /\ PassedUpTo(branch, e, Count)
  BY <1>1 DEF IInv, KeptPassed, Filtered
<1> QED
  BY <1>1, <1>2 DEF WasFound, Count

\* A query that stops at the first branch with matches answers with those.
LEMMA StopEarlyKeepsIInv ==
    ASSUME IInv, StopEarly
    PROVE  IInv'
<1> USE DEF IInv, StopEarly, inner
<1>1. Quiet
  BY DEF Quiet
<1>2. query.mode = "first" /\ ~Waiter /\ ~OnMiss /\ kept # {}
  BY DEF Short, Waiter, OnMiss
<1>3. /\ branch' = branch /\ filter' = filter /\ todo' = todo /\ half' = half /\ pc' = "done" /\ pc # "start"
      /\ part' = part /\ kept' = kept /\ found' = kept /\ tries' = tries /\ wake' = wake /\ now' = now
  BY DEF Filtered
<1>4. Count' = Count
  BY <1>1, <1>3, QuietGrows DEF Count
<1>5. TypeOK'
  BY <1>1, <1>3, <1>4, QuietGrows DEF TypeOK
<1>6. HistoryHasPage'
  BY <1>1, <1>3, QuietGrows
<1>7. FoundPassed'
  BY <1>1, <1>3, QuietGrows, HistoryGrows, KeptIsFound DEF FoundPassed
<1>8. HalfIsSo'
  BY <1>3 DEF HalfIsSo, Filtered
<1>9. KeptPassed' /\ FilteredIsDone' /\ FilterIsOne'
  BY <1>3 DEF KeptPassed, FilteredIsDone, FilterIsOne
<1>10. MissedWasGone'
  BY <1>1, <1>2, QuietGrows DEF MissedWasGone
<1>11. NotEarly'
  BY <1>1, <1>2, <1>3, QuietGrows DEF NotEarly, Outcome
<1> QED
  BY <1>5, <1>6, <1>7, <1>8, <1>9, <1>10, <1>11

\* A branch without matches was gone, all of it; one with matches is found.
LEMMA CollectKeepsIInv ==
    ASSUME IInv, Collect
    PROVE  IInv'
<1> USE DEF IInv, Collect
<1>1. Quiet
  BY DEF Quiet
<1>2. Filtered /\ pc = "filtered" /\ pc' \in {"decide", "find"}
  BY DEF Filtered
<1>3. /\ DOMAIN query.filters = IF Waiter THEN {1} ELSE Branches
      /\ \A b \in DOMAIN query.filters : Len(query.filters[b]) \in Nat
      /\ branch \in DOMAIN query.filters
  BY QueryShape DEF TypeOK
<1>4. branch' \in DOMAIN query'.filters
  <2>1. CASE branch = Len(Selects) \/ Waiter
    BY <1>1, <1>3, <2>1, QuietGrows
  <2>2. CASE ~(branch = Len(Selects) \/ Waiter)
    BY <1>1, <1>3, <2>2, QuietGrows, BranchesAreNumbers
  <2> QED
    BY <2>1, <2>2
<1>5. Count' \in Nat
  BY <1>1, <1>3, <1>4, QuietGrows DEF Count
<1>6. TypeOK'
  <2>1. found' \subseteq Elements /\ half' = {} /\ part' = 0
    BY <1>2 DEF TypeOK, HalfIsSo
  <2> QED
    BY <1>1, <1>2, <1>4, <1>5, <2>1, QuietGrows DEF TypeOK
<1>7. HistoryHasPage'
  BY <1>1, <1>2, QuietGrows
<1>8. FoundPassed'
  BY <1>1, <1>2, KeptIsFound, QuietGrows, HistoryGrows DEF FoundPassed
<1>9. HalfIsSo'
  BY <1>2 DEF HalfIsSo
<1>10. KeptPassed' /\ FilteredIsDone' /\ FilterIsOne' /\ NotEarly'
  BY <1>1, <1>2, QuietGrows DEF KeptPassed, FilteredIsDone, FilterIsOne, NotEarly, Answered
<1>11. MissedWasGone'
  <2> SUFFICES ASSUME OnMiss, found = {}, kept = {}
               PROVE  /\ pc' = "find" => \A b \in 1..(branch' - 1) : \A e \in Selects[b] : WasGone(b, e)
                      /\ pc' = "decide" => \A b \in Branches : \A e \in Selects[b] : WasGone(b, e)
    BY <1>1, <1>2, QuietGrows, HistoryGrows DEF MissedWasGone
  <2>1. \A b \in 1..(branch - 1) : \A e \in Selects[b] : WasGone(b, e)
    BY <1>2 DEF MissedWasGone
  <2>2. \A e \in Selects[branch] : WasGone(branch, e)
    BY <1>2 DEF MissedWasGone, FilteredIsDone
  <2>3. ~Waiter /\ branch \in Branches
    BY <1>3 DEF OnMiss, Waiter
  <2>4. \A b \in 1..branch : \A e \in Selects[b] : WasGone(b, e)
    BY <2>1, <2>2, <2>3, BranchesAreNumbers
  <2>5. CASE branch = Len(Selects)
    BY <2>4, <2>5, BranchesAreNumbers
  <2>6. CASE branch # Len(Selects)
    BY <2>3, <2>4, <2>6, BranchesAreNumbers
  <2> QED
    BY <2>5, <2>6
<1> QED
  BY <1>6, <1>7, <1>8, <1>9, <1>10, <1>11

\* The query answers, or sleeps: it gives up at its timeout or without waiting.
LEMMA DecideKeepsIInv ==
    ASSUME IInv, Succeed \/ GiveUp \/ Tick
    PROVE  IInv'
<1> USE DEF IInv
<1>1. Quiet /\ inner' = inner /\ found' = found /\ now' = now
  BY DEF Quiet, Succeed, GiveUp, Tick
<1>2. pc = "decide" /\ pc' \in {"done", "sleep"}
  BY DEF Succeed, GiveUp, Tick
<1>3. branch' = branch /\ filter' = filter /\ todo' = todo /\ half' = half /\ part' = part /\ kept' = kept
  BY <1>1 DEF inner
<1>4. Count' = Count
  BY <1>1, <1>3, QuietGrows DEF Count
<1>5. TypeOK'
  <2>1. tries' \in Nat /\ wake' \in Nat
    BY TickIsNat DEF Succeed, GiveUp, Tick, TypeOK
  <2> QED
    BY <1>1, <1>2, <1>3, <1>4, <2>1, QuietGrows DEF TypeOK
<1>6. HistoryHasPage'
  BY <1>1, <1>2, QuietGrows
<1>7. FoundPassed'
  BY <1>1, QuietGrows, HistoryGrows DEF FoundPassed
<1>8. MissedWasGone'
  BY <1>1, <1>2, QuietGrows, HistoryGrows DEF MissedWasGone
<1>9. HalfIsSo'
  BY <1>2, <1>3 DEF HalfIsSo
<1>10. KeptPassed' /\ FilteredIsDone' /\ FilterIsOne'
  BY <1>2 DEF KeptPassed, FilteredIsDone, FilterIsOne
<1>11. NotEarly'
  <2>1. CASE Succeed
    <3>1. Met' /\ Met
      BY <1>1, <2>1, QuietGrows DEF Succeed, Met, HasConditions
    <3>2. Outcome' = Outcome
      BY <1>1, <3>1, QuietGrows DEF Outcome
    <3>3. query.mode \in AllModes
      BY QueryAssumption DEF TypeOK, Queries, Query
    <3>4. Outcome \in {"ok", "many"}
      BY <3>1, <3>3 DEF Outcome, Met, HasConditions, Waiter, OnMiss, AllModes
    <3> QED
      BY <3>2, <3>4 DEF NotEarly
  <2>2. CASE GiveUp
    BY <1>1, <2>2, QuietGrows DEF GiveUp, NotEarly
  <2>3. CASE Tick
    BY <2>3 DEF Tick, NotEarly, Answered
  <2> QED
    BY <2>1, <2>2, <2>3
<1> QED
  BY <1>5, <1>6, <1>7, <1>8, <1>9, <1>10, <1>11

-----------------------------------------------------------------------------
\* The invariant holds at first and at every step.
THEOREM Inductive == Spec => []IInv
<1>1. Init => IInv
  <2> SUFFICES ASSUME Init PROVE IInv
    OBVIOUS
  <2> USE DEF Init
  <2>1. Count \in Nat /\ 1 \in DOMAIN query.filters
    BY QueryShape, BranchesAreNumbers DEF Count
  <2>2. TypeOK
    BY <2>1, QueryAssumption DEF TypeOK
  <2>3. FilteredIsDone /\ FilterIsOne /\ HistoryHasPage /\ HalfIsSo /\ FoundPassed /\ KeptPassed
    BY DEF FilteredIsDone, FilterIsOne, HistoryHasPage, HalfIsSo, FoundPassed, KeptPassed
  <2>4. MissedWasGone /\ NotEarly
    BY DEF MissedWasGone, NotEarly, Answered
  <2> QED
    BY <2>2, <2>3, <2>4 DEF IInv
<1>2. IInv /\ [Next]_vars => IInv'
  <2> SUFFICES ASSUME IInv, [Next]_vars PROVE IInv'
    OBVIOUS
  <2>1. CASE Change
    BY <2>1, ChangeKeepsIInv
  <2>2. CASE Advance
    BY <2>2, AdvanceKeepsIInv
  <2>3. CASE Start \/ Wake
    BY <2>3, BeginPollKeepsIInv DEF Start, Wake
  <2>4. CASE Find
    BY <2>4, FindKeepsIInv
  <2>5. CASE NextFilter
    BY <2>5, NextFilterKeepsIInv
  <2>6. CASE AskOn
    BY <2>6, AskOnKeepsIInv
  <2>7. CASE Ask \/ AskIgnored
    BY <2>7, AskKeepsIInv
  <2>8. CASE FindErr \/ AskErr
    BY <2>8, ErrKeepsIInv
  <2>9. CASE StopEarly
    BY <2>9, StopEarlyKeepsIInv
  <2>10. CASE Collect
    BY <2>10, CollectKeepsIInv
  <2>11. CASE Succeed \/ GiveUp \/ Tick
    BY <2>11, DecideKeepsIInv
  <2>12. CASE UNCHANGED vars
    <3>1. Quiet /\ UNCHANGED <<inner, now, pc, found, tries, wake>>
      BY <2>12 DEF vars, Quiet
    <3>2. /\ branch' = branch /\ filter' = filter /\ todo' = todo /\ half' = half /\ part' = part
          /\ kept' = kept /\ pc' = pc /\ found' = found /\ now' = now /\ tries' = tries /\ wake' = wake
      BY <3>1 DEF inner
    <3>3. Count' = Count /\ Current' = Current
      BY <3>1, <3>2, QuietGrows DEF Count, Current
    <3>4. TypeOK' /\ HistoryHasPage'
      BY <3>1, <3>2, <3>3, QuietGrows DEF TypeOK, IInv
    <3>5. HalfIsSo' /\ FoundPassed' /\ KeptPassed'
      BY <3>1, <3>2, <3>3, QuietGrows, HistoryGrows DEF HalfIsSo, FoundPassed, KeptPassed, IInv
    <3>6. MissedWasGone'
      BY <3>1, <3>2, QuietGrows, HistoryGrows DEF MissedWasGone, IInv
    <3>7. FilteredIsDone' /\ FilterIsOne' /\ NotEarly'
      BY <3>1, <3>2, <3>3, QuietGrows
         DEF FilteredIsDone, FilterIsOne, NotEarly, Answered, Outcome, Met, HasConditions, IInv
    <3> QED
      BY <3>4, <3>5, <3>6, <3>7 DEF IInv
  <2> QED
    BY <2>1, <2>2, <2>3, <2>4, <2>5, <2>6, <2>7, <2>8, <2>9, <2>10, <2>11, <2>12 DEF Next, Poll
<1> QED
  BY <1>1, <1>2, PTL DEF Spec

\* The types, and: an element a query answers with was on the page and passed
\* each filter of a branch that selects it at moments of the last poll, one for
\* each command (ElementQuery::run_poller, filter_elements); a waiter's element
\* passed each condition.
THEOREM AnswersAreAlwaysTrue == Spec => []AnswersAreTrue
<1>1. IInv => AnswersAreTrue
  <2> SUFFICES ASSUME IInv PROVE AnswersAreTrue
    OBVIOUS
  <2>1. ASSUME NEW e \in found
        PROVE  \E b \in DOMAIN query.filters :
                  /\ Waiter \/ (e \in Selects[b] /\ WasThere(e))
                  /\ \A f \in DOMAIN query.filters[b] : WasPassed(query.filters[b][f], e)
    <3>1. PICK b \in DOMAIN query.filters :
             /\ Waiter \/ (e \in Selects[b] /\ WasThere(e))
             /\ PassedUpTo(b, e, Len(query.filters[b]))
      BY <2>1 DEF IInv, FoundPassed, WasFound
    <3>2. DOMAIN query.filters[b] = 1..Len(query.filters[b])
      BY QueryShape DEF IInv, TypeOK
    <3> QED
      BY <3>1, <3>2 DEF PassedUpTo
  <2> QED
    BY <2>1 DEF IInv, AnswersAreTrue, AnswerWasTrue
<1> QED
  BY <1>1, Inductive, PTL

\* When wait_until_gone or not_exists says that nothing matches, each element
\* of each branch was away, or failed a filter of that branch, at moments of
\* the last poll, or a command about it failed and errors are ignored.
THEOREM GoneIsGone == Spec => []GoneWasGone
<1>1. IInv => GoneWasGone
  BY DEF IInv, GoneWasGone, MissedWasGone, WasGone, Answered
<1> QED
  BY <1>1, Inductive, PTL

\* A query that waits does not answer that it found nothing, and a waiter not
\* that it timed out, before the timeout (ElementPollerWithTimeout::tick).
THEOREM NeverEarly == Spec => []NotEarly
<1>1. IInv => NotEarly
  BY DEF IInv
<1> QED
  BY <1>1, Inductive, PTL

-----------------------------------------------------------------------------
(* The resolver *)

Storing == {v \in Users : upc[v] = "store"}

\* The types of what a call keeps for the properties.
GhostsOK == /\ sure \subseteq 1..MaxCells
            /\ stale \in [Users -> SUBSET (1..MaxCells)]
            /\ doomed \in [Users -> SUBSET (1..MaxCells)]
            /\ seen \in [Users -> SUBSET (1..MaxNodes)]
            /\ joined \in [Users -> SUBSET (1..MaxCells)]

\* Who has looked and is about to store is sure of a cell.
CellsAreBounded == cell + Cardinality(Storing) <= MaxCells

\* What is discarded are cells before the current one; no call has one that is
\* still to come.
DiscardedIsOld == /\ \A c \in sure : c < cell
                  /\ \A u \in Users : /\ stale[u] \subseteq sure
                                      /\ \A c \in doomed[u] : c <= cell
                                      /\ loaded[u] <= cell

\* A query is its holder's, and its cell is empty until it is answered.
QueryIsHeld == /\ \A u \in Users : upc[u] \in {"query", "found"} => holder[loaded[u]] = u
               /\ \A c \in 1..MaxCells : holder[c] # None => cached[c] = None

\* The cell a call works with was not discarded when the call began.
LoadedIsNotStale ==
    \A u \in Users : upc[u] \in {"get", "query", "found", "return"} /\ op[u] \in {"resolve", "force"}
                       => loaded[u] \notin stale[u]

\* resolve_present() alone looks at elements one by one; it has seen the page.
PresentSees ==
    \A u \in Users : /\ op[u] = "present" => rendered \subseteq seen[u]
                     /\ upc[u] = "validate" =>
                          op[u] = "present" /\ answer[u] # None /\ confirmed[u] \subseteq seen[u]
                     /\ upc[u] = "found" => answer[u] # None
                     /\ upc[u] \notin {"validate", "return"} => confirmed[u] = {}

\* What a cell that resolve_present() turns to holds, or is about to hold.
FreshCell(u, c) == cached[c] = None \/ cached[c] \subseteq seen[u] \/ c \in joined[u]

PresentIsFresh ==
    \A u \in Users : op[u] = "present" =>
        /\ \A v \in Users : upc[v] = "found" => answer[v] \subseteq seen[u] \/ loaded[v] \in joined[u]
        /\ upc[u] = "load" => FreshCell(u, cell)
        /\ upc[u] = "get" => FreshCell(u, loaded[u])
        /\ upc[u] = "return" => \/ answer[u] \subseteq seen[u]
                                \/ \E c \in joined[u] : cached[c] # None /\ cached[c] = answer[u]

ResolverIInv == /\ ResolverTypeOK
                /\ GhostsOK
                /\ CellsAreBounded
                /\ DiscardedIsOld
                /\ QueryIsHeld
                /\ LoadedIsNotStale
                /\ PresentSees
                /\ PresentIsFresh

-----------------------------------------------------------------------------
\* Whatever a query answers is on the page.
LEMMA AnswersAreOnPage ==
    ASSUME NEW made, NEW ty, NEW elements, NEW nodes \in Answers(made, ty, elements)
    PROVE  nodes \subseteq elements
  BY DEF Answers, SingleAnswers, MultiAnswers

\* What the assumption says of the bounds, for citing.
LEMMA ConstantsOK == /\ MaxNodes \in Nat /\ MaxCells \in Nat /\ MaxFaults \in Nat
                     /\ MaxNodes > 0 /\ MaxCells > 0 /\ None \notin Users
                     /\ None \notin SUBSET (1..MaxNodes)
  BY ResolverAssumption

\* The calls about to store are finitely many.
LEMMA StoringIsFinite == IsFiniteSet(Storing) /\ Cardinality(Storing) \in Nat
<1>1. Storing \subseteq Users
  BY DEF Storing
<1> QED
  BY <1>1, ResolverAssumption, FS_Subset, FS_CardinalityType

\* While no more calls are about to store, the bound on the cells stays.
LEMMA StoringNoMore ==
    ASSUME ResolverTypeOK, CellsAreBounded, Storing' \subseteq Storing, cell' = cell
    PROVE  CellsAreBounded'
<1>1. Cardinality(Storing') <= Cardinality(Storing) /\ Cardinality(Storing') \in Nat
  <2>1. IsFiniteSet(Storing')
    BY StoringIsFinite, FS_Subset
  <2> QED
    BY <2>1, StoringIsFinite, FS_Subset, FS_CardinalityType
<1> QED
  BY <1>1, StoringIsFinite, ConstantsOK DEF CellsAreBounded, ResolverTypeOK

\* The invariant holds at first.
LEMMA InitOK == ResolverInit => ResolverIInv
<1> SUFFICES ASSUME ResolverInit PROVE ResolverIInv
  OBVIOUS
<1>1. ResolverTypeOK
  BY ConstantsOK DEF ResolverInit, ResolverTypeOK
<1>2. Storing = {}
  BY DEF ResolverInit, Storing
<1>3. CellsAreBounded
  BY <1>2, FS_EmptySet, ConstantsOK DEF ResolverInit, CellsAreBounded
<1>4. GhostsOK /\ DiscardedIsOld
  BY ConstantsOK DEF ResolverInit, GhostsOK, DiscardedIsOld
<1>5. QueryIsHeld /\ LoadedIsNotStale /\ PresentSees /\ PresentIsFresh
  BY DEF ResolverInit, QueryIsHeld, LoadedIsNotStale, PresentSees, PresentIsFresh
<1> QED
  BY <1>1, <1>3, <1>4, <1>5 DEF ResolverIInv

\* A call ends, with its query or without one.
LEMMA DoneOK ==
    ASSUME NEW u \in Users, ResolverIInv, Done(u), UNCHANGED <<world, cell, cached, sure>>,
           faults' \in 0..MaxFaults,
           holder' \in [1..MaxCells -> Users \cup {None}],
           \A c \in 1..MaxCells : holder'[c] = holder[c] \/ (holder[c] = u /\ holder'[c] = None)
    PROVE  ResolverIInv'
<1> USE DEF ResolverIInv, Done, world
<1>1. ResolverTypeOK'
  BY ConstantsOK DEF ResolverTypeOK
<1>2. GhostsOK'
  BY DEF GhostsOK
<1>3. CellsAreBounded'
  <2>1. Storing' \subseteq Storing
    BY DEF Storing, ResolverTypeOK
  <2> QED
    BY <2>1, StoringNoMore
<1>4. DiscardedIsOld'
  BY ConstantsOK DEF DiscardedIsOld, ResolverTypeOK, GhostsOK
<1>5. QueryIsHeld'
  BY DEF QueryIsHeld, ResolverTypeOK
<1>6. LoadedIsNotStale' /\ PresentSees'
  BY DEF LoadedIsNotStale, PresentSees, ResolverTypeOK, GhostsOK
<1>7. PresentIsFresh'
  BY DEF PresentIsFresh, FreshCell, ResolverTypeOK, GhostsOK
<1> QED
  BY <1>1, <1>2, <1>3, <1>4, <1>5, <1>6, <1>7

\* A fault stays within its bound.
LEMMA FaultIsCounted == ResolverTypeOK /\ Fault => faults' \in 0..MaxFaults
  BY ConstantsOK DEF ResolverTypeOK, Fault

\* A query that fails, a dropped future, a failed look, a return: a call ends.
LEMMA EndingsOK ==
    ASSUME NEW u \in Users, ResolverIInv, QueryErr(u) \/ Drop(u) \/ ValidateErr(u) \/ Return(u)
    PROVE  ResolverIInv'
<1>1. faults' \in 0..MaxFaults
  BY FaultIsCounted DEF ResolverIInv, ResolverTypeOK, QueryErr, Drop, ValidateErr, Return
<1>2. CASE QueryErr(u)
  <2>1. loaded[u] \in 1..MaxCells /\ holder[loaded[u]] = u /\ holder \in [1..MaxCells -> Users \cup {None}]
    BY <1>2 DEF QueryErr, ResolverIInv, QueryIsHeld, ResolverTypeOK
  <2> QED
    BY <1>1, <1>2, <2>1, DoneOK DEF QueryErr
<1>3. CASE Drop(u)
  <2>1. holder \in [1..MaxCells -> Users \cup {None}]
    BY DEF ResolverIInv, ResolverTypeOK
  <2> QED
    BY <1>1, <1>3, <2>1, DoneOK DEF Drop
<1>4. CASE ValidateErr(u) \/ Return(u)
  <2>1. holder \in [1..MaxCells -> Users \cup {None}]
    BY DEF ResolverIInv, ResolverTypeOK
  <2> QED
    BY <1>1, <1>4, <2>1, DoneOK DEF ValidateErr, Return, cells
<1> QED
  BY <1>2, <1>3, <1>4

\* The page changes.
LEMMA RenderOK ==
    ASSUME ResolverIInv, Render PROVE ResolverIInv'
<1> USE DEF ResolverIInv, Render, cells, users
<1>1. rendered' \subseteq 1..node' /\ node' \in 1..MaxNodes /\ rendered' \subseteq 1..MaxNodes
  <2>1. node \in 1..MaxNodes /\ rendered \subseteq 1..node
    BY DEF ResolverTypeOK
  <2>2. PICK gone \in {{}} \cup {{n} : n \in rendered}, new \in {{}, {node + 1}} :
             rendered' = (rendered \ gone) \cup new /\ node' = IF new = {} THEN node ELSE node + 1
    OBVIOUS
  <2>3. node' \in 1..MaxNodes /\ node <= node'
    BY <2>1, <2>2, ConstantsOK
  <2>4. ASSUME NEW n \in rendered' PROVE n \in 1..node'
    <3>1. CASE n \in rendered
      BY <3>1, <2>1, <2>3
    <3>2. CASE n \in new
      BY <3>2, <2>1, <2>2
    <3> QED
      BY <3>1, <3>2, <2>2
  <2> QED
    BY <2>3, <2>4, ConstantsOK
<1>2. ResolverTypeOK'
  BY <1>1 DEF ResolverTypeOK
<1>3. GhostsOK'
  BY <1>1 DEF GhostsOK
<1>4. CellsAreBounded'
  BY StoringNoMore DEF Storing
<1>5. DiscardedIsOld' /\ QueryIsHeld' /\ LoadedIsNotStale'
  BY DEF DiscardedIsOld, QueryIsHeld, LoadedIsNotStale
<1>6. PresentSees'
  BY DEF PresentSees, ResolverTypeOK, GhostsOK
<1>7. PresentIsFresh'
  BY DEF PresentIsFresh, FreshCell, GhostsOK
<1> QED
  BY <1>2, <1>3, <1>4, <1>5, <1>6, <1>7

\* resolve() takes the current cell.
LEMMA LoadOK ==
    ASSUME NEW u \in Users, ResolverIInv, Load(u) PROVE ResolverIInv'
<1> USE DEF ResolverIInv, Load, Calls, At, world, cells
<1>1. ResolverTypeOK'
  BY ConstantsOK DEF ResolverTypeOK
<1>2. GhostsOK'
  BY DEF GhostsOK
<1>3. CellsAreBounded'
  <2>1. Storing' \subseteq Storing
    BY DEF Storing, ResolverTypeOK
  <2> QED
    BY <2>1, StoringNoMore
<1>4. DiscardedIsOld'
  BY ConstantsOK DEF DiscardedIsOld, ResolverTypeOK, GhostsOK
<1>5. QueryIsHeld'
  BY DEF QueryIsHeld, ResolverTypeOK
<1>6. LoadedIsNotStale'
  BY DEF LoadedIsNotStale, ResolverTypeOK, GhostsOK, DiscardedIsOld
<1>7. PresentSees'
  BY DEF PresentSees, ResolverTypeOK, GhostsOK
<1>8. PresentIsFresh'
  <2>1. /\ UNCHANGED <<cell, cached, answer>> /\ PresentIsFresh
        /\ \A v \in Users : upc'[v] = (IF v = u THEN "get" ELSE upc[v]) /\ loaded'[v] = (IF v = u THEN cell ELSE loaded[v])
    BY DEF ResolverTypeOK
  <2>2. \A v \in Users : op'[v] = "present" => op[v] = "present" /\ seen'[v] = seen[v] /\ joined'[v] = joined[v]
    BY DEF ResolverTypeOK, GhostsOK
  <2>3. op'[u] = "present" => upc[u] = "load"
    BY DEF ResolverTypeOK
  <2> HIDE DEF ResolverIInv, Load, Calls, At, world, cells
  <2>4. ASSUME NEW v \in Users, op'[v] = "present"
        PROVE  /\ \A w \in Users : upc'[w] = "found" => answer'[w] \subseteq seen'[v] \/ loaded'[w] \in joined'[v]
               /\ upc'[v] = "load" => FreshCell(v, cell)'
               /\ upc'[v] = "get" => FreshCell(v, loaded[v])'
               /\ upc'[v] = "return" => \/ answer'[v] \subseteq seen'[v]
                                       \/ \E c \in joined'[v] : cached'[c] # None /\ cached'[c] = answer'[v]
    <3>1. op[v] = "present" /\ seen'[v] = seen[v] /\ joined'[v] = joined[v]
      BY <2>2, <2>4
    <3>2. CASE v = u
      BY <2>1, <2>3, <2>4, <3>1, <3>2 DEF PresentIsFresh, FreshCell
    <3>3. CASE v # u
      BY <2>1, <3>1, <3>3 DEF PresentIsFresh, FreshCell
    <3> QED
      BY <3>2, <3>3
  <2> QED
    BY <2>4 DEF PresentIsFresh
<1> QED
  BY <1>1, <1>2, <1>3, <1>4, <1>5, <1>6, <1>7, <1>8

\* The cell has a value.
LEMMA GetOK ==
    ASSUME NEW u \in Users, ResolverIInv, Get(u) PROVE ResolverIInv'
<1> USE DEF ResolverIInv, Get, Go, world, cells, ghosts
<1>1. ResolverTypeOK'
  BY ConstantsOK DEF ResolverTypeOK
<1>2. GhostsOK'
  BY DEF GhostsOK, ResolverTypeOK
<1>3. CellsAreBounded'
  <2>1. Storing' \subseteq Storing
    BY DEF Storing, ResolverTypeOK
  <2> QED
    BY <2>1, StoringNoMore
<1>4. DiscardedIsOld'
  BY ConstantsOK DEF DiscardedIsOld, ResolverTypeOK, GhostsOK
<1>5. QueryIsHeld'
  BY ConstantsOK DEF QueryIsHeld, ResolverTypeOK
<1>6. LoadedIsNotStale'
  BY DEF LoadedIsNotStale, ResolverTypeOK, GhostsOK, DiscardedIsOld
<1>7. PresentSees'
  BY DEF PresentSees, ResolverTypeOK, GhostsOK
<1>8. PresentIsFresh'
  BY ConstantsOK DEF PresentIsFresh, FreshCell, ResolverTypeOK, GhostsOK
<1> QED
  BY <1>1, <1>2, <1>3, <1>4, <1>5, <1>6, <1>7, <1>8

\* The caller takes the query over.
LEMMA BeginOK ==
    ASSUME NEW u \in Users, ResolverIInv, Begin(u) PROVE ResolverIInv'
<1> USE DEF ResolverIInv, Begin, Go, world, ghosts
<1>1. ResolverTypeOK'
  <2>1. loaded[u] \in 1..MaxCells /\ loaded[u] <= cell /\ cell \in 1..MaxCells
    BY DEF ResolverTypeOK, DiscardedIsOld
  <2>2. holder' \in [1..MaxCells -> Users \cup {None}] /\ upc' \in [Users -> {"idle", "load", "get", "query",
                      "found", "check", "store", "validate", "return"}]
    BY DEF ResolverTypeOK
  <2>3. \A c \in 1..MaxCells : c > cell => cached[c] = None /\ holder'[c] = None
    BY <2>1, ConstantsOK DEF ResolverTypeOK
  <2> QED
    BY <2>2, <2>3 DEF ResolverTypeOK
<1>2. GhostsOK'
  BY DEF GhostsOK, ResolverTypeOK
<1>3. CellsAreBounded'
  <2>1. Storing' \subseteq Storing
    BY DEF Storing, ResolverTypeOK
  <2> QED
    BY <2>1, StoringNoMore
<1>4. DiscardedIsOld'
  BY ConstantsOK DEF DiscardedIsOld, ResolverTypeOK, GhostsOK
<1>5. QueryIsHeld'
  BY ConstantsOK DEF QueryIsHeld, ResolverTypeOK
<1>6. LoadedIsNotStale'
  BY DEF LoadedIsNotStale, ResolverTypeOK, GhostsOK, DiscardedIsOld
<1>7. PresentSees'
  BY DEF PresentSees, ResolverTypeOK, GhostsOK
<1>8. PresentIsFresh'
  BY ConstantsOK DEF PresentIsFresh, FreshCell, ResolverTypeOK, GhostsOK
<1> QED
  BY <1>1, <1>2, <1>3, <1>4, <1>5, <1>6, <1>7, <1>8

\* The query is answered.
LEMMA FoundOK ==
    ASSUME NEW u \in Users, ResolverIInv, Found(u) PROVE ResolverIInv'
<1> USE DEF ResolverIInv, Go, world, cells, ghosts
<1>0. PICK nodes \in Answers(Component(struct), struct.ty, rendered) : answer' = [answer EXCEPT ![u] = nodes]
  BY DEF Found
<1>9. nodes \subseteq rendered /\ nodes \in SUBSET (1..MaxNodes) /\ nodes # None
  <2>1. nodes \subseteq rendered
    BY AnswersAreOnPage
  <2>2. rendered \subseteq 1..MaxNodes
    BY ConstantsOK DEF ResolverTypeOK
  <2> QED
    BY <2>1, <2>2, ConstantsOK
<1>a. /\ upc[u] = "query" /\ upc' = [upc EXCEPT ![u] = "found"]
      /\ UNCHANGED <<world, faults, cells, op, loaded, confirmed, ghosts>>
  BY DEF Found
<1>1. ResolverTypeOK'
  BY <1>0, <1>9, <1>a DEF ResolverTypeOK
<1>2. GhostsOK'
  BY <1>a DEF GhostsOK, ResolverTypeOK
<1>3. CellsAreBounded'
  <2>1. Storing' \subseteq Storing
    BY <1>a DEF Storing, ResolverTypeOK
  <2> QED
    BY <1>a, <2>1, StoringNoMore
<1>4. DiscardedIsOld'
  BY <1>a, ConstantsOK DEF DiscardedIsOld, ResolverTypeOK, GhostsOK
<1>5. QueryIsHeld'
  BY <1>a, ConstantsOK DEF QueryIsHeld, ResolverTypeOK
<1>6. LoadedIsNotStale'
  BY <1>a DEF LoadedIsNotStale, ResolverTypeOK, GhostsOK, DiscardedIsOld
<1>7. PresentSees'
  BY <1>0, <1>9, <1>a DEF PresentSees, ResolverTypeOK, GhostsOK
<1>8. PresentIsFresh'
  <2> SUFFICES ASSUME NEW w \in Users, op'[w] = "present"
               PROVE  /\ \A v \in Users : upc'[v] = "found" =>
                            answer'[v] \subseteq seen'[w] \/ loaded'[v] \in joined'[w]
                      /\ upc'[w] = "load" => FreshCell(w, cell)'
                      /\ upc'[w] = "get" => FreshCell(w, loaded[w])'
                      /\ upc'[w] = "return" =>
                           \/ answer'[w] \subseteq seen'[w]
                           \/ \E c \in joined'[w] : cached'[c] # None /\ cached'[c] = answer'[w]
    BY DEF PresentIsFresh
  <2>1. ASSUME NEW v \in Users, upc'[v] = "found"
        PROVE  answer'[v] \subseteq seen'[w] \/ loaded'[v] \in joined'[w]
    BY <2>1, <1>0, <1>9, <1>a DEF PresentIsFresh, FreshCell, ResolverTypeOK, GhostsOK, PresentSees
  <2>2. ASSUME upc'[w] = "load" PROVE FreshCell(w, cell)'
    BY <2>2, <1>a DEF PresentIsFresh, FreshCell, ResolverTypeOK, GhostsOK
  <2>3. ASSUME upc'[w] = "get" PROVE FreshCell(w, loaded[w])'
    BY <2>3, <1>a DEF PresentIsFresh, FreshCell, ResolverTypeOK, GhostsOK
  <2>4. ASSUME upc'[w] = "return"
        PROVE  \/ answer'[w] \subseteq seen'[w]
               \/ \E c \in joined'[w] : cached'[c] # None /\ cached'[c] = answer'[w]
    BY <2>4, <1>0, <1>a DEF PresentIsFresh, FreshCell, ResolverTypeOK, GhostsOK
  <2> QED
    BY <2>1, <2>2, <2>3, <2>4
<1> QED
  BY <1>1, <1>2, <1>3, <1>4, <1>5, <1>6, <1>7, <1>8

\* The answer initializes the cell.
LEMMA SetOK ==
    ASSUME NEW u \in Users, ResolverIInv, Set(u) PROVE ResolverIInv'
<1> USE DEF ResolverIInv, Set, Go, world, ghosts
<1>0. /\ loaded[u] \in 1..MaxCells /\ loaded[u] <= cell /\ cell \in 1..MaxCells
      /\ holder[loaded[u]] = u /\ cached[loaded[u]] = None /\ answer[u] # None
  BY ConstantsOK DEF ResolverTypeOK, DiscardedIsOld, QueryIsHeld, PresentSees
<1>1. ResolverTypeOK'
  <2>1. /\ cached' \in [1..MaxCells -> {None} \cup SUBSET (1..MaxNodes)]
        /\ holder' \in [1..MaxCells -> Users \cup {None}]
        /\ upc' \in [Users -> {"idle", "load", "get", "query", "found", "check", "store",
                               "validate", "return"}]
    BY DEF ResolverTypeOK
  <2>2. \A c \in 1..MaxCells : c > cell => cached'[c] = None /\ holder'[c] = None
    BY <1>0, ConstantsOK DEF ResolverTypeOK
  <2> QED
    BY <2>1, <2>2 DEF ResolverTypeOK
<1>2. GhostsOK'
  BY DEF GhostsOK, ResolverTypeOK
<1>3. CellsAreBounded'
  <2>1. Storing' \subseteq Storing
    BY DEF Storing, ResolverTypeOK
  <2> QED
    BY <2>1, StoringNoMore
<1>4. DiscardedIsOld'
  BY ConstantsOK DEF DiscardedIsOld, ResolverTypeOK, GhostsOK
<1>5. QueryIsHeld'
  BY ConstantsOK DEF QueryIsHeld, ResolverTypeOK
<1>6. LoadedIsNotStale'
  BY DEF LoadedIsNotStale, ResolverTypeOK, GhostsOK, DiscardedIsOld
<1>7. PresentSees'
  BY DEF PresentSees, ResolverTypeOK, GhostsOK
<1>8. PresentIsFresh'
  <2> SUFFICES ASSUME NEW w \in Users, op'[w] = "present"
               PROVE  /\ \A v \in Users : upc'[v] = "found" =>
                            answer'[v] \subseteq seen'[w] \/ loaded'[v] \in joined'[w]
                      /\ upc'[w] = "load" => FreshCell(w, cell)'
                      /\ upc'[w] = "get" => FreshCell(w, loaded[w])'
                      /\ upc'[w] = "return" =>
                           \/ answer'[w] \subseteq seen'[w]
                           \/ \E c \in joined'[w] : cached'[c] # None /\ cached'[c] = answer'[w]
    BY DEF PresentIsFresh
  <2>1. ASSUME NEW v \in Users, upc'[v] = "found"
        PROVE  answer'[v] \subseteq seen'[w] \/ loaded'[v] \in joined'[w]
    BY <2>1 DEF PresentIsFresh, FreshCell, ResolverTypeOK, GhostsOK
  <2>2. ASSUME upc'[w] = "load" PROVE FreshCell(w, cell)'
    BY <2>2, <1>0 DEF PresentIsFresh, FreshCell, ResolverTypeOK, GhostsOK
  <2>3. ASSUME upc'[w] = "get" PROVE FreshCell(w, loaded[w])'
    BY <2>3, <1>0 DEF PresentIsFresh, FreshCell, ResolverTypeOK, GhostsOK
  <2>4. ASSUME upc'[w] = "return"
        PROVE  \/ answer'[w] \subseteq seen'[w]
               \/ \E c \in joined'[w] : cached'[c] # None /\ cached'[c] = answer'[w]
    BY <2>4, <1>0 DEF PresentIsFresh, FreshCell, ResolverTypeOK, GhostsOK
  <2> QED
    BY <2>1, <2>2, <2>3, <2>4
<1> QED
  BY <1>1, <1>2, <1>3, <1>4, <1>5, <1>6, <1>7, <1>8

\* What the first step of invalidate() does to the caller's own records.
LEMMA InvalidateBegins ==
    ASSUME NEW u \in Users, ResolverTypeOK, GhostsOK, Invalidate(u)
    PROVE  /\ op' \in [Users -> {"resolve", "force", "present", "invalidate"}]
           /\ stale' \in [Users -> SUBSET (1..MaxCells)]
           /\ seen' \in [Users -> SUBSET (1..MaxNodes)]
           /\ joined' \in [Users -> SUBSET (1..MaxCells)]
           /\ upc[u] \in {"idle", "check"}
           /\ \A w \in Users :
                \/ op'[w] = op[w] /\ stale'[w] = stale[w] /\ seen'[w] = seen[w] /\ joined'[w] = joined[w]
                \/ w = u /\ op'[w] \in {"force", "invalidate"} /\ stale'[w] = {}
<1>1. CASE At(u, "check")
  BY <1>1 DEF At, ResolverTypeOK, GhostsOK
<1>2. CASE \E o \in {"force", "invalidate"} : Calls(u, o)
  <2>1. PICK o \in {"force", "invalidate"} : Calls(u, o)
    BY <1>2
  <2> QED
    BY <2>1 DEF Calls, ResolverTypeOK, GhostsOK
<1> QED
  BY <1>1, <1>2 DEF Invalidate

\* invalidate() finds nothing to discard.
LEMMA SkipOK ==
    ASSUME NEW u \in Users, ResolverIInv, Skip(u) PROVE ResolverIInv'
<1> USE DEF ResolverIInv, world, cells
<1>0. /\ op' \in [Users -> {"resolve", "force", "present", "invalidate"}]
      /\ stale' \in [Users -> SUBSET (1..MaxCells)]
      /\ seen' \in [Users -> SUBSET (1..MaxNodes)]
      /\ joined' \in [Users -> SUBSET (1..MaxCells)]
      /\ upc[u] \in {"idle", "check"}
      /\ \A w \in Users :
           \/ op'[w] = op[w] /\ stale'[w] = stale[w] /\ seen'[w] = seen[w] /\ joined'[w] = joined[w]
           \/ w = u /\ op'[w] \in {"force", "invalidate"} /\ stale'[w] = {}
  BY InvalidateBegins DEF Skip
<1>9. /\ upc' = [upc EXCEPT ![u] = IF op'[u] = "invalidate" THEN "return" ELSE "load"]
      /\ cached[cell] = None
      /\ UNCHANGED <<world, faults, cells, loaded, answer, confirmed, sure, doomed>>
  BY DEF Skip, After
<1>1. ResolverTypeOK'
  BY <1>0, <1>9 DEF ResolverTypeOK
<1>2. GhostsOK'
  BY <1>0, <1>9 DEF GhostsOK, ResolverTypeOK, Initialized
<1>3. CellsAreBounded'
  <2>1. Storing' \subseteq Storing
    BY <1>0, <1>9 DEF Storing, ResolverTypeOK
  <2> QED
    BY <1>9, <2>1, StoringNoMore
<1>4. DiscardedIsOld'
  BY <1>0, <1>9, ConstantsOK DEF DiscardedIsOld, ResolverTypeOK, GhostsOK, Initialized
<1>5. QueryIsHeld'
  BY <1>0, <1>9 DEF QueryIsHeld, ResolverTypeOK
<1>6. LoadedIsNotStale'
  BY <1>0, <1>9 DEF LoadedIsNotStale, ResolverTypeOK, GhostsOK
<1>7. PresentSees'
  BY <1>0, <1>9 DEF PresentSees, ResolverTypeOK, GhostsOK
<1>8. PresentIsFresh'
  <2> SUFFICES ASSUME NEW w \in Users, op'[w] = "present"
               PROVE  /\ \A v \in Users : upc'[v] = "found" =>
                            answer'[v] \subseteq seen'[w] \/ loaded'[v] \in joined'[w]
                      /\ upc'[w] = "load" => FreshCell(w, cell)'
                      /\ upc'[w] = "get" => FreshCell(w, loaded[w])'
                      /\ upc'[w] = "return" =>
                           \/ answer'[w] \subseteq seen'[w]
                           \/ \E c \in joined'[w] : cached'[c] # None /\ cached'[c] = answer'[w]
    BY DEF PresentIsFresh
  <2>1. ASSUME NEW v \in Users, upc'[v] = "found"
        PROVE  answer'[v] \subseteq seen'[w] \/ loaded'[v] \in joined'[w]
    BY <2>1, <1>0, <1>9 DEF PresentIsFresh, FreshCell, ResolverTypeOK, GhostsOK
  <2>2. ASSUME upc'[w] = "load" PROVE FreshCell(w, cell)'
    BY <2>2, <1>0, <1>9 DEF PresentIsFresh, FreshCell, ResolverTypeOK, GhostsOK
  <2>3. ASSUME upc'[w] = "get" PROVE FreshCell(w, loaded[w])'
    BY <2>3, <1>0, <1>9 DEF PresentIsFresh, FreshCell, ResolverTypeOK, GhostsOK
  <2>4. ASSUME upc'[w] = "return"
        PROVE  \/ answer'[w] \subseteq seen'[w]
               \/ \E c \in joined'[w] : cached'[c] # None /\ cached'[c] = answer'[w]
    BY <2>4, <1>0, <1>9 DEF PresentIsFresh, FreshCell, ResolverTypeOK, GhostsOK
  <2> QED
    BY <2>1, <2>2, <2>3, <2>4
<1> QED
  BY <1>1, <1>2, <1>3, <1>4, <1>5, <1>6, <1>7, <1>8

\* invalidate() finds a value.
LEMMA CheckOK ==
    ASSUME NEW u \in Users, ResolverIInv, Check(u) PROVE ResolverIInv'
<1> USE DEF ResolverIInv, world, cells
<1>0. /\ op' \in [Users -> {"resolve", "force", "present", "invalidate"}]
      /\ stale' \in [Users -> SUBSET (1..MaxCells)]
      /\ seen' \in [Users -> SUBSET (1..MaxNodes)]
      /\ joined' \in [Users -> SUBSET (1..MaxCells)]
      /\ upc[u] \in {"idle", "check"}
      /\ \A w \in Users :
           \/ op'[w] = op[w] /\ stale'[w] = stale[w] /\ seen'[w] = seen[w] /\ joined'[w] = joined[w]
           \/ w = u /\ op'[w] \in {"force", "invalidate"} /\ stale'[w] = {}
  BY InvalidateBegins DEF Check
<1>9. /\ upc' = [upc EXCEPT ![u] = "store"]
      /\ doomed' = [doomed EXCEPT ![u] = Initialized]
      /\ cell + Cardinality(Storing) < MaxCells
      /\ UNCHANGED <<world, faults, cells, loaded, answer, confirmed, sure>>
  BY DEF Check, Storing
<1>1. ResolverTypeOK'
  BY <1>0, <1>9 DEF ResolverTypeOK
<1>2. GhostsOK'
  BY <1>0, <1>9 DEF GhostsOK, ResolverTypeOK, Initialized
<1>3. CellsAreBounded'
  <2>1. Storing' = Storing \cup {u} /\ u \notin Storing
    BY <1>0, <1>9 DEF Storing, ResolverTypeOK
  <2>2. Cardinality(Storing') = Cardinality(Storing) + 1
    BY <2>1, StoringIsFinite, FS_AddElement
  <2> QED
    BY <1>9, <2>2, StoringIsFinite, ConstantsOK DEF CellsAreBounded, ResolverTypeOK
<1>4. DiscardedIsOld'
  <2>1. \A c \in Initialized : c <= cell
    BY ConstantsOK DEF ResolverTypeOK, Initialized
  <2>2. \A w \in Users : \A c \in doomed'[w] : c <= cell
    BY <1>9, <2>1 DEF DiscardedIsOld, GhostsOK
  <2> QED
    BY <1>0, <1>9, <2>2 DEF DiscardedIsOld, ResolverTypeOK, GhostsOK
<1>5. QueryIsHeld'
  BY <1>0, <1>9 DEF QueryIsHeld, ResolverTypeOK
<1>6. LoadedIsNotStale'
  BY <1>0, <1>9 DEF LoadedIsNotStale, ResolverTypeOK, GhostsOK
<1>7. PresentSees'
  BY <1>0, <1>9 DEF PresentSees, ResolverTypeOK, GhostsOK
<1>8. PresentIsFresh'
  <2> SUFFICES ASSUME NEW w \in Users, op'[w] = "present"
               PROVE  /\ \A v \in Users : upc'[v] = "found" =>
                            answer'[v] \subseteq seen'[w] \/ loaded'[v] \in joined'[w]
                      /\ upc'[w] = "load" => FreshCell(w, cell)'
                      /\ upc'[w] = "get" => FreshCell(w, loaded[w])'
                      /\ upc'[w] = "return" =>
                           \/ answer'[w] \subseteq seen'[w]
                           \/ \E c \in joined'[w] : cached'[c] # None /\ cached'[c] = answer'[w]
    BY DEF PresentIsFresh
  <2>1. ASSUME NEW v \in Users, upc'[v] = "found"
        PROVE  answer'[v] \subseteq seen'[w] \/ loaded'[v] \in joined'[w]
    BY <2>1, <1>0, <1>9 DEF PresentIsFresh, FreshCell, ResolverTypeOK, GhostsOK
  <2>2. ASSUME upc'[w] = "load" PROVE FreshCell(w, cell)'
    BY <2>2, <1>0, <1>9 DEF PresentIsFresh, FreshCell, ResolverTypeOK, GhostsOK
  <2>3. ASSUME upc'[w] = "get" PROVE FreshCell(w, loaded[w])'
    BY <2>3, <1>0, <1>9 DEF PresentIsFresh, FreshCell, ResolverTypeOK, GhostsOK
  <2>4. ASSUME upc'[w] = "return"
        PROVE  \/ answer'[w] \subseteq seen'[w]
               \/ \E c \in joined'[w] : cached'[c] # None /\ cached'[c] = answer'[w]
    BY <2>4, <1>0, <1>9 DEF PresentIsFresh, FreshCell, ResolverTypeOK, GhostsOK
  <2> QED
    BY <2>1, <2>2, <2>3, <2>4
<1> QED
  BY <1>1, <1>2, <1>3, <1>4, <1>5, <1>6, <1>7, <1>8

\* invalidate() stores the new cell.
LEMMA StoreOK ==
    ASSUME NEW u \in Users, ResolverIInv, Store(u) PROVE ResolverIInv'
<1> USE DEF ResolverIInv, Store, After, world
<1>0. /\ u \in Storing /\ Storing' = Storing \ {u}
      /\ Cardinality(Storing') = Cardinality(Storing) - 1
      /\ Cardinality(Storing) \in Nat /\ Cardinality(Storing') \in Nat
  <2>1. u \in Storing /\ Storing' = Storing \ {u}
    BY DEF Storing, ResolverTypeOK
  <2> QED
    BY <2>1, StoringIsFinite, FS_RemoveElement, FS_CardinalityType
<1>9. cell \in 1..MaxCells /\ cell + 1 \in 1..MaxCells /\ cached[cell + 1] = None
  BY <1>0, ConstantsOK DEF CellsAreBounded, ResolverTypeOK
<1>1. ResolverTypeOK'
  <2>1. upc' \in [Users -> {"idle", "load", "get", "query", "found", "check", "store",
                            "validate", "return"}]
    BY DEF ResolverTypeOK
  <2>2. \A c \in 1..MaxCells : c > cell' => cached'[c] = None /\ holder'[c] = None
    BY <1>9, ConstantsOK DEF ResolverTypeOK
  <2> QED
    BY <1>9, <2>1, <2>2 DEF ResolverTypeOK
<1>2. GhostsOK'
  BY DEF GhostsOK, ResolverTypeOK
<1>3. CellsAreBounded'
  BY <1>0, <1>9, ConstantsOK DEF CellsAreBounded
<1>4. DiscardedIsOld'
  BY ConstantsOK DEF DiscardedIsOld, ResolverTypeOK, GhostsOK
<1>5. QueryIsHeld'
  BY ConstantsOK DEF QueryIsHeld, ResolverTypeOK
<1>6. LoadedIsNotStale'
  BY DEF LoadedIsNotStale, ResolverTypeOK, GhostsOK, DiscardedIsOld
<1>7. PresentSees'
  BY DEF PresentSees, ResolverTypeOK, GhostsOK
<1>8. PresentIsFresh'
  <2> SUFFICES ASSUME NEW w \in Users, op'[w] = "present"
               PROVE  /\ \A v \in Users : upc'[v] = "found" =>
                            answer'[v] \subseteq seen'[w] \/ loaded'[v] \in joined'[w]
                      /\ upc'[w] = "load" => FreshCell(w, cell)'
                      /\ upc'[w] = "get" => FreshCell(w, loaded[w])'
                      /\ upc'[w] = "return" =>
                           \/ answer'[w] \subseteq seen'[w]
                           \/ \E c \in joined'[w] : cached'[c] # None /\ cached'[c] = answer'[w]
    BY DEF PresentIsFresh
  <2>1. ASSUME NEW v \in Users, upc'[v] = "found"
        PROVE  answer'[v] \subseteq seen'[w] \/ loaded'[v] \in joined'[w]
    BY <2>1 DEF PresentIsFresh, FreshCell, ResolverTypeOK, GhostsOK
  <2>2. ASSUME upc'[w] = "load" PROVE FreshCell(w, cell)'
    BY <2>2, <1>9 DEF PresentIsFresh, FreshCell, ResolverTypeOK, GhostsOK
  <2>3. ASSUME upc'[w] = "get" PROVE FreshCell(w, loaded[w])'
    BY <2>3 DEF PresentIsFresh, FreshCell, ResolverTypeOK, GhostsOK
  <2>4. ASSUME upc'[w] = "return"
        PROVE  \/ answer'[w] \subseteq seen'[w]
               \/ \E c \in joined'[w] : cached'[c] # None /\ cached'[c] = answer'[w]
    BY <2>4 DEF PresentIsFresh, FreshCell, ResolverTypeOK, GhostsOK
  <2> QED
    BY <2>1, <2>2, <2>3, <2>4
<1> QED
  BY <1>1, <1>2, <1>3, <1>4, <1>5, <1>6, <1>7, <1>8

\* resolve_present() looks at the cached value.
LEMMA PeekOK ==
    ASSUME NEW u \in Users, ResolverIInv, Peek(u) PROVE ResolverIInv'
<1> USE DEF ResolverIInv, Peek, Calls, world, cells
<1>1. ResolverTypeOK'
  BY ConstantsOK DEF ResolverTypeOK
<1>2. GhostsOK'
  <2>1. rendered \subseteq 1..MaxNodes /\ Querying \subseteq 1..MaxCells
    BY ConstantsOK DEF ResolverTypeOK, Querying
  <2> QED
    BY <2>1 DEF GhostsOK
<1>3. CellsAreBounded'
  <2>1. Storing' \subseteq Storing
    BY DEF Storing, ResolverTypeOK
  <2> QED
    BY <2>1, StoringNoMore
<1>4. DiscardedIsOld'
  BY ConstantsOK DEF DiscardedIsOld, ResolverTypeOK, GhostsOK
<1>5. QueryIsHeld'
  BY ConstantsOK DEF QueryIsHeld, ResolverTypeOK
<1>6. LoadedIsNotStale'
  BY DEF LoadedIsNotStale, ResolverTypeOK, GhostsOK, DiscardedIsOld
<1>7. PresentSees'
  BY DEF PresentSees, ResolverTypeOK, GhostsOK
<1>8. PresentIsFresh'
  <2> SUFFICES ASSUME NEW w \in Users, op'[w] = "present"
               PROVE  /\ \A v \in Users : upc'[v] = "found" =>
                            answer'[v] \subseteq seen'[w] \/ loaded'[v] \in joined'[w]
                      /\ upc'[w] = "load" => FreshCell(w, cell)'
                      /\ upc'[w] = "get" => FreshCell(w, loaded[w])'
                      /\ upc'[w] = "return" =>
                           \/ answer'[w] \subseteq seen'[w]
                           \/ \E c \in joined'[w] : cached'[c] # None /\ cached'[c] = answer'[w]
    BY DEF PresentIsFresh
  <2>1. ASSUME NEW v \in Users, upc'[v] = "found"
        PROVE  answer'[v] \subseteq seen'[w] \/ loaded'[v] \in joined'[w]
    <3>1. v # u /\ upc[v] = "found"
      BY <2>1 DEF ResolverTypeOK
    <3>2. loaded[v] \in Querying
      BY <3>1, ConstantsOK DEF ResolverTypeOK, QueryIsHeld, Querying
    <3>3. CASE w = u
      BY <3>1, <3>2, <3>3 DEF GhostsOK
    <3>4. CASE w # u
      BY <2>1, <3>1, <3>4 DEF PresentIsFresh, ResolverTypeOK, GhostsOK
    <3> QED
      BY <3>3, <3>4
  <2>2. ASSUME upc'[w] = "load" PROVE FreshCell(w, cell)'
    BY <2>2 DEF PresentIsFresh, FreshCell, ResolverTypeOK, GhostsOK
  <2>3. ASSUME upc'[w] = "get" PROVE FreshCell(w, loaded[w])'
    BY <2>3 DEF PresentIsFresh, FreshCell, ResolverTypeOK, GhostsOK
  <2>4. ASSUME upc'[w] = "return"
        PROVE  \/ answer'[w] \subseteq seen'[w]
               \/ \E c \in joined'[w] : cached'[c] # None /\ cached'[c] = answer'[w]
    BY <2>4 DEF PresentIsFresh, FreshCell, ResolverTypeOK, GhostsOK
  <2> QED
    BY <2>1, <2>2, <2>3, <2>4
<1> QED
  BY <1>1, <1>2, <1>3, <1>4, <1>5, <1>6, <1>7, <1>8

\* An element is asked for.
LEMMA ValidateOK ==
    ASSUME NEW u \in Users, ResolverIInv, Validate(u) PROVE ResolverIInv'
<1> USE DEF ResolverIInv, world, cells, ghosts
<1>0. PICK n \in answer[u] \ confirmed[u] :
             /\ confirmed' = [confirmed EXCEPT ![u] = IF n \in rendered THEN @ \cup {n} ELSE {}]
             /\ upc' = [upc EXCEPT ![u] = IF n \notin rendered THEN "check"
                                        ELSE IF answer[u] = confirmed'[u] THEN "return" ELSE "validate"]
  BY DEF Validate
<1>9. /\ upc[u] = "validate" /\ UNCHANGED <<world, faults, cells, op, loaded, answer, ghosts>>
      /\ op[u] = "present" /\ rendered \subseteq seen[u] /\ confirmed[u] \subseteq seen[u]
  BY DEF Validate, PresentSees
<1>1. ResolverTypeOK'
  <2>1. n \in rendered => n \in 1..MaxNodes
    BY ConstantsOK DEF ResolverTypeOK
  <2>2. confirmed' \in [Users -> SUBSET (1..MaxNodes)]
    BY <1>0, <2>1 DEF ResolverTypeOK
  <2>3. upc' \in [Users -> {"idle", "load", "get", "query", "found", "check", "store",
                            "validate", "return"}]
    BY <1>0 DEF ResolverTypeOK
  <2> QED
    BY <1>9, <2>2, <2>3 DEF ResolverTypeOK
<1>2. GhostsOK'
  BY <1>0, <1>9 DEF GhostsOK, ResolverTypeOK
<1>3. CellsAreBounded'
  <2>1. Storing' \subseteq Storing
    BY <1>0, <1>9 DEF Storing, ResolverTypeOK
  <2> QED
    BY <1>9, <2>1, StoringNoMore
<1>4. DiscardedIsOld'
  BY <1>0, <1>9, ConstantsOK DEF DiscardedIsOld, ResolverTypeOK, GhostsOK
<1>5. QueryIsHeld'
  BY <1>0, <1>9, ConstantsOK DEF QueryIsHeld, ResolverTypeOK
<1>6. LoadedIsNotStale'
  BY <1>0, <1>9 DEF LoadedIsNotStale, ResolverTypeOK, GhostsOK, DiscardedIsOld
<1>7. PresentSees'
  BY <1>0, <1>9 DEF PresentSees, ResolverTypeOK, GhostsOK
<1>8. PresentIsFresh'
  <2> SUFFICES ASSUME NEW w \in Users, op'[w] = "present"
               PROVE  /\ \A v \in Users : upc'[v] = "found" =>
                            answer'[v] \subseteq seen'[w] \/ loaded'[v] \in joined'[w]
                      /\ upc'[w] = "load" => FreshCell(w, cell)'
                      /\ upc'[w] = "get" => FreshCell(w, loaded[w])'
                      /\ upc'[w] = "return" =>
                           \/ answer'[w] \subseteq seen'[w]
                           \/ \E c \in joined'[w] : cached'[c] # None /\ cached'[c] = answer'[w]
    BY DEF PresentIsFresh
  <2>1. ASSUME NEW v \in Users, upc'[v] = "found"
        PROVE  answer'[v] \subseteq seen'[w] \/ loaded'[v] \in joined'[w]
    BY <2>1, <1>0, <1>9 DEF PresentIsFresh, FreshCell, ResolverTypeOK, GhostsOK
  <2>2. ASSUME upc'[w] = "load" PROVE FreshCell(w, cell)'
    BY <2>2, <1>0, <1>9 DEF PresentIsFresh, FreshCell, ResolverTypeOK, GhostsOK
  <2>3. ASSUME upc'[w] = "get" PROVE FreshCell(w, loaded[w])'
    BY <2>3, <1>0, <1>9 DEF PresentIsFresh, FreshCell, ResolverTypeOK, GhostsOK
  <2>4. ASSUME upc'[w] = "return"
        PROVE  \/ answer'[w] \subseteq seen'[w]
               \/ \E c \in joined'[w] : cached'[c] # None /\ cached'[c] = answer'[w]
    <3>1. CASE w = u
      <4>1. answer[u] = confirmed'[u] /\ confirmed'[u] = confirmed[u] \cup {n} /\ n \in rendered
        BY <2>4, <3>1, <1>0, <1>9 DEF ResolverTypeOK
      <4> QED
        BY <4>1, <3>1, <1>9
    <3>2. CASE w # u
      BY <2>4, <3>2, <1>0, <1>9 DEF PresentIsFresh, FreshCell, ResolverTypeOK, GhostsOK
    <3> QED
      BY <3>1, <3>2
  <2> QED
    BY <2>1, <2>2, <2>3, <2>4
<1> QED
  BY <1>1, <1>2, <1>3, <1>4, <1>5, <1>6, <1>7, <1>8

-----------------------------------------------------------------------------
\* Every step keeps the invariant.
THEOREM ResolverInductive == ResolverIInv /\ [ResolverNext]_resolverVars => ResolverIInv'
<1> SUFFICES ASSUME ResolverIInv, [ResolverNext]_resolverVars PROVE ResolverIInv'
  OBVIOUS
<1>1. CASE Render
  BY <1>1, RenderOK
<1>2. ASSUME NEW u \in Users, Resolve(u) PROVE ResolverIInv'
  BY <1>2, LoadOK, GetOK, BeginOK, FoundOK, SetOK, SkipOK, CheckOK, StoreOK, PeekOK, ValidateOK, EndingsOK
     DEF Resolve
<1>3. ASSUME NEW u \in Users, Drop(u) PROVE ResolverIInv'
  BY <1>3, EndingsOK
<1>4. CASE UNCHANGED resolverVars
  <2> USE <1>4 DEF ResolverIInv, resolverVars, world, cells, users, ghosts
  <2>1. ResolverTypeOK' /\ GhostsOK' /\ DiscardedIsOld' /\ QueryIsHeld'
    BY DEF ResolverTypeOK, GhostsOK, DiscardedIsOld, QueryIsHeld
  <2>2. CellsAreBounded'
    BY DEF CellsAreBounded, Storing
  <2>3. LoadedIsNotStale' /\ PresentSees' /\ PresentIsFresh'
    BY DEF LoadedIsNotStale, PresentSees, PresentIsFresh, FreshCell
  <2> QED
    BY <2>1, <2>2, <2>3
<1> QED
  BY <1>1, <1>2, <1>3, <1>4 DEF ResolverNext, Use

\* The invariant holds in every state.
LEMMA Invariance == ResolverSpec => []ResolverIInv
  BY InitOK, ResolverInductive, PTL DEF ResolverSpec

\* No call returns a value that an invalidate() discarded which had ended when
\* the call began, and resolve_force() none that was cached when it began:
\* resolve(), resolve_force() and invalidate(), whoever calls them and however
\* they are cancelled.
THEOREM DiscardedIsNotReturned == ResolverSpec => []CacheIsFresh
<1>1. ResolverIInv => CacheIsFresh
  BY DEF ResolverIInv, CacheIsFresh, DiscardedIsGone, LoadedIsNotStale, Returning
<1> QED
  BY <1>1, Invariance, PTL

\* resolve_present() returns nodes that were on the page at some moment of the
\* call, or the answer of a query that was under way when it began.
THEOREM PresentIsTrue == ResolverSpec => []PresentWasThere
<1>1. ResolverIInv => PresentWasThere
  BY DEF ResolverIInv, PresentWasThere, PresentIsFresh, Returning
<1> QED
  BY <1>1, Invariance, PTL
-----------------------------------------------------------------------------
(* The fields, for any attribute. *)

\* A set of naturals that is not empty has a least member.
LEMMA LeastOf == ASSUME NEW T \in SUBSET Nat, T # {} PROVE \E n \in T : \A x \in T : n <= x
  <1>1. PICK m \in T : \A k \in T : <<k, m>> \notin OpToRel(<, Nat)
    BY WFMin, NatLessThanWellFounded, Zenon
  <1>2. \A k \in T : ~(k < m)
    BY <1>1, Zenon DEF OpToRel
  <1>. QED BY <1>2

\* validate() counts the unique types: there are as many as arguments if no two
\* arguments are of one type.
LEMMA CountsApart ==
  ASSUME NEW by \in Seq(STRING)
  PROVE  Cardinality(Types(by)) = Len(by) <=> ~Repeats(by)
  <1>. DEFINE f == [i \in 1..Len(by) |-> UniqueType(by[i])]
  <1>1. Len(by) \in Nat /\ DOMAIN by = 1..Len(by)
    OBVIOUS
  <1>2. f \in Surjection(1..Len(by), Types(by))
    BY <1>1 DEF Surjection, Types
  <1>3. IsFiniteSet(1..Len(by)) /\ Cardinality(1..Len(by)) = Len(by)
    BY <1>1, FS_Interval
  <1>4. Cardinality(Types(by)) = Len(by) <=> f \in Injection(1..Len(by), Types(by))
    BY <1>2, <1>3, FS_Surjection
  <1>5. f \in Injection(1..Len(by), Types(by)) <=> ~Repeats(by)
    <2>1. f \in [1..Len(by) -> Types(by)] /\ \A i \in 1..Len(by) : f[i] = UniqueType(by[i])
      BY <1>2 DEF Surjection
    <2>. HIDE DEF f
    <2>2. f \in Injection(1..Len(by), Types(by)) <=>
            \A i, j \in 1..Len(by) : f[i] = f[j] => i = j
      BY <2>1 DEF Injection, IsInjective
    <2>3. @ <=> \A i, j \in 1..Len(by) : UniqueType(by[i]) = UniqueType(by[j]) => i = j
      BY <2>1
    <2>4. @ <=> ~Repeats(by)
      BY <1>1 DEF Repeats
    <2>. QED BY <2>2, <2>3, <2>4
  <1>. QED BY <1>4, <1>5

\* What validate() accepts it accepted after each argument before.
LEMMA PrefixFits ==
  ASSUME NEW by \in Seq(STRING), Compatible(by), NEW n \in DOMAIN by
  PROVE  Compatible(SubSeq(by, 1, n))
  <1>. DEFINE some == SubSeq(by, 1, n)
  <1>1. /\ n \in 1..Len(by) /\ some \in Seq(STRING) /\ DOMAIN some = 1..n /\ DOMAIN by = 1..Len(by)
        /\ \A i \in 1..n : i \in DOMAIN by /\ some[i] = by[i]
    OBVIOUS
  <1>. HIDE DEF some
  <1>2. ~Repeats(by)
    BY CountsApart DEF Compatible
  <1>3. ~Repeats(some)
    BY <1>1, <1>2 DEF Repeats
  <1>4. Types(some) \subseteq Types(by)
    BY <1>1 DEF Types
  <1>5. \A i \in DOMAIN some : DisallowedTypes(some[i]) \cap Types(some) = {}
    BY <1>1, <1>4, Zenon DEF Compatible
  <1>. QED BY <1>1, <1>3, <1>5, CountsApart DEF Compatible, some

\* So try_from() accepts the attributes whose arguments are known and that
\* validate() accepts as a whole.
LEMMA ParsedIs ==
  ASSUME NEW by \in Seq(STRING)
  PROVE  Parsed(by) <=> (\A i \in DOMAIN by : by[i] \in ByToken) /\ Compatible(by)
  <1>1. CASE by = <<>>
    <2>1. DOMAIN by = {} /\ Len(by) = 0
      BY <1>1
    <2>2. Types(by) = {}
      BY <2>1 DEF Types
    <2>. QED BY <2>1, <2>2, FS_EmptySet DEF Compatible, Parsed
  <1>2. CASE by # <<>>
    <2>1. Len(by) \in DOMAIN by /\ SubSeq(by, 1, Len(by)) = by
      BY <1>2
    <2>. QED BY <2>1, PrefixFits DEF Parsed
  <1>. QED BY <1>1, <1>2

\* Which types of argument go together.
Fits(T) ==
  /\ \A pair \in {{"single", "first"}, {"not_empty", "allow_empty"}, {"wait", "nowait"}} : ~(pair \subseteq T)
  /\ "custom" \in T => T \subseteq {"custom", "selector"}
  /\ T \cap {"single", "first"} # {} => T \cap {"multi", "not_empty", "allow_empty"} = {}

\* The types of known arguments; all but the selectors are a type of their own.
LEMMA TypesOfTokens ==
  ASSUME NEW by \in Seq(STRING), \A i \in DOMAIN by : by[i] \in ByToken
  PROVE  /\ Types(by) \subseteq {"selector"} \cup (ByToken \ Selectors)
         /\ \A t \in ByToken \ Selectors : t \in Types(by) <=> \E i \in DOMAIN by : by[i] = t
  <1>1. \A t \in ByToken : t \notin Selectors => UniqueType(t) = t
    BY DEF UniqueType
  <1>2. \A t \in Selectors : UniqueType(t) = "selector"
    BY DEF UniqueType
  <1>3. "selector" \notin ByToken
    BY DEF ByToken, Selectors
  <1>. QED BY <1>1, <1>2, <1>3, Zenon DEF Types

\* The table of disallowed types says, in other words, which types fit together.
LEMMA NothingClashes ==
  ASSUME NEW by \in Seq(STRING), \A i \in DOMAIN by : by[i] \in ByToken
  PROVE  (\A i \in DOMAIN by : DisallowedTypes(by[i]) \cap Types(by) = {}) <=> Fits(Types(by))
  <1>. DEFINE T == Types(by)
  <1>1. /\ T \subseteq {"selector"} \cup (ByToken \ Selectors)
        /\ \A t \in ByToken \ Selectors : t \in T <=> \E i \in DOMAIN by : by[i] = t
    BY TypesOfTokens
  <1>2. \A t \in Selectors : DisallowedTypes(t) = {}
    BY DEF DisallowedTypes, Selectors
  <1>. HIDE DEF T
  <1>3. (\A i \in DOMAIN by : DisallowedTypes(by[i]) \cap T = {})
          <=> \A t \in T \ {"selector"} : DisallowedTypes(t) \cap T = {}
    <2>0. "selector" \notin ByToken
      BY DEF ByToken, Selectors
    <2>1. ASSUME \A t \in T \ {"selector"} : DisallowedTypes(t) \cap T = {}, NEW i \in DOMAIN by
          PROVE  DisallowedTypes(by[i]) \cap T = {}
      <3>1. CASE by[i] \in Selectors
        BY <3>1, <1>2, Zenon
      <3>2. CASE by[i] \notin Selectors
        <4>1. by[i] \in T /\ by[i] # "selector"
          BY <3>2, <1>1, <2>0
        <4>. QED BY <4>1, <2>1
      <3>. QED BY <3>1, <3>2
    <2>2. ASSUME \A i \in DOMAIN by : DisallowedTypes(by[i]) \cap T = {}, NEW t \in T \ {"selector"}
          PROVE  DisallowedTypes(t) \cap T = {}
      BY <1>1, <2>2, Zenon
    <2>. QED BY <2>1, <2>2
  <1>4. (\A t \in T \ {"selector"} : DisallowedTypes(t) \cap T = {}) <=> Fits(T)
    BY <1>1 DEF DisallowedTypes, Fits, ByToken, Selectors
  <1>. QED BY <1>3, <1>4 DEF T

\* What try_from() accepts.
LEMMA ParsedFits ==
  ASSUME NEW by \in Seq(STRING)
  PROVE  Parsed(by) <=> (\A i \in DOMAIN by : by[i] \in ByToken) /\ ~Repeats(by) /\ Fits(Types(by))
  BY ParsedIs, CountsApart, NothingClashes DEF Compatible

\* What SingleResolverArgs refuses, and which constructor it chooses.
LEMMA SingleIs ==
  ASSUME NEW by, "custom" \notin Types(by)
  PROVE  /\ SingleResolverOptions(by).fn \in {"refused", "new_first_opts", "new_single_opts"}
         /\ SingleResolverOptions(by).fn # "refused" <=>
              /\ "selector" \in Types(by)
              /\ Types(by) \subseteq {"single", "first", "selector", "ignore_errors", "description", "wait", "nowait"}
         /\ SingleResolverOptions(by).fn # "refused" =>
              SingleResolverOptions(by).fn = IF "first" \in Types(by) THEN "new_first_opts" ELSE "new_single_opts"
  BY DEF SingleResolverOptions, Has, Leftover, Constructor, Refused

\* What MultiResolverArgs refuses, and which constructor it chooses.
LEMMA MultiIs ==
  ASSUME NEW by, "custom" \notin Types(by)
  PROVE  /\ MultiResolverOptions(by).fn \in {"refused", "new_allow_empty_opts", "new_not_empty_opts"}
         /\ MultiResolverOptions(by).fn # "refused" <=>
              /\ "selector" \in Types(by)
              /\ Types(by) \subseteq {"multi", "not_empty", "allow_empty", "selector", "ignore_errors", "description", "wait", "nowait"}
         /\ MultiResolverOptions(by).fn # "refused" =>
              MultiResolverOptions(by).fn = IF "allow_empty" \in Types(by) THEN "new_allow_empty_opts" ELSE "new_not_empty_opts"
  BY DEF MultiResolverOptions, Has, Leftover, Constructor, Refused

\* What is made of an attribute without custom.
LEMMA MadeIs ==
  ASSUME NEW s, s.by \in Seq(STRING), s.by # <<>>, s.ty.holds \in {"one", "many"}, "custom" \notin Types(s.by)
  PROVE  LET made == Initialiser(s.ty, s.by)
         IN  /\ made.fn # "default"
             /\ made.fn # "refused" <=>
                  /\ Parsed(s.by) /\ "selector" \in Types(s.by)
                  /\ Types(s.by) \cap (IF Mode(s) = "multi" THEN {"single", "first"} ELSE {"not_empty", "allow_empty", "multi"}) = {}
                  /\ s.ty.holds = IF Mode(s) = "multi" THEN "many" ELSE "one"
             /\ made.fn # "refused" =>
                  made.fn = IF Mode(s) = "multi" THEN IF "allow_empty" \in Types(s.by) THEN "new_allow_empty_opts" ELSE "new_not_empty_opts"
                            ELSE IF "first" \in Types(s.by) THEN "new_first_opts" ELSE "new_single_opts"
  <1>. DEFINE T == Types(s.by)
  <1>1. CASE ~Parsed(s.by)
    BY <1>1 DEF Initialiser, Refused
  <1>2. CASE Parsed(s.by)
    <2>1. T \subseteq {"selector", "multi", "not_empty", "allow_empty", "single", "first", "ignore_errors",
                       "nowait", "wait", "description"}
      <3>1. T \subseteq {"selector"} \cup (ByToken \ Selectors)
        BY <1>2, ParsedFits, TypesOfTokens
      <3>. QED BY <3>1 DEF ByToken, Selectors
    <2>2. CASE Mode(s) = "multi"
      <3>1. Initialiser(s.ty, s.by) = IF Exists(MultiResolverOptions(s.by).fn, s.ty) THEN MultiResolverOptions(s.by) ELSE Refused
        BY <1>2, <2>2 DEF Initialiser, Mode
      <3>. QED BY <2>1, <2>2, <3>1, <1>2, MultiIs DEF Exists, Refused
    <2>3. CASE Mode(s) # "multi"
      <3>1. Initialiser(s.ty, s.by) = IF Exists(SingleResolverOptions(s.by).fn, s.ty) THEN SingleResolverOptions(s.by) ELSE Refused
        BY <1>2, <2>3 DEF Initialiser, Mode
      <3>. QED BY <2>1, <2>3, <3>1, <1>2, SingleIs DEF Exists, Refused
    <2>. QED BY <2>2, <2>3
  <1>. QED BY <1>1, <1>2

\* No two arguments are of one type: custom is alone if there is nothing else.
LEMMA AloneIs ==
  ASSUME NEW by \in Seq(STRING), by # <<>>, ~Repeats(by), \A i \in DOMAIN by : by[i] = "custom"
  PROVE  by = <<"custom">>
  <1>1. DOMAIN by = 1..Len(by) /\ Len(by) \in Nat /\ Len(by) # 0
    OBVIOUS
  <1>2. ~(Len(by) > 1)
    <2>1. Len(by) > 1 => 1 \in DOMAIN by /\ 2 \in DOMAIN by
      BY <1>1
    <2>. QED BY <2>1 DEF Repeats
  <1>3. Len(by) = 1
    BY <1>1, <1>2
  <1>. QED BY <1>1, <1>3

\* custom goes with nothing else.
LEMMA CustomIs ==
  ASSUME NEW s, s.by \in Seq(STRING), "custom" \in Types(s.by), s.ty.holds \in {"one", "many"}
  PROVE  Initialiser(s.ty, s.by).fn = IF s.by = <<"custom">> THEN "new_custom" ELSE "refused"
  <1>. DEFINE by == s.by
  <1>0. by # <<>> /\ DOMAIN by = 1..Len(by) /\ Len(by) \in Nat
    BY DEF Types
  <1>1. CASE by = <<"custom">>
    <2>1. Types(by) = {"custom"} /\ ~Repeats(by) /\ \A i \in DOMAIN by : by[i] \in ByToken
      BY <1>1 DEF Types, UniqueType, Selectors, ByToken, Repeats
    <2>2. Parsed(by)
      BY <2>1, ParsedFits DEF Fits
    <2>3. SingleResolverOptions(by).fn = "new_custom" /\ MultiResolverOptions(by).fn = "new_custom"
      BY <2>1 DEF SingleResolverOptions, MultiResolverOptions, Has, Constructor
    <2>. QED BY <1>1, <1>0, <2>2, <2>3 DEF Initialiser, Exists
  <1>2. CASE by # <<"custom">> /\ ~Parsed(by)
    BY <1>0, <1>2 DEF Initialiser, Refused
  <1>3. CASE by # <<"custom">> /\ Parsed(by)
    <2>1. ~Repeats(by) /\ Types(by) \subseteq {"custom", "selector"} /\ \A i \in DOMAIN by : by[i] \in ByToken
      BY <1>3, ParsedFits DEF Fits
    <2>2. "selector" \in Types(by)
      <3>1. SUFFICES ASSUME Types(by) = {"custom"} PROVE FALSE
        BY <2>1
      <3>2. \A i \in DOMAIN by : by[i] = "custom" /\ UniqueType(by[i]) = "custom"
        <4>1. \A i \in DOMAIN by : UniqueType(by[i]) = "custom"
          BY <3>1 DEF Types
        <4>. QED BY <4>1 DEF UniqueType
      <3>. QED BY <3>2, <2>1, <1>0, <1>3, AloneIs
    <2>3. SingleResolverOptions(by) = Refused /\ MultiResolverOptions(by) = Refused
      BY <2>2 DEF SingleResolverOptions, MultiResolverOptions, Has
    <2>. QED BY <1>0, <1>3, <2>3 DEF Initialiser, Refused
  <1>. QED BY <1>1, <1>2, <1>3

\* What the documentation says of an attribute without custom, in these terms.
LEMMA DocumentedIs ==
  ASSUME NEW s, s.by \in Seq(STRING), s.by # <<>>, "custom" \notin Types(s.by)
  PROVE  Documented(s) <=>
           /\ s.bases = <<"WebElement">>
           /\ Parsed(s.by) /\ "selector" \in Types(s.by)
           /\ Types(s.by) \cap (IF Mode(s) = "multi" THEN {"single", "first"} ELSE {"not_empty", "allow_empty", "multi"}) = {}
           /\ s.ty.holds = IF Mode(s) = "multi" THEN "many" ELSE "one"
  <1>. DEFINE by == s.by
               T  == Types(by)
               options == T \ {"selector"}
               others == IF Mode(s) = "multi" THEN {"single", "first"} ELSE {"not_empty", "allow_empty", "multi"}
  <1>1. by # <<"custom">> /\ \A i \in DOMAIN by : by[i] # "custom"
    BY DEF Types, UniqueType, Selectors
  <1>2. {by[i] : i \in DOMAIN by} \subseteq ByToken \ {"custom"} <=> \A i \in DOMAIN by : by[i] \in ByToken
    BY <1>1
  <1>3. ASSUME T \cap others = {}, \A i \in DOMAIN by : by[i] \in ByToken
        PROVE  Fits(T) <=> \A pair \in {{"single", "first"}, {"not_empty", "allow_empty"}, {"wait", "nowait"}} : ~(pair \subseteq options)
    BY <1>3 DEF Fits
  <1>4. options \cap others = T \cap others
    OBVIOUS
  <1>. HIDE DEF T
  <1>. QED BY <1>1, <1>2, <1>3, <1>4, ParsedFits DEF Documented, Has, T

\* The derive refuses what the documentation says it refuses, and nothing else.
LEMMA RefusesAsDocumented ==
  ASSUME NEW s, s.by \in Seq(STRING), s.ty.holds \in {"one", "many"}
  PROVE  Component(s).fn # "refused" <=> Documented(s)
  <1>1. CASE s.bases # <<"WebElement">>
    BY <1>1 DEF Component, Documented, Refused
  <1>2. CASE s.bases = <<"WebElement">> /\ s.by = <<>>
    BY <1>2 DEF Component, Initialiser, Documented
  <1>3. CASE s.bases = <<"WebElement">> /\ s.by # <<>> /\ "custom" \notin Types(s.by)
    BY <1>3, MadeIs, DocumentedIs DEF Component
  <1>4. CASE s.bases = <<"WebElement">> /\ s.by # <<>> /\ "custom" \in Types(s.by)
    <2>1. ~({s.by[i] : i \in DOMAIN s.by} \subseteq ByToken \ {"custom"})
      <3>1. PICK i \in DOMAIN s.by : UniqueType(s.by[i]) = "custom"
        BY <1>4 DEF Types
      <3>. QED BY <3>1 DEF UniqueType
    <2>. QED BY <1>4, <2>1, CustomIs DEF Component, Documented
  <1>. QED BY <1>1, <1>2, <1>3, <1>4

\* What is not refused resolves to what the table says of its options.
LEMMA ResolvesAsDocumented ==
  ASSUME NEW s, s.by \in Seq(STRING), s.ty.holds \in {"one", "many"}, Component(s).fn \notin {"refused", "default"},
         NEW elements \in SUBSET Nat
  PROVE  Answers(Component(s), s.ty, elements) = Declared(s, elements)
  <1>1. s.bases = <<"WebElement">> /\ Component(s) = Initialiser(s.ty, s.by)
    BY DEF Component, Refused
  <1>2. s.by # <<>>
    BY <1>1 DEF Initialiser
  <1>3. CASE "custom" \in Types(s.by)
    BY <1>1, <1>3, CustomIs DEF Answers, Declared, Has
  <1>4. CASE "custom" \notin Types(s.by) /\ Mode(s) = "multi"
    <2>1. /\ s.ty.holds = "many" /\ "first" \notin Types(s.by)
          /\ Component(s).fn = IF "allow_empty" \in Types(s.by) THEN "new_allow_empty_opts" ELSE "new_not_empty_opts"
      BY <1>1, <1>2, <1>4, MadeIs
    <2>. QED BY <1>4, <2>1 DEF Answers, MultiAnswers, Declared, Has
  <1>5. CASE "custom" \notin Types(s.by) /\ Mode(s) # "multi"
    <2>1. /\ s.ty.holds = "one" /\ "allow_empty" \notin Types(s.by)
          /\ Component(s).fn = IF "first" \in Types(s.by) THEN "new_first_opts" ELSE "new_single_opts"
      BY <1>1, <1>2, <1>5, MadeIs
    <2>2. CASE "first" \in Types(s.by)
      <3>1. Answers(Component(s), s.ty, elements) = {{n} : n \in {x \in elements : \A y \in elements : x <= y}}
        BY <2>1, <2>2 DEF Answers, SingleAnswers
      <3>2. Declared(s, elements) = IF elements = {} THEN {} ELSE {{CHOOSE n \in elements : \A x \in elements : n <= x}}
        BY <1>5, <2>2 DEF Declared, Has
      <3>3. CASE elements = {}
        BY <3>1, <3>2, <3>3
      <3>4. CASE elements # {}
        <4>1. PICK n \in elements : \A x \in elements : n <= x
          BY <3>4, LeastOf
        <4>2. \A m \in elements : (\A x \in elements : m <= x) <=> m = n
          <5>1. \A m \in elements : m \in Nat
            OBVIOUS
          <5>. QED BY <4>1, <5>1
        <4>3. {x \in elements : \A y \in elements : x <= y} = {n}
          BY <4>2, Zenon
        <4>4. (CHOOSE m \in elements : \A x \in elements : m <= x) = n
          BY <4>2, Zenon
        <4>5. {{m} : m \in {n}} = {{n}}
          OBVIOUS
        <4>. QED BY <3>1, <3>2, <3>4, <4>3, <4>4, <4>5, Zenon
      <3>. QED BY <3>3, <3>4
    <2>3. CASE "first" \notin Types(s.by)
      BY <1>5, <2>1, <2>3 DEF Answers, SingleAnswers, Declared, Has
    <2>. QED BY <2>2, <2>3
  <1>. QED BY <1>3, <1>4, <1>5

\* The derive refuses what its documentation refuses and nothing else, whatever
\* the number and order of the arguments, and a field resolves to what the table
\* says of its options, whatever is on the page.
THEOREM FieldsAreAsDeclared == ResolverSpec => []FieldIsAsDeclared
<1>1. ResolverIInv => FieldIsAsDeclared
  <2>1. ASSUME ResolverIInv PROVE /\ struct.by \in Seq(STRING) /\ struct.ty.holds \in {"one", "many"}
                                  /\ SUBSET (1..MaxNodes) \subseteq SUBSET Nat
    BY <2>1, StructsAssumption DEF ResolverIInv, ResolverTypeOK
  <2> QED
    BY <2>1, RefusesAsDocumented, ResolvesAsDocumented DEF FieldIsAsDeclared
<1> QED
  BY <1>1, Invariance, PTL
=============================================================================
