---------------------------- MODULE ElementQuery ----------------------------
(***************************************************************************)
(* Element queries and waiters: extensions/query.  A query runs all its    *)
(* selectors and filters on every poll, one WebDriver command at a time,   *)
(* while the page goes on changing; an ElementWaiter polls conditions on   *)
(* one element the same way.                                               *)
(*                                                                         *)
(* The page is the set of attached elements and, for each element, how     *)
(* each part of it that a filter may ask about (an attribute, a property,  *)
(* its text, whether it is displayed) compares with the needle.  Which     *)
(* elements a selector matches while they are attached does not change.    *)
(* A filter is answered from as many commands as it asks for parts, and    *)
(* the page may change between two of them.                                *)
(* Answers are sets: the order of the elements is left out.                *)
(***************************************************************************)
EXTENDS Integers, Sequences, FiniteSets

CONSTANTS
    Elements,       \* the elements that may be on the page
    Parts,          \* what a command of a filter may ask of an element
    Looks,          \* bound: how an element's parts may be
    Selects,        \* the branches of the query, joined by or(): a sequence of sets of elements
    FilterLists,    \* the lists of filters that a branch of a query may have
    ConditionLists, \* the lists of conditions that a waiter may have
    Subject,        \* the element a waiter waits for
    Modes,          \* the retrievers to try, a subset of AllModes
    Timeout,        \* ElementPollerWithTimeout::timeout, in units of time
    Interval,       \* ElementPollerWithTimeout::interval
    MaxTime,        \* bound: the clock stops here
    MaxChanges      \* bound: changes of the page

AllModes == {"first", "single", "any", "gone", "wait"}
Branches == DOMAIN Selects

\* A part against the needle: it matches, it does not, or the element has no
\* such attribute (Ok(None)).
Values == {"hit", "other", "absent"}

(***************************************************************************)
(* A filter of a query, or a condition of a waiter: how it is answered,    *)
(* whether it is the negative form (and_not_, without_, not_, lacks_), and *)
(* the parts of the element that it asks for, one command each.            *)
(***************************************************************************)
One == [1..1 -> Parts]
Two == [1..2 -> Parts]
\* Enabled, selected, displayed; clickable, which is displayed and then enabled.
StateFilters == [kind : {"state"}, not : BOOLEAN, of : One \cup Two]
\* Text, id, class, tag, value.
TextFilters == [kind : {"text"}, not : BOOLEAN, of : One]
\* Attributes and properties by their names: none, one or several.
NamedFilters == [kind : {"named"}, not : BOOLEAN, of : Seq(Parts)]
\* CSS properties: none, one or several.
CssFilters == [kind : {"css"}, not : BOOLEAN, of : Seq(Parts)]
Filters == StateFilters \cup TextFilters \cup NamedFilters \cup CssFilters

\* ElementWaiter has the same, and stale().
Waits == [kind : {"stale"}, not : {FALSE}, of : {<<>>}] \cup StateFilters \cup TextFilters
NamedWaits == NamedFilters
CssWaits == CssFilters

ASSUME QueryAssumption ==
    /\ Looks \subseteq [Parts -> Values]
    /\ Selects \in Seq(SUBSET Elements) /\ Selects # <<>>
    /\ FilterLists \subseteq Seq(Filters)
    /\ ConditionLists \subseteq Seq(Waits \cup NamedWaits \cup CssWaits)
    /\ Subject \in Elements
    /\ Modes \subseteq AllModes
    /\ {Timeout, Interval, MaxTime, MaxChanges} \subseteq Nat
    /\ Interval > 0
    /\ MaxTime >= Timeout + Interval

VARIABLES
    attached,   \* the elements in the document
    value,      \* element -> part -> how it compares with the needle
    changes,    \* how often the page has changed
    now,        \* time since the poller started
    query,      \* the query: its mode, each branch's filters, nowait and ignore_errors
    pc,         \* where its run_poller is
    branch,     \* the branch being looked up
    filter,     \* the filter being applied
    todo,       \* elements this filter has still to be asked about
    half,       \* {e}: the filter has been answered about e in part; {}: about nobody
    part,       \* how many of its commands about e have been answered
    kept,       \* elements that passed it
    found,      \* IndexMap of the elements collected in this poll
    tries,      \* ElementPollerWithTimeout::cur_tries
    wake,       \* when the sleep of tick() ends
    pages,      \* history: what the page has been during this poll
    excused     \* history: elements about which a command of this poll failed, and was ignored

page == <<attached, value, changes>>
inner == <<branch, filter, todo, half, part, kept>>
history == <<pages, excused>>
vars == <<page, now, query, pc, inner, found, tries, wake, history>>

(***************************************************************************)
(* The predicates.  Says: one command's answer about a part lets the       *)
(* filter go on to the next one.                                           *)
(***************************************************************************)
\* negate() turns the answer of is_clickable() and its like around as a whole.
Negated(p) == p.kind = "state" /\ p.not

\* is_clickable() goes on while what it asks for is so.
StateSays(v) == v = "hit"

\* An element without an id, a class or a value does not have the one that is
\* looked for, and lacks it.
TextSays(not, v) == (v = "hit") # not

\* Of a named attribute or property that the element does not have, neither is
\* true: Ok(None) => Ok(false).
NamedSays(not, v) == v # "absent" /\ (v = "hit") # not

\* Every element has every CSS property.
CssSays(not, v) == (v = "hit") # not

Says(p, v) == CASE p.kind = "state" -> StateSays(v)
                [] p.kind = "text"  -> TextSays(p.not, v)
                [] p.kind = "named" -> NamedSays(p.not, v)
                [] p.kind = "css"   -> CssSays(p.not, v)
                [] OTHER -> FALSE

\* No command is sent for an empty list of names.
Silent(p) == p.kind # "stale" /\ p.of = <<>>

\* What the filter makes of the command it is at, about element e: the first
\* answer that is not so settles it, and so does the last one.  A command on an
\* element that has gone is an error, except for "stale", which asks for it;
\* handle_errors makes the error a "no" or lets it end the query.
Verdict(p, e) ==
    CASE Silent(p)         -> "yes"
      [] p.kind = "stale"  -> IF e \in attached THEN "no" ELSE "yes"
      [] OTHER -> IF e \notin attached THEN IF query.ignore THEN "no" ELSE "error"
                  ELSE IF ~Says(p, value[e][p.of[part + 1]])
                       THEN IF Negated(p) THEN "yes" ELSE "no"
                  ELSE IF part + 1 < Len(p.of) THEN "more"
                  ELSE IF Negated(p) THEN "no" ELSE "yes"

\* The arguments of run_poller: short_circuit, stop_on_miss.
\* Mutant: not_exists() and wait_until_gone() stop at the first branch that misses.
ShortOnMiss == query.mode \in {"first", "gone"}

Short == query.mode = "first"

OnMiss == query.mode = "gone"
Waiter == query.mode = "wait"

\* The filters of the branch, and the one that is being applied.
Count == Len(query.filters[branch])
Current == query.filters[branch][filter]

\* Whose turn it is: a filter is done with one element before it takes the next.
Turn == IF half = {} THEN todo ELSE half

\* The page as one moment shows it.
Page == [attached |-> attached, value |-> value]

-----------------------------------------------------------------------------
(***************************************************************************)
(* The page.                                                               *)
(***************************************************************************)

\* A script attaches or removes an element, or changes how it is.
Change == /\ changes < MaxChanges
          /\ pc \notin {"done", "error"}
          /\ \E e \in Elements :
               \/ attached' \in {attached \cup {e}, attached \ {e}} \ {attached} /\ UNCHANGED value
               \/ \E look \in Looks \ {value[e]} : value' = [value EXCEPT ![e] = look] /\ UNCHANGED attached
          /\ changes' = changes + 1
          /\ pages' = pages \cup {Page'}
          /\ UNCHANGED <<now, query, pc, inner, found, tries, wake, excused>>

\* Time passes, in a command or in a sleep.
Advance == /\ now < MaxTime
           /\ pc \notin {"done", "error"}
           /\ now' = now + 1
           /\ UNCHANGED <<page, query, pc, inner, found, tries, wake, history>>

-----------------------------------------------------------------------------
(***************************************************************************)
(* ElementQuery::run_poller and ElementWaiter::run_poller.                 *)
(***************************************************************************)
Query(modes, filters) == [mode : modes, filters : filters, nowait : BOOLEAN, ignore : BOOLEAN]
Queries == Query(Modes \ {"wait"}, [Branches -> FilterLists])
               \cup Query(Modes \cap {"wait"}, {<<c>> : c \in ConditionLists})

Init == /\ attached \in SUBSET Elements
        /\ value \in [Elements -> Looks]
        /\ changes = 0 /\ now = 0
        /\ query \in Queries
        /\ pc = "start"
        /\ branch = 1 /\ filter = 0 /\ todo = {} /\ half = {} /\ part = 0 /\ kept = {}
        /\ found = {} /\ tries = 0 /\ wake = 0
        /\ pages = {} /\ excused = {}

HasConditions == Waiter /\ query.filters[1] # <<>>

\* Mutant: what an earlier poll found is kept.
BeginPollKeeping == /\ branch' = 1
                    /\ found' = found
                    /\ filter' = IF HasConditions THEN 1 ELSE 0
                    /\ todo' = IF HasConditions THEN {Subject} ELSE {}
                    /\ half' = {} /\ part' = 0 /\ kept' = {}
                    /\ pc' = IF HasConditions THEN "filter" ELSE IF Waiter THEN "decide" ELSE "find"
                    /\ pages' = {Page} /\ excused' = {}

\* A poll begins with nothing found.  A waiter goes straight to its conditions.
BeginPoll == /\ branch' = 1
             /\ found' = {}
             /\ filter' = IF HasConditions THEN 1 ELSE 0
             /\ todo' = IF HasConditions THEN {Subject} ELSE {}
             /\ half' = {} /\ part' = 0 /\ kept' = {}
             /\ pc' = IF HasConditions THEN "filter" ELSE IF Waiter THEN "decide" ELSE "find"
             /\ pages' = {Page} /\ excused' = {}

Start == /\ pc = "start"
         /\ BeginPoll
         /\ UNCHANGED <<page, now, query, tries, wake>>

\* find_all answers with the matches of the branch; a NoSuchElement answer is
\* an empty list.
Find == /\ pc = "find"
        /\ kept' = attached \cap Selects[branch]
        /\ todo' = {}
        /\ filter' = 0
        /\ pc' = "filtered"
        /\ UNCHANGED <<page, now, query, branch, half, part, found, tries, wake, history>>

\* Any other error of find_all ends the query, whatever ignore_errors says.
FindErr == /\ pc = "find"
           /\ pc' = "error"
           /\ UNCHANGED <<page, now, query, inner, found, tries, wake, history>>

\* filter_elements takes up the next filter, unless nothing is left to filter.
NextFilter == /\ pc = "filtered"
              /\ filter < Count /\ kept # {}
              /\ filter' = filter + 1
              /\ todo' = kept
              /\ kept' = {}
              /\ pc' = "filter"
              /\ UNCHANGED <<page, now, query, branch, half, part, found, tries, wake, history>>

\* One command of the filter, and it is not settled by the answer: the next
\* command about the same element is still to come.
AskOn == /\ pc = "filter"
         /\ \E e \in Turn : Verdict(Current, e) = "more" /\ half' = {e}
         /\ part' = part + 1
         /\ UNCHANGED <<page, now, query, pc, branch, filter, todo, kept, found, tries, wake, history>>

\* The filter is done with element e, which passes it or does not.
Settle(e, passes) == /\ todo' = todo \ {e}
                     /\ half' = {} /\ part' = 0
                     /\ kept' = IF passes THEN kept \cup {e} ELSE kept
                     /\ pc' = IF todo' = {} THEN "filtered" ELSE "filter"
                     /\ UNCHANGED <<page, now, query, branch, filter, found, tries, wake, pages>>

\* The command settles it.
Ask == /\ pc = "filter"
       /\ \E e \in Turn : /\ Verdict(Current, e) \in {"yes", "no"}
                          /\ Settle(e, Verdict(Current, e) = "yes")
       /\ UNCHANGED excused

\* A command fails, though the element is there: with ignore_errors that is a
\* "no", whatever the filter is.
AskIgnored == /\ pc = "filter" /\ query.ignore /\ ~Silent(Current)
              /\ \E e \in Turn : Settle(e, FALSE) /\ excused' = excused \cup {e}

\* Without it the error ends the query.
AskErr == /\ pc = "filter" /\ ~query.ignore /\ ~Silent(Current)
          /\ pc' = "error"
          /\ UNCHANGED <<page, now, query, inner, found, tries, wake, history>>

Filtered == pc = "filtered" /\ (filter = Count \/ kept = {})

\* The first branch with matches answers a short-circuiting query.
StopEarly == /\ Filtered /\ Short /\ OnMiss = (kept = {})
             /\ found' = kept
             /\ pc' = "done"
             /\ UNCHANGED <<page, now, query, inner, tries, wake, history>>

\* Otherwise the branch's matches are collected, and the next branch follows.
Collect == /\ Filtered /\ ~(Short /\ OnMiss = (kept = {}))
           /\ found' = found \cup kept
           /\ IF branch = Len(Selects) \/ Waiter
              THEN pc' = "decide" /\ UNCHANGED branch
              ELSE pc' = "find" /\ branch' = branch + 1
           /\ filter' = 0 /\ todo' = {} /\ kept' = {}
           /\ UNCHANGED <<page, now, query, half, part, tries, wake, history>>

\* A waiter is satisfied when no condition said no.
Met == (Waiter /\ ~HasConditions) \/ OnMiss = (found = {})

Succeed == /\ pc = "decide" /\ Met
           /\ pc' = "done"
           /\ UNCHANGED <<page, now, query, inner, found, tries, wake, history>>

\* Mutant: the poller gives up once its next try would come after the timeout.
GiveUpSoon == /\ pc = "decide" /\ ~Met
              /\ query.nowait \/ Interval * (tries + 1) >= Timeout
              /\ tries' = tries + 1
              /\ pc' = "done"
              /\ UNCHANGED <<page, now, query, inner, found, wake, history>>

\* tick() says no: the query answers with what this poll found.
GiveUp == /\ pc = "decide" /\ ~Met
          /\ query.nowait \/ now >= Timeout
          /\ tries' = tries + 1
          /\ pc' = "done"
          /\ UNCHANGED <<page, now, query, inner, found, wake, history>>

\* Mutant: a poll that found something is not ended by the timeout.
TickOn == /\ pc = "decide" /\ ~Met
          /\ ~query.nowait /\ (now < Timeout \/ found # {})
          /\ tries' = IF now < Timeout THEN tries + 1 ELSE tries
          /\ wake' = IF now < Timeout THEN Interval * (tries + 1) ELSE now
          /\ pc' = "sleep"
          /\ UNCHANGED <<page, now, query, inner, found, history>>

\* tick() sleeps until the next poll is due: a multiple of the interval from
\* the start of the first poll, or at once when that has passed.
Tick == /\ pc = "decide" /\ ~Met
        /\ ~query.nowait /\ now < Timeout
        /\ tries' = tries + 1
        /\ wake' = Interval * (tries + 1)
        /\ pc' = "sleep"
        /\ UNCHANGED <<page, now, query, inner, found, history>>

Wake == /\ pc = "sleep" /\ now >= wake
        /\ BeginPoll
        /\ UNCHANGED <<page, now, query, tries, wake>>

Poll == Start \/ Find \/ NextFilter \/ AskOn \/ Ask \/ AskErr \/ StopEarly \/ Collect
            \/ Succeed \/ GiveUp \/ Tick \/ Wake

Next == Change \/ Advance \/ Poll \/ FindErr \/ AskIgnored

\* Commands are answered, time passes, the executor runs the query.
Fairness == WF_vars(Poll) /\ WF_vars(Advance)
Spec == Init /\ [][Next]_vars /\ Fairness

-----------------------------------------------------------------------------
Answered == pc = "done"
\* What the terminators make of the answer: Ok, nothing found, too many, timeout.
Outcome == CASE query.mode = "gone"   -> IF found = {} THEN "ok" ELSE "timeout"
             [] query.mode = "wait"   -> IF Met THEN "ok" ELSE "timeout"
             [] query.mode = "single" -> IF found = {} THEN "none"
                                         ELSE IF Cardinality(found) = 1 THEN "ok" ELSE "many"
             [] OTHER                 -> IF found = {} THEN "none" ELSE "ok"

\* The type invariant.
TypeOK == /\ attached \subseteq Elements
          /\ value \in [Elements -> Looks]
          /\ changes \in 0..MaxChanges /\ now \in 0..MaxTime
          /\ query \in Queries
          /\ pc \in {"start", "find", "filter", "filtered", "decide", "sleep", "done", "error"}
          /\ branch \in DOMAIN query.filters /\ filter \in 0..Count
          /\ todo \subseteq Elements /\ kept \subseteq Elements /\ found \subseteq Elements
          /\ todo \cap kept = {} /\ half \subseteq todo
          /\ part \in Nat /\ tries \in Nat /\ wake \in Nat
          /\ pages \subseteq [attached : SUBSET Elements, value : [Elements -> Looks]]
          /\ excused \subseteq Elements

\* What a poll can have seen of element e: it was there, or was not; the part
\* the filter asks for i-th was so, or was not.
WasThere(e) == \E m \in pages : e \in m.attached
WasAway(e) == \E m \in pages : e \notin m.attached
WasSo(p, e, i) == \E m \in pages : e \in m.attached /\ Says(p, m.value[e][p.of[i]])
WasNotSo(p, e, i) == \E m \in pages : e \in m.attached /\ ~Says(p, m.value[e][p.of[i]])

\* A filter is passed when each part was so, at a moment of its own; a negated
\* one when some part was not.
WasPassed(p, e) == CASE p.kind = "stale" -> WasAway(e)
                     [] Negated(p)       -> \E i \in DOMAIN p.of : WasNotSo(p, e, i)
                     [] OTHER            -> \A i \in DOMAIN p.of : WasSo(p, e, i)

\* It is failed the other way round.
WasFailed(p, e) == IF Negated(p) THEN \A i \in DOMAIN p.of : WasSo(p, e, i)
                   ELSE \E i \in DOMAIN p.of : WasNotSo(p, e, i)

\* An element a query answers with was on the page, and passed each filter of a
\* branch that selects it, at moments of the last poll, one for each command:
\* nothing an earlier poll saw is answered with.  So does what a waiter waits for.
AnswerWasTrue ==
    Answered =>
        \A e \in found : \E b \in DOMAIN query.filters :
            /\ Waiter \/ (e \in Selects[b] /\ WasThere(e))
            /\ \A f \in DOMAIN query.filters[b] : WasPassed(query.filters[b][f], e)

\* The types, and the elements that a query answers with.
AnswersAreTrue == TypeOK /\ AnswerWasTrue

\* wait_until_gone and not_exists say that nothing matches only if each element
\* of each branch, at moments of the last poll, was away or failed a filter of
\* that branch, or a command about it failed and errors are ignored.
GoneWasGone ==
    Answered /\ OnMiss /\ found = {} =>
        \A b \in Branches : \A e \in Selects[b] :
            \/ WasAway(e) \/ e \in excused
            \/ \E f \in DOMAIN query.filters[b] : WasFailed(query.filters[b][f], e)

\* A query that is told to wait does not give up before its timeout.
NotEarly == Answered /\ ~query.nowait /\ Outcome \in {"none", "timeout"} => now >= Timeout

\* A query ends, whatever the page does.
QueryEnds == (pc = "start") ~> (pc \in {"done", "error"})

=============================================================================
