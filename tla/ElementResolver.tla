--------------------------- MODULE ElementResolver ---------------------------
(***************************************************************************)
(* ElementResolver, components/wrapper/resolver.rs: caches the answer of a *)
(* query in a OnceCell that invalidate() replaces by an empty one.  The    *)
(* clones of a resolver, in any number of tasks, share the cell.           *)
(*                                                                         *)
(* The resolver is a field of a component, with the constructor that       *)
(* ComponentFields.tla makes of its attribute: it holds one element, or    *)
(* all there are.  The page renders the elements again and again, each     *)
(* time as another node.  A query is one answer here: how it polls is      *)
(* ElementQuery.tla.  It fails, and so does a look at an element, when the *)
(* base element is gone or another task has taken the session elsewhere    *)
(* (Browser.tla).                                                          *)
(***************************************************************************)
EXTENDS ComponentFields, Integers

CONSTANTS
    Users,          \* tasks that use the resolver
    Structs,        \* structs that #[derive(Component)] may be given
    Used,           \* bound: those of them whose resolver is used
    MaxNodes,       \* bound: nodes rendered
    MaxCells,       \* bound: cells the resolver goes through
    MaxFaults,      \* bound: calls that are cancelled or fail
    None            \* no user, no value

ASSUME ResolverAssumption ==
    /\ {MaxNodes, MaxCells, MaxFaults} \subseteq Nat
    /\ MaxNodes > 0 /\ MaxCells > 0
    /\ IsFiniteSet(Users) /\ None \notin Users /\ \A nodes \in SUBSET (1..MaxNodes) : nodes # None
    /\ Used \subseteq Structs /\ \A s \in Used : Component(s).fn \notin {"refused", "default"}

\* An attribute is a sequence of names; a field holds one element or many.
ASSUME StructsAssumption ==
    \A s \in Structs : s.by \in Seq(STRING) /\ s.ty.holds \in {"one", "many"}

VARIABLES
    faults,     \* calls cancelled or failed so far
    struct,     \* the component the resolver is a field of
    node,       \* the last node that was rendered
    rendered,   \* the nodes that are on the page now
    cell,       \* ElementResolver::element, the current cell
    cached,     \* cell -> the nodes it holds; None: not initialized
    holder,     \* cell -> the user who runs its query; None: nobody
    upc,        \* user -> where its call is
    op,         \* user -> the method it called
    loaded,     \* user -> the cell it has loaded
    answer,     \* user -> the nodes its call is about to return
    confirmed,  \* user -> those of them that is_present() has found
    sure,       \* history: cells whose value a finished invalidate() has discarded
    stale,      \* history: user -> those cells when its call began
    doomed,     \* history: user -> cells initialized when its invalidate() began
    seen,       \* history: user -> nodes on the page at some moment of its call
    joined      \* history: user -> the cells whose query was under way when its call began

world == <<struct, node, rendered>>
cells == <<cell, cached, holder>>
users == <<upc, op, loaded, answer, confirmed>>
ghosts == <<sure, stale, doomed, seen, joined>>
resolverVars == <<world, faults, cells, users, ghosts>>

Initialized == {c \in 1..MaxCells : cached[c] # None}
Querying == {c \in 1..MaxCells : holder[c] # None}

-----------------------------------------------------------------------------
\* Elements come and go, or are rendered anew.
Render == /\ \E gone \in {{}} \cup {{n} : n \in rendered}, new \in {{}, {node + 1}} :
               /\ gone \cup new # {}
               /\ rendered' = (rendered \ gone) \cup new
               /\ node' = IF new = {} THEN node ELSE node + 1
          /\ node' <= MaxNodes
          /\ seen' = [u \in Users |-> IF op[u] = "present" THEN seen[u] \cup rendered' ELSE {}]
          /\ UNCHANGED <<struct, faults, cells, users, sure, stale, doomed, joined>>

\* The call ends, and what it kept goes.
Done(u) == /\ upc' = [upc EXCEPT ![u] = "idle"]
           /\ op' = [op EXCEPT ![u] = "resolve"]
           /\ loaded' = [loaded EXCEPT ![u] = 1]
           /\ answer' = [answer EXCEPT ![u] = None]
           /\ confirmed' = [confirmed EXCEPT ![u] = {}]
           /\ stale' = [stale EXCEPT ![u] = {}]
           /\ doomed' = [doomed EXCEPT ![u] = {}]
           /\ seen' = [seen EXCEPT ![u] = {}]
           /\ joined' = [joined EXCEPT ![u] = {}]

Go(u, from, to) == upc[u] = from /\ upc' = [upc EXCEPT ![u] = to]

\* A call of resolve(), resolve_force(), resolve_present() or invalidate() begins,
\* with its first step.
Calls(u, o) == /\ upc[u] = "idle"
               /\ op' = [op EXCEPT ![u] = o]
               /\ stale' = [stale EXCEPT ![u] = IF o = "resolve" THEN sure ELSE {}]
               /\ seen' = [seen EXCEPT ![u] = IF o = "present" THEN rendered ELSE {}]
               /\ joined' = [joined EXCEPT ![u] = IF o = "present" THEN Querying ELSE {}]

At(u, here) == upc[u] = here /\ UNCHANGED <<op, stale, seen, joined>>

-----------------------------------------------------------------------------
(***************************************************************************)
(* resolve(): get_or_try_init on the cell that is current.                 *)
(***************************************************************************)
Load(u) == /\ Calls(u, "resolve") \/ At(u, "load")
           /\ upc' = [upc EXCEPT ![u] = "get"]
           /\ loaded' = [loaded EXCEPT ![u] = cell]
           /\ UNCHANGED <<world, faults, cells, answer, confirmed, sure, doomed>>

\* The cell has a value, or gets one while the caller waits for its permit.
Get(u) == /\ Go(u, "get", "return")
          /\ cached[loaded[u]] # None
          /\ answer' = [answer EXCEPT ![u] = cached[loaded[u]]]
          /\ UNCHANGED <<world, faults, cells, op, loaded, confirmed, ghosts>>

\* It has none, and nobody runs the query: the caller does.
Begin(u) == /\ Go(u, "get", "query")
            /\ cached[loaded[u]] = None /\ holder[loaded[u]] = None
            /\ holder' = [holder EXCEPT ![loaded[u]] = u]
            /\ UNCHANGED <<world, faults, cell, cached, op, loaded, answer, confirmed, ghosts>>

\* The browser executes the query's last find_all.
Found(u) == /\ Go(u, "query", "found")
            /\ \E nodes \in Answers(Component(struct), struct.ty, rendered) : answer' = [answer EXCEPT ![u] = nodes]
            /\ UNCHANGED <<world, faults, cells, op, loaded, confirmed, ghosts>>

\* Its answer arrives and initializes the cell.
Set(u) == /\ Go(u, "found", "return")
          /\ cached' = [cached EXCEPT ![loaded[u]] = answer[u]]
          /\ holder' = [holder EXCEPT ![loaded[u]] = None]
          /\ UNCHANGED <<world, faults, cell, op, loaded, answer, confirmed, ghosts>>

\* A command fails, or the future is dropped.
Fault == faults < MaxFaults /\ faults' = faults + 1

\* Mutant: the permit of a query that failed is not given back.
QueryErrKeeps(u) == /\ upc[u] = "query" /\ Done(u)
                    /\ IF Answers(Component(struct), struct.ty, rendered) = {} THEN UNCHANGED faults ELSE Fault
                    /\ UNCHANGED <<world, cells, sure>>

\* The query fails, or finds nothing that will do until it gives up: nothing is
\* cached, and the next waiter tries.
QueryErr(u) == /\ upc[u] = "query" /\ Done(u)
               /\ IF Answers(Component(struct), struct.ty, rendered) = {} THEN UNCHANGED faults ELSE Fault
               /\ holder' = [holder EXCEPT ![loaded[u]] = None]
               /\ UNCHANGED <<world, cell, cached, sure>>

\* The future of the call is dropped at an await; a query of its own goes with it.
Drop(u) == /\ upc[u] \in {"get", "query", "found", "validate"}
           /\ Fault
           /\ Done(u)
           /\ holder' = [c \in 1..MaxCells |-> IF holder[c] = u THEN None ELSE holder[c]]
           /\ UNCHANGED <<world, cell, cached, sure>>

-----------------------------------------------------------------------------
(***************************************************************************)
(* invalidate(): the look at the cell and the store of a new one are two   *)
(* steps that other threads can come between.                              *)
(***************************************************************************)
After(o) == IF o = "invalidate" THEN "return" ELSE "load"

Invalidate(u) == \/ \E o \in {"force", "invalidate"} : Calls(u, o)
                 \/ At(u, "check")

\* A cell that is not initialized stays, even while its query is under way.
Skip(u) == /\ Invalidate(u)
           /\ cached[cell] = None
           /\ upc' = [upc EXCEPT ![u] = After(op'[u])]
           /\ UNCHANGED <<world, faults, cells, loaded, answer, confirmed, sure, doomed>>

Check(u) == /\ Invalidate(u)
            /\ cached[cell] # None
            /\ cell + Cardinality({v \in Users : upc[v] = "store"}) < MaxCells
            /\ upc' = [upc EXCEPT ![u] = "store"]
            /\ doomed' = [doomed EXCEPT ![u] = Initialized]
            /\ UNCHANGED <<world, faults, cells, loaded, answer, confirmed, sure>>

\* Mutant: resolve_force() goes on with the cell it had loaded before.
StoreLoaded(u) == /\ upc[u] = "store"
                  /\ cell' = cell + 1
                  /\ upc' = [upc EXCEPT ![u] = IF op[u] = "invalidate" THEN "return" ELSE "get"]
                  /\ loaded' = [loaded EXCEPT ![u] = cell]
                  /\ sure' = sure \cup doomed[u]
                  /\ stale' = [stale EXCEPT ![u] = IF op[u] = "force" THEN sure' ELSE @]
                  /\ doomed' = [doomed EXCEPT ![u] = {}]
                  /\ UNCHANGED <<world, faults, cached, holder, op, answer, confirmed, seen, joined>>

\* For resolve_force() the values so discarded are as good as gone.
Store(u) == /\ upc[u] = "store"
            /\ cell' = cell + 1
            /\ upc' = [upc EXCEPT ![u] = After(op[u])]
            /\ sure' = sure \cup doomed[u]
            /\ stale' = [stale EXCEPT ![u] = IF op[u] = "force" THEN sure' ELSE @]
            /\ doomed' = [doomed EXCEPT ![u] = {}]
            /\ UNCHANGED <<world, faults, cached, holder, op, loaded, answer, confirmed, seen, joined>>

-----------------------------------------------------------------------------
(***************************************************************************)
(* validate() and resolve_present().                                       *)
(***************************************************************************)
Peek(u) == /\ Calls(u, "present")
           /\ answer' = [answer EXCEPT ![u] = cached[cell]]
           /\ upc' = [upc EXCEPT ![u] = IF cached[cell] = None THEN "check" ELSE "validate"]
           /\ UNCHANGED <<world, faults, cells, loaded, confirmed, sure, doomed>>

\* Mutant: the first element that is there will do.
ValidateFirst(u) == /\ upc[u] = "validate"
                    /\ \E n \in answer[u] \ confirmed[u] :
                         IF n \in rendered THEN upc' = [upc EXCEPT ![u] = "return"] ELSE upc' = [upc EXCEPT ![u] = "check"]
                    /\ UNCHANGED <<world, faults, cells, op, loaded, answer, confirmed, ghosts>>

\* is_present() asks for the tag name: a node that has gone is stale.  All of a
\* list are asked, in any order, up to the first that is not there; of an empty
\* list, buffer_unordered(0) takes none and waits for ever.
Validate(u) == /\ upc[u] = "validate"
               /\ \E n \in answer[u] \ confirmed[u] :
                    /\ confirmed' = [confirmed EXCEPT ![u] = IF n \in rendered THEN @ \cup {n} ELSE {}]
                    /\ upc' = [upc EXCEPT ![u] = IF n \notin rendered THEN "check"
                                               ELSE IF answer[u] = confirmed'[u] THEN "return" ELSE "validate"]
               /\ UNCHANGED <<world, faults, cells, op, loaded, answer, ghosts>>

\* Any other error, as in a window or frame the node is not in, is returned.
ValidateErr(u) == /\ upc[u] = "validate" /\ Done(u)
                  /\ Fault
                  /\ UNCHANGED <<world, cells, sure>>

Return(u) == /\ upc[u] = "return" /\ Done(u)
             /\ UNCHANGED <<world, faults, cells, sure>>

-----------------------------------------------------------------------------
ResolverInit == /\ struct \in Structs
                /\ faults = 0 /\ node = 1 /\ rendered = {1} /\ cell = 1
                /\ cached = [c \in 1..MaxCells |-> None]
                /\ holder = [c \in 1..MaxCells |-> None]
                /\ upc = [u \in Users |-> "idle"]
                /\ op = [u \in Users |-> "resolve"]
                /\ loaded = [u \in Users |-> 1]
                /\ answer = [u \in Users |-> None]
                /\ confirmed = [u \in Users |-> {}]
                /\ sure = {}
                /\ stale = [u \in Users |-> {}]
                /\ doomed = [u \in Users |-> {}]
                /\ seen = [u \in Users |-> {}]
                /\ joined = [u \in Users |-> {}]

Resolve(u) == \/ Load(u) \/ Get(u) \/ Begin(u) \/ Found(u) \/ Set(u) \/ QueryErr(u)
              \/ Skip(u) \/ Check(u) \/ Store(u)
              \/ Peek(u) \/ Validate(u) \/ ValidateErr(u) \/ Return(u)

Use(u) == Resolve(u) \/ Drop(u)

ResolverNext == /\ struct \in Used
                /\ Render \/ \E u \in Users : Use(u)

\* The browser answers and every task is run; the semaphore of a OnceCell serves
\* its waiters in the order they came, so that none is overtaken for ever.
ResolverFairness == \A u \in Users : /\ WF_resolverVars(upc[u] # "idle" /\ Resolve(u))
                                    /\ SF_resolverVars(Begin(u))
ResolverSpec == ResolverInit /\ [][ResolverNext]_resolverVars /\ ResolverFairness

-----------------------------------------------------------------------------
\* The type invariant.
ResolverTypeOK == /\ faults \in 0..MaxFaults
                  /\ struct \in Structs /\ node \in 1..MaxNodes /\ rendered \subseteq 1..node /\ cell \in 1..MaxCells
                  /\ cached \in [1..MaxCells -> {None} \cup SUBSET (1..MaxNodes)]
                  /\ holder \in [1..MaxCells -> Users \cup {None}]
                  /\ upc \in [Users -> {"idle", "load", "get", "query", "found", "check", "store",
                                        "validate", "return"}]
                  /\ op \in [Users -> {"resolve", "force", "present", "invalidate"}]
                  /\ loaded \in [Users -> 1..MaxCells]
                  /\ answer \in [Users -> {None} \cup SUBSET (1..MaxNodes)]
                  /\ confirmed \in [Users -> SUBSET (1..MaxNodes)]
                  /\ \A c \in 1..MaxCells : c > cell => cached[c] = None /\ holder[c] = None

Returning(u) == upc[u] = "return"

\* No call returns a value that an invalidate() discarded which had ended when
\* the call began; resolve_force() returns none that was cached when it began.
DiscardedIsGone ==
    \A u \in Users : Returning(u) /\ op[u] \in {"resolve", "force"} => loaded[u] \notin stale[u]

\* The types, and the values that are returned.
CacheIsFresh == ResolverTypeOK /\ DiscardedIsGone

\* resolve_present() returns nodes that were on the page at some moment of the
\* call, each of them, or an answer of a query that was already under way when
\* it began.
PresentWasThere ==
    \A u \in Users : Returning(u) /\ op[u] = "present" =>
        \/ answer[u] \subseteq seen[u]
        \/ \E c \in joined[u] : cached[c] = answer[u]

\* A call that waits for a value ends: another caller's query never outlasts
\* itself, however it ends, and its failure leaves the waiter to query in turn.
ResolverAnswers == \A u \in Users : (upc[u] = "get") ~> (upc[u] = "idle")

\* thirtyfour-macros/src/lib.rs:30-104: the derive refuses what the documentation
\* says it refuses and nothing else, and a field resolves to what the table says
\* of its options, whatever is on the page.
FieldIsAsDeclared ==
    LET made == Component(struct)
    IN  /\ made.fn # "refused" <=> Documented(struct)
        /\ made.fn \notin {"refused", "default"} =>
              \A elements \in SUBSET (1..MaxNodes) :
                 Answers(made, struct.ty, elements) = Declared(struct, elements)
=============================================================================
