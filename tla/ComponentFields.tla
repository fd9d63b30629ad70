---------------------------- MODULE ComponentFields ----------------------------
(***************************************************************************)
(* What #[derive(Component)] makes of a struct (thirtyfour-macros/src/     *)
(* component.rs): pure functions of its fields.                            *)
(*                                                                         *)
(* A struct is [bases, ty, by]: the types of its base fields, and one      *)
(* field with its type and #[by(...)].  The attribute is the sequence of   *)
(* the names of its arguments; <<>> stands for a field without one.  A     *)
(* type is the path it is written with, and whether it holds one element   *)
(* or a Vec of them, which an alias of the user's hides.                   *)
(***************************************************************************)
EXTENDS Naturals, Sequences, FiniteSets

-----------------------------------------------------------------------------
(* ByToken *)

Selectors == {"id", "tag", "link", "partial_link", "css", "xpath", "name", "class", "testid"}

\* wait(timeout_ms = .., interval_ms = ..); one with other arguments is refused.
ByToken == Selectors \cup {"multi", "not_empty", "allow_empty", "single", "first", "ignore_errors",
                           "nowait", "wait", "description", "custom"}

\* get_unique_type()
UniqueType(t) == IF t \in Selectors THEN "selector" ELSE t

\* get_disallowed_types()
DisallowedTypes(t) ==
    CASE t = "single"      -> {"multi", "custom", "first"}
      [] t = "first"       -> {"multi", "custom", "single"}
      [] t = "not_empty"   -> {"custom", "single", "first", "allow_empty"}
      [] t = "allow_empty" -> {"custom", "single", "first", "not_empty"}
      [] t \in {"ignore_errors", "description"} -> {"custom"}
      [] t = "wait"        -> {"custom", "nowait"}
      [] t = "nowait"      -> {"custom", "wait"}
      [] t = "custom"      -> {"multi", "all", "single", "first", "ignore_errors", "description", "wait",
                               "nowait", "allow_empty"}
      [] OTHER             -> {}

-----------------------------------------------------------------------------
(* ByTokens *)

Types(by) == {UniqueType(by[i]) : i \in DOMAIN by}

\* validate()
Compatible(by) ==
    /\ Cardinality(Types(by)) = Len(by)
    /\ \A i \in DOMAIN by : DisallowedTypes(by[i]) \cap Types(by) = {}

\* try_from(&Attribute): validated after each argument.
Parsed(by) == \A n \in DOMAIN by : by[n] \in ByToken /\ Compatible(SubSeq(by, 1, n))

Has(by, t) == t \in Types(by)

Refused == [fn |-> "refused"]

\* What the resolver is told of the wait: wait(..) and nowait exclude each other.
WaitOptions(by) == IF Has(by, "wait") THEN "wait" ELSE IF Has(by, "nowait") THEN "nowait" ELSE "default"

Constructor(fn, by) == [fn |-> fn, wait |-> WaitOptions(by),
                        ignore_errors |-> Has(by, "ignore_errors"), description |-> Has(by, "description")]

-----------------------------------------------------------------------------
(* Resolvers: what no take_..() has taken is refused, and so is an attribute
   without a selector. *)

\* Mutant: what is left over is not looked at.
LeftoverIgnored(by, taken) == FALSE

Leftover(by, taken) == ~(Types(by) \subseteq taken \cup {"selector", "ignore_errors", "description", "wait", "nowait"})

SingleResolverOptions(by) ==
    IF Has(by, "custom") THEN IF Types(by) \subseteq {"single", "custom"} THEN Constructor("new_custom", <<>>) ELSE Refused
    ELSE IF ~Has(by, "selector") \/ Leftover(by, {"single", "first"}) THEN Refused
    ELSE Constructor(IF Has(by, "first") THEN "new_first_opts" ELSE "new_single_opts", by)

MultiResolverOptions(by) ==
    IF Has(by, "custom") THEN IF Types(by) \subseteq {"multi", "not_empty", "custom"} THEN Constructor("new_custom", <<>>) ELSE Refused
    ELSE IF ~Has(by, "selector") \/ Leftover(by, {"multi", "not_empty", "allow_empty"}) THEN Refused
    ELSE Constructor(IF Has(by, "allow_empty") THEN "new_allow_empty_opts" ELSE "new_not_empty_opts", by)

\* is_multi_resolver()
IsMultiResolver(ty) == \/ ty.path = "ElementResolverMulti"
                       \/ ty.path = "ElementResolver" /\ ty.holds = "many"

\* get_initialiser(); then rustc looks for that constructor of the field's type.
Exists(fn, ty) == fn \in IF ty.holds = "one" THEN {"new_single_opts", "new_first_opts", "new_custom"}
                                             ELSE {"new_allow_empty_opts", "new_not_empty_opts", "new_custom"}

Initialiser(ty, by) ==
    IF by = <<>> THEN [fn |-> "default"]
    ELSE IF ~Parsed(by) THEN Refused
    ELSE LET made == IF Has(by, "multi") \/ IsMultiResolver(ty) THEN MultiResolverOptions(by) ELSE SingleResolverOptions(by)
         IN  IF Exists(made.fn, ty) THEN made ELSE Refused

\* ComponentArgs: one base field, of type WebElement.
Component(s) == IF s.bases = <<"WebElement">> THEN Initialiser(s.ty, s.by) ELSE Refused

\* What the constructors of the resolvers make of the elements that the query
\* finds: single() and first() of a resolver of one element,
SingleAnswers(fn, page) ==
    IF fn = "new_first_opts" THEN {{n} : n \in {x \in page : \A y \in page : x <= y}}
                             ELSE IF Cardinality(page) = 1 THEN {page} ELSE {}

\* all_from_selector() and all_from_selector_required() of a resolver of many,
MultiAnswers(fn, page) == IF fn = "new_not_empty_opts" /\ page = {} THEN {} ELSE {page}

\* or a function of the user's; the elements become components, one by one.
Answers(made, ty, page) ==
    IF made.fn = "new_custom" THEN IF ty.holds = "one" THEN {{n} : n \in page} ELSE SUBSET page
    ELSE IF ty.holds = "one" THEN SingleAnswers(made.fn, page) ELSE MultiAnswers(made.fn, page)

-----------------------------------------------------------------------------
(* The reference: the documentation of the derive (lib.rs:30-104). *)

Mode(s) == IF Has(s.by, "multi") \/ IsMultiResolver(s.ty) THEN "multi" ELSE "single"

Repeats(by) == \E i, j \in DOMAIN by : i < j /\ UniqueType(by[i]) = UniqueType(by[j])

Documented(s) ==
    LET options == Types(s.by) \ {"selector"}
    IN  /\ s.bases = <<"WebElement">>
        /\ \/ s.by = <<>>
           \/ s.by = <<"custom">>
           \/ /\ {s.by[i] : i \in DOMAIN s.by} \subseteq ByToken \ {"custom"}
              /\ Has(s.by, "selector") /\ ~Repeats(s.by)
              /\ \A pair \in {{"single", "first"}, {"not_empty", "allow_empty"}, {"wait", "nowait"}} : ~(pair \subseteq options)
              /\ options \cap (IF Mode(s) = "multi" THEN {"single", "first"} ELSE {"not_empty", "allow_empty", "multi"}) = {}
              /\ s.ty.holds = IF Mode(s) = "multi" THEN "many" ELSE "one"

\* What the field may resolve to, by the table, when the query finds these elements.
Declared(s, page) ==
    IF Has(s.by, "custom")           THEN IF s.ty.holds = "many" THEN SUBSET page ELSE {{n} : n \in page}
    ELSE IF Has(s.by, "first")       THEN IF page = {} THEN {} ELSE {{CHOOSE n \in page : \A x \in page : n <= x}}
    ELSE IF Has(s.by, "allow_empty") THEN {page}
    ELSE IF Mode(s) = "multi"        THEN {page} \ {{}}
    ELSE IF Cardinality(page) = 1    THEN {page} ELSE {}
=============================================================================
