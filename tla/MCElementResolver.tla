-------------------------- MODULE MCElementResolver --------------------------
EXTENDS ElementResolver
CONSTANTS u1, u2

\* ElementResolver<T>, ElementResolver<Vec<T>>, ElementResolverMulti, and aliases
\* of the user's for one or many.
MCTypes == [path : {"ElementResolver", "alias"}, holds : {"one", "many"}]
              \cup {[path |-> "ElementResolverMulti", holds |-> "many"]}

\* Attributes of up to three arguments, of one selector and another.
MCArgs == {"css", "id", "multi", "not_empty", "allow_empty", "single", "first", "ignore_errors", "nowait",
           "wait", "description", "custom", "unknown"}
MCBy == UNION {[1..n -> MCArgs] : n \in 0..3}

MCBases == {<<"WebElement">>, <<>>, <<"WebElement", "WebElement">>, <<"String">>}

MCStructs == [bases : {<<"WebElement">>}, ty : MCTypes, by : MCBy]
               \cup [bases : MCBases, ty : MCTypes, by : {<<"css">>}]

\* The resolver that is used holds a list that is not empty.
MCUsed == {[bases |-> <<"WebElement">>, ty |-> [path |-> "ElementResolver", holds |-> "many"], by |-> <<"css">>]}
=============================================================================
