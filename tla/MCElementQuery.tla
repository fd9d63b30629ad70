--------------------------- MODULE MCElementQuery ---------------------------
EXTENDS ElementQuery, TLC
CONSTANTS e1, e2, shown, enabled

\* One part is as it is looked for, and the other is not so or is missing.
TwoParts(v, w) == (shown :> v) @@ (enabled :> w)
MCLooks == {TwoParts("hit", "other"), TwoParts("absent", "hit")}

TwoBranches == <<{e1, e2}, {e2}>>

Both == <<shown, enabled>>
Clickable == [kind |-> "state", not |-> FALSE, of |-> Both]
NotClickable == [kind |-> "state", not |-> TRUE, of |-> Both]
Having == [kind |-> "named", not |-> FALSE, of |-> Both]
OtherText == [kind |-> "text", not |-> TRUE, of |-> <<enabled>>]
Gone == [kind |-> "stale", not |-> FALSE, of |-> <<>>]

Lists == {<<NotClickable>>, <<OtherText, Clickable>>}
Conditions == {<<>>, <<Gone>>, <<OtherText, Having>>}
=============================================================================
