----------------------------- MODULE MCBrowser -----------------------------
EXTENDS Browser
CONSTANTS t1, w1, w2, w3, main, e1, e2, k1, u1

\* A task that makes settings is alone; one further command makes no user
\* context, since a second one would have to use it.
\* Three documents come to their end, in all windows together.
Focused == /\ others > 0 => \A t \in Tasks, u \in Users : role[t] # "bidi" /\ users[u] = "new"
           /\ MapThenSumSet(LAMBDA w : doc[w], Windows) <= 3

MCQuotes == [w \in {"big", "small", "red", "RED", "5'6\"", "v", "w", "concat", ""} |->
               CASE w = "5'6\"" -> {"single", "double", "end"}
                 [] w = "concat" -> {"single", "double"}
                 [] OTHER -> {}]

Option(v, g, r, s) == [value |-> v, group |-> g, raw |-> r, shown |-> s]

\* Two options of one value; a text with both quotes; a text that is shown in
\* capitals, and one with space before it; options in groups.
MCLists == {<<Option("v", 0, <<"big", "red">>, <<"big", "red">>), Option("w", 0, <<"small">>, <<"small">>),
              Option("v", 0, <<"small", "red">>, <<"small", "red">>)>>,
            <<Option("concat", 1, <<"small", "5'6\"">>, <<"small", "5'6\"">>), Option("v", 2, <<"", "big">>, <<"big">>),
              Option("w", 2, <<"small", "red">>, <<"small", "RED">>)>>}

Texts == {<<"big">>, <<"small">>, <<"small", "RED">>, <<"small", "red">>, <<"small", "5'6\"">>, <<"", "">>}

\* A call that uses no more than how, and one of the others.
TheCall(how, select) == [how |-> how, value |-> "", index |-> 0, text |-> <<>>, condition |-> {}, select |-> select]

MCPicks == {[TheCall("value", s) EXCEPT !.value = v] : v \in {"v", "concat"}, s \in BOOLEAN}
             \cup {[TheCall("index", s) EXCEPT !.index = i] : i \in 0..3, s \in BOOLEAN}
             \cup {[TheCall(how, s) EXCEPT !.text = text] : how \in {"visible", "exact", "partial"}, text \in Texts, s \in BOOLEAN}
             \cup {[TheCall("xpath", s) EXCEPT !.condition = {o \in Range(dom) : o.value = "v"}] : dom \in MCLists, s \in BOOLEAN}
             \cup {TheCall("all", s) : s \in BOOLEAN}
             \cup {TheCall("all_selected", FALSE), TheCall("first_selected", FALSE)}
=============================================================================
