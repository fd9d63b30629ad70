----------------------------- MODULE SelectElement -----------------------------
(***************************************************************************)
(* SelectElement, components/select.rs: which options of a <select> its    *)
(* methods look for.  Browser.tla has the commands they send.              *)
(*                                                                         *)
(* A text is the words between its single spaces: of two spaces in a row,   *)
(* and of one at an end, one word is empty.  Words are not taken apart.    *)
(* An option is [value, group, raw, shown]: group is the <optgroup> that   *)
(* it is in, raw the text as the document has it, in one text node, and    *)
(* shown the text as the browser shows it: with the space normalized, and  *)
(* a style may change the words.                                           *)
(* A call is [how, value, index, text, condition, select], of which a      *)
(* method uses how and one more, to select or to deselect; condition is    *)
(* the set of the options that satisfy an XPath condition.                 *)
(***************************************************************************)
EXTENDS Naturals, Sequences, SequencesExt, FiniteSetsExt

\* The quotes that a value or a word has in it: of {"single", "double"}, and
\* "end" when a double quote is its last character.
CONSTANT Quotes

\* What find_all() returns is gone through in the order of the document.
Topmost(options) == Min(options)

-----------------------------------------------------------------------------
(* escape_string() *)

QuotesIn(words) == UNION {Quotes[w] : w \in ToSet(words)}

Both(words) == {"single", "double"} \subseteq QuotesIn(words)

\* In an XPath: Escaped ends a text that has both quotes, and a double one for
\* the last character, with a second one.
Cut(words) == Both(words) /\ "end" \in Quotes[Last(words)]
EscapeString(words) == IF Cut(words) THEN Append(words, "\"") ELSE words

\* get_longest_token(): the last of the longest.
LongestToken(words) ==
    words[Max({i \in DOMAIN words : \A j \in DOMAIN words : Len(words[j]) <= Len(words[i])})]

-----------------------------------------------------------------------------
(* What find_all() returns. *)

Options(dom) == DOMAIN dom

\* option:nth-of-type(index + 1) counts in each group, and find() takes the first.
Nth(dom, n) == {k \in DOMAIN dom : Cardinality({j \in 1..k : dom[j].group = dom[k].group}) = n + 1}
ByIndex(dom, n) == {k \in Nth(dom, n) : \A j \in Nth(dom, n) : k <= j}

\* A selector option[value=concat(..)] is no CSS.
Invalid(call) == call.how = "value" /\ Both(<<call.value>>)

\* normalize-space(.): of the raw text, the words that are not empty.
Normal(raw) == LET words == SelectSeq(raw, LAMBDA w : w # "")
               IN  IF words = <<>> THEN <<"">> ELSE words

\* contains(): the words are somewhere in the text; an empty one at an end of
\* them stands for the space next to it.
WithinAt(words, text, i) ==
    \A j \in DOMAIN words : words[j] = text[i + j - 1] \/ (words[j] = "" /\ j \in {1, Len(words)})
Within(words, text) == \E i \in 1..Len(text) + 1 - Len(words) : WithinAt(words, text, i)

\* text(): an empty option has no text node.
HasNode(option) == option.raw # <<"">>

\* The first query of the method.
Found(dom, call) ==
    CASE call.how \in {"all", "all_selected", "first_selected"} -> Options(dom)
      [] call.how = "value"   -> {k \in DOMAIN dom : dom[k].value = call.value}
      [] call.how = "index"   -> ByIndex(dom, call.index)
      [] call.how = "visible" -> {k \in DOMAIN dom : Normal(dom[k].raw) = EscapeString(call.text)}
      [] call.how = "xpath"   -> {k \in DOMAIN dom : dom[k] \in call.condition}
      [] call.how = "exact"   -> {k \in DOMAIN dom : HasNode(dom[k]) /\ dom[k].raw = EscapeString(call.text)}
      [] call.how = "partial" -> {k \in DOMAIN dom : Within(EscapeString(call.text), dom[k].raw)}

\* set_selection_by_visible_text(), when that finds nothing and the text has a
\* space: options that may show it.
Candidates(dom, call) ==
    LET word == LongestToken(call.text)
    IN  IF word = "" THEN Options(dom)
        ELSE {k \in DOMAIN dom : Within(EscapeString(<<word>>), dom[k].raw)}

FallsBack(call) == call.how = "visible" /\ Len(call.text) > 1

\* assert!(self.multiple, ..)
Panics(multiple, call) == ~multiple /\ call.how \notin {"all_selected", "first_selected"}
                                    /\ \/ ~call.select /\ call.how # "xpath"
                                       \/ call.how = "all"

\* all_selected_options() and first_selected_option() look and do not click.
Reads(call) == call.how \in {"all_selected", "first_selected"}

\* Whether the method ends with an error when there is no such option.
Required(call) == call.how \notin {"all", "value", "all_selected"}

\* Mutant: every option that matches is set, in a single-select too.
StopsAtFirstNever(multiple, call) == call.how \in {"first_selected", "index"}

\* if !self.multiple { break }
StopsAtFirst(multiple, call) == \/ call.how \in {"first_selected", "index"}
                                \/ ~multiple /\ call.how \notin {"all", "all_selected"}

-----------------------------------------------------------------------------
(* The reference: what the documentation of the methods says, where they name
   an option by what it shows.  The queries go by the text in the document, so
   they can only be held to it where the document is shown as it is. *)

\* The option's words are shown as they are, whatever the space between them.
Unstyled(option) == option.shown = Normal(option.raw)

\* The option's text is shown as it is, and there is some.
AsWritten(option) == HasNode(option) /\ option.shown = option.raw

\* Where the methods do what is documented: by index, where no options are
\* grouped; by a text, or a longest word, that does not end with a quote after
\* both; by visible text, where no style changes a word, or where the text is not
\* in the document but the longest word is, of whoever shows it; by exact and by
\* partial text, where the space is normal, too.
Plain(dom, call) ==
    CASE call.how = "index" -> \A k \in DOMAIN dom : dom[k].group = dom[1].group
      [] call.how = "value" -> ~Both(<<call.value>>)
      [] call.how = "visible" ->
            LET word == LongestToken(call.text)
            IN  /\ ~Cut(call.text) /\ (FallsBack(call) => ~Cut(<<word>>))
                /\ \/ \A k \in DOMAIN dom : Unstyled(dom[k])
                   \/ /\ FallsBack(call)
                      /\ \A k \in DOMAIN dom : /\ Normal(dom[k].raw) # call.text
                                               /\ dom[k].shown = call.text => word = "" \/ Within(<<word>>, dom[k].raw)
      [] call.how \in {"exact", "partial"} -> ~Cut(call.text) /\ \A k \in DOMAIN dom : AsWritten(dom[k])
      [] OTHER -> TRUE

\* The options that a call names: by the text they show, by their value, by their
\* place, or by a condition.
Named(dom, call) ==
    CASE call.how = "value"   -> {k \in DOMAIN dom : dom[k].value = call.value}
      [] call.how = "index"   -> {call.index + 1} \cap DOMAIN dom
      [] call.how \in {"visible", "exact"} -> {k \in DOMAIN dom : dom[k].shown = call.text}
      [] call.how = "partial" -> {k \in DOMAIN dom : Within(call.text, dom[k].shown)}
      [] call.how = "xpath"   -> {k \in DOMAIN dom : dom[k] \in call.condition}
      [] OTHER                -> DOMAIN dom

\* What is selected afterwards: of a single-select, always one option.
Selection(dom, multiple, selected, call) ==
    LET named == Named(dom, call)
    IN  IF Reads(call) \/ named = {} THEN selected
        ELSE IF ~multiple THEN IF call.select THEN {Min(named)} ELSE selected
        ELSE IF call.select THEN selected \cup named ELSE selected \ named
=============================================================================
