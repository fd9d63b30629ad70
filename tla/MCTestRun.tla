------------------------------- MODULE MCTestRun -------------------------------
EXTENDS TestRun

\* A line of three bytes that is cut to one in front of its second character,
\* and one of four that is cut to two.  Two lines may be too many bytes, three
\* are always one too many.
MCLines == {<<1, 2>>, <<2, 2>>}
MCProcessLimits == Limits(2, 2, 3)

\* Entries without and with a source, and logs that are too long: one by its
\* bytes, one by its number, with a newest entry that is too long by itself.
MCBrowserLimits == Limits(3, 16, 20)
MCPages == {<<1, 1, 1>>, <<2, 1, 2, 1, 2>>}
MCBrowserLogs ==
  LET Short == <<<<1, 1>>, None, <<2, 1>>>>
      Long  == <<<<1, 2>>, <<2, 2>>, <<2, 2, 1, 2, 2, 2, 2, 2>>>>
      Tiny  == <<<<1>>, <<1>>, <<2, 2, 2, 2, 2, 2, 1>>>>
  IN  {<<>>, <<Short, Long, Tiny>>, <<Tiny, Tiny, Short, Long>>}

\* While the test's body runs, two lines, or three if nobody else listens and all
\* are on one stream; one while nothing fails, none elsewhere.
Focused ==
  LET written == Len(output["stdout"]) + Len(output["stderr"])
      calm    == faults = 0 /\ report = NoReport /\ result = "none"
      alone   == /\ \A x \in Listeners \ {Collector} : sub[x] = "out"
                 /\ output["stderr"] = <<>>
  IN  written <= IF ~calm THEN 0 ELSE IF phase = "body" /\ ~quitCell THEN IF alone THEN 3 ELSE 2 ELSE 1
=============================================================================
