---------------------------- MODULE FailureReport ----------------------------
(***************************************************************************)
(* How FailureArtifactCollector bounds what it keeps                       *)
(* (thirtyfour/src/testing/artifacts.rs): pure functions of texts and of   *)
(* LogLimits.                                                              *)
(*                                                                         *)
(* A text is the sequence of the widths of its characters in UTF-8, which  *)
(* is all that the limits, counted in bytes, can tell.                     *)
(***************************************************************************)
EXTENDS Naturals, Sequences, SequencesExt

CONSTANTS
  Omitted,  \* the width of the marker that stands for what was left out
  None      \* no source in a browser log entry

ASSUME OmittedAssumption == Omitted \in Nat

LogLimits == [max_entries : Nat, max_entry_text_bytes : Nat, max_total_text_bytes : Nat]

Limits(entries, entry_bytes, total_bytes) ==
  [max_entries |-> entries, max_entry_text_bytes |-> entry_bytes, max_total_text_bytes |-> total_bytes]

Least(a, b) == IF a < b THEN a ELSE b

Bytes(text) == FoldLeft(+, 0, text)
Total(texts) == FoldLeft(LAMBDA n, text : n + Bytes(text), 0, texts)

(* truncate_prefix: down to a boundary between characters. *)
TruncatePrefix(text, max) ==
  LET fits == {k \in 0 .. Len(text) : Bytes(SubSeq(text, 1, k)) <= max}
  IN  SubSeq(text, 1, CHOOSE k \in fits : \A j \in fits : j <= k)

TruncateSuffix(text, max) == Reverse(TruncatePrefix(Reverse(text), max))

(* truncate_middle: both ends and the marker; a limit that has no room for
   the marker leaves a prefix. *)
TruncateMiddle(text, max) ==
  IF Bytes(text) <= max THEN text
  ELSE IF max <= Omitted THEN TruncatePrefix(text, max)
  ELSE LET payload == max - Omitted
       IN  TruncatePrefix(text, (payload + 1) \div 2) \o <<Omitted>> \o TruncateSuffix(text, payload \div 2)

-----------------------------------------------------------------------------
(* DriverProcessLogBuffer: the lines of the driver process *)

(* The line as it is kept. *)
Cut(text, limits) == TruncatePrefix(text, Least(limits.max_entry_text_bytes, limits.max_total_text_bytes))

(* Mutant: a buffer that is full takes nothing more. *)
PushKeepsOldest(buffer, text, limits) ==
  IF Len(buffer) < limits.max_entries /\ Total(buffer) + Bytes(Cut(text, limits)) <= limits.max_total_text_bytes
  THEN Append(buffer, Cut(text, limits))
  ELSE buffer

(* push: the oldest go until the new one has room. *)
Push(buffer, text, limits) ==
  LET line    == Cut(text, limits)
      from(k) == SubSeq(buffer, k + 1, Len(buffer))
      room    == {k \in 0 .. Len(buffer) :
                    \/ k = Len(buffer)
                    \/ /\ Len(from(k)) < limits.max_entries
                       /\ Total(from(k)) + Bytes(line) <= limits.max_total_text_bytes}
      kept    == from(CHOOSE k \in room : \A j \in room : k <= j)
  IN  IF limits.max_entries > 0 /\ limits.max_total_text_bytes > 0
      THEN Append(kept, line) ELSE kept

-----------------------------------------------------------------------------
(* The entries of the browser's log: <<level, source, message>> *)

Entries == Seq(Nat) \X (Seq(Nat) \cup {None}) \X Seq(Nat)

Texts(entry) == IF entry[2] = None THEN <<entry[1], entry[3]>> ELSE entry

(* bound_browser_logs, for one entry: an eighth of the room for its level, an
   eighth for its source, the rest for the message. *)
Bounded(entry, allowed) ==
  LET level   == TruncatePrefix(entry[1], allowed \div 8)
      source  == IF entry[2] = None THEN None ELSE TruncatePrefix(entry[2], allowed \div 8)
      used    == Bytes(level) + (IF entry[2] = None THEN 0 ELSE Bytes(source))
  IN  <<level, source, TruncatePrefix(entry[3], allowed - Least(used, allowed))>>

LogBytes(entries) == FoldLeft(LAMBDA n, e : n + Total(Texts(e)), 0, entries)

(* From the newest entry back, while there is room. *)
BoundBrowserLogs(entries, limits) ==
  FoldLeft(LAMBDA kept, e :
             LET total == LogBytes(kept)
             IN  IF Len(kept) >= limits.max_entries \/ total >= limits.max_total_text_bytes THEN kept
                 ELSE <<Bounded(e, Least(limits.max_entry_text_bytes, limits.max_total_text_bytes - total))>> \o kept,
           <<>>, Reverse(entries))

=============================================================================
