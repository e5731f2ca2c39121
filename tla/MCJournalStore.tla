--------------------------- MODULE MCJournalStore ---------------------------
(* Instances of JournalStore for TLC.  The data is the sequence of patches *)
(* applied so far, so that a lost, repeated or reordered patch always      *)
(* leads to a different state.                                             *)
EXTENDS JournalStore

CONSTANTS pA, pB, old

MCData == UNION {[1..n -> Patch \cup {old}] : n \in 0..4}
MCApply(d, p) == IF Len(d) < 4 THEN Append(d, p) ELSE d   \* never reached at length 4
MCBlank == <<>>
MCImportSeqs == {0, 3}
MCImportData == {<<old>>, <<old, old>>}
MCHugeStates == {<<old, old>>}
MCOneFault == {{"process"}, {"power"}}
=============================================================================
