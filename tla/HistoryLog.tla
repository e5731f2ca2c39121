----------------------------- MODULE HistoryLog -----------------------------
(***************************************************************************)
(* What the history of a personal warehouse promises, whatever segments it *)
(* is kept in: it is extended at its end by events with new identifiers,   *)
(* or replaced as a whole by a history this warehouse had before.          *)
(***************************************************************************)
EXTENDS Sequences, SequencesExt, FiniteSets

VARIABLES
    log,    \* the history of the stored warehouse
    kept    \* the histories of copies, pages and files

Distinct(l) == Cardinality({l[i].id : i \in DOMAIN l}) = Len(l)

Init == Distinct(log) /\ kept \subseteq {log, << >>}

Extend == IsPrefix(log, log') /\ Distinct(log')

Replace == log' \in kept \cup {<< >>}

Next == (Extend \/ Replace) /\ kept' \subseteq kept \cup {log, log', << >>}

Spec == Init /\ [][Next]_<<log, kept>>
=============================================================================
