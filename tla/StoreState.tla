----------------------------- MODULE StoreState -----------------------------
(***************************************************************************)
(* The state the Go host keeps in memory and the patches that change it,   *)
(* as far as the store itself looks at them: a sequence number, the rest   *)
(* of the state as opaque data, and two kinds of patch.                    *)
(***************************************************************************)
EXTENDS Integers, Sequences

CONSTANTS
    Data,          \* everything in State besides Seq
    Blank,         \* the data of blankState()
    Patch,         \* ordinary patches
    Apply(_, _)    \* what apply() does to the data for an ordinary patch

ASSUME StateAssumption ==
    /\ Blank \in Data
    /\ \A d \in Data, p \in Patch : Apply(d, p) \in Data

State == [seq : Nat, data : Data]

BlankState == [seq |-> 0, data |-> Blank]

\* A patch either changes the state or (Full, used by /api/transfer/import and
\* by the rewrite of a 1.0 journal) replaces it, sequence number included.
Entry ==      [full : {FALSE}, seq : {0},        body : Patch]
         \cup [full : {TRUE},  seq : Nat, body : Data]

\* The state after a patch that commit() numbered n.
After(s, e, n) ==
    IF e.full THEN [seq |-> e.seq, data |-> e.body]
              ELSE [seq |-> n, data |-> Apply(s.data, e.body)]

None == [none |-> TRUE]
=============================================================================
