---------------------------- MODULE DurableStore ----------------------------
(***************************************************************************)
(* What the journal promises to the request handlers: a state that changes *)
(* one patch at a time.  A patch whose write has begun is in doubt until   *)
(* commit() returns.  If it returns an error the store is frozen until a   *)
(* restart, and the restart decides once and for all whether the patch in  *)
(* doubt happened.  Nothing else is ever lost, added or reordered.         *)
(***************************************************************************)
EXTENDS StoreState

VARIABLES
    live,     \* the state handlers read
    doubt,    \* the patch whose fate is not known, or None
    frozen    \* commit() refuses every patch

dvars == <<live, doubt, frozen>>

DTypeOK ==
    /\ live \in State
    /\ doubt \in Entry \cup {None}
    /\ frozen \in BOOLEAN

DInit ==
    /\ \/ live = BlankState
       \/ \E p \in Patch : live = [seq |-> 1, data |-> Apply(Blank, p)]
    /\ doubt = None
    /\ frozen = FALSE

Outcome == IF doubt = None THEN live ELSE After(live, doubt, live.seq + 1)

Begin == /\ doubt = None
         /\ doubt' \in Entry
         /\ frozen' \in BOOLEAN
         /\ UNCHANGED live

Commit == /\ doubt # None
          /\ ~frozen
          /\ live' = Outcome
          /\ doubt' = None
          /\ UNCHANGED frozen

Freeze == /\ doubt # None
          /\ frozen' = TRUE
          /\ UNCHANGED <<live, doubt>>

Restart == /\ live' \in {live, Outcome}
           /\ doubt' = None
           /\ frozen' = FALSE

DNext == Begin \/ Commit \/ Freeze \/ Restart

DSpec == DInit /\ [][DNext]_dvars
=============================================================================
