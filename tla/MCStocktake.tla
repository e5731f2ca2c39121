----------------------------- MODULE MCStocktake -----------------------------
(* One page with failing writes and reloads, in both modes, and two pages   *)
(* that share the stored draft.                                             *)
EXTENDS Stocktake

CONSTANTS first, second, nut, bolt

MCCounts == {0, 1}

OneLocal == [mode |-> "local", pages |-> {first}, items |-> {nut, bolt},
             drafts |-> 2, moves |-> 1, losses |-> 0, failures |-> 1, reloads |-> 1]
OneRemote == [OneLocal EXCEPT !.mode = "remote", !.drafts = 1, !.losses = 1]
TwoRemote == [OneRemote EXCEPT !.pages = {first, second}, !.items = {nut}, !.moves = 0,
                                 !.losses = 0, !.failures = 0]
TwoLocal == [TwoRemote EXCEPT !.mode = "local", !.drafts = 2]

MCLives == {OneLocal, OneRemote, TwoRemote, TwoLocal}
=============================================================================
