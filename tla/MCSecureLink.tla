----------------------------- MODULE MCSecureLink ----------------------------
(* Envelopes of one page around the limits of the cache.                   *)
EXTENDS SecureLink, TLC

CONSTANTS e1, e2, e3, e4

MCIds == {e1, e2, e3, e4}

\* Envelopes and the time to forget them, from a page whose clock is right or
\* ahead by as much as is accepted; and answers in any order, the role moving.
MCLives ==
    {[envelopes |-> 3, kinds |-> {"login"}, ahead |-> {0, 1}, moves |-> FALSE, time |-> 4],
     [envelopes |-> 4, kinds |-> {"login", "state", "command"}, ahead |-> {0}, moves |-> TRUE, time |-> 0]}

Alike == Permutations(MCIds)
=============================================================================
