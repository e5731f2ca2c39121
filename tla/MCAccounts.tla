----------------------------- MODULE MCAccounts -----------------------------
(* The owner, number 1, and the people who join, 2 and 3.                  *)
EXTENDS Accounts, TLC

CONSTANTS boss, ann, bob

Symmetry == Permutations({boss, ann, bob})

MCLogins == {boss, ann, bob}

CommandOf(id, by, target, role) == [id |-> id, by |-> by, target |-> target, role |-> role]

\* The owner and an administrator move and disable the same person.
MCCommands ==
    { CommandOf("c1", 1, 2, "admin"), CommandOf("c2", 1, 2, "viewer"),
      CommandOf("c3", 1, 2, "disabled"), CommandOf("c1", 2, 1, "disabled"),
      CommandOf("c2", 2, 2, "disabled") }
=============================================================================
