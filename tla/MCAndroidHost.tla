---------------------------- MODULE MCAndroidHost ---------------------------
(* Requests in flight at the same time.                                    *)
EXTENDS AndroidHost

CONSTANTS boss, ann, bob, inv, c1, c2

MCMembers == {ann, bob}
MCInvites == {inv}

CommandOf(u, c, copy) == [kind |-> "command", u |-> u, id |-> c, copy |-> copy]
DisableOf(u, c) == [kind |-> "disable", u |-> u, id |-> c]
LoginOf(u) == [kind |-> "login", u |-> u]
JoinOf(u) == [kind |-> "join", u |-> u, i |-> inv]
InviteOf(i) == [kind |-> "invite", i |-> i]
LogoutOf(u) == [kind |-> "logout", login |-> LoginOf(u)]
Simple(k) == [kind |-> k]
Prepare(n) == [kind |-> "prepare", n |-> n]

\* Commands with a copy, more of them than are remembered, and a user who is
\* disabled while logging in.
People == {CommandOf(ann, c1, 1), CommandOf(ann, c1, 2), DisableOf(bob, c2), LoginOf(bob),
           LoginOf(ann), LogoutOf(bob)}

\* One invitation for two people, and a transfer that is prepared twice.
Moves == {InviteOf(inv), JoinOf(ann), JoinOf(bob), CommandOf(boss, c1, 1),
          Prepare(1), Prepare(2), Simple("cancel"), Simple("confirm")}


\* A log-in and a log-out across a transfer.
Across == {LoginOf(bob), LogoutOf(bob), DisableOf(ann, c2), JoinOf(bob), InviteOf(inv),
           Prepare(1), Simple("cancel"), Simple("confirm")}

MCBatches == {People, Moves, Across}
Everything == UNION MCBatches

WithLogin == {CommandOf(ann, c1, 1), LoginOf(bob), JoinOf(bob), InviteOf(inv)}
MCLogin == {WithLogin}
=============================================================================
