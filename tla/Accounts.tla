------------------------------ MODULE Accounts ------------------------------
(***************************************************************************)
(* Users, invitations and sessions of a Go host: /api/setup, /api/login,   *)
(* /api/join, /api/invite, /api/logout and the commands "disable" and      *)
(* "user-role" (src/server.go).  Every handler runs under st.mu and        *)
(* commits one patch; the commit may fail and freeze the store, and the    *)
(* restart decides whether the patch happened, as in DurableStore.         *)
(***************************************************************************)
EXTENDS Integers, FiniteSets, Sequences

CONSTANTS
    Logins,      \* logins and passwords, as far as they tell people apart
    Roles,       \* the roles people are invited with or moved to
    Commands,    \* the disable and user-role commands clients send
    Remembered,  \* recentCommandLimit, how many commands Seen keeps
    MaxLog,      \* bound on the commands ever carried out
    MaxInvites,  \* bound on the invitations ever made
    MaxSessions  \* bound on the sessions ever made

ASSUME AccountsAssumption ==
    /\ Roles \subseteq {"admin", "manager", "operator", "viewer", "editor"}
    /\ Commands \subseteq [id : STRING, by : Nat, target : Nat \ {0}, role : Roles \cup {"disabled"}]
    /\ Remembered \in Nat \ {0}
    /\ MaxLog \in Nat /\ MaxInvites \in Nat /\ MaxSessions \in Nat

VARIABLES
    S,           \* users, invites, sessions and the recent commands of st.S
    doubt,       \* the state after the patch whose commit failed, or NoState
    frozen,      \* st.failed
    expired,     \* codes and tokens whose time is over
    known        \* history variable: what clients were given or told is done

vars == <<S, doubt, frozen, expired, known>>

NoState == [none |-> TRUE]

\* A user is a record [id, login, role, disabled], an invitation [code, role,
\* used] and a session [token, user].
\* Codes and tokens are random; here they are numbered as they are made.  seen is
\* Seen in the order of Seq.  made, the invitation each user came with, and log,
\* every command in the order it was carried out, are history variables.
Init ==
    /\ S = [users |-> {}, invites |-> {}, sessions |-> {},
            codes |-> 0, tokens |-> 0, seen |-> <<>>, made |-> {}, log |-> <<>>]
    /\ doubt = NoState
    /\ frozen = FALSE
    /\ expired = {}
    /\ known = {}

-----------------------------------------------------------------------------

Commit(s, answer) ==
    /\ ~frozen
    /\ \/ /\ S' = s
          /\ known' \in {known, known \cup answer}
          /\ UNCHANGED <<doubt, frozen>>
       \/ /\ doubt' = s
          /\ frozen' = TRUE
          /\ UNCHANGED <<S, known>>
    /\ UNCHANGED expired

\* Mutant of With: a user has one session at a time.
WithOnly(s, u) ==
    [s EXCEPT !.sessions = {x \in @ : x.user # u.id} \cup {[token |-> s.tokens + 1, user |-> u.id]},
              !.tokens = @ + 1]

\* sessionFor
With(s, u) ==
    [s EXCEPT !.sessions = @ \cup {[token |-> s.tokens + 1, user |-> u.id]},
              !.tokens = @ + 1]

CommitSession(s, u) ==
    /\ s.tokens < MaxSessions
    /\ Commit(With(s, u), {<<"session", s.tokens + 1>>})

\* userFrom
Authenticated(token, u) ==
    /\ [token |-> token, user |-> u.id] \in S.sessions
    /\ <<"session", token>> \notin expired
    /\ u \in S.users /\ ~u.disabled

InTeam(u) == u.role \in {"owner", "admin"}

NewUser(login, role) ==
    [id |-> Cardinality(S.users) + 1, login |-> login, role |-> role, disabled |-> FALSE]

LoginFree(login) == \A u \in S.users : u.login # login

-----------------------------------------------------------------------------

Setup(login) ==
    /\ S.users = {}
    /\ LET u == NewUser(login, "owner") IN
         CommitSession([S EXCEPT !.users = {u}], u)

Login(u) ==
    /\ u \in S.users /\ ~u.disabled
    /\ CommitSession(S, u)

\* Mutant of Usable: a used invitation is accepted until it expires.
Unexpired(i) == <<"invite", i.code>> \notin expired

Usable(i) == ~i.used /\ <<"invite", i.code>> \notin expired

Join(login, i) ==
    /\ LoginFree(login)
    /\ i \in S.invites /\ Usable(i)
    /\ LET u == NewUser(login, i.role) IN
         CommitSession([S EXCEPT !.users = @ \cup {u},
                                 !.invites = (@ \ {i}) \cup {[i EXCEPT !.used = TRUE]},
                                 !.made = @ \cup {<<i.code, u.id>>}], u)

MakeInvite(u, token, role) ==
    /\ Authenticated(token, u) /\ InTeam(u)
    /\ S.codes < MaxInvites
    /\ Commit([S EXCEPT !.invites = @ \cup {[code |-> S.codes + 1, role |-> role, used |-> FALSE]},
                        !.codes = @ + 1],
              {<<"invite", S.codes + 1>>})

\* A client that logs out forgets its token, whatever the answer is.
Logout(u, token) ==
    /\ Authenticated(token, u)
    /\ ~frozen
    /\ LET s == [S EXCEPT !.sessions = @ \ {[token |-> token, user |-> u.id]}] IN
         \/ S' = s /\ UNCHANGED <<doubt, frozen>>
         \/ doubt' = s /\ frozen' = TRUE /\ UNCHANGED S
    /\ known' = known \ {<<"session", token>>}
    /\ UNCHANGED expired

\* A command about goods or places: Warehouse models what it does, here it only
\* takes a place in Seen.
Movement == [id |-> "", by |-> 0, target |-> 0, role |-> "none"]

\* Mutant of Remember: room is made one command too early.
RememberFewer(seen, c) ==
    LET all == Append(seen, c)
    IN  IF Len(all) >= Remembered THEN Tail(all) ELSE all

\* pruneSeen: the oldest command makes room.
Remember(seen, c) ==
    LET all == Append(seen, c)
    IN  IF Len(all) > Remembered THEN Tail(all) ELSE all

Recorded(s, c) == [s EXCEPT !.seen = Remember(@, c), !.log = Append(@, c)]

\* A command is known by its user and its identifier, while Seen has it.
Recognised(c) == \E k \in 1..Len(S.seen) : S.seen[k].id = c.id /\ S.seen[k].by = c.by

WarehouseCommand(u, token) ==
    /\ Authenticated(token, u) /\ u.role # "viewer"
    /\ Len(S.log) < MaxLog
    /\ Commit(Recorded(S, Movement), {})

\* The command "disable", and "user-role" with the other values of c.role.
\* Mutant of Manageable: the owner is managed like everybody else.
Anyone(target) == target \in S.users

Manageable(target) == target \in S.users /\ target.role # "owner"

Managed(target, c) ==
    IF c.role = "disabled" THEN [target EXCEPT !.disabled = TRUE]
                           ELSE [target EXCEPT !.role = c.role]

\* A command may be new or come again: nothing but Seen tells the two apart.
Team(u, token, target, c) ==
    /\ Authenticated(token, u) /\ InTeam(u)
    /\ c.by = u.id /\ c.target = target.id
    /\ ~Recognised(c)
    /\ Manageable(target)
    /\ c.role = "disabled" => target.id # u.id
    /\ Len(S.log) < MaxLog
    /\ Commit(Recorded([S EXCEPT !.users = (@ \ {target}) \cup {Managed(target, c)}], c),
              {<<"command", c>>})

TeamAgain(u, token, c) ==
    /\ Authenticated(token, u)
    /\ c.by = u.id /\ \E k \in 1..Len(S.seen) : S.seen[k] = c
    /\ known' = known \cup {<<"command", c>>}
    /\ UNCHANGED <<S, doubt, frozen, expired>>

TimePasses ==
    /\ \/ \E i \in S.invites : expired' = expired \cup {<<"invite", i.code>>}
       \/ \E x \in S.sessions : expired' = expired \cup {<<"session", x.token>>}
    /\ UNCHANGED <<S, doubt, frozen, known>>

Restart ==
    /\ S' \in IF doubt = NoState THEN {S} ELSE {S, doubt}
    /\ doubt' = NoState
    /\ frozen' = FALSE
    /\ UNCHANGED <<expired, known>>

Next ==
    \/ \E login \in Logins : Setup(login) \/ \E i \in S.invites : Join(login, i)
    \/ \E u \in S.users : Login(u)
    \/ \E u \in S.users, x \in S.sessions :
          \/ Logout(u, x.token)
          \/ WarehouseCommand(u, x.token)
          \/ \E role \in Roles : MakeInvite(u, x.token, role)
          \/ \E c \in Commands :
                \/ \E target \in S.users : Team(u, x.token, target, c)
                \/ TeamAgain(u, x.token, c)
    \/ TimePasses
    \/ Restart

Spec == Init /\ [][Next]_vars

-----------------------------------------------------------------------------

\* The warehouse can always be managed and handed over: it has exactly one
\* owner, who cannot be disabled or moved to another role (server.go:1233).
OneOwner ==
    S.users # {} => /\ Cardinality({u \in S.users : u.role = "owner"}) = 1
                    /\ \A u \in S.users : u.role = "owner" => ~u.disabled

\* "One-time QR invitation" (README.md:22), through lost answers, failed writes
\* and restarts; and two people never get the same login.
InviteMakesOneUser ==
    /\ \A m, n \in S.made : m[1] = n[1] => m = n
    /\ \A u, v \in S.users : u.login = v.login => u = v
    /\ \A u \in S.users : u.role # "owner" => \E m \in S.made : m[2] = u.id

\* A client that was told its command is done can rely on it: nobody who was
\* disabled comes back, and a role stays until a later command about the same
\* person.  A command that comes again is that later command only after as many
\* others as Seen remembers (server.go:318-340, 999-1012); before, it undoes
\* nothing.
LastCommandHolds ==
    /\ \A k \in known : k[1] = "command" => \E n \in 1..Len(S.log) : S.log[n] = k[2]
    /\ \A m, n \in 1..Len(S.log) :
          m < n /\ S.log[m] = S.log[n] /\ S.log[n] # Movement => n - m > Remembered
    /\ \A n \in 1..Len(S.log) : S.log[n] # Movement =>
          LET c == S.log[n] IN
          \E u \in S.users :
              /\ u.id = c.target
              /\ c.role = "disabled" => u.disabled
              /\ c.role # "disabled" =>
                    \/ u.role = c.role
                    \/ \E m \in (n + 1)..Len(S.log) :
                          S.log[m].target = c.target /\ S.log[m].role # "disabled"

\* An invitation or a token that was handed out is in the state after any
\* failure and restart, until its user logs out (server.go:180).
HandedOutIsStored ==
    \A k \in known :
        /\ k[1] = "invite" => \E i \in S.invites : i.code = k[2]
        /\ k[1] = "session" => \E x \in S.sessions : x.token = k[2]
=============================================================================
