--------------------------- MODULE AccountsProofs ---------------------------
(***************************************************************************)
(* One owner, one user per invitation, commands that hold and nothing lost *)
(* that was handed out: for any number of people, invitations, sessions    *)
(* and commands, whatever is repeated, whichever write fails.              *)
(***************************************************************************)
EXTENDS Accounts, FiniteSetTheorems, SequenceTheorems, TLAPS

Person == [id : Nat, login : Logins, role : Roles \cup {"owner"}, disabled : BOOLEAN]

\* What is recorded when a command is carried out.
Entry == Commands \cup {Movement}

AccountState ==
    [users : SUBSET Person, invites : SUBSET [code : Nat, role : Roles, used : BOOLEAN],
     sessions : SUBSET [token : Nat, user : Nat], codes : Nat, tokens : Nat,
     seen : Seq(Entry), made : SUBSET (Nat \X Nat), log : Seq(Entry)]

\* People are numbered as they come, and told apart by number and by login.
Distinct(s) ==
    /\ IsFiniteSet(s.users)
    /\ \A u \in s.users : u.id <= Cardinality(s.users)
    /\ \A u, v \in s.users : u.id = v.id \/ u.login = v.login => u = v

Owned(s) ==
    s.users # {} => \E o \in s.users :
                        ~o.disabled /\ \A u \in s.users : u.role = "owner" <=> u = o

\* An invitation somebody came with is used, so that nobody comes with it again.
Invited(s) ==
    /\ s.invites # {} => s.users # {}
    /\ \A i \in s.invites : i.code <= s.codes
    /\ \A i, j \in s.invites : i.code = j.code => i = j
    /\ \A m \in s.made : \E i \in s.invites : i.code = m[1] /\ i.used
    /\ \A m, n \in s.made : m[1] = n[1] => m = n
    /\ \A u \in s.users : u.role # "owner" => \E m \in s.made : m[2] = u.id

\* The n-th command did what it says to u, and what it did was not undone.
Effective(s, n, u) ==
    /\ u.id = s.log[n].target
    /\ s.log[n].role = "disabled" => u.disabled
    /\ s.log[n].role # "disabled" =>
          \/ u.role = s.log[n].role
          \/ \E m \in (n + 1)..Len(s.log) :
                s.log[m].target = s.log[n].target /\ s.log[m].role # "disabled"

\* Seen is the end of the history: all of it, or the last Remembered commands.
Window(s) ==
    /\ Len(s.seen) = IF Len(s.log) <= Remembered THEN Len(s.log) ELSE Remembered
    /\ \A k \in 1..Len(s.seen) : s.seen[k] = s.log[Len(s.log) - Len(s.seen) + k]

\* A command is carried out again only when Seen cannot have it any more.
Apart(s) ==
    \A m, n \in 1..Len(s.log) :
        m < n /\ s.log[m] = s.log[n] /\ s.log[n] # Movement => n - m > Remembered

Obeyed(s) ==
    /\ Window(s) /\ Apart(s)
    /\ \A n \in 1..Len(s.log) : s.log[n] # Movement => \E u \in s.users : Effective(s, n, u)

Good(s) == s \in AccountState /\ Distinct(s) /\ Owned(s) /\ Invited(s) /\ Obeyed(s)

\* What was handed out or told is in the state.
Keeps(s, given) ==
    \A k \in given :
        /\ k = <<k[1], k[2]>>
        /\ k[1] = "command" => \E n \in 1..Len(s.log) : s.log[n] = k[2]
        /\ k[1] = "invite" => \E i \in s.invites : i.code = k[2]
        /\ k[1] = "session" => \E x \in s.sessions : x.token = k[2]

KeepsLog(s, t) == \A n \in 1..Len(s.log) : \E m \in 1..Len(t.log) : t.log[m] = s.log[n]

\* Both states a restart may bring up are right.  While one is in doubt nothing
\* is changed, but commands may be told to be done, which are in both.
IInv ==
    /\ Good(S) /\ Keeps(S, known)
    /\ doubt # NoState => frozen /\ Good(doubt) /\ Keeps(doubt, known) /\ KeepsLog(S, doubt)

-----------------------------------------------------------------------------

LEMMA InitInv == Init => IInv
<1> SUFFICES ASSUME Init PROVE IInv
  OBVIOUS
<1>1. S = [users |-> {}, invites |-> {}, sessions |-> {},
           codes |-> 0, tokens |-> 0, seen |-> <<>>, made |-> {}, log |-> <<>>]
      /\ known = {} /\ doubt = NoState
  BY DEF Init
<1>2. S \in AccountState
  BY <1>1 DEF AccountState
<1>3. Distinct(S) /\ Owned(S) /\ Invited(S) /\ Obeyed(S)
  BY <1>1, FS_EmptySet, AccountsAssumption DEF Distinct, Owned, Invited, Obeyed, Window, Apart
<1> QED
  BY <1>1, <1>2, <1>3 DEF IInv, Good, Keeps

\* A commit keeps the invariant if the state it stores is right and lacks nothing.
LEMMA CommitInv ==
    ASSUME IInv, NEW s, NEW answer, Commit(s, answer),
           Good(s), Keeps(s, known \cup answer), KeepsLog(S, s)
    PROVE  IInv'
<1>1. Keeps(s, known)
  BY DEF Keeps
<1>2. CASE S' = s /\ known' \in {known, known \cup answer} /\ UNCHANGED <<doubt, frozen>>
  BY <1>1, <1>2 DEF Commit, IInv
<1>3. CASE doubt' = s /\ frozen' = TRUE /\ UNCHANGED <<S, known>>
  BY <1>1, <1>3 DEF IInv
<1> QED
  BY <1>2, <1>3 DEF Commit

-----------------------------------------------------------------------------
(* Each operation: the state it stores *)

\* Whoever is added, what the commands did stays done.
LEMMA ObeyedStays ==
    ASSUME NEW s, NEW t, Obeyed(s), t.log = s.log, t.seen = s.seen,
           \A u \in s.users : u \in t.users
    PROVE  Obeyed(t)
<1>1. Window(t) /\ Apart(t)
  BY DEF Obeyed, Window, Apart
<1>2. ASSUME NEW n \in 1..Len(t.log), t.log[n] # Movement
      PROVE  \E u \in t.users : Effective(t, n, u)
  <2>1. PICK u \in s.users : Effective(s, n, u)
    BY <1>2 DEF Obeyed
  <2> QED
    BY <2>1 DEF Effective
<1> QED
  BY <1>1, <1>2 DEF Obeyed

\* A new session touches nothing else.
LEMMA WithGood ==
    ASSUME NEW s, Good(s), NEW u, u.id \in Nat
    PROVE  /\ Good(With(s, u))
           /\ \A x \in s.sessions : x \in With(s, u).sessions
           /\ \E x \in With(s, u).sessions : x.token = s.tokens + 1
           /\ With(s, u).invites = s.invites /\ With(s, u).log = s.log
           /\ With(s, u).users = s.users /\ With(s, u).made = s.made
<1> DEFINE t == With(s, u)
           x == [token |-> s.tokens + 1, user |-> u.id]
<1>1. s \in AccountState /\ s.tokens \in Nat
  BY DEF Good, AccountState
<1>2. x \in [token : Nat, user : Nat]
  BY <1>1
<1>3. /\ t.users = s.users /\ t.invites = s.invites /\ t.sessions = s.sessions \cup {x}
      /\ t.codes = s.codes /\ t.made = s.made /\ t.log = s.log
      /\ t.seen = s.seen
  BY <1>1 DEF With, AccountState
<1>4. t \in AccountState
  BY <1>1, <1>2 DEF With, AccountState
<1> HIDE DEF t
<1>5. Distinct(t) /\ Owned(t) /\ Invited(t)
  BY <1>3 DEF Good, Distinct, Owned, Invited
<1>5a. Obeyed(t)
  BY <1>3, ObeyedStays DEF Good
<1>6. Good(t)
  BY <1>4, <1>5, <1>5a DEF Good
<1>7. x.token = s.tokens + 1 /\ x \in t.sessions
  BY <1>3
<1> HIDE DEF x
<1> QED
  BY <1>3, <1>6, <1>7 DEF t

\* A session of somebody is stored together with what the operation did to s.
LEMMA SessionInv ==
    ASSUME IInv, NEW s, NEW u, u.id \in Nat, CommitSession(s, u),
           Good(s), Keeps(s, known), KeepsLog(S, s)
    PROVE  IInv'
<1> DEFINE t == With(s, u)
           answer == {<<"session", s.tokens + 1>>}
<1>1. /\ Good(t) /\ \A x \in s.sessions : x \in t.sessions
      /\ \E x \in t.sessions : x.token = s.tokens + 1
      /\ t.invites = s.invites /\ t.log = s.log
  BY WithGood
<1>2. Commit(t, answer)
  BY DEF CommitSession
<1> HIDE DEF t
<1>3. Keeps(t, known \cup answer) /\ KeepsLog(S, t)
  BY <1>1 DEF Keeps, KeepsLog
<1> QED
  BY <1>1, <1>2, <1>3, CommitInv

LEMMA KeepsOwnLog == KeepsLog(S, S)
  BY DEF KeepsLog

LEMMA NewUserType ==
    ASSUME Good(S), NEW login \in Logins, NEW role \in Roles \cup {"owner"}
    PROVE  /\ NewUser(login, role) \in Person
           /\ NewUser(login, role).id = Cardinality(S.users) + 1
           /\ Cardinality(S.users) \in Nat
           /\ \A u \in S.users : u.id \in Nat /\ u.id # NewUser(login, role).id
<1>1. Cardinality(S.users) \in Nat
  BY FS_CardinalityType DEF Good, Distinct
<1>2. \A u \in S.users : u.id \in Nat /\ u.id <= Cardinality(S.users)
  BY DEF Good, AccountState, Person, Distinct
<1> QED
  BY <1>1, <1>2 DEF NewUser, Person

\* Setup makes the owner of a warehouse nobody had yet.
LEMMA SetupInv == ASSUME IInv, NEW login \in Logins, Setup(login) PROVE IInv'
<1> DEFINE u == NewUser(login, "owner")
           s == [S EXCEPT !.users = {u}]
<1>1. Good(S) /\ S \in AccountState /\ S.users = {} /\ CommitSession(s, u) /\ Keeps(S, known)
  BY DEF IInv, Good, Setup
<1>2. u \in Person /\ u.id = 1 /\ u.role = "owner" /\ ~u.disabled
  BY <1>1, NewUserType, FS_EmptySet DEF NewUser
<1>3. /\ s.users = {u} /\ s.invites = S.invites /\ s.sessions = S.sessions
      /\ s.codes = S.codes /\ s.made = S.made /\ s.log = S.log /\ s.seen = S.seen
  BY <1>1 DEF AccountState
<1>4. s \in AccountState
  BY <1>1, <1>2 DEF AccountState
<1> HIDE DEF s, u
<1>5. Distinct(s)
  <2>1. IsFiniteSet({u}) /\ Cardinality({u}) = 1
    BY FS_Singleton
  <2> QED
    BY <1>2, <1>3, <2>1 DEF Distinct
<1>6. Owned(s)
  BY <1>2, <1>3 DEF Owned
<1>7. Invited(s)
  BY <1>1, <1>2, <1>3 DEF Good, Invited
<1>8. Obeyed(s)
  BY <1>1, <1>3, ObeyedStays DEF Good
<1>9. Keeps(s, known) /\ KeepsLog(S, s)
  BY <1>1, <1>3 DEF Keeps, KeepsLog
<1> QED
  BY <1>1, <1>2, <1>4, <1>5, <1>6, <1>7, <1>8, <1>9, SessionInv DEF Good

LEMMA LoginInv == ASSUME IInv, NEW u \in S.users, Login(u) PROVE IInv'
<1>1. Good(S) /\ Keeps(S, known) /\ u.id \in Nat
  BY DEF IInv, Good, AccountState, Person
<1> QED
  BY <1>1, SessionInv, KeepsOwnLog DEF Login

\* Somebody joins: the invitation was unused, so nobody came with it before.
LEMMA JoinInv ==
    ASSUME IInv, NEW login \in Logins, NEW i \in S.invites, Join(login, i)
    PROVE  IInv'
<1> DEFINE u == NewUser(login, i.role)
           used == [i EXCEPT !.used = TRUE]
           s == [S EXCEPT !.users = @ \cup {u},
                          !.invites = (@ \ {i}) \cup {used},
                          !.made = @ \cup {<<i.code, u.id>>}]
<1>1. /\ Good(S) /\ S \in AccountState /\ Keeps(S, known)
      /\ LoginFree(login) /\ ~i.used /\ CommitSession(s, u)
  BY DEF IInv, Good, Join, Usable
<1>2. i \in [code : Nat, role : Roles, used : BOOLEAN]
  BY <1>1 DEF AccountState
<1>3. i.role # "owner"
  BY <1>2, AccountsAssumption
<1>4. /\ u \in Person /\ u.id = Cardinality(S.users) + 1 /\ Cardinality(S.users) \in Nat
      /\ \A v \in S.users : v.id \in Nat /\ v.id # u.id
  BY <1>1, <1>2, NewUserType
<1>5. u.login = login /\ u.role = i.role
  BY DEF NewUser
<1>6. used \in [code : Nat, role : Roles, used : BOOLEAN] /\ used.code = i.code /\ used.used
  BY <1>2
<1>7. /\ s.users = S.users \cup {u} /\ s.invites = (S.invites \ {i}) \cup {used}
      /\ s.sessions = S.sessions /\ s.codes = S.codes
      /\ s.made = S.made \cup {<<i.code, u.id>>} /\ s.log = S.log /\ s.seen = S.seen
  BY <1>1 DEF AccountState
<1>8. s \in AccountState
  <2>1. <<i.code, u.id>> \in Nat \X Nat
    BY <1>2, <1>4
  <2> HIDE DEF u, used
  <2> QED
    BY <1>1, <1>4, <1>6, <2>1 DEF AccountState
<1> HIDE DEF s, u, used
<1>9. Distinct(s)
  <2>1. IsFiniteSet(S.users) /\ u \notin S.users
    BY <1>1, <1>4 DEF Good, Distinct
  <2>2. /\ IsFiniteSet(S.users \cup {u})
        /\ Cardinality(S.users \cup {u}) = Cardinality(S.users) + 1
    BY <2>1, FS_AddElement
  <2>3. \A v \in S.users : v.login # u.login
    BY <1>1, <1>5 DEF LoginFree
  <2>4. /\ \A v \in S.users : v.id <= Cardinality(S.users)
        /\ \A v, w \in S.users : v.id = w.id \/ v.login = w.login => v = w
    BY <1>1 DEF Good, Distinct
  <2>5. IsFiniteSet(s.users) /\ Cardinality(s.users) = Cardinality(S.users) + 1
    BY <1>7, <2>2
  <2>6. \A v \in s.users : v.id <= Cardinality(s.users)
    BY <1>4, <1>7, <2>4, <2>5
  <2>7. \A v, w \in s.users : v.id = w.id \/ v.login = w.login => v = w
    BY <1>4, <1>7, <2>3, <2>4
  <2> QED
    BY <2>5, <2>6, <2>7 DEF Distinct
<1>10. Owned(s)
  <2>1. S.users # {}
    BY <1>1 DEF Good, Invited
  <2> QED
    BY <1>1, <1>3, <1>5, <1>7, <2>1 DEF Good, Owned
<1>11. Invited(s)
  <2>1. \A m \in S.made : m[1] # i.code
    BY <1>1 DEF Good, Invited
  <2>2. \A m \in S.made : \E j \in s.invites : j.code = m[1] /\ j.used
    BY <1>1, <1>7, <2>1 DEF Good, Invited
  <2>3. <<i.code, u.id>>[1] = i.code /\ <<i.code, u.id>>[2] = u.id
    OBVIOUS
  <2> DEFINE new == <<i.code, u.id>>
  <2> HIDE DEF new
  <2>4. new[1] = i.code /\ new[2] = u.id /\ s.made = S.made \cup {new}
    BY <1>7, <2>3 DEF new
  <2>5. \A j \in s.invites : j.code <= s.codes
    BY <1>1, <1>6, <1>7 DEF Good, Invited
  <2>6. \A j, k \in s.invites : j.code = k.code => j = k
    BY <1>1, <1>6, <1>7 DEF Good, Invited
  <2>7. \A m \in s.made : \E j \in s.invites : j.code = m[1] /\ j.used
    BY <1>6, <1>7, <2>2, <2>4
  <2>8. \A m, n \in s.made : m[1] = n[1] => m = n
    BY <1>1, <2>1, <2>4 DEF Good, Invited
  <2>9. \A v \in s.users : v.role # "owner" => \E m \in s.made : m[2] = v.id
    BY <1>1, <1>7, <2>4 DEF Good, Invited
  <2> QED
    BY <1>7, <2>5, <2>6, <2>7, <2>8, <2>9 DEF Invited
<1>12. Obeyed(s)
  BY <1>1, <1>7, ObeyedStays DEF Good
<1>13. Keeps(s, known) /\ KeepsLog(S, s)
  BY <1>1, <1>6, <1>7 DEF Keeps, KeepsLog
<1>14. u.id \in Nat
  BY <1>4
<1> QED
  BY <1>1, <1>8, <1>9, <1>10, <1>11, <1>12, <1>13, <1>14, SessionInv DEF Good

LEMMA MakeInviteInv ==
    ASSUME IInv, NEW u \in S.users, NEW token, NEW role \in Roles, MakeInvite(u, token, role)
    PROVE  IInv'
<1> DEFINE i == [code |-> S.codes + 1, role |-> role, used |-> FALSE]
           s == [S EXCEPT !.invites = @ \cup {i}, !.codes = @ + 1]
           answer == {<<"invite", S.codes + 1>>}
<1>1. Good(S) /\ S \in AccountState /\ S.codes \in Nat /\ Keeps(S, known) /\ Commit(s, answer)
  BY DEF IInv, Good, AccountState, MakeInvite
<1>2. i \in [code : Nat, role : Roles, used : BOOLEAN] /\ i.code = S.codes + 1 /\ ~i.used
  BY <1>1
<1>3. /\ s.users = S.users /\ s.invites = S.invites \cup {i} /\ s.sessions = S.sessions
      /\ s.codes = S.codes + 1 /\ s.made = S.made /\ s.log = S.log /\ s.seen = S.seen
  BY <1>1 DEF AccountState
<1> HIDE DEF i
<1>4. s \in AccountState
  BY <1>1, <1>2 DEF AccountState
<1>5. \A j \in S.invites : j.code \in Nat
  BY <1>1 DEF AccountState
<1> HIDE DEF s
<1>6. Distinct(s) /\ Owned(s)
  BY <1>1, <1>3 DEF Good, Distinct, Owned
<1>6a. Obeyed(s)
  BY <1>1, <1>3, ObeyedStays DEF Good
<1>7. Invited(s)
  <2>1. \A j \in S.invites : j.code <= S.codes
    BY <1>1 DEF Good, Invited
  <2>2. \A j \in s.invites : j.code <= s.codes
    BY <1>1, <1>2, <1>3, <1>5, <2>1
  <2>3. \A j, k \in s.invites : j.code = k.code => j = k
    BY <1>1, <1>2, <1>3, <1>5, <2>1 DEF Good, Invited
  <2> QED
    BY <1>1, <1>3, <2>2, <2>3 DEF Good, Invited
<1>8. Keeps(s, known \cup answer) /\ KeepsLog(S, s)
  BY <1>1, <1>2, <1>3 DEF Keeps, KeepsLog
<1> QED
  BY <1>1, <1>4, <1>6, <1>6a, <1>7, <1>8, CommitInv DEF Good

\* Only the token the client forgets is taken out.
LEMMA LogoutInv == ASSUME IInv, NEW u \in S.users, NEW token, Logout(u, token) PROVE IInv'
<1> DEFINE x == [token |-> token, user |-> u.id]
           s == [S EXCEPT !.sessions = @ \ {x}]
<1>1. /\ Good(S) /\ S \in AccountState /\ Keeps(S, known) /\ ~frozen /\ doubt = NoState
      /\ known' = known \ {<<"session", token>>}
  BY DEF IInv, Good, Logout
<1>2. \/ S' = s /\ UNCHANGED <<doubt, frozen>>
      \/ doubt' = s /\ frozen' = TRUE /\ UNCHANGED S
  BY DEF Logout
<1>3. /\ s.users = S.users /\ s.invites = S.invites /\ s.sessions = S.sessions \ {x}
      /\ s.codes = S.codes /\ s.made = S.made /\ s.log = S.log /\ s.seen = S.seen
  BY <1>1 DEF AccountState
<1>4. s \in AccountState
  BY <1>1 DEF AccountState
<1>5. x.token = token
  OBVIOUS
<1> HIDE DEF s, x
<1>6. Distinct(s) /\ Owned(s) /\ Invited(s)
  BY <1>1, <1>3 DEF Good, Distinct, Owned, Invited
<1>6a. Obeyed(s)
  BY <1>1, <1>3, ObeyedStays DEF Good
<1>7. Keeps(S, known') /\ KeepsLog(S, s)
  BY <1>1, <1>3 DEF Keeps, KeepsLog
<1>8. Keeps(s, known')
  BY <1>1, <1>3, <1>5 DEF Keeps
<1> QED
  BY <1>1, <1>2, <1>4, <1>6, <1>6a, <1>7, <1>8 DEF IInv, Good

-----------------------------------------------------------------------------
(* The team *)

\* No command about a person is taken for one about goods.
LEMMA NotMovement == \A c \in Commands : c # Movement /\ c.target \in Nat \ {0}
<1>1. \A c \in Commands : c.role \in Roles \cup {"disabled"} /\ c.target \in Nat \ {0}
  BY AccountsAssumption
<1>2. Movement.role = "none" /\ "none" \notin Roles \cup {"disabled"}
  BY AccountsAssumption DEF Movement
<1> QED
  BY <1>1, <1>2

\* What recording a command does to the history and to Seen.
LEMMA RecordedIs ==
    ASSUME NEW s \in AccountState, Window(s), NEW c \in Entry
    PROVE  LET t == Recorded(s, c) IN
           /\ t \in AccountState /\ Window(t)
           /\ t = [s EXCEPT !.seen = t.seen, !.log = t.log]
           /\ Len(t.log) = Len(s.log) + 1 /\ t.log[Len(s.log) + 1] = c
           /\ \A n \in 1..Len(s.log) : t.log[n] = s.log[n]
<1> DEFINE t == Recorded(s, c)
           all == Append(s.seen, c)
           N == Len(s.log)
           K == Len(s.seen)
<1>1. s.log \in Seq(Entry) /\ s.seen \in Seq(Entry) /\ N \in Nat /\ K \in Nat
  BY DEF AccountState
<1>2. t.log = Append(s.log, c) /\ t.seen = Remember(s.seen, c)
  BY DEF Recorded, AccountState
<1>3. /\ all \in Seq(Entry) /\ Len(all) = K + 1 /\ all[K + 1] = c
      /\ \A k \in 1..K : all[k] = s.seen[k]
  BY <1>1, AppendProperties
<1>4. /\ t.log \in Seq(Entry) /\ Len(t.log) = N + 1 /\ t.log[N + 1] = c
      /\ \A n \in 1..N : t.log[n] = s.log[n]
  BY <1>1, <1>2, AppendProperties
<1>5. /\ Remembered \in Nat \ {0}
      /\ K = IF N <= Remembered THEN N ELSE Remembered
      /\ \A k \in 1..K : s.seen[k] = s.log[N - K + k]
  BY AccountsAssumption DEF Window
<1> HIDE DEF all, N, K
<1>6. t.seen = IF K + 1 > Remembered THEN Tail(all) ELSE all
  BY <1>2, <1>3 DEF Remember, all
<1>7. ASSUME K + 1 > Remembered PROVE Window(t)
  <2>1. K = Remembered /\ N >= K
    BY <1>1, <1>5, <1>7
  <2>2. /\ t.seen \in Seq(Entry) /\ Len(t.seen) = K
        /\ \A k \in 1..K : t.seen[k] = all[k + 1]
    BY <1>1, <1>3, <1>6, <1>7
  <2>3. ASSUME NEW k \in 1..K PROVE t.seen[k] = t.log[(N + 1) - K + k]
    <3>1. CASE k = K
      BY <1>1, <1>3, <1>4, <2>1, <2>2, <3>1
    <3>2. CASE k # K
      <4>1. k + 1 \in 1..K /\ N - K + (k + 1) = (N + 1) - K + k /\ (N + 1) - K + k \in 1..N
        BY <1>1, <2>1, <3>2
      <4>2. t.seen[k] = s.log[N - K + (k + 1)]
        BY <1>3, <1>5, <2>2, <4>1
      <4> QED
        BY <1>4, <4>1, <4>2
    <3> QED
      BY <3>1, <3>2
  <2>4. Len(t.log) = N + 1 /\ ~(N + 1 <= Remembered)
    BY <1>1, <1>4, <2>1
  <2>5. \A k \in 1..Len(t.seen) : t.seen[k] = t.log[Len(t.log) - Len(t.seen) + k]
    BY <2>2, <2>3, <2>4
  <2> HIDE DEF t
  <2> QED
    BY <2>1, <2>2, <2>4, <2>5 DEF Window
<1>8. ASSUME K + 1 <= Remembered PROVE Window(t)
  <2>1. K = N /\ N + 1 <= Remembered
    BY <1>1, <1>5, <1>8
  <2>2. t.seen = all
    BY <1>1, <1>5, <1>6, <1>8
  <2>3. \A k \in 1..(K + 1) : t.seen[k] = t.log[k]
    BY <1>1, <1>3, <1>4, <1>5, <2>1, <2>2
  <2>4. Len(t.log) = N + 1 /\ Len(t.seen) = N + 1
    BY <1>3, <1>4, <2>1, <2>2
  <2>5. \A k \in 1..(N + 1) : (N + 1) - (N + 1) + k = k
    BY <1>1
  <2>6. \A k \in 1..Len(t.seen) : t.seen[k] = t.log[Len(t.log) - Len(t.seen) + k]
    BY <2>1, <2>3, <2>4, <2>5
  <2> HIDE DEF t
  <2> QED
    BY <2>1, <2>4, <2>6 DEF Window
<1>9. Window(t)
  BY <1>1, <1>5, <1>7, <1>8
<1>10. t.seen \in Seq(Entry)
  <2>1. all # <<>>
    BY <1>1, <1>3
  <2>2. Tail(all) \in Seq(Entry)
    BY <1>3, <2>1
  <2> QED
    BY <1>3, <1>6, <2>2
<1>11. t = [s EXCEPT !.seen = t.seen, !.log = t.log]
  BY <1>2 DEF Recorded, AccountState
<1>12. t \in AccountState
  <2> DEFINE a == t.seen
             b == t.log
  <2>1. t = [s EXCEPT !.seen = a, !.log = b] /\ a \in Seq(Entry) /\ b \in Seq(Entry)
    BY <1>4, <1>10, <1>11
  <2> HIDE DEF a, b, t
  <2> QED
    BY <2>1 DEF AccountState
<1> QED
  BY <1>4, <1>9, <1>11, <1>12 DEF N

\* A command Seen does not have was last carried out more than Remembered ago.
LEMMA UnseenIsOld ==
    ASSUME Good(S), NEW c, ~Recognised(c), NEW m \in 1..Len(S.log), S.log[m] = c
    PROVE  Len(S.log) + 1 - m > Remembered
<1> DEFINE N == Len(S.log)
           K == Len(S.seen)
           k == m - (N - K)
<1>1. N \in Nat /\ K \in Nat /\ Remembered \in Nat
  BY AccountsAssumption DEF Good, AccountState
<1>2. /\ K = IF N <= Remembered THEN N ELSE Remembered
      /\ \A j \in 1..K : S.seen[j] = S.log[N - K + j]
  BY DEF Good, Obeyed, Window
<1>3. k \notin 1..K
  <2>1. SUFFICES ASSUME k \in 1..K PROVE FALSE
    OBVIOUS
  <2>2. S.seen[k] = S.log[N - K + k] /\ N - K + k = m
    <3>1. m \in Nat
      BY <1>1
    <3> HIDE DEF N, K
    <3> QED
      BY <1>1, <1>2, <2>1, <3>1
  <2>3. S.seen[k] = c
    BY <2>2
  <2> QED
    BY <2>1, <2>3 DEF Recognised
<1>4. m \in 1..N
  OBVIOUS
<1> HIDE DEF N, K
<1>5. m <= N - K
  BY <1>1, <1>3, <1>4
<1> QED
  BY <1>1, <1>2, <1>4, <1>5 DEF N

\* A command about goods changes Seen and nothing else of what is kept here.
LEMMA WarehouseCommandInv ==
    ASSUME IInv, NEW u, NEW token, WarehouseCommand(u, token)
    PROVE  IInv'
<1> DEFINE s == Recorded(S, Movement)
           N == Len(S.log)
<1>1. /\ Good(S) /\ S \in AccountState /\ Window(S) /\ Keeps(S, known)
      /\ Commit(s, {}) /\ N \in Nat /\ Movement \in Entry
  BY DEF IInv, Good, AccountState, Obeyed, WarehouseCommand, Entry
<1>2. /\ s \in AccountState /\ Window(s)
      /\ s = [S EXCEPT !.seen = s.seen, !.log = s.log]
      /\ Len(s.log) = N + 1 /\ s.log[N + 1] = Movement
      /\ \A n \in 1..N : s.log[n] = S.log[n]
  BY <1>1, RecordedIs
<1>3. /\ s.users = S.users /\ s.invites = S.invites /\ s.sessions = S.sessions
      /\ s.codes = S.codes /\ s.made = S.made
  BY <1>1 DEF Recorded, AccountState
<1> HIDE DEF s
<1>4. Distinct(s) /\ Owned(s) /\ Invited(s)
  BY <1>1, <1>3 DEF Good, Distinct, Owned, Invited
<1>5. /\ Apart(S)
      /\ \A n \in 1..N : S.log[n] # Movement => \E w \in S.users : Effective(S, n, w)
  BY <1>1 DEF Good, Obeyed
<1> HIDE DEF N
<1>6. Apart(s)
  <2>1. \A m, n \in 1..N : m < n /\ S.log[m] = S.log[n] /\ S.log[n] # Movement
                              => n - m > Remembered
    BY <1>5 DEF Apart, N
  <2>2. \A m, n \in 1..(N + 1) : m < n /\ s.log[m] = s.log[n] /\ s.log[n] # Movement
                                    => n - m > Remembered
    <3> SUFFICES ASSUME NEW m \in 1..(N + 1), NEW n \in 1..(N + 1), m < n,
                        s.log[m] = s.log[n], s.log[n] # Movement
                 PROVE  n - m > Remembered
      OBVIOUS
    <3>1. n \in 1..N /\ m \in 1..N
      BY <1>1, <1>2
    <3> QED
      BY <1>2, <2>1, <3>1
  <2> QED
    BY <1>2, <2>2 DEF Apart
<1>7. ASSUME NEW n \in 1..(N + 1), s.log[n] # Movement
      PROVE  \E w \in s.users : Effective(s, n, w)
  <2>1. n \in 1..N /\ s.log[n] = S.log[n] /\ n \in Nat
    BY <1>1, <1>2, <1>7
  <2>2. PICK w \in S.users : Effective(S, n, w)
    BY <1>5, <1>7, <2>1
  <2>3. \A m \in (n + 1)..N : m \in (n + 1)..(N + 1) /\ s.log[m] = S.log[m]
    BY <1>1, <1>2, <2>1
  <2>4. Effective(s, n, w)
    BY <1>2, <2>1, <2>2, <2>3 DEF Effective, N
  <2> QED
    BY <1>3, <2>2, <2>4
<1>8. Obeyed(s)
  BY <1>2, <1>6, <1>7 DEF Obeyed
<1>9. Keeps(s, known \cup {}) /\ KeepsLog(S, s)
  <2>1. \A n \in 1..N : n \in 1..(N + 1)
    BY <1>1
  <2>2. KeepsLog(S, s)
    BY <1>2, <2>1 DEF KeepsLog, N
  <2>3. Keeps(s, known)
    BY <1>1, <1>2, <1>3, <2>1 DEF Keeps, N
  <2> QED
    BY <2>2, <2>3 DEF Keeps
<1> QED
  BY <1>1, <1>2, <1>4, <1>8, <1>9, CommitInv DEF Good

\* A member who is managed keeps the number and does not become the owner.
LEMMA ManagedType ==
    ASSUME NEW target \in Person, NEW c \in Commands
    PROVE  /\ Managed(target, c) \in Person
           /\ Managed(target, c).id = target.id /\ Managed(target, c).login = target.login
           /\ target.role # "owner" => Managed(target, c).role # "owner"
           /\ c.role = "disabled" => Managed(target, c).disabled
                                     /\ Managed(target, c).role = target.role
           /\ c.role # "disabled" => /\ Managed(target, c).disabled = target.disabled
                                     /\ Managed(target, c).role = c.role
<1>1. c.role \in Roles \cup {"disabled"} /\ "owner" \notin Roles
  BY AccountsAssumption
<1> QED
  BY <1>1 DEF Managed, Person

LEMMA TeamInv ==
    ASSUME IInv, NEW u \in S.users, NEW token, NEW target \in S.users, NEW c \in Commands,
           Team(u, token, target, c)
    PROVE  IInv'
<1> DEFINE v == Managed(target, c)
           r == [S EXCEPT !.users = (@ \ {target}) \cup {v}]
           s == Recorded(r, c)
           answer == {<<"command", c>>}
           N == Len(S.log)
<1>1. Good(S) /\ S \in AccountState /\ Keeps(S, known) /\ Commit(s, answer)
  BY DEF IInv, Good, Team
<1>2. /\ target.role # "owner" /\ c.target = target.id
      /\ ~Recognised(c)
  BY DEF Team, Manageable
<1>3. target \in Person /\ N \in Nat /\ c \in Entry /\ c # Movement
  BY <1>1, NotMovement DEF AccountState, Entry
<1>4. /\ v \in Person /\ v.id = target.id /\ v.login = target.login /\ v.role # "owner"
      /\ c.role = "disabled" => v.disabled /\ v.role = target.role
      /\ c.role # "disabled" => v.disabled = target.disabled /\ v.role = c.role
  BY <1>2, <1>3, ManagedType
<1>5. /\ r.users = (S.users \ {target}) \cup {v} /\ r.invites = S.invites
      /\ r.sessions = S.sessions /\ r.codes = S.codes /\ r.made = S.made
      /\ r.log = S.log /\ r.seen = S.seen
  BY <1>1 DEF AccountState
<1>6. r \in AccountState /\ Window(r)
  <2>1. Window(S)
    BY <1>1 DEF Good, Obeyed
  <2>2. Window(r)
    BY <1>5, <2>1 DEF Window
  <2> HIDE DEF v
  <2> QED
    BY <1>1, <1>3, <1>4, <2>2 DEF AccountState
<1>7. /\ s \in AccountState /\ Window(s)
      /\ s.users = (S.users \ {target}) \cup {v} /\ s.invites = S.invites
      /\ s.sessions = S.sessions /\ s.codes = S.codes /\ s.made = S.made
      /\ Len(s.log) = N + 1 /\ s.log[N + 1] = c /\ \A n \in 1..N : s.log[n] = S.log[n]
  <2> HIDE DEF r
  <2>1. /\ s \in AccountState /\ Window(s)
        /\ Len(s.log) = N + 1 /\ s.log[N + 1] = c /\ \A n \in 1..N : s.log[n] = r.log[n]
    <3>1. /\ s \in AccountState /\ Window(s)
          /\ Len(s.log) = Len(r.log) + 1 /\ s.log[Len(r.log) + 1] = c
          /\ \A n \in 1..Len(r.log) : s.log[n] = r.log[n]
      BY <1>3, <1>6, RecordedIs
    <3>2. Len(r.log) = N
      BY <1>5
    <3> QED
      BY <3>1, <3>2
  <2>2. /\ s.users = r.users /\ s.invites = r.invites /\ s.sessions = r.sessions
        /\ s.codes = r.codes /\ s.made = r.made
    BY <1>6 DEF Recorded, AccountState
  <2> QED
    BY <1>5, <2>1, <2>2
<1> HIDE DEF r, s, v, N
<1>8. Distinct(s)
  <2>1. /\ IsFiniteSet(S.users)
        /\ \A w \in S.users : w.id <= Cardinality(S.users)
        /\ \A w, x \in S.users : w.id = x.id \/ w.login = x.login => w = x
    BY <1>1 DEF Good, Distinct
  <2>2. v \notin S.users \ {target}
    BY <1>4, <2>1
  <2>3. /\ IsFiniteSet(S.users \ {target})
        /\ Cardinality(S.users \ {target}) = Cardinality(S.users) - 1
    BY <2>1, FS_RemoveElement
  <2>4. /\ IsFiniteSet((S.users \ {target}) \cup {v})
        /\ Cardinality((S.users \ {target}) \cup {v}) = Cardinality(S.users \ {target}) + 1
    BY <2>2, <2>3, FS_AddElement
  <2>5. Cardinality(S.users) \in Nat
    BY <2>1, FS_CardinalityType
  <2>6. IsFiniteSet(s.users) /\ Cardinality(s.users) = Cardinality(S.users)
    BY <1>7, <2>3, <2>4, <2>5
  <2>7. \A w \in s.users : w.id <= Cardinality(s.users)
    BY <1>4, <1>7, <2>1, <2>6
  <2>8. \A w, x \in s.users : w.id = x.id \/ w.login = x.login => w = x
    BY <1>4, <1>7, <2>1
  <2> QED
    BY <2>6, <2>7, <2>8 DEF Distinct
<1>9. Owned(s)
  BY <1>1, <1>2, <1>4, <1>7 DEF Good, Owned
<1>10. Invited(s)
  BY <1>1, <1>2, <1>4, <1>7 DEF Good, Invited
<1>11. Obeyed(s)
  <2>1. \A n \in 1..N : S.log[n] # Movement => \E w \in S.users : Effective(S, n, w)
    BY <1>1 DEF Good, Obeyed, N
  <2>2. Apart(s)
    <3>1. \A m, n \in 1..N : m < n /\ S.log[m] = S.log[n] /\ S.log[n] # Movement
                                => n - m > Remembered
      BY <1>1 DEF Good, Obeyed, Apart, N
    <3>2. \A m \in 1..N : S.log[m] = c => N + 1 - m > Remembered
      BY <1>1, <1>2, UnseenIsOld DEF N
    <3>3. ASSUME NEW m \in 1..(N + 1), NEW n \in 1..(N + 1), m < n,
                 s.log[m] = s.log[n], s.log[n] # Movement
          PROVE  n - m > Remembered
      <4>1. m \in 1..N /\ (n \in 1..N \/ n = N + 1)
        BY <1>3, <3>3
      <4>2. CASE n \in 1..N
        BY <1>7, <3>1, <3>3, <4>1, <4>2
      <4>3. CASE n = N + 1
        <5>1. s.log[m] = S.log[m] /\ s.log[n] = c
          BY <1>7, <4>1, <4>3
        <5>2. S.log[m] = c
          BY <3>3, <5>1
        <5>3. N + 1 - m > Remembered
          BY <3>2, <4>1, <5>2
        <5> QED
          BY <1>3, <4>3, <5>3
      <4> QED
        BY <4>1, <4>2, <4>3
    <3> QED
      BY <1>7, <3>3 DEF Apart
  <2>3. Effective(s, N + 1, v) /\ v \in s.users
    BY <1>2, <1>3, <1>4, <1>7 DEF Effective
  <2>4. ASSUME NEW n \in 1..N, S.log[n] # Movement PROVE \E w \in s.users : Effective(s, n, w)
    <3>1. PICK w \in S.users : Effective(S, n, w)
      BY <2>1, <2>4
    <3>2. s.log[n] = S.log[n] /\ n \in 1..(N + 1) /\ n \in Nat
      BY <1>3, <1>7
    <3>3. \A m \in (n + 1)..N : m \in (n + 1)..(N + 1) /\ s.log[m] = S.log[m]
      BY <1>3, <1>7
    <3>4. CASE w # target
      <4>1. w \in s.users
        BY <1>7, <3>4
      <4>2. Effective(s, n, w)
        BY <1>3, <1>7, <3>1, <3>2, <3>3 DEF Effective, N
      <4> QED
        BY <4>1, <4>2
    <3>5. CASE w = target
      <4>1. v.id = s.log[n].target
        BY <1>4, <3>1, <3>2, <3>5 DEF Effective
      <4>2. S.log[n].role = "disabled" => v.disabled
        BY <1>4, <3>1, <3>5 DEF Effective
      <4>3. c.role # "disabled" => N + 1 \in (n + 1)..(N + 1) /\ s.log[N + 1].target = s.log[n].target
        BY <1>2, <1>3, <1>7, <3>1, <3>2, <3>5 DEF Effective
      <4>4. c.role = "disabled" => v.role = w.role
        BY <1>4, <3>5
      <4>5. Effective(s, n, v)
        BY <1>7, <3>1, <3>2, <3>3, <4>1, <4>2, <4>3, <4>4 DEF Effective, N
      <4> QED
        BY <1>7, <4>5
    <3> QED
      BY <3>4, <3>5
  <2>5. ASSUME NEW n \in 1..(N + 1), s.log[n] # Movement
        PROVE  \E w \in s.users : Effective(s, n, w)
    <3>1. n \in 1..N \/ n = N + 1
      BY <1>3
    <3>2. n \in 1..N => S.log[n] # Movement
      BY <1>7, <2>5
    <3> QED
      BY <2>3, <2>4, <3>1, <3>2
  <2> QED
    BY <1>7, <2>2, <2>5 DEF Obeyed
<1>12. Keeps(s, known \cup answer) /\ KeepsLog(S, s)
  <2>1. \A n \in 1..N : n \in 1..(N + 1)
    BY <1>3
  <2>2. N + 1 \in 1..(N + 1)
    BY <1>3
  <2>3. KeepsLog(S, s)
    BY <1>7, <2>1 DEF KeepsLog, N
  <2>4. Keeps(s, known)
    BY <1>1, <1>7, <2>1 DEF Keeps, N
  <2>5. Keeps(s, answer)
    BY <1>7, <2>2 DEF Keeps
  <2> QED
    BY <2>3, <2>4, <2>5 DEF Keeps
<1> QED
  BY <1>1, <1>7, <1>8, <1>9, <1>10, <1>11, <1>12, CommitInv DEF Good

\* A command that is repeated is in the log, whichever state a restart brings up.
LEMMA TeamAgainInv ==
    ASSUME IInv, NEW u, NEW token, NEW c, TeamAgain(u, token, c)
    PROVE  IInv'
<1>1. \E n \in 1..Len(S.log) : S.log[n] = c
  <2>1. PICK k \in 1..Len(S.seen) : S.seen[k] = c
    BY DEF TeamAgain
  <2> DEFINE N == Len(S.log)
             K == Len(S.seen)
  <2>2. Window(S) /\ S \in AccountState /\ Remembered \in Nat
    BY AccountsAssumption DEF IInv, Good, Obeyed
  <2>3. N \in Nat /\ K \in Nat /\ k \in 1..K
    BY <2>1, <2>2 DEF AccountState
  <2>4. K = (IF N <= Remembered THEN N ELSE Remembered) /\ S.seen[k] = S.log[N - K + k]
    BY <2>2, <2>3 DEF Window
  <2> HIDE DEF N, K
  <2>5. N - K + k \in 1..N
    BY <2>2, <2>3, <2>4
  <2> QED
    BY <2>1, <2>4, <2>5 DEF N
<1>2. known' = known \cup {<<"command", c>>} /\ UNCHANGED <<S, doubt, frozen>>
  BY DEF TeamAgain
<1>3. Keeps(S, known')
  BY <1>1, <1>2 DEF IInv, Keeps
<1>4. doubt # NoState => Keeps(doubt, known')
  BY <1>1, <1>2 DEF IInv, Keeps, KeepsLog
<1> QED
  BY <1>2, <1>3, <1>4 DEF IInv

-----------------------------------------------------------------------------

LEMMA RestartInv == ASSUME IInv, Restart PROVE IInv'
  BY DEF IInv, Restart

LEMMA NextInv == IInv /\ [Next]_vars => IInv'
<1> SUFFICES ASSUME IInv, [Next]_vars PROVE IInv'
  OBVIOUS
<1>1. ASSUME NEW login \in Logins, Setup(login) PROVE IInv'
  BY <1>1, SetupInv
<1>2. ASSUME NEW login \in Logins, NEW i \in S.invites, Join(login, i) PROVE IInv'
  BY <1>2, JoinInv
<1>3. ASSUME NEW u \in S.users, Login(u) PROVE IInv'
  BY <1>3, LoginInv
<1>4. ASSUME NEW u \in S.users, NEW x \in S.sessions, Logout(u, x.token) PROVE IInv'
  BY <1>4, LogoutInv
<1>5. ASSUME NEW u \in S.users, NEW x \in S.sessions, NEW role \in Roles,
             MakeInvite(u, x.token, role)
      PROVE  IInv'
  BY <1>5, MakeInviteInv
<1>6. ASSUME NEW u \in S.users, NEW x \in S.sessions, NEW c \in Commands,
             NEW target \in S.users, Team(u, x.token, target, c)
      PROVE  IInv'
  BY <1>6, TeamInv
<1>7. ASSUME NEW u \in S.users, NEW x \in S.sessions, NEW c \in Commands,
             TeamAgain(u, x.token, c)
      PROVE  IInv'
  BY <1>7, TeamAgainInv
<1>8. ASSUME NEW u \in S.users, NEW x \in S.sessions, WarehouseCommand(u, x.token)
      PROVE  IInv'
  BY <1>8, WarehouseCommandInv
<1>9. CASE TimePasses
  BY <1>9 DEF TimePasses, IInv
<1>10. CASE Restart
  BY <1>10, RestartInv
<1>11. CASE UNCHANGED vars
  BY <1>11 DEF vars, IInv
<1> QED
  BY <1>1, <1>2, <1>3, <1>4, <1>5, <1>6, <1>7, <1>8, <1>9, <1>10, <1>11 DEF Next

\* What the state of Accounts is is known in every state it can be in.
LEMMA AccountsInvariant == Spec => []IInv
<1>1. Init => IInv
  BY InitInv
<1>2. IInv /\ [Next]_vars => IInv'
  BY NextInv
<1> QED
  BY <1>1, <1>2, PTL DEF Spec

\* There is one owner, who is never disabled (server.go:1233).
THEOREM OwnerRemains == Spec => []OneOwner
<1>1. IInv => OneOwner
  <2> SUFFICES ASSUME IInv, S.users # {} PROVE /\ Cardinality({u \in S.users : u.role = "owner"}) = 1
                                              /\ \A u \in S.users : u.role = "owner" => ~u.disabled
    BY DEF OneOwner
  <2>1. PICK o \in S.users : ~o.disabled /\ \A u \in S.users : u.role = "owner" <=> u = o
    BY DEF IInv, Good, Owned
  <2>2. {u \in S.users : u.role = "owner"} = {o}
    BY <2>1
  <2> QED
    BY <2>1, <2>2, FS_Singleton
<1> QED
  BY <1>1, AccountsInvariant, PTL

\* An invitation brings one user at most, through lost answers, failed writes and
\* restarts, and no two people have one login (README.md:22).
THEOREM InvitationsWork == Spec => []InviteMakesOneUser
<1>1. IInv => InviteMakesOneUser
  BY DEF IInv, Good, Distinct, Invited, InviteMakesOneUser
<1> QED
  BY <1>1, AccountsInvariant, PTL

\* A command about a person that was carried out holds until a later one about the
\* same person, and one that comes again is such a later one only after more than
\* Remembered commands (server.go:318-340, 999-1012).
THEOREM CommandsHold == Spec => []LastCommandHolds
<1>1. IInv => LastCommandHolds
  <2> SUFFICES ASSUME IInv PROVE LastCommandHolds
    OBVIOUS
  <2>1. \A k \in known : k[1] = "command" => \E n \in 1..Len(S.log) : S.log[n] = k[2]
    BY DEF IInv, Keeps
  <2>2. \A m, n \in 1..Len(S.log) :
            m < n /\ S.log[m] = S.log[n] /\ S.log[n] # Movement => n - m > Remembered
    BY DEF IInv, Good, Obeyed, Apart
  <2>3. ASSUME NEW n \in 1..Len(S.log), S.log[n] # Movement
        PROVE  \E u \in S.users : Effective(S, n, u)
    BY <2>3 DEF IInv, Good, Obeyed
  <2> QED
    BY <2>1, <2>2, <2>3 DEF LastCommandHolds, Effective
<1> QED
  BY <1>1, AccountsInvariant, PTL

\* Codes and tokens that were handed out are stored, until their user logs out
\* (server.go:180).
THEOREM HandedOutStays == Spec => []HandedOutIsStored
<1>1. IInv => HandedOutIsStored
  BY DEF IInv, Keeps, HandedOutIsStored
<1> QED
  BY <1>1, AccountsInvariant, PTL
=============================================================================
