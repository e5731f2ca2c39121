----------------------------- MODULE AndroidHost ----------------------------
(***************************************************************************)
(* The main device on Android: src/web/host.js in the WebView.  Requests   *)
(* of several clients run in one thread, but every handler is async: at    *)
(* each await of WebCrypto (SHA-256, PBKDF2) another request may run.      *)
(* What a handler read before an await is kept in its locals and may be    *)
(* stale after it.  persist() is synchronous: it writes the whole state    *)
(* and then makes it the current one.                                      *)
(*                                                                         *)
(* A step of this module is what a handler does between two awaits.        *)
(***************************************************************************)
EXTENDS Integers, Sequences, FiniteSets, SequencesExt

CONSTANTS
    Requests,     \* the requests in flight: records with the field "kind"
    Owner,
    Members,      \* the other users there may be
    Invites,
    Batches,      \* the sets of requests that arrive in one behaviour
    RecentLimit   \* how many commands seen remembers, 10000

VARIABLES
    state,        \* the module-level state, which is also what is on the disk
    pc,           \* pc[r], where the handler of r is
    next,         \* next[r], the copy of the state its handler will persist
    seenUser,     \* seenUser[r], whether the user it found was not disabled
    running,      \* whether the server socket is open for other devices
    acked         \* history variable: the requests answered with 200

vars == <<state, pc, next, seenUser, running, acked>>

IsCommand(r) == r.kind \in {"command", "disable"}

CommandIds == {r.id : r \in {q \in Requests : IsCommand(q)}}

\* recent is seen, in the order of seq; dropped are the identifiers pruned from
\* it and repeated the commands carried out again.
State ==
    [status : {"active", "transfer_pending", "retired"},
     recent : Seq(CommandIds),
     dropped : SUBSET CommandIds,
     repeated : SUBSET CommandIds,
     users : SUBSET (Members \cup {Owner}),
     disabled : SUBSET Members,
     invites : SUBSET Invites,
     used : SUBSET Invites,
     sessions : SUBSET Requests]

NoState == [none |-> TRUE]

\* A request is a command of user u, the command that disables user u, a login
\* of user u, a join of user u with invite i, the making of invite i, the log-out
\* of the session that login r.login got, or a step of a transfer.  Requests with
\* one id are copies of one command, sent again while it was on its way.
Kinds == {"command", "disable", "login", "join", "invite", "logout",
          "prepare", "cancel", "confirm"}

ASSUME HostAssumption ==
    /\ \A r \in Requests :
        /\ r.kind \in Kinds
        /\ r.kind \in {"command", "login"} => r.u \in Members \cup {Owner}
        /\ r.kind \in {"disable", "join"} => r.u \in Members
        /\ r.kind \in {"join", "invite"} => r.i \in Invites
        /\ r.kind = "logout" => r.login \in Requests
    /\ Batches \subseteq SUBSET Requests
    /\ RecentLimit \in Nat \ {0}

Init ==
    /\ \E joined \in SUBSET Members :
        state = [status |-> "active", recent |-> <<>>, dropped |-> {}, repeated |-> {},
                 users |-> joined \cup {Owner}, disabled |-> {},
                 invites |-> {}, used |-> {}, sessions |-> {}]
    /\ \E batch \in Batches : pc = [r \in Requests |-> IF r \in batch THEN "start" ELSE "end"]
    /\ running = TRUE
    /\ next = [r \in Requests |-> NoState]
    /\ seenUser = [r \in Requests |-> FALSE]
    /\ acked = {}

-----------------------------------------------------------------------------

At(r, here, there) == pc[r] = here /\ pc' = [pc EXCEPT ![r] = there]

CanAct(u) == u \in state.users /\ u \notin state.disabled

\* persist() and the answer; opened is whether the socket is open after it.
PersistAnd(r, s, opened) ==
    /\ state' = s
    /\ acked' = acked \cup {r}
    /\ running' = opened

Persist(r, s) == PersistAnd(r, s, running)

Unchanged == UNCHANGED <<state, running, acked>>

\* An error is answered and nothing is stored, before or after an await; the
\* Android bridge may also refuse to save, which is an error as well.  The
\* locals of the handler are gone.  (A request refused at once, before its
\* first await, is like one that never came.)
Refuse(r) ==
    /\ pc[r] \in {"hash", "check", "derive", "session"}
    /\ pc' = [pc EXCEPT ![r] = "end"]
    /\ next' = [next EXCEPT ![r] = NoState]
    /\ seenUser' = [seenUser EXCEPT ![r] = FALSE]
    /\ Unchanged

-----------------------------------------------------------------------------
(* The application *)

\* The page is loaded again: what ran is gone, the state is what was persisted,
\* and the socket is opened again if the device is the main one.
Load ==
    /\ \E r \in Requests : pc[r] \notin {"start", "end"}
    /\ pc' = [r \in Requests |-> IF pc[r] = "start" THEN "start" ELSE "end"]
    /\ next' = [r \in Requests |-> NoState]
    /\ seenUser' = [r \in Requests |-> FALSE]
    /\ running' = (state.status = "active")
    /\ UNCHANGED <<state, acked>>

\* Android stops the socket in the background and resumes the page later.
NativeStopped ==
    /\ running
    /\ running' = FALSE
    /\ UNCHANGED <<state, pc, next, seenUser, acked>>

Resume ==
    /\ state.status = "active" /\ ~running
    /\ running' = TRUE
    /\ UNCHANGED <<state, pc, next, seenUser, acked>>

-----------------------------------------------------------------------------
(* command: authenticated, the status is checked, then the intent is hashed *)

Acting(r) == IF r.kind = "command" THEN r.u ELSE Owner

StartCommand(r) ==
    /\ IsCommand(r)
    /\ At(r, "start", "hash")
    /\ CanAct(Acting(r))
    /\ state.status = "active"
    /\ UNCHANGED <<next, seenUser>> /\ Unchanged

\* pruneRecent: the oldest identifiers make room.
Remember(ids, id) ==
    LET all == Append(ids, id)
    IN  IF Len(all) > RecentLimit THEN Tail(all) ELSE all

Changed(r) ==
    LET ids == Remember(state.recent, r.id)
        s == [state EXCEPT !.recent = ids,
                           !.dropped = @ \cup (ToSet(state.recent) \ ToSet(ids)),
                           !.repeated = IF r.id \in ToSet(state.recent) \cup state.dropped
                                        THEN @ \cup {r.id} ELSE @]
    IN  IF r.kind = "disable" THEN [s EXCEPT !.disabled = @ \cup {r.u}] ELSE s

\* Mutant of Seen: a command is always taken for a new one.
NeverSeen(r) == FALSE

Seen(r) == r.id \in ToSet(state.recent)

\* The rest has no await in it.  A command seen before is answered again.
FinishCommand(r) ==
    /\ IsCommand(r)
    /\ At(r, "hash", "end")
    /\ r.kind = "disable" /\ ~Seen(r) => r.u \in state.users
    /\ Persist(r, IF Seen(r) THEN state ELSE Changed(r))
    /\ UNCHANGED <<next, seenUser>>

-----------------------------------------------------------------------------
(* account *)

\* The user is looked up, then the password is hashed.
StartLogin(r) ==
    /\ r.kind = "login"
    /\ At(r, "start", "derive")
    /\ r.u \in state.users
    /\ seenUser' = [seenUser EXCEPT ![r] = r.u \notin state.disabled]
    /\ UNCHANGED <<next>> /\ Unchanged

\* The new state is built, then the token of its session is hashed.
DeriveLogin(r) ==
    /\ r.kind = "login"
    /\ At(r, "derive", "session")
    /\ seenUser[r]
    /\ next' = [next EXCEPT ![r] = [state EXCEPT !.sessions = @ \cup {r}]]
    /\ UNCHANGED <<seenUser>> /\ Unchanged

StartJoin(r) ==
    /\ r.kind = "join"
    /\ At(r, "start", "check")
    /\ r.u \notin state.users
    /\ UNCHANGED <<next, seenUser>> /\ Unchanged

\* Mutant of CheckInvite: the invitation is spent before the user is made.
SpendInvite(r) ==
    /\ r.kind = "join"
    /\ At(r, "check", "derive")
    /\ r.i \in state.invites \ state.used
    /\ state' = [state EXCEPT !.used = @ \cup {r.i}]
    /\ UNCHANGED <<next, seenUser, running, acked>>

CheckInvite(r) ==
    /\ r.kind = "join"
    /\ At(r, "check", "derive")
    /\ r.i \in state.invites \ state.used
    /\ UNCHANGED <<next, seenUser>> /\ Unchanged

DeriveJoin(r) ==
    /\ r.kind = "join"
    /\ At(r, "derive", "session")
    /\ next' = [next EXCEPT ![r] = [state EXCEPT !.sessions = @ \cup {r},
                                                 !.users = @ \cup {r.u},
                                                 !.invites = @ \cup {r.i},
                                                 !.used = @ \cup {r.i}]]
    /\ UNCHANGED <<seenUser>> /\ Unchanged

FinishAccount(r) ==
    /\ r.kind \in {"login", "join"}
    /\ At(r, "session", "end")
    /\ Persist(r, next[r])
    /\ next' = [next EXCEPT ![r] = NoState]
    /\ seenUser' = [seenUser EXCEPT ![r] = FALSE]

-----------------------------------------------------------------------------
(* Invitations and log-outs: the hash of a code or a token is awaited, and the
   rest has no await in it. *)

StartInvite(r) ==
    /\ r.kind = "invite"
    /\ At(r, "start", "hash")
    /\ UNCHANGED <<next, seenUser>> /\ Unchanged

FinishInvite(r) ==
    /\ r.kind = "invite"
    /\ At(r, "hash", "end")
    /\ Persist(r, [state EXCEPT !.invites = @ \cup {r.i}])
    /\ UNCHANGED <<next, seenUser>>

StartLogout(r) ==
    /\ r.kind = "logout"
    /\ At(r, "start", "hash")
    /\ r.login \in state.sessions /\ CanAct(r.login.u)
    /\ UNCHANGED <<next, seenUser>> /\ Unchanged

FinishLogout(r) ==
    /\ r.kind = "logout"
    /\ At(r, "hash", "end")
    /\ Persist(r, [state EXCEPT !.sessions = @ \ {r.login}])
    /\ UNCHANGED <<next, seenUser>>

-----------------------------------------------------------------------------
(* transfer; cancel and confirm do not wait for anything after userFrom *)

StartPrepare(r) ==
    /\ r.kind = "prepare"
    /\ At(r, "start", "hash")
    /\ state.status = "active"
    /\ UNCHANGED <<next, seenUser>> /\ Unchanged

FinishPrepare(r) ==
    /\ r.kind = "prepare"
    /\ At(r, "hash", "end")
    /\ PersistAnd(r, [state EXCEPT !.status = "transfer_pending"], FALSE)
    /\ UNCHANGED <<next, seenUser>>

\* The package of the same transfer is written again.
PrepareAgain(r) ==
    /\ r.kind = "prepare"
    /\ At(r, "start", "end")
    /\ state.status = "transfer_pending"
    /\ Persist(r, state)
    /\ UNCHANGED <<next, seenUser>>

\* Mutant of CanCancel: a transfer that was confirmed is cancelled too.
CanCancelLate == state.status \in {"transfer_pending", "retired"}

CanCancel == state.status = "transfer_pending"

Cancel(r) ==
    /\ r.kind = "cancel"
    /\ At(r, "start", "end")
    /\ CanCancel
    /\ PersistAnd(r, [state EXCEPT !.status = "active"], TRUE)
    /\ UNCHANGED <<next, seenUser>>

\* Mutant of Confirm: the socket stays open.
ConfirmServing(r) ==
    /\ r.kind = "confirm"
    /\ At(r, "start", "end")
    /\ state.status = "transfer_pending"
    /\ PersistAnd(r, [state EXCEPT !.status = "retired"], TRUE)
    /\ UNCHANGED <<next, seenUser>>

Confirm(r) ==
    /\ r.kind = "confirm"
    /\ At(r, "start", "end")
    /\ state.status = "transfer_pending"
    /\ PersistAnd(r, [state EXCEPT !.status = "retired"], FALSE)
    /\ UNCHANGED <<next, seenUser>>

-----------------------------------------------------------------------------

Step(r) ==
    \/ StartCommand(r) \/ FinishCommand(r)
    \/ StartLogin(r) \/ DeriveLogin(r)
    \/ StartJoin(r) \/ CheckInvite(r) \/ DeriveJoin(r)
    \/ FinishAccount(r)
    \/ StartInvite(r) \/ FinishInvite(r) \/ StartLogout(r) \/ FinishLogout(r)
    \/ StartPrepare(r) \/ FinishPrepare(r) \/ PrepareAgain(r) \/ Cancel(r) \/ Confirm(r)
    \/ Refuse(r)

Next == (\E r \in Requests : Step(r)) \/ Load \/ NativeStopped \/ Resume

Spec == Init /\ [][Next]_vars

-----------------------------------------------------------------------------

\* A command is applied once, however many copies of it are between two awaits
\* at the same time, as long as it is among the last RecentLimit ones
\* (web/host.js:115-117, 38-43).
AppliedOnce == state.repeated \subseteq state.dropped

\* "The main device records the result once; a repeat returns the result that
\* was saved" (docs/АРХИТЕКТУРА.md:36): what was confirmed is still in the state.
ConfirmedStays ==
    \A r \in acked :
        /\ IsCommand(r) => r.id \in ToSet(state.recent) \cup state.dropped
        /\ r.kind = "disable" => r.u \in state.disabled
        /\ r.kind = "join" => r.u \in state.users

\* An invitation is spent by the step that stores the user it was spent for: a
\* join that fails half way leaves it usable (web/host.js:91-93).
InviteSpentWithUser ==
    \A i \in state.used :
        \E r \in Requests : r.kind = "join" /\ r.i = i /\ r.u \in state.users

Done(s) == ToSet(s.recent) \cup s.dropped

\* A session that was ended comes back, or something else that was stored goes.
Forgets ==
    \/ ~(Done(state) \subseteq Done(state'))
    \/ \E part \in {"users", "disabled", "invites", "used"} : ~(state[part] \subseteq state'[part])
    \/ \E r \in acked \cap state'.sessions : r \notin state.sessions

\* The warehouse comes back from a confirmed transfer, or the socket is open on
\* a device that is not the main one.
Misplaced ==
    \/ state.status = "retired" /\ state'.status # "retired"
    \/ state'.status # "active" /\ running' /\ ~(state.status # "active" /\ running)

StaleAccount == \E r \in Requests : r.kind \in {"login", "join"} /\ At(r, "session", "end")

StalePrepare == \E r \in Requests : r.kind = "prepare" /\ At(r, "hash", "end")

\* What was stored is only undone by a login or a join that kept its copy over
\* the hash of the session token, and a retired device only comes back, or
\* serves others while it may not, that way or by a prepare that began while it
\* was active (web/host.js:68-72, 88-93, 164, 197-198).
OnlyStaleWritesUndo ==
    [][/\ Forgets => StaleAccount
       /\ Misplaced => StaleAccount \/ StalePrepare]_vars
=============================================================================
