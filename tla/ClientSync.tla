----------------------------- MODULE ClientSync -----------------------------
(***************************************************************************)
(* A client of the shared warehouse: src/web/app.js in the tabs of one     *)
(* browser, which share IndexedDB and localStorage, and the main device as *)
(* far as it decides what a draft becomes.                                 *)
(*                                                                         *)
(* A tab is one thread, and syncNow, send and logout give it up at every   *)
(* await: the timer starts a sync, the user makes drafts and another tab   *)
(* writes the same keys in between.  A step of this module is what runs    *)
(* between two awaits.  A request that timed out (20 s) or whose answer    *)
(* was lost may still be carried out by the main device later.             *)
(***************************************************************************)
EXTENDS Integers, Sequences, FiniteSets, SequencesExt

CONSTANTS
    Tabs,
    Visible,   \* the tabs the timer runs in: those not hidden
    Leavers,   \* the tabs in which users may log out
    Commands,
    Maker,     \* Maker[c], the tab in which the draft c is made
    Needs,     \* Needs[c], the commands c is refused without
    Lives      \* what users do: the drafts they make and may discard, log-outs,
               \* and how often the network fails or the page is loaded again

ASSUME ClientAssumption ==
    /\ Visible \subseteq Tabs /\ Leavers \subseteq Tabs
    /\ Maker \in [Commands -> Tabs]
    /\ Needs \in [Commands -> SUBSET Commands]
    /\ Lives \subseteq [drafts : SUBSET Commands, discards : SUBSET Commands,
                       quits : BOOLEAN, losses : Nat, reloads : Nat]

VARIABLES
    db,         \* IndexedDB, and the mode kept in localStorage
    tab,        \* tab[t], the variables of app.js in tab t
    log,        \* the commands the main device carried out, in order
    session,    \* whether it knows the session of this client
    late,       \* commands on their way that no tab waits for any more
    created,    \* history variable: the drafts users made
    discarded,  \* history variable: the drafts they took back
    reported,   \* history variable: the commands send() called saved
    life        \* the member of Lives of this behaviour; losses and
                \* reloads count down

vars == <<db, tab, log, session, late, created, discarded, reported, life>>

NoCommand == "none"
Draft == [cmd : Commands, error : BOOLEAN]

\* db.local tells whose data is under the key of the personal warehouse.
TypeOK ==
    /\ db \in [mode : {"remote", "local"}, local : {"own", "shared"}, queue : Seq(Draft)]
    /\ tab \in [Tabs -> [mode : {"remote", "local"}, queue : Seq(Draft),
                         pc : {"idle", "state", "loop", "command", "remove"},
                         rest : Seq(Commands),
                         answer : {"none", "ok", "refused"},
                         sending : Commands \cup {NoCommand},
                         leaving : {"no", "asked", "forgotten"}]]
    /\ log \in Seq(Commands) /\ IsInjective(log)
    /\ session \in BOOLEAN
    /\ late \subseteq Commands
    /\ created \subseteq Commands /\ discarded \subseteq created /\ reported \subseteq created
    /\ life \in [drafts : SUBSET Commands, discards : SUBSET Commands,
                       quits : BOOLEAN, losses : Nat, reloads : Nat]

Applied == Range(log)

Opened(mode, queue) ==
    [mode |-> mode, queue |-> queue, pc |-> "idle", rest |-> <<>>,
     answer |-> "none", sending |-> NoCommand, leaving |-> "no"]

\* A user of a shared warehouse who keeps a personal one on the same device.
Init ==
    /\ db = [mode |-> "remote", local |-> "own", queue |-> <<>>]
    /\ tab = [t \in Tabs |-> Opened("remote", <<>>)]
    /\ log = <<>>
    /\ session = TRUE
    /\ late = {}
    /\ created = {} /\ discarded = {} /\ reported = {}
    /\ life \in Lives

-----------------------------------------------------------------------------

HostUnchanged == UNCHANGED <<log, session, late>>
UsersUnchanged == UNCHANGED <<created, discarded, life>>
OthersUnchanged == HostUnchanged /\ UsersUnchanged

\* mutateQueue: one transaction on the queue of the mode the tab is in.  The
\* personal warehouse has a queue too, which is always empty.
MutateQueue(t, edited, changed) ==
    IF tab[t].mode = "remote"
    THEN /\ db' = [db EXCEPT !.queue = edited]
         /\ tab' = [tab EXCEPT ![t] = [changed EXCEPT !.queue = edited]]
    ELSE /\ tab' = [tab EXCEPT ![t] = [changed EXCEPT !.queue = <<>>]]
         /\ UNCHANGED db

\* filter: the drafts of a queue that are in keep, in their order.
Chosen(queue, keep) ==
    LET picked[n \in 0..Len(queue)] ==
            IF n = 0 THEN <<>>
            ELSE IF queue[n] \in keep THEN Append(picked[n - 1], queue[n]) ELSE picked[n - 1]
    IN  picked[Len(queue)]

Without(queue, c) == Chosen(queue, {d \in Draft : d.cmd # c})

\* Mutant of WithError: a refused draft is taken out of the queue.
WithoutRefused(queue, c, error) ==
    IF error THEN Without(queue, c)
    ELSE [i \in DOMAIN queue |-> IF queue[i].cmd = c THEN [queue[i] EXCEPT !.error = error] ELSE queue[i]]

WithError(queue, c, error) ==
    [i \in DOMAIN queue |-> IF queue[i].cmd = c THEN [queue[i] EXCEPT !.error = error] ELSE queue[i]]

CommandsOf(queue) == [i \in DOMAIN queue |-> queue[i].cmd]

\* Mutant of ToSend: a refused draft stops the ones behind it.
UpToRefused(queue) ==
    CommandsOf(SelectSeq(queue, LAMBDA d :
        \A i, j \in DOMAIN queue : queue[i] = d /\ j <= i => ~queue[j].error))

\* The loop goes over the queue as it was, and passes over refused drafts.
ToSend(queue) == CommandsOf(Chosen(queue, {d \in Draft : ~d.error}))

\* acceptState: the snapshot is stored under the key of the mode the tab is in
\* now.  Which snapshot it is, and whether an older one is dropped, is left out.
AcceptState(t) == db' = IF tab[t].mode = "remote" THEN db ELSE [db EXCEPT !.local = "shared"]

\* syncNow returns to send(), which calls a command saved that has left the queue.
Ended(t) == [tab[t] EXCEPT !.pc = "idle", !.rest = <<>>, !.answer = "none", !.sending = NoCommand]

Report(t) ==
    reported' = IF tab[t].sending # NoCommand /\ tab[t].sending \notin Range(CommandsOf(tab[t].queue))
                THEN reported \cup {tab[t].sending} ELSE reported

-----------------------------------------------------------------------------
(* syncNow *)

\* The queue is read in the order of the transactions of the tab, so the read
\* is one step with what started the sync.
Started(t, queue) == [tab[t] EXCEPT !.pc = "state", !.queue = queue]

\* The timer, the network or a return to the page.
StartSync(t) ==
    /\ tab[t].mode = "remote" /\ tab[t].pc = "idle"
    /\ tab' = [tab EXCEPT ![t] = Started(t, db.queue)]
    /\ UNCHANGED <<db, reported>> /\ OthersUnchanged

ReceiveState(t) ==
    /\ tab[t].pc = "state" /\ tab[t].answer = "ok"
    /\ AcceptState(t)
    /\ tab' = [tab EXCEPT ![t] =
                     [tab[t] EXCEPT !.pc = "loop", !.answer = "none", !.rest = ToSend(tab[t].queue)]]
    /\ UNCHANGED reported /\ OthersUnchanged

SendDraft(t) ==
    /\ tab[t].mode = "remote" /\ tab[t].pc = "loop" /\ tab[t].rest # <<>>
    /\ tab' = [tab EXCEPT ![t].pc = "command"]
    /\ UNCHANGED <<db, reported>> /\ OthersUnchanged

Awaits(t, c) == tab[t].pc = "command" /\ Head(tab[t].rest) = c

ReceiveDone(t, c) ==
    /\ Awaits(t, c) /\ tab[t].answer = "ok"
    /\ AcceptState(t)
    /\ tab' = [tab EXCEPT ![t].pc = "remove", ![t].answer = "none"]
    /\ UNCHANGED reported /\ OthersUnchanged

RemoveDraft(t) ==
    /\ tab[t].pc = "remove"
    /\ MutateQueue(t, Without(db.queue, Head(tab[t].rest)),
                   [tab[t] EXCEPT !.pc = "loop", !.rest = Tail(tab[t].rest)])
    /\ UNCHANGED reported /\ OthersUnchanged

\* 400, 403, 409 and 507: the draft stays, with the error.
ReceiveRefused(t, c) ==
    /\ Awaits(t, c) /\ tab[t].answer = "refused"
    /\ MutateQueue(t, WithError(db.queue, c, TRUE),
                   [tab[t] EXCEPT !.pc = "loop", !.rest = Tail(tab[t].rest), !.answer = "none"])
    /\ UNCHANGED reported /\ OthersUnchanged

Asking(t) == tab[t].pc = "command" /\ tab[t].answer = "none"

\* A timeout, a lost answer or 5xx.  What was sent may still be done.
LoseAnswer(t) ==
    /\ tab[t].pc \in {"state", "command"}
    /\ life.losses > 0
    /\ life' = [life EXCEPT !.losses = @ - 1]
    /\ tab' = [tab EXCEPT ![t] = Ended(t)]
    /\ late' = IF Asking(t) THEN late \cup {Head(tab[t].rest)} ELSE late
    /\ Report(t)
    /\ UNCHANGED <<db, log, session, created, discarded>>

\* 401: the session is gone.
ReceiveUnauthorised(t) ==
    /\ ~session
    /\ tab[t].pc \in {"state", "command"} /\ tab[t].answer = "none"
    /\ tab' = [tab EXCEPT ![t] = Ended(t)]
    /\ Report(t)
    /\ UNCHANGED db /\ OthersUnchanged

\* logout deletes the token, and a request without one is answered with 401,
\* which ends the loop.
EndSync(t) ==
    /\ tab[t].pc = "loop" /\ (tab[t].rest = <<>> \/ tab[t].mode = "local")
    /\ tab' = [tab EXCEPT ![t] = Ended(t)]
    /\ Report(t)
    /\ UNCHANGED db /\ OthersUnchanged

-----------------------------------------------------------------------------
(* The main device: /api/state and /api/command, see Warehouse *)

AnswerState(t) ==
    /\ session
    /\ tab[t].pc = "state" /\ tab[t].answer = "none"
    /\ tab' = [tab EXCEPT ![t].answer = "ok"]
    /\ UNCHANGED <<db, reported>> /\ OthersUnchanged

Fitting(c) == c \in Applied \/ Needs[c] \subseteq Applied

\* Mutant of Handled: a command is carried out as often as it is sent.
HandledAgain(c) == IF Fitting(c) THEN Append(log, c) ELSE log

Handled(c) == IF Fitting(c) /\ c \notin Applied THEN Append(log, c) ELSE log

AnswerCommand(t, c) ==
    /\ session /\ Awaits(t, c) /\ tab[t].answer = "none"
    /\ log' = Handled(c)
    /\ tab' = [tab EXCEPT ![t].answer = IF Fitting(c) THEN "ok" ELSE "refused"]
    /\ UNCHANGED <<db, session, late, reported>> /\ UsersUnchanged

\* Nobody waits for the answer any more, or the request never arrives.
LateCommand ==
    \E c \in late :
        /\ late' = late \ {c}
        /\ log' \in {log, IF session THEN Handled(c) ELSE log}
        /\ UNCHANGED <<db, tab, session, reported>> /\ UsersUnchanged

-----------------------------------------------------------------------------
(* The user: send, the list of drafts and logout *)

\* Mutant of Enqueued: the queue this tab has in memory is written.
EnqueuedFromMemory(t, c) == Append(tab[t].queue, [cmd |-> c, error |-> FALSE])

Enqueued(t, c) == Append(db.queue, [cmd |-> c, error |-> FALSE])

\* send: the draft is stored, and a sync is started unless one is running.
SaveDraft(t) ==
    /\ tab[t].mode = "remote" /\ tab[t].sending = NoCommand
    /\ \E c \in {d \in life.drafts \ created : Maker[d] = t} :
        /\ MutateQueue(t, Enqueued(t, c),
                       IF tab[t].pc = "idle" THEN [Started(t, <<>>) EXCEPT !.sending = c]
                                             ELSE tab[t])
        /\ created' = created \cup {c}
    /\ UNCHANGED <<reported, discarded, life>> /\ HostUnchanged

DiscardDraft(t) ==
    /\ tab[t].mode = "remote"
    /\ \E d \in {e \in Range(tab[t].queue) : e.cmd \in life.discards} :
        /\ MutateQueue(t, Without(db.queue, d.cmd), tab[t])
        /\ discarded' = discarded \cup {d.cmd}
    /\ UNCHANGED <<reported, created, life>> /\ HostUnchanged

RetryDraft(t) ==
    /\ tab[t].mode = "remote"
    /\ \E d \in Range(tab[t].queue) :
        MutateQueue(t, WithError(db.queue, d.cmd, FALSE),
                    IF tab[t].pc = "idle" THEN Started(t, <<>>) ELSE tab[t])
    /\ UNCHANGED reported /\ OthersUnchanged

AskLogout(t) ==
    /\ life.quits /\ t \in Leavers
    /\ tab[t].mode = "remote" /\ tab[t].leaving = "no" /\ tab[t].queue = <<>>
    /\ tab' = [tab EXCEPT ![t].leaving = "asked"]
    /\ UNCHANGED <<db, reported>> /\ OthersUnchanged

RefuseLogout(t) ==
    /\ tab[t].leaving = "asked"
    /\ tab' = [tab EXCEPT ![t].leaving = "no"]
    /\ UNCHANGED <<db, reported>> /\ OthersUnchanged

\* The main device answers, or the network does not; then both keys go.
ForgetShared(t) ==
    /\ tab[t].leaving = "asked"
    /\ session' \in {FALSE, session}
    /\ db' = [db EXCEPT !.queue = <<>>]
    /\ tab' = [tab EXCEPT ![t].leaving = "forgotten"]
    /\ UNCHANGED <<reported, log, late>> /\ UsersUnchanged

\* The mode is changed, then the personal warehouse is opened.
LeaveShared(t) ==
    /\ tab[t].leaving = "forgotten"
    /\ db' = [db EXCEPT !.mode = "local"]
    /\ tab' = [tab EXCEPT ![t].mode = "local", ![t].queue = <<>>, ![t].leaving = "no"]
    /\ UNCHANGED reported /\ OthersUnchanged

\* The page is loaded again, or the application was killed.
Reload(t) ==
    /\ life.reloads > 0
    /\ life' = [life EXCEPT !.reloads = @ - 1]
    /\ late' = IF Asking(t) THEN late \cup {Head(tab[t].rest)} ELSE late
    /\ tab' = [tab EXCEPT ![t] = Opened(db.mode, IF db.mode = "remote" THEN db.queue ELSE <<>>)]
    /\ UNCHANGED <<db, log, session, reported, created, discarded>>

-----------------------------------------------------------------------------

Sync(t) ==
    \/ StartSync(t) \/ ReceiveState(t)
    \/ SendDraft(t) \/ RemoveDraft(t)
    \/ (\E c \in Commands : ReceiveDone(t, c) \/ ReceiveRefused(t, c))
    \/ LoseAnswer(t) \/ ReceiveUnauthorised(t) \/ EndSync(t)

Host(t) == AnswerState(t) \/ \E c \in Commands : AnswerCommand(t, c)

User(t) ==
    \/ SaveDraft(t) \/ DiscardDraft(t) \/ RetryDraft(t)
    \/ AskLogout(t) \/ RefuseLogout(t) \/ ForgetShared(t) \/ LeaveShared(t)
    \/ Reload(t)

Next ==
    \/ \E t \in Tabs : Sync(t) \/ Host(t) \/ User(t)
    \/ LateCommand

Spec == Init /\ [][Next]_vars

\* The timer of a visible tab fires every five seconds, and what needs no
\* network is done.  The network fails a bounded number of times: after that a
\* request is answered, and the answer arrives.
Fairness ==
    \A t \in Visible :
        /\ WF_vars(StartSync(t)) /\ WF_vars(AnswerState(t)) /\ WF_vars(ReceiveState(t))
        /\ WF_vars(SendDraft(t)) /\ WF_vars(\E c \in Commands : AnswerCommand(t, c))
        /\ WF_vars(\E c \in Commands : ReceiveDone(t, c) \/ ReceiveRefused(t, c))
        /\ WF_vars(RemoveDraft(t)) /\ WF_vars(EndSync(t))

LiveSpec == Spec /\ Fairness

-----------------------------------------------------------------------------

Drafts == Range(db.queue)
Queued == {d.cmd : d \in Drafts}
Refused == {d.cmd : d \in {e \in Drafts : e.error}}

\* "Read-modify-write in one IndexedDB transaction prevents drafts from
\* different tabs being lost" (web/app.js:42): until users log out every draft
\* is in the queue, at the main device, or taken back by a user, whatever tabs
\* do at the same time, whatever times out and wherever a tab is closed.
DraftsSurvive == ~life.quits => created \subseteq Queued \cup Applied \cup discarded

\* What send() calls saved was carried out by the main device, or taken back,
\* although it only looks for the draft in the queue (web/app.js:200).
SavedIsApplied == ~life.quits => reported \subseteq Applied \cup discarded

\* A draft that was taken back does not come back to the queue, through writes
\* of other tabs, running syncs and log-outs (web/app.js:43, 393).
DiscardedStaysOut == discarded \cap Queued = {}

\* "After the connection is restored the client repeats the draft"
\* (docs/АРХИТЕКТУРА.md:38): every draft is carried out, refused with an error
\* the user sees, or taken back; none waits behind another for ever.
DraftsSettle ==
    \A c \in Commands :
        ~life.quits /\ c \in created ~> c \in Applied \cup Refused \cup discarded

\* "Local data is kept separately" (web/app.js:235): what happens to the shared
\* warehouse does not change the personal one.
LocalKept == db.local = "own"
=============================================================================
