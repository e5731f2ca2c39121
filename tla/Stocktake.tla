------------------------------ MODULE Stocktake ------------------------------
(***************************************************************************)
(* Stocktakings of src/web/workspace.js: a draft kept in IndexedDB while   *)
(* the user counts, a document made of it once, and its way to the         *)
(* warehouse through send, the queue and syncNow of app.js, until          *)
(* workspaceCommandAccepted removes the draft.  Any page may be loaded     *)
(* again, and any write of a draft may fail.                               *)
(***************************************************************************)
EXTENDS Integers

CONSTANTS
    Counts,     \* what may be counted
    NotCounted, \* an empty field
    Lives,      \* what happens: [mode, pages, items], the cards of the place
                \* that is counted, with bounds [drafts, moves, losses, failures, reloads]
    None

\* The stock and its version when the draft was started, and what was counted.
Row == [qty : Nat, expected : Nat, value : Counts \cup {NotCounted}]

ASSUME StocktakeAssumption ==
    /\ Counts \subseteq Nat /\ NotCounted \notin Counts
    /\ \A l \in Lives :
        /\ None \notin [id : Nat, rows : [l.items -> Row]]
        /\ None \notin [id : Nat, cmd : [id : Nat, rows : [l.items -> Row]] \cup {None}, rows : [l.items -> Row]]
    /\ \A l \in Lives : /\ l.mode \in {"local", "remote"}
                        /\ {l.drafts, l.moves, l.losses, l.failures, l.reloads} \subseteq Nat

VARIABLES
    life,       \* one of Lives
    host,       \* the warehouse: the stock of each card and the documents recorded
    shown,      \* what each page knows of the warehouse
    disk,       \* the draft in IndexedDB
    draft,      \* countDraft of each page
    job,        \* where finishInventory of each page stands, and its document
    sync,       \* the answer syncNow of each page is about to handle
    accept,     \* the document workspaceCommandAccepted of each page looks for
    queue,      \* the queue of commands in IndexedDB: [cmd, error]
    late,       \* requests that timed out and may still be carried out
    spent,      \* what is used up of the bounds
    tried,      \* history: documents handed to send
    told,       \* history: documents a page called recorded
    dropped     \* history: documents the user gave up

vars == <<life, host, shown, disk, draft, job, sync, accept, queue, late, spent, tried, told, dropped>>

Pages == life.pages
Items == life.items
NoJob == [step |-> "", cmd |-> None]
Spend(what) == spent[what] < life[what] /\ spent' = [spent EXCEPT ![what] = @ + 1]

------------------------------------------------------------------------------
(* The warehouse *)

Known(h, id) == \E d \in h.done : d.cmd.id = id
Counted(rows) == {i \in Items : rows[i].value # NotCounted}

\* Mutant: only the rows with a difference are checked.
FitsDifferent(h, cmd) ==
    \A i \in Counted(cmd.rows) :
        cmd.rows[i].value # cmd.rows[i].qty => h.stock[i].version = cmd.rows[i].expected

\* Every counted stock has the version it had when the draft was started.
Fits(h, cmd) == \A i \in Counted(cmd.rows) : h.stock[i].version = cmd.rows[i].expected

\* The same document again is answered as done; another one under its number,
\* or one that counted a stock which has changed, is refused.
Accepted(h, cmd) == IF Known(h, cmd.id) THEN \E d \in h.done : d.cmd = cmd ELSE Fits(h, cmd)

After(h, cmd) ==
    IF ~Accepted(h, cmd) \/ Known(h, cmd.id) THEN h
    ELSE LET C == Counted(cmd.rows)
         IN [stock |-> [i \in Items |-> IF i \in C THEN [qty |-> cmd.rows[i].value, version |-> h.stock[i].version + 1]
                                        ELSE h.stock[i]],
             done |-> h.done \cup {[cmd |-> cmd, changes |-> [i \in C |-> cmd.rows[i].value - h.stock[i].qty]]}]

Init ==
    /\ life \in Lives
    /\ host = [stock |-> [i \in Items |-> [qty |-> 1, version |-> 1]], done |-> {}]
    /\ shown = [p \in Pages |-> host]
    /\ disk = None /\ draft = [p \in Pages |-> None] /\ job = [p \in Pages |-> NoJob]
    /\ sync = [p \in Pages |-> None] /\ accept = [p \in Pages |-> None]
    /\ queue = {} /\ late = {} /\ tried = {} /\ told = {} /\ dropped = {}
    /\ spent = [drafts |-> 0, moves |-> 0, losses |-> 0, failures |-> 0, reloads |-> 0]

\* Somebody else moves a card.
Move(i) ==
    /\ Spend("moves")
    /\ \E qty \in Counts : host' = [host EXCEPT !.stock[i] = [qty |-> qty, version |-> @.version + 1]]
    /\ UNCHANGED <<life, shown, disk, draft, job, sync, accept, queue, late, tried, told, dropped>>

Refresh(p) ==
    /\ shown[p] # host
    /\ shown' = [shown EXCEPT ![p] = host]
    /\ UNCHANGED <<life, host, disk, draft, job, sync, accept, queue, late, spent, tried, told, dropped>>

------------------------------------------------------------------------------
(* The draft *)

\* startInventory takes the stocks the page shows.
StartInventory(p) ==
    /\ draft[p] = None /\ job[p] = NoJob
    /\ Spend("drafts")
    /\ \E new \in {[id |-> spent.drafts + 1, cmd |-> None,
                    rows |-> [i \in Items |-> [qty |-> shown[p].stock[i].qty,
                                               expected |-> shown[p].stock[i].version,
                                               value |-> NotCounted]]]} :
          draft' = [draft EXCEPT ![p] = new] /\ disk' = new
    /\ UNCHANGED <<life, host, shown, job, sync, accept, queue, late, tried, told, dropped>>

\* An input is kept in memory and saved; the write may fail.
Saved(d) == disk' = d /\ UNCHANGED spent
NotSaved == UNCHANGED disk /\ Spend("failures")

Input(p) ==
    /\ draft[p] # None /\ draft[p].cmd = None /\ job[p].step # "review"
    /\ \E i \in Items, n \in Counts :
          /\ draft[p].rows[i].value # n
          /\ draft' = [draft EXCEPT ![p].rows[i].value = n]
    /\ Saved(draft'[p]) \/ NotSaved
    /\ UNCHANGED <<life, host, shown, job, sync, accept, queue, late, tried, told, dropped>>

------------------------------------------------------------------------------
(* finishInventory: saved, reviewed, recorded in the draft, saved again and *)
(* sent; a write that fails ends it.                                        *)

To(p, step, cmd) == job' = [job EXCEPT ![p] = [step |-> step, cmd |-> cmd]]
Document(d) == [id |-> d.id, rows |-> d.rows]

\* Mutant: a document that was made before is sent again at once.
FinishAtOnce(p) ==
    /\ draft[p] # None /\ job[p] = NoJob
    /\ \/ /\ draft[p].cmd # None
          /\ To(p, "send", draft[p].cmd) /\ UNCHANGED <<disk, spent>>
       \/ /\ draft[p].cmd = None
          /\ Saved(draft[p])
          /\ Counted(draft[p].rows) # {} /\ Fits(shown[p], draft[p])
          /\ To(p, "review", Document(draft[p]))
    /\ UNCHANGED <<life, host, shown, draft, sync, accept, queue, late, tried, told, dropped>>

Finish(p) ==
    /\ draft[p] # None /\ job[p] = NoJob
    /\ \/ /\ Saved(draft[p])
          /\ IF draft[p].cmd # None THEN To(p, "keep", draft[p].cmd)
             ELSE /\ Counted(draft[p].rows) # {} /\ Fits(shown[p], draft[p])
                  /\ To(p, "review", Document(draft[p]))
       \/ NotSaved /\ UNCHANGED job
    /\ UNCHANGED <<life, host, shown, draft, sync, accept, queue, late, tried, told, dropped>>

Same(p) == draft[p] # None /\ draft[p].id = job[p].cmd.id

\* reviewCountDocument: the user agrees or goes back; meanwhile the page may
\* have got another state, or lost the draft.
Review(p) ==
    /\ job[p].step = "review"
    /\ \/ /\ Same(p) /\ Accepted(shown[p], job[p].cmd)
          /\ draft' = [draft EXCEPT ![p].cmd = job[p].cmd]
          /\ Saved(draft'[p]) /\ To(p, "keep", job[p].cmd)
       \/ /\ Same(p) /\ Accepted(shown[p], job[p].cmd)
          /\ draft' = [draft EXCEPT ![p].cmd = job[p].cmd]
          /\ NotSaved /\ To(p, "", None)
       \/ To(p, "", None) /\ UNCHANGED <<draft, disk, spent>>
    /\ UNCHANGED <<life, host, shown, sync, accept, queue, late, tried, told, dropped>>

\* The payload is saved before every attempt.
KeepPayload(p) ==
    /\ job[p].step = "keep"
    /\ \/ Same(p) /\ Saved(draft[p]) /\ To(p, "send", job[p].cmd)
       \/ Same(p) /\ NotSaved /\ To(p, "", None)
       \/ ~Same(p) /\ To(p, "", None) /\ UNCHANGED <<disk, spent>>
    /\ UNCHANGED <<life, host, shown, draft, sync, accept, queue, late, tried, told, dropped>>

Tell(p, cmd) == told' = told \cup {cmd} /\ accept' = [accept EXCEPT ![p] = cmd]

SendLocal(p) ==
    /\ life.mode = "local" /\ job[p].step = "send"
    /\ host' = After(host, job[p].cmd)
    /\ tried' = tried \cup {job[p].cmd}
    /\ IF Accepted(host, job[p].cmd)
       THEN /\ shown' = [shown EXCEPT ![p] = host']
            /\ Tell(p, job[p].cmd)
       ELSE UNCHANGED <<shown, told, accept>>
    /\ To(p, "", None)
    /\ UNCHANGED <<life, disk, draft, sync, queue, late, spent, dropped>>

Queued(id) == {e \in queue : e.cmd.id = id}

Enqueue(p) ==
    /\ life.mode = "remote" /\ job[p].step = "send"
    /\ queue' = IF Queued(job[p].cmd.id) # {} THEN queue ELSE queue \cup {[cmd |-> job[p].cmd, error |-> FALSE]}
    /\ tried' = tried \cup {job[p].cmd}
    /\ To(p, "asked", job[p].cmd)
    /\ UNCHANGED <<life, host, shown, disk, draft, sync, accept, late, spent, told, dropped>>

\* Mutant: an entry with an error is not looked for.
LookAtWaiting(p) ==
    /\ job[p].step = "asked"
    /\ IF \A e \in Queued(job[p].cmd.id) : e.error THEN Tell(p, job[p].cmd) ELSE UNCHANGED <<told, accept>>
    /\ To(p, "", None)
    /\ UNCHANGED <<life, host, shown, disk, draft, sync, queue, late, spent, tried, dropped>>

\* After syncNow, which returns at once when another one is running: the
\* document that left the queue is called recorded.
LookAtQueue(p) ==
    /\ job[p].step = "asked"
    /\ IF Queued(job[p].cmd.id) = {} THEN Tell(p, job[p].cmd) ELSE UNCHANGED <<told, accept>>
    /\ To(p, "", None)
    /\ UNCHANGED <<life, host, shown, disk, draft, sync, queue, late, spent, tried, dropped>>

------------------------------------------------------------------------------
(* syncNow, as far as a document sees it *)

\* A document is sent and carried out; the answer comes, or is lost, and then
\* the document may not even have been carried out yet.
Sync(p) ==
    /\ sync[p] = None
    /\ \E e \in queue :
          /\ ~e.error
          /\ \/ /\ host' = After(host, e.cmd)
                /\ sync' = [sync EXCEPT ![p] = [cmd |-> e.cmd, done |-> Accepted(host, e.cmd)]]
                /\ UNCHANGED <<late, spent>>
             \/ Spend("losses") /\ late' = late \cup {e.cmd} /\ UNCHANGED <<host, sync>>
    /\ UNCHANGED <<life, shown, disk, draft, job, accept, queue, tried, told, dropped>>

LateCommand ==
    /\ \E cmd \in late : host' = After(host, cmd) /\ late' = late \ {cmd}
    /\ UNCHANGED <<life, shown, disk, draft, job, sync, accept, queue, spent, tried, told, dropped>>

ReceiveDone(p) ==
    /\ sync[p] # None /\ sync[p].done /\ accept[p] = None
    /\ shown' = [shown EXCEPT ![p] = host]
    /\ queue' = queue \ Queued(sync[p].cmd.id)
    /\ accept' = [accept EXCEPT ![p] = sync[p].cmd]
    /\ sync' = [sync EXCEPT ![p] = None]
    /\ UNCHANGED <<life, host, disk, draft, job, late, spent, tried, told, dropped>>

ReceiveRefused(p) ==
    /\ sync[p] # None /\ ~sync[p].done
    /\ queue' = {IF e.cmd.id = sync[p].cmd.id THEN [e EXCEPT !.error = TRUE] ELSE e : e \in queue}
    /\ sync' = [sync EXCEPT ![p] = None]
    /\ UNCHANGED <<life, host, shown, disk, draft, job, accept, late, spent, tried, told, dropped>>

\* retry-queue of the list of drafts.
RetryEntry ==
    /\ \E e \in queue : e.error /\ queue' = (queue \ {e}) \cup {[e EXCEPT !.error = FALSE]}
    /\ UNCHANGED <<life, host, shown, disk, draft, job, sync, accept, late, spent, tried, told, dropped>>

------------------------------------------------------------------------------
(* The end of a draft *)

\* workspaceCommandAccepted looks at the stored draft ...
LookAtDraft(p) ==
    /\ accept[p] # None /\ ~(disk # None /\ disk.cmd # None /\ disk.id = accept[p].id)
    /\ accept' = [accept EXCEPT ![p] = None]
    /\ UNCHANGED <<life, host, shown, disk, draft, job, sync, queue, late, spent, tried, told, dropped>>

\* ... and removes it with the one in memory.
RemoveDraft(p) ==
    /\ accept[p] # None /\ disk # None /\ disk.cmd # None /\ disk.id = accept[p].id
    /\ disk' = None
    /\ draft' = [draft EXCEPT ![p] = IF @ # None /\ @.id = accept[p].id THEN None ELSE @]
    /\ accept' = [accept EXCEPT ![p] = None]
    /\ UNCHANGED <<life, host, shown, job, sync, queue, late, spent, tried, told, dropped>>

\* count-cancel: not while the document is in the queue without an error.  A
\* document found in the history, after a syncNow (Refresh), is not given up.
Cancel(p) ==
    LET id == draft[p].id
        sent == draft[p].cmd # None
        found == life.mode = "remote" /\ sent /\ Queued(id) = {} /\ Known(shown[p], id)
    IN /\ draft[p] # None /\ job[p].step # "review"
       /\ sent => \A e \in Queued(id) : e.error
       /\ queue' = IF sent THEN queue \ Queued(id) ELSE queue
       /\ dropped' = IF found THEN dropped ELSE dropped \cup {id}
       /\ draft' = [draft EXCEPT ![p] = None]
       /\ disk' = None
       /\ UNCHANGED <<life, host, shown, job, sync, accept, late, spent, tried, told>>

\* The page is loaded again and reads the stored draft (loadCountDraft).
Reload(p) ==
    /\ Spend("reloads")
    /\ shown' = [shown EXCEPT ![p] = host]
    /\ draft' = [draft EXCEPT ![p] = disk]
    /\ job' = [job EXCEPT ![p] = NoJob]
    /\ sync' = [sync EXCEPT ![p] = None]
    /\ accept' = [accept EXCEPT ![p] = None]
    /\ UNCHANGED <<life, host, disk, queue, late, tried, told, dropped>>

Next ==
    \/ \E i \in Items : Move(i)
    \/ LateCommand \/ RetryEntry
    \/ \E p \in Pages :
        \/ Refresh(p) \/ StartInventory(p) \/ Input(p)
        \/ Finish(p) \/ Review(p) \/ KeepPayload(p) \/ SendLocal(p) \/ Enqueue(p) \/ LookAtQueue(p)
        \/ Sync(p) \/ ReceiveDone(p) \/ ReceiveRefused(p)
        \/ LookAtDraft(p) \/ RemoveDraft(p) \/ Cancel(p) \/ Reload(p)

Spec == Init /\ [][Next]_vars

------------------------------------------------------------------------------
(* Properties *)

OnePage == \A p, q \in Pages : p = q

\* What a document changes is the difference the user was shown and agreed to,
\* whoever moved the cards since the draft was started, and however often it
\* is sent.
DifferenceIsRecorded ==
    \A d \in host.done : \A i \in DOMAIN d.changes :
        d.changes[i] = d.cmd.rows[i].value - d.cmd.rows[i].qty

\* Never send a document we cannot recover: with one page open, a document
\* that was sent is recorded, or kept whole in the draft or in the queue,
\* or the user has given it up; loading the page again, or a write that
\* failed, does not lose it.
SentIsRecoverable ==
    OnePage => \A cmd \in tried :
        \/ \E d \in host.done : d.cmd = cmd
        \/ disk # None /\ disk.cmd = cmd
        \/ \E e \in queue : e.cmd = cmd
        \/ cmd.id \in dropped

\* When a page says that the document is recorded, the warehouse has recorded
\* these very counts.  Exceptions (README, observations): two pages finish one
\* draft with different counts, or the user gives the draft up meanwhile.
ToldIsRecorded ==
    \A cmd \in told :
        (OnePage \/ \A other \in tried : other.id = cmd.id => other = cmd)
            => cmd.id \in dropped \/ \E d \in host.done : d.cmd = cmd
=============================================================================
