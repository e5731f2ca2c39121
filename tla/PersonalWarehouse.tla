-------------------------- MODULE PersonalWarehouse --------------------------
(***************************************************************************)
(* The personal warehouse of src/web/app.js: one record "local" in         *)
(* IndexedDB, shown by several pages that tell each other about commands   *)
(* with a BroadcastChannel, its full copies, and on Android a portable     *)
(* file that mirrors it.  The rules are those of Domain.                   *)
(***************************************************************************)
EXTENDS Domain

CONSTANTS
    Tabs,           \* pages of the browser; Android has one
    Lives           \* where the program runs, the warehouse the pages find (a
                    \* state, or None) and what the user may ask:
                    \* [device, start, commands], with the bounds [made, kept,
                    \* installed] on commands, copies kept and copies restored

None == [none |-> TRUE]

VARIABLES
    life,       \* one of Lives; only on "android" is there a portable file
    local,      \* the record "local" in IndexedDB
    before,     \* the record "before-restore"
    page,       \* what each page holds in memory
    news,       \* pages with a message of the channel on its way
    file,       \* the portable file, None when none is attached
    copies,     \* full copies saved by the user
    used,       \* identifiers of commands already made
    installs,   \* copies restored so far
    unaware     \* history: pages whose warehouse was replaced behind their back

vars == <<life, local, before, page, news, file, copies, used, installs, unaware>>

Me == [id |-> "me", role |-> "owner", permissions |-> << >>]

\* install: "" | "restore" | "file" | "again", the writes a restoration still has to make.
Page(s) == [state |-> s, form |-> FALSE, sent |-> None, install |-> "", value |-> None]

Open == IF life.device = "android" THEN {CHOOSE t \in Tabs : TRUE} ELSE Tabs

\* portableSnapshot and backup leave out what belongs to the device.
Copy(s, version, segments, events) ==
    [version |-> version, seq |-> s.seq, space |-> s.space, items |-> s.items, places |-> s.places,
     stocks |-> s.stocks, historySegments |-> segments, events |-> events, eventCount |-> s.eventCount]

Clean(s) == Copy(s, 2, s.historySegments, s.events)
Legacy(s) == Copy(s, 1, << >>, AllEvents(s))

Valid(s) == ValidateBackup(Clean(s)) # {}

------------------------------------------------------------------------------
(* What there is to store and to ask. *)

\* The texts, with those of a new warehouse, which the provers do not know to be strings.
Texts == STRING \cup {"S", "main", "Main"}

Cards == [id : Texts, version : Nat, unit : Texts, sku : Texts, barcode : Texts,
          price : Nat, archived : BOOLEAN]
Sites == [id : Texts, name : Texts, version : Nat]
Changes == [item : Texts, place : Texts, qty : Int]
Events == [id : Texts, kind : Moves \cup {"reverse"}, item : Texts, ref : Texts, changes : Seq(Changes)]

Movements == [type : Moves, id : Texts, itemId : Texts, from : Texts, to : Texts,
              qty : Nat, expected : Nat, expectedUnit : Texts]
Singles == Movements \cup [type : {"item"}, id : Texts, item : Cards]
           \cup [type : {"place"}, id : Texts, place : Sites]
           \cup [type : {"space"}, id : Texts, space : Texts]
           \cup [type : {"reverse"}, id : Texts, ref : Texts]
Imports == [type : {"catalog-import"}, id : Texts, items : Seq(Cards)]
Documents == [type : {"batch"}, id : Texts, commands : Seq(Singles)]
Commands == Singles \cup Imports \cup Documents

IsMap(f, K, V) == f = [k \in DOMAIN f |-> f[k]] /\ \A k \in DOMAIN f : k \in K /\ f[k] \in V

IsWarehouse(s) ==
    /\ s = [seq |-> s.seq, space |-> s.space, items |-> s.items, places |-> s.places, stocks |-> s.stocks,
            historySegments |-> s.historySegments, events |-> s.events, eventCount |-> s.eventCount, seen |-> s.seen]
    /\ s.seq \in Nat /\ s.space \in Texts /\ IsFiniteSet(DOMAIN s.items) /\ IsFiniteSet(DOMAIN s.places)
    /\ IsMap(s.items, Texts, Cards) /\ \A id \in DOMAIN s.items : s.items[id].id = id
    /\ IsMap(s.places, Texts, Sites) /\ IsMap(s.stocks, Texts \X Texts, [qty : 0..MaxQty, version : Nat])
    /\ s.historySegments \in Seq(Seq(Events)) /\ s.events \in Seq(Events) /\ s.seen \in Seq(Commands)

\* No segment is open but the last, which is not empty; no more commands are
\* remembered than the limit.
InSegments(s) ==
    /\ \A i \in DOMAIN s.historySegments : Len(s.historySegments[i]) = SegmentSize
    /\ Len(s.events) <= SegmentSize /\ (s.historySegments # << >> => s.events # << >>)
    /\ s.eventCount = HistoryCount(s) /\ Len(s.seen) <= RecentLimit

\* The identifiers of the events a command makes.
EventIds(c) == IF c.type = "batch" THEN {c.commands[n].id : n \in DOMAIN c.commands}
               ELSE IF c.type \in Moves \cup {"reverse"} THEN {c.id} ELSE {}

\* The pages find nothing, or a warehouse whose own copy is accepted; the
\* identifier of a command is one nothing else has.
ASSUME PersonalAssumption ==
    /\ Tabs # {}
    /\ \A l \in Lives :
        /\ l.device \in {"browser", "android"} /\ {l.made, l.kept, l.installed} \subseteq Nat
        /\ l.start # None => /\ IsWarehouse(l.start) /\ InSegments(l.start) /\ l.kept > 0
                             /\ ValidateBackup(Clean(l.start)) = {[l.start EXCEPT !.seen = << >>]}
        /\ l.commands \subseteq Commands
        /\ \A c \in l.commands : c.type # "batch" =>
              /\ \A d \in l.commands : d.type = "batch" => EventIds(c) \cap EventIds(d) = {}
              /\ l.start # None => \A e \in EventSet(l.start) : e.id \notin EventIds(c)

\* The file is written when one is attached and the copy passes its own check.
Mirror(s) == file' = IF file # None /\ Valid(s) THEN Clean(s) ELSE file

Init ==
    /\ life \in Lives
    /\ local = life.start /\ before = None /\ file = None
    /\ page = [t \in Tabs |-> Page(local)]
    /\ news = {} /\ used = {} /\ installs = 0 /\ unaware = {}
    /\ copies = IF local = None THEN {} ELSE {Legacy(local)}

------------------------------------------------------------------------------
(* createLocal: the form is shown when nothing is stored, and stores a new  *)
(* warehouse without looking again.                                         *)

OpenForm(t) ==
    /\ t \in Open /\ page[t].state = None /\ ~page[t].form
    /\ page' = [page EXCEPT ![t] = IF local = None THEN [@ EXCEPT !.form = TRUE] ELSE Page(local)]
    /\ UNCHANGED <<life, local, before, news, file, copies, used, installs, unaware>>

SubmitForm(t) ==
    /\ page[t].form
    /\ local' = CreateState("S")
    /\ page' = [page EXCEPT ![t] = Page(CreateState("S"))]
    /\ unaware' = (unaware \cup Tabs) \ {t}
    /\ UNCHANGED <<life, before, news, file, copies, used, installs>>

------------------------------------------------------------------------------
(* send: applyLocal runs the command on the stored warehouse in one         *)
(* transaction; the page shows the result and tells the others afterwards.  *)

\* A document or an import is sent again with the identifier it had.
Sendable(c) == c.id \notin used \/ c.type \in {"batch", "catalog-import"}

Commit(t, c) ==
    /\ t \in Open /\ page[t].state # None /\ page[t].sent = None /\ page[t].install = ""
    /\ Sendable(c) /\ Cardinality(used \cup {c.id}) <= life.made
    /\ \E s \in Execute(IF local # None THEN local ELSE page[t].state, c, Me) :
          /\ local' = s
          /\ page' = [page EXCEPT ![t].sent = s]
    /\ used' = used \cup {c.id}
    /\ unaware' = unaware \ {t}
    /\ UNCHANGED <<life, before, news, file, copies, installs>>

\* Mutant: the other pages are told only by the Android shell.
ReportSilently(t) ==
    /\ page[t].sent # None
    /\ page' = [page EXCEPT ![t].state = page[t].sent, ![t].sent = None]
    /\ Mirror(page[t].sent)
    /\ UNCHANGED <<life, local, before, news, copies, used, installs, unaware>>

Report(t) ==
    /\ page[t].sent # None
    /\ page' = [page EXCEPT ![t].state = page[t].sent, ![t].sent = None]
    /\ news' = news \cup (Open \ {t})
    /\ Mirror(page[t].sent)
    /\ UNCHANGED <<life, local, before, copies, used, installs, unaware>>

\* channel.onmessage reads the stored warehouse, after what the page itself asked.
ReceiveNews(t) ==
    /\ t \in news /\ page[t].sent = None
    /\ page' = [page EXCEPT ![t].state = local]
    /\ news' = news \ {t}
    /\ unaware' = unaware \ {t}
    /\ UNCHANGED <<life, local, before, file, copies, used, installs>>

------------------------------------------------------------------------------
(* Full copies and their restoration. *)

Keep(raw) ==
    /\ raw \notin copies /\ Cardinality(copies) < life.kept
    /\ copies' = copies \cup {raw}

Backup(t) ==
    /\ t \in Open /\ page[t].state # None /\ Valid(page[t].state)
    /\ Keep(Clean(page[t].state))
    /\ UNCHANGED <<life, local, before, page, news, file, used, installs, unaware>>

\* The copy made before a restoration is exported without a check.
ExportBefore(t) ==
    /\ t \in Open /\ before # None
    /\ Keep(Clean(before))
    /\ UNCHANGED <<life, local, before, page, news, file, used, installs, unaware>>

\* restoreModal and installPortableState: the page saves the warehouse it shows ...
Restores == {"restore", "file"}

StartInstall(t, raw, how) ==
    /\ t \in Open /\ page[t].install = "" /\ page[t].sent = None /\ installs < life.installed
    /\ how = "restore" => page[t].state # None
    /\ \E s \in ValidateBackup(raw) :
          page' = [page EXCEPT ![t].install = how, ![t].value = s]
    /\ before' = IF page[t].state = None THEN before ELSE page[t].state
    /\ installs' = installs + 1
    /\ UNCHANGED <<life, local, news, file, copies, used, unaware>>

\* ... and stores the copy, which restoreModal stores a second time; a file
\* opened on Android becomes the portable file.
Replace(t) ==
    /\ page[t].install \in Restores
    /\ local' = page[t].value
    /\ page' = [page EXCEPT ![t].state = page[t].value, ![t].form = FALSE,
                            ![t].install = IF @ = "file" THEN "" ELSE "again"]
    /\ unaware' = (unaware \cup Tabs) \ {t}
    /\ file' = IF page[t].install = "file" /\ life.device = "android" THEN Clean(page[t].value) ELSE file
    /\ UNCHANGED <<life, news, before, copies, used, installs>>

ReplaceAgain(t) ==
    /\ page[t].install = "again"
    /\ local' = page[t].value
    /\ page' = [page EXCEPT ![t].install = ""]
    /\ unaware' = IF local = page[t].value THEN unaware ELSE Tabs
    /\ Mirror(page[t].state)
    /\ UNCHANGED <<life, before, news, copies, used, installs>>

CreateFile(t) ==
    /\ life.device = "android" /\ t \in Open /\ file = None
    /\ page[t].state # None /\ Valid(page[t].state)
    /\ file' = Clean(page[t].state)
    /\ UNCHANGED <<life, local, before, page, news, copies, used, installs, unaware>>

\* The page is closed or loaded again at any point of what it was doing.
Reload(t) ==
    /\ t \in Open /\ page[t] # Page(local)
    /\ page' = [page EXCEPT ![t] = Page(local)]
    /\ news' = news \ {t}
    /\ unaware' = IF page[t].sent = None THEN unaware \ {t} ELSE Open \ {t}
    /\ UNCHANGED <<life, local, before, file, copies, used, installs>>

Next == \E t \in Tabs :
    \/ OpenForm(t) \/ SubmitForm(t)
    \/ \E c \in life.commands : Commit(t, c)
    \/ Report(t) \/ ReceiveNews(t)
    \/ Backup(t) \/ ExportBefore(t)
    \/ \E raw \in copies, how \in Restores : StartInstall(t, raw, how)
    \/ Replace(t) \/ ReplaceAgain(t)
    \/ CreateFile(t) \/ Reload(t)

Spec == Init /\ [][Next]_vars

------------------------------------------------------------------------------
(* Properties *)

\* The stored warehouse; whatever else is held was stored before.
Stored == {local} \ {None}

\* Types and bounds: no stock below zero or above MAX_QTY, no segment that is
\* empty or too long, no more remembered commands than the limit.
TypeOK ==
    /\ life \in Lives /\ news \subseteq Tabs /\ unaware \subseteq Tabs
    /\ installs \in 0..life.installed /\ Cardinality(copies) <= life.kept
    /\ \A s \in Stored :
          /\ \A k \in DOMAIN s.stocks : s.stocks[k].qty \in 0..MaxQty
          /\ InSegments(s)

\* The sum and the number of the changes the whole history makes to a stock.
AllChanges(s) == FlattenSeq([n \in 1..HistoryCount(s) |-> AllEvents(s)[n].changes])
Computed(changes, k) ==
    LET upTo[n \in 0..Len(changes)] ==
            IF n = 0 THEN [qty |-> 0, version |-> 0]
            ELSE IF <<changes[n].item, changes[n].place>> # k THEN upTo[n - 1]
            ELSE [qty |-> upTo[n - 1].qty + changes[n].qty, version |-> upTo[n - 1].version + 1]
    IN upTo[Len(changes)]

\* A stock is what the history says, across all segments, restorations and
\* documents: its quantity is the sum of the changes and its version, which a
\* stocktaking relies on, is their number.
StockIsHistory ==
    \A s \in Stored : \A item \in DOMAIN s.items, place \in DOMAIN s.places :
        StockAt(s, item, place) = Computed(AllChanges(s), <<item, place>>)

ArchivedWithStock(s) == \E id \in DOMAIN s.items : s.items[id].archived /\ Total(s.stocks, id) # 0

\* A full copy of any state the program reaches is accepted again and gives
\* that state back, in the format of today and in the one of the first
\* releases; the only copies refused are those of a warehouse in which a
\* reversal gave a stock to an archived card (README, observations).
BackupRestores ==
    \A s \in Stored : LET back == IF ArchivedWithStock(s) THEN {} ELSE {[s EXCEPT !.seen = << >>]}
                    IN ValidateBackup(Clean(s)) = back /\ ValidateBackup(Legacy(s)) = back

\* A page no message is on its way to shows the stored warehouse, unless
\* another page has replaced it, which sends no message, or was closed between
\* storing a command and telling of it.
TabsAgree ==
    (\A t \in Open : page[t].sent = None) =>
        \A t \in Open \ (news \cup unaware) :
            page[t].state # None => page[t].state = local

History(s) == IF s = None THEN << >> ELSE AllEvents(s)

Log == INSTANCE HistoryLog WITH
    log <- History(local),
    kept <- {History(s) : s \in {local, before, file} \cup copies}
            \cup UNION {{History(page[t].state), History(page[t].sent), History(page[t].value)} : t \in Tabs}

\* However it is cut into segments, the stored history is only extended by
\* events with new identifiers or replaced by one this warehouse had before.
ImplementsHistoryLog == Log!Spec
=============================================================================
