# YARUS in TLA+

YARUS is a warehouse ledger for a small team. One device, a Windows computer or
an Android phone, is the *main device*: it keeps the only authoritative copy of
the warehouse and answers the others over HTTP. The others keep a copy and a
queue of drafts, and anybody may keep a personal warehouse without a server.
This directory models the parts of the program where order, failure and
concurrency decide whether stock, history and accounts stay right. TLC checks
the modules on small instances. TLAPS proves the same for all instances: every
invariant and every action property a passing run checks is a theorem, some of them
under an assumption that is named there, and so are both refinements; only liveness
is left to TLC.

## 1. Inventory

| Component | Source | State | Operations | What makes it hard | What makes it correct |
|---|---|---|---|---|---|
| Journal of the Go host | `server.go` 162–562, `journal_crypto.go`, `protect_*.go` | the file `yarus.journal`, `Store.S`, `previous`, `failed` | `commit`, `openStore`, `rewriteEncrypted` | kills and power failures between any two steps, partial writes, a failed `Sync`, a limit on the length of a line | what was acknowledged survives; the file can always be opened; replay gives the state handlers saw |
| Warehouse commands | `server.go` 701–1118, 1714–1751 | cards, places, stocks, events, recent commands | item, place, catalog-import, batch, in, out, transfer, count, reverse | retries after lost answers, failed commits and restarts; documents of several rows; stale counts; reversals | stocks equal the history; every command counts once; a count sets only what the counter saw; the state can be handed over |
| Users, invitations, sessions | `server.go` 663–773, 986–1012, 1752–1799, 1890–1957 | users, invites, sessions, recent commands | setup, login, join, invite, logout, disable, user-role | commands repeated before and after they are forgotten, several managers, failed commits, expiry | one owner; one user per invitation; the last command about a person holds |
| Transfer of the main device | `server.go` 1442–1519, 1538–1713, `host.js` 130–203 | status, epoch and transfer id of each device; the file and two codes the owner carries | prepare, cancel, confirm, status, import, activate | files opened late or again, lost answers, codes of other transfers, packages of release 1.2 | never two main devices, never none for good, no confirmed change left behind |
| Android host | `host.js` | one state, replaced as a whole | the same HTTP paths in a WebView | every handler yields at each `await` of WebCrypto | as for the Go host |
| Client synchronisation | `app.js` 41–43, 183–200, 343–345, 392–423 | IndexedDB: copies and the queue of drafts; the variables of each tab | syncNow, send, retry, discard, logout, reload | tabs, timers and users interleave at each `await`; timeouts whose command is carried out late | no draft is lost or done twice; what is called saved is done; personal data stays personal |
| Protected transport and snapshots | `transport.js`, `host.js` 98–105, `app.js` 183–198, `transport_crypto.go` | identifiers of recent envelopes; the snapshot each page shows | encrypt, `secureRoute`, decrypt, `acceptState` | late and repeated envelopes, a full or lost cache, clocks that differ, answers out of order | a request is carried out once; what a page shows never goes back |
| Personal warehouse and its rules | `domain.js`, `app.js` 38–41, 199, 241–309, 418 | the record `local`, copies, a portable file; the `state` of each page | every command of `execute`, backup, restoration, the channel between pages | segments, retries, two pages, a restoration between two commands | stocks follow from the history; every copy can be restored; pages agree |
| Backups | `server.go`, `journal_crypto.go` 140–146 | backup files, the copy of the key | backup, prune | a crash between copying and renaming | a complete copy always exists |
| Encrypted store of Android | `SecureHostStore.java` | one file and daily copies | save, load, copies | deletion before replacement, full disk | two good copies |
| Socket of the Android host | `MobileHostServer.java`, `Bridge.java` | waiting requests | accept, answer, time out | threads against the UI thread | each request is answered once |
| Portable warehouse file | `PortableWarehouseFile.java`, `MainActivity.java`, `app.js` 268–299 | one file outside the application | mirror, open, resolve | a second writer, conflicting revisions | no revision is overwritten unseen |
| Stocktaking | `workspace.js` 67–169 | the draft in memory and in IndexedDB, with the document once it is made | start, input, finish, review, cancel, resume | writes that fail, lost answers, pages loaded again, a second page | a document is recorded once, as the user agreed to it, and is never lost |
| History segments | `server.go`, `domain.js` | 5000 events per segment | append, normalise, read | boundaries | the same sequence of events |
| Scanner | `scanner.js`, `BarcodeScanPolicy.java` | the open session, its camera stream and its generation | open, start, tick, accept, close | every start awaits the camera, every tick awaits a frame | no camera stays on unowned; a code needs agreeing reads |
| Single writer, launcher | `lock_*.go`, `tools/launcher` | lock file, version folders | start, update | two starts at once | one server per folder |
| Desktop window, pages, Android shell, packaging | | | | not modelled: rendering, platform calls, build scripts | |

The components meet at few places. Clients call the handlers over HTTP, each
handler of the Go host holds one lock from the authentication to the answer,
and all of them change the state through `Store.commit`. The two hosts share no
memory: the owner carries a package file and two codes from one to the other.
The tabs of a client share IndexedDB and, in a personal warehouse, a
BroadcastChannel that tells of commands.

## 2. Modules

| Module | Models | Uses |
|---|---|---|
| `StoreState` | the state as the store looks at it, and patches | |
| `DurableStore` | abstract: what the journal promises to the handlers | `StoreState` |
| `JournalStore` | `commit`, `openStore`, `rewriteEncrypted`, the file and the disk | `StoreState`, instance of `DurableStore` |
| `JournalStoreProofs` | the theorems about the journal | `JournalStore` |
| `Warehouse` | `prepare`, `apply`, `/api/command`, `pruneSeen`, `validateImportedState` | |
| `WarehouseProofs` | the theorems about the warehouse | `Warehouse` |
| `Accounts` | setup, login, join, invite, logout, team commands | |
| `AccountsProofs` | the theorems about people | `Accounts` |
| `HostTransfer` | the transfer on several devices | |
| `HostTransferProofs` | the theorems about the transfer | `HostTransfer` |
| `AndroidHost` | `host.js` between two awaits | |
| `AndroidHostProofs` | the theorems about the Android host and its protected transport | `AndroidHost`, `SecureLink` |
| `ClientSync` | `app.js` between two awaits, in several tabs | |
| `ClientSyncProofs` | the theorems about drafts | `ClientSync` |
| `Domain` | the rules of `domain.js` as operators | |
| `HistoryLog` | abstract: a history that grows or is replaced by one that was kept | |
| `PersonalWarehouse` | the personal warehouse of `app.js`: pages, copies, the portable file | `Domain`, instance of `HistoryLog` |
| `PersonalWarehouseProofs` | the theorems about the personal warehouse and its rules | `PersonalWarehouse` |
| `Stocktake` | stocktakings of `workspace.js` on their way to the warehouse | |
| `StocktakeProofs` | the theorems about stocktakings and the scanner | `Stocktake`, `Scanner` |
| `Scanner` | sessions and starts of `scanner.js` | |
| `SecureLink` | envelopes, the cache of identifiers, snapshots | |
| `MC*` | the constants of the instances TLC checks | |

Parts are separated where the code separates them. `Warehouse` and `Accounts`
run on a store that behaves as `DurableStore` says: `commit` succeeds, or fails
and leaves one patch in doubt until a restart. `JournalStore` is shown to
implement `DurableStore`, which is what allows the other modules to leave the
file out. `HostTransfer` treats a command as one change, `ClientSync` treats the
host as a set of carried-out commands; both are justified by `Warehouse`.
`AndroidHost` and `PersonalWarehouse` share the rules of `domain.js`: the first
keeps only which commands were applied, the second evaluates `Domain`.
`Stocktake` sees of the warehouse what a document sees: versions of stocks and
the documents recorded.

### Journal (`JournalStore`)

`pc` says where the process is: `down`, `opening` (the loop of `openStore`,
`offset` lines done), `up`, `written` (in `commit`, between `Write` and `Sync`)
and `broken` (openStore refused the file). `file` holds the complete lines, `tail` tells
whether an incomplete one follows, and `synced` is how many lines are on the
disk itself. `WriteLine`, `WriteFails`, `SyncLine` and `SyncFails` are the steps
and error returns of `commit`; `Replay`, `ReplayRefused`, `TruncateTail`,
`RewriteEncrypted` and `Opened` those of `openStore`. `ProcessEnds` keeps what
was written, `PowerLoss` any prefix that contains the synced lines. A hash is
the number of the sealed record, which is right because every record has a
fresh nonce. Encryption itself is abstracted: a record that was glued to an
incomplete line is not `intact`.

### Warehouse

A request is one step because the handler holds `st.mu`; only a document is
several steps, one per row prepared on the staged copy, since its rows build on
one another. A request may be delivered any number of times in any order.
`Commit` may succeed with or without an answer, or fail: then `doubt` is the
state that a restart may bring up. `Pruned` forgets commands beyond the limit.
`ValidImportedState` is the check the next main device makes on the package.

### Accounts

Every operation of `account` and the team commands of `prepare`, with the same
`Commit`. `S.seen` is `Seen` in the order of `Seq`, which `Remember` cuts as `pruneSeen`
does; `Recognised` is the look into it that answers a repeated command, and for a
team command the only one. Commands about goods take places in `Seen` too
(`WarehouseCommand`). Two history variables stand beside the code's state: `S.log`,
every command in the order it was carried out, again or not, and `known`, what people
were told: invitations, tokens, commands. Passwords are left out (they do not
interact with the rest); expiry is a step.

### Transfer (`HostTransfer`)

Each device has `status`, `epoch`, `transfer` and the set of changes its state
contains. `packages`, `receipts` and `tokens` are what the owner has in hand: a
code is random, so knowing it is knowing its transfer. `Emit` writes the
package when the answer arrives; the same pending transfer may be emitted
again. `/api/transfer/status` answers with the code of a transfer from the start
(`StatusAnswer`); the page shows it once the device has retired (`ShowToken`). A
package of release 1.2 activates the new device at once.

### Android host

`pc[r]` is the await the handler of request `r` stands at, `next[r]` the copy of
the state it has made, `seenUser[r]` what it read before. `Persist` writes the
whole state, as `persist` does. `Refuse` stands for every error answer and for
a bridge that cannot save. `running` says whether the socket serves other
devices; `NativeStopped`, `Resume` and `Load` are what Android does to the page.
`dropped` and `repeated` record what `pruneRecent` forgot and what was applied
again.

### Client

`tab[t]` are the variables of one tab. `pc` is the await syncNow stands at:
`state` and `command` wait for the network, `loop` and `remove` for IndexedDB.
`MutateQueue` is one IndexedDB transaction. A request whose answer is lost moves
to `late` and may be carried out or vanish at any later time. `leaving` is the
await logout stands at. Snapshots are abstracted to whose data they are; which of
two snapshots a client shows is modelled in `SecureLink`.

### Personal warehouse (`Domain`, `PersonalWarehouse`)

A rule of `Domain` takes a state and gives the set of states it may become; the
empty set is the rule that throws. Rows of a document are applied `InTurn`, all or
nothing. A state has the fields of `createState`; texts and dates are left out,
prices only as far as a user without `view_prices` may not change them. The fields of
commands, cards and events are typed (`Commands`, `Warehouses` in the proofs); `None` is
a record no warehouse equals. The operators keep the shape of the code: `NormalizeHistory` cuts segments,
`Execute` looks into the journal of recent commands and then into the history,
`ValidateBackup` replays the whole history and compares.

`page[t]` is what a page holds: `state`, the result of a command not yet shown
(`sent`, between the transaction of `applyLocal` and the lines after its
await), and the writes a restoration still has to make (`install`). `news` are
messages of the channel on their way. `file` is the portable file, `copies`
what the user saved. `unaware` is a history variable: pages whose warehouse was
replaced, or changed by a page that was closed before it told anybody. A behaviour
begins with one of `Lives`: nothing, or a warehouse whose own copy passes
`ValidateBackup`, which is how the program comes to have one.

### Stocktaking (`Stocktake`)

`draft[p]` is `countDraft` of a page and `disk` the record in IndexedDB; a draft
has a `cmd` once the document is made. `job[p]` is the await `finishInventory`
stands at: the `review`, the save before each attempt (`keep`), `send`, and the
look at the `queue` after it. `sync` and `accept` are the parts of `syncNow` and
`workspaceCommandAccepted` after their awaits. `Move` is anybody who moves what
is being counted; `NotSaved` a write of the draft that fails.

### Scanner

`start[k]` is the k-th call of `start`, with the await it stands at; the
generation of a session is the number of the start it belongs to, 0 after
`stopVideo`. `live` are the streams that are on. `reads` is a history variable,
the last three readable frames of a start. `TimePasses` stands for 2500 ms without
a readable frame. The Android camera is an activity of its own: its answer goes to
whichever session is open then.

### Protected transport and snapshots (`SecureLink`)

`now` is the clock of the main device, in units of the lifetime of an envelope;
an envelope carries the sender's time, `ahead` of it or not. `cache[h]` are the
identifiers device `h` remembers. `Deliver` is `secureRoute`, with the two readings
of the clock it makes, at most `Pause` apart. An envelope in `sent` may be delivered
any number of times. `page` is the device a page is connected to and the
snapshot it shows; `waiting` what a sync and a log-in await.

## 3. Runs

All runs use two workers and end in a few minutes or less each.

| Run | Bounds | Shows |
|---|---|---|
| `journal` | 3 sealed records, 2 patches, imports with a smaller and a larger number, a legacy journal or a new one; one kind of crash per behaviour | `OnlyOversizedRefused`, `ServedIsDurable`, and the refinement `ImplementsDurableStore` |
| `warehouse` | 2 cards, 2 places, `maxQty` 3, 4 workloads of 5–11 requests by 2 users | `TransferPossible`, `ReversalsPair`, `CountsAreCurrent`, `AnsweredIsDone`, `DocumentsWhole`, `HistoryOnlyGrows` |
| `accounts` | 3 people, 1 invitation, 3 sessions, 5 team commands by owner and administrator and any command about goods, 3 of them carried out and 1 remembered, symmetric logins | `OneOwner`, `InviteMakesOneUser`, `LastCommandHolds`, `HandedOutIsStored` |
| `transfer_safe` | 3 devices (2 Windows, 1 Android), 3 transfers, 2 changes, with and without an old package | `OneActive`, `MovementsSurvive`, `EpochsOrdered`, `NeverStranded` |
| `android` | 3 batches of 6–8 requests in flight at once, 1 remembered command, the socket stopped and the page loaded again at any time | `AppliedOnce`, `InviteSpentWithUser`, `OnlyStaleWritesUndo` |
| `android_lost_update` (violation) | 4 requests | a confirmed command is overwritten by a log-in |
| `client` | 2 tabs, 2 drafts of which one needs the other, up to 2 lost answers, a reload, a log-out | `DraftsSurvive`, `SavedIsApplied`, `DiscardedStaysOut`, `DraftsSettle` |
| `client_logout` (violation) | as above | the shared warehouse is stored as the personal one |
| `personal` | 2 pages or a phone; 2 cards, 2 places, stocks up to 3, segments of 2 events, 2 remembered commands; up to 4 commands, 2 copies, 1 restoration on a warehouse that is new, has one card in stock, or has a history of 4 events | `StockIsHistory`, `BackupRestores`, `TabsAgree`, and the refinement `ImplementsHistoryLog` |
| `stocktake` | 1 page with 2 cards, a failing write, a reload, a movement and a lost answer, in both modes; 2 pages with 1 card | `DifferenceIsRecorded`, `SentIsRecoverable`, `ToldIsRecorded` |
| `scanner` | 2 sessions with up to 2 starts and 3 codes; 3 sessions on Android | `CameraHasOwner`, `CodeIsSure` |
| `link` | 4 envelopes; a lifetime of 1, kept for 2, 2 identifiers remembered, clocks right or ahead by 1, 4 units of time; and, without time, all kinds of requests while the role moves | `ExecutedOnce`, `MovementsStay` |

Why these bounds are enough to meet the cases. In the journal three records give a
committed one before, a failing one and one after a restart, which is every
relation a record has to its neighbours; the proofs remove the bound. In the
warehouse `maxQty` 3 lets quantities reach both limits; each workload brings two
movements, a document and an edit to the same stock, in every order and with
repeats. The fourth workload remembers one command only, so that retries of
forgotten ones are met. In `accounts` one remembered command and three carried out are
a command, one that makes it forgotten, and its repeat, which is the shortest way
to undo a later role. Three transfers are one cancelled, one confirmed and
one begun by the new host. Two tabs are enough for a stale queue in memory, and
two drafts for one behind another. Segments of two events are cut by the second
command after any other, inside a document of three rows, and in a restored copy of the
first format; two remembered commands are forgotten by the third. Two pages suffice for
a stale copy, a message on its way and a replacement behind one's back. In `link` the
ages of envelopes meet each side of both limits, and three envelopes overflow a cache
of two.

Every `Max...` constant bounds a counter in a guard: `MaxSealed` (records),
`MaxSeq` (transactions), `MaxLog` (commands carried out), `MaxInvites`, `MaxSessions`, `MaxTransfers`, `MaxFacts`;
`losses` and `reloads` of a life of the client count down, and the records `Lives`
of the newer modules name the bounds of one behaviour each (commands, copies and
restorations; drafts, moves, losses, failures and reloads; sessions and starts;
envelopes and time). `CHECK_DEADLOCK` is off
where the system may really stop: a broken journal or a used-up bound, a set of
requests that are all answered, a client whose drafts are done. `link` uses the symmetry of
identifiers, `accounts` that of log-ins; both check only properties of states and
steps, for which that is sound.

**Fairness** is assumed in `client` only. In a visible tab the interval of five seconds
(`app.js` 418) keeps calling `syncNow`, so `StartSync` is weakly fair, and so is
what a tab does without the network. The network fails a bounded number of
times and then answers, so the answers and their reception are weakly fair.
Nothing is assumed of hidden tabs, of users, of late requests or of reloads.

`faults`: a power failure after a kill may lose a line that the next start has
already served, because `openStore` does not sync the lines it has read (section
6). `ServedIsDurable` and the refinement are therefore stated for lives of a
journal in which one kind of crash occurs; `OnlyOversizedRefused` needs no such
restriction.

## 4. Theorems

`JournalStoreProofs` proves, for every set of patches and states, every function
`Apply`, and journals of every length:

* `JournalTypes`: `Spec => []TypeOK`.
* `JournalRefusesOversizedOnly`: `Spec => []OnlyOversizedRefused`, for all faults
  in any combination.
* `JournalAlwaysReadable`: if no imported state exceeds the limit, no start ever
  refuses the journal.
* `ServedRecordsSurvive`: `Spec => []ServedIsDurable`, if one kind of fault occurs.
* `JournalImplementsDurableStore`: `Spec => ImplementsDurableStore`, on the same
  assumption, with the mapping `live <- Live, doubt <- pending, frozen <- failed`.

Assumptions on the constants are those of `StateAssumption` and
`JournalAssumption` (types only), and `OneFaultKind` where named.

The inductive invariant `IInv` is `TypeOK /\ Chained /\ Memory /\
OnlyOversizedRefused`. That no record is refused is not inductive alone: one has to
know that the lines form a chain (`Chained`: each is intact, numbered after and
hashed onto the state the lines before it describe) and what memory holds at
each `pc` (`Memory`). The important case is a failed write: `failed` is set, so the
next line is never glued to an incomplete one, and the state in memory differs
from the one on disk by at most the patch in `pending`. `DInv` adds what is synced
and is needed for the theorems about faults. The step lemmas follow the actions
one by one; the refinement maps `WriteLine` and `WriteFails` to `Begin`, `SyncLine`
to `Commit`, `SyncFails` to `Freeze`, a crash to `Restart`, and everything
`openStore` does to a stutter.

`WarehouseProofs` proves, for any cards, places and SKUs, any set of requests, any
limits, documents of any length and histories of any length:

* `TypesHold`: `Spec => []TypeOK`. Stocks stay between 0 and `MaxQty`.
* `ReversalsHold`: `Spec => []ReversalsPair`.
* `HistoryStays`: `Spec => HistoryOnlyGrows`.
* `DocumentsHold`: `Spec => []DocumentsWhole`.
* `CountsHold`: `Spec => []CountsAreCurrent`.
* `AnswersHold`: `Spec => []AnsweredIsDone`.
* `HandoverAccepted`: `Spec => []TransferPossible`, if the journal of recent commands
  remembers the requests (`RetriesKnown`).

The constants are typed by `WarehouseAssumption`. `IdsAssumption` says that different
requests have different identifiers, those of rows included: a client takes 16 random
bytes for each (`app.js` 12). It does not keep one request from being repeated,
before or after it was forgotten. `RetriesKnown` allows a set of requests when it is
finite and no larger than the journal, or has no receipt, issue or transfer of
its own. That much is needed: in the fourth workload of the run a forgotten
receipt that is repeated is recorded twice under one identifier, which is
why `TransferPossible` is not claimed there (section 6). Nothing else rests on it.

Three states have to be right at once: the one that is served, the one a restart
may bring up after a failed write (`doubt`), and the copy a document is prepared
on. `SafeInv` states the same predicate `Good` of the first two and `Staged` of the
third. `Good` ties the stocks to the history: the quantity and the version of a stock are
the sum and the number of the movements that touch it, so a sum that stays
within the limits is what each rule has to keep. The sums are computed by a
recursive function (`Computed`), and that a longer history adds the last movement is
shown by its least counterexample, since sets of numbers have least elements.
`SourceInv` adds where each movement comes from: it is what the rules made of a
request (`Alone`) or of the n-th row of one (`InDocument`), and then the whole
document stands around it. Documents and counts follow at once. `HandoverInv` adds
that identifiers are unique: a second movement of one request would need the
request to be forgotten, and then to pass a guard of its own, which rows, counts and
reversals have. `DoneInv` relates what was answered to the history, cards and places,
which later commands only move forward.

`AccountsProofs` proves, for any number of people, invitations, sessions and
commands:

* `OwnerRemains`: `Spec => []OneOwner`.
* `InvitationsWork`: `Spec => []InviteMakesOneUser`.
* `CommandsHold`: `Spec => []LastCommandHolds`, whatever the journal remembers: a
  command a client was told of was carried out; its effect is there until a later
  command about the same person is carried out; and one command is carried out twice only
  with at least `Remembered` others, goods included, in between.
* `HandedOutStays`: `Spec => []HandedOutIsStored`.

The invariant is `Good(S) /\ Keeps(S, known)`, and the same of the state in doubt while
the store is frozen: a restart may bring up either, and nobody is told anything
in between. `Distinct` (people are numbered as they come) makes every new number
new, `Invited` ties a person to the used invitation they came with, and `Obeyed`
says of each command carried out that its target shows its effect or that a later one
of the log changed it. What is forgotten is proved from `Window`: `Seen` is the last
part of the log, and all of it or `Remembered` long (`RecordedIs` keeps it). So a
command that is not recognised is not among the last `Remembered` of the log
(`UnseenIsOld`), and its repeats stay apart (`Apart`).

`HostTransferProofs` proves, for any number of devices, transfers and changes, any
mix of Windows and Android, and a package of release 1.2 or none:

* `TransferTypes`: `Spec => []TypeOK`, whatever the owner does.
* `NeverTwoActive`: `Spec => []OneActive`.
* `EpochsIncrease`: `Spec => []EpochsOrdered`.
* `MovementsKept`: `Spec => []MovementsSurvive`.
* `NeverLost`: `Spec => []NeverStranded`.

All but the first assume `~CopiedFiles`: the owner opens the file of one transfer on
one device. Without it `OneActive` is false (section 6): no device can know what
was opened on another. `NeverLost` also assumes that there is a second device if
the warehouse starts with a package of release 1.2, whose writer has retired
already.

The argument is that the right to be the main device is in one place. A device
holds it while it is active or has a transfer pending (`Holder`). When it retires,
the right stays with its transfer until a device that opened its file becomes
active (`Unclaimed`). `OneClaim` says that at most one device is a holder or
unclaimed. Activation needs the code of the transfer, and a code is
seen only after its device has retired (`TokensRetire`), so `Activate` takes the right
from an unclaimed device (`ActivateTakes`); a package of release 1.2 takes it in
`Import` (`ImportOldTakes`). `OneOpener` and `PendingFresh` make that
inductive: a transfer has one opener, and the opener of a pending one has not
become active. `Paper` holds whatever the owner does. For the epochs the
invariant says that the holder is later than every retired device, the unclaimed one
at least as late, and a package and its reader one later than its writer; for
movements, that the holder, the packages of a claimant and the devices that
opened them have them all. A command needs an active device, and then there is
no claimant: that is why a package never goes stale while it can take over. That the warehouse
is never stranded follows from `Open`: a holder or an unclaimed transfer always exists
(`Someone`), a device retires only against the receipt of a device that opened its file
(`RetiredReceipt`), and who opened a file can open it again until the transfer is
claimed (`OpenedFile`).

`AndroidHostProofs` proves, for any requests and any interleaving of their awaits:

* `CommandsOnce`: `Spec => []AppliedOnce`.
* `InvitesSpent`: `Spec => []InviteSpentWithUser`.
* `StaleWritesUndo`: `Spec => OnlyStaleWritesUndo`.

A handler may write any copy it made before an await, so the invariant has to be
true of every copy a log-in or a join is about to write (`pc` is `session`), and not
only of the state. It is a property of one state each (`Sound`): no relation between a copy
and the state survives, which is exactly finding 1.

`ClientSyncProofs` proves, for any number of tabs and drafts and any losses:

* `TypesHold`: `Spec => []TypeOK`.
* `NoDraftLost`: `Spec => []DraftsSurvive`.
* `SavedIsDone`: `Spec => []SavedIsApplied`.
* `TakenBackStaysOut`: `Spec => []DiscardedStaysOut`.

The invariant says of each tab that a command it has a positive answer to, or is about
to take out of the queue, was carried out (`Steady`); that its copy of the queue
holds drafts users made (`Made`); and, unless the user logs out in that life of the
client, that it stays with the shared warehouse (`Stays`) and that the draft
`send` waits for is in its queue or settled (`Awaited`). The stored queue
may be ahead of every tab's: it is changed only inside one transaction that reads it
again (`MutateQueue`), which is what the proof uses of IndexedDB.

`StocktakeProofs` proves, for any number of pages, cards and drafts:

* `DifferencesHold`: `Spec => []DifferenceIsRecorded`.
* `SentIsKept`: `Spec => []SentIsRecoverable`.
* `ToldIsTrue`: `Spec => []ToldIsRecorded`.

`DifferenceIsRecorded` rests on versions: what a page shows is a warehouse of the past
(`Behind`), one version of a card has one quantity, and so a count that passes
the host's check of versions was made against the quantity it replaces
(`SeenIn`). `AnswerPart` follows a document from `send` to what the page says:
once it is missing from the queue it is recorded or was given up (`Kept`), unless another
document took its number. With one page no other document does, because a draft
with the number of a document that was sent is that document's (`PagePart`), and that a
sent document is recorded, stored, queued or given up is inductive together with
what the page holds at each await (`SentPart`). With two pages one of them may
overwrite the stored draft of the other, and `SentIsRecoverable` says nothing. The
assumption on constants is that `None` is no document and no draft.

About `SecureLink` the same module `AndroidHostProofs` proves, for any set of
identifiers, any lifetimes with `Keep >= 2 * Fresh`, any limit of the cache and any
clocks:

* `ProtectedOnce`: `LinkSpec => []ExecutedOnce`.
* `ShownMovementsStay`: `LinkSpec => MovementsStay`.

An identifier leaves the cache by eviction or a restart, which `forgotten`
records, or because it was seen more than `Keep` ago (`Remembered`). When its
envelope comes again it must still be timely. It was timely when it was first
seen (`RunInTime`), so its time lies within `Fresh` of both moments; these are
more than `Keep - Pause >= 2 * Fresh - Pause` apart, so the first time it was at
least `Fresh - Pause` in the future, and only a sender whose clock is ahead by
that much makes such an envelope (`SentBefore`). That exception is necessary: with
it removed, TLC finds the second execution. For the snapshots, the invariant
`Continued` relates the page, the answers on their way and the two devices: no
answer of a device is newer than the device, and what the first one had when the
role moved is the least the second one has; acceptState compares numbers on one
device, and across devices the epoch stands for that order.

About `Scanner`, `StocktakeProofs` proves, for any number of sessions, starts, photos and
codes, on a browser or on Android:

* `NoCameraForNobody`: `ScannerSpec => []CameraHasOwner`.
* `UsedCodeIsSure`: `ScannerSpec => []CodeIsSure`.

`ScannerInv` relates a session to the start it belongs to at every await: a stream that
is on belongs to a session that is open and has it as its own. A code that was found,
or used, has its source (`Source`): the frames of one start that showed it, a photo or the
Android camera. `Repeated` says what `last` and `repeats` mean in terms of the last
readable frames. Starts only grow and their frames stay, so a source stays one
(`SourceStays`).

`PersonalWarehouseProofs` proves, for any limits, any pages, any commands, and
documents, histories and copies of any length:

* `StoredWithinLimits`: `Spec => []TypeOK`.
* `StockComesFromHistory`: `Spec => []StockIsHistory`.
* `CopiesRestore`: `Spec => []BackupRestores`.
* `PagesAgree`: `Spec => []TabsAgree`.
* `HistoryOnlyGoesOn`: `Spec => ImplementsHistoryLog`.

`PersonalAssumption` types the constants and says two things of `Lives`. The warehouse
the pages find is cut into segments as the program does it and its own copy is accepted; that
its stocks follow from its history is not assumed but proved from it (`StartSound`). And
the identifier of a single command is not that of an event found or of a row of
a document: they are 16 random bytes (`app.js` 12). A document or an import may be sent
again, and the rows of two documents may share identifiers.

The rules come first. `Sound(s)` says that replaying the history of `s` from empty stocks
never fails and ends in its stocks (`Replayed`), that the history is cut as it should be,
and that no two cards share a code. The replay is stated by the existence of a function
from the length of a prefix to the stocks after it, so one more event makes one more
step (`RunLonger`), and no recursive definition has to be unfolded by induction: where the
model has a fold (`InTurn`, `FlattenSeq`, `Computed`), a lemma first shows that it is the
last value of such a function (`IteratesExist`, `FlattensExist`, `ComputedRun`), and
what holds of all its values follows from the least counterexample (`Least`). Then every
rule keeps `Sound`, adds at most the events of its command, and keeps identifiers
distinct (`Executes`). A copy of a sound warehouse replays to its stocks, so
`ValidateBackup` gives it back, from the segments (`CleanAccepted`) or from one list that is
cut again (`LegacyAccepted`, which needs that joining the cut history gives the list:
`DivideIs`). The versions and quantities of stocks follow from the same replay
(`SoundStocks`).

The invariant of the program is `Inv`: `Holds` says that whatever is stored, shown, copied
or in the file is sound, and that its identifiers are `Known` to this life, which makes those of
the next command new; `InstallsGo` what a page in a restoration holds; and
`Shows` that a page nobody has left behind shows the stored warehouse, or has itself
stored it, or that another page has yet to tell of a command. `TabsAgree` alone is not
inductive: while one page tells, another may commit. For the refinement, `LogGoes` says of each
action that the history stays, is extended by what the command added, or becomes
one of those kept.

Only model-checked, and why:

* `DraftsSettle`, because liveness under fairness is outside the prover's reach.

## 5. Findings

Each has a run whose counterexample shows it; the quotations are in
`PROJECT.json`.

1. On Android, login and join persist a copy of the state made before an await
   and undo what was confirmed meanwhile (`android_lost_update`).
2. A sync that is waiting when the user logs out writes the shared warehouse over
   the personal one (`client_logout`).

## 6. Observations without a run

Seen in the models while they were written; where a property excludes a case, the
property says so.

Journal and warehouse of the Go host

* An imported state larger than 64 MiB is committed as one line (`server.go` 1451
  allows 512 MiB), which `openStore` refuses at the next start (`server.go` 436).
  `OnlyOversizedRefused` names this as the only refusal.
* A kill between `Write` and `Sync`, a start that serves the line, then a power
  failure: the line may be gone. `FaultSets` containing both kinds shows it.
* The reversal of an issue does not look whether the card is archived
  (`server.go` 1024, `domain.js` 118): the archived card gets a stock, and a full
  copy with such a card is refused (`domain.js` 184). `BackupRestores` names
  this as the only copy refused. On Android the portable file is not
  written any more from then on.
* `pruneSeen` forgets a command after 10 000 others. A late retry of a single
  receipt, issue or transfer is then recorded again under the same identifier,
  and the next transfer is refused; documents, counts, edits, imports and
  reversals are protected by other guards (fourth workload of `warehouse`).

People

* `disable` and `user-role` have no other guard than `Seen` (`server.go` 986–1012),
  and clients queue and repeat them like all commands. Once `pruneSeen` has
  forgotten one, a late retry is carried out again: a `user-role` then undoes a later
  role of the same person. `LastCommandHolds` says after how many
  commands this begins. It cannot enable anybody, because no command does. `host.js`
  is the same with its own limit.

Transfer

* `/api/transfer/status` gives the activation code to the owner while the transfer is still
  pending (`server.go` 1610, `host.js` 141); only the page keeps it back until
  the old device has retired (`app.js` 333–336). `TokensRetire`, and with it
  `NeverTwoActive`, is about owners who use the page.

* Joins, invitations and log-ins are accepted while a transfer is pending
  (`server.go` 1906), are missing from the package, and are gone after it, although
  `docs/АРХИТЕКТУРА.md` 95 says that new changes are stopped.
* A Windows host decodes a package with `DisallowUnknownFields` (`server.go` 1351)
  and refuses one from a phone that has executed a command, because of the fields
  `version` and `localSeen` of `domain.js`; `host.js` 106 advises that very move.
* If the owner opens the package of one transfer on two devices and enters the
  code on both, there are two main devices; `CopiedFiles = TRUE` shows it. The
  run assumes the instructions are followed.

Android host

* A command that passed the status check before a prepare is applied after the
  package was written; a retired host
  can be brought back by a login or a prepare that was waiting (allowed explicitly
  in `OnlyStaleWritesUndo`).
* A join checks its invitation before two awaits and spends it after them
  (`host.js` 92–93), so two people who join at the same time with one invitation both
  become users, although the page says that it is used once (`app.js` 338).
  `InviteSpentWithUser` does not exclude it, because the code does not. A Go host
  holds its lock from the check to the commit (`InviteMakesOneUser`).
* create and import look at `state` before their awaits and persist after them.

Client and transport

* logout looks at the queue before `/api/logout` and deletes it afterwards, so a
  draft made in between is lost, and `send` reports it as saved.
  `DraftsSurvive`, `SavedIsApplied` and `DraftsSettle` are stated for clients
  whose user does not log out.
* The cache of identifiers is in memory: after a restart an envelope within its
  five minutes is carried out again. A command is then recognised by its own
  identifier, a log-in or an invitation is not. The same holds for a sender whose
  clock is five minutes ahead.
* A repeated envelope is answered with 409, which syncNow takes for a refusal: the
  draft is marked as failed although it was carried out.
* acceptState compares epochs only when the number falls, so an answer of the
  previous host with an equal number may put its status back on the screen
  until the next sync.

Personal warehouse

* A restoration stores the `state` of its page as the copy to go back to, which may be
  older than what is stored, and stores the restored warehouse twice (`app.js`
  309): a command another page records between the two writes is lost. It sends no
  message to other pages, which go on showing the old warehouse until their next
  command (`unaware` in `TabsAgree`).
* Two pages that show the form of a first warehouse both store one; the second
  replaces what was done in the first.
* A restoration may bring back the version a stock had before, so a count prepared
  before it passes the check of versions.

Stocktaking

* A document that was refused and is cancelled, or discarded from the list of
  drafts, while `finishInventory` still awaits `syncNow` is not found in the queue, and
  the page says it was recorded.
* Two pages that finish one draft with different counts: the host recognises the
  rows by their identifiers, and the second page is told that its counts are
  recorded although those of the first are.
* Between reading and deleting the stored draft `workspaceCommandAccepted` awaits; a
  draft saved in between goes with it. The draft of another page replaces the
  stored one.

Scanner

* When an old start fails late, its `catch` stops the camera of the new one
  (`scanner.js` 138).
* A frame that is being read when the user presses stop may still deliver a code.
* Frames without a code do not reset the count of equal reads.
* The answer of the Android camera goes to whichever session is open, also one
  opened after the session that asked.

## 7. Not modelled, and what could come next

* Backups of the Go host and `SecureHostStore.java` write files no handler reads
  back; the modules take `saveHostState` as one atomic write. Their pruning and
  their crashes deserve a module of their own.
* `MobileHostServer.java`: threads that wait for an answer of the WebView. What a
  client can see of them (late, lost and repeated requests) is in `SecureLink` and
  `ClientSync`.
* The Java side of the portable file: revisions, and conflicts with another
  writer.
* The launcher, the lock on the data folder, the desktop window, platform
  callbacks, build scripts and third-party code.
* Rendering, reports, labels and codes (`reports.js`, `codes.js`, `transfer.js`, most
  of `app.js`): output without state of the warehouse.
* The other switches of the mode of a client (login from a personal warehouse,
  opening a file from a shared one): `client_logout` shows the shape of the
  problem.
* What the modules take on trust of each other is argued above and not proved: that the
  handlers of `Warehouse` and `Accounts` run on a store that behaves as `DurableStore`, and
  that a command is one change for `HostTransfer` and `ClientSync`.
