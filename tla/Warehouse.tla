----------------------------- MODULE Warehouse ------------------------------
(***************************************************************************)
(* The warehouse a Go host keeps and /api/command: the catalogue, places,  *)
(* stocks, the movement history and the journal of recent commands, with   *)
(* every command a client can send and retry.                              *)
(*                                                                         *)
(* The handler holds st.mu from the authentication to the answer, so a     *)
(* command is one step; only a document is several, one per row, because   *)
(* its rows are prepared one on top of the other on a staged copy.  The    *)
(* commit is the one of DurableStore: it may fail, and then nothing        *)
(* changes until a restart, which decides whether the patch happened.      *)
(*                                                                         *)
(* The host is active and the users have fixed rights here: HostTransfer   *)
(* and Accounts model how those change.                                    *)
(***************************************************************************)
EXTENDS Integers, Sequences, FiniteSets, SequencesExt

CONSTANTS
    Items,       \* identifiers a card may have
    Places,      \* identifiers a place may have
    MainPlace,   \* "main-place", the one /api/setup creates
    Skus,        \* SKUs and barcodes, as far as two cards may share one
    NoSku,       \* the empty SKU
    Units,       \* units of measure
    NoUnit,      \* no unit was sent
    Names,       \* names of places, compared without case
    Workloads,   \* what clients may send, and how many commands are remembered
    Allowed,     \* Allowed[u], the permissions of user u
    MaxQty,      \* maxQty
    MaxSeq       \* bound on the transactions

VARIABLES
    S,           \* st.S
    doubt,       \* the state after the patch whose commit failed, or NoState
    frozen,      \* st.failed
    doc,         \* the document being prepared, or NoDoc
    workload,    \* the member of Workloads of this behaviour
    answered     \* history variable: the requests some client was told are done

vars == <<S, doubt, frozen, doc, workload, answered>>

NoState == [none |-> TRUE]
NoDoc == [none |-> TRUE]

-----------------------------------------------------------------------------
(* Commands *)

Card == [item : Items, unit : Units, sku : Skus \cup {NoSku}, archived : BOOLEAN]

Movement ==
    [type : {"in", "out", "transfer", "count"}, id : STRING, item : Items,
     from : Places, to : Places, qty : Nat, expected : Nat, unit : Units \cup {NoUnit}]

Command ==
         Movement
    \cup [type : {"reverse"}, id : STRING, ref : STRING]
    \cup [type : {"batch"}, id : STRING, rows : Seq(Movement)]
    \cup [type : {"item"}, id : STRING, item : Items, version : Nat, unit : Units,
          sku : Skus \cup {NoSku}, archived : BOOLEAN]
    \cup [type : {"catalog-import"}, id : STRING, cards : Seq(Card)]
    \cup [type : {"place"}, id : STRING, place : Places, version : Nat, name : Names]

Requests == UNION {w.requests : w \in Workloads}
Users == {r.user : r \in Requests}

\* The identifiers a command's movements get; a client draws them at random.
Ids(c) == IF c.type = "batch" THEN {c.rows[n].id : n \in 1..Len(c.rows)} ELSE {c.id}

ASSUME IdsAssumption ==
    \A w \in Workloads : \A q, r \in w.requests : q # r => Ids(q.cmd) \cap Ids(r.cmd) = {}

ASSUME WarehouseAssumption ==
    /\ MainPlace \in Places
    /\ NoSku \notin Skus /\ NoUnit \notin Units
    /\ \A r \in Requests : r \in [user : {r.user}, cmd : Command]
    /\ \A w \in Workloads : w.remembered \in Nat
    /\ MaxQty \in Nat /\ MaxSeq \in Nat

requests == workload.requests    \* records [user, cmd]
SeenLimit == workload.remembered \* recentCommandLimit

Stock == Items \X Places

\* A card or a place is absent while its version is 0.
NoItem == [version |-> 0, unit |-> NoUnit, sku |-> NoSku, archived |-> FALSE]

Permission(c) ==
    CASE c.type \in {"item", "catalog-import"} -> "catalog"
      [] c.type = "place" -> "places"
      [] c.type = "reverse" -> "reverse"
      [] OTHER -> "stock"

-----------------------------------------------------------------------------
(* prepare *)

\* Mutant of HasHistory: the last movement is not looked at.
HasOlderHistory(s, x) == \E i \in 1..(Len(s.events) - 1) : s.events[i].item = x

HasHistory(s, x) == \E i \in 1..Len(s.events) : s.events[i].item = x

\* Mutant of SkuTaken: an archived card does not keep its SKU.
SkuTakenByActive(s, x, sku) ==
    sku # NoSku /\ \E y \in Items \ {x} :
        s.items[y].version > 0 /\ ~s.items[y].archived /\ s.items[y].sku = sku

SkuTaken(s, x, sku) ==
    sku # NoSku /\ \E y \in Items \ {x} : s.items[y].version > 0 /\ s.items[y].sku = sku

OutOfStock(s, x) == \A p \in Places : s.stocks[<<x, p>>].qty = 0

AcceptsItem(s, c) ==
    LET old == s.items[c.item] IN
    /\ old.version > 0 => c.version = old.version
    /\ old.version > 0 /\ c.unit # old.unit => ~HasHistory(s, c.item)
    /\ ~SkuTaken(s, c.item, c.sku)
    /\ c.archived => OutOfStock(s, c.item)

WithItem(s, c) ==
    [s EXCEPT !.items[c.item] = [version |-> @.version + 1, unit |-> c.unit,
                                 sku |-> c.sku, archived |-> c.archived]]

AcceptsPlace(s, c) ==
    /\ s.places[c.place].version = c.version
    /\ \A p \in Places \ {c.place} : s.places[p].version > 0 => s.places[p].name # c.name

WithPlace(s, c) ==
    [s EXCEPT !.places[c.place] = [version |-> c.version + 1, name |-> c.name]]

\* Every card of an import is new, and no two share an identifier or a SKU.
AcceptsImport(s, c) ==
    /\ c.cards # <<>>
    /\ \A i \in 1..Len(c.cards) :
        LET x == c.cards[i] IN
        /\ s.items[x.item].version = 0
        /\ ~SkuTaken(s, x.item, x.sku)
        /\ \A j \in 1..Len(c.cards) : j # i =>
               /\ c.cards[j].item # x.item
               /\ x.sku # NoSku => c.cards[j].sku # x.sku

WithImport(s, c) ==
    [s EXCEPT !.items = [x \in Items |->
        IF \E i \in 1..Len(c.cards) : c.cards[i].item = x
        THEN LET card == c.cards[CHOOSE i \in 1..Len(c.cards) : c.cards[i].item = x]
             IN  [version |-> 1, unit |-> card.unit, sku |-> card.sku, archived |-> card.archived]
        ELSE s.items[x]]]

\* What a movement adds to the stock of each place it touches.
Changes(s, c) ==
    CASE c.type = "in" -> [p \in {c.to} |-> c.qty]
      [] c.type = "out" -> [p \in {c.from} |-> -c.qty]
      [] c.type = "transfer" -> [p \in {c.from, c.to} |-> IF p = c.to THEN c.qty ELSE -c.qty]
      [] c.type = "count" -> [p \in {c.to} |-> c.qty - s.stocks[<<c.item, c.to>>].qty]

\* Mutant of SeesCurrent: a stock that was touched since is accepted.
SeesOlder(s, c) == c.expected <= s.stocks[<<c.item, c.to>>].version

SeesCurrent(s, c) == c.expected = s.stocks[<<c.item, c.to>>].version

AcceptsKind(s, c) ==
    /\ s.items[c.item].version > 0
    /\ ~s.items[c.item].archived
    /\ c.qty <= MaxQty
    /\ c.type # "count" => c.qty > 0
    /\ c.type = "transfer" => c.from # c.to
    /\ c.type = "count" => /\ c.unit \in {NoUnit, s.items[c.item].unit}
                           /\ SeesCurrent(s, c)

\* Mutant of ReversedIn: only the last movement is looked at.
ReversedLast(s, ref) ==
    Len(s.events) > 0 /\ LET e == s.events[Len(s.events)] IN e.kind = "reverse" /\ e.ref = ref

\* The last movement with that identifier, unless a reversal names it already.
ReversedIn(s, ref) ==
    \E i \in 1..Len(s.events) : s.events[i].kind = "reverse" /\ s.events[i].ref = ref

Original(s, ref) ==
    s.events[CHOOSE i \in 1..Len(s.events) :
                 /\ s.events[i].id = ref
                 /\ \A j \in (i + 1)..Len(s.events) : s.events[j].id # ref]

AcceptsReverse(s, c) ==
    /\ \E i \in 1..Len(s.events) : s.events[i].id = c.ref
    /\ ~ReversedIn(s, c.ref)
    /\ Original(s, c.ref).kind # "reverse"

\* Mutant of Fits: the stock may fall below zero.
FitsAbove(s, item, changes) ==
    \A p \in DOMAIN changes :
        /\ s.places[p].version > 0
        /\ changes[p] > 0 => s.stocks[<<item, p>>].qty <= MaxQty - changes[p]

Fits(s, item, changes) ==
    \A p \in DOMAIN changes :
        LET old == s.stocks[<<item, p>>].qty IN
        /\ s.places[p].version > 0
        /\ changes[p] < 0 => old >= -changes[p]
        /\ changes[p] > 0 => old <= MaxQty - changes[p]

Move(s, c) ==
    IF c.type = "reverse"
    THEN LET e == Original(s, c.ref) IN
         [item |-> e.item, changes |-> [p \in DOMAIN e.changes |-> -e.changes[p]]]
    ELSE [item |-> c.item, changes |-> Changes(s, c)]

AcceptsMove(s, c) ==
    /\ IF c.type = "reverse" THEN AcceptsReverse(s, c) ELSE AcceptsKind(s, c)
    /\ Fits(s, Move(s, c).item, Move(s, c).changes)

\* seq is the number commit() gives the transaction the movement belongs to.
WithMove(s, c, seq) ==
    LET m == Move(s, c) IN
    [s EXCEPT
        !.stocks = [k \in Stock |->
            IF k[1] = m.item /\ k[2] \in DOMAIN m.changes
            THEN [qty |-> s.stocks[k].qty + m.changes[k[2]],
                  version |-> s.stocks[k].version + 1]
            ELSE s.stocks[k]],
        !.events = Append(@, [id |-> c.id, kind |-> c.type, item |-> m.item,
                              ref |-> IF c.type = "reverse" THEN c.ref ELSE c.id,
                              changes |-> m.changes, seq |-> seq])]

Accepts(s, c) ==
    CASE c.type = "item" -> AcceptsItem(s, c)
      [] c.type = "place" -> AcceptsPlace(s, c)
      [] c.type = "catalog-import" -> AcceptsImport(s, c)
      [] OTHER -> AcceptsMove(s, c)

With(s, c) ==
    CASE c.type = "item" -> WithItem(s, c)
      [] c.type = "place" -> WithPlace(s, c)
      [] c.type = "catalog-import" -> WithImport(s, c)
      [] OTHER -> WithMove(s, c, s.seq + 1)

-----------------------------------------------------------------------------
(* commit and apply *)

\* pruneSeen keeps the latest SeenLimit commands.
Pruned(seen) ==
    {e \in seen : Cardinality({f \in seen : f.seq > e.seq}) < SeenLimit}

Numbered(s, r) ==
    [s EXCEPT !.seq = @ + 1,
              !.seen = Pruned(@ \cup {[user |-> r.user, id |-> r.cmd.id,
                                       intent |-> r.cmd, seq |-> s.seq + 1]})]

\* The write succeeds and the answer arrives or not, or commit() fails.
Commit(r, s) ==
    /\ ~frozen
    /\ S.seq < MaxSeq
    /\ \/ /\ S' = Numbered(s, r)
          /\ answered' \in {answered, answered \cup {r}}
          /\ UNCHANGED <<doubt, frozen, workload>>
       \/ /\ doubt' = Numbered(s, r)
          /\ frozen' = TRUE
          /\ UNCHANGED <<S, workload, answered>>

-----------------------------------------------------------------------------
(* /api/command.  A request arrives as often as the client repeats it. *)

Unlocked == doc = NoDoc

\* Mutant of SeenBefore: it is remembered although the commit failed.
SeenOrTried(r) ==
    {e \in (IF doubt = NoState THEN S ELSE doubt).seen : e.user = r.user /\ e.id = r.cmd.id}

SeenBefore(r) ==
    {e \in S.seen : e.user = r.user /\ e.id = r.cmd.id}

Execute(r) ==
    /\ Unlocked
    /\ SeenBefore(r) = {}
    /\ r.cmd.type # "batch"
    /\ Permission(r.cmd) \in Allowed[r.user]
    /\ Accepts(S, r.cmd)
    /\ Commit(r, With(S, r.cmd))
    /\ UNCHANGED doc

\* "duplicate": true
Repeated(r) ==
    /\ Unlocked
    /\ \E e \in SeenBefore(r) : e.intent = r.cmd
    /\ answered' = answered \cup {r}
    /\ UNCHANGED <<S, doubt, frozen, doc, workload>>

StartDocument(r) ==
    /\ Unlocked
    /\ SeenBefore(r) = {}
    /\ r.cmd.type = "batch" /\ r.cmd.rows # <<>>
    /\ doc' = [request |-> r, row |-> 1, staged |-> S]
    /\ UNCHANGED <<S, doubt, frozen, workload, answered>>

\* A row's identifier is new to the history and to the document.
FreshRow(d) ==
    LET c == d.request.cmd
        id == c.rows[d.row].id
    IN  /\ id # c.id
        /\ \A i \in 1..Len(d.staged.events) : d.staged.events[i].id # id

AcceptsRow(d) ==
    LET c == d.request.cmd.rows[d.row] IN
    /\ FreshRow(d)
    /\ Permission(c) \in Allowed[d.request.user]
    /\ AcceptsMove(d.staged, c)

\* Mutant of PrepareRow: a row that is refused is left out of the document.
SkipRow ==
    /\ ~Unlocked
    /\ doc.row <= Len(doc.request.cmd.rows)
    /\ doc' = [doc EXCEPT !.row = @ + 1,
                          !.staged = IF AcceptsRow(doc)
                                     THEN WithMove(@, doc.request.cmd.rows[doc.row], S.seq + 1)
                                     ELSE @]
    /\ UNCHANGED <<S, doubt, frozen, workload, answered>>

PrepareRow ==
    /\ ~Unlocked
    /\ doc.row <= Len(doc.request.cmd.rows)
    /\ doc' = IF AcceptsRow(doc)
              THEN [doc EXCEPT !.row = @ + 1,
                               !.staged = WithMove(@, doc.request.cmd.rows[doc.row], S.seq + 1)]
              ELSE NoDoc
    /\ UNCHANGED <<S, doubt, frozen, workload, answered>>

CommitDocument ==
    /\ ~Unlocked
    /\ doc.row > Len(doc.request.cmd.rows)
    /\ Commit(doc.request, doc.staged)
    /\ doc' = NoDoc

\* A store that is frozen refuses the commit and the answer is an error.
RefuseDocument ==
    /\ ~Unlocked
    /\ doc.row > Len(doc.request.cmd.rows)
    /\ frozen \/ S.seq = MaxSeq
    /\ doc' = NoDoc
    /\ UNCHANGED <<S, doubt, frozen, workload, answered>>

\* The process ends at any moment and openStore reads the journal again.
Restart ==
    /\ S' \in IF doubt = NoState THEN {S} ELSE {S, doubt}
    /\ doubt' = NoState
    /\ frozen' = FALSE
    /\ doc' = NoDoc
    /\ UNCHANGED <<workload, answered>>

-----------------------------------------------------------------------------

\* What /api/setup leaves: one place, no cards, no history.
Init ==
    /\ \E n \in Names :
        S = [seq |-> 1,
             items |-> [x \in Items |-> NoItem],
             places |-> [p \in Places |-> [version |-> IF p = MainPlace THEN 1 ELSE 0,
                                           name |-> n]],
             stocks |-> [k \in Stock |-> [qty |-> 0, version |-> 0]],
             events |-> <<>>,
             seen |-> {}]
    /\ doubt = NoState
    /\ frozen = FALSE
    /\ doc = NoDoc
    /\ workload \in Workloads
    /\ answered = {}

Next ==
    \/ \E r \in requests : Execute(r) \/ Repeated(r) \/ StartDocument(r)
    \/ PrepareRow \/ CommitDocument \/ RefuseDocument
    \/ Restart

Spec == Init /\ [][Next]_vars

-----------------------------------------------------------------------------
(* validateImportedState, as far as it looks at the warehouse: what a host *)
(* must hold for its package to be accepted by the next one.               *)

Touches(e, k) == e.item = k[1] /\ k[2] \in DOMAIN e.changes

Effect(e, k) == IF Touches(e, k) THEN e.changes[k[2]] ELSE 0

\* The stock the first n movements add up to.
Computed(s, k, n) ==
    LET sum[i \in 0..n] == IF i = 0 THEN 0 ELSE sum[i - 1] + Effect(s.events[i], k)
    IN  sum[n]

ValidEvents(s) ==
    \A i \in 1..Len(s.events) :
        LET e == s.events[i] IN
        /\ \A j \in 1..(i - 1) : s.events[j].id # e.id
        /\ s.items[e.item].version > 0
        /\ Cardinality(DOMAIN e.changes) \in 1..2
        /\ \A p \in DOMAIN e.changes : /\ s.places[p].version > 0
                                      /\ e.changes[p] \in -MaxQty..MaxQty
        /\ \A p \in DOMAIN e.changes : Computed(s, <<e.item, p>>, i) \in 0..MaxQty

ValidStocks(s) ==
    \A k \in Stock : s.stocks[k].qty = Computed(s, k, Len(s.events))

ValidSkus(s) ==
    \A x, y \in Items :
        /\ s.items[x].version > 0 /\ s.items[y].version > 0
        /\ s.items[x].sku # NoSku /\ s.items[x].sku = s.items[y].sku
        => x = y

ValidImportedState(s) ==
    /\ ValidEvents(s)
    /\ ValidStocks(s)
    /\ ValidSkus(s)
    /\ Cardinality(s.seen) <= SeenLimit

-----------------------------------------------------------------------------

Event == [id : STRING, kind : {"in", "out", "transfer", "count", "reverse"},
          item : Items, ref : STRING,
          changes : UNION {[ps -> -MaxQty..MaxQty] : ps \in SUBSET Places}, seq : Nat]

StateType ==
    [seq : Nat,
     items : [Items -> [version : Nat, unit : Units \cup {NoUnit},
                        sku : Skus \cup {NoSku}, archived : BOOLEAN]],
     places : [Places -> [version : Nat, name : Names]],
     stocks : [Stock -> [qty : 0..MaxQty, version : Nat]],
     events : Seq(Event),
     seen : SUBSET [user : Users, id : STRING, intent : Command, seq : Nat]]

\* Every stock is between zero and maxQty, in the state handlers read, in the
\* one a restart may bring up and in the staged copy of a document.
TypeOK ==
    /\ S \in StateType
    /\ doubt \in StateType \cup {NoState}
    /\ frozen \in BOOLEAN
    /\ doc = NoDoc \/ /\ doc.request \in requests
                      /\ doc.row \in Nat
                      /\ doc.staged \in StateType
    /\ workload \in Workloads
    /\ answered \subseteq requests

\* Whatever was done, retried and lost, the next main device accepts the state
\* this one would hand over: history, stocks and SKUs agree (server.go:1175).
TransferPossible == ValidImportedState(S)

Positions(s, id) == {i \in 1..Len(s.events) : s.events[i].id = id}

RowsAt(s, c, i) ==
    /\ i + Len(c.rows) - 1 <= Len(s.events)
    /\ \A n \in 1..Len(c.rows) : /\ s.events[i + n - 1].id = c.rows[n].id
                                 /\ s.events[i + n - 1].seq = s.events[i].seq

Edits(c, x) ==
    \/ c.type = "item" /\ c.item = x
    \/ c.type = "catalog-import" /\ \E i \in 1..Len(c.cards) : c.cards[i].item = x

\* Every edit gives the card a version of its own.
Edited(s, x) == s.items[x].version >= Cardinality({r \in answered : Edits(r.cmd, x)})

Done(s, c) ==
    CASE c.type = "item" -> Edited(s, c.item)
      [] c.type = "place" -> s.places[c.place].version > c.version
      [] c.type = "catalog-import" -> \A i \in 1..Len(c.cards) : Edited(s, c.cards[i].item)
      [] c.type = "batch" -> \E i \in 1..Len(s.events) : RowsAt(s, c, i)
      [] OTHER -> Positions(s, c.id) # {}

\* What a client was told is done is in the state, through failed writes,
\* repeated requests and restarts (server.go:180, "Durable append + fsync
\* precedes acknowledgment").
AnsweredIsDone == \A r \in answered : Done(S, r.cmd)

\* A document is in the history whole, row after row under one number, or not
\* at all, whichever row is refused and wherever the process ends.
DocumentsWhole ==
    \A r \in requests : r.cmd.type = "batch" =>
        \A n \in 1..Len(r.cmd.rows) : \A i \in Positions(S, r.cmd.rows[n].id) :
            /\ i >= n
            /\ RowsAt(S, r.cmd, i - n + 1)

\* A movement is reversed at most once, a reversal never, and a reversal takes
\* back exactly what its movement did.
ReversalsPair ==
    \A i \in 1..Len(S.events) : S.events[i].kind = "reverse" =>
        /\ \E j \in 1..(i - 1) :
               LET e == S.events[j] IN
               /\ e.id = S.events[i].ref /\ e.kind # "reverse" /\ e.item = S.events[i].item
               /\ DOMAIN e.changes = DOMAIN S.events[i].changes
               /\ \A p \in DOMAIN e.changes : S.events[i].changes[p] = -e.changes[p]
        /\ \A j \in 1..(i - 1) : S.events[j].kind = "reverse" => S.events[j].ref # S.events[i].ref

Counts == {r.cmd : r \in {q \in requests : q.cmd.type = "count"}}
            \cup UNION {{r.cmd.rows[n] : n \in {m \in 1..Len(r.cmd.rows) : r.cmd.rows[m].type = "count"}} :
                        r \in {q \in requests : q.cmd.type = "batch"}}

\* A count sets the stock only if no movement touched it between the moment
\* the counter saw it and the count, whatever order requests arrive in.
CountsAreCurrent ==
    \A c \in Counts : \A i \in Positions(S, c.id) :
        LET k == <<c.item, c.to>> IN
        /\ Cardinality({j \in 1..(i - 1) : Touches(S.events[j], k)}) = c.expected
        /\ Computed(S, k, i) = c.qty

\* No step and no restart takes a movement out of the history or changes the
\* unit it is counted in.
HistoryOnlyGrows ==
    [][/\ IsPrefix(S.events, S'.events)
       /\ \A i \in 1..Len(S.events) :
             S'.items[S.events[i].item].unit = S.items[S.events[i].item].unit]_vars
=============================================================================
