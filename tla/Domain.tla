------------------------------- MODULE Domain -------------------------------
(***************************************************************************)
(* The inventory rules of src/web/domain.js, shared by the personal        *)
(* warehouse and by the Android host.  A rule takes a state of the         *)
(* warehouse and gives the set of states it may become: the empty set      *)
(* stands for "the rule throws and nothing changes".  Texts, dates and the *)
(* checks of their form are left out.                                      *)
(***************************************************************************)
EXTENDS Integers, Sequences, FiniteSets, SequencesExt, FiniteSetsExt

CONSTANTS
    MaxQty,         \* MAX_QTY, the greatest stock
    SegmentSize,    \* HISTORY_SEGMENT_SIZE, events of one segment
    RecentLimit,    \* RECENT_COMMAND_LIMIT, commands remembered
    MaxItems,       \* LIMITS.items
    MaxPlaces,      \* LIMITS.places
    BatchRows       \* LIMITS.batchRows

ASSUME DomainAssumption ==
    {MaxQty, SegmentSize, RecentLimit, MaxItems, MaxPlaces, BatchRows} \subseteq Nat \ {0}

NoCode == ""        \* a card without an article or a barcode

------------------------------------------------------------------------------
(* Who may do what. *)

Permissions == {"catalog", "places", "stock", "reverse", "settings", "team",
                "full_export", "backup", "view_prices", "host_transfer"}

RolePermissions == [
    owner    |-> Permissions,
    admin    |-> Permissions \ {"host_transfer"},
    manager  |-> {"catalog", "places", "stock", "view_prices"},
    editor   |-> {"catalog", "places", "stock", "view_prices"},
    operator |-> {"stock"},
    viewer   |-> {}]

\* What a role grants, corrected by the user's own permissions.
PermissionsFor(actor) ==
    {p \in Permissions : IF p \in DOMAIN actor.permissions THEN actor.permissions[p]
                         ELSE p \in RolePermissions[actor.role]}

Can(actor, permission) == permission \in PermissionsFor(actor)

------------------------------------------------------------------------------
(* The state and its history. *)

When(condition, result) == IF condition THEN {result} ELSE {}

\* op(state, x) applied for every x of seq, one after the other, all or nothing.
InTurn(op(_, _), s, seq) ==
    LET after[n \in 0..Len(seq)] == IF n = 0 THEN {s} ELSE UNION {op(t, seq[n]) : t \in after[n - 1]}
    IN after[Len(seq)]

Put(f, k, v) == [x \in DOMAIN f \cup {k} |-> IF x = k THEN v ELSE f[x]]

CreateState(name) == [
    seq |-> 0, space |-> name, items |-> << >>,
    places |-> Put(<< >>, "main", [id |-> "main", name |-> "Main", version |-> 1]),
    stocks |-> << >>, historySegments |-> << >>, events |-> << >>, eventCount |-> 0, seen |-> << >>]

AllEvents(s) == FlattenSeq(s.historySegments) \o s.events
EventSet(s) == ToSet(AllEvents(s))
HistoryCount(s) == Len(AllEvents(s))
Counted(s) == [s EXCEPT !.eventCount = HistoryCount(s)]

\* Mutant: the event after the last full cut is lost.
NormalizeShort(s) ==
    LET full == (Len(s.events) - 1) \div SegmentSize
    IN Counted(IF Len(s.events) <= SegmentSize THEN s
               ELSE [s EXCEPT !.historySegments = @ \o [n \in 1..full |->
                                  SubSeq(s.events, (n - 1) * SegmentSize + 1, n * SegmentSize)],
                              !.events = SubSeq(@, full * SegmentSize + 2, Len(@))])

\* Events beyond one segment are cut into segments; the last cut stays open.
NormalizeHistory(s) ==
    LET full == (Len(s.events) - 1) \div SegmentSize
        Chunk(n) == SubSeq(s.events, (n - 1) * SegmentSize + 1, n * SegmentSize)
    IN Counted(IF Len(s.events) <= SegmentSize THEN s
               ELSE [s EXCEPT !.historySegments = @ \o [n \in 1..full |-> Chunk(n)],
                              !.events = SubSeq(@, full * SegmentSize + 1, Len(@))])

\* Mutant: a full segment takes the place of the ones before it.
AppendEventOver(s, e) ==
    LET n == NormalizeHistory(s)
    IN Counted(IF Len(n.events) >= SegmentSize
               THEN [n EXCEPT !.historySegments = <<n.events>>, !.events = <<e>>]
               ELSE [n EXCEPT !.events = Append(@, e)])

AppendEvent(s, e) ==
    LET n == NormalizeHistory(s)
    IN Counted(IF Len(n.events) >= SegmentSize
               THEN [n EXCEPT !.historySegments = Append(@, n.events), !.events = <<e>>]
               ELSE [n EXCEPT !.events = Append(@, e)])

RememberRecent(seen, c) ==
    LET all == Append(seen, c) IN SubSeq(all, Max({1, Len(all) - RecentLimit + 1}), Len(all))

StockAt(s, item, place) ==
    IF <<item, place>> \in DOMAIN s.stocks THEN s.stocks[<<item, place>>]
    ELSE [qty |-> 0, version |-> 0]

Total(stocks, item) ==
    MapThenSumSet(LAMBDA k : IF k[1] = item THEN stocks[k].qty ELSE 0, DOMAIN stocks)

------------------------------------------------------------------------------
(* Cards, places and settings. *)

VersionOf(f, id) == IF id \in DOMAIN f THEN f[id].version ELSE 0

\* No other card, archived ones included, has the article or the barcode.
CodesFree(s, x) ==
    \A y \in DOMAIN s.items \ {x.id} :
        /\ x.sku # NoCode => s.items[y].sku # x.sku
        /\ x.barcode # NoCode => s.items[y].barcode # x.barcode

AcceptsItem(s, x) ==
    /\ x.id \in DOMAIN s.items =>
          /\ x.version = s.items[x.id].version
          /\ x.unit = s.items[x.id].unit \/ \A e \in EventSet(s) : e.item # x.id
    /\ x.id \notin DOMAIN s.items => Cardinality(DOMAIN s.items) < MaxItems
    /\ CodesFree(s, x)
    /\ x.archived => Total(s.stocks, x.id) = 0

ValidateItem(s, x) ==
    When(AcceptsItem(s, x),
         [s EXCEPT !.items = Put(@, x.id, [x EXCEPT !.version = VersionOf(s.items, x.id) + 1])])

\* Who does not see prices cannot change them.
Priced(s, x, actor) ==
    IF Can(actor, "view_prices") THEN x
    ELSE [x EXCEPT !.price = IF x.id \in DOMAIN s.items THEN s.items[x.id].price ELSE 0]

ApplyItem(s, c, actor) ==
    IF Can(actor, "catalog") THEN ValidateItem(s, Priced(s, c.item, actor)) ELSE {}

ImportItem(s, x) ==
    IF x.version = 0 /\ x.id \notin DOMAIN s.items THEN ValidateItem(s, x) ELSE {}

ImportedItems(s, c, actor) ==
    IF Can(actor, "catalog") /\ Len(c.items) > 0 /\ Cardinality(DOMAIN s.items) + Len(c.items) <= MaxItems
    THEN InTurn(ImportItem, s, [i \in DOMAIN c.items |-> Priced(s, c.items[i], actor)])
    ELSE {}

ApplyPlace(s, c, actor) ==
    LET x == c.place
    IN When(/\ Can(actor, "places")
            /\ x.version = VersionOf(s.places, x.id)
            /\ x.id \in DOMAIN s.places \/ Cardinality(DOMAIN s.places) < MaxPlaces
            /\ \A y \in DOMAIN s.places \ {x.id} : s.places[y].name # x.name,
            [s EXCEPT !.places = Put(@, x.id, [x EXCEPT !.version = @ + 1])])

ApplySpace(s, c, actor) == When(Can(actor, "settings"), [s EXCEPT !.space = c.space])

------------------------------------------------------------------------------
(* Movements. *)

Change(item, place, qty) == [item |-> item, place |-> place, qty |-> qty]

\* Mutant: the limit is checked on the change and not on the sum.
ApplyChangeBelow(s, d) ==
    LET old == StockAt(s, d.item, d.place)
    IN When(d.place \in DOMAIN s.places /\ old.qty + d.qty >= 0 /\ d.qty <= MaxQty,
            [s EXCEPT !.stocks = Put(@, <<d.item, d.place>>,
                [qty |-> old.qty + d.qty, version |-> old.version + 1])])

ApplyChange(s, d) ==
    LET old == StockAt(s, d.item, d.place)
    IN When(d.place \in DOMAIN s.places /\ old.qty + d.qty \in 0..MaxQty,
            [s EXCEPT !.stocks = Put(@, <<d.item, d.place>>,
                [qty |-> old.qty + d.qty, version |-> old.version + 1])])

\* An event with its changes: all of them, or the rule throws.
Record(s, e) == {AppendEvent(t, e) : t \in InTurn(ApplyChange, s, e.changes)}

Event(c, item, ref, changes) ==
    [id |-> c.id, kind |-> c.type, item |-> item, ref |-> ref, changes |-> changes]

ApplyReverse(s, c, actor) ==
    LET found == {n \in 1..HistoryCount(s) : AllEvents(s)[n].id = c.ref}
        original == AllEvents(s)[Min(found)]
        back == [i \in DOMAIN original.changes |->
                    [original.changes[i] EXCEPT !.qty = -@]]
    IN IF /\ Can(actor, "reverse")
          /\ found # {} /\ original.kind # "reverse"
          /\ \A e \in EventSet(s) : ~(e.kind = "reverse" /\ e.ref = c.ref)
       THEN Record(s, Event(c, original.item, c.ref, back))
       ELSE {}

SeesCurrent(s, c) ==
    /\ c.expectedUnit \in {NoCode, s.items[c.itemId].unit}
    /\ c.expected = StockAt(s, c.itemId, c.to).version

ChangesOf(s, c) ==
    CASE c.type = "in" -> <<Change(c.itemId, c.to, c.qty)>>
      [] c.type = "out" -> <<Change(c.itemId, c.from, -c.qty)>>
      [] c.type = "transfer" -> <<Change(c.itemId, c.from, -c.qty), Change(c.itemId, c.to, c.qty)>>
      [] c.type = "count" -> <<Change(c.itemId, c.to, c.qty - StockAt(s, c.itemId, c.to).qty)>>

ApplyMove(s, c, actor) ==
    IF /\ Can(actor, "stock")
       /\ c.itemId \in DOMAIN s.items /\ ~s.items[c.itemId].archived
       /\ c.qty <= MaxQty /\ (c.qty = 0 => c.type = "count")
       /\ c.type = "transfer" => c.from # c.to
       /\ c.type = "count" => SeesCurrent(s, c)
    THEN Record(s, Event(c, c.itemId, c.id, ChangesOf(s, c)))
    ELSE {}

Moves == {"in", "out", "transfer", "count"}

ApplyCommand(s, c, actor) ==
    CASE c.type = "item" -> ApplyItem(s, c, actor)
      [] c.type = "place" -> ApplyPlace(s, c, actor)
      [] c.type = "space" -> ApplySpace(s, c, actor)
      [] c.type = "reverse" -> ApplyReverse(s, c, actor)
      [] c.type \in Moves -> ApplyMove(s, c, actor)

\* Mutant: rows are compared with the rows of the document only.
FreshInDocument(s, c, n) ==
    /\ c.commands[n].id \notin {c.commands[k].id : k \in 1..(n - 1)}
    /\ c.commands[n].type \in Moves

\* A document: rows with identifiers of their own, all or nothing.
FreshRow(s, c, n) ==
    LET used == {c.id} \cup {e.id : e \in EventSet(s)} \cup {c.commands[k].id : k \in 1..(n - 1)}
    IN c.commands[n].id \notin used /\ c.commands[n].type \in Moves

ApplyBatch(s, c, actor) ==
    IF Len(c.commands) \in 1..BatchRows /\ \A n \in DOMAIN c.commands : FreshRow(s, c, n)
    THEN InTurn(LAMBDA t, row : ApplyCommand(t, row, actor), s, c.commands)
    ELSE {}

Carried(s, c, actor) ==
    CASE c.type = "catalog-import" -> ImportedItems(s, c, actor)
      [] c.type = "batch" -> ApplyBatch(s, c, actor)
      [] OTHER -> ApplyCommand(s, c, actor)

\* A command already remembered is answered without another effect; the same
\* identifier with another content is refused.
Execute(state, c, actor) ==
    LET s == NormalizeHistory(state)
        same == {x \in ToSet(s.seen) : x.id = c.id}
    IN IF same # {} THEN When(c \in same, s)
       ELSE {[t EXCEPT !.seq = @ + 1, !.seen = RememberRecent(@, c)] : t \in Carried(s, c, actor)}

------------------------------------------------------------------------------
(* Full copies. *)

ReplayEvent(s, e) ==
    IF /\ e.item \in DOMAIN s.items /\ Len(e.changes) \in 1..2
       /\ \A i \in DOMAIN e.changes : e.changes[i].item = e.item
    THEN InTurn(ApplyChange, s, e.changes)
    ELSE {}

WholeHistory(raw) ==
    /\ raw.version = 2 => /\ \A i \in DOMAIN raw.historySegments : Len(raw.historySegments[i]) \in 1..SegmentSize
                          /\ Len(raw.events) <= SegmentSize
    /\ raw.eventCount = HistoryCount(raw)
    /\ Cardinality({e.id : e \in EventSet(raw)}) = HistoryCount(raw)

SameStocks(s, raw) ==
    \A k \in DOMAIN s.stocks \cup DOMAIN raw.stocks :
        StockAt(s, k[1], k[2]).qty = StockAt(raw, k[1], k[2]).qty

\* validateBackup: the stocks are computed again from the history and compared.
\* A copy of version 1 has one list of events, which is cut into segments.
ValidateBackup(raw) ==
    LET empty == [CreateState(raw.space) EXCEPT !.items = raw.items, !.places = raw.places, !.seq = raw.seq]
        history == IF raw.version = 2 THEN raw.historySegments ELSE << >>
        Whole(s) == NormalizeHistory([s EXCEPT !.historySegments = history, !.events = raw.events])
    IN IF /\ WholeHistory(raw)
          /\ Cardinality(DOMAIN raw.places) \in 1..MaxPlaces /\ Cardinality(DOMAIN raw.items) <= MaxItems
          /\ \A id \in DOMAIN raw.items : CodesFree(raw, raw.items[id])
       THEN {Whole(s) : s \in {t \in InTurn(ReplayEvent, empty, AllEvents(raw)) :
                /\ SameStocks(t, raw)
                /\ \A id \in DOMAIN t.items : t.items[id].archived => Total(t.stocks, id) = 0}}
       ELSE {}
=============================================================================
