---------------------------- MODULE MCWarehouse -----------------------------
(* Requests for TLC: who sends what.  Each set brings one part of prepare  *)
(* to the cases where its guards matter.                                   *)
EXTENDS Warehouse

CONSTANTS nut, bolt, shop, shed, k1, k2, kg, pcs, n1, n2, ann, bob

MCItems == {nut, bolt}
MCPlaces == {shop, shed}
MCSkus == {k1, k2}
MCUnits == {kg, pcs}
MCNames == {n1, n2}

Rights == [u \in {ann, bob} |->
              IF u = ann THEN {"catalog", "places", "stock", "reverse"} ELSE {"stock"}]

By(u, c) == [user |-> u, cmd |-> c]

NewItem(id, i, ver, unit, sku, arch) ==
    [type |-> "item", id |-> id, item |-> i, version |-> ver, unit |-> unit,
     sku |-> sku, archived |-> arch]
NewPlace(id, pl, ver, name) ==
    [type |-> "place", id |-> id, place |-> pl, version |-> ver, name |-> name]
MoveOf(type, id, i, from, to, qty, expected) ==
    [type |-> type, id |-> id, item |-> i, from |-> from, to |-> to, qty |-> qty,
     expected |-> expected, unit |-> NoUnit]
In(id, i, to, qty) == MoveOf("in", id, i, to, to, qty, 0)
Out(id, i, from, qty) == MoveOf("out", id, i, from, from, qty, 0)
Transfer(id, i, from, to, qty) == MoveOf("transfer", id, i, from, to, qty, 0)
Count(id, i, at, qty, expected) == MoveOf("count", id, i, at, at, qty, expected)
Undo(id, ref) == [type |-> "reverse", id |-> id, ref |-> ref]
Batch(id, rows) == [type |-> "batch", id |-> id, rows |-> rows]
Import(id, cards) == [type |-> "catalog-import", id |-> id, cards |-> cards]
NewCard(i, unit, sku) == [item |-> i, unit |-> unit, sku |-> sku, archived |-> FALSE]

\* Movements and their reversals by two users; bob may not reverse.
MovementRequests ==
    { By(ann, NewItem("card", nut, 0, kg, NoSku, FALSE)),
      By(ann, NewPlace("place", shed, 0, n2)),
      By(bob, In("in", nut, shop, 1)),
      By(bob, Out("out", nut, shop, 1)),
      By(bob, Transfer("move", nut, shop, shed, 1)),
      By(ann, Count("count", nut, shop, 3, 1)),
      By(ann, Undo("undo-in", "in")),
      By(ann, Undo("undo-move", "move")),
      By(ann, Undo("undo-again", "in")),
      By(ann, Undo("redo", "undo-in")),
      By(bob, Undo("forbidden", "out")) }

\* A stocktaking document against single movements and other documents.
DocumentRequests ==
    { By(ann, Import("cards", <<NewCard(nut, kg, k1), NewCard(bolt, pcs, k2)>>)),
      By(bob, In("in", nut, shop, 2)),
      By(bob, Batch("take", <<Count("row1", nut, shop, 1, 1), Count("row2", bolt, shop, 1, 0)>>)),
      By(ann, Batch("ship", <<Out("row3", nut, shop, 1), Out("row4", nut, shop, 1)>>)),
      By(ann, Batch("ship2", <<In("row5", bolt, shop, 2), Out("row6", bolt, shop, 1)>>)) }

\* Cards that are imported, edited and archived while they are moved.
CatalogRequests ==
    { By(ann, Import("cards", <<NewCard(nut, kg, k1), NewCard(bolt, pcs, NoSku)>>)),
      By(ann, NewItem("new", bolt, 0, kg, k2, FALSE)),
      By(ann, NewItem("sku", bolt, 1, kg, k1, FALSE)),
      By(ann, NewItem("unit", nut, 1, pcs, k2, FALSE)),
      By(ann, NewItem("archive", nut, 1, kg, k1, TRUE)),
      By(ann, NewItem("unarchive", nut, 2, kg, k1, FALSE)),
      By(ann, NewPlace("place", shed, 0, n1)),
      By(ann, NewPlace("rename", shop, 1, n2)),
      By(bob, In("in", nut, shop, 1)) }

\* Commands that are forgotten at once and retried: what keeps them from being
\* carried out again is not the journal of recent commands.
ForgottenRequests ==
    { By(ann, Import("cards", <<NewCard(nut, kg, k1)>>)),
      By(ann, NewItem("edit", nut, 1, kg, k2, FALSE)),
      By(bob, Count("count", nut, shop, 1, 0)),
      By(bob, Batch("rows", <<In("row1", nut, shop, 1), Out("row2", nut, shop, 1)>>)),
      By(ann, Undo("undo", "row1")) }

Work(requests_, remembered_) == [requests |-> requests_, remembered |-> remembered_]

AllWork == {Work(MovementRequests, 20), Work(DocumentRequests, 20), Work(CatalogRequests, 20),
            Work(ForgottenRequests, 1)}
=============================================================================
