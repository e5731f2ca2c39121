------------------------- MODULE MCPersonalWarehouse -------------------------
(* Two pages and the commands that bring the rules of Domain to their       *)
(* limits: segments of two events, two remembered commands, stocks up to 3. *)
EXTENDS PersonalWarehouse

CONSTANTS left, right

MCTabs == {left, right}

Card(id, version, unit, archived) ==
    [id |-> id, version |-> version, unit |-> unit, sku |-> "k" \o id, barcode |-> NoCode,
     price |-> 1, archived |-> archived]

Move(type, id, from, to, qty) ==
    [type |-> type, id |-> id, itemId |-> "nut", from |-> from, to |-> to, qty |-> qty,
     expected |-> 0, expectedUnit |-> "kg"]

NewPlace == [type |-> "place", id |-> "place", place |-> [id |-> "shed", name |-> "Shed", version |-> 0]]
Import == [type |-> "catalog-import", id |-> "import",
           items |-> <<Card("nut", 0, "kg", FALSE), Card("bolt", 0, "kg", FALSE)>>]
Document == [type |-> "batch", id |-> "batch",
             commands |-> <<Move("in", "row1", "", "main", 2), Move("out", "row2", "main", "", 1),
                            Move("out", "row3", "main", "", 1)>>]
Edit(id, card) == [type |-> "item", id |-> id, item |-> card]
Undo(id, ref) == [type |-> "reverse", id |-> id, ref |-> ref]

Archive == Edit("archive", Card("nut", 1, "kg", TRUE))
ChangeUnit == Edit("unit", Card("nut", 1, "pcs", FALSE))
Receive == Move("in", "in", "", "main", 2)
CountAfter(version) == [Move("count", "count", "", "main", 0) EXCEPT !.expected = version]
Transfer == Move("transfer", "move", "main", "shed", 1)

Do(s, c) == CHOOSE t \in Execute(s, c, Me) : TRUE

Stocked == Do(Do(Do(CreateState("S"), Import), NewPlace), Move("in", "first", "", "main", 1))

MCLives ==
    { [device |-> "browser", start |-> None, made |-> 2, kept |-> 1, installed |-> 1,
       commands |-> {Import, Receive, ChangeUnit}],
      [device |-> "browser", start |-> Do(Stocked, Document), made |-> 3, kept |-> 1, installed |-> 1,
       commands |-> {Undo("undo", "row2"), Receive, CountAfter(5)}],
      [device |-> "android", start |-> Stocked, made |-> 4, kept |-> 2, installed |-> 1,
       commands |-> {Transfer, Receive, Document, CountAfter(2), Archive, Undo("undo", "first"), Undo("undo2", "count")}] }
=============================================================================
