--------------------------- MODULE WarehouseProofs ---------------------------
(***************************************************************************)
(* The warehouse of the Go host: history, stocks and answers agree, for    *)
(* any cards, places, users and requests, in any order, with any failures. *)
(***************************************************************************)
EXTENDS Warehouse, SequenceTheorems, FiniteSetTheorems, WellFoundedInduction, TLAPS

-----------------------------------------------------------------------------
(* Numbers and sums *)

\* A set of numbers has a least one: what inductions over a history rest on.
LEMMA Least ==
    ASSUME NEW T, T \subseteq Nat, T # {}
    PROVE  \E n \in T : \A m \in T : n <= m
<1> DEFINE R == OpToRel(<, Nat)
<1>1. IsWellFoundedOn(R, Nat)
  BY NatLessThanWellFounded
<1> HIDE DEF R
<1>2. PICK n \in T : \A m \in T : <<m, n>> \notin R
  BY <1>1, WFMin
<1>3. \A m \in T : ~(m < n)
  BY <1>2 DEF R, OpToRel
<1> QED
  BY <1>3

\* A set of numbers with a bound has a greatest one.
LEMMA Greatest ==
    ASSUME NEW N \in Nat, NEW T, T \subseteq 0..N, T # {}
    PROVE  \E n \in T : \A m \in T : m <= n
<1> DEFINE U == {i \in 0..N : N - i \in T}
<1>1. \A m \in T : m \in 0..N /\ N - m \in 0..N /\ N - (N - m) = m
  OBVIOUS
<1>2. \A m \in T : N - m \in U
  BY <1>1
<1>3. U # {} /\ U \subseteq Nat
  <2>1. PICK m \in T : TRUE
    OBVIOUS
  <2>2. N - m \in U
    BY <1>2, <2>1
  <2>3. U \subseteq Nat
    OBVIOUS
  <2> HIDE DEF U
  <2> QED
    BY <2>2, <2>3
<1>4. PICK u \in U : \A v \in U : u <= v
  BY <1>3, Least
<1>5. N - u \in T
  OBVIOUS
<1>6. ASSUME NEW m \in T PROVE m <= N - u
  <2>1. u <= N - m
    BY <1>2, <1>4, <1>6
  <2> QED
    BY <1>1, <1>6, <2>1
<1> QED
  BY <1>5, <1>6

\* f[i] is the sum of the first i of g.
Sums(f, g, n) ==
    /\ f \in [0..n -> Int] /\ f[0] = 0
    /\ \A i \in 1..n : f[i] = f[i - 1] + g[i]

LEMMA SumsExist ==
    ASSUME NEW N \in Nat, NEW g, \A i \in 1..N : g[i] \in Int
    PROVE  \E f : Sums(f, g, N)
<1> DEFINE T == {n \in 0..N : ~ \E f : Sums(f, g, n)}
<1>1. SUFFICES ASSUME T # {} PROVE FALSE
  OBVIOUS
<1>2. PICK n \in T : \A m \in T : n <= m
  <2>1. T \subseteq Nat
    OBVIOUS
  <2> QED
    BY <1>1, <2>1, Least
<1>3. n # 0
  <2> DEFINE f == [i \in 0..0 |-> 0]
  <2>1. Sums(f, g, 0)
    BY DEF Sums
  <2> QED
    BY <2>1
<1>4. n - 1 \in 0..N /\ n - 1 \notin T /\ n \in 1..N
  BY <1>2, <1>3
<1>5. PICK f : Sums(f, g, n - 1)
  BY <1>4
<1> DEFINE more == [i \in 0..n |-> IF i < n THEN f[i] ELSE f[n - 1] + g[n]]
<1>6. \A i \in 0..(n - 1) : f[i] \in Int
  BY <1>5 DEF Sums
<1>7. more \in [0..n -> Int]
  BY <1>4, <1>6
<1>8. ASSUME NEW i \in 1..n PROVE more[i] = more[i - 1] + g[i]
  <2>1. i \in 0..n /\ i - 1 \in 0..n /\ more[i - 1] = f[i - 1]
    BY <1>4
  <2>2. CASE i = n
    BY <2>1, <2>2
  <2>3. CASE i # n
    <3>1. i < n /\ i \in 1..(n - 1)
      BY <1>4, <2>3
    <3>2. f[i] = f[i - 1] + g[i]
      BY <1>5, <3>1 DEF Sums
    <3> QED
      BY <2>1, <3>1, <3>2
  <2> QED
    BY <2>2, <2>3
<1>9. more[0] = 0
  BY <1>4, <1>5 DEF Sums
<1> HIDE DEF more
<1>10. Sums(more, g, n)
  BY <1>7, <1>8, <1>9 DEF Sums
<1> QED
  BY <1>2, <1>10

\* Computed is that sum of the effects of the movements on a stock.
LEMMA ComputedIsSum ==
    ASSUME NEW s, NEW k, NEW n \in Nat, NEW f, NEW g, Sums(f, g, n),
           \A i \in 1..n : g[i] = Effect(s.events[i], k)
    PROVE  Computed(s, k, n) = f[n]
<1> DEFINE Next1(h, i) == IF i = 0 THEN 0 ELSE h[i - 1] + Effect(s.events[i], k)
           c == CHOOSE h : h = [i \in 0..n |-> Next1(h, i)]
<1>1. \A i \in 0..n : f[i] = Next1(f, i)
  <2>1. \A i \in 0..n : i # 0 => i \in 1..n
    OBVIOUS
  <2> QED
    BY <2>1 DEF Sums
<1>2. f = [i \in 0..n |-> Next1(f, i)]
  BY <1>1 DEF Sums
<1>3. c = [i \in 0..n |-> Next1(c, i)]
  BY <1>2, Zenon
<1>4. Computed(s, k, n) = c[n]
  BY Zenon DEF Computed
<1> HIDE DEF c
<1>5. \A i \in 0..n : c[i] = f[i]
  <2> DEFINE T == {i \in 0..n : c[i] # f[i]}
  <2>1. SUFFICES ASSUME T # {} PROVE FALSE
    OBVIOUS
  <2>2. PICK i \in T : \A m \in T : i <= m
    <3>1. T \subseteq Nat
      OBVIOUS
    <3> QED
      BY <2>1, <3>1, Least
  <2>3. c[i] = Next1(c, i) /\ f[i] = Next1(f, i)
    BY <1>1, <1>3
  <2>4. i # 0
    BY <2>2, <2>3
  <2>5. i - 1 \in 0..n /\ i - 1 \notin T
    BY <2>2, <2>4
  <2>6. c[i - 1] = f[i - 1]
    BY <2>5
  <2> QED
    BY <2>2, <2>3, <2>6
<1> QED
  BY <1>4, <1>5

\* The same for a part of the sum.
LEMMA ComputedIsPart ==
    ASSUME NEW s, NEW k, NEW N \in Nat, NEW f, NEW g, Sums(f, g, N),
           \A i \in 1..N : g[i] = Effect(s.events[i], k)
    PROVE  \A n \in 0..N : Computed(s, k, n) = f[n]
<1> TAKE n \in 0..N
<1> DEFINE h == [i \in 0..n |-> f[i]]
<1>1. \A i \in 0..n : i \in 0..N /\ h[i] = f[i] /\ f[i] \in Int
  BY DEF Sums
<1>2. h \in [0..n -> Int] /\ 0 \in 0..n /\ n \in 0..n /\ n \in Nat
  BY <1>1
<1> HIDE DEF h
<1>3. ASSUME NEW i \in 1..n PROVE h[i] = h[i - 1] + g[i]
  <2>1. i \in 0..n /\ i - 1 \in 0..n /\ i \in 1..N
    OBVIOUS
  <2> QED
    BY <1>1, <2>1 DEF Sums
<1>4. Sums(h, g, n)
  BY <1>1, <1>2, <1>3 DEF Sums
<1>5. \A i \in 1..n : g[i] = Effect(s.events[i], k)
  OBVIOUS
<1> QED
  BY <1>1, <1>2, <1>4, <1>5, ComputedIsSum

\* The sum begins with 0 and grows by the effect of each movement,
LEMMA ComputedProperties ==
    ASSUME NEW s, NEW k, NEW N \in Nat, \A i \in 1..N : Effect(s.events[i], k) \in Int
    PROVE  /\ Computed(s, k, 0) = 0
           /\ \A n \in 0..N : Computed(s, k, n) \in Int
           /\ \A n \in 1..N : Computed(s, k, n) = Computed(s, k, n - 1) + Effect(s.events[n], k)
<1> DEFINE g == [i \in 1..N |-> Effect(s.events[i], k)]
<1>1. \A i \in 1..N : g[i] \in Int /\ g[i] = Effect(s.events[i], k)
  OBVIOUS
<1> HIDE DEF g
<1>2. PICK f : Sums(f, g, N)
  BY <1>1, SumsExist
<1>3. \A n \in 0..N : Computed(s, k, n) = f[n]
  BY <1>1, <1>2, ComputedIsPart
<1>4. \A n \in 1..N : n \in 0..N /\ n - 1 \in 0..N
  OBVIOUS
<1> QED
  BY <1>1, <1>2, <1>3, <1>4 DEF Sums

\* and depends on no later movement.
SameEffects(s, t, k, N) ==
    /\ N \in Nat
    /\ \A i \in 1..N : Effect(s.events[i], k) \in Int /\ t.events[i] = s.events[i]

LEMMA ComputedSame ==
    ASSUME NEW s, NEW t, NEW k, NEW N, SameEffects(s, t, k, N)
    PROVE  \A n \in 0..N : Computed(t, k, n) = Computed(s, k, n)
<1> DEFINE g == [i \in 1..N |-> Effect(s.events[i], k)]
<1>1. /\ N \in Nat
      /\ \A i \in 1..N : g[i] \in Int /\ g[i] = Effect(s.events[i], k) /\ g[i] = Effect(t.events[i], k)
  BY DEF SameEffects
<1> HIDE DEF g
<1>2. PICK f : Sums(f, g, N)
  BY <1>1, SumsExist
<1>3. \A n \in 0..N : Computed(s, k, n) = f[n]
  BY <1>1, <1>2, ComputedIsPart
<1>4. \A n \in 0..N : Computed(t, k, n) = f[n]
  BY <1>1, <1>2, ComputedIsPart
<1> QED
  BY <1>3, <1>4

LEMMA UpToFinite == ASSUME NEW N \in Nat PROVE IsFiniteSet(1..N) /\ Cardinality(1..N) = N
  BY FS_Interval

-----------------------------------------------------------------------------
(* States of the warehouse *)

MoveCommand == Movement \cup [type : {"reverse"}, id : STRING, ref : STRING]

\* The card and the places of a movement exist.
EventHolds(s, e) ==
    /\ s.items[e.item].version > 0
    /\ Cardinality(DOMAIN e.changes) \in 1..2
    /\ \A p \in DOMAIN e.changes : s.places[p].version > 0

\* A stock is what its movements add up to, never went out of bounds, and its
\* version counts them.
StockHolds(s, k) ==
    /\ \A n \in 0..Len(s.events) : Computed(s, k, n) \in 0..MaxQty
    /\ s.stocks[k].qty = Computed(s, k, Len(s.events))
    /\ s.stocks[k].version = Cardinality({j \in 1..Len(s.events) : Touches(s.events[j], k)})

\* The i-th movement, if it is a reversal, is the only one of an earlier movement.
PairedAt(s, i) ==
    s.events[i].kind = "reverse" =>
        /\ \E j \in 1..(i - 1) :
               LET e == s.events[j] IN
               /\ e.id = s.events[i].ref /\ e.kind # "reverse" /\ e.item = s.events[i].item
               /\ DOMAIN e.changes = DOMAIN s.events[i].changes
               /\ \A p \in DOMAIN e.changes : s.events[i].changes[p] = -e.changes[p]
        /\ \A j \in 1..(i - 1) : s.events[j].kind = "reverse" => s.events[j].ref # s.events[i].ref

\* The journal of recent commands: one entry for each number, none of the future.
Recent(s, limit) ==
    /\ IsFiniteSet(s.seen) /\ Cardinality(s.seen) <= limit
    /\ \A e \in s.seen : e.seq <= s.seq
    /\ \A e, f \in s.seen : e.seq = f.seq => e = f

Good(s, limit) ==
    /\ s \in StateType
    /\ \A i \in 1..Len(s.events) : EventHolds(s, s.events[i]) /\ PairedAt(s, i)
    /\ \A k \in Stock : StockHolds(s, k)
    /\ ValidSkus(s)
    /\ Recent(s, limit)

\* What t has more than s are movements at the end and edits that leave the units
\* of cards with movements alone.
Extends(s, t) ==
    /\ Len(s.events) <= Len(t.events)
    /\ \A i \in 1..Len(s.events) : t.events[i] = s.events[i]
    /\ \A x \in Items : /\ HasHistory(s, x) => t.items[x].unit = s.items[x].unit
                        /\ t.items[x].version >= s.items[x].version
    /\ \A p \in Places : t.places[p].version >= s.places[p].version

ChangesType == UNION {[ps -> -MaxQty..MaxQty] : ps \in SUBSET Places}

LEMMA ChangesShape ==
    \A ch : /\ ch \in ChangesType => /\ DOMAIN ch \subseteq Places
                                     /\ \A p \in DOMAIN ch : ch[p] \in -MaxQty..MaxQty
            /\ \A ps \in SUBSET Places : ch \in [ps -> -MaxQty..MaxQty] => ch \in ChangesType
  BY DEF ChangesType

\* What the type of a state says of its parts.
LEMMA StateParts ==
    ASSUME NEW s \in StateType
    PROVE  /\ s.seq \in Nat /\ s.events \in Seq(Event) /\ Len(s.events) \in Nat
           /\ \A i \in 1..Len(s.events) :
                 /\ s.events[i] \in Event /\ s.events[i].item \in Items
                 /\ DOMAIN s.events[i].changes \subseteq Places
                 /\ \A p \in DOMAIN s.events[i].changes :
                       s.events[i].changes[p] \in -MaxQty..MaxQty /\ s.events[i].changes[p] \in Int
                 /\ \A k : Effect(s.events[i], k) \in Int
           /\ \A x \in Items : s.items[x].version \in Nat
           /\ \A p \in Places : s.places[p].version \in Nat
           /\ \A k \in Stock : s.stocks[k].qty \in 0..MaxQty /\ s.stocks[k].version \in Nat
<1>1. s.seq \in Nat /\ s.events \in Seq(Event) /\ Len(s.events) \in Nat
  BY LenProperties DEF StateType
<1>2. /\ \A x \in Items : s.items[x].version \in Nat
      /\ \A p \in Places : s.places[p].version \in Nat
      /\ \A k \in Stock : s.stocks[k].qty \in 0..MaxQty /\ s.stocks[k].version \in Nat
  BY DEF StateType
<1>3. ASSUME NEW i \in 1..Len(s.events)
      PROVE  /\ s.events[i] \in Event /\ s.events[i].item \in Items
             /\ DOMAIN s.events[i].changes \subseteq Places
             /\ \A p \in DOMAIN s.events[i].changes :
                   s.events[i].changes[p] \in -MaxQty..MaxQty /\ s.events[i].changes[p] \in Int
             /\ \A k : Effect(s.events[i], k) \in Int
  <2> DEFINE e == s.events[i]
  <2>1. e \in Event
    BY <1>1, ElementOfSeq
  <2>2. e.item \in Items /\ e.changes \in ChangesType
    BY <2>1 DEF Event, ChangesType
  <2>3. MaxQty \in Nat
    BY WarehouseAssumption
  <2> HIDE DEF e
  <2>4. DOMAIN e.changes \subseteq Places /\ \A p \in DOMAIN e.changes : e.changes[p] \in -MaxQty..MaxQty
    BY <2>2, ChangesShape
  <2>5. \A p \in DOMAIN e.changes : e.changes[p] \in Int
    BY <2>3, <2>4
  <2>6. \A k : Effect(e, k) \in Int
    BY <2>5 DEF Effect, Touches
  <2> QED
    BY <2>1, <2>2, <2>4, <2>5, <2>6 DEF e
<1> QED
  BY <1>1, <1>2, <1>3

\* The movement a reversal takes back is the last one with that identifier.
LEMMA OriginalProperties ==
    ASSUME NEW s \in StateType, NEW ref, \E i \in 1..Len(s.events) : s.events[i].id = ref
    PROVE  \E j \in 1..Len(s.events) : s.events[j].id = ref /\ Original(s, ref) = s.events[j]
<1> DEFINE N == Len(s.events)
           T == {i \in 1..N : s.events[i].id = ref}
<1>1. N \in Nat
  BY StateParts
<1>2. PICK n \in T : \A m \in T : m <= n
  <2>1. T # {} /\ T \subseteq 0..N
    OBVIOUS
  <2> HIDE DEF T, N
  <2> QED
    BY <1>1, <2>1, Greatest
<1>3. \A j \in (n + 1)..N : s.events[j].id # ref
  <2>1. SUFFICES ASSUME NEW j \in (n + 1)..N, s.events[j].id = ref PROVE FALSE
    OBVIOUS
  <2>2. j \in T /\ j > n
    BY <1>1, <2>1
  <2> QED
    BY <1>1, <1>2, <2>2
<1> DEFINE Latest(i) == s.events[i].id = ref /\ \A j \in (i + 1)..N : s.events[j].id # ref
<1>4. n \in 1..N /\ Latest(n)
  BY <1>2, <1>3
<1> DEFINE l == CHOOSE i \in 1..N : Latest(i)
<1>5. l \in 1..N /\ Latest(l)
  BY <1>4
<1>6. Original(s, ref) = s.events[l]
  BY DEF Original
<1> QED
  BY <1>5, <1>6

-----------------------------------------------------------------------------
(* Movements *)

\* An accepted movement touches one or two places that exist, of a card that
\* exists, and leaves each stock within bounds.
Fit(s, m) ==
    /\ m.item \in Items /\ s.items[m.item].version > 0
    /\ m.changes \in ChangesType /\ Cardinality(DOMAIN m.changes) \in 1..2
    /\ \A p \in DOMAIN m.changes :
          /\ p \in Places /\ s.places[p].version > 0
          /\ m.changes[p] \in Int
          /\ s.stocks[<<m.item, p>>].qty + m.changes[p] \in 0..MaxQty

LEMMA OneOrTwo ==
    ASSUME NEW x, NEW y PROVE Cardinality({x}) = 1 /\ Cardinality({x, y}) \in 1..2
<1>1. IsFiniteSet({x}) /\ Cardinality({x}) = 1
  BY FS_Singleton
<1>2. Cardinality({x} \cup {y}) \in 1..2
  BY <1>1, FS_AddElement
<1>3. {x, y} = {x} \cup {y}
  OBVIOUS
<1> QED
  BY <1>1, <1>2, <1>3

\* What Fits checks keeps a stock within bounds.
LEMMA FitsBounds ==
    ASSUME NEW s \in StateType, NEW item \in Items, NEW changes \in ChangesType,
           Fits(s, item, changes), NEW p \in DOMAIN changes
    PROVE  /\ p \in Places /\ s.places[p].version > 0
           /\ changes[p] \in Int /\ s.stocks[<<item, p>>].qty + changes[p] \in 0..MaxQty
<1>1. p \in Places /\ changes[p] \in -MaxQty..MaxQty
  BY ChangesShape
<1>2. <<item, p>> \in Stock
  BY <1>1 DEF Stock
<1>3. s.stocks[<<item, p>>].qty \in 0..MaxQty
  BY <1>2, StateParts
<1>4. MaxQty \in Nat
  BY WarehouseAssumption
<1>5. /\ s.places[p].version > 0
      /\ changes[p] < 0 => s.stocks[<<item, p>>].qty >= -changes[p]
      /\ changes[p] > 0 => s.stocks[<<item, p>>].qty <= MaxQty - changes[p]
  BY DEF Fits
<1> HIDE DEF Fits
<1> QED
  BY <1>1, <1>3, <1>4, <1>5

LEMMA ReverseFits ==
    ASSUME NEW s, NEW limit, Good(s, limit),
           NEW c \in [type : {"reverse"}, id : STRING, ref : STRING], AcceptsMove(s, c)
    PROVE  /\ Fit(s, Move(s, c))
           /\ \E j \in 1..Len(s.events) :
                 LET e == s.events[j] IN
                 /\ e.id = c.ref /\ e.kind # "reverse" /\ e.item = Move(s, c).item
                 /\ DOMAIN e.changes = DOMAIN Move(s, c).changes
                 /\ \A p \in DOMAIN e.changes : Move(s, c).changes[p] = -e.changes[p]
           /\ ~ReversedIn(s, c.ref)
<1>1. s \in StateType /\ c.type = "reverse"
  BY DEF Good
<1>2. AcceptsReverse(s, c) /\ Fits(s, Move(s, c).item, Move(s, c).changes)
  BY <1>1 DEF AcceptsMove
<1>3. PICK j \in 1..Len(s.events) : s.events[j].id = c.ref /\ Original(s, c.ref) = s.events[j]
  BY <1>1, <1>2, OriginalProperties DEF AcceptsReverse
<1> DEFINE e == s.events[j]
           m == Move(s, c)
<1>4. m = [item |-> e.item, changes |-> [p \in DOMAIN e.changes |-> -e.changes[p]]]
  BY <1>1, <1>3 DEF Move
<1>5. EventHolds(s, e) /\ e.item \in Items /\ DOMAIN e.changes \subseteq Places
  BY <1>1, StateParts DEF Good
<1>6. \A p \in DOMAIN e.changes : -e.changes[p] \in -MaxQty..MaxQty
  <2>1. \A p \in DOMAIN e.changes : e.changes[p] \in -MaxQty..MaxQty
    BY <1>1, StateParts
  <2>2. MaxQty \in Nat
    BY WarehouseAssumption
  <2> QED
    BY <2>1, <2>2
<1> HIDE DEF e
<1>7. /\ m.item = e.item /\ DOMAIN m.changes = DOMAIN e.changes
      /\ \A p \in DOMAIN e.changes : m.changes[p] = -e.changes[p]
      /\ m.changes \in [DOMAIN e.changes -> -MaxQty..MaxQty]
  BY <1>4, <1>6
<1>8. m.changes \in ChangesType
  BY <1>5, <1>7, ChangesShape
<1> HIDE DEF m
<1>9. Fits(s, m.item, m.changes)
  BY <1>2 DEF m
<1>10. Fit(s, m)
  BY <1>1, <1>5, <1>7, <1>8, <1>9, FitsBounds DEF Fit, EventHolds
<1>11. e.kind # "reverse" /\ ~ReversedIn(s, c.ref)
  BY <1>2, <1>3 DEF AcceptsReverse, e
<1> QED
  BY <1>3, <1>7, <1>10, <1>11 DEF e, m

LEMMA KindFits ==
    ASSUME NEW s, NEW limit, Good(s, limit), NEW c \in Movement, AcceptsMove(s, c)
    PROVE  Fit(s, Move(s, c)) /\ Move(s, c).item = c.item
<1>1. /\ s \in StateType /\ c.type \in {"in", "out", "transfer", "count"}
      /\ c.item \in Items /\ c.from \in Places /\ c.to \in Places /\ c.qty \in Nat
  BY DEF Good, Movement
<1>2. AcceptsKind(s, c) /\ Fits(s, Move(s, c).item, Move(s, c).changes)
  BY <1>1 DEF AcceptsMove
<1> DEFINE ch == Changes(s, c)
<1>3. Move(s, c) = [item |-> c.item, changes |-> ch]
  BY <1>1 DEF Move
<1>4. c.qty \in 0..MaxQty /\ s.items[c.item].version > 0
  BY <1>1, <1>2, WarehouseAssumption DEF AcceptsKind
<1>5. MaxQty \in Nat /\ s.stocks[<<c.item, c.to>>].qty \in 0..MaxQty
  <2>1. <<c.item, c.to>> \in Stock
    BY <1>1 DEF Stock
  <2> QED
    BY <1>1, <2>1, StateParts, WarehouseAssumption
<1>6. /\ c.qty \in -MaxQty..MaxQty /\ -c.qty \in -MaxQty..MaxQty
      /\ c.qty - s.stocks[<<c.item, c.to>>].qty \in -MaxQty..MaxQty
  BY <1>4, <1>5
<1>7. ch \in ChangesType /\ Cardinality(DOMAIN ch) \in 1..2
  <2>1. CASE c.type = "in"
    <3>1. ch = [p \in {c.to} |-> c.qty]
      BY <2>1 DEF Changes
    <3>2. ch \in [{c.to} -> -MaxQty..MaxQty] /\ DOMAIN ch = {c.to}
      BY <1>6, <3>1
    <3> QED
      BY <1>1, <3>2, OneOrTwo, ChangesShape
  <2>2. CASE c.type = "out"
    <3>1. ch = [p \in {c.from} |-> -c.qty]
      BY <2>2 DEF Changes
    <3>2. ch \in [{c.from} -> -MaxQty..MaxQty] /\ DOMAIN ch = {c.from}
      BY <1>6, <3>1
    <3> QED
      BY <1>1, <3>2, OneOrTwo, ChangesShape
  <2>3. CASE c.type = "transfer"
    <3>1. ch = [p \in {c.from, c.to} |-> IF p = c.to THEN c.qty ELSE -c.qty]
      BY <2>3 DEF Changes
    <3>2. ch \in [{c.from, c.to} -> -MaxQty..MaxQty]
      BY <1>6, <3>1
    <3> QED
      BY <1>1, <3>1, <3>2, OneOrTwo, ChangesShape
  <2>4. CASE c.type = "count"
    <3>1. ch = [p \in {c.to} |-> c.qty - s.stocks[<<c.item, c.to>>].qty]
      BY <2>4 DEF Changes
    <3>2. ch \in [{c.to} -> -MaxQty..MaxQty] /\ DOMAIN ch = {c.to}
      BY <1>6, <3>1
    <3> QED
      BY <1>1, <3>2, OneOrTwo, ChangesShape
  <2> QED
    BY <1>1, <2>1, <2>2, <2>3, <2>4
<1> HIDE DEF ch
<1>8. Fits(s, c.item, ch)
  BY <1>2, <1>3
<1>9. Fit(s, [item |-> c.item, changes |-> ch])
  BY <1>1, <1>4, <1>7, <1>8, FitsBounds DEF Fit
<1> QED
  BY <1>3, <1>9

\* What an accepted movement makes of the state: one event, and the stocks it
\* touches.
LEMMA WithMoveShape ==
    ASSUME NEW s \in StateType, NEW c \in MoveCommand, Fit(s, Move(s, c)), NEW seq \in Nat,
           NEW t, t = WithMove(s, c, seq), NEW N, N = Len(s.events), NEW e, e = t.events[N + 1]
    PROVE  /\ t \in StateType /\ Len(t.events) = N + 1
           /\ t.seq = s.seq /\ t.items = s.items /\ t.places = s.places /\ t.seen = s.seen
           /\ \A i \in 1..N : t.events[i] = s.events[i]
           /\ e.id = c.id /\ e.kind = c.type /\ e.seq = seq
           /\ e.item = Move(s, c).item /\ e.changes = Move(s, c).changes
           /\ c.type = "reverse" => e.ref = c.ref
           /\ \A k \in Stock :
                 /\ t.stocks[k].qty = s.stocks[k].qty + Effect(e, k)
                 /\ t.stocks[k].version = s.stocks[k].version + IF Touches(e, k) THEN 1 ELSE 0
<1> DEFINE m == Move(s, c)
           a == [id |-> c.id, kind |-> c.type, item |-> m.item,
                 ref |-> IF c.type = "reverse" THEN c.ref ELSE c.id,
                 changes |-> m.changes, seq |-> seq]
           St(k) == IF k[1] = m.item /\ k[2] \in DOMAIN m.changes
                    THEN [qty |-> s.stocks[k].qty + m.changes[k[2]], version |-> s.stocks[k].version + 1]
                    ELSE s.stocks[k]
           stocks == [k \in Stock |-> St(k)]
<1>1. t = [s EXCEPT !.stocks = stocks, !.events = Append(s.events, a)]
  BY DEF WithMove
<1>2. /\ m.item \in Items /\ m.changes \in ChangesType
      /\ \A p \in DOMAIN m.changes :
            p \in Places /\ m.changes[p] \in Int /\ s.stocks[<<m.item, p>>].qty + m.changes[p] \in 0..MaxQty
  BY DEF Fit
<1>3. /\ c.id \in STRING /\ c.type \in {"in", "out", "transfer", "count", "reverse"}
      /\ (IF c.type = "reverse" THEN c.ref ELSE c.id) \in STRING
  BY DEF MoveCommand, Movement
<1> HIDE DEF m
<1>4. a \in Event
  BY <1>2, <1>3 DEF Event, ChangesType
<1>5. /\ a.id = c.id /\ a.kind = c.type /\ a.seq = seq /\ a.item = m.item /\ a.changes = m.changes
      /\ c.type = "reverse" => a.ref = c.ref
  OBVIOUS
<1>6. /\ stocks \in [Stock -> [qty : 0..MaxQty, version : Nat]]
      /\ \A k \in Stock :
            /\ stocks[k].qty = s.stocks[k].qty + Effect(a, k)
            /\ stocks[k].version = s.stocks[k].version + IF Touches(a, k) THEN 1 ELSE 0
  <2>1. ASSUME NEW k \in Stock
        PROVE  /\ St(k) \in [qty : 0..MaxQty, version : Nat]
               /\ St(k).qty = s.stocks[k].qty + Effect(a, k)
               /\ St(k).version = s.stocks[k].version + IF Touches(a, k) THEN 1 ELSE 0
    <3>1. s.stocks[k] \in [qty : 0..MaxQty, version : Nat] /\ MaxQty \in Nat
      BY WarehouseAssumption DEF StateType
    <3>2. k = <<k[1], k[2]>>
      BY DEF Stock
    <3>3. Touches(a, k) <=> k[1] = m.item /\ k[2] \in DOMAIN m.changes
      BY <1>5 DEF Touches
    <3>4. Effect(a, k) = IF Touches(a, k) THEN m.changes[k[2]] ELSE 0
      BY <1>5 DEF Effect
    <3> HIDE DEF a
    <3>5. CASE Touches(a, k)
      <4>1. s.stocks[k].qty + m.changes[k[2]] \in 0..MaxQty
        BY <1>2, <3>2, <3>3, <3>5
      <4>2. St(k) = [qty |-> s.stocks[k].qty + m.changes[k[2]], version |-> s.stocks[k].version + 1]
        BY <3>3, <3>5
      <4> QED
        BY <3>1, <3>4, <3>5, <4>1, <4>2
    <3>6. CASE ~Touches(a, k)
      <4>1. St(k) = s.stocks[k]
        BY <3>3, <3>6
      <4> QED
        BY <3>1, <3>4, <3>6, <4>1
    <3> QED
      BY <3>5, <3>6
  <2> HIDE DEF St
  <2> QED
    BY <2>1
<1> HIDE DEF a, stocks
<1>7. /\ Append(s.events, a) \in Seq(Event) /\ Len(Append(s.events, a)) = N + 1
      /\ \A i \in 1..N : Append(s.events, a)[i] = s.events[i]
      /\ Append(s.events, a)[N + 1] = a
  <2>1. s.events \in Seq(Event)
    BY StateParts
  <2> QED
    BY <1>4, <2>1, AppendProperties
<1>8. /\ t \in StateType /\ t.stocks = stocks /\ t.events = Append(s.events, a)
      /\ t.seq = s.seq /\ t.items = s.items /\ t.places = s.places /\ t.seen = s.seen
  BY <1>1, <1>6, <1>7 DEF StateType
<1>9. e = a
  BY <1>7, <1>8
<1> QED
  BY <1>5, <1>6, <1>7, <1>8, <1>9 DEF m

\* Sums and counts of a history with one more movement.
LEMMA StockGrows ==
    ASSUME NEW s \in StateType, NEW t \in StateType, NEW N, N = Len(s.events), Len(t.events) = N + 1,
           \A i \in 1..N : t.events[i] = s.events[i], NEW k \in Stock, StockHolds(s, k),
           t.stocks[k].qty = s.stocks[k].qty + Effect(t.events[N + 1], k),
           t.stocks[k].version = s.stocks[k].version + IF Touches(t.events[N + 1], k) THEN 1 ELSE 0
    PROVE  StockHolds(t, k)
<1> DEFINE e == t.events[N + 1]
<1>1. /\ N \in Nat /\ N + 1 \in Nat /\ N + 1 \in 1..(N + 1)
      /\ \A i \in 1..(N + 1) : Effect(t.events[i], k) \in Int
  <2>1. N \in Nat
    BY StateParts
  <2>2. \A i \in 1..Len(t.events) : Effect(t.events[i], k) \in Int
    BY StateParts
  <2> QED
    BY <2>1, <2>2
<1>2. \A i \in 1..N : Effect(s.events[i], k) \in Int
  BY StateParts
<1>3. \A n \in 0..N : Computed(t, k, n) = Computed(s, k, n)
  <2>1. SameEffects(s, t, k, N)
    BY <1>1, <1>2 DEF SameEffects
  <2> QED
    BY <2>1, ComputedSame
<1>4. Computed(t, k, N + 1) = Computed(s, k, N) + Effect(e, k)
  <2>1. \A n \in 1..(N + 1) : Computed(t, k, n) = Computed(t, k, n - 1) + Effect(t.events[n], k)
    BY <1>1, ComputedProperties
  <2> QED
    BY <1>1, <1>3, <2>1
<1>5. t.stocks[k].qty = Computed(t, k, N + 1) /\ t.stocks[k].qty \in 0..MaxQty
  BY <1>4, StateParts DEF StockHolds
<1>6. \A n \in 0..(N + 1) : Computed(t, k, n) \in 0..MaxQty
  BY <1>1, <1>3, <1>5 DEF StockHolds
<1> DEFINE A == {j \in 1..N : Touches(s.events[j], k)}
           B == {j \in 1..(N + 1) : Touches(t.events[j], k)}
<1>7. IsFiniteSet(A) /\ N + 1 \notin A
  <2>1. IsFiniteSet(1..N)
    BY <1>1, UpToFinite
  <2> QED
    BY <1>1, <2>1, FS_Subset
<1>8. B = IF Touches(e, k) THEN A \cup {N + 1} ELSE A
  BY <1>1
<1>9. Cardinality(B) = Cardinality(A) + IF Touches(e, k) THEN 1 ELSE 0
  <2>1. Cardinality(A) \in Nat /\ Cardinality(A \cup {N + 1}) = Cardinality(A) + 1
    BY <1>7, FS_AddElement, FS_CardinalityType
  <2> HIDE DEF A, B, e
  <2> QED
    BY <1>8, <2>1
<1>10. t.stocks[k].version = Cardinality(B)
  BY <1>9 DEF StockHolds
<1> QED
  BY <1>5, <1>6, <1>10 DEF StockHolds

\* What an earlier movement was paired with does not change.
LEMMA PairedStays ==
    ASSUME NEW s, NEW t, NEW i \in Nat, \A j \in 1..i : t.events[j] = s.events[j], i > 0, PairedAt(s, i)
    PROVE  PairedAt(t, i)
<1>1. \A j \in 1..(i - 1) : t.events[j] = s.events[j]
  OBVIOUS
<1>2. t.events[i] = s.events[i]
  OBVIOUS
<1> QED
  BY <1>1, <1>2 DEF PairedAt

LEMMA WithMoveGood ==
    ASSUME NEW s, NEW limit, Good(s, limit), NEW c \in MoveCommand, AcceptsMove(s, c), NEW seq \in Nat
    PROVE  Good(WithMove(s, c, seq), limit) /\ Extends(s, WithMove(s, c, seq))
<1> DEFINE t == WithMove(s, c, seq)
           N == Len(s.events)
           e == t.events[N + 1]
           m == Move(s, c)
<1>1. s \in StateType /\ N \in Nat /\ N + 1 > 0
  BY StateParts DEF Good
<1>2. Fit(s, m)
  BY ReverseFits, KindFits DEF MoveCommand
<1>3. /\ t \in StateType /\ Len(t.events) = N + 1
      /\ t.seq = s.seq /\ t.items = s.items /\ t.places = s.places /\ t.seen = s.seen
      /\ \A i \in 1..N : t.events[i] = s.events[i]
      /\ e.id = c.id /\ e.kind = c.type /\ e.seq = seq /\ e.item = m.item /\ e.changes = m.changes
      /\ c.type = "reverse" => e.ref = c.ref
      /\ \A k \in Stock :
            /\ t.stocks[k].qty = s.stocks[k].qty + Effect(e, k)
            /\ t.stocks[k].version = s.stocks[k].version + IF Touches(e, k) THEN 1 ELSE 0
  BY <1>1, <1>2, WithMoveShape
<1>4. PairedAt(t, N + 1)
  <2>1. CASE e.kind = "reverse"
    <3>1. c \in [type : {"reverse"}, id : STRING, ref : STRING] /\ e.ref = c.ref
      BY <1>3, <2>1 DEF MoveCommand, Movement
    <3>2. PICK j \in 1..N :
              LET f == s.events[j] IN
              /\ f.id = c.ref /\ f.kind # "reverse" /\ f.item = m.item
              /\ DOMAIN f.changes = DOMAIN m.changes
              /\ \A p \in DOMAIN f.changes : m.changes[p] = -f.changes[p]
      BY <3>1, ReverseFits
    <3>3. \A i \in 1..N : s.events[i].kind = "reverse" => s.events[i].ref # c.ref
      BY <3>1, ReverseFits DEF ReversedIn
    <3> HIDE DEF t, m, e
    <3>4. \A i \in 1..(N + 1 - 1) : t.events[i].kind = "reverse" => t.events[i].ref # e.ref
      BY <1>1, <1>3, <3>1, <3>3
    <3>5. /\ j \in 1..(N + 1 - 1)
          /\ t.events[j].id = e.ref /\ t.events[j].kind # "reverse" /\ t.events[j].item = e.item
          /\ DOMAIN t.events[j].changes = DOMAIN e.changes
          /\ \A p \in DOMAIN t.events[j].changes : e.changes[p] = -t.events[j].changes[p]
      BY <1>1, <1>3, <3>1, <3>2
    <3> QED
      BY <3>4, <3>5 DEF PairedAt, e
  <2>2. CASE e.kind # "reverse"
    BY <2>2 DEF PairedAt
  <2> QED
    BY <2>1, <2>2
<1> HIDE DEF t, m
<1>5. ASSUME NEW i \in 1..(N + 1) PROVE EventHolds(t, t.events[i]) /\ PairedAt(t, i)
  <2>1. CASE i = N + 1
    BY <1>2, <1>3, <1>4, <2>1 DEF Fit, EventHolds
  <2>2. CASE i # N + 1
    <3>1. i \in 1..N /\ i \in Nat /\ i > 0 /\ t.events[i] = s.events[i] /\ \A j \in 1..i : t.events[j] = s.events[j]
      BY <1>1, <1>3, <2>2
    <3>2. EventHolds(s, s.events[i]) /\ PairedAt(s, i)
      BY <3>1 DEF Good
    <3> QED
      BY <1>3, <3>1, <3>2, PairedStays DEF EventHolds
  <2> QED
    BY <2>1, <2>2
<1>6. ASSUME NEW k \in Stock PROVE StockHolds(t, k)
  <2>1. StockHolds(s, k)
    BY DEF Good
  <2>2. /\ t.stocks[k].qty = s.stocks[k].qty + Effect(e, k)
        /\ t.stocks[k].version = s.stocks[k].version + IF Touches(e, k) THEN 1 ELSE 0
    BY <1>3
  <2> QED
    BY <1>1, <1>3, <2>1, <2>2, StockGrows
<1>7. ValidSkus(t) /\ Recent(t, limit)
  BY <1>3 DEF Good, ValidSkus, Recent
<1>8. Extends(s, t)
  BY <1>1, <1>3, StateParts DEF Extends
<1> QED
  BY <1>3, <1>5, <1>6, <1>7, <1>8 DEF Good, t

-----------------------------------------------------------------------------
(* Cards and places *)

\* A state with other cards and places that still has the ones movements need.
LEMMA CatalogGood ==
    ASSUME NEW s, NEW limit, Good(s, limit), NEW t \in StateType,
           t.seq = s.seq, t.seen = s.seen, t.stocks = s.stocks, t.events = s.events,
           \A x \in Items : t.items[x].version >= s.items[x].version
                            /\ (HasHistory(s, x) => t.items[x].unit = s.items[x].unit),
           \A p \in Places : t.places[p].version >= s.places[p].version,
           ValidSkus(t)
    PROVE  Good(t, limit) /\ Extends(s, t)
<1>1. s \in StateType /\ Len(s.events) \in Nat
  BY StateParts DEF Good
<1>2. ASSUME NEW i \in 1..Len(t.events) PROVE EventHolds(t, t.events[i]) /\ PairedAt(t, i)
  <2> DEFINE e == s.events[i]
  <2>1. EventHolds(s, e) /\ PairedAt(s, i) /\ e.item \in Items /\ DOMAIN e.changes \subseteq Places
    BY <1>1, StateParts DEF Good
  <2>2. \A x \in Items : s.items[x].version \in Nat /\ t.items[x].version \in Nat
    BY <1>1, StateParts
  <2>3. \A p \in Places : s.places[p].version \in Nat /\ t.places[p].version \in Nat
    BY <1>1, StateParts
  <2>4. EventHolds(t, e)
    BY <2>1, <2>2, <2>3 DEF EventHolds
  <2> QED
    BY <2>1, <2>4 DEF PairedAt
<1>3. ASSUME NEW k \in Stock PROVE StockHolds(t, k)
  <2>1. \A n : Computed(t, k, n) = Computed(s, k, n)
    BY DEF Computed
  <2>2. StockHolds(s, k)
    BY DEF Good
  <2> QED
    BY <2>1, <2>2 DEF StockHolds
<1> QED
  BY <1>1, <1>2, <1>3 DEF Good, Extends, Recent

ItemCommand == [type : {"item"}, id : STRING, item : Items, version : Nat, unit : Units,
                sku : Skus \cup {NoSku}, archived : BOOLEAN]

ImportCommand == [type : {"catalog-import"}, id : STRING, cards : Seq(Card)]

PlaceCommand == [type : {"place"}, id : STRING, place : Places, version : Nat, name : Names]

CardState == [version : Nat, unit : Units \cup {NoUnit}, sku : Skus \cup {NoSku}, archived : BOOLEAN]

LEMMA WithItemGood ==
    ASSUME NEW s, NEW limit, Good(s, limit), NEW c \in ItemCommand, AcceptsItem(s, c)
    PROVE  Good(WithItem(s, c), limit) /\ Extends(s, WithItem(s, c))
<1> DEFINE new == [version |-> s.items[c.item].version + 1, unit |-> c.unit,
                   sku |-> c.sku, archived |-> c.archived]
           t == WithItem(s, c)
<1>1. s \in StateType /\ c.item \in Items /\ s.items \in [Items -> CardState]
  BY DEF Good, StateType, ItemCommand, CardState
<1>2. t = [s EXCEPT !.items = [s.items EXCEPT ![c.item] = new]]
  BY <1>1 DEF WithItem, StateType
<1>3. new \in CardState
  BY <1>1 DEF ItemCommand, CardState
<1>4. new.version = s.items[c.item].version + 1 /\ new.unit = c.unit /\ new.sku = c.sku
  OBVIOUS
<1> HIDE DEF new, t
<1>5. /\ t \in StateType
      /\ t.seq = s.seq /\ t.seen = s.seen /\ t.stocks = s.stocks /\ t.events = s.events /\ t.places = s.places
      /\ \A x \in Items : t.items[x] = IF x = c.item THEN new ELSE s.items[x]
  BY <1>1, <1>2, <1>3 DEF StateType, CardState
<1>6. \A x \in Items : /\ t.items[x].version >= s.items[x].version
                       /\ HasHistory(s, x) => t.items[x].unit = s.items[x].unit
  <2>1. ASSUME HasHistory(s, c.item) PROVE c.unit = s.items[c.item].unit
    <3>1. PICK i \in 1..Len(s.events) : s.events[i].item = c.item
      BY <2>1 DEF HasHistory
    <3>2. s.items[c.item].version > 0
      BY <3>1 DEF Good, EventHolds
    <3> QED
      BY <2>1, <3>2 DEF AcceptsItem
  <2>2. \A x \in Items : s.items[x].version \in Nat
    BY <1>1, StateParts
  <2> QED
    BY <1>1, <1>4, <1>5, <2>1, <2>2
<1>7. ValidSkus(t)
  <2>1. \A y \in Items \ {c.item} : s.items[y].version > 0 /\ c.sku # NoSku => s.items[y].sku # c.sku
    BY DEF AcceptsItem, SkuTaken
  <2>2. ValidSkus(s)
    BY DEF Good
  <2> QED
    BY <1>4, <1>5, <2>1, <2>2 DEF ValidSkus
<1>8. \A p \in Places : t.places[p].version >= s.places[p].version
  BY <1>1, <1>5, StateParts
<1> QED
  BY <1>5, <1>6, <1>7, <1>8, CatalogGood DEF t

LEMMA WithPlaceGood ==
    ASSUME NEW s, NEW limit, Good(s, limit), NEW c \in PlaceCommand, AcceptsPlace(s, c)
    PROVE  Good(WithPlace(s, c), limit) /\ Extends(s, WithPlace(s, c))
<1> DEFINE new == [version |-> c.version + 1, name |-> c.name]
           t == WithPlace(s, c)
<1>1. s \in StateType /\ c.place \in Places /\ s.places[c.place].version = c.version
  BY DEF Good, PlaceCommand, AcceptsPlace
<1>2. t = [s EXCEPT !.places = [s.places EXCEPT ![c.place] = new]]
  BY <1>1 DEF WithPlace, StateType
<1>3. new \in [version : Nat, name : Names] /\ new.version = c.version + 1
  BY DEF PlaceCommand
<1> HIDE DEF new, t
<1>4. /\ t \in StateType
      /\ t.seq = s.seq /\ t.seen = s.seen /\ t.stocks = s.stocks /\ t.events = s.events /\ t.items = s.items
      /\ \A p \in Places : t.places[p] = IF p = c.place THEN new ELSE s.places[p]
  BY <1>1, <1>2, <1>3 DEF StateType
<1>5. \A p \in Places : t.places[p].version >= s.places[p].version
  BY <1>1, <1>3, <1>4, StateParts
<1>6. ValidSkus(t) /\ \A x \in Items : t.items[x].version >= s.items[x].version
  BY <1>1, <1>4, StateParts DEF ValidSkus, Good
<1> QED
  BY <1>4, <1>5, <1>6, CatalogGood DEF t

\* Every card of an import is new; the others stay as they are.
LEMMA WithImportShape ==
    ASSUME NEW s \in StateType, NEW c \in ImportCommand, AcceptsImport(s, c),
           NEW t, t = WithImport(s, c)
    PROVE  /\ t \in StateType
           /\ t.seq = s.seq /\ t.seen = s.seen /\ t.stocks = s.stocks /\ t.events = s.events
           /\ t.places = s.places
           /\ \A x \in Items :
                 \/ /\ t.items[x] = s.items[x]
                    /\ \A i \in 1..Len(c.cards) : c.cards[i].item # x
                 \/ \E i \in 1..Len(c.cards) :
                       /\ c.cards[i].item = x
                       /\ t.items[x].version = 1 /\ t.items[x].sku = c.cards[i].sku
<1> DEFINE N == Len(c.cards)
           At(x) == CHOOSE i \in 1..N : c.cards[i].item = x
           Of(x) == IF \E i \in 1..N : c.cards[i].item = x
                    THEN [version |-> 1, unit |-> c.cards[At(x)].unit, sku |-> c.cards[At(x)].sku,
                          archived |-> c.cards[At(x)].archived]
                    ELSE s.items[x]
<1>1. \A i \in 1..N : c.cards[i] \in Card
  BY ElementOfSeq DEF ImportCommand
<1>2. s.items \in [Items -> CardState]
  BY DEF StateType, CardState
<1>3. ASSUME NEW x \in Items
      PROVE  /\ Of(x) \in CardState
             /\ \/ Of(x) = s.items[x] /\ \A i \in 1..N : c.cards[i].item # x
                \/ \E i \in 1..N : c.cards[i].item = x /\ Of(x).version = 1 /\ Of(x).sku = c.cards[i].sku
  <2>1. CASE \E i \in 1..N : c.cards[i].item = x
    <3> DEFINE a == At(x)
    <3>1. a \in 1..N /\ c.cards[a].item = x
      BY <2>1
    <3> HIDE DEF a
    <3>2. c.cards[a] \in Card
      BY <1>1, <3>1
    <3>3. Of(x) = [version |-> 1, unit |-> c.cards[a].unit, sku |-> c.cards[a].sku,
                   archived |-> c.cards[a].archived]
      BY <2>1 DEF a
    <3> HIDE DEF Of
    <3>4. Of(x) \in CardState /\ Of(x).version = 1 /\ Of(x).sku = c.cards[a].sku
      BY <3>2, <3>3 DEF Card, CardState
    <3> QED
      BY <3>1, <3>4
  <2>2. CASE ~ \E i \in 1..N : c.cards[i].item = x
    BY <1>2, <2>2
  <2> QED
    BY <2>1, <2>2
<1>4. t = [s EXCEPT !.items = [x \in Items |-> Of(x)]]
  BY DEF WithImport
<1> HIDE DEF Of
<1>5. [x \in Items |-> Of(x)] \in [Items -> CardState]
  BY <1>3
<1>6. /\ t \in StateType /\ t.items = [x \in Items |-> Of(x)]
      /\ t.seq = s.seq /\ t.seen = s.seen /\ t.stocks = s.stocks /\ t.events = s.events
      /\ t.places = s.places
  BY <1>4, <1>5 DEF StateType, CardState
<1> QED
  BY <1>3, <1>6

LEMMA WithImportGood ==
    ASSUME NEW s, NEW limit, Good(s, limit), NEW c \in ImportCommand, AcceptsImport(s, c)
    PROVE  Good(WithImport(s, c), limit) /\ Extends(s, WithImport(s, c))
<1> DEFINE t == WithImport(s, c)
           N == Len(c.cards)
<1>1. s \in StateType
  BY DEF Good
<1>2. /\ t \in StateType
      /\ t.seq = s.seq /\ t.seen = s.seen /\ t.stocks = s.stocks /\ t.events = s.events
      /\ t.places = s.places
      /\ \A x \in Items :
            \/ t.items[x] = s.items[x]
            \/ \E i \in 1..N : /\ c.cards[i].item = x
                               /\ t.items[x].version = 1 /\ t.items[x].sku = c.cards[i].sku
  BY <1>1, WithImportShape
<1> HIDE DEF t
<1>3. ASSUME NEW i \in 1..N
      PROVE  /\ s.items[c.cards[i].item].version = 0
             /\ c.cards[i].sku # NoSku =>
                   /\ \A y \in Items \ {c.cards[i].item} : s.items[y].version > 0 => s.items[y].sku # c.cards[i].sku
                   /\ \A j \in 1..N : j # i => c.cards[j].sku # c.cards[i].sku
  BY <1>3 DEF AcceptsImport, SkuTaken
<1>4. \A x \in Items : ~HasHistory(s, x) \/ t.items[x] = s.items[x]
  <2>1. \A x \in Items : HasHistory(s, x) => s.items[x].version > 0
    BY DEF HasHistory, Good, EventHolds
  <2> QED
    BY <1>2, <1>3, <2>1
<1>5. \A x \in Items : t.items[x].version >= s.items[x].version
  BY <1>1, <1>2, <1>3, StateParts
<1>6. \A p \in Places : t.places[p].version >= s.places[p].version
  BY <1>1, <1>2, StateParts
<1>7. ValidSkus(t)
  <2>1. SUFFICES ASSUME NEW x \in Items, NEW y \in Items, t.items[x].version > 0, t.items[y].version > 0,
                        t.items[x].sku # NoSku, t.items[x].sku = t.items[y].sku
                 PROVE  x = y
    BY DEF ValidSkus
  <2>2. CASE t.items[x] = s.items[x] /\ t.items[y] = s.items[y]
    BY <2>1, <2>2 DEF Good, ValidSkus
  <2>3. ASSUME NEW i \in 1..N, c.cards[i].item = x, t.items[x].sku = c.cards[i].sku PROVE x = y
    <3>1. CASE t.items[y] = s.items[y]
      BY <1>3, <2>1, <2>3, <3>1
    <3>2. ASSUME NEW j \in 1..N, c.cards[j].item = y, t.items[y].sku = c.cards[j].sku PROVE x = y
      BY <1>3, <2>1, <2>3, <3>2
    <3> QED
      BY <1>2, <3>1, <3>2
  <2>4. ASSUME NEW i \in 1..N, c.cards[i].item = y, t.items[y].sku = c.cards[i].sku,
               t.items[x] = s.items[x] PROVE x = y
    BY <1>3, <2>1, <2>4
  <2> QED
    BY <1>2, <2>2, <2>3, <2>4
<1> QED
  BY <1>2, <1>4, <1>5, <1>6, <1>7, CatalogGood DEF t

-----------------------------------------------------------------------------
(* The journal of recent commands *)

Entry == [user : Users, id : STRING, intent : Command, seq : Nat]

\* pruneSeen leaves no more entries than the limit, because their numbers differ.
LEMMA PrunedProperties ==
    ASSUME NEW seen, IsFiniteSet(seen), SeenLimit \in Nat, \A e \in seen : e.seq \in Nat,
           \A e, f \in seen : e.seq = f.seq => e = f
    PROVE  /\ Pruned(seen) \subseteq seen /\ IsFiniteSet(Pruned(seen))
           /\ Cardinality(Pruned(seen)) <= SeenLimit
<1> DEFINE P == Pruned(seen)
<1>1. P \subseteq seen /\ IsFiniteSet(P)
  BY FS_Subset DEF Pruned
<1>2. CASE P = {}
  BY <1>1, <1>2, FS_EmptySet
<1>3. CASE P # {}
  <2> DEFINE T == {e.seq : e \in P}
  <2>1. T \subseteq Nat /\ T # {}
    BY <1>1, <1>3
  <2>2. PICK n \in T : \A m \in T : n <= m
    BY <2>1, Least
  <2>3. PICK e \in P : e.seq = n
    BY <2>2
  <2> DEFINE later == {f \in seen : f.seq > e.seq}
  <2>4. P \ {e} \subseteq later
    <3>1. SUFFICES ASSUME NEW f \in P, f # e PROVE f \in seen /\ f.seq > e.seq
      OBVIOUS
    <3>2. f.seq # e.seq /\ f.seq \in Nat /\ e.seq \in Nat /\ f \in seen
      BY <1>1, <2>3, <3>1
    <3>3. n <= f.seq
      BY <2>2
    <3> QED
      BY <2>3, <3>2, <3>3
  <2>5. Cardinality(later) < SeenLimit
    BY <2>3 DEF Pruned
  <2>6. IsFiniteSet(later)
    BY FS_Subset
  <2>7. IsFiniteSet(P \ {e}) /\ Cardinality(P \ {e}) = Cardinality(P) - 1
    BY <1>1, <2>3, FS_RemoveElement
  <2>8. Cardinality(P \ {e}) <= Cardinality(later)
    BY <2>4, <2>6, FS_Subset
  <2>9. Cardinality(P) \in Nat /\ Cardinality(later) \in Nat
    BY <1>1, <2>6, FS_CardinalityType
  <2> HIDE DEF P, later
  <2> QED
    BY <1>1, <2>5, <2>7, <2>8, <2>9 DEF P
<1> QED
  BY <1>2, <1>3

\* A request of a workload, with its command.
LEMMA RequestParts ==
    ASSUME NEW w \in Workloads, NEW r \in w.requests
    PROVE  r.user \in Users /\ r.cmd \in Command /\ r = [user |-> r.user, cmd |-> r.cmd]
                /\ r.cmd.id \in STRING /\ w.remembered \in Nat
<1>1. r \in Requests
  BY DEF Requests
<1>2. r \in [user : {r.user}, cmd : Command] /\ w.remembered \in Nat
  BY <1>1, WarehouseAssumption
<1>3. r.cmd.id \in STRING
  BY <1>2 DEF Command, Movement
<1> QED
  BY <1>1, <1>2, <1>3 DEF Users

\* What commit makes of a prepared state.
LEMMA NumberedGood ==
    ASSUME workload \in Workloads, NEW s, Good(s, SeenLimit), NEW r \in requests
    PROVE  Good(Numbered(s, r), SeenLimit) /\ Extends(s, Numbered(s, r))
<1> DEFINE e == [user |-> r.user, id |-> r.cmd.id, intent |-> r.cmd, seq |-> s.seq + 1]
           seen == s.seen \cup {e}
           t == Numbered(s, r)
<1>1. s \in StateType /\ s.seq \in Nat /\ s.seen \in SUBSET Entry /\ Len(s.events) \in Nat
  BY StateParts DEF Good, StateType, Entry
<1>2. e \in Entry /\ SeenLimit \in Nat
  BY <1>1, RequestParts DEF requests, SeenLimit, Entry
<1>3. e.seq = s.seq + 1
  OBVIOUS
<1>4. t = [s EXCEPT !.seq = s.seq + 1, !.seen = Pruned(seen)]
  BY DEF Numbered
<1> HIDE DEF e, t
<1>5. IsFiniteSet(seen) /\ seen \in SUBSET Entry
  BY <1>1, <1>2, FS_AddElement DEF Good, Recent
<1>6. \A f \in seen : f.seq \in Nat /\ f.seq <= s.seq + 1
  BY <1>1, <1>3, <1>5 DEF Good, Recent, Entry
<1>7. \A f, g \in seen : f.seq = g.seq => f = g
  BY <1>1, <1>3 DEF Good, Recent
<1> HIDE DEF seen
<1>8. Pruned(seen) \subseteq seen /\ IsFiniteSet(Pruned(seen)) /\ Cardinality(Pruned(seen)) <= SeenLimit
  BY <1>2, <1>5, <1>6, <1>7, PrunedProperties
<1>9. /\ t \in StateType /\ t.seq = s.seq + 1 /\ t.seen = Pruned(seen)
      /\ t.stocks = s.stocks /\ t.events = s.events /\ t.items = s.items /\ t.places = s.places
  <2> DEFINE P == Pruned(seen)
  <2>1. P \in SUBSET Entry /\ t = [s EXCEPT !.seq = s.seq + 1, !.seen = P]
    BY <1>4, <1>5, <1>8
  <2> HIDE DEF P
  <2>2. t \in StateType
    <3> DEFINE A == [Items -> [version : Nat, unit : Units \cup {NoUnit},
                               sku : Skus \cup {NoSku}, archived : BOOLEAN]]
               B == [Places -> [version : Nat, name : Names]]
               C == [Stock -> [qty : 0..MaxQty, version : Nat]]
               D == SUBSET Entry
               E == Seq(Event)
    <3>1. StateType = [seq : Nat, items : A, places : B, stocks : C, events : E, seen : D]
      BY DEF StateType, Entry
    <3>2. P \in D /\ s.seq + 1 \in Nat
      BY <1>1, <2>1
    <3> HIDE DEF A, B, C, D, E
    <3> QED
      BY <1>1, <2>1, <3>1, <3>2
  <2>3. /\ t.seq = s.seq + 1 /\ t.seen = P
        /\ t.stocks = s.stocks /\ t.events = s.events /\ t.items = s.items /\ t.places = s.places
    BY <1>1, <2>1 DEF StateType
  <2> QED
    BY <2>2, <2>3 DEF P
<1>10. Recent(t, SeenLimit)
  BY <1>6, <1>7, <1>8, <1>9 DEF Recent
<1>11. \A k \in Stock : StockHolds(t, k)
  <2>1. \A k, n : Computed(t, k, n) = Computed(s, k, n)
    BY <1>9 DEF Computed
  <2> QED
    BY <1>9, <2>1 DEF Good, StockHolds
<1>12. \A i \in 1..Len(t.events) : EventHolds(t, t.events[i]) /\ PairedAt(t, i)
  BY <1>9 DEF Good, EventHolds, PairedAt
<1>13. ValidSkus(t)
  BY <1>9 DEF Good, ValidSkus
<1>14. Extends(s, t)
  BY <1>1, <1>9, StateParts DEF Extends
<1> QED
  BY <1>9, <1>10, <1>11, <1>12, <1>13, <1>14 DEF Good, t

LEMMA ExtendsTransitive ==
    ASSUME NEW s \in StateType, NEW t \in StateType, NEW u \in StateType, Extends(s, t), Extends(t, u)
    PROVE  Extends(s, u)
<1>1. Len(s.events) \in Nat /\ Len(t.events) \in Nat /\ Len(u.events) \in Nat
  BY StateParts
<1>2. \A i \in 1..Len(s.events) : i \in 1..Len(t.events)
  BY <1>1 DEF Extends
<1>3. \A x \in Items : /\ s.items[x].version \in Nat /\ t.items[x].version \in Nat /\ u.items[x].version \in Nat
                       /\ HasHistory(s, x) => HasHistory(t, x)
  BY <1>1, <1>2, StateParts DEF Extends, HasHistory
<1>4. \A p \in Places : /\ s.places[p].version \in Nat /\ t.places[p].version \in Nat
                        /\ u.places[p].version \in Nat
  BY StateParts
<1>5. Len(s.events) <= Len(u.events) /\ \A i \in 1..Len(s.events) : u.events[i] = s.events[i]
  BY <1>1, <1>2 DEF Extends
<1>6. \A x \in Items : /\ HasHistory(s, x) => u.items[x].unit = s.items[x].unit
                       /\ u.items[x].version >= s.items[x].version
  BY <1>3 DEF Extends
<1>7. \A p \in Places : u.places[p].version >= s.places[p].version
  BY <1>4 DEF Extends
<1> QED
  BY <1>5, <1>6, <1>7 DEF Extends

-----------------------------------------------------------------------------
(* The invariant *)

\* A document that is being prepared from s, row after row.
Staged(s, d, limit) ==
    /\ d \in [request : requests, row : Nat \ {0}, staged : StateType]
    /\ d.request.cmd.type = "batch" /\ d.row <= Len(d.request.cmd.rows) + 1
    /\ Good(d.staged, limit) /\ Extends(s, d.staged)
    /\ d.staged.seq = s.seq /\ d.staged.seen = s.seen
    /\ d.staged.items = s.items /\ d.staged.places = s.places

SafeInv ==
    /\ workload \in Workloads /\ frozen \in BOOLEAN /\ answered \subseteq requests
    /\ Good(S, SeenLimit)
    /\ doubt # NoState => frozen /\ Good(doubt, SeenLimit) /\ Extends(S, doubt)
    /\ doc # NoDoc => Staged(S, doc, SeenLimit)

LEMMA ExtendsItself == ASSUME NEW s \in StateType PROVE Extends(s, s)
  BY StateParts DEF Extends

LEMMA CommandKinds ==
    ASSUME NEW c \in Command
    PROVE  /\ c.type = "item" => c \in ItemCommand
           /\ c.type = "place" => c \in PlaceCommand
           /\ c.type = "catalog-import" => c \in ImportCommand
           /\ c.type = "batch" => c \in [type : {"batch"}, id : STRING, rows : Seq(Movement)]
           /\ c.type \notin {"item", "place", "catalog-import", "batch"} => c \in MoveCommand
  BY DEF Command, Movement, ItemCommand, PlaceCommand, ImportCommand, MoveCommand

\* What prepare makes of a state, for a command that is not a document.
LEMMA WithGood ==
    ASSUME NEW s, NEW limit, Good(s, limit), NEW c \in Command, c.type # "batch", Accepts(s, c)
    PROVE  Good(With(s, c), limit) /\ Extends(s, With(s, c))
<1>1. s.seq + 1 \in Nat
  BY StateParts DEF Good
<1>2. CASE c.type = "item"
  BY <1>2, CommandKinds, WithItemGood DEF Accepts, With
<1>3. CASE c.type = "place"
  BY <1>3, CommandKinds, WithPlaceGood DEF Accepts, With
<1>4. CASE c.type = "catalog-import"
  BY <1>4, CommandKinds, WithImportGood DEF Accepts, With
<1>5. CASE c.type \notin {"item", "place", "catalog-import"}
  <2>1. Accepts(s, c) = AcceptsMove(s, c) /\ With(s, c) = WithMove(s, c, s.seq + 1)
    BY <1>5 DEF Accepts, With
  <2>2. c \in MoveCommand
    BY <1>5, CommandKinds
  <2> QED
    BY <1>1, <2>1, <2>2, WithMoveGood
<1> QED
  BY <1>2, <1>3, <1>4, <1>5

LEMMA InitSafe == ASSUME Init PROVE SafeInv
<1>1. PICK n \in Names :
        S = [seq |-> 1, items |-> [x \in Items |-> NoItem],
             places |-> [p \in Places |-> [version |-> IF p = MainPlace THEN 1 ELSE 0, name |-> n]],
             stocks |-> [k \in Stock |-> [qty |-> 0, version |-> 0]],
             events |-> <<>>, seen |-> {}]
  BY DEF Init
<1>2. MaxQty \in Nat /\ workload \in Workloads /\ SeenLimit \in Nat
  BY WarehouseAssumption DEF Init, SeenLimit
<1>3. S \in StateType
  BY <1>1, <1>2 DEF StateType, NoItem
<1>4. S.events = <<>> /\ Len(S.events) = 0 /\ S.seen = {}
  BY <1>1
<1>5. ASSUME NEW k \in Stock PROVE StockHolds(S, k)
  <2>1. Computed(S, k, 0) = 0
    BY <1>4, ComputedProperties
  <2>2. S.stocks[k].qty = 0 /\ S.stocks[k].version = 0
    BY <1>1
  <2>3. {j \in 1..Len(S.events) : Touches(S.events[j], k)} = {}
    BY <1>4
  <2>4. Cardinality({j \in 1..Len(S.events) : Touches(S.events[j], k)}) = 0
    BY <2>3, FS_EmptySet
  <2> QED
    BY <1>2, <1>4, <2>1, <2>2, <2>4 DEF StockHolds
<1>6. Recent(S, SeenLimit)
  BY <1>2, <1>4, FS_EmptySet DEF Recent
<1>7. ValidSkus(S)
  BY <1>1 DEF ValidSkus, NoItem
<1>8. Good(S, SeenLimit)
  BY <1>3, <1>4, <1>5, <1>6, <1>7 DEF Good
<1> QED
  BY <1>2, <1>8 DEF SafeInv, Init

\* What commit does with a prepared state.
LEMMA CommitSafe ==
    ASSUME SafeInv, NEW r \in requests, NEW s, Good(s, SeenLimit), Extends(S, s), Commit(r, s),
           doc' \in {NoDoc, doc}, doc' = doc => doc = NoDoc
    PROVE  SafeInv' /\ Extends(S, S')
<1>1. S \in StateType /\ s \in StateType /\ workload \in Workloads
  BY DEF SafeInv, Good
<1> DEFINE t == Numbered(s, r)
<1>2. Good(t, SeenLimit) /\ Extends(s, t)
  BY <1>1, NumberedGood
<1>3. Extends(S, t)
  <2>1. t \in StateType
    BY <1>2 DEF Good
  <2> HIDE DEF t
  <2> QED
    BY <1>1, <1>2, <2>1, ExtendsTransitive
<1>4. doubt = NoState /\ workload' = workload /\ doc' = NoDoc
  BY DEF SafeInv, Commit
<1> HIDE DEF t
<1>5. CASE S' = t /\ answered' \in {answered, answered \cup {r}} /\ UNCHANGED <<doubt, frozen>>
  BY <1>2, <1>3, <1>4, <1>5 DEF SafeInv, SeenLimit, requests
<1>6. CASE doubt' = t /\ frozen' = TRUE /\ UNCHANGED <<S, answered>>
  BY <1>1, <1>2, <1>3, <1>4, <1>6, ExtendsItself DEF SafeInv, SeenLimit, requests
<1> QED
  BY <1>5, <1>6 DEF Commit, t

LEMMA ExecuteSafe == ASSUME SafeInv, NEW r \in requests, Execute(r) PROVE SafeInv' /\ Extends(S, S')
<1> DEFINE s == With(S, r.cmd)
<1>1. Good(s, SeenLimit) /\ Extends(S, s)
  BY RequestParts, WithGood DEF SafeInv, Execute, requests
<1>2. Commit(r, s) /\ doc' = NoDoc /\ doc = NoDoc
  BY DEF Execute, Unlocked
<1> HIDE DEF s
<1> QED
  BY <1>1, <1>2, CommitSafe

LEMMA RepeatedSafe == ASSUME SafeInv, NEW r \in requests, Repeated(r) PROVE SafeInv' /\ Extends(S, S')
  BY ExtendsItself DEF SafeInv, Repeated, Good, Staged, SeenLimit, requests

LEMMA StartDocumentSafe ==
    ASSUME SafeInv, NEW r \in requests, StartDocument(r) PROVE SafeInv' /\ Extends(S, S')
<1> DEFINE d == [request |-> r, row |-> 1, staged |-> S]
<1>1. S \in StateType /\ r.cmd \in [type : {"batch"}, id : STRING, rows : Seq(Movement)]
  BY RequestParts, CommandKinds DEF SafeInv, Good, StartDocument, requests
<1>2. Len(r.cmd.rows) \in Nat
  BY <1>1, LenProperties
<1>3. Staged(S, d, SeenLimit)
  BY <1>1, <1>2, ExtendsItself DEF Staged, SafeInv, Good
<1>4. doc' = d /\ UNCHANGED <<S, doubt, frozen, workload, answered>>
  BY DEF StartDocument
<1> HIDE DEF d
<1> QED
  BY <1>1, <1>3, <1>4, ExtendsItself DEF SafeInv, SeenLimit, requests, Staged

\* The row that is prepared, a movement.
LEMMA RowParts ==
    ASSUME SafeInv, doc # NoDoc
    PROVE  /\ Staged(S, doc, SeenLimit) /\ doc.request \in requests /\ doc.row \in Nat \ {0}
           /\ doc.staged \in StateType
           /\ doc.request.cmd.rows \in Seq(Movement) /\ Len(doc.request.cmd.rows) \in Nat
           /\ doc.row <= Len(doc.request.cmd.rows) => doc.request.cmd.rows[doc.row] \in Movement
<1>1. Staged(S, doc, SeenLimit) /\ workload \in Workloads
  BY DEF SafeInv
<1>2. doc.request \in requests /\ doc.row \in Nat \ {0} /\ doc.request.cmd.type = "batch" /\ doc.staged \in StateType
  BY <1>1 DEF Staged
<1>3. doc.request.cmd \in [type : {"batch"}, id : STRING, rows : Seq(Movement)]
  BY <1>1, <1>2, RequestParts, CommandKinds DEF requests
<1>4. doc.request.cmd.rows \in Seq(Movement)
  BY <1>3
<1> QED
  BY <1>1, <1>2, <1>4, LenProperties, ElementOfSeq

\* A row that is accepted is one more movement of the staged state.
LEMMA RowGood ==
    ASSUME SafeInv, doc # NoDoc, doc.row <= Len(doc.request.cmd.rows), AcceptsRow(doc),
           NEW t, t = WithMove(doc.staged, doc.request.cmd.rows[doc.row], S.seq + 1)
    PROVE  /\ Good(t, SeenLimit) /\ Extends(S, t)
           /\ t.seq = S.seq /\ t.seen = S.seen /\ t.items = S.items /\ t.places = S.places
<1> DEFINE c == doc.request.cmd.rows[doc.row]
           s == doc.staged
<1>1. /\ Good(s, SeenLimit) /\ Extends(S, s) /\ S \in StateType /\ s \in StateType
      /\ s.seq = S.seq /\ s.seen = S.seen /\ s.items = S.items /\ s.places = S.places
      /\ c \in Movement /\ S.seq + 1 \in Nat
  BY RowParts, StateParts DEF Staged, SafeInv, Good
<1>2. AcceptsMove(s, c) /\ c \in MoveCommand
  BY <1>1 DEF AcceptsRow, MoveCommand
<1> HIDE DEF c, s
<1>3. t = WithMove(s, c, S.seq + 1)
  BY DEF c, s
<1>4. Good(t, SeenLimit) /\ Extends(s, t)
  BY <1>1, <1>2, <1>3, WithMoveGood
<1>5. t.seq = s.seq /\ t.seen = s.seen /\ t.items = s.items /\ t.places = s.places
  <2>1. Fit(s, Move(s, c))
    BY <1>1, <1>2, KindFits
  <2>2. PICK N, e : N = Len(s.events) /\ e = t.events[N + 1]
    OBVIOUS
  <2> QED
    BY <1>1, <1>2, <1>3, <2>1, <2>2, WithMoveShape
<1>6. Extends(S, t)
  BY <1>1, <1>4, ExtendsTransitive DEF Good
<1> QED
  BY <1>1, <1>4, <1>5, <1>6

LEMMA PrepareRowSafe == ASSUME SafeInv, PrepareRow PROVE SafeInv' /\ Extends(S, S')
<1>1. doc # NoDoc /\ doc.row <= Len(doc.request.cmd.rows) /\ UNCHANGED <<S, doubt, frozen, workload, answered>>
  BY DEF PrepareRow, Unlocked
<1>2. S \in StateType
  BY DEF SafeInv, Good
<1>3. CASE AcceptsRow(doc)
  <2> DEFINE t == WithMove(doc.staged, doc.request.cmd.rows[doc.row], S.seq + 1)
             d == [doc EXCEPT !.row = doc.row + 1, !.staged = t]
  <2>1. /\ Good(t, SeenLimit) /\ Extends(S, t)
        /\ t.seq = S.seq /\ t.seen = S.seen /\ t.items = S.items /\ t.places = S.places
    BY <1>1, <1>3, RowGood
  <2>2. doc' = d
    BY <1>3 DEF PrepareRow
  <2> HIDE DEF t
  <2>3. t \in StateType /\ Staged(S, doc, SeenLimit) /\ Len(doc.request.cmd.rows) \in Nat
    BY <1>1, <2>1, RowParts DEF Good
  <2>4. /\ d \in [request : requests, row : Nat \ {0}, staged : StateType]
        /\ d.request = doc.request /\ d.row = doc.row + 1 /\ d.staged = t
    <3>1. doc \in [request : requests, row : Nat \ {0}, staged : StateType]
      BY <2>3 DEF Staged
    <3>2. doc.row + 1 \in Nat \ {0}
      BY <3>1
    <3> QED
      BY <2>3, <3>1, <3>2
  <2> HIDE DEF d
  <2>5. Staged(S, d, SeenLimit)
    BY <1>1, <2>1, <2>3, <2>4 DEF Staged
  <2> QED
    BY <1>1, <1>2, <2>2, <2>5, ExtendsItself DEF SafeInv, SeenLimit, requests, Staged
<1>4. CASE ~AcceptsRow(doc)
  <2>1. doc' = NoDoc
    BY <1>4 DEF PrepareRow
  <2> QED
    BY <1>1, <1>2, <2>1, ExtendsItself DEF SafeInv, SeenLimit, requests
<1> QED
  BY <1>3, <1>4

LEMMA CommitDocumentSafe == ASSUME SafeInv, CommitDocument PROVE SafeInv' /\ Extends(S, S')
<1>1. doc # NoDoc /\ Commit(doc.request, doc.staged) /\ doc' = NoDoc
  BY DEF CommitDocument, Unlocked
<1>2. doc.request \in requests /\ Good(doc.staged, SeenLimit) /\ Extends(S, doc.staged)
  BY <1>1, RowParts DEF Staged
<1> QED
  BY <1>1, <1>2, CommitSafe

LEMMA RefuseDocumentSafe == ASSUME SafeInv, RefuseDocument PROVE SafeInv' /\ Extends(S, S')
<1>1. S \in StateType
  BY DEF SafeInv, Good
<1> QED
  BY <1>1, ExtendsItself DEF SafeInv, RefuseDocument, SeenLimit, requests

LEMMA RestartSafe == ASSUME SafeInv, Restart PROVE SafeInv' /\ Extends(S, S')
<1>1. S \in StateType
  BY DEF SafeInv, Good
<1>2. CASE S' = S
  BY <1>1, <1>2, ExtendsItself DEF SafeInv, Restart, SeenLimit, requests
<1>3. CASE doubt # NoState /\ S' = doubt
  BY <1>3 DEF SafeInv, Restart, SeenLimit, requests
<1> QED
  BY <1>2, <1>3 DEF Restart

LEMMA StepSafe == ASSUME SafeInv, [Next]_vars PROVE SafeInv' /\ Extends(S, S')
<1>1. CASE UNCHANGED vars
  <2>1. S \in StateType
    BY DEF SafeInv, Good
  <2> QED
    BY <1>1, <2>1, ExtendsItself DEF SafeInv, vars, SeenLimit, requests, Staged
<1>2. CASE Next
  BY <1>2, ExecuteSafe, RepeatedSafe, StartDocumentSafe, PrepareRowSafe, CommitDocumentSafe,
     RefuseDocumentSafe, RestartSafe DEF Next
<1> QED
  BY <1>1, <1>2

\* The invariant of the states requests read, restarts bring up and documents stage.
THEOREM StaysSafe == Spec => []SafeInv
<1>1. Init => SafeInv
  BY InitSafe
<1>2. SafeInv /\ [Next]_vars => SafeInv'
  BY StepSafe
<1> QED
  BY <1>1, <1>2, PTL DEF Spec

\* Stocks stay between zero and maxQty, in the state requests read, in the one a
\* restart may bring up and in the staged copy of a document.
THEOREM TypesHold == Spec => []TypeOK
<1>1. SafeInv => TypeOK
  BY DEF SafeInv, TypeOK, Staged, Good
<1> QED
  BY <1>1, StaysSafe, PTL

\* A movement is reversed at most once, a reversal never, and a reversal takes
\* back exactly what its movement did.
THEOREM ReversalsHold == Spec => []ReversalsPair
<1>1. SafeInv => ReversalsPair
  BY DEF SafeInv, Good, PairedAt, ReversalsPair
<1> QED
  BY <1>1, StaysSafe, PTL

LEMMA ExtendsIsPrefix ==
    ASSUME NEW s \in StateType, NEW t \in StateType, Extends(s, t)
    PROVE  IsPrefix(s.events, t.events)
<1> DEFINE a == s.events
           b == t.events
           n == Len(a)
<1>1. a \in Seq(Event) /\ b \in Seq(Event) /\ n \in Nat /\ Len(b) \in Nat
  BY StateParts
<1>2. n <= Len(b) /\ \A i \in 1..n : b[i] = a[i]
  BY DEF Extends
<1> HIDE DEF a, b
<1>3. SubSeq(a, 1, n) = SubSeq(b, 1, n)
  <2>1. SubSeq(a, 1, n) = [i \in 1..n |-> a[i]] /\ SubSeq(b, 1, n) = [i \in 1..n |-> b[i]]
    BY <1>1, <1>2
  <2> QED
    BY <1>2, <2>1
<1> QED
  BY <1>2, <1>3 DEF IsPrefix, a, b

\* No step and no restart, whatever was prepared, failed or lost, takes a
\* movement out of the history or changes the unit it is counted in.
THEOREM HistoryStays == Spec => HistoryOnlyGrows
<1> DEFINE Grows == /\ IsPrefix(S.events, S'.events)
                    /\ \A i \in 1..Len(S.events) :
                          S'.items[S.events[i].item].unit = S.items[S.events[i].item].unit
<1>1. ASSUME SafeInv, [Next]_vars PROVE Grows
  <2>1. S \in StateType /\ S' \in StateType /\ Extends(S, S')
    BY <1>1, StepSafe DEF SafeInv, Good
  <2>2. IsPrefix(S.events, S'.events)
    BY <2>1, ExtendsIsPrefix
  <2>3. \A i \in 1..Len(S.events) :
           S.events[i].item \in Items /\ HasHistory(S, S.events[i].item)
    BY <2>1, StateParts DEF HasHistory
  <2> QED
    BY <2>1, <2>2, <2>3 DEF Extends
<1>2. SafeInv /\ [Next]_vars => [Grows]_vars
  BY <1>1
<1> QED
  BY <1>2, StaysSafe, PTL DEF Spec, HistoryOnlyGrows

-----------------------------------------------------------------------------
(* Where movements come from *)

\* The i-th movement is what the command c asked for.  A count is the stock its
\* user saw, and says so of the stock at that point of the history.
MadeBy(s, i, c) ==
    LET e == s.events[i] IN
    /\ e.id = c.id /\ e.kind = c.type
    /\ c.type = "reverse" => e.ref = c.ref
    /\ c.type = "count" =>
          LET k == <<c.item, c.to>> IN
          /\ Touches(e, k) /\ Computed(s, k, i) = c.qty
          /\ Cardinality({j \in 1..(i - 1) : Touches(s.events[j], k)}) = c.expected

NewTo(s, i) == \A j \in 1..(i - 1) : s.events[j].id # s.events[i].id

Alone(s, i, r) == r.cmd \in MoveCommand /\ MadeBy(s, i, r.cmd)

\* It is the n-th row of a document that is there whole.
InDocument(s, i, r, n) ==
    /\ r.cmd.type = "batch" /\ n \in 1..Len(r.cmd.rows) /\ n <= i
    /\ RowsAt(s, r.cmd, i - n + 1)
    /\ MadeBy(s, i, r.cmd.rows[n]) /\ NewTo(s, i)

Sourced(s) ==
    \A i \in 1..Len(s.events) :
        \E r \in requests : Alone(s, i, r) \/ \E n \in Nat : InDocument(s, i, r, n)

\* The rows of a document that are prepared so far.
RowsSoFar(s, d) ==
    /\ Len(d.staged.events) = Len(s.events) + d.row - 1
    /\ \A m \in 1..(d.row - 1) :
          LET i == Len(s.events) + m IN
          /\ MadeBy(d.staged, i, d.request.cmd.rows[m]) /\ NewTo(d.staged, i)
          /\ d.staged.events[i].seq = s.seq + 1

SourceInv ==
    /\ Sourced(S)
    /\ doubt # NoState => Sourced(doubt)
    /\ doc # NoDoc => RowsSoFar(S, doc) /\ SeenBefore(doc.request) = {} /\ doc.request.cmd.rows # <<>>

LEMMA MadeNow ==
    ASSUME NEW s, NEW limit, Good(s, limit), NEW c \in MoveCommand, AcceptsMove(s, c), NEW seq \in Nat
    PROVE  MadeBy(WithMove(s, c, seq), Len(s.events) + 1, c)
<1> DEFINE t == WithMove(s, c, seq)
           N == Len(s.events)
           e == t.events[N + 1]
<1>1. s \in StateType /\ N \in Nat
  BY StateParts DEF Good
<1>2. Fit(s, Move(s, c))
  BY ReverseFits, KindFits DEF MoveCommand
<1>3. /\ Len(t.events) = N + 1 /\ \A i \in 1..N : t.events[i] = s.events[i]
      /\ e.id = c.id /\ e.kind = c.type
      /\ e.item = Move(s, c).item /\ e.changes = Move(s, c).changes
      /\ c.type = "reverse" => e.ref = c.ref
      /\ \A k \in Stock : t.stocks[k].qty = s.stocks[k].qty + Effect(e, k)
  BY <1>1, <1>2, WithMoveShape
<1>4. Good(t, limit)
  BY WithMoveGood
<1> HIDE DEF t
<1> DEFINE k == <<c.item, c.to>>
<1>5. ASSUME c.type = "count"
      PROVE  /\ Touches(e, k) /\ Computed(t, k, N + 1) = c.qty
             /\ Cardinality({j \in 1..(N + 1 - 1) : Touches(t.events[j], k)}) = c.expected
  <2>1. c \in Movement /\ k \in Stock
    BY <1>5 DEF MoveCommand, Movement, Stock
  <2>2. Move(s, c) = [item |-> c.item, changes |-> [p \in {c.to} |-> c.qty - s.stocks[k].qty]]
    BY <1>5 DEF Move, Changes
  <2>3. Touches(e, k) /\ Effect(e, k) = c.qty - s.stocks[k].qty
    BY <1>3, <1>5, <2>2 DEF Touches, Effect
  <2>4. c.expected = s.stocks[k].version
    BY <1>5 DEF AcceptsMove, AcceptsKind, SeesCurrent
  <2>5. StockHolds(s, k) /\ StockHolds(t, k)
    BY <1>4, <2>1 DEF Good
  <2>6. s.stocks[k].qty \in Int /\ c.qty \in Int
    BY <1>1, <2>1, StateParts DEF Movement
  <2>7. t.stocks[k].qty = c.qty
    BY <1>3, <2>1, <2>3, <2>6
  <2>8. Computed(t, k, N + 1) = c.qty
    BY <1>3, <2>5, <2>7 DEF StockHolds
  <2>9. {j \in 1..(N + 1 - 1) : Touches(t.events[j], k)} = {j \in 1..N : Touches(s.events[j], k)}
    BY <1>1, <1>3
  <2> QED
    BY <2>3, <2>4, <2>5, <2>8, <2>9 DEF StockHolds
<1> HIDE DEF e
<1>6. c.type = "count" =>
         LET l == <<c.item, c.to>> IN
         /\ Touches(e, l) /\ Computed(t, l, N + 1) = c.qty
         /\ Cardinality({j \in 1..(N + 1 - 1) : Touches(t.events[j], l)}) = c.expected
  BY <1>5
<1>7. MadeBy(t, N + 1, c)
  BY <1>3, <1>6 DEF MadeBy, e
<1> QED
  BY <1>7 DEF t

\* It stays so while the history grows.
LEMMA MadeStays ==
    ASSUME NEW s \in StateType, NEW t, NEW i \in 1..Len(s.events), NEW c, MadeBy(s, i, c),
           \A j \in 1..i : t.events[j] = s.events[j]
    PROVE  MadeBy(t, i, c)
<1>1. i \in Nat /\ i \in 1..i /\ \A j \in 1..i : j \in 1..Len(s.events)
  BY StateParts
<1>2. t.events[i] = s.events[i] /\ \A j \in 1..(i - 1) : t.events[j] = s.events[j]
  BY <1>1
<1>3. ASSUME NEW k PROVE Computed(t, k, i) = Computed(s, k, i)
  <2>1. SameEffects(s, t, k, i)
    BY <1>1, StateParts DEF SameEffects
  <2>2. i \in 0..i
    BY <1>1
  <2> QED
    BY <2>1, <2>2, ComputedSame
<1>4. \A k : {j \in 1..(i - 1) : Touches(t.events[j], k)} = {j \in 1..(i - 1) : Touches(s.events[j], k)}
  BY <1>2
<1> QED
  BY <1>2, <1>3, <1>4 DEF MadeBy

\* A document that is there whole stays whole.
LEMMA RowsStay ==
    ASSUME NEW s \in StateType, NEW t \in StateType, Len(s.events) <= Len(t.events),
           \A j \in 1..Len(s.events) : t.events[j] = s.events[j],
           NEW c, Len(c.rows) \in Nat, Len(c.rows) > 0, NEW i \in Nat \ {0}, RowsAt(s, c, i)
    PROVE  RowsAt(t, c, i)
<1>1. Len(s.events) \in Nat /\ Len(t.events) \in Nat
  BY StateParts
<1>2. i + Len(c.rows) - 1 <= Len(s.events)
  BY DEF RowsAt
<1>3. ASSUME NEW n \in 1..Len(c.rows) PROVE t.events[i + n - 1] = s.events[i + n - 1]
  <2>1. PICK j : j = i + n - 1
    OBVIOUS
  <2>2. j \in 1..Len(s.events)
    BY <1>1, <1>2, <2>1
  <2>3. t.events[j] = s.events[j]
    BY <2>2
  <2> QED
    BY <2>1, <2>3
<1>4. t.events[i] = s.events[i]
  <2>1. i \in 1..Len(s.events)
    BY <1>1, <1>2
  <2> QED
    BY <2>1
<1>5. i + Len(c.rows) - 1 <= Len(t.events)
  BY <1>1, <1>2
<1> QED
  BY <1>3, <1>4, <1>5 DEF RowsAt

LEMMA SourcedStays ==
    ASSUME workload \in Workloads, NEW s \in StateType, NEW t \in StateType, NEW i \in 1..Len(s.events),
           Len(s.events) <= Len(t.events), \A j \in 1..Len(s.events) : t.events[j] = s.events[j],
           NEW r \in requests
    PROVE  /\ Alone(s, i, r) => Alone(t, i, r)
           /\ \A n \in Nat : InDocument(s, i, r, n) => InDocument(t, i, r, n)
<1>1. Len(s.events) \in Nat /\ Len(t.events) \in Nat /\ i \in Nat
  BY StateParts
<1>2. \A j \in 1..i : t.events[j] = s.events[j]
  BY <1>1
<1>3. Alone(s, i, r) => Alone(t, i, r)
  BY <1>2, MadeStays DEF Alone
<1>4. ASSUME NEW n \in Nat, InDocument(s, i, r, n) PROVE InDocument(t, i, r, n)
  <2>1. /\ r.cmd.type = "batch" /\ n \in 1..Len(r.cmd.rows) /\ n <= i
        /\ RowsAt(s, r.cmd, i - n + 1) /\ MadeBy(s, i, r.cmd.rows[n]) /\ NewTo(s, i)
    BY <1>4 DEF InDocument
  <2>2. r.cmd.rows \in Seq(Movement)
    BY <2>1, RequestParts, CommandKinds DEF requests
  <2>3. Len(r.cmd.rows) \in Nat /\ Len(r.cmd.rows) > 0 /\ i - n + 1 \in Nat \ {0}
    BY <1>1, <2>1, <2>2, LenProperties
  <2>5. RowsAt(t, r.cmd, i - n + 1)
    BY <2>1, <2>3, RowsStay
  <2>6. NewTo(t, i)
    <3>1. t.events[i] = s.events[i] /\ \A j \in 1..(i - 1) : t.events[j] = s.events[j]
      BY <1>1, <1>2
    <3> QED
      BY <2>1, <3>1 DEF NewTo
  <2> QED
    BY <1>2, <2>1, <2>5, <2>6, MadeStays DEF InDocument
<1> QED
  BY <1>3, <1>4

-----------------------------------------------------------------------------
(* The steps that change the warehouse *)

\* t is what the request r makes of S, alone or as the document that is ready.
Reached(r, t) ==
    /\ SeenBefore(r) = {}
    /\ \/ r.cmd.type # "batch" /\ Accepts(S, r.cmd) /\ t = Numbered(With(S, r.cmd), r)
       \/ doc # NoDoc /\ doc.request = r /\ doc.row = Len(r.cmd.rows) + 1 /\ t = Numbered(doc.staged, r)

\* It is written, or its write fails and leaves it in doubt.
Written(r, t) ==
    /\ Reached(r, t) /\ doubt = NoState /\ doc' = NoDoc
    /\ \/ S' = t /\ doubt' = doubt /\ answered' \in {answered, answered \cup {r}}
       \/ S' = S /\ doubt' = t /\ answered' = answered

\* The request r was carried out before.
Known(r) == answered' = answered \cup {r} /\ \E e \in SeenBefore(r) : e.intent = r.cmd

Unwritten ==
    /\ UNCHANGED <<S, doubt>>
    /\ answered' = answered \/ \E r \in requests : Known(r)

LEMMA CommitShape ==
    ASSUME SafeInv, NEW r \in requests, NEW s, Commit(r, s), doc' = NoDoc,
           NEW t, t = Numbered(s, r), Reached(r, t)
    PROVE  workload' = workload /\ Written(r, t)
  BY DEF SafeInv, Commit, Written

LEMMA StepShape ==
    ASSUME SafeInv, SourceInv, [Next]_vars
    PROVE  /\ workload' = workload
           /\ Unwritten \/ Restart \/ \E r \in requests : \E t : Written(r, t)
<1>1. CASE UNCHANGED vars
  BY <1>1 DEF vars, Unwritten
<1>2. ASSUME NEW r \in requests, Execute(r) PROVE workload' = workload /\ \E t : Written(r, t)
  <2> DEFINE t == Numbered(With(S, r.cmd), r)
  <2>1. Reached(r, t) /\ Commit(r, With(S, r.cmd)) /\ doc' = NoDoc
    BY <1>2 DEF Execute, Reached, Unlocked
  <2> QED
    BY <2>1, CommitShape
<1>3. ASSUME NEW r \in requests, Repeated(r) PROVE workload' = workload /\ Unwritten
  BY <1>3 DEF Repeated, Unwritten, Known
<1>4. CASE PrepareRow \/ RefuseDocument \/ \E r \in requests : StartDocument(r)
  BY <1>4 DEF PrepareRow, RefuseDocument, StartDocument, Unwritten
<1>5. CASE CommitDocument
  <2> DEFINE r == doc.request
             t == Numbered(doc.staged, r)
  <2>1. /\ doc # NoDoc /\ doc.row > Len(r.cmd.rows) /\ Commit(r, doc.staged) /\ doc' = NoDoc
        /\ SeenBefore(r) = {} /\ r \in requests
    BY <1>5, RowParts DEF CommitDocument, Unlocked, SourceInv
  <2>2. doc.row = Len(r.cmd.rows) + 1
    BY <2>1, RowParts DEF Staged
  <2>3. Reached(r, t)
    BY <2>1, <2>2 DEF Reached
  <2> QED
    BY <2>1, <2>3, CommitShape
<1>6. CASE Restart
  BY <1>6 DEF Restart
<1> QED
  BY <1>1, <1>2, <1>3, <1>4, <1>5, <1>6 DEF Next

-----------------------------------------------------------------------------
(* Every movement has a source *)

LEMMA NumberedParts ==
    ASSUME NEW s \in StateType, NEW r
    PROVE  /\ Numbered(s, r).events = s.events /\ Numbered(s, r).items = s.items
           /\ Numbered(s, r).places = s.places /\ Numbered(s, r).stocks = s.stocks
           /\ Numbered(s, r).seq = s.seq + 1
           /\ Numbered(s, r).seen = Pruned(s.seen \cup {[user |-> r.user, id |-> r.cmd.id,
                                                         intent |-> r.cmd, seq |-> s.seq + 1]})
  BY DEF Numbered, StateType

\* A request that is not a document adds at most one movement, which it made.
LEMMA SingleAdds ==
    ASSUME NEW s, NEW limit, Good(s, limit), NEW c \in Command, c.type # "batch", Accepts(s, c),
           NEW t, t = With(s, c)
    PROVE  /\ \A i \in 1..Len(s.events) : t.events[i] = s.events[i]
           /\ t.seen = s.seen /\ t.seq = s.seq
           /\ \/ Len(t.events) = Len(s.events) /\ c \notin MoveCommand
              \/ Len(t.events) = Len(s.events) + 1 /\ c \in MoveCommand /\ AcceptsMove(s, c)
                    /\ MadeBy(t, Len(s.events) + 1, c)
<1>1. s \in StateType
  BY DEF Good
<1>2. CASE c.type \in {"item", "place", "catalog-import"}
  <2>1. c \notin MoveCommand
    BY <1>2 DEF MoveCommand, Movement
  <2>2. t.events = s.events /\ t.seen = s.seen /\ t.seq = s.seq
    BY <1>1, <1>2 DEF With, WithItem, WithPlace, WithImport, StateType
  <2> QED
    BY <2>1, <2>2
<1>3. CASE c.type \notin {"item", "place", "catalog-import"}
  <2>1. AcceptsMove(s, c) /\ t = WithMove(s, c, s.seq + 1) /\ c \in MoveCommand
    BY <1>3, CommandKinds DEF Accepts, With
  <2>2. s.seq + 1 \in Nat
    BY <1>1, StateParts
  <2>3. MadeBy(t, Len(s.events) + 1, c)
    BY <2>1, <2>2, MadeNow
  <2>4. Fit(s, Move(s, c))
    BY <1>1, <2>1, ReverseFits, KindFits DEF MoveCommand
  <2>5. PICK N, e : N = Len(s.events) /\ e = t.events[N + 1]
    OBVIOUS
  <2>6. /\ \A i \in 1..N : t.events[i] = s.events[i]
        /\ t.seen = s.seen /\ t.seq = s.seq /\ Len(t.events) = N + 1
    BY <1>1, <2>1, <2>2, <2>4, <2>5, WithMoveShape
  <2> QED
    BY <2>1, <2>3, <2>5, <2>6
<1> QED
  BY <1>2, <1>3

LEMMA ReachedGood ==
    ASSUME SafeInv, NEW r \in requests, NEW t, Reached(r, t)
    PROVE  Good(t, SeenLimit) /\ Extends(S, t)
<1>1. workload \in Workloads /\ S \in StateType
  BY DEF SafeInv, Good
<1>2. ASSUME NEW s, Good(s, SeenLimit), Extends(S, s), t = Numbered(s, r)
      PROVE  Good(t, SeenLimit) /\ Extends(S, t)
  <2>1. Good(t, SeenLimit) /\ Extends(s, t)
    BY <1>1, <1>2, NumberedGood
  <2>2. s \in StateType /\ t \in StateType
    BY <1>2, <2>1 DEF Good
  <2> QED
    BY <1>1, <1>2, <2>1, <2>2, ExtendsTransitive
<1>3. CASE r.cmd.type # "batch" /\ Accepts(S, r.cmd) /\ t = Numbered(With(S, r.cmd), r)
  <2>1. r.cmd \in Command
    BY <1>1, RequestParts DEF requests
  <2>2. Good(With(S, r.cmd), SeenLimit) /\ Extends(S, With(S, r.cmd))
    BY <1>3, <2>1, WithGood DEF SafeInv
  <2> QED
    BY <1>2, <1>3, <2>2
<1>4. CASE doc # NoDoc /\ t = Numbered(doc.staged, r)
  <2>1. Good(doc.staged, SeenLimit) /\ Extends(S, doc.staged)
    BY <1>4, RowParts DEF Staged
  <2> QED
    BY <1>2, <1>4, <2>1
<1> QED
  BY <1>3, <1>4 DEF Reached

\* What a movement is made by depends on the history alone.
LEMMA SourcedSame ==
    ASSUME workload \in Workloads, NEW s \in StateType, NEW t \in StateType, t.events = s.events,
           Sourced(s)
    PROVE  Sourced(t)
<1>1. ASSUME NEW i \in 1..Len(s.events)
      PROVE  \E r \in requests : Alone(t, i, r) \/ \E n \in Nat : InDocument(t, i, r, n)
  <2>1. PICK r \in requests : Alone(s, i, r) \/ \E n \in Nat : InDocument(s, i, r, n)
    BY DEF Sourced
  <2>2. Len(s.events) <= Len(t.events)
    BY StateParts
  <2>3. /\ Alone(s, i, r) => Alone(t, i, r)
        /\ \A n \in Nat : InDocument(s, i, r, n) => InDocument(t, i, r, n)
    BY <2>2, SourcedStays
  <2> QED
    BY <2>1, <2>3
<1> QED
  BY <1>1 DEF Sourced

\* A request that is not a document.
LEMMA SingleSourced ==
    ASSUME SafeInv, Sourced(S), NEW r \in requests, r.cmd.type # "batch", Accepts(S, r.cmd),
           NEW t, t = With(S, r.cmd)
    PROVE  Sourced(t)
<1> DEFINE N == Len(S.events)
<1>1. workload \in Workloads /\ S \in StateType /\ r.cmd \in Command /\ Good(S, SeenLimit)
  BY RequestParts DEF SafeInv, Good, requests
<1>2. t \in StateType
  BY <1>1, WithGood DEF Good
<1>3. N \in Nat /\ Len(t.events) \in Nat
  BY <1>1, <1>2, StateParts
<1>4. /\ \A i \in 1..N : t.events[i] = S.events[i]
      /\ \/ Len(t.events) = N /\ r.cmd \notin MoveCommand
         \/ Len(t.events) = N + 1 /\ r.cmd \in MoveCommand /\ MadeBy(t, N + 1, r.cmd)
  BY <1>1, SingleAdds
<1>5. ASSUME NEW i \in 1..N
      PROVE  \E q \in requests : Alone(t, i, q) \/ \E n \in Nat : InDocument(t, i, q, n)
  <2>1. PICK q \in requests : Alone(S, i, q) \/ \E n \in Nat : InDocument(S, i, q, n)
    BY DEF Sourced
  <2>2. N <= Len(t.events)
    BY <1>3, <1>4
  <2>3. /\ Alone(S, i, q) => Alone(t, i, q)
        /\ \A n \in Nat : InDocument(S, i, q, n) => InDocument(t, i, q, n)
    BY <1>1, <1>2, <1>4, <2>2, SourcedStays
  <2> QED
    BY <2>1, <2>3
<1>6. ASSUME Len(t.events) = N + 1
      PROVE  \E q \in requests : Alone(t, N + 1, q) \/ \E n \in Nat : InDocument(t, N + 1, q, n)
  BY <1>3, <1>4, <1>6 DEF Alone
<1> QED
  BY <1>3, <1>4, <1>5, <1>6 DEF Sourced

\* The movements that a document adds to the first N once its rows are prepared.
RowsAdded(t, c, N) ==
    /\ t \in StateType /\ N \in Nat /\ c.type = "batch" /\ c.rows \in Seq(Movement) /\ c.rows # <<>>
    /\ Len(c.rows) \in Nat /\ Len(t.events) = N + Len(c.rows) /\ N + 1 \in 1..Len(t.events)
    /\ t.items = S.items /\ t.seen = S.seen /\ t.seq = S.seq
    /\ \A i \in 1..N : t.events[i] = S.events[i]
    /\ \A m \in 1..Len(c.rows) : MadeBy(t, N + m, c.rows[m]) /\ NewTo(t, N + m)
    /\ \A i \in 1..Len(t.events) : i > N => \E m \in 1..Len(c.rows) : i = N + m
    /\ RowsAt(t, c, N + 1)

LEMMA DocumentRows ==
    ASSUME SafeInv, SourceInv, doc # NoDoc, doc.row = Len(doc.request.cmd.rows) + 1
    PROVE  RowsAdded(doc.staged, doc.request.cmd, Len(S.events))
<1> DEFINE t == doc.staged
           c == doc.request.cmd
           N == Len(S.events)
           L == Len(c.rows)
<1>1. /\ t \in StateType /\ c.type = "batch" /\ c.rows \in Seq(Movement) /\ c.rows # <<>> /\ Extends(S, t)
      /\ t.items = S.items /\ t.seen = S.seen /\ t.seq = S.seq /\ N \in Nat
  BY RowParts, StateParts DEF Staged, SourceInv, SafeInv, Good
<1>2. L \in Nat /\ L > 0
  BY <1>1, EmptySeq
<1>3. RowsSoFar(S, doc) /\ doc.row = L + 1
  BY DEF SourceInv
<1>4. Len(t.events) = N + doc.row - 1
  BY <1>3 DEF RowsSoFar
<1>5. doc.row - 1 = L /\ Len(t.events) = N + L
  <2> HIDE DEF L, N, t
  <2> QED
    BY <1>1, <1>2, <1>3, <1>4
<1>6. \A m \in 1..L : MadeBy(t, N + m, c.rows[m]) /\ NewTo(t, N + m) /\ t.events[N + m].seq = S.seq + 1
  BY <1>3, <1>5 DEF RowsSoFar
<1>7. ASSUME NEW i \in 1..Len(t.events), i > N PROVE \E m \in 1..L : i = N + m
  <2> HIDE DEF L, N, t
  <2>1. i - N \in 1..L /\ i = N + (i - N)
    BY <1>1, <1>2, <1>5, <1>7
  <2> QED
    BY <2>1
<1>8. RowsAt(t, c, N + 1) /\ N + 1 \in 1..Len(t.events)
  <2>1. \A m \in 1..L : t.events[N + m].id = c.rows[m].id /\ t.events[N + m].seq = S.seq + 1
    BY <1>6 DEF MadeBy
  <2>2. t.events[N + 1].seq = S.seq + 1
    BY <1>2, <2>1
  <2>3. N + 1 + L - 1 <= Len(t.events) /\ N + 1 \in 1..Len(t.events) /\ \A m \in 1..L : N + 1 + m - 1 = N + m
    <3> HIDE DEF L, N, t
    <3>1. N + 1 + L - 1 = N + L /\ N + 1 \in 1..(N + L) /\ N + L <= N + L
      BY <1>1, <1>2
    <3> QED
      BY <1>1, <1>2, <1>5, <3>1
  <2> HIDE DEF N, t, c
  <2> QED
    BY <2>1, <2>2, <2>3 DEF RowsAt
<1>9. \A i \in 1..N : t.events[i] = S.events[i]
  BY <1>1 DEF Extends
<1> HIDE DEF t, c, N
<1>10. RowsAdded(t, c, N)
  BY <1>1, <1>2, <1>5, <1>6, <1>7, <1>8, <1>9 DEF RowsAdded
<1> QED
  BY <1>10 DEF t, c, N

\* A document all of whose rows are prepared.
LEMMA DocumentSourced ==
    ASSUME SafeInv, SourceInv, doc # NoDoc, doc.row = Len(doc.request.cmd.rows) + 1
    PROVE  Sourced(doc.staged)
<1>1. PICK t, r, c, N : t = doc.staged /\ r = doc.request /\ c = r.cmd /\ N = Len(S.events)
  OBVIOUS
<1>2. workload \in Workloads /\ S \in StateType /\ r \in requests
  BY <1>1, RowParts DEF SafeInv, Good
<1>3. RowsAdded(t, c, N) /\ t \in StateType /\ N \in Nat /\ \A i \in 1..N : t.events[i] = S.events[i]
  BY <1>1, DocumentRows DEF RowsAdded
<1>4. ASSUME NEW i \in 1..N
      PROVE  \E q \in requests : Alone(t, i, q) \/ \E n \in Nat : InDocument(t, i, q, n)
  <2>1. PICK q \in requests : Alone(S, i, q) \/ \E n \in Nat : InDocument(S, i, q, n)
    BY <1>1 DEF SourceInv, Sourced
  <2>2. N <= Len(t.events)
    BY <1>3 DEF RowsAdded
  <2>3. /\ Alone(S, i, q) => Alone(t, i, q)
        /\ \A n \in Nat : InDocument(S, i, q, n) => InDocument(t, i, q, n)
    BY <1>1, <1>2, <1>3, <2>2, SourcedStays
  <2> QED
    BY <2>1, <2>3
<1>5. ASSUME NEW m \in 1..Len(c.rows) PROVE m \in Nat /\ InDocument(t, N + m, r, m)
  <2>1. (N + m) - m + 1 = N + 1 /\ m <= N + m /\ m \in Nat
    BY <1>3 DEF RowsAdded
  <2>2. /\ c.type = "batch" /\ RowsAt(t, c, N + 1)
        /\ MadeBy(t, N + m, c.rows[m]) /\ NewTo(t, N + m)
    BY <1>3 DEF RowsAdded
  <2>3. RowsAt(t, c, (N + m) - m + 1)
    BY Zenon, <2>1, <2>2
  <2> QED
    BY Zenon, <1>1, <2>1, <2>2, <2>3 DEF InDocument
<1>6. \A i \in 1..Len(t.events) : i \in 1..N \/ \E m \in 1..Len(c.rows) : i = N + m
  BY <1>3 DEF RowsAdded
<1>7. Sourced(t)
  BY <1>2, <1>4, <1>5, <1>6 DEF Sourced
<1> QED
  BY <1>1, <1>7

LEMMA ReachedSourced ==
    ASSUME SafeInv, SourceInv, NEW r \in requests, NEW t, Reached(r, t)
    PROVE  Sourced(t)
<1>1. workload \in Workloads /\ S \in StateType /\ t \in StateType
  BY ReachedGood DEF SafeInv, Good
<1>2. ASSUME NEW s \in StateType, Sourced(s), t = Numbered(s, r) PROVE Sourced(t)
  BY <1>1, <1>2, NumberedParts, SourcedSame
<1>3. CASE r.cmd.type # "batch" /\ Accepts(S, r.cmd) /\ t = Numbered(With(S, r.cmd), r)
  <2> DEFINE s == With(S, r.cmd)
  <2>1. s \in StateType
    BY <1>1, <1>3, RequestParts, WithGood DEF SafeInv, Good, requests
  <2>2. Sourced(s)
    BY <1>3, SingleSourced DEF SourceInv
  <2> QED
    BY <1>2, <1>3, <2>1, <2>2
<1>4. CASE doc # NoDoc /\ doc.request = r /\ doc.row = Len(r.cmd.rows) + 1 /\ t = Numbered(doc.staged, r)
  BY <1>2, <1>4, RowParts, DocumentSourced
<1> QED
  BY <1>3, <1>4 DEF Reached

\* What the movement adds to the history.
LEMMA WithMoveEvents ==
    ASSUME NEW s \in StateType, NEW c \in MoveCommand, Fit(s, Move(s, c)), NEW seq \in Nat
    PROVE  LET t == WithMove(s, c, seq)
               N == Len(s.events)
           IN  /\ Len(t.events) = N + 1 /\ \A j \in 1..N : t.events[j] = s.events[j]
               /\ t.events[N + 1].id = c.id /\ t.events[N + 1].seq = seq
<1>1. PICK t, N, e : t = WithMove(s, c, seq) /\ N = Len(s.events) /\ e = t.events[N + 1]
  OBVIOUS
<1>2. /\ Len(t.events) = N + 1 /\ \A j \in 1..N : t.events[j] = s.events[j]
      /\ e.id = c.id /\ e.seq = seq
  BY <1>1, WithMoveShape
<1> QED
  BY <1>1, <1>2

\* A row that is accepted is the next movement of the staged state.
LEMMA RowsNext ==
    ASSUME SafeInv, RowsSoFar(S, doc), doc # NoDoc, doc.row <= Len(doc.request.cmd.rows), AcceptsRow(doc),
           NEW t, t = WithMove(doc.staged, doc.request.cmd.rows[doc.row], S.seq + 1),
           NEW d, d.request = doc.request, d.row = doc.row + 1, d.staged = t
    PROVE  RowsSoFar(S, d)
<1> DEFINE N == Len(S.events)
           s == doc.staged
           n == doc.row
           rows == doc.request.cmd.rows
           M == Len(s.events)
<1>1. S \in StateType /\ S.seq + 1 \in Nat /\ N \in Nat
  BY StateParts DEF SafeInv, Good
<1>2. s \in StateType /\ Good(s, SeenLimit) /\ n \in Nat \ {0} /\ rows[n] \in Movement /\ M \in Nat
  BY RowParts, StateParts DEF Staged
<1>3. M = N + n - 1
  BY DEF RowsSoFar
<1>4. \A m \in 1..(n - 1) : MadeBy(s, N + m, rows[m]) /\ NewTo(s, N + m) /\ s.events[N + m].seq = S.seq + 1
  BY DEF RowsSoFar
<1>5. AcceptsMove(s, rows[n]) /\ rows[n] \in MoveCommand
  BY <1>2 DEF AcceptsRow, MoveCommand
<1>6. \A j \in 1..M : s.events[j].id # rows[n].id
  BY DEF AcceptsRow, FreshRow
<1>7. d.row = n + 1 /\ d.request.cmd.rows = rows /\ d.staged = t /\ t = WithMove(s, rows[n], S.seq + 1)
  OBVIOUS
<1> HIDE DEF N, s, n, rows, M
<1> DEFINE c == rows[n]
<1>8. /\ Len(t.events) = M + 1 /\ \A j \in 1..M : t.events[j] = s.events[j]
      /\ t.events[M + 1].id = c.id /\ t.events[M + 1].seq = S.seq + 1
  <2>1. Fit(s, Move(s, c))
    BY <1>2, <1>5, KindFits
  <2>2. PICK q \in Nat : q = S.seq + 1
    BY <1>1
  <2>3. t = WithMove(s, c, q) /\ M = Len(s.events) /\ c \in MoveCommand /\ s \in StateType
    BY <1>2, <1>5, <1>7, <2>2 DEF M
  <2> HIDE DEF c
  <2>4. /\ Len(t.events) = M + 1 /\ \A j \in 1..M : t.events[j] = s.events[j]
        /\ t.events[M + 1].id = c.id /\ t.events[M + 1].seq = q
    BY <2>1, <2>3, WithMoveEvents
  <2> QED
    BY <2>2, <2>4
<1>9. MadeBy(t, M + 1, c)
  <2>1. PICK q \in Nat : q = S.seq + 1
    BY <1>1
  <2>2. t = WithMove(s, c, q) /\ c \in MoveCommand /\ AcceptsMove(s, c) /\ Good(s, SeenLimit)
    BY <1>2, <1>5, <1>7, <2>1
  <2>3. MadeBy(WithMove(s, c, q), Len(s.events) + 1, c)
    BY <2>2, MadeNow
  <2> QED
    BY <2>2, <2>3 DEF M
<1>10. NewTo(t, M + 1)
  <2>1. \A j : j \in 1..((M + 1) - 1) <=> j \in 1..M
    BY <1>2
  <2>2. \A j \in 1..M : t.events[j].id # t.events[M + 1].id
    BY <1>6, <1>8
  <2> QED
    BY <2>1, <2>2 DEF NewTo
<1>11. M + 1 = N + n /\ Len(t.events) = N + (n + 1) - 1 /\ (n + 1) - 1 = n
  <2>1. M \in Nat /\ N \in Nat /\ n \in Nat /\ M = N + n - 1 /\ Len(t.events) = M + 1
    BY <1>1, <1>2, <1>3, <1>8
  <2> QED
    BY <2>1
<1>12. ASSUME NEW m \in 1..(n - 1)
       PROVE  MadeBy(t, N + m, rows[m]) /\ NewTo(t, N + m) /\ t.events[N + m].seq = S.seq + 1
  <2> DEFINE i == N + m
  <2>1. i \in 1..M /\ i \in Nat
    BY <1>1, <1>2, <1>3
  <2>2. MadeBy(s, i, rows[m]) /\ NewTo(s, i) /\ s.events[i].seq = S.seq + 1
    BY <1>4
  <2>3. \A j \in 1..i : j \in 1..M
    BY <1>2, <2>1
  <2>4. \A j \in 1..i : t.events[j] = s.events[j]
    BY <1>8, <2>3
  <2> HIDE DEF i
  <2>5. MadeBy(t, i, rows[m])
    BY <1>2, <2>1, <2>2, <2>4, MadeStays DEF M
  <2>6. i \in 1..i /\ \A j \in 1..(i - 1) : j \in 1..i
    BY <2>1
  <2>7. NewTo(t, i) /\ t.events[i].seq = S.seq + 1
    BY <2>2, <2>4, <2>6 DEF NewTo
  <2> QED
    BY <2>5, <2>7 DEF i
<1>13. \A m \in 1..n : m \in 1..(n - 1) \/ m = n
  BY <1>2
<1>14. \A m \in 1..n : MadeBy(t, N + m, rows[m]) /\ NewTo(t, N + m) /\ t.events[N + m].seq = S.seq + 1
  <2>1. MadeBy(t, N + n, rows[n]) /\ NewTo(t, N + n) /\ t.events[N + n].seq = S.seq + 1
    BY <1>8, <1>9, <1>10, <1>11
  <2> HIDE DEF c
  <2> QED
    BY <1>12, <1>13, <2>1
<1> QED
  BY <1>7, <1>11, <1>14 DEF RowsSoFar, N

\* The document that is being prepared, after any step.
LEMMA DocumentStep ==
    ASSUME SafeInv, SourceInv, [Next]_vars, doc' # NoDoc
    PROVE  /\ S' = S
           /\ RowsSoFar(S, doc') /\ SeenBefore(doc'.request) = {} /\ doc'.request.cmd.rows # <<>>
<1>1. CASE UNCHANGED vars
  BY <1>1 DEF vars, SourceInv
<1>2. ASSUME NEW r \in requests, Execute(r) PROVE FALSE
  BY <1>2 DEF Execute, Unlocked
<1>3. ASSUME NEW r \in requests, Repeated(r) PROVE FALSE
  BY <1>3 DEF Repeated, Unlocked
<1>4. ASSUME NEW r \in requests, StartDocument(r)
      PROVE  /\ S' = S
             /\ RowsSoFar(S, doc') /\ SeenBefore(doc'.request) = {} /\ doc'.request.cmd.rows # <<>>
  <2>1. doc' = [request |-> r, row |-> 1, staged |-> S] /\ S' = S /\ SeenBefore(r) = {} /\ r.cmd.rows # <<>>
    BY <1>4 DEF StartDocument
  <2>2. Len(S.events) \in Nat
    BY StateParts DEF SafeInv, Good
  <2> QED
    BY <2>1, <2>2 DEF RowsSoFar
<1>5. ASSUME PrepareRow
      PROVE  /\ S' = S
             /\ RowsSoFar(S, doc') /\ SeenBefore(doc'.request) = {} /\ doc'.request.cmd.rows # <<>>
  <2>1. /\ doc # NoDoc /\ doc.row <= Len(doc.request.cmd.rows) /\ S' = S /\ AcceptsRow(doc)
        /\ doc' = [doc EXCEPT !.row = doc.row + 1,
                              !.staged = WithMove(doc.staged, doc.request.cmd.rows[doc.row], S.seq + 1)]
    BY <1>5 DEF PrepareRow, Unlocked
  <2>2. doc \in [request : requests, row : Nat \ {0}, staged : StateType]
    BY <2>1, RowParts DEF Staged
  <2> DEFINE t == WithMove(doc.staged, doc.request.cmd.rows[doc.row], S.seq + 1)
  <2>3. doc'.request = doc.request /\ doc'.row = doc.row + 1 /\ doc'.staged = t
    BY <2>1, <2>2
  <2>4. RowsSoFar(S, doc)
    BY <2>1 DEF SourceInv
  <2> HIDE DEF t
  <2>5. RowsSoFar(S, doc')
    BY <2>1, <2>3, <2>4, RowsNext DEF t
  <2> QED
    BY <2>1, <2>3, <2>5 DEF SourceInv
<1>6. CASE CommitDocument \/ RefuseDocument \/ Restart
  BY <1>6 DEF CommitDocument, RefuseDocument, Restart
<1> QED
  BY <1>1, <1>2, <1>3, <1>4, <1>5, <1>6 DEF Next

LEMMA SourceStep == ASSUME SafeInv, SourceInv, [Next]_vars PROVE SourceInv'
<1>1. workload' = workload
  BY StepShape
<1>2. doc' # NoDoc => (RowsSoFar(S, doc) /\ SeenBefore(doc.request) = {} /\ doc.request.cmd.rows # <<>>)'
  <2>1. ASSUME doc' # NoDoc
        PROVE  (RowsSoFar(S, doc) /\ SeenBefore(doc.request) = {} /\ doc.request.cmd.rows # <<>>)'
    <3>1. S' = S /\ RowsSoFar(S, doc') /\ SeenBefore(doc'.request) = {} /\ doc'.request.cmd.rows # <<>>
      BY <2>1, DocumentStep
    <3> QED
      BY <3>1 DEF SeenBefore
  <2> QED
    BY <2>1
<1>3. \A s : Sourced(s) => Sourced(s)'
  BY <1>1 DEF Sourced, requests
<1>4. CASE Unwritten
  BY <1>1, <1>2, <1>4 DEF Unwritten, SourceInv, Sourced, requests
<1>5. CASE Restart
  BY <1>1, <1>2, <1>5 DEF Restart, SourceInv, Sourced, requests
<1>6. ASSUME NEW r \in requests, NEW t, Written(r, t) PROVE SourceInv'
  <2>1. Sourced(t)
    BY <1>6, ReachedSourced DEF Written
  <2> QED
    BY <1>1, <1>2, <1>6, <2>1 DEF Written, SourceInv, Sourced, requests
<1> QED
  BY <1>4, <1>5, <1>6, StepShape

\* Every movement in a history comes from a request, and is the one the rules make of it.
THEOREM StaysSourced == Spec => []SourceInv
<1>1. Init => SourceInv
  BY DEF Init, SourceInv, Sourced
<1>2. SafeInv /\ SourceInv /\ [Next]_vars => SourceInv'
  BY SourceStep
<1> QED
  BY <1>1, <1>2, StaysSafe, PTL DEF Spec

\* A movement with an identifier of the request r is what r made of the state.
LEMMA OneSource ==
    ASSUME workload \in Workloads, NEW s, Sourced(s), NEW i \in 1..Len(s.events),
           NEW r \in requests, s.events[i].id \in Ids(r.cmd)
    PROVE  Alone(s, i, r) \/ \E n \in Nat : InDocument(s, i, r, n)
<1>1. PICK q \in requests : Alone(s, i, q) \/ \E n \in Nat : InDocument(s, i, q, n)
  BY DEF Sourced
<1>2. s.events[i].id \in Ids(q.cmd)
  <2>1. CASE Alone(s, i, q)
    BY <2>1 DEF Alone, MadeBy, Ids, MoveCommand, Movement
  <2>2. CASE \E n \in Nat : InDocument(s, i, q, n)
    BY <2>2 DEF InDocument, MadeBy, Ids
  <2> QED
    BY <1>1, <2>1, <2>2
<1>3. q = r
  BY <1>2, IdsAssumption DEF requests
<1> QED
  BY <1>1, <1>3

\* It is even the row of a document that has the identifier.
LEMMA OneRow ==
    ASSUME workload \in Workloads, NEW s \in StateType, Sourced(s), NEW i \in 1..Len(s.events),
           NEW r \in requests, r.cmd.type = "batch", NEW n \in 1..Len(r.cmd.rows),
           s.events[i].id = r.cmd.rows[n].id
    PROVE  InDocument(s, i, r, n)
<1>1. r.cmd.rows \in Seq(Movement) /\ Len(r.cmd.rows) \in Nat /\ Len(s.events) \in Nat
  BY RequestParts, CommandKinds, LenProperties, StateParts DEF requests
<1>2. \A j \in 1..Len(s.events) : s.events[j].id = r.cmd.rows[n].id => \E m \in Nat : InDocument(s, j, r, m)
  <2>1. r.cmd.rows[n].id \in Ids(r.cmd) /\ \A j : ~Alone(s, j, r)
    BY DEF Ids, Alone, MoveCommand, Movement
  <2> QED
    BY <2>1, OneSource
<1>3. PICK m \in Nat : InDocument(s, i, r, m)
  BY <1>2
<1> DEFINE j == i - m + n
<1>4. m \in 1..Len(r.cmd.rows) /\ m <= i /\ RowsAt(s, r.cmd, i - m + 1) /\ NewTo(s, i)
  BY <1>3 DEF InDocument
<1>5. j \in 1..Len(s.events) /\ s.events[j].id = r.cmd.rows[n].id
  <2> DEFINE L == Len(r.cmd.rows)
             N == Len(s.events)
             b == i - m + 1
  <2>1. L \in Nat /\ N \in Nat /\ n \in 1..L /\ m \in 1..L /\ i \in 1..N /\ m <= i
    BY <1>1, <1>4
  <2>2. b + L - 1 <= N /\ s.events[b + n - 1].id = r.cmd.rows[n].id
    BY <1>4 DEF RowsAt
  <2> HIDE DEF L, N
  <2>3. b \in Int /\ b + n - 1 = j /\ j \in Int /\ j >= 1 /\ j <= b + L - 1
    BY <2>1
  <2>4. j \in 1..N
    <3> HIDE DEF b, j
    <3> QED
      BY <2>1, <2>2, <2>3
  <2> QED
    BY <2>2, <2>3, <2>4 DEF N
<1>6. NewTo(s, j)
  BY <1>2, <1>5 DEF InDocument
<1>7. i \in Nat /\ j \in Nat /\ i > 0 /\ j > 0
  BY <1>1, <1>5
<1> HIDE DEF j
<1>8. ~(j < i) /\ ~(i < j)
  <2>1. j < i => j \in 1..(i - 1)
    BY <1>7
  <2>2. i < j => i \in 1..(j - 1)
    BY <1>7
  <2> QED
    BY <1>4, <1>5, <1>6, <2>1, <2>2 DEF NewTo
<1>9. m = n
  BY <1>1, <1>4, <1>7, <1>8 DEF j
<1> QED
  BY <1>3, <1>9

\* A document is in the history whole, row after row under one number, or not
\* at all, whichever row is refused and wherever the process ends.
THEOREM DocumentsHold == Spec => []DocumentsWhole
<1>1. ASSUME SafeInv, SourceInv PROVE DocumentsWhole
  <2>1. workload \in Workloads /\ S \in StateType /\ Sourced(S)
    BY <1>1 DEF SafeInv, SourceInv, Good
  <2>2. ASSUME NEW r \in requests, r.cmd.type = "batch", NEW n \in 1..Len(r.cmd.rows),
               NEW i \in Positions(S, r.cmd.rows[n].id)
        PROVE  i >= n /\ RowsAt(S, r.cmd, i - n + 1)
    <3>1. i \in 1..Len(S.events) /\ S.events[i].id = r.cmd.rows[n].id
      BY DEF Positions
    <3>2. InDocument(S, i, r, n)
      BY <2>1, <2>2, <3>1, OneRow
    <3> QED
      BY <3>2 DEF InDocument
  <2> QED
    BY <2>2 DEF DocumentsWhole
<1> QED
  BY <1>1, StaysSafe, StaysSourced, PTL

\* A count sets the stock only if no movement touched it between the moment
\* the counter saw it and the count, whatever order requests arrive in.
THEOREM CountsHold == Spec => []CountsAreCurrent
<1>1. ASSUME SafeInv, SourceInv PROVE CountsAreCurrent
  <2>1. workload \in Workloads /\ S \in StateType /\ Sourced(S)
    BY <1>1 DEF SafeInv, SourceInv, Good
  <2>2. ASSUME NEW c \in Counts, NEW i \in Positions(S, c.id) PROVE c.type = "count" /\ MadeBy(S, i, c)
    <3>1. i \in 1..Len(S.events) /\ S.events[i].id = c.id
      BY DEF Positions
    <3>2. ASSUME NEW r \in requests, r.cmd.type = "count", c = r.cmd PROVE MadeBy(S, i, c)
      <4>1. S.events[i].id \in Ids(r.cmd) /\ \A n : ~InDocument(S, i, r, n)
        BY <3>1, <3>2 DEF Ids, InDocument
      <4> QED
        BY <2>1, <3>1, <3>2, <4>1, OneSource DEF Alone
    <3>3. ASSUME NEW r \in requests, r.cmd.type = "batch", NEW n \in 1..Len(r.cmd.rows), c = r.cmd.rows[n]
          PROVE  MadeBy(S, i, c)
      BY <2>1, <3>1, <3>3, OneRow DEF InDocument
    <3> QED
      BY <3>2, <3>3 DEF Counts
  <2> QED
    BY <2>2 DEF CountsAreCurrent, MadeBy
<1> QED
  BY <1>1, StaysSafe, StaysSourced, PTL

-----------------------------------------------------------------------------
(* The next main device accepts the warehouse *)

\* Where requests are single receipts, issues or transfers, which nothing else
\* keeps from being carried out twice, the journal remembers all of them.
RetriesKnown ==
    \A w \in Workloads :
        \/ IsFiniteSet(w.requests) /\ Cardinality(w.requests) <= w.remembered
        \/ \A r \in w.requests : r.cmd.type \notin {"in", "out", "transfer"}

RemembersAll == IsFiniteSet(requests) /\ Cardinality(requests) <= SeenLimit

\* Entries come from requests, and no request has two.
EntriesFit(seen) ==
    /\ \A e \in seen : e.id = e.intent.id /\ [user |-> e.user, cmd |-> e.intent] \in requests
    /\ \A e, f \in seen : e.user = f.user /\ e.intent = f.intent => e = f

\* A request that made a movement is remembered.
Remembers(s) ==
    /\ EntriesFit(s.seen)
    /\ \A i \in 1..Len(s.events), r \in requests :
          s.events[i].id \in Ids(r.cmd) => \E e \in s.seen : e.user = r.user /\ e.id = r.cmd.id

UniqueIds(s) == \A i \in 1..Len(s.events) : NewTo(s, i)

HandoverInv ==
    /\ UniqueIds(S)
    /\ doubt # NoState => UniqueIds(doubt)
    /\ RemembersAll => Remembers(S) /\ (doubt # NoState => Remembers(doubt))

LEMMA EntriesCounted ==
    ASSUME NEW seen, IsFiniteSet(seen), EntriesFit(seen), IsFiniteSet(requests)
    PROVE  Cardinality(seen) <= Cardinality(requests)
<1> DEFINE f == [e \in seen |-> [user |-> e.user, cmd |-> e.intent]]
<1>1. f \in [seen -> requests]
  BY DEF EntriesFit
<1>2. \A x, y \in seen : f[x] = f[y] => x = y
  <2>1. ASSUME NEW x \in seen, NEW y \in seen, f[x] = f[y] PROVE x.user = y.user /\ x.intent = y.intent
    BY <2>1
  <2> QED
    BY <2>1 DEF EntriesFit
<1>3. Cardinality(seen) \in Nat /\ Cardinality(requests) \in Nat
  BY FS_CardinalityType
<1> HIDE DEF f
<1>4. ~(Cardinality(requests) < Cardinality(seen))
  BY <1>1, <1>2, FS_PigeonHole
<1> QED
  BY <1>3, <1>4

LEMMA NothingPruned ==
    ASSUME NEW seen, IsFiniteSet(seen), SeenLimit \in Nat, Cardinality(seen) <= SeenLimit,
           \A e \in seen : e.seq \in Nat
    PROVE  Pruned(seen) = seen
<1>1. ASSUME NEW e \in seen PROVE Cardinality({f \in seen : f.seq > e.seq}) < SeenLimit
  <2> DEFINE later == {f \in seen : f.seq > e.seq}
  <2>1. later \subseteq seen \ {e}
    OBVIOUS
  <2>2. IsFiniteSet(seen \ {e}) /\ Cardinality(seen \ {e}) = Cardinality(seen) - 1
    BY FS_RemoveElement
  <2>3. Cardinality(later) <= Cardinality(seen \ {e}) /\ IsFiniteSet(later)
    BY <2>1, <2>2, FS_Subset
  <2>4. Cardinality(later) \in Nat /\ Cardinality(seen) \in Nat
    BY <2>3, FS_CardinalityType
  <2> HIDE DEF later
  <2>5. Cardinality(later) < SeenLimit
    BY <2>2, <2>3, <2>4
  <2> QED
    BY <2>5 DEF later
<1> QED
  BY <1>1 DEF Pruned

\* What a request leaves in the journal, and which movements it adds.
LEMMA ReachedShape ==
    ASSUME SafeInv, SourceInv, NEW r \in requests, NEW t, Reached(r, t)
    PROVE  /\ t.seen = Pruned(S.seen \cup {[user |-> r.user, id |-> r.cmd.id,
                                            intent |-> r.cmd, seq |-> S.seq + 1]})
           /\ \A i \in 1..Len(t.events) : i > Len(S.events) => t.events[i].id \in Ids(r.cmd)
<1> DEFINE N == Len(S.events)
<1>1. workload \in Workloads /\ S \in StateType /\ Good(S, SeenLimit) /\ N \in Nat
  BY StateParts DEF SafeInv, Good
<1>2. CASE r.cmd.type # "batch" /\ Accepts(S, r.cmd) /\ t = Numbered(With(S, r.cmd), r)
  <2>1. PICK s : s = With(S, r.cmd)
    OBVIOUS
  <2>2. r.cmd \in Command
    BY <1>1, RequestParts DEF requests
  <2>3. s \in StateType
    BY <1>1, <1>2, <2>1, <2>2, WithGood DEF Good
  <2>4. /\ s.seen = S.seen /\ s.seq = S.seq
        /\ \/ Len(s.events) = N
           \/ Len(s.events) = N + 1 /\ MadeBy(s, N + 1, r.cmd)
    BY <1>1, <1>2, <2>1, <2>2, SingleAdds
  <2>5. /\ t.events = s.events
        /\ t.seen = Pruned(s.seen \cup {[user |-> r.user, id |-> r.cmd.id, intent |-> r.cmd, seq |-> s.seq + 1]})
    BY <1>2, <2>1, <2>3, NumberedParts
  <2>6. ASSUME NEW i \in 1..Len(t.events), i > N PROVE t.events[i].id \in Ids(r.cmd)
    <3>1. Len(s.events) = N + 1 /\ i = N + 1
      BY <1>1, <2>4, <2>5, <2>6
    <3>2. MadeBy(s, N + 1, r.cmd)
      BY <1>1, <2>4, <3>1
    <3> QED
      BY <1>2, <2>5, <3>1, <3>2 DEF MadeBy, Ids
  <2> QED
    BY <2>4, <2>5, <2>6
<1>3. CASE doc # NoDoc /\ doc.request = r /\ doc.row = Len(r.cmd.rows) + 1 /\ t = Numbered(doc.staged, r)
  <2>1. PICK s, c : s = doc.staged /\ c = r.cmd
    OBVIOUS
  <2>2. RowsAdded(s, c, N) /\ s \in StateType /\ s.seen = S.seen /\ s.seq = S.seq
    BY <1>3, <2>1, DocumentRows DEF RowsAdded
  <2>3. /\ t.events = s.events
        /\ t.seen = Pruned(s.seen \cup {[user |-> r.user, id |-> r.cmd.id, intent |-> r.cmd, seq |-> s.seq + 1]})
    BY <1>3, <2>1, <2>2, NumberedParts
  <2>4. ASSUME NEW i \in 1..Len(t.events), i > N PROVE t.events[i].id \in Ids(c)
    <3>1. PICK m \in 1..Len(c.rows) : i = N + m
      BY <2>2, <2>3, <2>4 DEF RowsAdded
    <3>2. MadeBy(s, i, c.rows[m]) /\ c.type = "batch"
      BY <2>2, <3>1 DEF RowsAdded
    <3> QED
      BY <2>3, <3>2 DEF MadeBy, Ids
  <2> QED
    BY <2>1, <2>2, <2>3, <2>4
<1> QED
  BY <1>2, <1>3 DEF Reached

LEMMA ReachedRemembers ==
    ASSUME SafeInv, SourceInv, RemembersAll, Remembers(S), NEW r \in requests, NEW t, Reached(r, t)
    PROVE  Remembers(t) /\ S.seen \subseteq t.seen
<1> DEFINE new == [user |-> r.user, id |-> r.cmd.id, intent |-> r.cmd, seq |-> S.seq + 1]
           seen == S.seen \cup {new}
<1>1. /\ workload \in Workloads /\ S \in StateType /\ S.seq \in Nat /\ IsFiniteSet(S.seen)
      /\ S.seen \in SUBSET Entry /\ SeenLimit \in Nat
  BY StateParts, WarehouseAssumption DEF SafeInv, Good, Recent, StateType, Entry, SeenLimit
<1>2. t.seen = Pruned(seen)
  BY ReachedShape
<1>3. new.user = r.user /\ new.id = r.cmd.id /\ new.intent = r.cmd /\ new.seq = S.seq + 1
  OBVIOUS
<1>4. [user |-> r.user, cmd |-> r.cmd] \in requests
  BY <1>1, RequestParts DEF requests
<1>5. \A e \in S.seen : ~(e.user = r.user /\ e.id = r.cmd.id)
  BY DEF Reached, SeenBefore
<1> HIDE DEF new
<1>6. EntriesFit(seen)
  <2>1. \A e \in seen : e.id = e.intent.id /\ [user |-> e.user, cmd |-> e.intent] \in requests
    BY <1>3, <1>4 DEF Remembers, EntriesFit
  <2>2. \A e \in S.seen : ~(e.user = new.user /\ e.intent = new.intent)
    BY <1>3, <1>5 DEF Remembers, EntriesFit
  <2>3. \A e, f \in seen : e.user = f.user /\ e.intent = f.intent => e = f
    BY <2>2 DEF Remembers, EntriesFit
  <2> QED
    BY <2>1, <2>3 DEF EntriesFit
<1>7. IsFiniteSet(seen)
  BY <1>1, FS_AddElement
<1>8. \A e \in seen : e.seq \in Nat
  BY <1>1, <1>3 DEF Entry
<1>9. Cardinality(seen) <= SeenLimit
  <2>1. Cardinality(seen) <= Cardinality(requests) /\ Cardinality(requests) <= SeenLimit
    BY <1>6, <1>7, EntriesCounted DEF RemembersAll
  <2>2. Cardinality(seen) \in Nat /\ Cardinality(requests) \in Nat
    BY <1>7, FS_CardinalityType DEF RemembersAll
  <2> HIDE DEF seen
  <2> QED
    BY <1>1, <2>1, <2>2
<1>10. t.seen = seen
  BY <1>1, <1>2, <1>7, <1>8, <1>9, NothingPruned
<1>11. ASSUME NEW i \in 1..Len(t.events), NEW q \in requests, t.events[i].id \in Ids(q.cmd)
       PROVE  \E e \in seen : e.user = q.user /\ e.id = q.cmd.id
  <2>1. Len(S.events) \in Nat /\ Len(t.events) \in Nat /\ Extends(S, t)
    BY <1>1, ReachedGood, StateParts DEF Good
  <2>2. CASE i <= Len(S.events)
    <3>1. i \in 1..Len(S.events) /\ t.events[i] = S.events[i]
      BY <2>1, <2>2 DEF Extends
    <3> QED
      BY <1>11, <3>1 DEF Remembers
  <2>3. CASE i > Len(S.events)
    <3>1. t.events[i].id \in Ids(r.cmd)
      BY <2>3, ReachedShape
    <3>2. q = r
      BY <1>1, <1>11, <3>1, IdsAssumption DEF requests
    <3> QED
      BY <1>3, <3>2
  <2> QED
    BY <2>1, <2>2, <2>3
<1> QED
  BY <1>6, <1>10, <1>11 DEF Remembers

\* A single movement is accepted only once.
LEMMA MovedOnce ==
    ASSUME SafeInv, SourceInv, HandoverInv, RetriesKnown, NEW r \in requests, r.cmd \in MoveCommand,
           AcceptsMove(S, r.cmd), SeenBefore(r) = {}
    PROVE  \A j \in 1..Len(S.events) : S.events[j].id # r.cmd.id
<1> DEFINE c == r.cmd
           N == Len(S.events)
<1> SUFFICES ASSUME NEW j \in 1..N, S.events[j].id = c.id PROVE FALSE
  OBVIOUS
<1>1. workload \in Workloads /\ S \in StateType /\ N \in Nat /\ Good(S, SeenLimit)
  BY StateParts DEF SafeInv, Good
<1>2. c.type \in {"in", "out", "transfer", "count", "reverse"}
  BY DEF MoveCommand, Movement
<1>3. S.events[j].id \in Ids(c) /\ \A n : ~InDocument(S, j, r, n)
  BY <1>2 DEF Ids, InDocument
<1>4. MadeBy(S, j, c)
  BY <1>1, <1>3, OneSource DEF SourceInv, Alone
<1>5. CASE c.type = "reverse"
  BY <1>4, <1>5 DEF MadeBy, AcceptsMove, AcceptsReverse, ReversedIn
<1>6. CASE c.type = "count"
  <2> DEFINE k == <<c.item, c.to>>
             A == {n \in 1..(j - 1) : Touches(S.events[n], k)}
             B == {n \in 1..N : Touches(S.events[n], k)}
  <2>1. Touches(S.events[j], k) /\ Cardinality(A) = c.expected
    BY <1>4, <1>6 DEF MadeBy
  <2>2. k \in Stock
    BY <1>6 DEF MoveCommand, Movement, Stock
  <2>3. c.expected = Cardinality(B)
    BY <1>1, <1>6, <2>2 DEF AcceptsMove, AcceptsKind, SeesCurrent, Good, StockHolds
  <2>4. A \subseteq B /\ j \in B /\ j \notin A
    BY <1>1, <2>1
  <2>5. IsFiniteSet(B)
    BY <1>1, UpToFinite, FS_Subset
  <2> HIDE DEF A, B
  <2> QED
    BY <2>1, <2>3, <2>4, <2>5, FS_Subset
<1>7. CASE c.type \in {"in", "out", "transfer"}
  <2>1. RemembersAll
    BY <1>1, <1>7 DEF RetriesKnown, RemembersAll, requests, SeenLimit
  <2>2. Remembers(S)
    BY <2>1 DEF HandoverInv
  <2>3. \E e \in S.seen : e.user = r.user /\ e.id = r.cmd.id
    BY <1>3, <2>2 DEF Remembers
  <2> QED
    BY <2>3 DEF SeenBefore
<1> QED
  BY <1>2, <1>5, <1>6, <1>7

LEMMA ReachedUnique ==
    ASSUME SafeInv, SourceInv, HandoverInv, RetriesKnown, NEW r \in requests, NEW t, Reached(r, t)
    PROVE  UniqueIds(t)
<1> DEFINE N == Len(S.events)
<1>1. workload \in Workloads /\ S \in StateType /\ Good(S, SeenLimit) /\ N \in Nat /\ t \in StateType
  BY StateParts, ReachedGood DEF SafeInv, Good
<1>2. Extends(S, t) /\ Len(t.events) \in Nat
  BY <1>1, ReachedGood, StateParts
<1>3. ASSUME NEW i \in 1..Len(t.events), i <= N PROVE NewTo(t, i)
  <2>1. i \in 1..N /\ \A j \in 1..i : t.events[j] = S.events[j]
    BY <1>1, <1>2, <1>3 DEF Extends
  <2>2. NewTo(S, i) /\ i \in Nat
    BY <1>1, <2>1 DEF HandoverInv, UniqueIds
  <2> QED
    BY <1>2, <2>1, <2>2 DEF NewTo
<1>4. ASSUME NEW i \in 1..Len(t.events), i > N PROVE NewTo(t, i)
  <2>1. CASE r.cmd.type # "batch" /\ Accepts(S, r.cmd) /\ t = Numbered(With(S, r.cmd), r)
    <3>1. PICK s : s = With(S, r.cmd)
      OBVIOUS
    <3>2. r.cmd \in Command
      BY <1>1, RequestParts DEF requests
    <3>3. s \in StateType
      BY <1>1, <2>1, <3>1, <3>2, WithGood DEF Good
    <3>4. /\ \A j \in 1..N : s.events[j] = S.events[j]
          /\ \/ Len(s.events) = N
             \/ Len(s.events) = N + 1 /\ r.cmd \in MoveCommand /\ AcceptsMove(S, r.cmd)
                  /\ MadeBy(s, N + 1, r.cmd)
      BY <1>1, <2>1, <3>1, <3>2, SingleAdds
    <3>5. t.events = s.events
      BY <2>1, <3>1, <3>3, NumberedParts
    <3>6. i = N + 1 /\ r.cmd \in MoveCommand /\ AcceptsMove(S, r.cmd) /\ MadeBy(s, N + 1, r.cmd)
      BY <1>1, <1>4, <3>4, <3>5
    <3>7. \A j \in 1..N : S.events[j].id # r.cmd.id
      BY <3>6, MovedOnce DEF Reached
    <3>8. t.events[i].id = r.cmd.id /\ i - 1 = N
      BY <1>1, <3>5, <3>6 DEF MadeBy
    <3> QED
      BY <3>4, <3>5, <3>7, <3>8 DEF NewTo
  <2>2. CASE doc # NoDoc /\ doc.request = r /\ doc.row = Len(r.cmd.rows) + 1 /\ t = Numbered(doc.staged, r)
    <3>1. PICK s, c : s = doc.staged /\ c = r.cmd
      OBVIOUS
    <3>2. RowsAdded(s, c, N) /\ s \in StateType
      BY <2>2, <3>1, DocumentRows DEF RowsAdded
    <3>3. t.events = s.events
      BY <2>2, <3>1, <3>2, NumberedParts
    <3>4. PICK m \in 1..Len(c.rows) : i = N + m
      BY <1>4, <3>2, <3>3 DEF RowsAdded
    <3>5. NewTo(s, i)
      BY <3>2, <3>4 DEF RowsAdded
    <3> QED
      BY <3>3, <3>5 DEF NewTo
  <2> QED
    BY <2>1, <2>2 DEF Reached
<1> QED
  BY <1>1, <1>2, <1>3, <1>4 DEF UniqueIds

LEMMA HandoverStep ==
    ASSUME SafeInv, SourceInv, HandoverInv, RetriesKnown, [Next]_vars
    PROVE  HandoverInv'
<1>1. workload' = workload
  BY StepShape
<1>2. RemembersAll' <=> RemembersAll
  BY <1>1 DEF RemembersAll, requests, SeenLimit
<1>3. CASE Unwritten
  BY <1>1, <1>2, <1>3 DEF Unwritten, HandoverInv, UniqueIds, Remembers, EntriesFit, NewTo, requests
<1>4. CASE Restart
  <2>1. CASE S' = S
    BY <1>1, <1>2, <1>4, <2>1 DEF Restart, HandoverInv, UniqueIds, Remembers, EntriesFit, NewTo, requests
  <2>2. CASE doubt # NoState /\ S' = doubt
    BY <1>1, <1>2, <1>4, <2>2 DEF Restart, HandoverInv, UniqueIds, Remembers, EntriesFit, NewTo, requests
  <2> QED
    BY <1>4, <2>1, <2>2 DEF Restart
<1>5. ASSUME NEW r \in requests, NEW t, Written(r, t) PROVE HandoverInv'
  <2>1. UniqueIds(t) /\ (RemembersAll => Remembers(t))
    BY <1>5, ReachedUnique, ReachedRemembers DEF Written, HandoverInv
  <2>2. CASE S' = t /\ doubt' = doubt
    BY <1>1, <1>2, <1>5, <2>1, <2>2 DEF Written, HandoverInv, UniqueIds, Remembers, EntriesFit, NewTo, requests
  <2>3. CASE S' = S /\ doubt' = t
    BY <1>1, <1>2, <2>1, <2>3 DEF HandoverInv, UniqueIds, Remembers, EntriesFit, NewTo, requests
  <2> QED
    BY <1>5, <2>2, <2>3 DEF Written
<1> QED
  BY <1>3, <1>4, <1>5, StepShape

\* While the journal remembers every receipt, issue and transfer a client may
\* still repeat, the next main device accepts the state this one would hand
\* over: each movement has an identifier of its own, history, stocks and SKUs
\* agree and nothing is out of bounds, whatever was done, retried and lost.
THEOREM HandoverAccepted == ASSUME RetriesKnown PROVE Spec => []TransferPossible
<1>1. Init => HandoverInv
  BY DEF Init, HandoverInv, UniqueIds, Remembers, EntriesFit
<1>2. SafeInv /\ SourceInv /\ HandoverInv /\ [Next]_vars => HandoverInv'
  BY HandoverStep
<1>3. ASSUME SafeInv, HandoverInv PROVE TransferPossible
  <2>1. Good(S, SeenLimit) /\ UniqueIds(S) /\ S \in StateType
    BY <1>3 DEF SafeInv, HandoverInv, Good
  <2>2. ASSUME NEW i \in 1..Len(S.events)
        PROVE  LET e == S.events[i] IN
               /\ \A j \in 1..(i - 1) : S.events[j].id # e.id
               /\ S.items[e.item].version > 0
               /\ Cardinality(DOMAIN e.changes) \in 1..2
               /\ \A p \in DOMAIN e.changes : S.places[p].version > 0 /\ e.changes[p] \in -MaxQty..MaxQty
               /\ \A p \in DOMAIN e.changes : Computed(S, <<e.item, p>>, i) \in 0..MaxQty
    <3> DEFINE e == S.events[i]
    <3>1. /\ e.item \in Items /\ DOMAIN e.changes \subseteq Places /\ i \in 0..Len(S.events)
          /\ \A p \in DOMAIN e.changes : e.changes[p] \in -MaxQty..MaxQty
      BY <2>1, StateParts
    <3>2. EventHolds(S, e) /\ NewTo(S, i)
      BY <2>1 DEF Good, UniqueIds
    <3>3. \A p \in DOMAIN e.changes : Computed(S, <<e.item, p>>, i) \in 0..MaxQty
      BY <2>1, <3>1 DEF Good, StockHolds, Stock
    <3> QED
      BY <3>1, <3>2, <3>3 DEF EventHolds, NewTo
  <2>3. ValidEvents(S)
    BY <2>2 DEF ValidEvents
  <2>4. ValidStocks(S)
    BY <2>1 DEF Good, StockHolds, ValidStocks
  <2> QED
    BY <2>1, <2>3, <2>4 DEF TransferPossible, ValidImportedState, Good, Recent
<1> QED
  BY <1>1, <1>2, <1>3, StaysSafe, StaysSourced, PTL DEF Spec

-----------------------------------------------------------------------------
(* What was answered is done *)

\* What a command other than an edit of cards leaves behind.
Shown(s, c) ==
    /\ c.type = "place" => s.places[c.place].version > c.version
    /\ c.type = "batch" => c.rows # <<>> /\ \E i \in 1..Len(s.events) : RowsAt(s, c, i)
    /\ c \in MoveCommand => Positions(s, c.id) # {}

\* The requests D were carried out: every edit gave its card a version.
Kept(s, D) ==
    /\ \A x \in Items : Cardinality({r \in D : Edits(r.cmd, x)}) <= s.items[x].version
    /\ \A r \in D : Shown(s, r.cmd)

SeenRequests(s) == {r \in requests : \E e \in s.seen : e.user = r.user /\ e.intent = r.cmd}

\* Among them are all of A.
Holds(s, D, A) == D \subseteq requests /\ IsFiniteSet(D) /\ A \subseteq D /\ Kept(s, D)

\* What a client was told, or may be told because the journal knows it, was
\* carried out in the state and in the one a restart may bring up.
DoneInv ==
    /\ \E D : Holds(S, D, answered \cup SeenRequests(S))
    /\ doubt # NoState => \E D : Holds(doubt, D, answered \cup SeenRequests(S) \cup SeenRequests(doubt))

LEMMA ShownStays ==
    ASSUME NEW s \in StateType, NEW t \in StateType, Extends(s, t), NEW c \in Command, Shown(s, c)
    PROVE  Shown(t, c)
<1>1. /\ Len(s.events) \in Nat /\ Len(t.events) \in Nat /\ Len(s.events) <= Len(t.events)
      /\ \A i \in 1..Len(s.events) : t.events[i] = s.events[i] /\ i \in 1..Len(t.events)
  BY StateParts DEF Extends
<1>2. ASSUME c.type = "place" PROVE t.places[c.place].version > c.version
  <2>1. c.place \in Places /\ c.version \in Nat
    BY <1>2, CommandKinds DEF PlaceCommand
  <2>2. s.places[c.place].version \in Nat /\ t.places[c.place].version \in Nat
    BY <2>1, StateParts
  <2>3. s.places[c.place].version > c.version /\ t.places[c.place].version >= s.places[c.place].version
    BY <1>2, <2>1 DEF Shown, Extends
  <2> QED
    BY <2>1, <2>2, <2>3
<1>3. ASSUME c.type = "batch" PROVE c.rows # <<>> /\ \E i \in 1..Len(t.events) : RowsAt(t, c, i)
  <2>1. c.rows \in Seq(Movement) /\ c.rows # <<>>
    BY <1>3, CommandKinds DEF Shown
  <2>2. Len(c.rows) \in Nat /\ Len(c.rows) > 0
    BY <2>1, EmptySeq
  <2>3. PICK i \in 1..Len(s.events) : RowsAt(s, c, i)
    BY <1>3 DEF Shown
  <2>4. i \in Nat \ {0}
    BY <1>1
  <2>5. RowsAt(t, c, i)
    BY <1>1, <2>2, <2>3, <2>4, RowsStay
  <2> QED
    BY <1>1, <2>1, <2>5
<1>4. ASSUME c \in MoveCommand PROVE Positions(t, c.id) # {}
  BY <1>1, <1>4 DEF Shown, Positions
<1> QED
  BY <1>2, <1>3, <1>4 DEF Shown

\* How many versions a prepared command gives to a card.
LEMMA VersionGrows ==
    ASSUME NEW s, NEW limit, Good(s, limit), NEW c \in Command, c.type # "batch", Accepts(s, c),
           NEW t, t = With(s, c), NEW x \in Items
    PROVE  /\ ~Edits(c, x) => t.items[x].version = s.items[x].version
           /\ Edits(c, x) => t.items[x].version = s.items[x].version + 1
<1>1. s \in StateType
  BY DEF Good
<1>2. CASE c.type = "item"
  <2>1. c \in ItemCommand
    BY <1>2, CommandKinds
  <2>2. t = WithItem(s, c) /\ (Edits(c, x) <=> c.item = x)
    BY <1>2 DEF With, Edits
  <2> QED
    BY <1>1, <2>1, <2>2 DEF WithItem, ItemCommand, StateType
<1>3. CASE c.type = "catalog-import"
  <2>1. t = WithImport(s, c) /\ (Edits(c, x) <=> \E i \in 1..Len(c.cards) : c.cards[i].item = x)
    BY <1>3 DEF With, Edits
  <2>2. Edits(c, x) => s.items[x].version = 0
    BY <1>3, <2>1 DEF Accepts, AcceptsImport
  <2>3. /\ Edits(c, x) => t.items[x].version = 1
        /\ ~Edits(c, x) => t.items[x] = s.items[x]
    BY <1>1, <2>1 DEF WithImport, StateType
  <2> QED
    BY <2>2, <2>3
<1>4. CASE c.type \notin {"item", "catalog-import"}
  <2>1. ~Edits(c, x)
    BY <1>4 DEF Edits
  <2>2. t.items = s.items
    BY <1>1, <1>4 DEF With, WithPlace, WithMove, StateType
  <2> QED
    BY <2>1, <2>2
<1> QED
  BY <1>2, <1>3, <1>4

\* A request that is carried out is one more that is kept.
LEMMA ReachedKept ==
    ASSUME SafeInv, SourceInv, NEW D, D \subseteq requests, IsFiniteSet(D), Kept(S, D),
           NEW r \in requests, NEW t, Reached(r, t)
    PROVE  Kept(t, D \cup {r})
<1> DEFINE E == D \cup {r}
           c == r.cmd
<1>1. /\ workload \in Workloads /\ S \in StateType /\ t \in StateType /\ Good(S, SeenLimit)
      /\ Extends(S, t) /\ c \in Command
  BY ReachedGood, RequestParts DEF SafeInv, Good, requests
<1>2. ASSUME NEW q \in D PROVE Shown(t, q.cmd)
  <2>1. q.cmd \in Command
    BY <1>1, RequestParts DEF requests
  <2> QED
    BY <1>1, <2>1, ShownStays DEF Kept
<1>3. Shown(t, c) /\ \A x \in Items : /\ ~Edits(c, x) => t.items[x].version = S.items[x].version
                                      /\ Edits(c, x) => t.items[x].version = S.items[x].version + 1
  <2>1. CASE c.type # "batch" /\ Accepts(S, c) /\ t = Numbered(With(S, c), r)
    <3>1. PICK s : s = With(S, c)
      OBVIOUS
    <3>2. s \in StateType /\ Len(s.events) \in Nat /\ Len(S.events) \in Nat
      BY <1>1, <2>1, <3>1, WithGood, StateParts DEF Good
    <3>3. t.events = s.events /\ t.items = s.items /\ t.places = s.places
      BY <2>1, <3>1, <3>2, NumberedParts
    <3>4. \A x \in Items : /\ ~Edits(c, x) => t.items[x].version = S.items[x].version
                           /\ Edits(c, x) => t.items[x].version = S.items[x].version + 1
      BY <1>1, <2>1, <3>1, <3>3, VersionGrows
    <3>5. ASSUME c.type = "place" PROVE t.places[c.place].version > c.version
      <4>1. c.place \in Places /\ c.version \in Nat
        BY <1>1, <3>5, CommandKinds DEF PlaceCommand
      <4>2. s.places[c.place].version = c.version + 1
        BY <1>1, <3>1, <3>5, <4>1 DEF With, WithPlace, StateType
      <4> QED
        BY <3>3, <4>1, <4>2
    <3>6. ASSUME c \in MoveCommand PROVE Positions(t, c.id) # {}
      <4> DEFINE i == Len(S.events) + 1
      <4>1. Len(s.events) = i /\ MadeBy(s, i, c)
        BY <1>1, <2>1, <3>1, <3>6, SingleAdds
      <4>2. i \in 1..Len(t.events) /\ t.events[i].id = c.id
        BY <3>2, <3>3, <4>1 DEF MadeBy
      <4> QED
        BY <4>2 DEF Positions
    <3> QED
      BY <2>1, <3>4, <3>5, <3>6 DEF Shown
  <2>2. CASE doc # NoDoc /\ doc.request = r /\ doc.row = Len(c.rows) + 1 /\ t = Numbered(doc.staged, r)
    <3>1. PICK s, N : s = doc.staged /\ N = Len(S.events)
      OBVIOUS
    <3>2. /\ s \in StateType /\ s.items = S.items /\ c.type = "batch" /\ c.rows # <<>>
          /\ RowsAt(s, c, N + 1) /\ N + 1 \in 1..Len(s.events)
      BY <2>2, <3>1, DocumentRows DEF RowsAdded
    <3>3. t.events = s.events /\ t.items = s.items
      BY <2>2, <3>1, <3>2, NumberedParts
    <3>4. \A x \in Items : ~Edits(c, x)
      BY <3>2 DEF Edits
    <3>5. \E i \in 1..Len(t.events) : RowsAt(t, c, i)
      BY <3>2, <3>3 DEF RowsAt
    <3>6. c \notin MoveCommand
      BY <3>2 DEF MoveCommand, Movement
    <3> QED
      BY <3>2, <3>3, <3>4, <3>5, <3>6 DEF Shown
  <2> QED
    BY <2>1, <2>2 DEF Reached
<1>4. ASSUME NEW x \in Items PROVE Cardinality({q \in E : Edits(q.cmd, x)}) <= t.items[x].version
  <2> DEFINE A == {q \in D : Edits(q.cmd, x)}
  <2>1. IsFiniteSet(A) /\ Cardinality(A) <= S.items[x].version
    BY FS_Subset DEF Kept
  <2>2. /\ Edits(c, x) => {q \in E : Edits(q.cmd, x)} = A \cup {r}
        /\ ~Edits(c, x) => {q \in E : Edits(q.cmd, x)} = A
    OBVIOUS
  <2>3. Cardinality(A \cup {r}) <= Cardinality(A) + 1 /\ Cardinality(A \cup {r}) \in Nat /\ Cardinality(A) \in Nat
    <3>1. IsFiniteSet(A \cup {r}) /\ Cardinality(A \cup {r}) \in {Cardinality(A), Cardinality(A) + 1}
      BY <2>1, FS_AddElement
    <3>2. Cardinality(A \cup {r}) \in Nat /\ Cardinality(A) \in Nat
      BY <2>1, <3>1, FS_CardinalityType
    <3> HIDE DEF A
    <3> QED
      BY <3>1, <3>2
  <2>4. S.items[x].version \in Nat
    BY <1>1, StateParts
  <2>5. CASE Edits(c, x)
    <3>1. {q \in E : Edits(q.cmd, x)} = A \cup {r} /\ t.items[x].version = S.items[x].version + 1
      BY <1>3, <2>2, <2>5
    <3>2. ASSUME NEW a \in Nat, NEW b \in Nat, NEW v \in Nat, a <= v, b <= a + 1 PROVE b <= v + 1
      BY <3>2
    <3>3. Cardinality(A \cup {r}) <= S.items[x].version + 1
      BY <2>1, <2>3, <2>4, <3>2
    <3> QED
      BY <3>1, <3>3
  <2>6. CASE ~Edits(c, x)
    BY <1>3, <2>1, <2>2, <2>6
  <2> QED
    BY <2>5, <2>6
<1> QED
  BY <1>2, <1>3, <1>4 DEF Kept

LEMMA ReachedHolds ==
    ASSUME SafeInv, SourceInv, DoneInv, NEW r \in requests, NEW t, Reached(r, t)
    PROVE  \E D : Holds(t, D, answered \cup {r} \cup SeenRequests(S) \cup SeenRequests(t))
<1>1. PICK D : Holds(S, D, answered \cup SeenRequests(S))
  BY DEF DoneInv
<1>2. Kept(t, D \cup {r}) /\ IsFiniteSet(D \cup {r}) /\ D \cup {r} \subseteq requests
  BY <1>1, ReachedKept, FS_AddElement DEF Holds
<1>3. SeenRequests(t) \subseteq SeenRequests(S) \cup {r}
  <2> DEFINE e == [user |-> r.user, id |-> r.cmd.id, intent |-> r.cmd, seq |-> S.seq + 1]
  <2>1. t.seen \subseteq S.seen \cup {e}
    BY ReachedShape DEF Pruned
  <2>2. workload \in Workloads /\ e.user = r.user /\ e.intent = r.cmd
    BY DEF SafeInv
  <2> HIDE DEF e
  <2>3. ASSUME NEW q \in requests, e.user = q.user, e.intent = q.cmd PROVE q = r
    <3>1. q = [user |-> q.user, cmd |-> q.cmd] /\ r = [user |-> r.user, cmd |-> r.cmd]
      BY <2>2, RequestParts DEF requests
    <3> QED
      BY <2>2, <2>3, <3>1
  <2> QED
    BY <2>1, <2>3 DEF SeenRequests
<1> QED
  BY <1>1, <1>2, <1>3 DEF Holds

LEMMA DoneStep == ASSUME SafeInv, SourceInv, DoneInv, [Next]_vars PROVE DoneInv'
<1>1. workload' = workload
  BY StepShape
<1>2. CASE Unwritten
  <2>1. answered' \cup SeenRequests(S) = answered \cup SeenRequests(S)
    BY <1>2 DEF Unwritten, Known, SeenBefore, SeenRequests
  <2>2. S' = S /\ doubt' = doubt /\ \A s : (SeenRequests(s) = SeenRequests(s)')
    BY <1>1, <1>2 DEF Unwritten, SeenRequests, requests
  <2>3. \E D : Holds(S, D, answered' \cup SeenRequests(S))
    BY <2>1 DEF DoneInv
  <2>4. doubt # NoState => \E D : Holds(doubt, D, answered' \cup SeenRequests(S) \cup SeenRequests(doubt))
    BY <2>1 DEF DoneInv
  <2> QED
    BY <1>1, <2>2, <2>3, <2>4 DEF DoneInv, Holds, Kept, SeenRequests, requests
<1>3. CASE Restart
  <2>1. doubt' = NoState /\ answered' = answered
    BY <1>3 DEF Restart
  <2>2. \E D : Holds(S', D, answered \cup SeenRequests(S'))
    <3>1. CASE S' = S
      BY <3>1 DEF DoneInv
    <3>2. CASE doubt # NoState /\ S' = doubt
      BY <3>2 DEF DoneInv, Holds
    <3> QED
      BY <1>3, <3>1, <3>2 DEF Restart
  <2> QED
    BY <1>1, <2>1, <2>2 DEF DoneInv, Holds, Kept, SeenRequests, requests
<1>4. ASSUME NEW r \in requests, NEW t, Written(r, t) PROVE DoneInv'
  <2>1. PICK D : Holds(t, D, answered \cup {r} \cup SeenRequests(S) \cup SeenRequests(t))
    BY <1>4, ReachedHolds DEF Written
  <2>2. CASE S' = t /\ doubt' = doubt /\ answered' \in {answered, answered \cup {r}}
    <3>1. doubt' = NoState
      BY <1>4, <2>2 DEF Written
    <3>2. Holds(t, D, answered' \cup SeenRequests(t))
      BY <2>1, <2>2 DEF Holds
    <3> QED
      BY <1>1, <2>2, <3>1, <3>2 DEF DoneInv, Holds, Kept, SeenRequests, requests
  <2>3. CASE S' = S /\ doubt' = t /\ answered' = answered
    <3>1. Holds(t, D, answered \cup SeenRequests(S) \cup SeenRequests(t))
      BY <2>1 DEF Holds
    <3>2. \E C : Holds(S, C, answered \cup SeenRequests(S))
      BY DEF DoneInv
    <3> QED
      BY <1>1, <2>3, <3>1, <3>2 DEF DoneInv, Holds, Kept, SeenRequests, requests
  <2> QED
    BY <1>4, <2>2, <2>3 DEF Written
<1> QED
  BY <1>2, <1>3, <1>4, StepShape

LEMMA InitDone == ASSUME Init PROVE DoneInv
<1>1. SafeInv
  BY InitSafe
<1>2. S \in StateType /\ \A x \in Items : S.items[x].version \in Nat
  BY <1>1, StateParts DEF SafeInv, Good
<1>3. answered = {} /\ S.seen = {} /\ doubt = NoState
  BY DEF Init
<1>4. SeenRequests(S) = {}
  BY <1>3 DEF SeenRequests
<1>5. \A x : {r \in {} : Edits(r.cmd, x)} = {}
  OBVIOUS
<1>6. Holds(S, {}, {})
  BY <1>2, <1>5, FS_EmptySet DEF Holds, Kept
<1> QED
  BY <1>3, <1>4, <1>6 DEF DoneInv

\* What a client was told is done is in the state, through failed writes,
\* repeated requests, forgotten ones and restarts.
THEOREM AnswersHold == Spec => []AnsweredIsDone
<1>1. Init => DoneInv
  BY InitDone
<1>2. SafeInv /\ SourceInv /\ DoneInv /\ [Next]_vars => DoneInv'
  BY DoneStep
<1>3. ASSUME SafeInv, DoneInv PROVE AnsweredIsDone
  <2>1. PICK D : Holds(S, D, answered \cup SeenRequests(S))
    BY <1>3 DEF DoneInv
  <2>2. /\ workload \in Workloads /\ S \in StateType /\ answered \subseteq D /\ answered \subseteq requests
        /\ IsFiniteSet(D) /\ Kept(S, D)
    BY <1>3, <2>1 DEF SafeInv, Good, Holds
  <2>3. ASSUME NEW x \in Items PROVE Edited(S, x)
    <3> DEFINE A == {r \in answered : Edits(r.cmd, x)}
               B == {r \in D : Edits(r.cmd, x)}
    <3>1. A \subseteq B /\ IsFiniteSet(B)
      BY <2>2, FS_Subset
    <3>2. Cardinality(A) <= Cardinality(B) /\ IsFiniteSet(A)
      BY <3>1, FS_Subset
    <3>3. Cardinality(B) <= S.items[x].version
      BY <2>2 DEF Kept
    <3>4. Cardinality(A) \in Nat /\ Cardinality(B) \in Nat /\ S.items[x].version \in Nat
      BY <2>2, <3>1, <3>2, FS_CardinalityType, StateParts
    <3> HIDE DEF A, B
    <3>5. S.items[x].version >= Cardinality(A)
      BY <3>2, <3>3, <3>4
    <3> QED
      BY <3>5 DEF A, Edited
  <2>4. ASSUME NEW r \in answered PROVE Done(S, r.cmd)
    <3>1. PICK c \in Command : c = r.cmd /\ Shown(S, c)
      BY <2>2, RequestParts DEF requests, Kept
    <3>2. CASE c.type = "item"
      <4>1. c.item \in Items
        BY <3>1, <3>2, CommandKinds DEF ItemCommand
      <4> QED
        BY <2>3, <3>1, <3>2, <4>1 DEF Done
    <3>3. CASE c.type = "catalog-import"
      <4>1. \A i \in 1..Len(c.cards) : c.cards[i].item \in Items
        <5>1. c.cards \in Seq(Card)
          BY <3>1, <3>3, CommandKinds DEF ImportCommand
        <5>2. \A i \in 1..Len(c.cards) : c.cards[i] \in Card
          BY <5>1, ElementOfSeq
        <5> QED
          BY <5>2 DEF Card
      <4> QED
        BY <2>3, <3>1, <3>3, <4>1 DEF Done
    <3>4. CASE c.type = "place"
      BY <3>1, <3>4 DEF Done, Shown
    <3>5. CASE c.type = "batch"
      BY <3>1, <3>5 DEF Done, Shown
    <3>6. CASE c.type \notin {"item", "catalog-import", "place", "batch"}
      <4>1. Positions(S, c.id) # {}
        BY <3>1, <3>6, CommandKinds DEF Shown
      <4> QED
        BY <3>1, <3>6, <4>1 DEF Done
    <3> QED
      BY <3>2, <3>3, <3>4, <3>5, <3>6
  <2> QED
    BY <2>4 DEF AnsweredIsDone
<1> QED
  BY <1>1, <1>2, <1>3, StaysSafe, StaysSourced, PTL DEF Spec
=============================================================================
