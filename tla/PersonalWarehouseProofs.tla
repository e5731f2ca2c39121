---------------------- MODULE PersonalWarehouseProofs -----------------------
(***************************************************************************)
(* Proofs about the personal warehouse, for any limits of Domain, any      *)
(* pages, commands and copies.                                             *)
(*                                                                         *)
(* A warehouse is Sound when its stocks are what its own history, replayed *)
(* from the start, makes of them, and its history is cut as it should be.  *)
(* Every rule of Domain keeps that (Executes), and validateBackup asks it  *)
(* of a copy (CleanAccepted, LegacyAccepted).  The invariant of the        *)
(* program, Inv, says that whatever is stored, shown, copied or mirrored   *)
(* is sound, with identifiers this life knows, and which pages show it.    *)
(***************************************************************************)
EXTENDS PersonalWarehouse, SequenceTheorems, FiniteSetTheorems, WellFoundedInduction, TLAPS

-----------------------------------------------------------------------------
(* Recursive functions *)

\* A set of numbers has a least one.
LEMMA Least ==
    ASSUME NEW T, T \subseteq Nat, T # {}
    PROVE  \E n \in T : \A m \in T : n <= m
<1> DEFINE R == OpToRel(<, Nat)
<1>1. IsWellFoundedOn(R, Nat)
  BY NatLessThanWellFounded
<1> HIDE DEF R
<1>2. PICK n \in T : \A m \in T : <<m, n>> \notin R
  BY <1>1, WFMin
<1>3. \A m \in T : ~(m < n)
  BY <1>2 DEF R, OpToRel
<1> QED
  BY <1>3

\* What begins with x and goes on with the n-th of the functions G.
Iterates(f, x, G, N) == f[0] = x /\ \A n \in 1..N : f[n] = G[n][f[n - 1]]

LEMMA IteratesExist ==
    ASSUME NEW N \in Nat, NEW X, NEW x \in X, NEW G \in [1..N -> [X -> X]]
    PROVE  \E f \in [0..N -> X] : Iterates(f, x, G, N)
<1> DEFINE T == {n \in 0..N : ~ \E f \in [0..n -> X] : Iterates(f, x, G, n)}
<1>1. SUFFICES ASSUME T # {} PROVE FALSE
  OBVIOUS
<1>2. PICK n \in T : \A m \in T : n <= m
  <2>1. T \subseteq Nat
    OBVIOUS
  <2> QED
    BY <1>1, <2>1, Least
<1>3. n # 0
  <2> DEFINE f == [i \in 0..0 |-> x]
  <2>1. f \in [0..0 -> X] /\ Iterates(f, x, G, 0)
    BY DEF Iterates
  <2> QED
    BY <2>1
<1>4. n - 1 \in 0..N /\ n - 1 \notin T /\ n \in 1..N
  BY <1>2, <1>3
<1>5. PICK f \in [0..(n - 1) -> X] : Iterates(f, x, G, n - 1)
  BY <1>4
<1> DEFINE more == [i \in 0..n |-> IF i < n THEN f[i] ELSE G[n][f[n - 1]]]
<1>6. n - 1 \in 0..(n - 1) /\ f[n - 1] \in X /\ G[n] \in [X -> X]
  BY <1>4
<1>7. more \in [0..n -> X]
  <2>1. G[n][f[n - 1]] \in X
    BY <1>6
  <2> QED
    BY <1>4, <2>1
<1>8. ASSUME NEW i \in 1..n PROVE more[i] = G[i][more[i - 1]]
  <2>1. i \in 0..n /\ i - 1 \in 0..n /\ more[i - 1] = f[i - 1]
    BY <1>4
  <2>2. CASE i = n
    BY <2>1, <2>2
  <2>3. CASE i # n
    <3>1. i < n /\ i \in 1..(n - 1)
      BY <1>4, <2>3
    <3>2. f[i] = G[i][f[i - 1]]
      BY <1>5, <3>1 DEF Iterates
    <3> QED
      BY <2>1, <3>1, <3>2
  <2> QED
    BY <2>2, <2>3
<1>9. more[0] = x
  BY <1>4, <1>5 DEF Iterates
<1> HIDE DEF more
<1>10. Iterates(more, x, G, n)
  BY <1>8, <1>9 DEF Iterates
<1> QED
  BY <1>2, <1>7, <1>10

-----------------------------------------------------------------------------
(* Histories in segments *)

\* f[n] are the first n of the sequences, one after the other.
Flattens(f, segs, N) ==
    /\ f[0] = << >> /\ \A n \in 1..N : f[n] = f[n - 1] \o segs[n]

LEMMA FlattensExist ==
    ASSUME NEW E, NEW segs \in Seq(Seq(E))
    PROVE  \E f \in [0..Len(segs) -> Seq(E)] : Flattens(f, segs, Len(segs)) /\ FlattenSeq(segs) = f[Len(segs)]
<1> DEFINE N == Len(segs)
           X == Seq(E)
           G == [n \in 1..N |-> [y \in X |-> y \o segs[n]]]
<1>1. N \in Nat /\ segs \in [1..N -> X] /\ << >> \in X
  BY LenProperties
<1>2. G \in [1..N -> [X -> X]]
  <2>1. \A n \in 1..N : segs[n] \in X
    BY <1>1
  <2>2. \A n \in 1..N, y \in X : y \o segs[n] \in X
    BY <2>1, ConcatProperties
  <2> QED
    BY <2>2
<1>3. PICK f \in [0..N -> X] : Iterates(f, << >>, G, N)
  <2> HIDE DEF G, X, N
  <2> QED
    BY <1>1, <1>2, IteratesExist
<1>4. \A n \in 1..N : n - 1 \in 0..N /\ n \in 0..N /\ f[n - 1] \in X
  <2> SUFFICES ASSUME NEW n \in 1..N
               PROVE  n - 1 \in 0..N /\ n \in 0..N /\ f[n - 1] \in X
    OBVIOUS
  <2>1. n - 1 \in 0..N /\ n \in 0..N
    BY <1>1
  <2> HIDE DEF X, N
  <2> QED
    BY <2>1
<1>5. f[0] = << >> /\ \A n \in 1..N : f[n] = f[n - 1] \o segs[n]
  BY <1>3, <1>4 DEF Iterates
<1>6. Flattens(f, segs, N)
  BY <1>5 DEF Flattens
<1>7. CASE N = 0
  <2>1. segs = << >>
    BY <1>7, EmptySeq
  <2>2. FlattenSeq(segs) = segs
    BY <1>7 DEF FlattenSeq
  <2> QED
    BY <1>3, <1>5, <1>6, <1>7, <2>1, <2>2
<1>8. CASE N # 0
  <2> DEFINE g == [i \in 1..N |-> f[i]]
             c == CHOOSE h : h = [i \in 1..N |-> IF i = 1 THEN segs[i] ELSE h[i - 1] \o segs[i]]
  <2>1. g = [i \in 1..N |-> IF i = 1 THEN segs[i] ELSE g[i - 1] \o segs[i]]
    <3> SUFFICES ASSUME NEW i \in 1..N
                 PROVE  f[i] = IF i = 1 THEN segs[i] ELSE g[i - 1] \o segs[i]
      OBVIOUS
    <3>1. CASE i = 1
      <4>1. segs[i] \in Seq(E) /\ f[i] = << >> \o segs[i]
        BY <1>1, <1>5, <3>1, SMTT(30)
      <4>2. << >> \o segs[i] = segs[i]
        BY <4>1, ConcatEmptySeq
      <4> QED
        BY <3>1, <4>1, <4>2
    <3>2. CASE i # 1
      <4>1. i - 1 \in 1..N
        BY <1>1, <3>2
      <4> QED
        BY <1>5, <3>2, <4>1
    <3> QED
      BY <3>1, <3>2
  <2>2. c = [i \in 1..N |-> IF i = 1 THEN segs[i] ELSE c[i - 1] \o segs[i]]
    <3> HIDE DEF g
    <3> QED
      BY <2>1, Zenon
  <2>3. FlattenSeq(segs) = c[N]
    BY <1>8, Zenon DEF FlattenSeq
  <2> HIDE DEF c
  <2>4. \A i \in 1..N : c[i] = f[i]
    <3> DEFINE T == {i \in 1..N : c[i] # f[i]}
    <3>1. SUFFICES ASSUME T # {} PROVE FALSE
      OBVIOUS
    <3>2. PICK i \in T : \A m \in T : i <= m
      <4>1. T \subseteq Nat
        OBVIOUS
      <4> QED
        BY <3>1, <4>1, Least
    <3>3. c[i] = (IF i = 1 THEN segs[i] ELSE c[i - 1] \o segs[i]) /\ f[i] = (IF i = 1 THEN segs[i] ELSE g[i - 1] \o segs[i])
      BY <2>1, <2>2
    <3>4. i # 1
      BY <3>2, <3>3
    <3>5. i - 1 \in 1..N /\ i - 1 \notin T
      <4>1. i \in 1..N /\ N \in Nat
        BY <1>1
      <4>2. i - 1 \in 1..N /\ ~(i <= i - 1)
        BY <3>4, <4>1
      <4> QED
        BY <3>2, <4>2
    <3>6. c[i - 1] = f[i - 1] /\ g[i - 1] = f[i - 1]
      BY <3>5
    <3> QED
      BY <3>2, <3>3, <3>4, <3>6
  <2>5. N \in 1..N
    BY <1>1, <1>8
  <2> QED
    BY <1>3, <1>6, <2>3, <2>4, <2>5
<1> QED
  BY <1>7, <1>8

LEMMA FlattenType ==
    ASSUME NEW E, NEW segs \in Seq(Seq(E))
    PROVE  FlattenSeq(segs) \in Seq(E)
<1>1. PICK f \in [0..Len(segs) -> Seq(E)] : FlattenSeq(segs) = f[Len(segs)]
  BY FlattensExist
<1> QED
  BY <1>1, LenProperties

LEMMA FlattenEmpty == FlattenSeq(<< >>) = << >>
  BY DEF FlattenSeq

\* One more sequence comes after the others.
LEMMA FlattenAppend ==
    ASSUME NEW E, NEW segs \in Seq(Seq(E)), NEW x \in Seq(E)
    PROVE  FlattenSeq(Append(segs, x)) = FlattenSeq(segs) \o x
<1> DEFINE N == Len(segs)
           more == Append(segs, x)
<1>1. /\ N \in Nat /\ more \in Seq(Seq(E)) /\ Len(more) = N + 1 /\ more[N + 1] = x
      /\ \A i \in 1..N : more[i] = segs[i]
  BY AppendProperties, LenProperties
<1> HIDE DEF more
<1>2. PICK f \in [0..N -> Seq(E)] : Flattens(f, segs, N) /\ FlattenSeq(segs) = f[N]
  BY FlattensExist
<1>3. PICK h \in [0..(N + 1) -> Seq(E)] : Flattens(h, more, N + 1) /\ FlattenSeq(more) = h[N + 1]
  BY <1>1, FlattensExist
<1>4. \A i \in 0..N : h[i] = f[i]
  <2> DEFINE T == {i \in 0..N : h[i] # f[i]}
  <2>1. SUFFICES ASSUME T # {} PROVE FALSE
    OBVIOUS
  <2>2. PICK i \in T : \A m \in T : i <= m
    <3>1. T \subseteq Nat
      BY <1>1
    <3> QED
      BY <2>1, <3>1, Least
  <2>3. i # 0
    BY <1>2, <1>3, <2>2 DEF Flattens
  <2>4. i \in 1..N /\ i \in 1..(N + 1) /\ i - 1 \in 0..N /\ i - 1 \notin T
    <3>1. i \in 0..N /\ N \in Nat
      BY <1>1
    <3>2. i \in 1..N /\ i \in 1..(N + 1) /\ i - 1 \in 0..N /\ ~(i <= i - 1)
      BY <2>3, <3>1
    <3> QED
      BY <2>2, <3>2
  <2>5. h[i] = h[i - 1] \o more[i] /\ f[i] = f[i - 1] \o segs[i]
    BY <1>2, <1>3, <2>4 DEF Flattens
  <2> QED
    BY <1>1, <2>2, <2>4, <2>5
<1>5. N + 1 \in 1..(N + 1) /\ N + 1 - 1 = N /\ N \in 0..N
  BY <1>1
<1>6. h[N + 1] = h[N] \o x
  <2> PICK m : m = N + 1
    OBVIOUS
  <2>0. \A n \in 1..m : h[n] = h[n - 1] \o more[n]
    BY <1>3 DEF Flattens
  <2>1. h[m] = h[m - 1] \o more[m]
    BY <1>5, <2>0
  <2>2. m - 1 = N /\ more[m] = x
    BY <1>1
  <2>3. h[m] = h[N] \o x
    BY <2>1, <2>2
  <2> QED
    BY <2>3
<1> QED
  BY <1>2, <1>3, <1>4, <1>5, <1>6 DEF more

-----------------------------------------------------------------------------
(* Stocks and the events that change them *)

Map(K, V) == UNION {[D -> V] : D \in SUBSET K}

Stocks == Map(Texts \X Texts, [qty : 0..MaxQty, version : Nat])

Warehouses ==
    [seq : Nat, space : Texts, items : Map(Texts, Cards), places : Map(Texts, Sites), stocks : Stocks,
     historySegments : Seq(Seq(Events)), events : Seq(Events), eventCount : Nat, seen : Seq(Commands)]

LEMMA IsMapType ==
    ASSUME NEW f, NEW K, NEW V, IsMap(f, K, V)
    PROVE  f \in Map(K, V)
<1>1. f \in [DOMAIN f -> V] /\ DOMAIN f \in SUBSET K
  BY DEF IsMap
<1> QED
  BY <1>1 DEF Map

LEMMA MapType ==
    ASSUME NEW K, NEW V, NEW f \in Map(K, V)
    PROVE  /\ DOMAIN f \subseteq K /\ f = [k \in DOMAIN f |-> f[k]]
           /\ \A k \in DOMAIN f : f[k] \in V
<1>1. PICK D \in SUBSET K : f \in [D -> V]
  BY DEF Map
<1> QED
  BY <1>1

LEMMA EmptyMap ==
    ASSUME NEW K, NEW V
    PROVE  << >> \in Map(K, V)
<1>1. << >> \in [{} -> V]
  OBVIOUS
<1> QED
  BY <1>1 DEF Map

\* What Put does to the maps from K to V.
PutsInto(K, V) ==
    \A f \in Map(K, V), k \in K, v \in V :
        /\ Put(f, k, v) \in Map(K, V) /\ DOMAIN Put(f, k, v) = DOMAIN f \cup {k}
        /\ Put(f, k, v)[k] = v /\ \A x \in DOMAIN f : x # k => Put(f, k, v)[x] = f[x]

LEMMA PutProperties ==
    ASSUME NEW K, NEW V
    PROVE  PutsInto(K, V)
<1> SUFFICES ASSUME NEW f \in Map(K, V), NEW k \in K, NEW v \in V
             PROVE  /\ Put(f, k, v) \in Map(K, V) /\ DOMAIN Put(f, k, v) = DOMAIN f \cup {k}
                    /\ Put(f, k, v)[k] = v /\ \A x \in DOMAIN f : x # k => Put(f, k, v)[x] = f[x]
  BY DEF PutsInto
<1> DEFINE g == [x \in DOMAIN f \cup {k} |-> IF x = k THEN v ELSE f[x]]
<1>1. g \in [DOMAIN f \cup {k} -> V] /\ DOMAIN f \cup {k} \in SUBSET K
  BY MapType
<1>2. g[k] = v /\ \A x \in DOMAIN f : x # k => g[x] = f[x]
  OBVIOUS
<1>3. Put(f, k, v) = g
  BY DEF Put
<1> HIDE DEF g
<1> QED
  BY <1>1, <1>2, <1>3 DEF Map

At(m, k) == IF k \in DOMAIN m THEN m[k] ELSE [qty |-> 0, version |-> 0]

\* A change of a stock adds to its quantity and counts.
Changed(m, d) ==
    Put(m, <<d.item, d.place>>, [qty |-> At(m, <<d.item, d.place>>).qty + d.qty,
                                 version |-> At(m, <<d.item, d.place>>).version + 1])

CanChange(m, d, places) ==
    d.place \in DOMAIN places /\ At(m, <<d.item, d.place>>).qty + d.qty \in 0..MaxQty

LEMMA AtType ==
    ASSUME NEW m \in Stocks, NEW k
    PROVE  At(m, k) \in [qty : 0..MaxQty, version : Nat]
<1> DEFINE V == [qty : 0..MaxQty, version : Nat]
<1>1. [qty |-> 0, version |-> 0] \in V
  <2>1. MaxQty \in Nat
    BY DomainAssumption
  <2> QED
    BY <2>1
<1>4. m \in Map(Texts \X Texts, V)
  BY DEF Stocks
<1> HIDE DEF V
<1>2. \A x \in DOMAIN m : m[x] \in V
  BY <1>4, MapType, Zenon
<1>3. At(m, k) \in V
  BY <1>1, <1>2 DEF At
<1> QED
  BY <1>3 DEF V

LEMMA ChangedProperties ==
    ASSUME NEW m \in Stocks, NEW d \in Changes, NEW places, CanChange(m, d, places)
    PROVE  /\ Changed(m, d) \in Stocks
           /\ \A k : At(Changed(m, d), k) =
                 IF k = <<d.item, d.place>>
                 THEN [qty |-> At(m, k).qty + d.qty, version |-> At(m, k).version + 1]
                 ELSE At(m, k)
<1>a. PICK k0 : k0 = <<d.item, d.place>>
  OBVIOUS
<1>b. PICK new : new = [qty |-> At(m, k0).qty + d.qty, version |-> At(m, k0).version + 1]
  OBVIOUS
<1>c. PICK Places, Amounts : Places = Texts \X Texts /\ Amounts = [qty : 0..MaxQty, version : Nat]
  OBVIOUS
<1>1. k0 \in Places
  BY <1>a, <1>c DEF Changes
<1>2. new \in Amounts
  BY <1>a, <1>b, <1>c, AtType DEF CanChange
<1>3. Changed(m, d) = Put(m, k0, new)
  BY <1>a, <1>b DEF Changed
<1>4. m \in Map(Places, Amounts)
  BY <1>c DEF Stocks
<1>5. /\ Changed(m, d) \in Stocks /\ DOMAIN Changed(m, d) = DOMAIN m \cup {k0}
      /\ Changed(m, d)[k0] = new /\ \A x \in DOMAIN m : x # k0 => Changed(m, d)[x] = m[x]
  <2>1. /\ Put(m, k0, new) \in Map(Places, Amounts) /\ DOMAIN Put(m, k0, new) = DOMAIN m \cup {k0}
        /\ Put(m, k0, new)[k0] = new /\ \A x \in DOMAIN m : x # k0 => Put(m, k0, new)[x] = m[x]
    <3>1. PutsInto(Places, Amounts)
      BY PutProperties
    <3> QED
      BY <1>1, <1>2, <1>4, <3>1, Zenon DEF PutsInto
  <2>2. Map(Places, Amounts) = Stocks
    BY <1>c DEF Stocks
  <2> QED
    BY <1>3, <2>1, <2>2
<1>6. ASSUME NEW k
      PROVE  At(Changed(m, d), k) = IF k = k0 THEN new ELSE At(m, k)
  BY <1>5 DEF At
<1> QED
  BY <1>5, <1>6, <1>a, <1>b

LEMMA ApplyChangeIs ==
    ASSUME NEW s \in Warehouses, NEW d \in Changes
    PROVE  ApplyChange(s, d) = When(CanChange(s.stocks, d, s.places), [s EXCEPT !.stocks = Changed(s.stocks, d)])
<1>1. \A i, p : StockAt(s, i, p) = At(s.stocks, <<i, p>>)
  BY DEF StockAt, At
<1> QED
  BY <1>1 DEF ApplyChange, CanChange, Changed, Warehouses

GoodEvent(e, items) ==
    /\ e \in Events /\ e.item \in DOMAIN items /\ Len(e.changes) \in 1..2
    /\ \A i \in DOMAIN e.changes : e.changes[i].item = e.item

After(m, e) ==
    IF Len(e.changes) = 1 THEN Changed(m, e.changes[1]) ELSE Changed(Changed(m, e.changes[1]), e.changes[2])

CanDo(m, e, places) ==
    /\ CanChange(m, e.changes[1], places)
    /\ Len(e.changes) = 2 => CanChange(Changed(m, e.changes[1]), e.changes[2], places)

LEMMA EventChanges ==
    ASSUME NEW e \in Events, Len(e.changes) \in 1..2
    PROVE  /\ e.changes \in Seq(Changes) /\ e.changes[1] \in Changes
           /\ Len(e.changes) = 2 => e.changes[2] \in Changes
<1>1. e.changes \in Seq(Changes)
  BY DEF Events
<1>2. 1 \in 1..Len(e.changes) /\ (Len(e.changes) = 2 => 2 \in 1..Len(e.changes))
  <2> PICK n : n = Len(e.changes)
    OBVIOUS
  <2>1. n \in 1..2
    OBVIOUS
  <2>2. 1 \in 1..n /\ (n = 2 => 2 \in 1..n)
    BY <2>1
  <2> QED
    BY <2>2
<1> QED
  BY <1>1, <1>2, ElementOfSeq

LEMMA AfterType ==
    ASSUME NEW m \in Stocks, NEW e \in Events, Len(e.changes) \in 1..2, NEW places, CanDo(m, e, places)
    PROVE  After(m, e) \in Stocks
  BY EventChanges, ChangedProperties DEF CanDo, After

\* The changes of an event, one after the other: both or none.
LEMMA EventInTurn ==
    ASSUME NEW s \in Warehouses, NEW e \in Events, Len(e.changes) \in 1..2
    PROVE  InTurn(ApplyChange, s, e.changes) =
              When(CanDo(s.stocks, e, s.places), [s EXCEPT !.stocks = After(s.stocks, e)])
<1>a. PICK cs : cs = e.changes
  OBVIOUS
<1>b. PICK N \in 1..2 : N = Len(cs)
  BY <1>a
<1>1. cs[1] \in Changes /\ (N = 2 => cs[2] \in Changes)
  BY <1>a, <1>b, EventChanges
<1> DEFINE Then(T, n) == UNION {ApplyChange(t, cs[n]) : t \in T}
           f == [n \in 0..N |-> IF n = 0 THEN {s} ELSE IF n = 1 THEN Then({s}, 1) ELSE Then(Then({s}, 1), 2)]
           c == CHOOSE h : h = [n \in 0..N |-> IF n = 0 THEN {s} ELSE Then(h[n - 1], n)]
<1>2. f = [n \in 0..N |-> IF n = 0 THEN {s} ELSE Then(f[n - 1], n)]
  <2> HIDE DEF Then
  <2>1. f[0] = {s} /\ f[1] = Then({s}, 1) /\ (N = 2 => f[2] = Then(Then({s}, 1), 2))
    BY <1>1
  <2>2. ASSUME NEW n \in 0..N
        PROVE  f[n] = IF n = 0 THEN {s} ELSE Then(f[n - 1], n)
    <3>1. n = 0 \/ n = 1 \/ (n = 2 /\ N = 2)
      BY <1>1
    <3> HIDE DEF f
    <3> QED
      BY <2>1, <3>1
  <2> QED
    BY <2>2
<1>3. c = [n \in 0..N |-> IF n = 0 THEN {s} ELSE Then(c[n - 1], n)]
  <2> HIDE DEF f
  <2> QED
    BY <1>2, Zenon
<1>4. InTurn(ApplyChange, s, cs) = c[N]
  BY <1>b, Zenon DEF InTurn
<1> HIDE DEF c, f
<1>5. c[0] = {s} /\ c[1] = ApplyChange(s, cs[1])
      /\ (N = 2 => c[2] = UNION {ApplyChange(t, cs[2]) : t \in c[1]})
  <2>1. c[0] = {s} /\ c[1] = Then(c[0], 1) /\ (N = 2 => c[2] = Then(c[1], 2))
    <3> HIDE DEF Then
    <3>1. 0 \in 0..N /\ 1 \in 0..N /\ (N = 2 => 2 \in 0..N) /\ 1 - 1 = 0 /\ 2 - 1 = 1
      BY <1>1
    <3>2. \A n \in 0..N : c[n] = IF n = 0 THEN {s} ELSE Then(c[n - 1], n)
      BY <1>3
    <3> QED
      BY <3>1, <3>2
  <2>2. Then({s}, 1) = ApplyChange(s, cs[1])
    OBVIOUS
  <2> QED
    BY <2>1, <2>2
<1>6. c[1] = When(CanChange(s.stocks, cs[1], s.places), [s EXCEPT !.stocks = Changed(s.stocks, cs[1])])
  BY <1>1, <1>5, ApplyChangeIs
<1>7. /\ CanDo(s.stocks, e, s.places) <=>
            CanChange(s.stocks, cs[1], s.places) /\ (N = 2 => CanChange(Changed(s.stocks, cs[1]), cs[2], s.places))
      /\ After(s.stocks, e) = IF N = 1 THEN Changed(s.stocks, cs[1]) ELSE Changed(Changed(s.stocks, cs[1]), cs[2])
  BY <1>a, <1>b DEF CanDo, After
<1>8. CASE N = 1
  <2>1. InTurn(ApplyChange, s, e.changes) = c[1]
    BY <1>a, <1>4, <1>8
  <2> QED
    BY <1>5, <1>6, <1>7, <1>8, <2>1 DEF When
<1>9. CASE N = 2 /\ ~CanChange(s.stocks, cs[1], s.places)
  BY <1>a, <1>4, <1>5, <1>6, <1>7, <1>9 DEF When
<1>10. CASE N = 2 /\ CanChange(s.stocks, cs[1], s.places)
  <2> DEFINE next == [s EXCEPT !.stocks = Changed(s.stocks, cs[1])]
  <2> PICK t : t = next
    OBVIOUS
  <2>1. Changed(s.stocks, cs[1]) \in Stocks
    <3>1. s.stocks \in Stocks
      BY DEF Warehouses
    <3> QED
      BY <1>1, <1>10, <3>1, ChangedProperties
  <2>2. t \in Warehouses /\ t.stocks = Changed(s.stocks, cs[1]) /\ t.places = s.places
    BY <2>1 DEF Warehouses
  <2>3. c[1] = {t}
    BY <1>6, <1>10 DEF When
  <2>4. \A m : [t EXCEPT !.stocks = m] = [s EXCEPT !.stocks = m]
    BY DEF Warehouses
  <2> HIDE DEF next
  <2>5. ApplyChange(t, cs[2]) = When(CanChange(t.stocks, cs[2], t.places), [t EXCEPT !.stocks = Changed(t.stocks, cs[2])])
    BY <1>1, <1>10, <2>2, ApplyChangeIs
  <2>6. c[2] = ApplyChange(t, cs[2])
    <3>1. c[2] = UNION {ApplyChange(x, cs[2]) : x \in {t}}
      BY <1>5, <1>10, <2>3
    <3> QED
      BY <3>1
  <2>7. InTurn(ApplyChange, s, e.changes) = ApplyChange(t, cs[2])
    BY <1>a, <1>4, <1>10, <2>6
  <2>8. CanDo(s.stocks, e, s.places) <=> CanChange(t.stocks, cs[2], t.places)
    BY <1>7, <1>10, <2>2
  <2>9. After(s.stocks, e) = Changed(t.stocks, cs[2])
    BY <1>7, <1>10, <2>2
  <2> QED
    BY <2>4, <2>5, <2>7, <2>8, <2>9 DEF When
<1> QED
  BY <1>8, <1>9, <1>10

-----------------------------------------------------------------------------
(* The history of a warehouse *)

LEMMA HistoryType ==
    ASSUME NEW s \in Warehouses
    PROVE  AllEvents(s) \in Seq(Events) /\ HistoryCount(s) \in Nat /\ FlattenSeq(s.historySegments) \in Seq(Events)
<1>1. s.historySegments \in Seq(Seq(Events)) /\ s.events \in Seq(Events)
  BY DEF Warehouses
<1>2. FlattenSeq(s.historySegments) \in Seq(Events)
  BY <1>1, FlattenType
<1>3. AllEvents(s) \in Seq(Events)
  BY <1>1, <1>2, ConcatProperties DEF AllEvents
<1> QED
  BY <1>2, <1>3, LenProperties DEF HistoryCount

LEMMA AlreadyCut ==
    ASSUME NEW s \in Warehouses, InSegments(s)
    PROVE  NormalizeHistory(s) = s
<1>1. Len(s.events) <= SegmentSize /\ s.eventCount = HistoryCount(s)
  BY DEF InSegments
<1>2. [s EXCEPT !.eventCount = s.eventCount] = s
  BY DEF Warehouses
<1>3. Counted(s) = s
  BY <1>1, <1>2 DEF Counted
<1> QED
  BY <1>1, <1>3 DEF NormalizeHistory

\* What holds the same of both: all but the history.
SameBut(t, s) ==
    /\ t.seq = s.seq /\ t.space = s.space /\ t.items = s.items /\ t.places = s.places
    /\ t.stocks = s.stocks /\ t.seen = s.seen

LEMMA Recounted ==
    ASSUME NEW u \in Warehouses
    PROVE  /\ Counted(u) \in Warehouses /\ SameBut(Counted(u), u)
           /\ Counted(u).historySegments = u.historySegments /\ Counted(u).events = u.events
           /\ AllEvents(Counted(u)) = AllEvents(u) /\ Counted(u).eventCount = HistoryCount(Counted(u))
<1>1. PICK n \in Nat : n = HistoryCount(u)
  BY HistoryType
<1>2. PICK t : t = [u EXCEPT !.eventCount = n]
  OBVIOUS
<1>3. t \in Warehouses /\ SameBut(t, u) /\ t.historySegments = u.historySegments /\ t.events = u.events /\ t.eventCount = n
  BY <1>2 DEF Warehouses, SameBut
<1>4. AllEvents(t) = AllEvents(u)
  BY <1>3 DEF AllEvents
<1>5. t = Counted(u)
  BY <1>1, <1>2 DEF Counted
<1> QED
  BY <1>1, <1>3, <1>4, <1>5 DEF HistoryCount

LEMMA EventAppended ==
    ASSUME NEW s \in Warehouses, InSegments(s), NEW e \in Events, NEW t, t = AppendEvent(s, e)
    PROVE  /\ t \in Warehouses /\ SameBut(t, s) /\ InSegments(t)
           /\ AllEvents(t) = Append(AllEvents(s), e)
<1>1. NormalizeHistory(s) = s
  BY AlreadyCut
<1>2. s.historySegments \in Seq(Seq(Events)) /\ s.events \in Seq(Events)
  BY DEF Warehouses
<1>3. SegmentSize \in Nat \ {0} /\ Len(s.events) \in Nat /\ Len(s.events) <= SegmentSize
  BY <1>2, DomainAssumption, LenProperties DEF InSegments
<1>4. FlattenSeq(s.historySegments) \in Seq(Events)
  BY HistoryType
<1>5. CASE Len(s.events) >= SegmentSize
  <2>a. PICK segs, evs : segs = Append(s.historySegments, s.events) /\ evs = <<e>>
    OBVIOUS
  <2>1. /\ segs \in Seq(Seq(Events)) /\ Len(segs) = Len(s.historySegments) + 1 /\ segs[Len(s.historySegments) + 1] = s.events
        /\ \A i \in 1..Len(s.historySegments) : segs[i] = s.historySegments[i]
    BY <1>2, <2>a, AppendProperties
  <2>2. evs \in Seq(Events) /\ Len(evs) = 1 /\ evs # << >>
    BY <2>a
  <2>b. PICK u : u = [s EXCEPT !.historySegments = segs, !.events = evs]
    OBVIOUS
  <2>3. t = Counted(u) /\ u \in Warehouses /\ SameBut(u, s) /\ u.historySegments = segs /\ u.events = evs
    <3>1. t = Counted(u)
      BY <1>1, <1>5, <2>a, <2>b DEF AppendEvent
    <3>2. u \in Warehouses /\ SameBut(u, s) /\ u.historySegments = segs /\ u.events = evs
      BY <2>1, <2>2, <2>b DEF Warehouses, SameBut
    <3> QED
      BY <3>1, <3>2
  <2>4. /\ t \in Warehouses /\ SameBut(t, s) /\ t.historySegments = segs /\ t.events = evs
        /\ AllEvents(t) = FlattenSeq(segs) \o evs /\ t.eventCount = HistoryCount(t)
    <3>1. /\ t \in Warehouses /\ SameBut(t, u) /\ t.historySegments = segs /\ t.events = evs
          /\ t.eventCount = HistoryCount(t)
      BY <2>3, Recounted
    <3>2. SameBut(t, s)
      BY <2>3, <3>1 DEF SameBut
    <3>3. AllEvents(t) = FlattenSeq(segs) \o evs
      BY <3>1 DEF AllEvents
    <3> QED
      BY <3>1, <3>2, <3>3
  <2>5. FlattenSeq(segs) = FlattenSeq(s.historySegments) \o s.events
    BY <1>2, <2>a, FlattenAppend
  <2>6. AllEvents(t) = Append(AllEvents(s), e)
    <3>1. AllEvents(t) = AllEvents(s) \o <<e>>
      BY <2>4, <2>5, <2>a DEF AllEvents
    <3>2. AllEvents(s) \in Seq(Events)
      BY HistoryType
    <3> QED
      BY <3>1, <3>2, AppendIsConcat
  <2>7. Len(s.events) = SegmentSize
    BY <1>3, <1>5
  <2>8. \A i \in DOMAIN segs : Len(segs[i]) = SegmentSize
    <3>1. PICK n \in Nat : n = Len(s.historySegments)
      BY <1>2, LenProperties
    <3>2. DOMAIN segs = 1..(n + 1) /\ DOMAIN s.historySegments = 1..n
      BY <1>2, <2>1, <3>1, LenProperties
    <3>3. \A i \in 1..n : Len(segs[i]) = SegmentSize
      BY <2>1, <3>1, <3>2 DEF InSegments
    <3>4. Len(segs[n + 1]) = SegmentSize
      BY <2>1, <2>7, <3>1
    <3>5. \A i \in 1..(n + 1) : i \in 1..n \/ i = n + 1
      OBVIOUS
    <3> QED
      BY <3>2, <3>3, <3>4, <3>5
  <2>9. t.seen = s.seen
    BY <2>4 DEF SameBut
  <2>10. 1 <= SegmentSize
    BY <1>3
  <2> QED
    BY <2>2, <2>4, <2>6, <2>8, <2>9, <2>10 DEF InSegments
<1>6. CASE ~(Len(s.events) >= SegmentSize)
  <2>a. PICK evs : evs = Append(s.events, e)
    OBVIOUS
  <2>1. evs \in Seq(Events) /\ Len(evs) = Len(s.events) + 1 /\ evs # << >>
    BY <1>2, <2>a, AppendProperties
  <2>b. PICK u : u = [s EXCEPT !.events = evs]
    OBVIOUS
  <2>2. t = Counted(u) /\ u \in Warehouses /\ SameBut(u, s) /\ u.historySegments = s.historySegments /\ u.events = evs
    <3>1. t = Counted(u)
      BY <1>1, <1>6, <2>a, <2>b DEF AppendEvent
    <3>2. u \in Warehouses /\ SameBut(u, s) /\ u.historySegments = s.historySegments /\ u.events = evs
      BY <2>1, <2>b DEF Warehouses, SameBut
    <3> QED
      BY <3>1, <3>2
  <2>c. AllEvents(u) = FlattenSeq(s.historySegments) \o evs
    BY <2>2 DEF AllEvents
  <2>3. /\ t \in Warehouses /\ SameBut(t, s) /\ t.historySegments = s.historySegments /\ t.events = evs
        /\ AllEvents(t) = FlattenSeq(s.historySegments) \o evs /\ t.eventCount = HistoryCount(t)
    BY <2>2, <2>c, Recounted DEF SameBut
  <2>4. AllEvents(t) = Append(AllEvents(s), e)
    <3>1. evs = s.events \o <<e>>
      BY <1>2, <2>a, AppendIsConcat
    <3>2. AllEvents(t) = (FlattenSeq(s.historySegments) \o s.events) \o <<e>>
      <4>1. <<e>> \in Seq(Events) /\ AllEvents(t) = FlattenSeq(s.historySegments) \o (s.events \o <<e>>)
        BY <2>3, <3>1
      <4> QED
        <5>1. PICK a \in Seq(Events), b \in Seq(Events), c \in Seq(Events) : a = FlattenSeq(s.historySegments) /\ b = s.events /\ c = <<e>>
          BY <1>2, <1>4, <4>1
        <5>2. (a \o b) \o c = a \o (b \o c)
          BY ConcatAssociative
        <5> QED
          BY <4>1, <5>1, <5>2
    <3>3. AllEvents(s) \in Seq(Events)
      BY HistoryType
    <3> QED
      BY <3>2, <3>3, AppendIsConcat DEF AllEvents
  <2>5. Len(evs) <= SegmentSize
    BY <1>3, <1>6, <2>1
  <2>6. t.seen = s.seen
    BY <2>3 DEF SameBut
  <2> QED
    BY <2>1, <2>3, <2>4, <2>5, <2>6 DEF InSegments
<1> QED
  BY <1>5, <1>6

-----------------------------------------------------------------------------
(* Stocks that come from a history *)

\* f[n] are the stocks after the first n events.
RunTo(f, h, items, places, N) ==
    /\ f \in [0..N -> Stocks] /\ f[0] = << >>
    /\ \A n \in 1..N :
          GoodEvent(h[n], items) /\ CanDo(f[n - 1], h[n], places) /\ f[n] = After(f[n - 1], h[n])

Runs(f, h, items, places) == RunTo(f, h, items, places, Len(h))

Replayed(s) == \E f : Runs(f, AllEvents(s), s.items, s.places) /\ f[HistoryCount(s)] = s.stocks

LEMMA RunWider ==
    ASSUME NEW f, NEW h, NEW items, NEW places, Runs(f, h, items, places),
           NEW items2, NEW places2, DOMAIN items \subseteq DOMAIN items2, DOMAIN places \subseteq DOMAIN places2
    PROVE  Runs(f, h, items2, places2)
  BY DEF Runs, RunTo, GoodEvent, CanDo, CanChange

LEMMA RunStep ==
    ASSUME NEW items, NEW places, NEW k, NEW f, NEW N \in Nat, RunTo(f, k, items, places, N),
           GoodEvent(k[N + 1], items), CanDo(f[N], k[N + 1], places)
    PROVE  \E g : RunTo(g, k, items, places, N + 1) /\ g[N + 1] = After(f[N], k[N + 1])
<1>4. f \in [0..N -> Stocks] /\ f[0] = << >> /\ N \in 0..N
  BY DEF RunTo
<1>5. PICK m \in Stocks : m = After(f[N], k[N + 1])
  BY <1>4, AfterType DEF GoodEvent
<1>6. PICK g : g = [n \in 0..(N + 1) |-> IF n <= N THEN f[n] ELSE m]
  OBVIOUS
<1>7. g \in [0..(N + 1) -> Stocks] /\ g[0] = << >> /\ g[N + 1] = m /\ \A n \in 0..N : g[n] = f[n]
  <2>1. \A n \in 0..(N + 1) : (IF n <= N THEN f[n] ELSE m) \in Stocks
    BY <1>4
  <2>2. 0 \in 0..(N + 1) /\ N + 1 \in 0..(N + 1) /\ 0 <= N /\ ~(N + 1 <= N)
    OBVIOUS
  <2>3. \A n \in 0..N : n <= N /\ n \in 0..(N + 1)
    OBVIOUS
  <2> QED
    BY <1>4, <1>6, <2>1, <2>2, <2>3
<1>8. ASSUME NEW n \in 1..(N + 1)
      PROVE  GoodEvent(k[n], items) /\ CanDo(g[n - 1], k[n], places) /\ g[n] = After(g[n - 1], k[n])
  <2>1. CASE n = N + 1
    <3>1. n - 1 = N /\ g[n - 1] = f[N] /\ g[n] = m
      BY <1>4, <1>7, <2>1
    <3> QED
      BY <1>5, <2>1, <3>1
  <2>2. CASE n # N + 1
    <3>1. n \in 1..N /\ n \in 0..N /\ n - 1 \in 0..N
      BY <2>2
    <3>2. g[n] = f[n] /\ g[n - 1] = f[n - 1]
      BY <1>7, <3>1
    <3> QED
      BY <3>1, <3>2 DEF RunTo
  <2> QED
    BY <2>1, <2>2
<1>9. RunTo(g, k, items, places, N + 1)
  BY <1>7, <1>8 DEF RunTo
<1> QED
  BY <1>5, <1>7, <1>9

LEMMA RunLonger ==
    ASSUME NEW items, NEW places, NEW h \in Seq(Events), NEW f, Runs(f, h, items, places),
           NEW e, GoodEvent(e, items), CanDo(f[Len(h)], e, places)
    PROVE  \E g : Runs(g, Append(h, e), items, places) /\ g[Len(h) + 1] = After(f[Len(h)], e)
<1>1. PICK N \in Nat : N = Len(h)
  BY LenProperties
<1>2. PICK k : k = Append(h, e)
  OBVIOUS
<1>3. Len(k) = N + 1 /\ k[N + 1] = e /\ \A n \in 1..N : k[n] = h[n]
  BY <1>1, <1>2, AppendProperties DEF GoodEvent
<1>4. RunTo(f, k, items, places, N)
  BY <1>1, <1>3 DEF Runs, RunTo
<1>5. PICK g : RunTo(g, k, items, places, N + 1) /\ g[N + 1] = After(f[N], k[N + 1])
  <2>1. GoodEvent(k[N + 1], items) /\ CanDo(f[N], k[N + 1], places)
    BY <1>1, <1>3
  <2> QED
    BY <1>4, <2>1, RunStep
<1> QED
  BY <1>1, <1>2, <1>3, <1>5 DEF Runs

\* A warehouse the program may hold: its stocks come from its history, and no
\* two cards share an article or a barcode.
Sound(s) ==
    /\ s \in Warehouses /\ InSegments(s) /\ Replayed(s)
    /\ IsFiniteSet(DOMAIN s.items) /\ Cardinality(DOMAIN s.items) <= MaxItems
    /\ IsFiniteSet(DOMAIN s.places) /\ Cardinality(DOMAIN s.places) \in 1..MaxPlaces
    /\ \A id \in DOMAIN s.items : s.items[id].id = id /\ CodesFree(s, s.items[id])

SameHistory(t, s) ==
    /\ t.historySegments = s.historySegments /\ t.events = s.events /\ t.eventCount = s.eventCount

\* Cards, places and the rest change without the stocks.
LEMMA StillReplayed ==
    ASSUME NEW s, InSegments(s), Replayed(s), NEW t, SameHistory(t, s), t.stocks = s.stocks,
           DOMAIN s.items \subseteq DOMAIN t.items, DOMAIN s.places \subseteq DOMAIN t.places,
           Len(t.seen) <= RecentLimit
    PROVE  InSegments(t) /\ Replayed(t) /\ AllEvents(t) = AllEvents(s)
<1>1. AllEvents(t) = AllEvents(s) /\ HistoryCount(t) = HistoryCount(s)
  BY DEF SameHistory, AllEvents, HistoryCount
<1>2. InSegments(t)
  BY <1>1 DEF InSegments, SameHistory
<1>3. PICK f : Runs(f, AllEvents(s), s.items, s.places) /\ f[HistoryCount(s)] = s.stocks
  BY DEF Replayed
<1>4. Runs(f, AllEvents(s), t.items, t.places)
  BY <1>3, RunWider
<1>5. Replayed(t)
  BY <1>1, <1>3, <1>4 DEF Replayed
<1> QED
  BY <1>1, <1>2, <1>5

\* A movement of stock with its event.
LEMMA RecordSound ==
    ASSUME NEW s, Sound(s), NEW e, GoodEvent(e, s.items), NEW t \in Record(s, e)
    PROVE  Sound(t) /\ AllEvents(t) = Append(AllEvents(s), e) /\ t.items = s.items
<1>1. s \in Warehouses /\ InSegments(s) /\ e \in Events /\ Len(e.changes) \in 1..2
  BY DEF Sound, GoodEvent
<1>2. PICK m : m = After(s.stocks, e)
  OBVIOUS
<1>3. CanDo(s.stocks, e, s.places) /\ t = AppendEvent([s EXCEPT !.stocks = m], e)
  BY <1>1, <1>2, EventInTurn DEF Record, When
<1>4. PICK u : u = [s EXCEPT !.stocks = m]
  OBVIOUS
<1>5. m \in Stocks
  <2>1. s.stocks \in Stocks
    BY <1>1 DEF Warehouses
  <2> QED
    BY <1>1, <1>2, <1>3, <2>1, AfterType
<1>6. /\ u \in Warehouses /\ SameHistory(u, s) /\ u.items = s.items /\ u.places = s.places
      /\ u.stocks = m /\ u.seen = s.seen
  BY <1>1, <1>4, <1>5 DEF Warehouses, SameHistory
<1>7. InSegments(u) /\ AllEvents(u) = AllEvents(s)
  BY <1>1, <1>6 DEF InSegments, SameHistory, AllEvents, HistoryCount
<1>8. /\ t \in Warehouses /\ SameBut(t, u) /\ InSegments(t) /\ AllEvents(t) = Append(AllEvents(u), e)
  BY <1>1, <1>3, <1>4, <1>6, <1>7, EventAppended
<1>9. t.items = s.items /\ t.places = s.places /\ t.stocks = m /\ AllEvents(t) = Append(AllEvents(s), e)
  BY <1>6, <1>7, <1>8 DEF SameBut
<1>10. Replayed(t)
  <2>1. PICK f : Runs(f, AllEvents(s), s.items, s.places) /\ f[HistoryCount(s)] = s.stocks
    BY DEF Sound, Replayed
  <2>2. PICK h \in Seq(Events) : h = AllEvents(s)
    BY <1>1, HistoryType
  <2>3. PICK N \in Nat : N = Len(h)
    BY LenProperties
  <2>4. Runs(f, h, s.items, s.places) /\ f[Len(h)] = s.stocks
    BY <2>1, <2>2 DEF HistoryCount
  <2>5. PICK g : Runs(g, Append(h, e), s.items, s.places) /\ g[Len(h) + 1] = After(f[Len(h)], e)
    <3>1. CanDo(f[Len(h)], e, s.places)
      BY <1>3, <2>4
    <3> QED
      BY <2>4, <3>1, RunLonger
  <2>6. Len(Append(h, e)) = Len(h) + 1
    BY <1>1, AppendProperties
  <2> QED
    BY <1>2, <1>9, <2>2, <2>4, <2>5, <2>6 DEF Replayed, HistoryCount
<1> QED
  BY <1>8, <1>9, <1>10 DEF Sound, CodesFree

-----------------------------------------------------------------------------
(* The rules keep a warehouse sound *)

LEMMA ItemSound ==
    ASSUME NEW s, Sound(s), NEW x \in Cards, NEW t \in ValidateItem(s, x)
    PROVE  Sound(t) /\ AllEvents(t) = AllEvents(s)
<1>1. s \in Warehouses /\ s.items \in Map(Texts, Cards) /\ AcceptsItem(s, x)
  BY DEF Sound, Warehouses, ValidateItem, When
<1>2. \A id \in DOMAIN s.items : s.items[id] \in Cards
  <2>1. \A f \in Map(Texts, Cards) : \A id \in DOMAIN f : f[id] \in Cards
    BY MapType
  <2> QED
    BY <1>1, <2>1
<1>3. PICK v \in Nat : v = VersionOf(s.items, x.id) + 1
  <2>1. VersionOf(s.items, x.id) \in Nat
    BY <1>2 DEF VersionOf, Cards
  <2> QED
    BY <2>1
<1>4. PICK y : y = [x EXCEPT !.version = v]
  OBVIOUS
<1>5. y \in Cards /\ y.id = x.id /\ y.sku = x.sku /\ y.barcode = x.barcode
  BY <1>4 DEF Cards
<1>6. PICK m : m = Put(s.items, x.id, y)
  OBVIOUS
<1>7. t = [s EXCEPT !.items = m]
  BY <1>3, <1>4, <1>6 DEF ValidateItem, When
<1>8. /\ m \in Map(Texts, Cards) /\ DOMAIN m = DOMAIN s.items \cup {x.id}
      /\ m[x.id] = y /\ \A id \in DOMAIN s.items : id # x.id => m[id] = s.items[id]
  <2>1. x.id \in Texts
    BY DEF Cards
  <2>2. PutsInto(Texts, Cards)
    BY PutProperties
  <2>3. /\ Put(s.items, x.id, y) \in Map(Texts, Cards) /\ DOMAIN Put(s.items, x.id, y) = DOMAIN s.items \cup {x.id}
        /\ Put(s.items, x.id, y)[x.id] = y /\ \A id \in DOMAIN s.items : id # x.id => Put(s.items, x.id, y)[id] = s.items[id]
    BY <1>1, <1>5, <2>1, <2>2, Zenon DEF PutsInto
  <2> QED
    BY <1>6, <2>3
<1>9. t \in Warehouses /\ SameHistory(t, s) /\ t.items = m /\ t.places = s.places /\ t.stocks = s.stocks /\ t.seen = s.seen
  BY <1>1, <1>7, <1>8 DEF Warehouses, SameHistory
<1>10. InSegments(t) /\ Replayed(t) /\ AllEvents(t) = AllEvents(s)
  <2>1. InSegments(s) /\ Replayed(s) /\ Len(s.seen) <= RecentLimit
    BY DEF Sound, InSegments
  <2> QED
    BY <1>8, <1>9, <2>1, StillReplayed
<1>11. IsFiniteSet(DOMAIN m) /\ Cardinality(DOMAIN m) <= MaxItems
  <2>1. IsFiniteSet(DOMAIN s.items) /\ Cardinality(DOMAIN s.items) \in Nat /\ Cardinality(DOMAIN s.items) <= MaxItems /\ MaxItems \in Nat
    BY FS_CardinalityType, DomainAssumption DEF Sound
  <2>2. IsFiniteSet(DOMAIN m) /\ Cardinality(DOMAIN m) = IF x.id \in DOMAIN s.items THEN Cardinality(DOMAIN s.items) ELSE Cardinality(DOMAIN s.items) + 1
    <3>1. PICK D : D = DOMAIN s.items
      OBVIOUS
    <3>2. IsFiniteSet(D \cup {x.id}) /\ Cardinality(D \cup {x.id}) = IF x.id \in D THEN Cardinality(D) ELSE Cardinality(D) + 1
      BY <2>1, <3>1, FS_AddElement
    <3> QED
      BY <1>8, <3>1, <3>2
  <2> QED
    BY <1>1, <2>1, <2>2 DEF AcceptsItem
<1>12. ASSUME NEW id \in DOMAIN m PROVE m[id].id = id /\ CodesFree(t, m[id])
  <2>1. CodesFree(s, x)
    BY <1>1 DEF AcceptsItem
  <2>2. CASE id = x.id
    <3>1. \A k \in DOMAIN m \ {x.id} : k \in DOMAIN s.items \ {x.id} /\ m[k] = s.items[k]
      BY <1>8
    <3> QED
      BY <1>5, <1>8, <1>9, <2>1, <2>2, <3>1 DEF CodesFree
  <2>3. CASE id # x.id
    <3>1. id \in DOMAIN s.items /\ m[id] = s.items[id] /\ s.items[id].id = id /\ CodesFree(s, s.items[id])
      BY <1>8, <2>3 DEF Sound
    <3>2. ASSUME NEW k \in DOMAIN m \ {id}
          PROVE  /\ m[id].sku # NoCode => m[k].sku # m[id].sku
                 /\ m[id].barcode # NoCode => m[k].barcode # m[id].barcode
      <4>1. CASE k = x.id
        BY <1>5, <1>8, <2>1, <2>3, <3>1, <4>1 DEF CodesFree
      <4>2. CASE k # x.id
        BY <1>8, <3>1, <4>2 DEF CodesFree
      <4> QED
        BY <4>1, <4>2
    <3> QED
      BY <1>9, <3>1, <3>2 DEF CodesFree
  <2> QED
    BY <2>2, <2>3
<1> QED
  BY <1>9, <1>10, <1>11, <1>12 DEF Sound

LEMMA PricedType ==
    ASSUME NEW s \in Warehouses, NEW x \in Cards
    PROVE  Priced(s, x, Me) \in Cards
<1>1. s.items \in Map(Texts, Cards)
  BY DEF Warehouses
<1>2. \A id \in DOMAIN s.items : s.items[id] \in Cards
  <2>1. \A f \in Map(Texts, Cards) : \A id \in DOMAIN f : f[id] \in Cards
    BY MapType
  <2> QED
    BY <1>1, <2>1
<1> QED
  BY <1>2 DEF Priced, Cards

LEMMA PlaceSound ==
    ASSUME NEW s, Sound(s), NEW c, c.place \in Sites, NEW t \in ApplyPlace(s, c, Me)
    PROVE  Sound(t) /\ AllEvents(t) = AllEvents(s)
<1>1. s \in Warehouses /\ s.places \in Map(Texts, Sites)
  BY DEF Sound, Warehouses
<1>a. PICK x \in Sites : x = c.place
  OBVIOUS
<1>2. PICK y : y = [x EXCEPT !.version = @ + 1]
  OBVIOUS
<1>3. y \in Sites /\ x.id \in Texts
  BY <1>2 DEF Sites
<1>4. PICK m : m = Put(s.places, x.id, y)
  OBVIOUS
<1>5. /\ t = [s EXCEPT !.places = m]
      /\ x.id \in DOMAIN s.places \/ Cardinality(DOMAIN s.places) < MaxPlaces
  BY <1>a, <1>2, <1>4 DEF ApplyPlace, When
<1>6. m \in Map(Texts, Sites) /\ DOMAIN m = DOMAIN s.places \cup {x.id}
  <2>1. PutsInto(Texts, Sites)
    BY PutProperties
  <2>2. /\ Put(s.places, x.id, y) \in Map(Texts, Sites) /\ DOMAIN Put(s.places, x.id, y) = DOMAIN s.places \cup {x.id}
        /\ Put(s.places, x.id, y)[x.id] = y
        /\ \A id \in DOMAIN s.places : id # x.id => Put(s.places, x.id, y)[id] = s.places[id]
    BY <1>1, <1>3, <2>1, Zenon DEF PutsInto
  <2> QED
    BY <1>4, <2>2
<1>7. t \in Warehouses /\ SameHistory(t, s) /\ t.places = m /\ t.items = s.items /\ t.stocks = s.stocks /\ t.seen = s.seen
  BY <1>1, <1>5, <1>6 DEF Warehouses, SameHistory
<1>8. InSegments(t) /\ Replayed(t) /\ AllEvents(t) = AllEvents(s)
  <2>1. InSegments(s) /\ Replayed(s) /\ Len(s.seen) <= RecentLimit
    BY DEF Sound, InSegments
  <2> QED
    BY <1>6, <1>7, <2>1, StillReplayed
<1>9. IsFiniteSet(DOMAIN m) /\ Cardinality(DOMAIN m) \in 1..MaxPlaces
  <2>1. IsFiniteSet(DOMAIN s.places) /\ Cardinality(DOMAIN s.places) \in 1..MaxPlaces /\ MaxPlaces \in Nat
    BY DomainAssumption DEF Sound
  <2>2. IsFiniteSet(DOMAIN m) /\ Cardinality(DOMAIN m) = IF x.id \in DOMAIN s.places THEN Cardinality(DOMAIN s.places) ELSE Cardinality(DOMAIN s.places) + 1
    BY <1>6, <2>1, FS_AddElement
  <2> QED
    BY <1>5, <2>1, <2>2
<1> QED
  BY <1>7, <1>8, <1>9 DEF Sound, CodesFree

LEMMA SpaceSound ==
    ASSUME NEW s, Sound(s), NEW c, c.space \in Texts, NEW t \in ApplySpace(s, c, Me)
    PROVE  Sound(t) /\ AllEvents(t) = AllEvents(s)
<1>1. s \in Warehouses /\ t = [s EXCEPT !.space = c.space]
  BY DEF Sound, ApplySpace, When
<1>2. /\ t \in Warehouses /\ SameHistory(t, s) /\ t.places = s.places /\ t.items = s.items
      /\ t.stocks = s.stocks /\ t.seen = s.seen
  BY <1>1 DEF Warehouses, SameHistory
<1>3. InSegments(t) /\ Replayed(t) /\ AllEvents(t) = AllEvents(s)
  <2>1. InSegments(s) /\ Replayed(s) /\ Len(s.seen) <= RecentLimit
    BY DEF Sound, InSegments
  <2> QED
    BY <1>2, <2>1, StillReplayed
<1> QED
  BY <1>2, <1>3 DEF Sound, CodesFree

-----------------------------------------------------------------------------
(* Commands keep a warehouse sound *)

LEMMA MoveSound ==
    ASSUME NEW s, Sound(s), NEW c \in Movements, NEW t \in ApplyMove(s, c, Me)
    PROVE  /\ Sound(t)
           /\ \E e \in Events : e.id = c.id /\ AllEvents(t) = Append(AllEvents(s), e)
<1>1. c.itemId \in DOMAIN s.items /\ t \in Record(s, Event(c, c.itemId, c.id, ChangesOf(s, c)))
  BY DEF ApplyMove
<1>2. PICK cs : cs = ChangesOf(s, c)
  OBVIOUS
<1>3. /\ c.type \in Moves /\ c.id \in Texts /\ c.itemId \in Texts
      /\ c.from \in Texts /\ c.to \in Texts /\ c.qty \in Nat
  BY DEF Movements
<1>4. StockAt(s, c.itemId, c.to).qty \in Int
  <2>1. StockAt(s, c.itemId, c.to) = At(s.stocks, <<c.itemId, c.to>>)
    BY DEF StockAt, At
  <2>2. s.stocks \in Stocks /\ MaxQty \in Nat
    BY DomainAssumption DEF Sound, Warehouses
  <2>3. At(s.stocks, <<c.itemId, c.to>>) \in [qty : 0..MaxQty, version : Nat]
    BY <2>2, AtType
  <2> QED
    BY <2>1, <2>2, <2>3
<1>5. cs \in Seq(Changes) /\ Len(cs) \in 1..2 /\ \A i \in DOMAIN cs : cs[i].item = c.itemId
  <2>1. CASE c.type = "in"
    <3>1. cs = <<Change(c.itemId, c.to, c.qty)>>
      BY <1>2, <2>1 DEF ChangesOf
    <3> QED
      BY <1>3, <3>1 DEF Change, Changes
  <2>2. CASE c.type = "out"
    <3>1. cs = <<Change(c.itemId, c.from, -c.qty)>>
      BY <1>2, <2>2 DEF ChangesOf
    <3> QED
      BY <1>3, <3>1 DEF Change, Changes
  <2>3. CASE c.type = "transfer"
    <3>1. cs = <<Change(c.itemId, c.from, -c.qty), Change(c.itemId, c.to, c.qty)>>
      BY <1>2, <2>3 DEF ChangesOf
    <3> QED
      BY <1>3, <3>1 DEF Change, Changes
  <2>4. CASE c.type = "count"
    <3>1. cs = <<Change(c.itemId, c.to, c.qty - StockAt(s, c.itemId, c.to).qty)>>
      BY <1>2, <2>4 DEF ChangesOf
    <3> QED
      BY <1>3, <1>4, <3>1 DEF Change, Changes
  <2> QED
    BY <1>3, <2>1, <2>2, <2>3, <2>4 DEF Moves
<1>6. PICK e : e = Event(c, c.itemId, c.id, cs)
  OBVIOUS
<1>7. GoodEvent(e, s.items) /\ e \in Events /\ e.id = c.id
  BY <1>1, <1>3, <1>5, <1>6 DEF Event, Events, GoodEvent
<1>8. t \in Record(s, e)
  BY <1>1, <1>2, <1>6
<1> QED
  BY <1>7, <1>8, RecordSound

\* Every event of a sound warehouse is of one of its cards.
LEMMA SoundEvents ==
    ASSUME NEW s, Sound(s)
    PROVE  \A n \in 1..HistoryCount(s) : AllEvents(s)[n] \in Events /\ GoodEvent(AllEvents(s)[n], s.items)
<1>1. PICK f : Runs(f, AllEvents(s), s.items, s.places)
  BY DEF Sound, Replayed
<1> QED
  BY <1>1 DEF Runs, RunTo, HistoryCount, GoodEvent

LEMMA ReverseSound ==
    ASSUME NEW s, Sound(s), NEW c, c.type = "reverse", c.id \in Texts, c.ref \in Texts,
           NEW t \in ApplyReverse(s, c, Me)
    PROVE  /\ Sound(t)
           /\ \E e \in Events : e.id = c.id /\ AllEvents(t) = Append(AllEvents(s), e)
<1> DEFINE found == {n \in 1..HistoryCount(s) : AllEvents(s)[n].id = c.ref}
<1>1. PICK n : n = Min(found)
  OBVIOUS
<1>2. PICK original : original = AllEvents(s)[n]
  OBVIOUS
<1>3. PICK back : back = [i \in DOMAIN original.changes |-> [original.changes[i] EXCEPT !.qty = -@]]
  OBVIOUS
<1>4. PICK e : e = Event(c, original.item, c.ref, back)
  OBVIOUS
<1>5. found # {} /\ t \in Record(s, e)
  BY <1>1, <1>2, <1>3, <1>4 DEF ApplyReverse
<1>6. n \in 1..HistoryCount(s)
  <2>1. HistoryCount(s) \in Nat
    BY HistoryType DEF Sound
  <2>2. found \subseteq Nat
    BY <2>1
  <2>3. \E m \in found : \A k \in found : m <= k
    <3> HIDE DEF found
    <3> QED
      BY <1>5, <2>2, Least
  <2>4. n \in found
    <3> HIDE DEF found
    <3> QED
      BY <1>1, <2>3, Zenon DEF Min
  <2> QED
    BY <2>4
<1>7. original \in Events /\ GoodEvent(original, s.items)
  BY <1>2, <1>6, SoundEvents
<1>8. PICK cs \in Seq(Changes) : cs = original.changes
  BY <1>7 DEF Events
<1>9. PICK N \in 1..2 : N = Len(cs)
  BY <1>7, <1>8 DEF GoodEvent
<1>10. back \in Seq(Changes) /\ Len(back) = N /\ \A i \in DOMAIN back : back[i].item = original.item
  <2>1. DOMAIN cs = 1..N /\ \A i \in 1..N : cs[i] \in Changes /\ cs[i].item = original.item
    BY <1>7, <1>8, <1>9, LenProperties DEF GoodEvent
  <2>2. \A d \in Changes : [d EXCEPT !.qty = -@] \in Changes /\ [d EXCEPT !.qty = -@].item = d.item
    BY DEF Changes
  <2>3. back = [i \in 1..N |-> [cs[i] EXCEPT !.qty = -@]]
    BY <1>3, <1>8, <2>1
  <2>4. \A i \in 1..N : back[i] \in Changes /\ back[i].item = original.item
    BY <2>1, <2>2, <2>3
  <2>5. back \in [1..N -> Changes]
    BY <2>3, <2>4
  <2>6. back \in Seq(Changes) /\ Len(back) = N
    <3>1. N \in Nat
      OBVIOUS
    <3> QED
      BY <2>5, <3>1
  <2> QED
    BY <2>3, <2>4, <2>6
<1>11. e \in Events /\ GoodEvent(e, s.items) /\ e.id = c.id
  <2>1. e = [id |-> c.id, kind |-> "reverse", item |-> original.item, ref |-> c.ref, changes |-> back]
    BY <1>4 DEF Event
  <2>2. original.item \in Texts /\ original.item \in DOMAIN s.items
    BY <1>7 DEF GoodEvent, Events
  <2>4. e \in Events
    BY <1>10, <2>1, <2>2 DEF Events
  <2>5. Len(back) \in 1..2
    BY <1>10
  <2> QED
    BY <1>10, <2>1, <2>2, <2>4, <2>5 DEF GoodEvent
<1> QED
  BY <1>5, <1>11, RecordSound

Adds(t, s, c) ==
    \/ AllEvents(t) = AllEvents(s)
    \/ /\ c.type \in Moves \cup {"reverse"}
       /\ \E e \in Events : e.id = c.id /\ AllEvents(t) = Append(AllEvents(s), e)

LEMMA CommandSound ==
    ASSUME NEW s, Sound(s), NEW c \in Singles, NEW t \in ApplyCommand(s, c, Me)
    PROVE  Sound(t) /\ Adds(t, s, c)
<1>1. CASE c \in Movements
  <2>1. c.type \in Moves
    BY <1>1 DEF Movements
  <2>2. t \in ApplyMove(s, c, Me)
    BY <2>1 DEF ApplyCommand, Moves
  <2> QED
    BY <1>1, <2>1, <2>2, MoveSound DEF Adds
<1>2. CASE c \in [type : {"item"}, id : Texts, item : Cards]
  <2>0. c.type = "item" /\ c.item \in Cards
    BY <1>2
  <2>1. c.item \in Cards /\ t \in ApplyItem(s, c, Me)
    BY <2>0 DEF ApplyCommand, Moves
  <2>2. Priced(s, c.item, Me) \in Cards /\ t \in ValidateItem(s, Priced(s, c.item, Me))
    BY <2>1, PricedType DEF ApplyItem, Sound
  <2> QED
    BY <2>2, ItemSound DEF Adds
<1>3. CASE c \in [type : {"place"}, id : Texts, place : Sites]
  <2>0. c.type = "place" /\ c.place \in Sites
    BY <1>3
  <2>1. c.place \in Sites /\ t \in ApplyPlace(s, c, Me)
    BY <2>0 DEF ApplyCommand, Moves
  <2> QED
    BY <2>1, PlaceSound DEF Adds
<1>4. CASE c \in [type : {"space"}, id : Texts, space : Texts]
  <2>0. c.type = "space" /\ c.space \in Texts
    BY <1>4
  <2>1. c.space \in Texts /\ t \in ApplySpace(s, c, Me)
    BY <2>0 DEF ApplyCommand, Moves
  <2> QED
    BY <2>1, SpaceSound DEF Adds
<1>5. CASE c \in [type : {"reverse"}, id : Texts, ref : Texts]
  <2>0. c.type = "reverse" /\ c.id \in Texts /\ c.ref \in Texts
    BY <1>5
  <2>1. c.type = "reverse" /\ c.id \in Texts /\ c.ref \in Texts /\ t \in ApplyReverse(s, c, Me)
    BY <2>0 DEF ApplyCommand, Moves
  <2> QED
    BY <2>1, ReverseSound DEF Adds
<1> QED
  BY <1>1, <1>2, <1>3, <1>4, <1>5 DEF Singles

-----------------------------------------------------------------------------
(* Rules applied in turn *)

\* The cards of an import, one after the other.
Imported(after, X, s, seq, N) ==
    /\ after \in [0..N -> SUBSET X] /\ after[0] = {s}
    /\ InTurn(ImportItem, s, seq) = after[N]
    /\ \A n \in 1..N : after[n] = UNION {ImportItem(t, seq[n]) : t \in after[n - 1]}

LEMMA ImportsInTurn ==
    ASSUME NEW X, NEW s \in X, NEW seq, NEW N \in Nat, Len(seq) = N,
           \A n \in 1..N : \A t \in X : ImportItem(t, seq[n]) \subseteq X
    PROVE  \E after : Imported(after, X, s, seq, N)
<1> DEFINE Then(T, n) == UNION {ImportItem(t, seq[n]) : t \in T}
           G == [n \in 1..N |-> [T \in SUBSET X |-> Then(T, n)]]
           c == CHOOSE h : h = [n \in 0..N |-> IF n = 0 THEN {s} ELSE Then(h[n - 1], n)]
<1>1. G \in [1..N -> [SUBSET X -> SUBSET X]]
  <2>1. \A n \in 1..N, T \in SUBSET X : Then(T, n) \in SUBSET X
    OBVIOUS
  <2> HIDE DEF Then
  <2> QED
    BY <2>1
<1>2. PICK f \in [0..N -> SUBSET X] : Iterates(f, {s}, G, N)
  <2>1. {s} \in SUBSET X
    OBVIOUS
  <2> HIDE DEF G
  <2> QED
    BY <1>1, <2>1, IteratesExist
<1>3. InTurn(ImportItem, s, seq) = c[N]
  BY Zenon DEF InTurn
<1> HIDE DEF c, Then
<1>4. \A n \in 1..N : n - 1 \in 0..N /\ n \in 0..N /\ f[n] = Then(f[n - 1], n)
  <2>1. \A n \in 1..N : n - 1 \in 0..N /\ n \in 0..N
    OBVIOUS
  <2>2. \A n \in 1..N : f[n - 1] \in SUBSET X
    BY <2>1
  <2>3. \A n \in 1..N : G[n][f[n - 1]] = Then(f[n - 1], n)
    BY <2>2
  <2> HIDE DEF G
  <2> QED
    BY <1>2, <2>1, <2>3 DEF Iterates
<1>5. f[0] = {s}
  BY <1>2 DEF Iterates
<1>6. f = [n \in 0..N |-> IF n = 0 THEN {s} ELSE Then(f[n - 1], n)]
  <2>1. \A n \in 0..N : n = 0 \/ n \in 1..N
    OBVIOUS
  <2> QED
    BY <1>4, <1>5, <2>1
<1>7. c = [n \in 0..N |-> IF n = 0 THEN {s} ELSE Then(c[n - 1], n)]
  BY <1>6, Zenon DEF c
<1>8. c = f
  <2> DEFINE T == {n \in 0..N : c[n] # f[n]}
  <2>1. T = {}
    <3> SUFFICES ASSUME T # {} PROVE FALSE
      OBVIOUS
    <3>1. PICK n \in T : \A m \in T : n <= m
      <4>1. T \subseteq Nat
        OBVIOUS
      <4> QED
        BY <4>1, Least
    <3>2. n # 0
      BY <1>5, <1>7, <3>1
    <3>3. n - 1 \in 0..N /\ n - 1 \notin T /\ n \in 1..N
      <4>1. n \in 0..N
        OBVIOUS
      <4>2. n - 1 \in 0..N /\ ~(n <= n - 1) /\ n \in 1..N
        BY <3>2, <4>1
      <4> QED
        BY <3>1, <4>2
    <3>4. c[n] = Then(c[n - 1], n)
      BY <1>7, <3>2
    <3> QED
      BY <1>4, <3>1, <3>3, <3>4
  <2>2. \A n \in 0..N : c[n] = f[n]
    BY <2>1
  <2>3. f = [n \in 0..N |-> f[n]]
    OBVIOUS
  <2>4. c = [n \in 0..N |-> c[n]]
    BY <1>7
  <2> QED
    BY <2>2, <2>3, <2>4
<1> QED
  BY <1>3, <1>4, <1>5, <1>8 DEF Then, Imported

\* The rows of a document.
RowsDone(after, X, s, seq, N) ==
    /\ after \in [0..N -> SUBSET X] /\ after[0] = {s}
    /\ InTurn(LAMBDA u, row : ApplyCommand(u, row, Me), s, seq) = after[N]
    /\ \A n \in 1..N : after[n] = UNION {ApplyCommand(t, seq[n], Me) : t \in after[n - 1]}

LEMMA RowsInTurn ==
    ASSUME NEW X, NEW s \in X, NEW seq, NEW N \in Nat, Len(seq) = N,
           \A n \in 1..N : \A t \in X : ApplyCommand(t, seq[n], Me) \subseteq X
    PROVE  \E after : RowsDone(after, X, s, seq, N)
<1> DEFINE Then(T, n) == UNION {ApplyCommand(t, seq[n], Me) : t \in T}
           G == [n \in 1..N |-> [T \in SUBSET X |-> Then(T, n)]]
           c == CHOOSE h : h = [n \in 0..N |-> IF n = 0 THEN {s} ELSE Then(h[n - 1], n)]
<1>1. G \in [1..N -> [SUBSET X -> SUBSET X]]
  <2>1. \A n \in 1..N, T \in SUBSET X : Then(T, n) \in SUBSET X
    OBVIOUS
  <2> HIDE DEF Then
  <2> QED
    BY <2>1
<1>2. PICK f \in [0..N -> SUBSET X] : Iterates(f, {s}, G, N)
  <2>1. {s} \in SUBSET X
    OBVIOUS
  <2> HIDE DEF G
  <2> QED
    BY <1>1, <2>1, IteratesExist
<1>3. InTurn(LAMBDA u, row : ApplyCommand(u, row, Me), s, seq) = c[N]
  BY Zenon DEF InTurn
<1> HIDE DEF c, Then
<1>4. \A n \in 1..N : n - 1 \in 0..N /\ n \in 0..N /\ f[n] = Then(f[n - 1], n)
  <2>1. \A n \in 1..N : n - 1 \in 0..N /\ n \in 0..N
    OBVIOUS
  <2>2. \A n \in 1..N : f[n - 1] \in SUBSET X
    BY <2>1
  <2>3. \A n \in 1..N : G[n][f[n - 1]] = Then(f[n - 1], n)
    BY <2>2
  <2> HIDE DEF G
  <2> QED
    BY <1>2, <2>1, <2>3 DEF Iterates
<1>5. f[0] = {s}
  BY <1>2 DEF Iterates
<1>6. f = [n \in 0..N |-> IF n = 0 THEN {s} ELSE Then(f[n - 1], n)]
  <2>1. \A n \in 0..N : n = 0 \/ n \in 1..N
    OBVIOUS
  <2> QED
    BY <1>4, <1>5, <2>1
<1>7. c = [n \in 0..N |-> IF n = 0 THEN {s} ELSE Then(c[n - 1], n)]
  BY <1>6, Zenon DEF c
<1>8. c = f
  <2> DEFINE T == {n \in 0..N : c[n] # f[n]}
  <2>1. T = {}
    <3> SUFFICES ASSUME T # {} PROVE FALSE
      OBVIOUS
    <3>1. PICK n \in T : \A m \in T : n <= m
      <4>1. T \subseteq Nat
        OBVIOUS
      <4> QED
        BY <4>1, Least
    <3>2. n # 0
      BY <1>5, <1>7, <3>1
    <3>3. n - 1 \in 0..N /\ n - 1 \notin T /\ n \in 1..N
      <4>1. n \in 0..N
        OBVIOUS
      <4>2. n - 1 \in 0..N /\ ~(n <= n - 1) /\ n \in 1..N
        BY <3>2, <4>1
      <4> QED
        BY <3>1, <4>2
    <3>4. c[n] = Then(c[n - 1], n)
      BY <1>7, <3>2
    <3> QED
      BY <1>4, <3>1, <3>3, <3>4
  <2>2. \A n \in 0..N : c[n] = f[n]
    BY <2>1
  <2>3. f = [n \in 0..N |-> f[n]]
    OBVIOUS
  <2>4. c = [n \in 0..N |-> c[n]]
    BY <1>7
  <2> QED
    BY <2>2, <2>3, <2>4
<1> QED
  BY <1>3, <1>4, <1>5, <1>8 DEF Then, RowsDone

\* The events of a copy.
ReplayedIn(after, X, s, seq, N) ==
    /\ after \in [0..N -> SUBSET X] /\ after[0] = {s}
    /\ InTurn(ReplayEvent, s, seq) = after[N]
    /\ \A n \in 1..N : after[n] = UNION {ReplayEvent(t, seq[n]) : t \in after[n - 1]}

LEMMA ReplayInTurn ==
    ASSUME NEW X, NEW s \in X, NEW seq, NEW N \in Nat, Len(seq) = N,
           \A n \in 1..N : \A t \in X : ReplayEvent(t, seq[n]) \subseteq X
    PROVE  \E after : ReplayedIn(after, X, s, seq, N)
<1> DEFINE Then(T, n) == UNION {ReplayEvent(t, seq[n]) : t \in T}
           G == [n \in 1..N |-> [T \in SUBSET X |-> Then(T, n)]]
           c == CHOOSE h : h = [n \in 0..N |-> IF n = 0 THEN {s} ELSE Then(h[n - 1], n)]
<1>1. G \in [1..N -> [SUBSET X -> SUBSET X]]
  <2>1. \A n \in 1..N, T \in SUBSET X : Then(T, n) \in SUBSET X
    OBVIOUS
  <2> HIDE DEF Then
  <2> QED
    BY <2>1
<1>2. PICK f \in [0..N -> SUBSET X] : Iterates(f, {s}, G, N)
  <2>1. {s} \in SUBSET X
    OBVIOUS
  <2> HIDE DEF G
  <2> QED
    BY <1>1, <2>1, IteratesExist
<1>3. InTurn(ReplayEvent, s, seq) = c[N]
  BY Zenon DEF InTurn
<1> HIDE DEF c, Then
<1>4. \A n \in 1..N : n - 1 \in 0..N /\ n \in 0..N /\ f[n] = Then(f[n - 1], n)
  <2>1. \A n \in 1..N : n - 1 \in 0..N /\ n \in 0..N
    OBVIOUS
  <2>2. \A n \in 1..N : f[n - 1] \in SUBSET X
    BY <2>1
  <2>3. \A n \in 1..N : G[n][f[n - 1]] = Then(f[n - 1], n)
    BY <2>2
  <2> HIDE DEF G
  <2> QED
    BY <1>2, <2>1, <2>3 DEF Iterates
<1>5. f[0] = {s}
  BY <1>2 DEF Iterates
<1>6. f = [n \in 0..N |-> IF n = 0 THEN {s} ELSE Then(f[n - 1], n)]
  <2>1. \A n \in 0..N : n = 0 \/ n \in 1..N
    OBVIOUS
  <2> QED
    BY <1>4, <1>5, <2>1
<1>7. c = [n \in 0..N |-> IF n = 0 THEN {s} ELSE Then(c[n - 1], n)]
  BY <1>6, Zenon DEF c
<1>8. c = f
  <2> DEFINE T == {n \in 0..N : c[n] # f[n]}
  <2>1. T = {}
    <3> SUFFICES ASSUME T # {} PROVE FALSE
      OBVIOUS
    <3>1. PICK n \in T : \A m \in T : n <= m
      <4>1. T \subseteq Nat
        OBVIOUS
      <4> QED
        BY <4>1, Least
    <3>2. n # 0
      BY <1>5, <1>7, <3>1
    <3>3. n - 1 \in 0..N /\ n - 1 \notin T /\ n \in 1..N
      <4>1. n \in 0..N
        OBVIOUS
      <4>2. n - 1 \in 0..N /\ ~(n <= n - 1) /\ n \in 1..N
        BY <3>2, <4>1
      <4> QED
        BY <3>1, <4>2
    <3>4. c[n] = Then(c[n - 1], n)
      BY <1>7, <3>2
    <3> QED
      BY <1>4, <3>1, <3>3, <3>4
  <2>2. \A n \in 0..N : c[n] = f[n]
    BY <2>1
  <2>3. f = [n \in 0..N |-> f[n]]
    OBVIOUS
  <2>4. c = [n \in 0..N |-> c[n]]
    BY <1>7
  <2> QED
    BY <2>2, <2>3, <2>4
<1> QED
  BY <1>3, <1>4, <1>5, <1>8 DEF Then, ReplayedIn

-----------------------------------------------------------------------------
(* Histories that grow *)

Ids(h) == {h[n].id : n \in 1..Len(h)}

\* No two events have the same identifier.
DistinctIds(h) == \A m, n \in 1..Len(h) : h[m].id = h[n].id => m = n

\* k is h with events of the identifiers I after it.
Extends(k, h, I) ==
    /\ Len(h) <= Len(k) /\ \A n \in 1..Len(h) : k[n] = h[n]
    /\ \A n \in (Len(h) + 1)..Len(k) : k[n].id \in I

LEMMA ExtendsItself ==
    ASSUME NEW h \in Seq(Events), NEW I
    PROVE  Extends(h, h, I)
<1>1. PICK N \in Nat : N = Len(h)
  BY LenProperties
<1> QED
  BY <1>1 DEF Extends

LEMMA ExtendsByOne ==
    ASSUME NEW g \in Seq(Events), NEW h \in Seq(Events), NEW I, NEW J, Extends(h, g, I), I \subseteq J,
           NEW e \in Events, e.id \in J
    PROVE  Extends(Append(h, e), g, J)
<1>1. PICK M \in Nat, N \in Nat : M = Len(g) /\ N = Len(h)
  BY LenProperties
<1>2. PICK k : k = Append(h, e)
  OBVIOUS
<1>3. Len(k) = N + 1 /\ k[N + 1] = e /\ \A n \in 1..N : k[n] = h[n]
  BY <1>1, <1>2, AppendProperties
<1>4. M <= N /\ (\A n \in 1..M : h[n] = g[n]) /\ \A n \in (M + 1)..N : h[n].id \in I
  BY <1>1 DEF Extends
<1>5. \A n \in 1..M : k[n] = g[n]
  <2>1. \A n \in 1..M : n \in 1..N
    BY <1>4
  <2> QED
    BY <1>3, <1>4, <2>1
<1>6. \A n \in (M + 1)..(N + 1) : k[n].id \in J
  <2>1. \A n \in (M + 1)..(N + 1) : (n \in (M + 1)..N /\ n \in 1..N) \/ n = N + 1
    OBVIOUS
  <2> QED
    BY <1>3, <1>4, <2>1
<1>7. M <= N + 1
  BY <1>4
<1> QED
  BY <1>1, <1>2, <1>3, <1>5, <1>6, <1>7 DEF Extends

LEMMA ExtendsMore ==
    ASSUME NEW g, NEW h, NEW I, NEW J, Extends(h, g, I), I \subseteq J
    PROVE  Extends(h, g, J)
  BY DEF Extends

LEMMA DistinctByOne ==
    ASSUME NEW h \in Seq(Events), DistinctIds(h), NEW e, e \in Events, e.id \notin Ids(h)
    PROVE  DistinctIds(Append(h, e)) /\ Ids(Append(h, e)) = Ids(h) \cup {e.id}
<1>1. PICK N \in Nat : N = Len(h)
  BY LenProperties
<1>2. PICK k : k = Append(h, e)
  OBVIOUS
<1>3. Len(k) = N + 1 /\ k[N + 1] = e /\ \A n \in 1..N : k[n] = h[n]
  BY <1>1, <1>2, AppendProperties
<1>4. \A n \in 1..(N + 1) : n \in 1..N \/ n = N + 1
  OBVIOUS
<1>5. DistinctIds(k)
  <2> SUFFICES ASSUME NEW m \in 1..(N + 1), NEW n \in 1..(N + 1), k[m].id = k[n].id
               PROVE  m = n
    BY <1>3 DEF DistinctIds
  <2>1. CASE m \in 1..N /\ n \in 1..N
    BY <1>1, <1>3, <2>1 DEF DistinctIds
  <2>2. CASE m = N + 1 /\ n \in 1..N
    BY <1>1, <1>3, <2>2 DEF Ids
  <2>3. CASE n = N + 1 /\ m \in 1..N
    BY <1>1, <1>3, <2>3 DEF Ids
  <2> QED
    BY <1>4, <2>1, <2>2, <2>3
<1>6. Ids(k) = Ids(h) \cup {e.id}
  <2>1. Ids(h) = {h[n].id : n \in 1..N} /\ Ids(k) = {k[n].id : n \in 1..(N + 1)}
    BY <1>1, <1>3 DEF Ids
  <2>2. N + 1 \in 1..(N + 1) /\ \A n \in 1..N : n \in 1..(N + 1)
    OBVIOUS
  <2> QED
    BY <1>3, <1>4, <2>1, <2>2
<1> QED
  BY <1>2, <1>5, <1>6

LEMMA EventSetIds ==
    ASSUME NEW s, AllEvents(s) \in Seq(Events)
    PROVE  {e.id : e \in EventSet(s)} = Ids(AllEvents(s))
<1>1. AllEvents(s) \in Seq(Events)
  OBVIOUS
<1>2. EventSet(s) = {AllEvents(s)[n] : n \in 1..Len(AllEvents(s))}
  <2>1. DOMAIN AllEvents(s) = 1..Len(AllEvents(s))
    BY <1>1, LenProperties
  <2> QED
    BY <2>1 DEF EventSet, ToSet
<1> QED
  BY <1>2 DEF Ids

-----------------------------------------------------------------------------
(* Imports, documents and the whole of a command *)

LEMMA ImportSound ==
    ASSUME NEW s, Sound(s), NEW c, c.items \in Seq(Cards), NEW t \in ImportedItems(s, c, Me)
    PROVE  Sound(t) /\ AllEvents(t) = AllEvents(s)
<1>1. PICK seq : seq = [i \in DOMAIN c.items |-> Priced(s, c.items[i], Me)]
  OBVIOUS
<1>2. t \in InTurn(ImportItem, s, seq)
  BY <1>1 DEF ImportedItems
<1>3. PICK N \in Nat : N = Len(c.items)
  BY LenProperties
<1>4. seq \in [1..N -> Cards]
  <2>1. DOMAIN c.items = 1..N /\ \A i \in 1..N : c.items[i] \in Cards
    BY <1>3, LenProperties, ElementOfSeq
  <2>2. \A i \in 1..N : Priced(s, c.items[i], Me) \in Cards
    BY <2>1, PricedType DEF Sound
  <2> QED
    BY <1>1, <2>1, <2>2
<1>5. Len(seq) = N
  BY <1>4
<1> DEFINE X == {u \in Warehouses : Sound(u) /\ AllEvents(u) = AllEvents(s)}
<1>6. s \in X
  BY DEF Sound
<1>7. ASSUME NEW n \in 1..N, NEW u \in X PROVE ImportItem(u, seq[n]) \subseteq X
  <2>1. seq[n] \in Cards /\ Sound(u) /\ AllEvents(u) = AllEvents(s)
    BY <1>4
  <2>2. ASSUME NEW w \in ImportItem(u, seq[n]) PROVE w \in X
    <3>1. w \in ValidateItem(u, seq[n])
      BY <2>2 DEF ImportItem
    <3>2. Sound(w) /\ AllEvents(w) = AllEvents(u)
      BY <2>1, <3>1, ItemSound
    <3> QED
      BY <2>1, <3>2 DEF Sound
  <2> QED
    BY <2>2
<1>8. InTurn(ImportItem, s, seq) \subseteq X
  <2> HIDE DEF X
  <2>1. \A n \in 1..N : \A u \in X : ImportItem(u, seq[n]) \subseteq X
    BY <1>7
  <2>2. PICK after : Imported(after, X, s, seq, N)
    BY <1>5, <1>6, <2>1, ImportsInTurn
  <2> QED
    BY <2>2 DEF Imported
<1> QED
  BY <1>2, <1>8

LEMMA BatchSound ==
    ASSUME NEW s, Sound(s), DistinctIds(AllEvents(s)), NEW c \in Documents, NEW t \in ApplyBatch(s, c, Me)
    PROVE  /\ Sound(t) /\ DistinctIds(AllEvents(t))
           /\ Extends(AllEvents(t), AllEvents(s), EventIds(c))
<1>1. c.commands \in Seq(Singles) /\ c.type = "batch"
  BY DEF Documents
<1>2. PICK rows \in Seq(Singles) : rows = c.commands
  BY <1>1
<1>3. PICK N \in Nat : N = Len(rows) /\ DOMAIN rows = 1..N
  BY LenProperties
<1>4. t \in InTurn(LAMBDA u, row : ApplyCommand(u, row, Me), s, rows) /\ \A n \in 1..N : FreshRow(s, c, n)
  BY <1>2, <1>3 DEF ApplyBatch
<1>5. \A n \in 1..N : rows[n] \in Singles
  BY <1>3, ElementOfSeq
<1> DEFINE X == {u \in Warehouses : Sound(u)}
<1>6. s \in X
  BY DEF Sound
<1>7. ASSUME NEW n \in 1..N, NEW u \in X PROVE ApplyCommand(u, rows[n], Me) \subseteq X
  <2>1. ASSUME NEW w \in ApplyCommand(u, rows[n], Me) PROVE w \in X
    <3>1. Sound(w)
      BY <1>5, <2>1, CommandSound
    <3> QED
      BY <3>1 DEF Sound
  <2> QED
    BY <2>1
<1>8. PICK after \in [0..N -> SUBSET X] :
         /\ after[0] = {s} /\ InTurn(LAMBDA u, row : ApplyCommand(u, row, Me), s, rows) = after[N]
         /\ \A n \in 1..N : after[n] = UNION {ApplyCommand(u, rows[n], Me) : u \in after[n - 1]}
  <2> HIDE DEF X
  <2>1. \A n \in 1..N : \A u \in X : ApplyCommand(u, rows[n], Me) \subseteq X
    BY <1>7
  <2> QED
    <3>1. \E f : RowsDone(f, X, s, rows, N)
      BY <1>3, <1>6, <2>1, RowsInTurn
    <3> QED
      BY <3>1 DEF RowsDone
<1> DEFINE First(n) == {rows[k].id : k \in 1..n}
           Grown(u, n) == DistinctIds(AllEvents(u)) /\ Extends(AllEvents(u), AllEvents(s), First(n))
                          /\ Ids(AllEvents(u)) \subseteq Ids(AllEvents(s)) \cup First(n)
           T == {n \in 0..N : ~ \A u \in after[n] : Grown(u, n)}
<1>9. T = {}
  <2> SUFFICES ASSUME T # {} PROVE FALSE
    OBVIOUS
  <2>1. PICK n \in T : \A m \in T : n <= m
    <3>1. T \subseteq Nat
      OBVIOUS
    <3> HIDE DEF T
    <3> QED
      BY <3>1, Least
  <2>2. n # 0
    <3>1. SUFFICES Grown(s, 0)
      BY <1>8, <2>1
    <3>2. AllEvents(s) \in Seq(Events)
      BY HistoryType DEF Sound
    <3> QED
      BY <3>2, ExtendsItself
  <2>3. n \in 1..N /\ n - 1 \in 0..N /\ n - 1 \notin T
    <3>1. n \in 0..N
      OBVIOUS
    <3>2. n \in 1..N /\ n - 1 \in 0..N /\ ~(n <= n - 1)
      BY <2>2, <3>1
    <3> QED
      BY <2>1, <3>2
  <2>4. PICK w \in after[n] : ~Grown(w, n)
    BY <2>1
  <2>5. PICK u \in after[n - 1] : w \in ApplyCommand(u, rows[n], Me)
    <3>1. after[n] = UNION {ApplyCommand(u, rows[n], Me) : u \in after[n - 1]}
      BY <1>8, <2>3
    <3>2. w \in UNION {ApplyCommand(u, rows[n], Me) : u \in after[n - 1]}
      BY <2>4, <3>1
    <3> HIDE DEF T, X
    <3> QED
      BY <3>2
  <2>6. Grown(u, n - 1) /\ Sound(u) /\ AllEvents(u) \in Seq(Events) /\ AllEvents(s) \in Seq(Events)
    <3>1. u \in X
      BY <2>3
    <3>2. Sound(u) /\ AllEvents(u) \in Seq(Events) /\ AllEvents(s) \in Seq(Events)
      BY <3>1, HistoryType DEF Sound
    <3>3. Grown(u, n - 1)
      BY <2>3
    <3> QED
      BY <3>2, <3>3
  <2>7. Adds(w, u, rows[n])
    BY <1>5, <2>3, <2>5, <2>6, CommandSound
  <2>8. First(n) = First(n - 1) \cup {rows[n].id}
    <3>1. \A k \in 1..n : k \in 1..(n - 1) \/ k = n
      BY <2>3
    <3>2. n \in 1..n /\ \A k \in 1..(n - 1) : k \in 1..n
      BY <2>3
    <3> QED
      BY <3>1, <3>2
  <2>9. rows[n].id \notin Ids(AllEvents(s)) \cup First(n - 1)
    <3>1. FreshRow(s, c, n)
      BY <1>4, <2>3
    <3>2. {e.id : e \in EventSet(s)} = Ids(AllEvents(s))
      BY EventSetIds, HistoryType DEF Sound
    <3> QED
      BY <1>2, <3>1, <3>2 DEF FreshRow
  <2>10. CASE AllEvents(w) = AllEvents(u)
    <3>1. Extends(AllEvents(w), AllEvents(s), First(n))
      <4>1. First(n - 1) \subseteq First(n)
        BY <2>8
      <4> HIDE DEF First
      <4> QED
        BY <2>6, <2>10, <4>1, ExtendsMore
    <3> HIDE DEF First
    <3> QED
      BY <2>4, <2>6, <2>8, <2>10, <3>1
  <2>11. CASE AllEvents(w) # AllEvents(u)
    <3>1. PICK e \in Events : e.id = rows[n].id /\ AllEvents(w) = Append(AllEvents(u), e)
      BY <2>7, <2>11 DEF Adds
    <3> HIDE DEF First
    <3>2. e.id \notin Ids(AllEvents(u))
      BY <2>6, <2>9, <3>1
    <3>3. DistinctIds(AllEvents(w)) /\ Ids(AllEvents(w)) = Ids(AllEvents(u)) \cup {e.id}
      BY <2>6, <3>1, <3>2, DistinctByOne
    <3>4. Extends(AllEvents(w), AllEvents(s), First(n))
      <4>1. First(n - 1) \subseteq First(n) /\ e.id \in First(n)
        BY <2>8, <3>1
      <4> QED
        BY <2>6, <3>1, <4>1, ExtendsByOne
    <3> QED
      BY <2>4, <2>6, <2>8, <3>1, <3>3, <3>4
  <2> QED
    BY <2>10, <2>11
<1>10. N \in 0..N
  OBVIOUS
<1>11. Grown(t, N) /\ t \in X
  BY <1>4, <1>8, <1>9, <1>10
<1>12. First(N) = EventIds(c)
  BY <1>1, <1>2, <1>3 DEF EventIds
<1> QED
  BY <1>11, <1>12

LEMMA RecentType ==
    ASSUME NEW seen \in Seq(Commands), NEW c \in Commands
    PROVE  RememberRecent(seen, c) \in Seq(Commands) /\ Len(RememberRecent(seen, c)) <= RecentLimit
<1>1. PICK all \in Seq(Commands) : all = Append(seen, c)
  BY AppendProperties
<1>2. PICK N \in Nat : N = Len(all)
  BY LenProperties
<1>3. N >= 1
  BY <1>1, <1>2, AppendProperties
<1>4. PICK L \in Nat \ {0} : L = RecentLimit
  BY DomainAssumption
<1>5. PICK m \in 1..N : m = Max({1, N - L + 1}) /\ N - m + 1 <= L
  <2>1. PICK m : m = IF N - L + 1 >= 1 THEN N - L + 1 ELSE 1
    OBVIOUS
  <2>2. m \in {1, N - L + 1} /\ m >= 1 /\ m >= N - L + 1 /\ m \in 1..N
    BY <1>3, <2>1
  <2>3. \E k \in {1, N - L + 1} : \A y \in {1, N - L + 1} : k >= y
    BY <2>2
  <2>4. PICK k : k = Max({1, N - L + 1})
    OBVIOUS
  <2>5. k \in {1, N - L + 1} /\ \A y \in {1, N - L + 1} : k >= y
    BY <2>3, <2>4, Zenon DEF Max
  <2>6. k \in 1..N /\ N - k + 1 <= L
    BY <2>2, <2>5
  <2> QED
    BY <2>4, <2>6
<1>6. SubSeq(all, m, N) \in Seq(Commands) /\ Len(SubSeq(all, m, N)) = N - m + 1
  <2>1. \A i \in m..N : i \in 1..N /\ all[i] \in Commands
    BY <1>2, ElementOfSeq
  <2> QED
    BY <1>2, <2>1
<1>7. RememberRecent(seen, c) = SubSeq(all, m, N)
  BY <1>1, <1>2, <1>4, <1>5 DEF RememberRecent
<1> QED
  BY <1>4, <1>5, <1>6, <1>7

\* A command with identifiers of its own leaves a sound warehouse whose
\* history is extended by its events.
LEMMA Executes ==
    ASSUME NEW s, Sound(s), DistinctIds(AllEvents(s)), NEW c \in Commands, NEW t \in Execute(s, c, Me),
           c.type = "batch" \/ EventIds(c) \cap Ids(AllEvents(s)) = {}
    PROVE  /\ Sound(t) /\ DistinctIds(AllEvents(t))
           /\ Extends(AllEvents(t), AllEvents(s), EventIds(c))
<1>1. s \in Warehouses /\ InSegments(s) /\ NormalizeHistory(s) = s /\ AllEvents(s) \in Seq(Events)
  BY AlreadyCut, HistoryType DEF Sound
<1>2. CASE t = s
  BY <1>1, <1>2, ExtendsItself
<1>3. CASE t # s
  <2>1. PICK u \in Carried(s, c, Me) : t = [u EXCEPT !.seq = @ + 1, !.seen = RememberRecent(@, c)]
    BY <1>1, <1>3 DEF Execute, When
  <2>2. Sound(u) /\ DistinctIds(AllEvents(u)) /\ Extends(AllEvents(u), AllEvents(s), EventIds(c))
    <3>1. CASE c \in Imports
      <4>0. c.type = "catalog-import" /\ c.items \in Seq(Cards)
        BY <3>1 DEF Imports
      <4>1. u \in ImportedItems(s, c, Me)
        BY <2>1, <4>0 DEF Carried
      <4>2. Sound(u) /\ AllEvents(u) = AllEvents(s)
        BY <4>0, <4>1, ImportSound
      <4> QED
        BY <1>1, <4>2, ExtendsItself
    <3>2. CASE c \in Documents
      <4>0. c.type = "batch"
        BY <3>2 DEF Documents
      <4>1. u \in ApplyBatch(s, c, Me)
        BY <2>1, <4>0 DEF Carried
      <4> QED
        BY <3>2, <4>1, BatchSound
    <3>3. CASE c \in Singles
      <4>0. c.type # "catalog-import" /\ c.type # "batch"
        BY <3>3 DEF Singles, Movements, Moves
      <4>1. u \in ApplyCommand(s, c, Me)
        BY <2>1, <4>0 DEF Carried
      <4>2. Sound(u) /\ Adds(u, s, c)
        BY <3>3, <4>1, CommandSound
      <4>3. CASE AllEvents(u) = AllEvents(s)
        BY <1>1, <4>2, <4>3, ExtendsItself
      <4>4. CASE AllEvents(u) # AllEvents(s)
        <5>1. PICK e \in Events : e.id = c.id /\ c.type \in Moves \cup {"reverse"} /\ AllEvents(u) = Append(AllEvents(s), e)
          BY <4>2, <4>4 DEF Adds
        <5>2. EventIds(c) = {c.id}
          BY <4>0, <5>1 DEF EventIds
        <5>3. e.id \notin Ids(AllEvents(s))
          BY <4>0, <5>1, <5>2
        <5>4. DistinctIds(AllEvents(u))
          BY <1>1, <5>1, <5>3, DistinctByOne
        <5>5. Extends(AllEvents(s), AllEvents(s), {c.id})
          BY <1>1, ExtendsItself
        <5>6. Extends(AllEvents(u), AllEvents(s), {c.id})
          BY <1>1, <5>1, <5>5, ExtendsByOne
        <5> QED
          BY <4>2, <5>2, <5>4, <5>6
      <4> QED
        BY <4>3, <4>4
    <3> QED
      BY <3>1, <3>2, <3>3 DEF Commands
  <2>3. u \in Warehouses /\ u.seen \in Seq(Commands)
    BY <2>2 DEF Sound, Warehouses
  <2>4. PICK seen \in Seq(Commands) : seen = RememberRecent(u.seen, c) /\ Len(seen) <= RecentLimit
    BY <2>3, RecentType
  <2>a. PICK next \in Nat : next = u.seq + 1
    BY <2>3 DEF Warehouses
  <2>5. t = [u EXCEPT !.seq = next, !.seen = seen]
    BY <2>1, <2>4, <2>a
  <2>6. /\ t \in Warehouses /\ SameHistory(t, u) /\ t.items = u.items /\ t.places = u.places
        /\ t.stocks = u.stocks /\ t.seen = seen
    BY <2>3, <2>5 DEF Warehouses, SameHistory
  <2>7. InSegments(t) /\ Replayed(t) /\ AllEvents(t) = AllEvents(u)
    <3>1. InSegments(u) /\ Replayed(u) /\ Len(t.seen) <= RecentLimit
      BY <2>2, <2>4, <2>6 DEF Sound
    <3> QED
      BY <2>6, <3>1, StillReplayed
  <2>8. Sound(t)
    BY <2>2, <2>6, <2>7 DEF Sound, CodesFree
  <2> QED
    BY <2>2, <2>7, <2>8
<1> QED
  BY <1>2, <1>3

LEMMA CreatedSound == Sound(CreateState("S")) /\ AllEvents(CreateState("S")) = << >>
<1>1. PICK t : t = CreateState("S")
  OBVIOUS
<1>2. PICK home : home = [id |-> "main", name |-> "Main", version |-> 1]
  OBVIOUS
<1>3. home \in Sites /\ "main" \in Texts /\ "S" \in Texts
  BY <1>2 DEF Sites, Texts
<1>4. PICK m : m = Put(<< >>, "main", home)
  OBVIOUS
<1>5. m \in Map(Texts, Sites) /\ DOMAIN m = {"main"}
  <2>1. << >> \in Map(Texts, Sites) /\ DOMAIN << >> = {}
    BY EmptyMap
  <2>2. PutsInto(Texts, Sites)
    BY PutProperties
  <2>3. /\ Put(<< >>, "main", home) \in Map(Texts, Sites) /\ DOMAIN Put(<< >>, "main", home) = DOMAIN << >> \cup {"main"}
        /\ Put(<< >>, "main", home)["main"] = home
        /\ \A x \in DOMAIN << >> : x # "main" => Put(<< >>, "main", home)[x] = << >>[x]
    BY <1>3, <2>1, <2>2, Zenon DEF PutsInto
  <2> QED
    BY <1>4, <2>1, <2>3
<1>6. << >> \in Map(Texts, Cards) /\ << >> \in Stocks
  BY EmptyMap DEF Stocks
<1>7. t = [seq |-> 0, space |-> "S", items |-> << >>, places |-> m, stocks |-> << >>,
           historySegments |-> << >>, events |-> << >>, eventCount |-> 0, seen |-> << >>]
  BY <1>1, <1>2, <1>4 DEF CreateState
<1>8. t \in Warehouses
  BY <1>3, <1>5, <1>6, <1>7 DEF Warehouses
<1>9. AllEvents(t) = << >> /\ HistoryCount(t) = 0
  BY <1>7, FlattenEmpty DEF AllEvents, HistoryCount
<1>10. InSegments(t)
  BY <1>7, <1>9, DomainAssumption DEF InSegments
<1>11. Replayed(t)
  <2>1. PICK f : f = [n \in 0..0 |-> << >>]
    OBVIOUS
  <2>2. Runs(f, << >>, t.items, t.places)
    BY <1>6, <2>1 DEF Runs, RunTo
  <2>3. f[0] = t.stocks
    BY <1>7, <2>1
  <2> QED
    BY <1>9, <2>2, <2>3 DEF Replayed
<1>12. /\ IsFiniteSet({}) /\ Cardinality({}) = 0
       /\ IsFiniteSet({"main"}) /\ Cardinality({"main"}) = 1
  BY FS_EmptySet, FS_Singleton
<1>13. MaxItems \in Nat /\ MaxPlaces \in Nat /\ 1 <= MaxPlaces
  BY DomainAssumption
<1>14. DOMAIN t.items = {} /\ DOMAIN t.places = {"main"}
  BY <1>5, <1>7
<1>15. IsFiniteSet(DOMAIN t.items) /\ Cardinality(DOMAIN t.items) <= MaxItems
  BY <1>12, <1>13, <1>14
<1>16. IsFiniteSet(DOMAIN t.places) /\ Cardinality(DOMAIN t.places) \in 1..MaxPlaces
  BY <1>12, <1>13, <1>14
<1>17. Sound(t)
  BY <1>8, <1>10, <1>11, <1>14, <1>15, <1>16 DEF Sound
<1> QED
  BY <1>1, <1>9, <1>17

-----------------------------------------------------------------------------
(* Copies: the stocks computed again *)

LEMMA ReplayEventIs ==
    ASSUME NEW t \in Warehouses, NEW e \in Events
    PROVE  ReplayEvent(t, e) =
              IF GoodEvent(e, t.items) /\ CanDo(t.stocks, e, t.places)
              THEN {[t EXCEPT !.stocks = After(t.stocks, e)]} ELSE {}
<1>1. CASE GoodEvent(e, t.items)
  <2>1. ReplayEvent(t, e) = InTurn(ApplyChange, t, e.changes)
    BY <1>1 DEF GoodEvent, ReplayEvent
  <2> QED
    BY <1>1, <2>1, EventInTurn DEF When, GoodEvent
<1>2. CASE ~GoodEvent(e, t.items)
  BY <1>2 DEF GoodEvent, ReplayEvent
<1> QED
  BY <1>1, <1>2

\* The stocks of an empty warehouse after a history: those of its run, if any.
LEMMA Replays ==
    ASSUME NEW empty \in Warehouses, empty.stocks = << >>, NEW h \in Seq(Events)
    PROVE  /\ \A f : Runs(f, h, empty.items, empty.places) =>
                 InTurn(ReplayEvent, empty, h) = {[empty EXCEPT !.stocks = f[Len(h)]]}
           /\ \A t \in InTurn(ReplayEvent, empty, h) : \E f :
                 Runs(f, h, empty.items, empty.places) /\ t = [empty EXCEPT !.stocks = f[Len(h)]]
<1>1. PICK N \in Nat : N = Len(h)
  BY LenProperties
<1>2. \A n \in 1..N : h[n] \in Events
  BY <1>1, ElementOfSeq
<1>3. PICK With : With = [m \in Stocks |-> [empty EXCEPT !.stocks = m]]
  OBVIOUS
<1>4. \A m \in Stocks : /\ With[m] \in Warehouses /\ With[m].stocks = m /\ With[m] = [empty EXCEPT !.stocks = m]
                        /\ With[m].items = empty.items /\ With[m].places = empty.places
                        /\ \A k : [With[m] EXCEPT !.stocks = k] = [empty EXCEPT !.stocks = k]
  BY <1>3 DEF Warehouses
<1> DEFINE X == {With[m] : m \in Stocks}
<1>5. \A n \in 1..N, m \in Stocks :
         ReplayEvent(With[m], h[n]) = IF GoodEvent(h[n], empty.items) /\ CanDo(m, h[n], empty.places)
                                      THEN {[empty EXCEPT !.stocks = After(m, h[n])]} ELSE {}
  <2> TAKE n \in 1..N, m \in Stocks
  <2>1. PICK t : t = With[m]
    OBVIOUS
  <2>2. t \in Warehouses /\ t.stocks = m /\ t.items = empty.items /\ t.places = empty.places
        /\ \A k : [t EXCEPT !.stocks = k] = [empty EXCEPT !.stocks = k]
    BY <1>4, <2>1
  <2>3. ReplayEvent(t, h[n]) = IF GoodEvent(h[n], t.items) /\ CanDo(t.stocks, h[n], t.places)
                               THEN {[t EXCEPT !.stocks = After(t.stocks, h[n])]} ELSE {}
    BY <1>2, <2>2, ReplayEventIs
  <2> QED
    BY <2>1, <2>2, <2>3
<1>6. \A n \in 1..N, m \in Stocks : GoodEvent(h[n], empty.items) /\ CanDo(m, h[n], empty.places)
         => After(m, h[n]) \in Stocks /\ With[After(m, h[n])] = [empty EXCEPT !.stocks = After(m, h[n])]
  <2> TAKE n \in 1..N, m \in Stocks
  <2> HAVE GoodEvent(h[n], empty.items) /\ CanDo(m, h[n], empty.places)
  <2>1. After(m, h[n]) \in Stocks
    BY <1>2, AfterType DEF GoodEvent
  <2> QED
    BY <1>4, <2>1
<1>7. << >> \in Stocks /\ empty = With[<< >>]
  <2>1. << >> \in Stocks
    BY EmptyMap DEF Stocks
  <2>2. [empty EXCEPT !.stocks = << >>] = empty
    BY DEF Warehouses
  <2> QED
    BY <1>3, <2>1, <2>2
<1>8. PICK after : ReplayedIn(after, X, empty, h, N)
  <2>1. empty \in X
    BY <1>7
  <2>2. \A n \in 1..N : \A t \in X : ReplayEvent(t, h[n]) \subseteq X
    <3> TAKE n \in 1..N
    <3> TAKE t \in X
    <3>1. PICK m \in Stocks : t = With[m]
      OBVIOUS
    <3>2. ASSUME NEW u \in ReplayEvent(t, h[n]) PROVE u \in X
      <4>1. /\ GoodEvent(h[n], empty.items) /\ CanDo(m, h[n], empty.places)
            /\ u = [empty EXCEPT !.stocks = After(m, h[n])]
        BY <1>5, <3>1, <3>2
      <4>2. After(m, h[n]) \in Stocks /\ With[After(m, h[n])] = [empty EXCEPT !.stocks = After(m, h[n])]
        BY <1>6, <4>1
      <4> QED
        BY <4>1, <4>2
    <3> QED
      BY <3>2
  <2> HIDE DEF X
  <2> QED
    BY <1>1, <2>1, <2>2, ReplayInTurn
<1>9. /\ after \in [0..N -> SUBSET X] /\ after[0] = {empty} /\ InTurn(ReplayEvent, empty, h) = after[N]
      /\ \A n \in 1..N : after[n] = UNION {ReplayEvent(t, h[n]) : t \in after[n - 1]}
  BY <1>8 DEF ReplayedIn
<1>10. ASSUME NEW f, Runs(f, h, empty.items, empty.places)
       PROVE  after[N] = {[empty EXCEPT !.stocks = f[N]]}
  <2>1. f \in [0..N -> Stocks] /\ f[0] = << >>
        /\ \A n \in 1..N : /\ GoodEvent(h[n], empty.items) /\ CanDo(f[n - 1], h[n], empty.places)
                           /\ f[n] = After(f[n - 1], h[n])
    BY <1>1, <1>10 DEF Runs, RunTo
  <2> DEFINE T == {n \in 0..N : after[n] # {With[f[n]]}}
  <2>2. T = {}
    <3> SUFFICES ASSUME T # {} PROVE FALSE
      OBVIOUS
    <3>1. PICK n \in T : \A m \in T : n <= m
      <4>1. T \subseteq Nat
        OBVIOUS
      <4> HIDE DEF T
      <4> QED
        BY <4>1, Least
    <3>2. n # 0
      BY <1>7, <1>9, <2>1, <3>1
    <3>3. n \in 1..N /\ n - 1 \in 0..N /\ n - 1 \notin T
      <4>1. n \in 0..N
        OBVIOUS
      <4>2. n \in 1..N /\ n - 1 \in 0..N /\ ~(n <= n - 1)
        BY <3>2, <4>1
      <4> QED
        BY <3>1, <4>2
    <3>4. PICK m \in Stocks : m = f[n - 1] /\ after[n - 1] = {With[m]}
      BY <2>1, <3>3
    <3>5. after[n] = ReplayEvent(With[m], h[n])
      <4>1. after[n] = UNION {ReplayEvent(t, h[n]) : t \in {With[m]}}
        BY <1>9, <3>3, <3>4
      <4> QED
        BY <4>1
    <3>6. GoodEvent(h[n], empty.items) /\ CanDo(m, h[n], empty.places) /\ f[n] = After(m, h[n])
      BY <2>1, <3>3, <3>4
    <3> QED
      BY <1>5, <1>6, <3>1, <3>3, <3>5, <3>6
  <2>3. after[N] = {With[f[N]]} /\ f[N] \in Stocks
    BY <2>1, <2>2
  <2> QED
    BY <1>4, <2>3
<1>11. ASSUME NEW t \in after[N]
       PROVE  \E f : Runs(f, h, empty.items, empty.places) /\ t = [empty EXCEPT !.stocks = f[N]]
  <2> DEFINE Reached(n, u) == \E f : RunTo(f, h, empty.items, empty.places, n) /\ u = With[f[n]]
             T == {n \in 0..N : ~ \A u \in after[n] : Reached(n, u)}
  <2>1. T = {}
    <3> SUFFICES ASSUME T # {} PROVE FALSE
      OBVIOUS
    <3>1. PICK n \in T : \A m \in T : n <= m
      <4>1. T \subseteq Nat
        OBVIOUS
      <4> HIDE DEF T
      <4> QED
        BY <4>1, Least
    <3>2. n # 0
      <4>1. PICK f : f = [i \in 0..0 |-> << >>]
        OBVIOUS
      <4>2. RunTo(f, h, empty.items, empty.places, 0) /\ f[0] = << >>
        BY <1>7, <4>1 DEF RunTo
      <4>3. Reached(0, empty)
        BY <1>7, <4>2
      <4> HIDE DEF Reached
      <4> QED
        BY <1>9, <3>1, <4>3
    <3>3. n \in 1..N /\ n - 1 \in 0..N /\ n - 1 \notin T
      <4>1. n \in 0..N
        OBVIOUS
      <4>2. n \in 1..N /\ n - 1 \in 0..N /\ ~(n <= n - 1)
        BY <3>2, <4>1
      <4> QED
        BY <3>1, <4>2
    <3>4. PICK u \in after[n] : ~Reached(n, u)
      BY <3>1
    <3>5. PICK w \in after[n - 1] : u \in ReplayEvent(w, h[n])
      <4>1. u \in UNION {ReplayEvent(w, h[n]) : w \in after[n - 1]}
        BY <1>9, <3>3, <3>4
      <4> HIDE DEF T, X, Reached
      <4> QED
        BY <4>1
    <3>6. Reached(n - 1, w)
      BY <3>3, <3>5
    <3>7. PICK p, f : p \in Nat /\ p = n - 1 /\ p + 1 = n /\ RunTo(f, h, empty.items, empty.places, p) /\ w = With[f[p]]
      BY <3>3, <3>6
    <3>8. f[p] \in Stocks
      BY <3>7 DEF RunTo
    <3>9. GoodEvent(h[n], empty.items) /\ CanDo(f[p], h[n], empty.places) /\ u = [empty EXCEPT !.stocks = After(f[p], h[n])]
      <4>1. u \in ReplayEvent(With[f[p]], h[n])
        BY <3>5, <3>7
      <4> QED
        BY <1>5, <3>3, <3>8, <4>1
    <3>10. PICK g : RunTo(g, h, empty.items, empty.places, p + 1) /\ g[p + 1] = After(f[p], h[p + 1])
      BY <3>7, <3>9, RunStep
    <3>11. u = With[g[n]]
      BY <1>6, <3>3, <3>7, <3>8, <3>9, <3>10
    <3> QED
      BY <3>4, <3>7, <3>10, <3>11
  <2>2. PICK f : RunTo(f, h, empty.items, empty.places, N) /\ t = With[f[N]]
    BY <2>1
  <2>3. f[N] \in Stocks
    BY <2>2 DEF RunTo
  <2> QED
    BY <1>1, <1>4, <2>2, <2>3 DEF Runs
<1> QED
  BY <1>1, <1>9, <1>10, <1>11

LEMMA CountIds ==
    ASSUME NEW h \in Seq(Events)
    PROVE  /\ DistinctIds(h) => Cardinality(Ids(h)) = Len(h)
           /\ Cardinality(Ids(h)) = Len(h) => DistinctIds(h)
<1>1. PICK N \in Nat : N = Len(h)
  BY LenProperties
<1>2. PICK f : f = [n \in 1..N |-> h[n].id]
  OBVIOUS
<1>3. Ids(h) = {h[n].id : n \in 1..N}
  BY <1>1 DEF Ids
<1>4. f \in Surjection(1..N, Ids(h))
  <2>1. f \in [1..N -> Ids(h)]
    BY <1>2, <1>3
  <2>2. \A x \in Ids(h) : \E n \in 1..N : f[n] = x
    BY <1>2, <1>3
  <2> QED
    BY <2>1, <2>2 DEF Surjection
<1>5. IsFiniteSet(1..N) /\ Cardinality(1..N) = N
  BY FS_Interval
<1>6. DistinctIds(h) <=> f \in Injection(1..N, Ids(h))
  <2>1. f \in [1..N -> Ids(h)] /\ \A n \in 1..N : f[n] = h[n].id
    BY <1>2, <1>3
  <2> QED
    BY <1>1, <2>1 DEF DistinctIds, Injection, IsInjective
<1> QED
  BY <1>1, <1>4, <1>5, <1>6, FS_Surjection

\* ValidateBackup in parts: what is asked of a copy, the warehouse its history
\* is replayed into, what is asked of the outcome, and the outcome.
Accepts(raw) ==
    /\ WholeHistory(raw)
    /\ Cardinality(DOMAIN raw.places) \in 1..MaxPlaces /\ Cardinality(DOMAIN raw.items) <= MaxItems
    /\ \A id \in DOMAIN raw.items : CodesFree(raw, raw.items[id])

EmptyOf(raw) == [CreateState(raw.space) EXCEPT !.items = raw.items, !.places = raw.places, !.seq = raw.seq]

Agrees(t, raw) ==
    /\ SameStocks(t, raw)
    /\ \A id \in DOMAIN t.items : t.items[id].archived => Total(t.stocks, id) = 0

Whole(t, raw) ==
    NormalizeHistory([t EXCEPT !.historySegments = IF raw.version = 2 THEN raw.historySegments ELSE << >>,
                               !.events = raw.events])

LEMMA ValidateIs ==
    ASSUME NEW raw
    PROVE  ValidateBackup(raw) =
              IF Accepts(raw)
              THEN {Whole(t, raw) : t \in {u \in InTurn(ReplayEvent, EmptyOf(raw), AllEvents(raw)) : Agrees(u, raw)}}
              ELSE {}
  BY Zenon DEF ValidateBackup, Accepts, EmptyOf, Agrees, Whole

LEMMA EmptyIs ==
    ASSUME NEW g \in Warehouses, NEW raw, raw.space = g.space, raw.seq = g.seq, raw.items = g.items, raw.places = g.places
    PROVE  /\ EmptyOf(raw) = [seq |-> g.seq, space |-> g.space, items |-> g.items, places |-> g.places,
                              stocks |-> << >>, historySegments |-> << >>, events |-> << >>,
                              eventCount |-> 0, seen |-> << >>]
           /\ EmptyOf(raw) \in Warehouses /\ EmptyOf(raw).stocks = << >>
<1>1. EmptyOf(raw) = [seq |-> g.seq, space |-> g.space, items |-> g.items, places |-> g.places,
                      stocks |-> << >>, historySegments |-> << >>, events |-> << >>,
                      eventCount |-> 0, seen |-> << >>]
  <2>1. PICK home : home = Put(<< >>, "main", [id |-> "main", name |-> "Main", version |-> 1])
    OBVIOUS
  <2>2. CreateState(g.space) = [seq |-> 0, space |-> g.space, items |-> << >>, places |-> home, stocks |-> << >>,
                                historySegments |-> << >>, events |-> << >>, eventCount |-> 0, seen |-> << >>]
    BY <2>1 DEF CreateState
  <2>3. EmptyOf(raw) = [CreateState(g.space) EXCEPT !.items = g.items, !.places = g.places, !.seq = g.seq]
    BY DEF EmptyOf
  <2>4. PICK i, p, q, n : i = g.items /\ p = g.places /\ q = g.seq /\ n = g.space
    OBVIOUS
  <2>5. PICK new : new = [seq |-> 0, space |-> n, items |-> << >>, places |-> home, stocks |-> << >>,
                          historySegments |-> << >>, events |-> << >>, eventCount |-> 0, seen |-> << >>]
    OBVIOUS
  <2>6. [new EXCEPT !.items = i, !.places = p, !.seq = q] =
           [seq |-> q, space |-> n, items |-> i, places |-> p, stocks |-> << >>,
            historySegments |-> << >>, events |-> << >>, eventCount |-> 0, seen |-> << >>]
    <3>1. PICK new1 : new1 = [new EXCEPT !.items = i]
      OBVIOUS
    <3>2. new1 = [seq |-> 0, space |-> n, items |-> i, places |-> home, stocks |-> << >>,
                  historySegments |-> << >>, events |-> << >>, eventCount |-> 0, seen |-> << >>]
      BY <2>5, <3>1
    <3>3. PICK new2 : new2 = [new1 EXCEPT !.places = p]
      OBVIOUS
    <3>4. new2 = [seq |-> 0, space |-> n, items |-> i, places |-> p, stocks |-> << >>,
                  historySegments |-> << >>, events |-> << >>, eventCount |-> 0, seen |-> << >>]
      BY <3>2, <3>3
    <3>5. [new2 EXCEPT !.seq = q] = [seq |-> q, space |-> n, items |-> i, places |-> p, stocks |-> << >>,
                  historySegments |-> << >>, events |-> << >>, eventCount |-> 0, seen |-> << >>]
      BY <3>4
    <3> QED
      BY <3>1, <3>3, <3>5, Zenon
  <2> QED
    BY <2>2, <2>3, <2>4, <2>5, <2>6, Zenon
<1>2. << >> \in Stocks
  BY EmptyMap DEF Stocks
<1> QED
  BY <1>1, <1>2 DEF Warehouses

Forgotten(g) == [g EXCEPT !.seen = << >>]

\* A copy of a sound warehouse that holds its whole history.
LEMMA CopyAccepted ==
    ASSUME NEW g, Sound(g), NEW raw,
           raw.space = g.space, raw.seq = g.seq, raw.items = g.items, raw.places = g.places, raw.stocks = g.stocks,
           AllEvents(raw) = AllEvents(g), WholeHistory(raw),
           \A u \in Warehouses : SameBut(u, Forgotten(g)) => Whole(u, raw) = Forgotten(g)
    PROVE  ValidateBackup(raw) = IF ArchivedWithStock(g) THEN {} ELSE {Forgotten(g)}
<1>1. g \in Warehouses /\ AllEvents(g) \in Seq(Events)
  BY HistoryType DEF Sound
<1>2. Accepts(raw)
  BY DEF Accepts, Sound, CodesFree
<1>3. PICK empty : empty = EmptyOf(raw)
  OBVIOUS
<1>4. /\ empty \in Warehouses /\ empty.stocks = << >> /\ empty.items = g.items /\ empty.places = g.places
      /\ empty.seq = g.seq /\ empty.space = g.space /\ empty.seen = << >>
  BY <1>1, <1>3, EmptyIs
<1>5. PICK f : Runs(f, AllEvents(g), g.items, g.places) /\ f[Len(AllEvents(g))] = g.stocks
  BY DEF Sound, Replayed, HistoryCount
<1>6. PICK u : u = [empty EXCEPT !.stocks = g.stocks]
  OBVIOUS
<1>7. InTurn(ReplayEvent, empty, AllEvents(g)) = {u}
  BY <1>1, <1>4, <1>5, <1>6, Replays
<1>8. /\ u \in Warehouses /\ u.stocks = g.stocks /\ u.items = g.items /\ u.places = g.places
      /\ u.seq = g.seq /\ u.space = g.space /\ u.seen = << >>
  BY <1>1, <1>4, <1>6 DEF Warehouses
<1>9. SameStocks(u, raw)
  BY <1>8 DEF SameStocks, StockAt
<1>10. Agrees(u, raw) <=> ~ArchivedWithStock(g)
  BY <1>8, <1>9 DEF Agrees, ArchivedWithStock
<1>11. Whole(u, raw) = Forgotten(g)
  <2>1. SameBut(u, Forgotten(g))
    BY <1>1, <1>8 DEF SameBut, Forgotten, Warehouses
  <2> QED
    BY <1>8, <2>1
<1>12. ValidateBackup(raw) = {Whole(t, raw) : t \in {w \in {u} : Agrees(w, raw)}}
  BY <1>2, <1>3, <1>7, ValidateIs
<1>13. CASE ArchivedWithStock(g)
  <2>1. {w \in {u} : Agrees(w, raw)} = {}
    BY <1>10, <1>13
  <2> QED
    BY <1>12, <1>13, <2>1
<1>14. CASE ~ArchivedWithStock(g)
  <2>1. {w \in {u} : Agrees(w, raw)} = {u}
    BY <1>10, <1>14
  <2>2. ValidateBackup(raw) = {Whole(t, raw) : t \in {u}}
    BY <1>12, <2>1
  <2> QED
    BY <1>11, <1>14, <2>2
<1> QED
  BY <1>13, <1>14

LEMMA CleanAccepted ==
    ASSUME NEW g, Sound(g), DistinctIds(AllEvents(g))
    PROVE  ValidateBackup(Clean(g)) = IF ArchivedWithStock(g) THEN {} ELSE {Forgotten(g)}
<1>1. g \in Warehouses /\ AllEvents(g) \in Seq(Events) /\ InSegments(g)
  BY HistoryType DEF Sound
<1>2. PICK raw : raw = Clean(g)
  OBVIOUS
<1>3. /\ raw.space = g.space /\ raw.seq = g.seq /\ raw.items = g.items /\ raw.places = g.places /\ raw.stocks = g.stocks
      /\ raw.version = 2 /\ raw.historySegments = g.historySegments /\ raw.events = g.events /\ raw.eventCount = g.eventCount
  BY <1>2 DEF Clean, Copy
<1>4. AllEvents(raw) = AllEvents(g)
  BY <1>3 DEF AllEvents
<1>5. WholeHistory(raw)
  <2>1. {e.id : e \in EventSet(raw)} = Ids(AllEvents(g))
    BY <1>1, <1>4, EventSetIds
  <2>2. Cardinality({e.id : e \in EventSet(raw)}) = HistoryCount(raw)
    BY <1>1, <1>4, <2>1, CountIds DEF HistoryCount
  <2>3. SegmentSize \in Nat /\ SegmentSize \in 1..SegmentSize
    BY DomainAssumption
  <2>4. \A i \in DOMAIN raw.historySegments : Len(raw.historySegments[i]) \in 1..SegmentSize
    BY <1>1, <1>3, <2>3 DEF InSegments
  <2>5. Len(raw.events) <= SegmentSize /\ raw.eventCount = HistoryCount(raw)
    BY <1>1, <1>3, <1>4 DEF InSegments, HistoryCount
  <2> QED
    BY <2>2, <2>4, <2>5 DEF WholeHistory
<1>6. ASSUME NEW u \in Warehouses, SameBut(u, Forgotten(g)) PROVE Whole(u, raw) = Forgotten(g)
  <2>1. PICK w : w = [u EXCEPT !.historySegments = g.historySegments, !.events = g.events]
    OBVIOUS
  <2>2. Whole(u, raw) = NormalizeHistory(w)
    BY <1>3, <2>1 DEF Whole
  <2>3. w \in Warehouses /\ SameBut(w, u) /\ w.historySegments = g.historySegments /\ w.events = g.events
    BY <1>1, <2>1 DEF Warehouses, SameBut
  <2>4. NormalizeHistory(w) = Counted(w)
    BY <1>1, <2>3 DEF NormalizeHistory, InSegments
  <2>5. HistoryCount(w) = g.eventCount
    BY <1>1, <2>3 DEF InSegments, HistoryCount, AllEvents
  <2>6. Counted(w) = [w EXCEPT !.eventCount = g.eventCount]
    BY <2>5 DEF Counted
  <2>7. SameBut(w, Forgotten(g))
    BY <1>6, <2>3 DEF SameBut
  <2>8. [w EXCEPT !.eventCount = g.eventCount] = Forgotten(g)
    BY <1>1, <2>3, <2>7 DEF Warehouses, SameBut, Forgotten
  <2> QED
    BY <2>2, <2>4, <2>6, <2>8
<1> QED
  BY <1>2, <1>3, <1>4, <1>5, <1>6, CopyAccepted

\* The warehouse the pages find is sound when its own copy is accepted.
LEMMA StartSound ==
    ASSUME NEW g, IsWarehouse(g), InSegments(g), ValidateBackup(Clean(g)) = {[g EXCEPT !.seen = << >>]}
    PROVE  Sound(g) /\ DistinctIds(AllEvents(g))
<1>1. g \in Warehouses
  <2>1. g.items \in Map(Texts, Cards) /\ g.places \in Map(Texts, Sites)
    BY IsMapType DEF IsWarehouse
  <2>2. g.stocks \in Stocks
    <3>1. PICK K, V : K = Texts \X Texts /\ V = [qty : 0..MaxQty, version : Nat]
      OBVIOUS
    <3>2. IsMap(g.stocks, K, V)
      BY <3>1 DEF IsWarehouse
    <3>3. g.stocks \in Map(K, V)
      BY <3>2, IsMapType
    <3> QED
      BY <3>1, <3>3 DEF Stocks
  <2>3. g.historySegments \in Seq(Seq(Events)) /\ g.events \in Seq(Events)
    BY DEF IsWarehouse
  <2>4. g.eventCount \in Nat
    <3>1. FlattenSeq(g.historySegments) \in Seq(Events)
      BY <2>3, FlattenType
    <3>2. AllEvents(g) \in Seq(Events)
      BY <2>3, <3>1, ConcatProperties DEF AllEvents
    <3> QED
      BY <3>2, LenProperties DEF InSegments, HistoryCount
  <2>5. /\ g.seq \in Nat /\ g.space \in Texts /\ g.seen \in Seq(Commands)
        /\ g = [seq |-> g.seq, space |-> g.space, items |-> g.items, places |-> g.places, stocks |-> g.stocks,
                historySegments |-> g.historySegments, events |-> g.events, eventCount |-> g.eventCount, seen |-> g.seen]
    BY DEF IsWarehouse
  <2> QED
    BY <2>1, <2>2, <2>3, <2>4, <2>5 DEF Warehouses
<1>2. PICK raw : raw = Clean(g)
  OBVIOUS
<1>3. /\ raw.space = g.space /\ raw.seq = g.seq /\ raw.items = g.items /\ raw.places = g.places /\ raw.stocks = g.stocks
      /\ raw.version = 2 /\ raw.historySegments = g.historySegments /\ raw.events = g.events
  BY <1>2 DEF Clean, Copy
<1>4. AllEvents(raw) = AllEvents(g) /\ AllEvents(g) \in Seq(Events)
  BY <1>1, <1>3, HistoryType DEF AllEvents
<1>5. PICK empty : empty = EmptyOf(raw)
  OBVIOUS
<1>6. empty \in Warehouses /\ empty.stocks = << >> /\ empty.items = g.items /\ empty.places = g.places
  BY <1>1, <1>3, <1>5, EmptyIs
<1>7. Accepts(raw)
  BY <1>2, ValidateIs
<1>8. PICK t \in InTurn(ReplayEvent, empty, AllEvents(g)) : Whole(t, raw) = Forgotten(g)
  <2>1. {Whole(t, raw) : t \in {u \in InTurn(ReplayEvent, empty, AllEvents(g)) : Agrees(u, raw)}} = {Forgotten(g)}
    BY <1>2, <1>4, <1>5, <1>7, ValidateIs DEF Forgotten
  <2> QED
    BY <2>1
<1>9. PICK f : Runs(f, AllEvents(g), g.items, g.places) /\ t = [empty EXCEPT !.stocks = f[Len(AllEvents(g))]]
  BY <1>4, <1>6, Replays
<1>10. PICK m \in Stocks : m = f[Len(AllEvents(g))]
  <2>1. PICK N \in Nat : N = Len(AllEvents(g))
    BY <1>4, LenProperties
  <2> QED
    BY <1>9, <2>1 DEF Runs, RunTo
<1>11. g.stocks = m
  <2>1. t \in Warehouses /\ t.stocks = m
    BY <1>6, <1>9, <1>10 DEF Warehouses
  <2>2. PICK w : w = [t EXCEPT !.historySegments = g.historySegments, !.events = g.events]
    OBVIOUS
  <2>3. w \in Warehouses /\ w.stocks = m /\ w.events = g.events
    BY <1>1, <2>1, <2>2 DEF Warehouses
  <2>4. Forgotten(g) = Counted(w)
    BY <1>3, <1>8, <2>2, <2>3 DEF Whole, NormalizeHistory, InSegments
  <2>5. Counted(w).stocks = m
    BY <2>3, Recounted DEF SameBut
  <2>6. Forgotten(g).stocks = g.stocks
    BY <1>1 DEF Forgotten, Warehouses
  <2> QED
    BY <2>4, <2>5, <2>6
<1>12. Replayed(g)
  BY <1>9, <1>10, <1>11 DEF Replayed, HistoryCount
<1>13. Sound(g)
  <2>1. /\ IsFiniteSet(DOMAIN g.items) /\ IsFiniteSet(DOMAIN g.places)
        /\ \A id \in DOMAIN g.items : g.items[id].id = id
    BY DEF IsWarehouse
  <2>2. /\ Cardinality(DOMAIN g.items) <= MaxItems /\ Cardinality(DOMAIN g.places) \in 1..MaxPlaces
        /\ \A id \in DOMAIN g.items : CodesFree(g, g.items[id])
    BY <1>3, <1>7 DEF Accepts, CodesFree
  <2> QED
    BY <1>1, <1>12, <2>1, <2>2 DEF Sound
<1>14. DistinctIds(AllEvents(g))
  <2>1. {e.id : e \in EventSet(raw)} = Ids(AllEvents(g))
    BY <1>4, EventSetIds
  <2>2. Cardinality({e.id : e \in EventSet(raw)}) = HistoryCount(raw)
    BY <1>7 DEF Accepts, WholeHistory
  <2> QED
    BY <1>4, <2>1, <2>2, CountIds DEF HistoryCount
<1> QED
  BY <1>13, <1>14

\* Sequences of the same length S, one after the other.
LEMMA FlattenFull ==
    ASSUME NEW E, NEW segs \in Seq(Seq(E)), NEW S \in Nat, \A i \in DOMAIN segs : Len(segs[i]) = S
    PROVE  /\ Len(FlattenSeq(segs)) = Len(segs) * S
           /\ \A i \in 1..Len(segs), j \in 1..S : FlattenSeq(segs)[(i - 1) * S + j] = segs[i][j]
<1>1. PICK N \in Nat : N = Len(segs) /\ DOMAIN segs = 1..N
  BY LenProperties
<1>2. PICK f \in [0..N -> Seq(E)] : Flattens(f, segs, N) /\ FlattenSeq(segs) = f[N]
  BY <1>1, FlattensExist
<1>3. f[0] = << >> /\ \A n \in 1..N : f[n] = f[n - 1] \o segs[n] /\ segs[n] \in Seq(E) /\ Len(segs[n]) = S
  BY <1>1, <1>2, ElementOfSeq DEF Flattens
<1> DEFINE Full(n) == Len(f[n]) = n * S /\ \A i \in 1..n, j \in 1..S : f[n][(i - 1) * S + j] = segs[i][j]
           T == {n \in 0..N : ~Full(n)}
<1>4. T = {}
  <2> SUFFICES ASSUME T # {} PROVE FALSE
    OBVIOUS
  <2>1. PICK n \in T : \A m \in T : n <= m
    <3>1. T \subseteq Nat
      OBVIOUS
    <3> HIDE DEF T
    <3> QED
      BY <3>1, Least
  <2>2. n # 0
    <3>1. Full(0)
      <4>1. Len(f[0]) = 0
        BY <1>3
      <4>2. 0 * S = 0 /\ 1..0 = {}
        OBVIOUS
      <4> QED
        BY <4>1, <4>2
    <3> QED
      BY <2>1, <3>1
  <2>3. PICK p \in 0..N : n = p + 1 /\ n \in 1..N /\ Full(p)
    <3>1. n \in 0..N
      OBVIOUS
    <3>2. n \in 1..N /\ n - 1 \in 0..N /\ ~(n <= n - 1)
      BY <2>2, <3>1
    <3>3. PICK p \in 0..N : p = n - 1 /\ n = p + 1 /\ ~(n <= p)
      BY <3>2
    <3>4. p \notin T
      <4> HIDE DEF T
      <4> QED
        BY <2>1, <3>3
    <3> QED
      BY <3>2, <3>3, <3>4
  <2>4. f[n] = f[p] \o segs[n] /\ f[p] \in Seq(E) /\ segs[n] \in Seq(E) /\ Len(segs[n]) = S
    <3>1. n - 1 = p
      BY <2>3
    <3> QED
      BY <1>3, <2>3, <3>1
  <2>5. PICK x \in Nat : x = p * S /\ n * S = x + S /\ Len(f[p]) = x
    BY <2>3
  <2>6. Len(f[n]) = x + S /\ \A i \in 1..(x + S) : f[n][i] = IF i <= x THEN f[p][i] ELSE segs[n][i - x]
    <3>1. PICK a \in Seq(E), b \in Seq(E) : a = f[p] /\ b = segs[n]
      BY <2>4
    <3>2. Len(a \o b) = Len(a) + Len(b) /\ \A i \in 1..(Len(a) + Len(b)) :
             (a \o b)[i] = IF i <= Len(a) THEN a[i] ELSE b[i - Len(a)]
      BY ConcatProperties
    <3>3. Len(a) = x /\ Len(b) = S /\ f[n] = a \o b
      BY <2>4, <2>5, <3>1
    <3> QED
      BY <3>1, <3>2, <3>3
  <2>7. ASSUME NEW i \in 1..n, NEW j \in 1..S PROVE f[n][(i - 1) * S + j] = segs[i][j]
    <3>1. PICK y \in Nat : y = (i - 1) * S
      <4>1. i - 1 \in Nat
        BY <2>3
      <4>2. (i - 1) * S \in Nat
        BY <4>1
      <4> QED
        BY <4>2
    <3>2. CASE i = n
      <4>1. i - 1 = p /\ y = x
        BY <2>3, <2>5, <3>1, <3>2
      <4>2. x + j \in 1..(x + S) /\ ~(x + j <= x) /\ (x + j) - x = j
        OBVIOUS
      <4> QED
        BY <2>6, <3>1, <3>2, <4>1, <4>2
    <3>3. CASE i # n
      <4>1. i \in 1..p /\ i <= p
        BY <2>3, <3>3
      <4>2. y + S = i * S /\ i * S <= x
        BY <2>5, <3>1, <4>1
      <4>3. y + j \in 1..(x + S) /\ y + j <= x
        BY <4>2
      <4>4. f[p][y + j] = segs[i][j]
        BY <2>3, <3>1, <4>1
      <4> QED
        BY <2>6, <3>1, <4>3, <4>4
    <3> QED
      BY <3>2, <3>3
  <2>8. Full(n)
    BY <2>5, <2>6, <2>7
  <2> QED
    BY <2>1, <2>8
<1>5. N \in 0..N
  OBVIOUS
<1>6. Full(N)
  BY <1>4, <1>5
<1> QED
  BY <1>1, <1>2, <1>6

\* The length and the items of a concatenation.
LEMMA JoinIs ==
    ASSUME NEW E, NEW a \in Seq(E), NEW b \in Seq(E), NEW x \in Nat, NEW y \in Nat, x = Len(a), y = Len(b)
    PROVE  /\ a \o b \in Seq(E) /\ Len(a \o b) = x + y
           /\ \A i \in 1..(x + y) : (a \o b)[i] = IF i <= x THEN a[i] ELSE b[i - x]
  BY ConcatProperties

\* A part of a sequence, item by item.
LEMMA PartIs ==
    ASSUME NEW E, NEW h \in Seq(E), NEW x \in Nat, NEW S \in Nat, x + S <= Len(h),
           NEW part \in Seq(E), Len(part) = S, \A j \in 1..S : h[x + j] = part[j]
    PROVE  SubSeq(h, x + 1, x + S) = part
<1>1. PICK M \in Nat : M = Len(h) /\ x + S <= M
  BY LenProperties
<1>2. \A i \in (x + 1)..(x + S) : h[i] \in E
  <2>1. \A i \in (x + 1)..(x + S) : i \in 1..M
    BY <1>1
  <2> QED
    BY <1>1, <2>1, ElementOfSeq
<1>3. PICK sub : sub = SubSeq(h, x + 1, x + S)
  OBVIOUS
<1>4. sub \in Seq(E) /\ Len(sub) = S /\ \A j \in 1..S : sub[j] = h[x + j]
  <2>1. x + 1 \in Int /\ x + S \in Int
    OBVIOUS
  <2>2. /\ SubSeq(h, x + 1, x + S) \in Seq(E)
        /\ Len(SubSeq(h, x + 1, x + S)) = IF x + 1 <= x + S THEN (x + S) - (x + 1) + 1 ELSE 0
        /\ \A i \in 1..((x + S) - (x + 1) + 1) : SubSeq(h, x + 1, x + S)[i] = h[(x + 1) + i - 1]
    BY <1>2, <2>1, SubSeqProperties
  <2>3. (x + S) - (x + 1) + 1 = S /\ (IF x + 1 <= x + S THEN S ELSE 0) = S /\ \A i \in 1..S : (x + 1) + i - 1 = x + i
    OBVIOUS
  <2> QED
    BY <1>3, <2>2, <2>3
<1> QED
  BY <1>3, <1>4, SeqEqual

LEMMA DivideIs ==
    ASSUME NEW k \in Nat, NEW q \in Nat, NEW S \in Nat, q < S
    PROVE  (k * S + q) \div S = k
  OBVIOUS

LEMMA LegacyAccepted ==
    ASSUME NEW g, Sound(g), DistinctIds(AllEvents(g))
    PROVE  ValidateBackup(Legacy(g)) = IF ArchivedWithStock(g) THEN {} ELSE {Forgotten(g)}
<1>1. g \in Warehouses /\ AllEvents(g) \in Seq(Events) /\ InSegments(g)
  BY HistoryType DEF Sound
<1>2. PICK raw : raw = Legacy(g)
  OBVIOUS
<1>3. /\ raw.space = g.space /\ raw.seq = g.seq /\ raw.items = g.items /\ raw.places = g.places /\ raw.stocks = g.stocks
      /\ raw.version = 1 /\ raw.historySegments = << >> /\ raw.events = AllEvents(g) /\ raw.eventCount = g.eventCount
  BY <1>2 DEF Legacy, Copy
<1>4. AllEvents(raw) = AllEvents(g)
  BY <1>1, <1>3, FlattenEmpty, ConcatEmptySeq DEF AllEvents
<1>5. WholeHistory(raw)
  <2>1. {e.id : e \in EventSet(raw)} = Ids(AllEvents(g))
    BY <1>1, <1>4, EventSetIds
  <2>2. Cardinality({e.id : e \in EventSet(raw)}) = HistoryCount(raw)
    BY <1>1, <1>4, <2>1, CountIds DEF HistoryCount
  <2>3. raw.eventCount = HistoryCount(raw)
    BY <1>1, <1>3, <1>4 DEF InSegments, HistoryCount
  <2> QED
    BY <1>3, <2>2, <2>3 DEF WholeHistory
<1>6. PICK segs \in Seq(Seq(Events)), last \in Seq(Events), h \in Seq(Events) :
         segs = g.historySegments /\ last = g.events /\ h = AllEvents(g)
  BY <1>1 DEF Warehouses
<1>7. PICK S \in Nat : S = SegmentSize /\ S >= 1
  BY DomainAssumption
<1>8. PICK k \in Nat, r \in Nat : k = Len(segs) /\ r = Len(last)
  BY LenProperties
<1>9. r <= S /\ (k > 0 => r >= 1) /\ \A i \in DOMAIN segs : Len(segs[i]) = S
  <2>1. k > 0 => r >= 1
    <3>1. k > 0 => segs # << >>
      BY <1>8
    <3>2. last # << >> => r >= 1
      BY <1>8, EmptySeq
    <3> QED
      BY <1>1, <1>6, <3>1, <3>2 DEF InSegments
  <2> QED
    BY <1>1, <1>6, <1>7, <1>8, <2>1 DEF InSegments
<1>10. PICK x \in Nat : x = k * S
  OBVIOUS
<1>11. PICK first \in Seq(Events) : first = FlattenSeq(segs) /\ Len(first) = x
         /\ \A i \in 1..k, j \in 1..S : first[(i - 1) * S + j] = segs[i][j]
  <2>1. FlattenSeq(segs) \in Seq(Events)
    BY FlattenType
  <2>2. /\ Len(FlattenSeq(segs)) = Len(segs) * S
        /\ \A i \in 1..Len(segs), j \in 1..S : FlattenSeq(segs)[(i - 1) * S + j] = segs[i][j]
    BY <1>9, FlattenFull
  <2> QED
    BY <1>8, <1>10, <2>1, <2>2
<1>12. h = first \o last
  BY <1>6, <1>11 DEF AllEvents
<1>13. Len(h) = x + r /\ \A i \in 1..(x + r) : h[i] = IF i <= x THEN first[i] ELSE last[i - x]
  <2>1. x = Len(first) /\ r = Len(last)
    BY <1>8, <1>11
  <2>2. /\ Len(first \o last) = x + r
        /\ \A i \in 1..(x + r) : (first \o last)[i] = IF i <= x THEN first[i] ELSE last[i - x]
    BY <2>1, JoinIs
  <2> QED
    BY <1>12, <2>2
<1>14. ASSUME NEW u \in Warehouses, SameBut(u, Forgotten(g)) PROVE Whole(u, raw) = Forgotten(g)
  <2>1. PICK w : w = [u EXCEPT !.historySegments = << >>, !.events = h]
    OBVIOUS
  <2>2. Whole(u, raw) = NormalizeHistory(w)
    BY <1>3, <1>6, <2>1 DEF Whole
  <2>3. w \in Warehouses /\ SameBut(w, Forgotten(g)) /\ w.historySegments = << >> /\ w.events = h
    <3>1. << >> \in Seq(Seq(Events))
      OBVIOUS
    <3>2. w \in Warehouses /\ SameBut(w, u) /\ w.historySegments = << >> /\ w.events = h
      BY <2>1, <3>1 DEF Warehouses, SameBut
    <3> QED
      BY <1>14, <3>2 DEF SameBut
  <2>4. ASSUME NEW v \in Warehouses, SameBut(v, Forgotten(g)), v.historySegments = segs, v.events = last
        PROVE  Counted(v) = Forgotten(g)
    <3>1. HistoryCount(v) = g.eventCount
      BY <1>1, <1>6, <2>4 DEF InSegments, HistoryCount, AllEvents
    <3>2. Counted(v) = [v EXCEPT !.eventCount = g.eventCount]
      BY <3>1 DEF Counted
    <3>3. [v EXCEPT !.eventCount = g.eventCount] = Forgotten(g)
      BY <1>1, <1>6, <2>4 DEF Warehouses, SameBut, Forgotten
    <3> QED
      BY <3>2, <3>3
  <2>5. CASE Len(h) <= S
    <3>1. k = 0
      <4>1. k > 0 => S <= x
        <5>1. k > 0 => 1 * S <= k * S
          OBVIOUS
        <5> QED
          BY <1>10, <5>1
      <4> QED
        BY <1>7, <1>9, <1>13, <2>5, <4>1
    <3>2. segs = << >>
      BY <1>8, <3>1, EmptySeq
    <3>3. h = last
      BY <1>11, <1>12, <3>2, FlattenEmpty, ConcatEmptySeq
    <3>4. NormalizeHistory(w) = Counted(w)
      BY <1>7, <2>3, <2>5 DEF NormalizeHistory
    <3> QED
      BY <2>2, <2>3, <2>4, <3>2, <3>3, <3>4
  <2>6. CASE ~(Len(h) <= S)
    <3>1. k > 0 /\ r >= 1
      <4>1. k = 0 => x = 0
        BY <1>10
      <4> QED
        BY <1>9, <1>13, <2>6, <4>1
    <3>2. (Len(w.events) - 1) \div SegmentSize = k
      <4>1. PICK q \in Nat : q = r - 1 /\ q < S
        BY <1>9, <3>1
      <4>2. (k * S + q) \div S = k
        BY <1>7, <4>1, DivideIs
      <4>3. Len(h) - 1 = k * S + q
        BY <1>10, <1>13, <4>1
      <4> QED
        BY <1>7, <2>3, <4>2, <4>3
    <3>3. PICK cut : cut = [n \in 1..k |-> SubSeq(h, (n - 1) * S + 1, n * S)]
      OBVIOUS
    <3>4. PICK rest : rest = SubSeq(h, k * S + 1, Len(h))
      OBVIOUS
    <3>5. cut = segs
      <4>1. ASSUME NEW n \in 1..k PROVE SubSeq(h, (n - 1) * S + 1, n * S) = segs[n]
        <5>1. PICK y \in Nat : y = (n - 1) * S
          <6>1. n - 1 \in Nat
            OBVIOUS
          <6>2. (n - 1) * S \in Nat
            BY <6>1
          <6> QED
            BY <6>2
        <5>2. n * S = y + S /\ n * S <= x
          BY <1>10, <5>1
        <5>3. segs[n] \in Seq(Events) /\ Len(segs[n]) = S
          <6>1. DOMAIN segs = 1..k
            BY <1>8, LenProperties
          <6> QED
            BY <1>8, <1>9, <6>1, ElementOfSeq
        <5>4. \A j \in 1..S : h[y + j] = segs[n][j]
          <6>1. \A j \in 1..S : y + j \in 1..(x + r) /\ y + j <= x
            BY <5>2
          <6>2. \A j \in 1..S : first[y + j] = segs[n][j]
            BY <1>11, <5>1
          <6> QED
            BY <1>13, <6>1, <6>2
        <5>5. y + S <= Len(h)
          BY <1>13, <5>2
        <5>6. SubSeq(h, y + 1, y + S) = segs[n]
          BY <5>3, <5>4, <5>5, PartIs
        <5> QED
          BY <5>1, <5>2, <5>6
      <4>2. segs = [n \in 1..k |-> segs[n]]
        BY <1>8, LenProperties
      <4> QED
        BY <3>3, <4>1, <4>2
    <3>6. rest = last
      <4>1. \A j \in 1..r : h[x + j] = last[j]
        <5>1. \A j \in 1..r : x + j \in 1..(x + r) /\ ~(x + j <= x) /\ (x + j) - x = j
          OBVIOUS
        <5> QED
          BY <1>13, <5>1
      <4>2. SubSeq(h, x + 1, x + r) = last
        <5>1. Len(last) = r /\ x + r <= Len(h)
          BY <1>8, <1>13
        <5> QED
          BY <4>1, <5>1, PartIs
      <4> QED
        BY <1>10, <1>13, <3>4, <4>2
    <3>7. PICK v : v = [w EXCEPT !.historySegments = segs, !.events = last]
      OBVIOUS
    <3>8. NormalizeHistory(w) = Counted(v)
      <4>1. NormalizeHistory(w) = Counted([w EXCEPT !.historySegments = @ \o cut, !.events = rest])
        BY <1>7, <2>3, <2>6, <3>2, <3>3, <3>4 DEF NormalizeHistory
      <4>2. w.historySegments \o cut = segs
        BY <2>3, <3>5, ConcatEmptySeq
      <4>3. [w EXCEPT !.historySegments = @ \o cut, !.events = rest] = v
        BY <3>6, <3>7, <4>2
      <4> QED
        BY <4>1, <4>3
    <3>9. v \in Warehouses /\ SameBut(v, Forgotten(g)) /\ v.historySegments = segs /\ v.events = last
      <4>1. v \in Warehouses /\ SameBut(v, w) /\ v.historySegments = segs /\ v.events = last
        BY <2>3, <3>7 DEF Warehouses, SameBut
      <4> QED
        BY <2>3, <4>1 DEF SameBut
    <3> QED
      BY <2>2, <2>4, <3>8, <3>9
  <2> QED
    BY <2>5, <2>6
<1> QED
  BY <1>2, <1>3, <1>4, <1>5, <1>14, CopyAccepted

-----------------------------------------------------------------------------
(* Stocks computed from all changes of a history *)

\* What one change adds to the stock k.
Step(a, d, k) ==
    IF <<d.item, d.place>> # k THEN a ELSE [qty |-> a.qty + d.qty, version |-> a.version + 1]

Nothing0 == [qty |-> 0, version |-> 0]

Computes(f, changes, k, N) ==
    /\ f \in [0..N -> [qty : Int, version : Nat]] /\ f[0] = Nothing0
    /\ \A n \in 1..N : f[n] = Step(f[n - 1], changes[n], k)

LEMMA ComputedRun ==
    ASSUME NEW changes \in Seq(Changes), NEW k, NEW N \in Nat, N = Len(changes)
    PROVE  \E f : Computes(f, changes, k, N) /\ Computed(changes, k) = f[N]
<1> DEFINE X == [qty : Int, version : Nat]
           G == [n \in 1..N |-> [a \in X |-> Step(a, changes[n], k)]]
           c == CHOOSE h : h = [n \in 0..N |-> IF n = 0 THEN Nothing0
                                ELSE IF <<changes[n].item, changes[n].place>> # k THEN h[n - 1]
                                ELSE [qty |-> h[n - 1].qty + changes[n].qty, version |-> h[n - 1].version + 1]]
<1>1. \A n \in 1..N : changes[n] \in Changes
  BY ElementOfSeq
<1>2. \A n \in 1..N, a \in X : Step(a, changes[n], k) \in X
  BY <1>1 DEF Step, Changes
<1>3. G \in [1..N -> [X -> X]]
  <2> HIDE DEF X
  <2> QED
    BY <1>2
<1>4. Nothing0 \in X
  BY DEF Nothing0
<1> HIDE DEF X
<1>5. PICK f \in [0..N -> X] : Iterates(f, Nothing0, G, N)
  <2> HIDE DEF G
  <2> QED
    BY <1>3, <1>4, IteratesExist
<1>6. \A n \in 1..N : n - 1 \in 0..N /\ n \in 0..N /\ f[n] = Step(f[n - 1], changes[n], k)
  <2>1. \A n \in 1..N : n - 1 \in 0..N /\ n \in 0..N
    OBVIOUS
  <2>2. \A n \in 1..N : f[n - 1] \in X
    BY <2>1
  <2>3. \A n \in 1..N : G[n][f[n - 1]] = Step(f[n - 1], changes[n], k)
    BY <2>2
  <2> HIDE DEF G
  <2> QED
    BY <1>5, <2>1, <2>3 DEF Iterates
<1>7. f[0] = Nothing0
  BY <1>5 DEF Iterates
<1>8. f = [n \in 0..N |-> IF n = 0 THEN Nothing0
                                ELSE IF <<changes[n].item, changes[n].place>> # k THEN f[n - 1]
                                ELSE [qty |-> f[n - 1].qty + changes[n].qty, version |-> f[n - 1].version + 1]]
  <2>1. \A n \in 0..N : n = 0 \/ n \in 1..N
    OBVIOUS
  <2> QED
    BY <1>6, <1>7, <2>1 DEF Step
<1>9. Computed(changes, k) = c[N]
  BY Zenon DEF Computed, Nothing0
<1>10. c = [n \in 0..N |-> IF n = 0 THEN Nothing0
                                ELSE IF <<changes[n].item, changes[n].place>> # k THEN c[n - 1]
                                ELSE [qty |-> c[n - 1].qty + changes[n].qty, version |-> c[n - 1].version + 1]]
  BY <1>8, Zenon
<1> HIDE DEF c, G
<1>11. \A n \in 0..N : c[n] = f[n]
  <2> DEFINE T == {n \in 0..N : c[n] # f[n]}
  <2>1. T = {}
    <3> SUFFICES ASSUME T # {} PROVE FALSE
      OBVIOUS
    <3>1. PICK n \in T : \A m \in T : n <= m
      <4>1. T \subseteq Nat
        OBVIOUS
      <4> HIDE DEF T
      <4> QED
        BY <4>1, Least
    <3>2. n # 0
      BY <1>7, <1>10, <3>1
    <3>3. n \in 1..N /\ n - 1 \in 0..N /\ n - 1 \notin T
      <4>1. n \in 0..N
        OBVIOUS
      <4>2. n \in 1..N /\ n - 1 \in 0..N /\ ~(n <= n - 1)
        BY <3>2, <4>1
      <4> QED
        BY <3>1, <4>2
    <3>4. c[n] = Step(c[n - 1], changes[n], k)
      BY <1>10, <3>2 DEF Step
    <3> QED
      BY <1>6, <3>1, <3>3, <3>4
  <2> QED
    BY <2>1
<1>12. N \in 0..N
  OBVIOUS
<1> QED
  BY <1>5, <1>6, <1>7, <1>9, <1>11, <1>12 DEF Computes, X

LEMMA ComputedAppend ==
    ASSUME NEW changes \in Seq(Changes), NEW d \in Changes, NEW k
    PROVE  Computed(Append(changes, d), k) = Step(Computed(changes, k), d, k)
<1>1. PICK N \in Nat : N = Len(changes)
  BY LenProperties
<1>2. PICK more \in Seq(Changes) : more = Append(changes, d)
  BY AppendProperties
<1>3. Len(more) = N + 1 /\ more[N + 1] = d /\ \A n \in 1..N : more[n] = changes[n]
  BY <1>1, <1>2, AppendProperties
<1>4. PICK f : Computes(f, changes, k, N) /\ Computed(changes, k) = f[N]
  BY <1>1, ComputedRun
<1>5. PICK M, g : M \in Nat /\ M = N + 1 /\ Computes(g, more, k, M) /\ Computed(more, k) = g[M]
  <2>1. PICK M \in Nat : M = N + 1 /\ M = Len(more)
    BY <1>3
  <2> QED
    BY <2>1, ComputedRun
<1>6. \A n \in 0..N : g[n] = f[n]
  <2> DEFINE T == {n \in 0..N : g[n] # f[n]}
  <2>1. T = {}
    <3> SUFFICES ASSUME T # {} PROVE FALSE
      OBVIOUS
    <3>1. PICK n \in T : \A m \in T : n <= m
      <4>1. T \subseteq Nat
        OBVIOUS
      <4> HIDE DEF T
      <4> QED
        BY <4>1, Least
    <3>2. n # 0
      BY <1>4, <1>5, <3>1 DEF Computes
    <3>3. n \in 1..N /\ n \in 1..M /\ n - 1 \in 0..N /\ n - 1 \notin T
      <4>1. n \in 0..N
        OBVIOUS
      <4>2. n \in 1..N /\ n \in 1..M /\ n - 1 \in 0..N /\ ~(n <= n - 1)
        BY <1>5, <3>2, <4>1
      <4> QED
        BY <3>1, <4>2
    <3>4. g[n] = Step(g[n - 1], more[n], k) /\ f[n] = Step(f[n - 1], changes[n], k)
      BY <1>4, <1>5, <3>3 DEF Computes
    <3> QED
      BY <1>3, <3>1, <3>3, <3>4
  <2> QED
    BY <2>1
<1>7. g[M] = Step(g[M - 1], more[M], k) /\ M - 1 = N /\ N \in 0..N
  <2>1. M \in 1..M
    BY <1>5
  <2> QED
    BY <1>5, <2>1 DEF Computes
<1>8. g[M] = Step(f[N], d, k)
  BY <1>3, <1>5, <1>6, <1>7
<1> QED
  BY <1>2, <1>4, <1>5, <1>8

LEMMA JoinOne ==
    ASSUME NEW E, NEW a \in Seq(E), NEW b \in Seq(E)
    PROVE  /\ Len(b) = 1 => a \o b = Append(a, b[1])
           /\ Len(b) = 2 => a \o b = Append(Append(a, b[1]), b[2])
<1>1. ASSUME Len(b) = 1 PROVE a \o b = Append(a, b[1])
  <2>1. b[1] \in E /\ b = <<b[1]>>
    BY <1>1
  <2>2. Append(a, b[1]) = a \o <<b[1]>>
    BY <2>1, AppendIsConcat
  <2> QED
    BY <2>1, <2>2
<1>2. ASSUME Len(b) = 2 PROVE a \o b = Append(Append(a, b[1]), b[2])
  <2>1. \A i \in 1..2 : b[i] \in E
    BY <1>2, ElementOfSeq
  <2>2. PICK x \in E, y \in E : x = b[1] /\ y = b[2]
    BY <2>1
  <2>3. b = <<x, y>>
    <3>1. PICK c \in Seq(E) : c = <<x, y>>
      <4>1. <<x, y>> \in Seq(E)
        OBVIOUS
      <4> QED
        BY <4>1
    <3>2. Len(c) = 2 /\ c[1] = b[1] /\ c[2] = b[2]
      BY <2>2, <3>1
    <3>3. Len(b) = Len(c) /\ \A i \in 1..Len(b) : b[i] = c[i]
      <4>1. \A i \in 1..2 : i = 1 \/ i = 2
        OBVIOUS
      <4> QED
        BY <1>2, <3>2, <4>1
    <3> QED
      BY <3>1, <3>3, SeqEqual
  <2>4. a \o <<x, y>> = Append(Append(a, x), y)
    OBVIOUS
  <2> QED
    BY <2>2, <2>3, <2>4
<1> QED
  BY <1>1, <1>2

LEMMA StepIsChange ==
    ASSUME NEW m \in Stocks, NEW d \in Changes, NEW places, CanChange(m, d, places), NEW k
    PROVE  At(Changed(m, d), k) = Step(At(m, k), d, k)
  BY ChangedProperties DEF Step

\* What an event does to a stock is what its changes add up to.
LEMMA EventComputed ==
    ASSUME NEW before0 \in Seq(Changes), NEW m \in Stocks, NEW k, Computed(before0, k) = At(m, k),
           NEW e \in Events, Len(e.changes) \in 1..2, NEW places, CanDo(m, e, places)
    PROVE  Computed(before0 \o e.changes, k) = At(After(m, e), k)
<1>1. PICK cs \in Seq(Changes) : cs = e.changes
  BY DEF Events
<1>2. PICK N \in 1..2 : N = Len(cs)
  BY <1>1
<1>3. cs[1] \in Changes /\ (N = 2 => cs[2] \in Changes)
  BY <1>1, <1>2, EventChanges
<1>4. CanChange(m, cs[1], places) /\ (N = 2 => CanChange(Changed(m, cs[1]), cs[2], places))
  BY <1>1, <1>2 DEF CanDo
<1>5. PICK m1 \in Stocks : m1 = Changed(m, cs[1])
  BY <1>3, <1>4, ChangedProperties
<1>6. PICK one \in Seq(Changes) : one = Append(before0, cs[1])
  BY <1>3, AppendProperties
<1>7. Computed(one, k) = At(m1, k)
  <2>1. Computed(one, k) = Step(Computed(before0, k), cs[1], k)
    BY <1>3, <1>6, ComputedAppend
  <2>2. At(m1, k) = Step(At(m, k), cs[1], k)
    BY <1>3, <1>4, <1>5, StepIsChange
  <2> QED
    BY <2>1, <2>2
<1>8. CASE N = 1
  <2>1. before0 \o cs = one
    BY <1>2, <1>6, <1>8, JoinOne
  <2>2. After(m, e) = m1
    BY <1>1, <1>2, <1>5, <1>8 DEF After
  <2> QED
    BY <1>1, <1>7, <2>1, <2>2
<1>9. CASE N = 2
  <2>1. before0 \o cs = Append(one, cs[2])
    BY <1>2, <1>6, <1>9, JoinOne
  <2>2. After(m, e) = Changed(m1, cs[2])
    BY <1>1, <1>2, <1>5, <1>9 DEF After
  <2>3. Computed(Append(one, cs[2]), k) = Step(Computed(one, k), cs[2], k)
    BY <1>3, <1>9, ComputedAppend
  <2>4. At(Changed(m1, cs[2]), k) = Step(At(m1, k), cs[2], k)
    BY <1>3, <1>4, <1>5, <1>9, StepIsChange
  <2> QED
    BY <1>1, <1>7, <2>1, <2>2, <2>3, <2>4
<1> QED
  BY <1>8, <1>9

\* The stocks of a sound warehouse are what its whole history adds up to.
LEMMA SoundStocks ==
    ASSUME NEW s, Sound(s), NEW k
    PROVE  At(s.stocks, k) = Computed(AllChanges(s), k)
<1>1. PICK h \in Seq(Events) : h = AllEvents(s)
  BY HistoryType DEF Sound
<1>2. PICK N \in Nat : N = Len(h)
  BY LenProperties
<1>3. PICK css : css = [n \in 1..N |-> h[n].changes]
  OBVIOUS
<1>4. css \in Seq(Seq(Changes)) /\ Len(css) = N
  <2>1. \A n \in 1..N : h[n].changes \in Seq(Changes)
    <3>1. \A n \in 1..N : h[n] \in Events
      BY <1>2, ElementOfSeq
    <3> QED
      BY <3>1 DEF Events
  <2>2. css \in [1..N -> Seq(Changes)]
    BY <1>3, <2>1
  <2> QED
    BY <2>2
<1>5. AllChanges(s) = FlattenSeq(css)
  BY <1>1, <1>2, <1>3 DEF AllChanges, HistoryCount
<1>6. PICK F \in [0..N -> Seq(Changes)] : Flattens(F, css, N) /\ FlattenSeq(css) = F[N]
  BY <1>4, FlattensExist
<1>7. PICK R : RunTo(R, h, s.items, s.places, N) /\ R[N] = s.stocks
  BY <1>1, <1>2 DEF Sound, Replayed, Runs, HistoryCount
<1> DEFINE T == {n \in 0..N : Computed(F[n], k) # At(R[n], k)}
<1>8. T = {}
  <2> SUFFICES ASSUME T # {} PROVE FALSE
    OBVIOUS
  <2>1. PICK n \in T : \A m \in T : n <= m
    <3>1. T \subseteq Nat
      OBVIOUS
    <3> HIDE DEF T
    <3> QED
      BY <3>1, Least
  <2>2. n # 0
    <3>1. F[0] = << >> /\ R[0] = << >>
      BY <1>6, <1>7 DEF Flattens, RunTo
    <3>2. PICK none \in Seq(Changes), z \in Nat : none = << >> /\ z = Len(none) /\ z = 0
      <4>1. << >> \in Seq(Changes) /\ Len(<< >>) = 0
        BY EmptySeq
      <4> QED
        BY <4>1
    <3>3. PICK f : Computes(f, none, k, z) /\ Computed(none, k) = f[z]
      BY <3>2, ComputedRun
    <3>4. Computed(F[0], k) = Nothing0
      BY <3>1, <3>2, <3>3 DEF Computes
    <3>5. At(R[0], k) = Nothing0
      BY <3>1 DEF At, Nothing0
    <3> QED
      BY <2>1, <3>4, <3>5
  <2>3. PICK p \in 0..N : p = n - 1 /\ n \in 1..N /\ p \notin T
    <3>1. n \in 0..N
      OBVIOUS
    <3>2. PICK p \in 0..N : p = n - 1 /\ ~(n <= p) /\ n \in 1..N
      BY <2>2, <3>1
    <3>3. p \notin T
      <4> HIDE DEF T
      <4> QED
        BY <2>1, <3>2
    <3> QED
      BY <3>2, <3>3
  <2>4. F[n] = F[p] \o css[n] /\ css[n] = h[n].changes
    BY <1>3, <1>6, <2>3 DEF Flattens
  <2>5. /\ R[p] \in Stocks /\ R[n] = After(R[p], h[n]) /\ CanDo(R[p], h[n], s.places)
        /\ h[n] \in Events /\ Len(h[n].changes) \in 1..2
    BY <1>7, <2>3 DEF RunTo, GoodEvent
  <2>6. F[p] \in Seq(Changes) /\ Computed(F[p], k) = At(R[p], k)
    BY <2>3
  <2>7. Computed(F[p] \o h[n].changes, k) = At(After(R[p], h[n]), k)
    BY <2>5, <2>6, EventComputed
  <2> QED
    BY <2>1, <2>4, <2>5, <2>7
<1>9. N \in 0..N
  OBVIOUS
<1> QED
  BY <1>5, <1>6, <1>7, <1>8, <1>9

-----------------------------------------------------------------------------
(* The invariant of the program *)

\* The identifiers the events of this life may have: those of the warehouse the
\* pages found, of the commands made, and of the rows of its documents.
StartIds(l) == IF l.start = None THEN {} ELSE Ids(AllEvents(l.start))
Rows(l) == UNION {EventIds(d) : d \in {x \in l.commands : x.type = "batch"}}
Known(l, made) == StartIds(l) \cup made \cup Rows(l)

\* What may be stored, shown, copied and written to the file.
Held(K) == {s \in Warehouses : Sound(s) /\ DistinctIds(AllEvents(s)) /\ Ids(AllEvents(s)) \subseteq K}
HeldOrNone(K) == Held(K) \cup {None}
CopiesOf(K) == {Clean(g) : g \in Held(K)} \cup {Legacy(g) : g \in Held(K)}
Files(K) == {Clean(g) : g \in Held(K)} \cup {None}
Pages(K) == [state : HeldOrNone(K), form : BOOLEAN, sent : HeldOrNone(K),
             install : {"", "restore", "file", "again"}, value : HeldOrNone(K)]

Kinds ==
    /\ life \in Lives /\ news \subseteq Tabs /\ unaware \subseteq Tabs /\ installs \in 0..life.installed
    /\ IsFiniteSet(copies) /\ Cardinality(copies) <= life.kept

Holds(K) ==
    /\ local \in HeldOrNone(K) /\ before \in HeldOrNone(K) /\ page \in [Tabs -> Pages(K)]
    /\ copies \subseteq CopiesOf(K) /\ file \in Files(K)

\* A restoration on its way has its copy and no command in front of it; a page
\* without a warehouse has nothing to tell.
InstallsGo == \A t \in Tabs :
    /\ page[t].state = None => page[t].sent = None
    /\ page[t].install # "" => page[t].value # None /\ page[t].sent = None
    /\ page[t].install = "again" => page[t].state # None /\ local # None

\* A page nobody has left behind shows the stored warehouse, or stored it
\* itself, or another one has still to tell of a command.
Shows == \A t \in Open \ (news \cup unaware) :
    \/ \E u \in Open \ {t} : page[u].sent # None
    \/ page[t].sent = None /\ (page[t].state # None => page[t].state = local)
    \/ page[t].sent # None /\ page[t].sent = local

Inv == Kinds /\ Holds(Known(life, used)) /\ InstallsGo /\ Shows

LEMMA NotNone ==
    ASSUME NEW s \in Warehouses
    PROVE  s # None /\ Clean(s) # None /\ Legacy(s) # None
<1>1. "seq" \in DOMAIN s
  BY DEF Warehouses
<1>2. "seq" \in DOMAIN Clean(s) /\ "seq" \in DOMAIN Legacy(s)
  BY DEF Clean, Legacy, Copy
<1>3. "seq" \notin DOMAIN None
  BY DEF None
<1> QED
  BY <1>1, <1>2, <1>3

LEMMA HeldMore ==
    ASSUME NEW K, NEW L, K \subseteq L
    PROVE  /\ Held(K) \subseteq Held(L) /\ HeldOrNone(K) \subseteq HeldOrNone(L)
           /\ CopiesOf(K) \subseteq CopiesOf(L) /\ Files(K) \subseteq Files(L) /\ Pages(K) \subseteq Pages(L)
<1>1. Held(K) \subseteq Held(L)
  BY DEF Held
<1>2. HeldOrNone(K) \subseteq HeldOrNone(L)
  BY <1>1 DEF HeldOrNone
<1>3. CopiesOf(K) \subseteq CopiesOf(L) /\ Files(K) \subseteq Files(L)
  BY <1>1 DEF CopiesOf, Files
<1>4. Pages(K) \subseteq Pages(L)
  <2> HIDE DEF HeldOrNone
  <2> QED
    BY <1>2 DEF Pages
<1> QED
  BY <1>1, <1>2, <1>3, <1>4

\* A copy has the history of its warehouse, in either format.
LEMMA CopyHistory ==
    ASSUME NEW s \in Warehouses
    PROVE  AllEvents(Clean(s)) = AllEvents(s) /\ AllEvents(Legacy(s)) = AllEvents(s)
<1>1. PICK h \in Seq(Events) : h = AllEvents(s)
  BY HistoryType
<1>2. AllEvents(Clean(s)) = AllEvents(s)
  BY DEF AllEvents, Clean, Copy
<1>3. Legacy(s).historySegments = << >> /\ Legacy(s).events = h
  BY <1>1 DEF Legacy, Copy
<1>4. AllEvents(Legacy(s)) = << >> \o h
  BY <1>3, FlattenEmpty DEF AllEvents
<1> QED
  BY <1>1, <1>2, <1>4, ConcatEmptySeq

LEMMA ForgottenHeld ==
    ASSUME NEW K, NEW g \in Held(K)
    PROVE  Forgotten(g) \in Held(K) /\ AllEvents(Forgotten(g)) = AllEvents(g)
<1>1. g \in Warehouses /\ Sound(g)
  BY DEF Held
<1>2. PICK t : t = Forgotten(g)
  OBVIOUS
<1>3. PICK none \in Seq(Commands) : none = << >> /\ Len(none) = 0
  <2>1. << >> \in Seq(Commands) /\ Len(<< >>) = 0
    BY EmptySeq
  <2> QED
    BY <2>1
<1>4. /\ t \in Warehouses /\ SameHistory(t, g) /\ t.items = g.items /\ t.places = g.places
      /\ t.stocks = g.stocks /\ t.seen = none
  BY <1>1, <1>2, <1>3 DEF Forgotten, Warehouses, SameHistory
<1>5. InSegments(t) /\ Replayed(t) /\ AllEvents(t) = AllEvents(g)
  <2>1. InSegments(g) /\ Replayed(g) /\ Len(t.seen) <= RecentLimit
    BY <1>1, <1>3, <1>4, DomainAssumption DEF Sound
  <2> QED
    BY <1>4, <2>1, StillReplayed
<1>6. Sound(t)
  BY <1>1, <1>4, <1>5 DEF Sound, CodesFree
<1> QED
  BY <1>2, <1>4, <1>5, <1>6 DEF Held

\* What a copy gives back was held, with the history of the copy.
LEMMA Restored ==
    ASSUME NEW K, NEW raw \in CopiesOf(K), NEW s \in ValidateBackup(raw)
    PROVE  s \in Held(K) /\ AllEvents(s) = AllEvents(raw)
<1>1. PICK g \in Held(K) : raw = Clean(g) \/ raw = Legacy(g)
  BY DEF CopiesOf
<1>2. g \in Warehouses /\ Sound(g) /\ DistinctIds(AllEvents(g))
  BY DEF Held
<1>3. ValidateBackup(raw) = IF ArchivedWithStock(g) THEN {} ELSE {Forgotten(g)}
  BY <1>1, <1>2, CleanAccepted, LegacyAccepted
<1>4. s = Forgotten(g)
  BY <1>3
<1> QED
  BY <1>1, <1>2, <1>4, ForgottenHeld, CopyHistory

LEMMA CreatedHeld ==
    ASSUME NEW K
    PROVE  CreateState("S") \in Held(K) /\ AllEvents(CreateState("S")) = << >>
<1>1. PICK s : s = CreateState("S")
  OBVIOUS
<1>2. Sound(s) /\ AllEvents(s) = << >> /\ Len(<< >>) = 0
  BY <1>1, CreatedSound
<1>3. DistinctIds(AllEvents(s)) /\ Ids(AllEvents(s)) = {}
  BY <1>2 DEF DistinctIds, Ids
<1> QED
  BY <1>1, <1>2, <1>3 DEF Held, Sound

LEMMA StartHeld ==
    ASSUME NEW l \in Lives, l.start # None
    PROVE  l.start \in Held(StartIds(l))
<1>1. IsWarehouse(l.start) /\ InSegments(l.start) /\ ValidateBackup(Clean(l.start)) = {[l.start EXCEPT !.seen = << >>]}
  BY PersonalAssumption
<1>2. Sound(l.start) /\ DistinctIds(AllEvents(l.start))
  BY <1>1, StartSound
<1> QED
  BY <1>2 DEF Held, StartIds, Sound

LEMMA ExtendedIds ==
    ASSUME NEW h, NEW k \in Seq(Events), NEW I, Extends(k, h, I), Len(h) \in Nat
    PROVE  Ids(k) \subseteq Ids(h) \cup I
<1> SUFFICES ASSUME NEW n \in 1..Len(k) PROVE k[n].id \in Ids(h) \cup I
  BY DEF Ids
<1>1. PICK M \in Nat, N \in Nat : M = Len(h) /\ N = Len(k)
  BY LenProperties
<1>2. n \in 1..M \/ n \in (M + 1)..N
  BY <1>1
<1> QED
  BY <1>1, <1>2 DEF Extends, Ids

\* What a command makes of a held warehouse.
LEMMA CommandHeld ==
    ASSUME NEW l \in Lives, NEW made, NEW s \in Held(Known(l, made)),
           NEW c \in l.commands, c.id \notin made \/ c.type \in {"batch", "catalog-import"},
           NEW t \in Execute(s, c, Me)
    PROVE  /\ t \in Held(Known(l, made \cup {c.id}))
           /\ Extends(AllEvents(t), AllEvents(s), EventIds(c))
<1>1. PICK K, L : K = Known(l, made) /\ L = Known(l, made \cup {c.id})
  OBVIOUS
<1>2. c \in Commands /\ Sound(s) /\ DistinctIds(AllEvents(s)) /\ Ids(AllEvents(s)) \subseteq K
  BY <1>1, PersonalAssumption DEF Held
<1>3. K \subseteq L
  BY <1>1 DEF Known
<1>4. EventIds(c) \subseteq L
  BY <1>1 DEF Known, Rows, EventIds
<1>5. c.type = "batch" \/ EventIds(c) \cap Ids(AllEvents(s)) = {}
  <2> SUFFICES ASSUME c.type # "batch" PROVE EventIds(c) \cap K = {}
    BY <1>2
  <2>1. EventIds(c) \cap made = {}
    BY DEF EventIds, Moves
  <2>2. EventIds(c) \cap Rows(l) = {}
    BY PersonalAssumption DEF Rows
  <2>3. EventIds(c) \cap StartIds(l) = {}
    <3>1. CASE l.start = None
      BY <3>1 DEF StartIds
    <3>2. CASE l.start # None
      <4>1. l.start \in Warehouses
        BY <3>2, StartHeld DEF Held
      <4>2. {e.id : e \in EventSet(l.start)} = Ids(AllEvents(l.start))
        BY <4>1, HistoryType, EventSetIds
      <4> QED
        BY <3>2, <4>2, PersonalAssumption DEF StartIds
    <3> QED
      BY <3>1, <3>2
  <2> QED
    BY <1>1, <2>1, <2>2, <2>3 DEF Known
<1>6. Sound(t) /\ DistinctIds(AllEvents(t)) /\ Extends(AllEvents(t), AllEvents(s), EventIds(c))
  BY <1>2, <1>5, Executes
<1>7. Ids(AllEvents(t)) \subseteq L
  <2>1. AllEvents(t) \in Seq(Events) /\ AllEvents(s) \in Seq(Events)
    BY <1>2, <1>6, HistoryType DEF Sound
  <2>2. Len(AllEvents(s)) \in Nat
    BY <2>1, LenProperties
  <2>3. Ids(AllEvents(t)) \subseteq Ids(AllEvents(s)) \cup EventIds(c)
    BY <1>6, <2>1, <2>2, ExtendedIds
  <2> QED
    BY <1>2, <1>3, <1>4, <2>3
<1> QED
  BY <1>1, <1>6, <1>7 DEF Held, Sound

LEMMA OpenTabs == Open \subseteq Tabs
  BY PersonalAssumption DEF Open

LEMMA PageHeld ==
    ASSUME NEW K, NEW s \in HeldOrNone(K)
    PROVE  /\ Page(s) \in Pages(K) /\ Page(s).state = s /\ ~Page(s).form
           /\ Page(s).sent = None /\ Page(s).install = "" /\ Page(s).value = None
<1>1. None \in HeldOrNone(K)
  BY DEF HeldOrNone
<1> QED
  BY <1>1 DEF Page, Pages

LEMMA InitInv == Init => Inv
<1> SUFFICES ASSUME Init PROVE Inv
  OBVIOUS
<1>1. life \in Lives /\ local = life.start /\ before = None /\ file = None /\ page = [t \in Tabs |-> Page(local)]
      /\ news = {} /\ used = {} /\ installs = 0 /\ unaware = {}
      /\ copies = IF local = None THEN {} ELSE {Legacy(local)}
  BY DEF Init
<1>2. PICK K : K = Known(life, used)
  OBVIOUS
<1>3. local \in HeldOrNone(K) /\ (local # None => local \in Held(K))
  <2>1. CASE local = None
    BY <2>1 DEF HeldOrNone
  <2>2. CASE local # None
    <3>1. local \in Held(StartIds(life)) /\ StartIds(life) \subseteq K
      BY <1>1, <1>2, <2>2, StartHeld DEF Known
    <3> QED
      BY <3>1, HeldMore DEF HeldOrNone
  <2> QED
    BY <2>1, <2>2
<1>4. Page(local) \in Pages(K)
  BY <1>3 DEF Page, Pages, HeldOrNone
<1>5. Kinds
  <2>1. {life.kept, life.installed} \subseteq Nat /\ (life.start # None => life.kept > 0)
    BY <1>1, PersonalAssumption
  <2>2. IsFiniteSet(copies) /\ Cardinality(copies) <= life.kept
    <3>1. CASE local = None
      BY <1>1, <2>1, <3>1, FS_EmptySet
    <3>2. CASE local # None
      <4>1. life.kept \in Nat /\ life.kept > 0
        BY <1>1, <2>1, <3>2
      <4>2. copies = {Legacy(local)}
        BY <1>1, <3>2
      <4>3. IsFiniteSet(copies) /\ Cardinality(copies) = 1
        BY <4>2, FS_Singleton
      <4> QED
        BY <4>1, <4>3
    <3> QED
      BY <3>1, <3>2
  <2> QED
    BY <1>1, <2>1, <2>2 DEF Kinds
<1>6. Holds(K)
  BY <1>1, <1>3, <1>4 DEF Holds, CopiesOf, Files, HeldOrNone
<1>7. \A t \in Tabs : page[t].state = local /\ page[t].sent = None /\ page[t].install = ""
  BY <1>1 DEF Page
<1>8. InstallsGo
  BY <1>7 DEF InstallsGo, Page
<1>9. Shows
  BY <1>7, OpenTabs DEF Shows
<1> QED
  BY <1>2, <1>5, <1>6, <1>8, <1>9 DEF Inv

\* A step of the page t, which becomes q.
LEMMA PageSteps ==
    ASSUME Inv, NEW t \in Tabs, NEW L, L = Known(life', used'), Known(life, used) \subseteq L,
           NEW q \in Pages(L), page' = [page EXCEPT ![t] = q], life' = life,
           news' \subseteq Tabs, unaware' \subseteq Tabs, installs' \in 0..life.installed,
           IsFiniteSet(copies'), Cardinality(copies') <= life.kept,
           local' \in HeldOrNone(L), before' \in HeldOrNone(L), copies' \subseteq CopiesOf(L), file' \in Files(L),
           local # None => local' # None,
           q.install # "" => q.value # None /\ q.sent = None,
           q.install = "again" => q.state # None /\ local' # None,
           q.state = None => q.sent = None,
           Shows'
    PROVE  Inv'
<1>1. page \in [Tabs -> Pages(L)]
  <2>1. page \in [Tabs -> Pages(Known(life, used))] /\ Pages(Known(life, used)) \subseteq Pages(L)
    BY HeldMore DEF Inv, Holds
  <2> QED
    BY <2>1
<1>2. page' \in [Tabs -> Pages(L)] /\ page'[t] = q /\ \A u \in Tabs \ {t} : page'[u] = page[u]
  BY <1>1
<1>3. Kinds'
  BY DEF Inv, Kinds
<1>4. Holds(Known(life, used))'
  BY <1>2 DEF Holds
<1>5. InstallsGo'
  BY <1>2 DEF Inv, InstallsGo
<1> QED
  BY <1>3, <1>4, <1>5 DEF Inv

\* A step of the page t after which nothing else is stored and the same pages
\* have something to tell.
LEMMA ShowsSame ==
    ASSUME Shows, NEW P, page \in [Tabs -> P], NEW t \in Tabs, NEW q, page' = [page EXCEPT ![t] = q],
           life' = life, local' = local, q.sent = page[t].sent,
           \A u \in Tabs \ {t} : u \in news \cup unaware => u \in news' \cup unaware',
           \/ q.sent = None /\ q.state = local
           \/ q.state = page[t].state /\ (t \in news \cup unaware => t \in news' \cup unaware')
    PROVE  Shows'
<1>1. PICK O \in SUBSET Tabs : O = Open
  BY OpenTabs
<1>2. Open' = O
  BY <1>1 DEF Open
<1>3. page'[t] = q /\ \A u \in Tabs \ {t} : page'[u] = page[u]
  OBVIOUS
<1>4. \A u \in Tabs : page'[u].sent = page[u].sent
  BY <1>3
<1>5. ASSUME NEW u \in O \ (news' \cup unaware')
      PROVE  \/ \E v \in O \ {u} : page'[v].sent # None
             \/ page'[u].sent = None /\ (page'[u].state # None => page'[u].state = local')
             \/ page'[u].sent # None /\ page'[u].sent = local'
  <2>1. CASE u \in news \cup unaware
    BY <1>3, <2>1
  <2>2. CASE u \notin news \cup unaware
    <3>1. \/ \E v \in O \ {u} : page[v].sent # None
          \/ page[u].sent = None /\ (page[u].state # None => page[u].state = local)
          \/ page[u].sent # None /\ page[u].sent = local
      BY <1>1, <2>2 DEF Shows
    <3> QED
      BY <1>3, <1>4, <3>1
  <2> QED
    BY <2>1, <2>2
<1> QED
  BY <1>2, <1>5 DEF Shows

\* A step of the page t that leaves every other page behind.
LEMMA ShowsOne ==
    ASSUME NEW P, page \in [Tabs -> P], NEW t \in Tabs, NEW q, page' = [page EXCEPT ![t] = q], life' = life,
           Open \ {t} \subseteq news' \cup unaware',
           t \in Open => t \in news' \cup unaware' \/ (q.sent = None /\ q.state = local')
    PROVE  Shows'
<1>1. PICK O \in SUBSET Tabs : O = Open
  BY OpenTabs
<1>2. Open' = O
  BY <1>1 DEF Open
<1>3. page'[t] = q
  OBVIOUS
<1> QED
  BY <1>1, <1>2, <1>3 DEF Shows

\* What is known of the state before a step.
LEMMA Held0 ==
    ASSUME Inv
    PROVE  \E K : /\ K = Known(life, used) /\ Holds(K) /\ Kinds /\ InstallsGo /\ Shows
                  /\ local \in HeldOrNone(K) /\ before \in HeldOrNone(K) /\ copies \subseteq CopiesOf(K)
                  /\ file \in Files(K) /\ page \in [Tabs -> Pages(K)]
                  /\ \A t \in Tabs : page[t] \in Pages(K)
<1>1. page \in [Tabs -> Pages(Known(life, used))]
  BY DEF Inv, Holds
<1>2. \A t \in Tabs : page[t] \in Pages(Known(life, used))
  BY <1>1
<1> QED
  BY <1>1, <1>2 DEF Inv, Holds

LEMMA OpenFormInv ==
    ASSUME Inv, NEW t \in Tabs, OpenForm(t)
    PROVE  Inv'
<1>1. PICK K : /\ K = Known(life, used) /\ Holds(K) /\ Kinds /\ InstallsGo /\ Shows
               /\ local \in HeldOrNone(K) /\ before \in HeldOrNone(K) /\ copies \subseteq CopiesOf(K)
               /\ file \in Files(K) /\ page \in [Tabs -> Pages(K)]
               /\ \A u \in Tabs : page[u] \in Pages(K)
  BY Held0
<1>2. PICK p \in Pages(K) : p = page[t]
  BY <1>1
<1>3. PICK q : q = IF local = None THEN [p EXCEPT !.form = TRUE] ELSE Page(local)
  OBVIOUS
<1>4. page' = [page EXCEPT ![t] = q] /\ p.state = None
  BY <1>2, <1>3 DEF OpenForm
<1>5. UNCHANGED <<life, local, before, news, file, copies, used, installs, unaware>>
  BY DEF OpenForm
<1>6. /\ q \in Pages(K) /\ (q.install # "" => q.value # None /\ q.sent = None) /\ q.install # "again"
      /\ q.sent = None /\ p.sent = None /\ q.state = local
  <2>1. (p.install # "" => p.value # None /\ p.sent = None) /\ p.install # "again" /\ p.sent = None
    BY <1>1, <1>2, <1>4 DEF InstallsGo
  <2>2. CASE local = None
    BY <1>3, <1>4, <2>1, <2>2 DEF Pages
  <2>3. CASE local # None
    BY <1>1, <1>3, <2>1, <2>3, PageHeld
  <2> QED
    BY <2>2, <2>3
<1>8. Shows'
  BY <1>1, <1>2, <1>4, <1>5, <1>6, ShowsSame
<1> QED
  BY <1>1, <1>4, <1>5, <1>6, <1>8, PageSteps DEF Kinds

LEMMA SubmitFormInv ==
    ASSUME Inv, NEW t \in Tabs, SubmitForm(t)
    PROVE  Inv' /\ local' = CreateState("S")
<1>1. PICK K : /\ K = Known(life, used) /\ Holds(K) /\ Kinds /\ InstallsGo /\ Shows
               /\ local \in HeldOrNone(K) /\ before \in HeldOrNone(K) /\ copies \subseteq CopiesOf(K)
               /\ file \in Files(K) /\ page \in [Tabs -> Pages(K)]
               /\ \A u \in Tabs : page[u] \in Pages(K)
  BY Held0
<1>2. PICK s : s = CreateState("S")
  OBVIOUS
<1>3. s \in Held(K) /\ s \in HeldOrNone(K) /\ s # None
  <2>1. s \in Held(K)
    BY <1>2, CreatedHeld
  <2> QED
    BY <2>1, NotNone DEF Held, HeldOrNone
<1>4. PICK q : q = Page(s)
  OBVIOUS
<1>5. /\ local' = s /\ page' = [page EXCEPT ![t] = q] /\ unaware' = (unaware \cup Tabs) \ {t}
      /\ UNCHANGED <<life, before, news, file, copies, used, installs>>
  BY <1>2, <1>4 DEF SubmitForm
<1>6. q \in Pages(K) /\ q.state = s /\ q.sent = None /\ q.install = ""
  BY <1>3, <1>4, PageHeld
<1>7. Shows'
  BY <1>1, <1>5, <1>6, ShowsOne, OpenTabs
<1>8. Inv'
  BY <1>1, <1>3, <1>5, <1>6, <1>7, PageSteps DEF Kinds
<1> QED
  BY <1>2, <1>5, <1>8

\* What a command puts into the place of the stored warehouse, or of the one
\* the page shows when nothing is stored any more.
Base(t) == IF local # None THEN local ELSE page[t].state

LEMMA CommitInv ==
    ASSUME Inv, NEW t \in Tabs, NEW c \in life.commands, Commit(t, c)
    PROVE  Inv' /\ local' # None /\ Base(t) # None
           /\ \E I : Extends(AllEvents(local'), AllEvents(Base(t)), I)
<1>1. PICK K : /\ K = Known(life, used) /\ Holds(K) /\ Kinds /\ InstallsGo /\ Shows
               /\ local \in HeldOrNone(K) /\ before \in HeldOrNone(K) /\ copies \subseteq CopiesOf(K)
               /\ file \in Files(K) /\ page \in [Tabs -> Pages(K)]
               /\ \A u \in Tabs : page[u] \in Pages(K)
  BY Held0
<1>2. PICK p \in Pages(K) : p = page[t]
  BY <1>1
<1>3. /\ t \in Open /\ p.state # None /\ p.sent = None /\ p.install = "" /\ Sendable(c)
      /\ used' = used \cup {c.id} /\ unaware' = unaware \ {t}
      /\ UNCHANGED <<life, before, news, file, copies, installs>>
  BY <1>2 DEF Commit
<1>4. PICK s \in Execute(Base(t), c, Me) : local' = s /\ page' = [page EXCEPT ![t].sent = s]
  BY DEF Commit, Base
<1>5. PICK L : L = Known(life, used \cup {c.id})
  OBVIOUS
<1>6. K \subseteq L /\ L = Known(life', used')
  BY <1>1, <1>3, <1>5 DEF Known
<1>7. Base(t) \in Held(K) /\ Base(t) # None
  BY <1>1, <1>2, <1>3 DEF Base, Pages, HeldOrNone
<1>8. s \in Held(L) /\ Extends(AllEvents(s), AllEvents(Base(t)), EventIds(c))
  <2>1. life \in Lives /\ (c.id \notin used \/ c.type \in {"batch", "catalog-import"})
    BY <1>1, <1>3 DEF Kinds, Sendable
  <2> QED
    BY <1>1, <1>4, <1>5, <1>7, <2>1, CommandHeld
<1>9. s \in HeldOrNone(L) /\ s # None
  BY <1>8, NotNone DEF Held, HeldOrNone
<1>10. PICK q : q = [p EXCEPT !.sent = s]
  OBVIOUS
<1>11. page' = [page EXCEPT ![t] = q]
  BY <1>2, <1>4, <1>10
<1>12. Pages(K) \subseteq Pages(L)
  BY <1>6, HeldMore
<1>13. q \in Pages(L) /\ q.sent = s /\ q.state # None /\ q.install = "" /\ q.state = p.state
  BY <1>3, <1>9, <1>10, <1>12 DEF Pages
<1>14. Shows'
  <2>1. PICK O \in SUBSET Tabs : O = Open /\ t \in O
    BY <1>3, OpenTabs
  <2>2. Open' = O
    BY <1>3, <2>1 DEF Open
  <2>3. page'[t] = q
    BY <1>1, <1>11
  <2> QED
    BY <1>4, <1>9, <1>13, <2>1, <2>2, <2>3 DEF Shows
<1>15. before' \in HeldOrNone(L) /\ copies' \subseteq CopiesOf(L) /\ file' \in Files(L)
  BY <1>1, <1>3, <1>6, HeldMore
<1>16. Inv'
  BY <1>1, <1>3, <1>4, <1>6, <1>9, <1>11, <1>13, <1>14, <1>15, PageSteps DEF Kinds
<1> QED
  BY <1>4, <1>7, <1>8, <1>9, <1>16

\* The file mirrors a held warehouse.
LEMMA MirrorHeld ==
    ASSUME NEW K, file \in Files(K), NEW s \in HeldOrNone(K), s # None, Mirror(s)
    PROVE  file' \in Files(K)
  BY DEF Mirror, Files, HeldOrNone

LEMMA ReportInv ==
    ASSUME Inv, NEW t \in Tabs, Report(t)
    PROVE  Inv'
<1>1. PICK K : /\ K = Known(life, used) /\ Holds(K) /\ Kinds /\ InstallsGo /\ Shows
               /\ local \in HeldOrNone(K) /\ before \in HeldOrNone(K) /\ copies \subseteq CopiesOf(K)
               /\ file \in Files(K) /\ page \in [Tabs -> Pages(K)]
               /\ \A u \in Tabs : page[u] \in Pages(K)
  BY Held0
<1>2. PICK p \in Pages(K) : p = page[t]
  BY <1>1
<1>3. PICK s : s = p.sent
  OBVIOUS
<1>4. PICK q : q = [p EXCEPT !.state = s, !.sent = None]
  OBVIOUS
<1>5. /\ s # None /\ page' = [page EXCEPT ![t] = q] /\ Mirror(s) /\ news' = news \cup (Open \ {t})
      /\ UNCHANGED <<life, local, before, copies, used, installs, unaware>>
  BY <1>2, <1>3, <1>4 DEF Report
<1>6. s \in HeldOrNone(K) /\ None \in HeldOrNone(K)
  BY <1>3 DEF Pages, HeldOrNone
<1>7. q \in Pages(K) /\ q.state = s /\ q.sent = None /\ q.install = p.install
  BY <1>4, <1>6 DEF Pages
<1>8. p.install = ""
  BY <1>1, <1>2, <1>3, <1>5 DEF InstallsGo
<1>9. Shows'
  <2>1. PICK O \in SUBSET Tabs : O = Open
    BY OpenTabs
  <2>2. Open' = O
    BY <1>5, <2>1 DEF Open
  <2>3. page'[t] = q /\ \A u \in Tabs \ {t} : page'[u] = page[u]
    BY <1>1, <1>5
  <2>4. ASSUME t \in O \ (news' \cup unaware')
        PROVE  (\E u \in O \ {t} : page'[u].sent # None) \/ (page'[t].sent = None /\ page'[t].state = local')
    <3>1. (\E u \in O \ {t} : page[u].sent # None) \/ p.sent = local
      BY <1>1, <1>2, <1>3, <1>5, <2>1, <2>4 DEF Shows
    <3> QED
      BY <1>3, <1>5, <1>7, <2>1, <2>3, <3>1
  <2> QED
    BY <1>5, <2>1, <2>2, <2>4 DEF Shows
<1>10. file' \in Files(K)
  BY <1>1, <1>5, <1>6, MirrorHeld
<1>11. news' \subseteq Tabs
  BY <1>1, <1>5, OpenTabs DEF Kinds
<1> QED
  BY <1>1, <1>5, <1>7, <1>8, <1>9, <1>10, <1>11, PageSteps DEF Kinds

LEMMA ReceiveNewsInv ==
    ASSUME Inv, NEW t \in Tabs, ReceiveNews(t)
    PROVE  Inv'
<1>1. PICK K : /\ K = Known(life, used) /\ Holds(K) /\ Kinds /\ InstallsGo /\ Shows
               /\ local \in HeldOrNone(K) /\ before \in HeldOrNone(K) /\ copies \subseteq CopiesOf(K)
               /\ file \in Files(K) /\ page \in [Tabs -> Pages(K)]
               /\ \A u \in Tabs : page[u] \in Pages(K)
  BY Held0
<1>2. PICK p \in Pages(K) : p = page[t]
  BY <1>1
<1>3. PICK q : q = [p EXCEPT !.state = local]
  OBVIOUS
<1>4. /\ p.sent = None /\ page' = [page EXCEPT ![t] = q] /\ news' = news \ {t} /\ unaware' = unaware \ {t}
      /\ UNCHANGED <<life, local, before, file, copies, used, installs>>
  BY <1>2, <1>3 DEF ReceiveNews
<1>5. q \in Pages(K) /\ q.state = local /\ q.sent = None /\ q.install = p.install /\ q.value = p.value
  BY <1>1, <1>3, <1>4 DEF Pages
<1>6. /\ q.install # "" => q.value # None /\ q.sent = None
      /\ q.install = "again" => q.state # None /\ local' # None
  BY <1>1, <1>2, <1>4, <1>5 DEF InstallsGo
<1>7. Shows'
  BY <1>1, <1>2, <1>4, <1>5, ShowsSame
<1> QED
  BY <1>1, <1>4, <1>5, <1>6, <1>7, PageSteps DEF Kinds

\* A step that only keeps a copy or attaches the file.
LEMMA AsideInv ==
    ASSUME Inv, NEW K, K = Known(life, used), NEW t \in Tabs,
           UNCHANGED <<life, local, before, page, news, used, installs, unaware>>,
           IsFiniteSet(copies'), Cardinality(copies') <= life.kept, copies' \subseteq CopiesOf(K), file' \in Files(K)
    PROVE  Inv'
<1>1. page \in [Tabs -> Pages(K)] /\ local \in HeldOrNone(K) /\ before \in HeldOrNone(K) /\ Shows /\ InstallsGo /\ Kinds
  BY DEF Inv, Holds
<1>2. PICK p \in Pages(K) : p = page[t] /\ page' = [page EXCEPT ![t] = p]
  BY <1>1
<1>3. Shows'
  BY <1>1, <1>2, ShowsSame
<1> QED
  BY <1>1, <1>2, <1>3, PageSteps DEF Kinds, InstallsGo

LEMMA KeepHeld ==
    ASSUME Kinds, NEW K, copies \subseteq CopiesOf(K), NEW s \in HeldOrNone(K), s # None, Keep(Clean(s))
    PROVE  IsFiniteSet(copies') /\ Cardinality(copies') <= life.kept /\ copies' \subseteq CopiesOf(K)
<1>1. PICK raw : raw = Clean(s)
  OBVIOUS
<1>2. raw \in CopiesOf(K)
  BY <1>1 DEF CopiesOf, HeldOrNone
<1>3. raw \notin copies /\ Cardinality(copies) < life.kept /\ copies' = copies \cup {raw}
  BY <1>1 DEF Keep
<1>4. IsFiniteSet(copies') /\ Cardinality(copies') = Cardinality(copies) + 1
  BY <1>3, FS_AddElement DEF Kinds
<1>5. Cardinality(copies) \in Nat /\ life.kept \in Nat
  <2>1. life.kept \in Nat
    BY PersonalAssumption DEF Kinds
  <2> QED
    BY <2>1, FS_CardinalityType DEF Kinds
<1> QED
  BY <1>2, <1>3, <1>4, <1>5

LEMMA BackupInv ==
    ASSUME Inv, NEW t \in Tabs, Backup(t) \/ ExportBefore(t)
    PROVE  Inv'
<1>1. PICK K : /\ K = Known(life, used) /\ Holds(K) /\ Kinds /\ InstallsGo /\ Shows
               /\ local \in HeldOrNone(K) /\ before \in HeldOrNone(K) /\ copies \subseteq CopiesOf(K)
               /\ file \in Files(K) /\ page \in [Tabs -> Pages(K)]
               /\ \A u \in Tabs : page[u] \in Pages(K)
  BY Held0
<1>2. PICK s \in HeldOrNone(K) : s # None /\ Keep(Clean(s))
  <2>1. page[t] \in Pages(K) /\ page[t].state \in HeldOrNone(K)
    BY <1>1 DEF Pages
  <2>2. CASE Backup(t)
    BY <2>1, <2>2 DEF Backup
  <2>3. CASE ExportBefore(t)
    BY <1>1, <2>3 DEF ExportBefore
  <2> QED
    BY <2>2, <2>3
<1>3. UNCHANGED <<life, local, before, page, news, file, used, installs, unaware>>
  BY DEF Backup, ExportBefore
<1>4. IsFiniteSet(copies') /\ Cardinality(copies') <= life.kept /\ copies' \subseteq CopiesOf(K)
  BY <1>1, <1>2, KeepHeld
<1> QED
  BY <1>1, <1>3, <1>4, AsideInv

LEMMA CreateFileInv ==
    ASSUME Inv, NEW t \in Tabs, CreateFile(t)
    PROVE  Inv'
<1>1. PICK K : /\ K = Known(life, used) /\ Holds(K) /\ Kinds /\ InstallsGo /\ Shows
               /\ local \in HeldOrNone(K) /\ before \in HeldOrNone(K) /\ copies \subseteq CopiesOf(K)
               /\ file \in Files(K) /\ page \in [Tabs -> Pages(K)]
               /\ \A u \in Tabs : page[u] \in Pages(K)
  BY Held0
<1>2. PICK s \in HeldOrNone(K) : s = page[t].state
  BY <1>1 DEF Pages
<1>3. s # None /\ file' = Clean(s) /\ UNCHANGED <<life, local, before, page, news, copies, used, installs, unaware>>
  BY <1>2 DEF CreateFile
<1>4. file' \in Files(K)
  BY <1>2, <1>3 DEF Files, HeldOrNone
<1>5. IsFiniteSet(copies') /\ Cardinality(copies') <= life.kept /\ copies' \subseteq CopiesOf(K)
  BY <1>1, <1>3 DEF Kinds
<1> QED
  BY <1>1, <1>3, <1>4, <1>5, AsideInv

LEMMA StartInstallInv ==
    ASSUME Inv, NEW t \in Tabs, NEW raw \in copies, NEW how \in Restores, StartInstall(t, raw, how)
    PROVE  Inv'
<1>1. PICK K : /\ K = Known(life, used) /\ Holds(K) /\ Kinds /\ InstallsGo /\ Shows
               /\ local \in HeldOrNone(K) /\ before \in HeldOrNone(K) /\ copies \subseteq CopiesOf(K)
               /\ file \in Files(K) /\ page \in [Tabs -> Pages(K)]
               /\ \A u \in Tabs : page[u] \in Pages(K)
  BY Held0
<1>2. PICK p \in Pages(K) : p = page[t]
  BY <1>1
<1>3. PICK s \in ValidateBackup(raw) : page' = [page EXCEPT ![t].install = how, ![t].value = s]
  BY DEF StartInstall
<1>4. PICK q : q = [p EXCEPT !.install = how, !.value = s]
  OBVIOUS
<1>5. page' = [page EXCEPT ![t] = q]
  BY <1>2, <1>3, <1>4
<1>6. /\ p.sent = None /\ installs < life.installed /\ installs' = installs + 1
      /\ before' = IF p.state = None THEN before ELSE p.state
      /\ UNCHANGED <<life, local, news, file, copies, used, unaware>>
  BY <1>2 DEF StartInstall
<1>7. s \in HeldOrNone(K) /\ s # None
  <2>1. raw \in CopiesOf(K)
    BY <1>1
  <2>2. s \in Held(K)
    BY <1>3, <2>1, Restored
  <2> QED
    BY <2>2, NotNone DEF Held, HeldOrNone
<1>8. q \in Pages(K) /\ q.state = p.state /\ q.sent = None /\ q.install \in Restores /\ q.value = s
  BY <1>4, <1>6, <1>7 DEF Pages, Restores
<1>9. Shows'
  BY <1>1, <1>2, <1>5, <1>6, <1>8, ShowsSame
<1>10. installs' \in 0..life.installed
  <2>1. life.installed \in Nat
    BY <1>1, PersonalAssumption DEF Kinds
  <2> QED
    BY <1>1, <1>6, <2>1 DEF Kinds
<1>11. before' \in HeldOrNone(K) /\ q.install # "again"
  BY <1>1, <1>6, <1>8 DEF Pages, Restores
<1> QED
  BY <1>1, <1>5, <1>6, <1>7, <1>8, <1>9, <1>10, <1>11, PageSteps DEF Kinds

LEMMA ReplaceInv ==
    ASSUME Inv, NEW t \in Tabs, Replace(t)
    PROVE  Inv' /\ local' = page[t].value /\ local' # None
<1>1. PICK K : /\ K = Known(life, used) /\ Holds(K) /\ Kinds /\ InstallsGo /\ Shows
               /\ local \in HeldOrNone(K) /\ before \in HeldOrNone(K) /\ copies \subseteq CopiesOf(K)
               /\ file \in Files(K) /\ page \in [Tabs -> Pages(K)]
               /\ \A u \in Tabs : page[u] \in Pages(K)
  BY Held0
<1>2. PICK p \in Pages(K) : p = page[t]
  BY <1>1
<1>3. PICK s, how : s = p.value /\ how = IF p.install = "file" THEN "" ELSE "again"
  OBVIOUS
<1>4. PICK q : q = [p EXCEPT !.state = s, !.form = FALSE, !.install = how]
  OBVIOUS
<1>5. /\ p.install \in Restores /\ local' = s /\ unaware' = (unaware \cup Tabs) \ {t}
      /\ file' = IF p.install = "file" /\ life.device = "android" THEN Clean(s) ELSE file
      /\ UNCHANGED <<life, news, before, copies, used, installs>>
  BY <1>2, <1>3 DEF Replace
<1>6. page' = [page EXCEPT ![t] = q]
  BY <1>2, <1>3, <1>4 DEF Replace
<1>7. s \in HeldOrNone(K) /\ s # None /\ p.sent = None
  BY <1>1, <1>2, <1>3, <1>5 DEF Pages, InstallsGo, Restores
<1>8. q \in Pages(K) /\ q.state = s /\ q.sent = None /\ q.install = how /\ q.value = s
  BY <1>3, <1>4, <1>7 DEF Pages
<1>9. Shows'
  BY <1>1, <1>5, <1>6, <1>8, ShowsOne, OpenTabs
<1>10. file' \in Files(K)
  BY <1>1, <1>5, <1>7 DEF Files, HeldOrNone
<1>11. Inv'
  BY <1>1, <1>5, <1>6, <1>7, <1>8, <1>9, <1>10, PageSteps DEF Kinds
<1> QED
  BY <1>2, <1>3, <1>5, <1>7, <1>11

LEMMA ReplaceAgainInv ==
    ASSUME Inv, NEW t \in Tabs, ReplaceAgain(t)
    PROVE  Inv' /\ local' = page[t].value /\ local' # None
<1>1. PICK K : /\ K = Known(life, used) /\ Holds(K) /\ Kinds /\ InstallsGo /\ Shows
               /\ local \in HeldOrNone(K) /\ before \in HeldOrNone(K) /\ copies \subseteq CopiesOf(K)
               /\ file \in Files(K) /\ page \in [Tabs -> Pages(K)]
               /\ \A u \in Tabs : page[u] \in Pages(K)
  BY Held0
<1>2. PICK p \in Pages(K) : p = page[t]
  BY <1>1
<1>3. PICK q : q = [p EXCEPT !.install = ""]
  OBVIOUS
<1>4. /\ p.install = "again" /\ local' = p.value /\ Mirror(p.state) /\ page' = [page EXCEPT ![t] = q]
      /\ unaware' = IF local = p.value THEN unaware ELSE Tabs
      /\ UNCHANGED <<life, before, news, copies, used, installs>>
  BY <1>2, <1>3 DEF ReplaceAgain
<1>5. p.value \in HeldOrNone(K) /\ p.value # None /\ p.sent = None /\ p.state \in HeldOrNone(K) /\ p.state # None
  BY <1>1, <1>2, <1>4 DEF Pages, InstallsGo
<1>6. q \in Pages(K) /\ q.state = p.state /\ q.sent = p.sent /\ q.install = ""
  BY <1>3 DEF Pages
<1>7. Shows'
  <2>1. CASE local = p.value
    BY <1>1, <1>2, <1>4, <1>6, <2>1, ShowsSame
  <2>2. CASE local # p.value
    BY <1>1, <1>4, <2>2, ShowsOne, OpenTabs
  <2> QED
    BY <2>1, <2>2
<1>8. file' \in Files(K)
  BY <1>1, <1>4, <1>5, MirrorHeld
<1>9. unaware' \subseteq Tabs
  BY <1>1, <1>4 DEF Kinds
<1>10. Inv'
  BY <1>1, <1>4, <1>5, <1>6, <1>7, <1>8, <1>9, PageSteps DEF Kinds
<1> QED
  BY <1>2, <1>4, <1>5, <1>10

LEMMA ReloadInv ==
    ASSUME Inv, NEW t \in Tabs, Reload(t)
    PROVE  Inv'
<1>1. PICK K : /\ K = Known(life, used) /\ Holds(K) /\ Kinds /\ InstallsGo /\ Shows
               /\ local \in HeldOrNone(K) /\ before \in HeldOrNone(K) /\ copies \subseteq CopiesOf(K)
               /\ file \in Files(K) /\ page \in [Tabs -> Pages(K)]
               /\ \A u \in Tabs : page[u] \in Pages(K)
  BY Held0
<1>2. PICK p \in Pages(K) : p = page[t]
  BY <1>1
<1>3. PICK q : q = Page(local)
  OBVIOUS
<1>4. /\ page' = [page EXCEPT ![t] = q] /\ news' = news \ {t}
      /\ unaware' = IF p.sent = None THEN unaware \ {t} ELSE Open \ {t}
      /\ UNCHANGED <<life, local, before, file, copies, used, installs>>
  BY <1>2, <1>3 DEF Reload
<1>5. q \in Pages(K) /\ q.state = local /\ q.sent = None /\ q.install = ""
  BY <1>1, <1>3, PageHeld
<1>6. Shows'
  <2>1. CASE p.sent = None
    BY <1>1, <1>2, <1>4, <1>5, <2>1, ShowsSame
  <2>2. CASE p.sent # None
    BY <1>1, <1>4, <1>5, <2>2, ShowsOne
  <2> QED
    BY <2>1, <2>2
<1>7. unaware' \subseteq Tabs /\ news' \subseteq Tabs
  BY <1>1, <1>4, OpenTabs DEF Kinds
<1> QED
  BY <1>1, <1>4, <1>5, <1>6, <1>7, PageSteps DEF Kinds

LEMMA NextInv == Inv /\ [Next]_vars => Inv'
<1> SUFFICES ASSUME Inv, [Next]_vars PROVE Inv'
  OBVIOUS
<1>1. CASE UNCHANGED vars
  BY <1>1 DEF vars, Inv, Kinds, Holds, InstallsGo, Shows, Open
<1>2. CASE Next
  <2>1. PICK t \in Tabs :
            \/ OpenForm(t) \/ SubmitForm(t)
            \/ \E c \in life.commands : Commit(t, c)
            \/ Report(t) \/ ReceiveNews(t)
            \/ Backup(t) \/ ExportBefore(t)
            \/ \E raw \in copies, how \in Restores : StartInstall(t, raw, how)
            \/ Replace(t) \/ ReplaceAgain(t)
            \/ CreateFile(t) \/ Reload(t)
    BY <1>2 DEF Next
  <2>2. CASE \E c \in life.commands : Commit(t, c)
    BY <2>2, CommitInv
  <2>3. CASE \E raw \in copies, how \in Restores : StartInstall(t, raw, how)
    BY <2>3, StartInstallInv
  <2> QED
    BY <2>1, <2>2, <2>3, OpenFormInv, SubmitFormInv, ReportInv, ReceiveNewsInv, BackupInv, ReplaceInv, ReplaceAgainInv,
       CreateFileInv, ReloadInv
<1> QED
  BY <1>1, <1>2

LEMMA Invariant == Spec => []Inv
<1>1. Inv /\ [Next]_vars => Inv'
  BY NextInv
<1> QED
  BY <1>1, InitInv, PTL DEF Spec

\* The stored warehouse is one the program may hold.
LEMMA StoredHeld ==
    ASSUME Inv, NEW s \in Stored
    PROVE  Sound(s) /\ DistinctIds(AllEvents(s))
  BY DEF Inv, Holds, HeldOrNone, Held, Stored

-----------------------------------------------------------------------------
(* Theorems *)

\* However often commands are run, segments cut and copies restored, the stored
\* warehouse has no stock below zero or above MAX_QTY (applyChange), no segment
\* that is too long and none that is short but the last (appendEvent and
\* normalizeHistory), the count of its events and no more remembered commands
\* than the limit (rememberRecent).
THEOREM StoredWithinLimits == Spec => []TypeOK
<1>1. Inv => TypeOK
  <2> SUFFICES ASSUME Inv PROVE TypeOK
    OBVIOUS
  <2>1. ASSUME NEW s \in Stored PROVE (\A k \in DOMAIN s.stocks : s.stocks[k].qty \in 0..MaxQty) /\ InSegments(s)
    <3>1. s.stocks \in Stocks /\ InSegments(s)
      BY StoredHeld DEF Sound, Warehouses
    <3>2. \A k \in DOMAIN s.stocks : s.stocks[k] \in [qty : 0..MaxQty, version : Nat]
      <4>1. PICK K, V : K = Texts \X Texts /\ V = [qty : 0..MaxQty, version : Nat]
        OBVIOUS
      <4>2. PICK f \in Map(K, V) : f = s.stocks
        BY <3>1, <4>1 DEF Stocks
      <4>3. \A k \in DOMAIN f : f[k] \in V
        BY MapType
      <4> QED
        BY <4>1, <4>2, <4>3
    <3> QED
      BY <3>1, <3>2
  <2> QED
    BY <2>1 DEF TypeOK, Inv, Kinds
<1> QED
  BY <1>1, Invariant, PTL

\* The quantity and the version of every stock are the sum and the number of
\* the changes in the whole history, whatever commands, documents, reversals
\* and restorations led to it and however the history is cut into segments
\* (applyChange, appendEvent, normalizeHistory and validateBackup).
THEOREM StockComesFromHistory == Spec => []StockIsHistory
<1>1. Inv => StockIsHistory
  <2> SUFFICES ASSUME Inv, NEW s \in Stored, NEW item \in DOMAIN s.items, NEW place \in DOMAIN s.places
               PROVE  StockAt(s, item, place) = Computed(AllChanges(s), <<item, place>>)
    BY DEF StockIsHistory
  <2>1. At(s.stocks, <<item, place>>) = Computed(AllChanges(s), <<item, place>>)
    BY StoredHeld, SoundStocks
  <2> QED
    BY <2>1 DEF At, StockAt
<1> QED
  BY <1>1, Invariant, PTL

\* A full copy of the stored warehouse, of either version, is accepted by
\* validateBackup and gives the same warehouse back without its remembered
\* commands, unless a card is archived while a reversal gave it a stock: that
\* copy is refused.
THEOREM CopiesRestore == Spec => []BackupRestores
<1>1. Inv => BackupRestores
  <2> SUFFICES ASSUME Inv, NEW s \in Stored
               PROVE  LET back == IF ArchivedWithStock(s) THEN {} ELSE {[s EXCEPT !.seen = << >>]}
                      IN ValidateBackup(Clean(s)) = back /\ ValidateBackup(Legacy(s)) = back
    BY DEF BackupRestores
  <2>1. ValidateBackup(Clean(s)) = IF ArchivedWithStock(s) THEN {} ELSE {Forgotten(s)}
    BY StoredHeld, CleanAccepted
  <2>2. ValidateBackup(Legacy(s)) = IF ArchivedWithStock(s) THEN {} ELSE {Forgotten(s)}
    BY StoredHeld, LegacyAccepted
  <2> QED
    BY <2>1, <2>2 DEF Forgotten
<1> QED
  BY <1>1, Invariant, PTL

\* When no page has a command to tell of, every page that no message is on its
\* way to and whose warehouse was not replaced behind its back shows the stored
\* warehouse: send tells the others after the transaction, channel.onmessage
\* reads the store again.
THEOREM PagesAgree == Spec => []TabsAgree
<1>1. Inv => TabsAgree
  BY DEF Inv, Shows, TabsAgree
<1> QED
  BY <1>1, Invariant, PTL

-----------------------------------------------------------------------------
(* The history of the stored warehouse is a HistoryLog *)

\* The histories of copies, pages and files, as Log has them.
Kept ==
    {History(s) : s \in {local, before, file} \cup copies}
    \cup UNION {{History(page[t].state), History(page[t].sent), History(page[t].value)} : t \in Tabs}

LEMMA LogPrefix ==
    ASSUME NEW h \in Seq(Events), NEW k \in Seq(Events), NEW I, Extends(k, h, I)
    PROVE  IsPrefix(h, k)
<1>1. PICK M \in Nat, N \in Nat : M = Len(h) /\ N = Len(k)
  BY LenProperties
<1>2. M <= N /\ \A n \in 1..M : k[n] = h[n]
  BY <1>1 DEF Extends
<1>3. PICK a : a = SubSeq(k, 1, M)
  OBVIOUS
<1>4. PICK b : b = SubSeq(h, 1, M)
  OBVIOUS
<1>5. a = [n \in 1..M |-> k[n]] /\ b = [n \in 1..M |-> h[n]]
  BY <1>1, <1>2, <1>3, <1>4
<1>6. a = b
  BY <1>2, <1>5
<1> QED
  BY <1>1, <1>2, <1>3, <1>4, <1>6 DEF IsPrefix

LEMMA LogCardinality ==
    ASSUME NEW S
    PROVE  Log!Cardinality(S) = Cardinality(S)
  BY DEF Log!Cardinality, Cardinality

LEMMA LogDistinct ==
    ASSUME NEW K, NEW s \in HeldOrNone(K)
    PROVE  History(s) \in Seq(Events) /\ Log!Distinct(History(s))
<1>1. PICK h : h = History(s)
  OBVIOUS
<1>2. h \in Seq(Events) /\ DistinctIds(h)
  <2>1. CASE s = None
    <3>1. << >> \in Seq(Events) /\ Len(<< >>) = 0
      BY EmptySeq
    <3> QED
      BY <1>1, <2>1, <3>1 DEF History, DistinctIds
  <2>2. CASE s # None
    BY <1>1, <2>2, HistoryType DEF History, HeldOrNone, Held
  <2> QED
    BY <2>1, <2>2
<1>3. Cardinality(Ids(h)) = Len(h)
  BY <1>2, CountIds
<1>4. DOMAIN h = 1..Len(h)
  BY <1>2, LenProperties
<1> QED
  BY <1>1, <1>2, <1>3, <1>4, LogCardinality DEF Log!Distinct, Ids

\* The stored warehouse stays, is extended, or becomes one that was kept; what
\* is kept afterwards was kept or stored.
LogGoes ==
    /\ Kept' \subseteq Kept \cup {History(local'), << >>}
    /\ \/ local' = local
       \/ IsPrefix(History(local), History(local'))
       \/ History(local') \in Kept \cup {<< >>}

LEMMA LogStep ==
    ASSUME Inv, Inv', LogGoes
    PROVE  Log!Next
<1>1. PICK K, L : local \in HeldOrNone(K) /\ local' \in HeldOrNone(L)
  BY DEF Inv, Holds
<1>2. PICK h, k : h = History(local) /\ k = History(local')
  OBVIOUS
<1>3. h \in Seq(Events) /\ k \in Seq(Events) /\ Log!Distinct(k)
  BY <1>1, <1>2, LogDistinct
<1>4. h \in Kept
  BY <1>2 DEF Kept
<1>5. IsPrefix(h, h)
  BY <1>3, ExtendsItself, LogPrefix
<1>6. IsPrefix(h, k) \/ k \in Kept \cup {<< >>}
  BY <1>2, <1>5 DEF LogGoes
<1>7. Kept' \subseteq Kept \cup {h, k, << >>}
  BY <1>2 DEF LogGoes
<1>8. Log!Extend \/ Log!Replace
  <2>1. CASE IsPrefix(h, k)
    <3>1. Log!IsPrefix(h, k)
      BY <2>1 DEF IsPrefix, Log!IsPrefix
    <3> QED
      BY <1>2, <1>3, <3>1 DEF Log!Extend
  <2>2. CASE k \in Kept \cup {<< >>}
    BY <1>2, <2>2 DEF Log!Replace, Kept
  <2> QED
    BY <1>6, <2>1, <2>2
<1> QED
  BY <1>2, <1>7, <1>8 DEF Log!Next, Kept

LEMMA KeptHas ==
    ASSUME NEW t \in Tabs
    PROVE  /\ History(local) \in Kept /\ History(before) \in Kept /\ History(file) \in Kept
           /\ \A raw \in copies : History(raw) \in Kept
           /\ History(page[t].state) \in Kept /\ History(page[t].sent) \in Kept /\ History(page[t].value) \in Kept
  BY DEF Kept

LEMMA KeptGoes ==
    ASSUME NEW P, page \in [Tabs -> P], NEW t \in Tabs, NEW q, page' = [page EXCEPT ![t] = q],
           NEW B, Kept \subseteq B, History(local') \in B, History(before') \in B, History(file') \in B,
           \A raw \in copies' : History(raw) \in B,
           History(q.state) \in B, History(q.sent) \in B, History(q.value) \in B
    PROVE  Kept' \subseteq B
<1>1. \A u \in Tabs : History(page'[u].state) \in B /\ History(page'[u].sent) \in B /\ History(page'[u].value) \in B
  <2> SUFFICES ASSUME NEW u \in Tabs
               PROVE  History(page'[u].state) \in B /\ History(page'[u].sent) \in B /\ History(page'[u].value) \in B
    OBVIOUS
  <2>1. CASE u = t
    BY <2>1
  <2>2. CASE u # t
    <3>1. page'[u] = page[u]
      BY <2>2
    <3> QED
      BY <3>1, KeptHas
  <2> QED
    BY <2>1, <2>2
<1> QED
  BY <1>1 DEF Kept

\* A copy or a file has the history of the warehouse it was made of.
LEMMA CleanHistory ==
    ASSUME NEW K, NEW s \in HeldOrNone(K), s # None
    PROVE  History(Clean(s)) = History(s)
<1>1. s \in Warehouses
  BY DEF HeldOrNone, Held
<1> QED
  BY <1>1, NotNone, CopyHistory DEF History

LEMMA MirrorHistory ==
    ASSUME NEW K, NEW s \in HeldOrNone(K), s # None, Mirror(s)
    PROVE  History(file') \in {History(file), History(s)}
  BY CleanHistory DEF Mirror

LEMMA RestoredHistory ==
    ASSUME NEW K, NEW raw \in CopiesOf(K), NEW s \in ValidateBackup(raw)
    PROVE  History(s) = History(raw)
<1>1. s # None /\ AllEvents(s) = AllEvents(raw)
  BY Restored, NotNone DEF Held
<1>2. raw # None
  BY NotNone DEF CopiesOf, Held
<1> QED
  BY <1>1, <1>2 DEF History

LEMMA OpenFormLog ==
    ASSUME Inv, NEW t \in Tabs, OpenForm(t)
    PROVE  LogGoes
<1>1. PICK K : /\ K = Known(life, used) /\ Holds(K) /\ Kinds /\ InstallsGo /\ Shows
               /\ local \in HeldOrNone(K) /\ before \in HeldOrNone(K) /\ copies \subseteq CopiesOf(K)
               /\ file \in Files(K) /\ page \in [Tabs -> Pages(K)]
               /\ \A u \in Tabs : page[u] \in Pages(K)
  BY Held0
<1>2. PICK p \in Pages(K) : p = page[t]
  BY <1>1
<1>3. PICK B : B = Kept \cup {History(local'), << >>}
  OBVIOUS
<1>4. /\ Kept \subseteq B /\ History(local) \in B /\ History(before) \in B /\ History(file) \in B
      /\ (\A raw \in copies : History(raw) \in B) /\ History(local') \in B /\ History(None) \in B
      /\ History(p.state) \in B /\ History(p.sent) \in B /\ History(p.value) \in B
  BY <1>2, <1>3, KeptHas DEF History
<1>5. PICK q : q = IF local = None THEN [p EXCEPT !.form = TRUE] ELSE Page(local)
  OBVIOUS
<1>6. page' = [page EXCEPT ![t] = q]
  BY <1>2, <1>5 DEF OpenForm
<1>7. UNCHANGED <<life, local, before, news, file, copies, used, installs, unaware>>
  BY DEF OpenForm
<1>8. History(q.state) \in B /\ History(q.sent) \in B /\ History(q.value) \in B
  <2>1. CASE local = None
    <3>1. q.state = p.state /\ q.sent = p.sent /\ q.value = p.value
      BY <1>5, <2>1 DEF Pages
    <3> QED
      BY <1>4, <3>1
  <2>2. CASE local # None
    BY <1>1, <1>4, <1>5, <2>2, PageHeld
  <2> QED
    BY <2>1, <2>2
<1>9. Kept' \subseteq B
  BY <1>1, <1>4, <1>6, <1>7, <1>8, KeptGoes
<1> QED
  BY <1>3, <1>7, <1>9 DEF LogGoes

LEMMA SubmitFormLog ==
    ASSUME Inv, NEW t \in Tabs, SubmitForm(t)
    PROVE  LogGoes
<1>1. PICK K : /\ K = Known(life, used) /\ Holds(K) /\ Kinds /\ InstallsGo /\ Shows
               /\ local \in HeldOrNone(K) /\ before \in HeldOrNone(K) /\ copies \subseteq CopiesOf(K)
               /\ file \in Files(K) /\ page \in [Tabs -> Pages(K)]
               /\ \A u \in Tabs : page[u] \in Pages(K)
  BY Held0
<1>2. PICK p \in Pages(K) : p = page[t]
  BY <1>1
<1>3. PICK B : B = Kept \cup {History(local'), << >>}
  OBVIOUS
<1>4. /\ Kept \subseteq B /\ History(local) \in B /\ History(before) \in B /\ History(file) \in B
      /\ (\A raw \in copies : History(raw) \in B) /\ History(local') \in B /\ History(None) \in B
      /\ History(p.state) \in B /\ History(p.sent) \in B /\ History(p.value) \in B
  BY <1>2, <1>3, KeptHas DEF History
<1>5. PICK s : s = CreateState("S") /\ s \in HeldOrNone(K) /\ History(s) = << >>
  BY CreatedHeld DEF History, HeldOrNone
<1>6. PICK q : q = Page(s)
  OBVIOUS
<1>7. local' = s /\ page' = [page EXCEPT ![t] = q] /\ UNCHANGED <<life, before, news, file, copies, used, installs>>
  BY <1>5, <1>6 DEF SubmitForm
<1>8. q.state = s /\ q.sent = None /\ q.value = None
  BY <1>5, <1>6, PageHeld
<1>9. Kept' \subseteq B
  BY <1>1, <1>4, <1>7, <1>8, KeptGoes
<1> QED
  BY <1>3, <1>5, <1>7, <1>9 DEF LogGoes

LEMMA CommitLog ==
    ASSUME Inv, NEW t \in Tabs, NEW c \in life.commands, Commit(t, c)
    PROVE  LogGoes
<1>1. PICK K : /\ K = Known(life, used) /\ Holds(K) /\ Kinds /\ InstallsGo /\ Shows
               /\ local \in HeldOrNone(K) /\ before \in HeldOrNone(K) /\ copies \subseteq CopiesOf(K)
               /\ file \in Files(K) /\ page \in [Tabs -> Pages(K)]
               /\ \A u \in Tabs : page[u] \in Pages(K)
  BY Held0
<1>2. PICK p \in Pages(K) : p = page[t]
  BY <1>1
<1>3. PICK B : B = Kept \cup {History(local'), << >>}
  OBVIOUS
<1>4. /\ Kept \subseteq B /\ History(local) \in B /\ History(before) \in B /\ History(file) \in B
      /\ (\A raw \in copies : History(raw) \in B) /\ History(local') \in B /\ History(None) \in B
      /\ History(p.state) \in B /\ History(p.sent) \in B /\ History(p.value) \in B
  BY <1>2, <1>3, KeptHas DEF History
<1>5. PICK s : local' = s /\ page' = [page EXCEPT ![t].sent = s]
  BY DEF Commit
<1>6. PICK q : q = [p EXCEPT !.sent = s]
  OBVIOUS
<1>7. page' = [page EXCEPT ![t] = q] /\ UNCHANGED <<life, before, news, file, copies, installs>>
  BY <1>2, <1>5, <1>6 DEF Commit
<1>8. q.state = p.state /\ q.sent = s /\ q.value = p.value
  BY <1>6 DEF Pages
<1>9. Kept' \subseteq B
  BY <1>1, <1>4, <1>5, <1>7, <1>8, KeptGoes
<1>10. IsPrefix(History(local), History(local'))
  <2>1. PICK I, L : /\ Extends(AllEvents(local'), AllEvents(Base(t)), I) /\ local' # None /\ Base(t) # None
                    /\ local' \in HeldOrNone(L)
    BY CommitInv DEF Inv, Holds
  <2>2. PICK h \in Seq(Events), k \in Seq(Events) : h = History(local) /\ k = History(local')
    BY <1>1, <2>1, LogDistinct
  <2>3. k = AllEvents(local')
    BY <2>1, <2>2 DEF History
  <2>4. CASE local = None
    <3>1. h = << >> /\ Len(<< >>) = 0
      BY <2>2, <2>4 DEF History
    <3>2. PICK N \in Nat : N = Len(k)
      BY LenProperties
    <3>3. \A n \in (Len(h) + 1)..Len(k) : k[n].id \in Ids(k)
      BY <3>1, <3>2 DEF Ids
    <3>4. Len(h) = 0 /\ 0 <= Len(k)
      BY <3>1, <3>2
    <3>5. Extends(k, h, Ids(k))
      BY <3>3, <3>4 DEF Extends
    <3> QED
      BY <2>2, <3>5, LogPrefix
  <2>5. CASE local # None
    <3>1. h = AllEvents(Base(t))
      BY <2>2, <2>5 DEF History, Base
    <3> QED
      BY <2>1, <2>2, <2>3, <3>1, LogPrefix
  <2> QED
    BY <2>4, <2>5
<1> QED
  BY <1>3, <1>9, <1>10 DEF LogGoes

LEMMA ReportLog ==
    ASSUME Inv, NEW t \in Tabs, Report(t)
    PROVE  LogGoes
<1>1. PICK K : /\ K = Known(life, used) /\ Holds(K) /\ Kinds /\ InstallsGo /\ Shows
               /\ local \in HeldOrNone(K) /\ before \in HeldOrNone(K) /\ copies \subseteq CopiesOf(K)
               /\ file \in Files(K) /\ page \in [Tabs -> Pages(K)]
               /\ \A u \in Tabs : page[u] \in Pages(K)
  BY Held0
<1>2. PICK p \in Pages(K) : p = page[t]
  BY <1>1
<1>3. PICK B : B = Kept \cup {History(local'), << >>}
  OBVIOUS
<1>4. /\ Kept \subseteq B /\ History(local) \in B /\ History(before) \in B /\ History(file) \in B
      /\ (\A raw \in copies : History(raw) \in B) /\ History(local') \in B /\ History(None) \in B
      /\ History(p.state) \in B /\ History(p.sent) \in B /\ History(p.value) \in B
  BY <1>2, <1>3, KeptHas DEF History
<1>5. PICK s \in HeldOrNone(K) : s = p.sent
  BY DEF Pages
<1>6. PICK q : q = [p EXCEPT !.state = s, !.sent = None]
  OBVIOUS
<1>7. /\ s # None /\ page' = [page EXCEPT ![t] = q] /\ Mirror(s)
      /\ UNCHANGED <<life, local, before, copies, used, installs, unaware>>
  BY <1>2, <1>5, <1>6 DEF Report
<1>8. q.state = s /\ q.sent = None /\ q.value = p.value
  BY <1>6 DEF Pages
<1>9. History(file') \in B
  BY <1>4, <1>5, <1>7, MirrorHistory
<1>10. Kept' \subseteq B
  BY <1>1, <1>4, <1>5, <1>7, <1>8, <1>9, KeptGoes
<1> QED
  BY <1>3, <1>7, <1>10 DEF LogGoes

LEMMA ReceiveNewsLog ==
    ASSUME Inv, NEW t \in Tabs, ReceiveNews(t)
    PROVE  LogGoes
<1>1. PICK K : /\ K = Known(life, used) /\ Holds(K) /\ Kinds /\ InstallsGo /\ Shows
               /\ local \in HeldOrNone(K) /\ before \in HeldOrNone(K) /\ copies \subseteq CopiesOf(K)
               /\ file \in Files(K) /\ page \in [Tabs -> Pages(K)]
               /\ \A u \in Tabs : page[u] \in Pages(K)
  BY Held0
<1>2. PICK p \in Pages(K) : p = page[t]
  BY <1>1
<1>3. PICK B : B = Kept \cup {History(local'), << >>}
  OBVIOUS
<1>4. /\ Kept \subseteq B /\ History(local) \in B /\ History(before) \in B /\ History(file) \in B
      /\ (\A raw \in copies : History(raw) \in B) /\ History(local') \in B /\ History(None) \in B
      /\ History(p.state) \in B /\ History(p.sent) \in B /\ History(p.value) \in B
  BY <1>2, <1>3, KeptHas DEF History
<1>5. PICK q : q = [p EXCEPT !.state = local]
  OBVIOUS
<1>6. page' = [page EXCEPT ![t] = q] /\ UNCHANGED <<life, local, before, file, copies, used, installs>>
  BY <1>2, <1>5 DEF ReceiveNews
<1>7. q.state = local /\ q.sent = p.sent /\ q.value = p.value
  BY <1>5 DEF Pages
<1>8. Kept' \subseteq B
  BY <1>1, <1>4, <1>6, <1>7, KeptGoes
<1> QED
  BY <1>3, <1>6, <1>8 DEF LogGoes

LEMMA AsideLog ==
    ASSUME Inv, NEW t \in Tabs, Backup(t) \/ ExportBefore(t) \/ CreateFile(t)
    PROVE  LogGoes
<1>1. PICK K : /\ K = Known(life, used) /\ Holds(K) /\ Kinds /\ InstallsGo /\ Shows
               /\ local \in HeldOrNone(K) /\ before \in HeldOrNone(K) /\ copies \subseteq CopiesOf(K)
               /\ file \in Files(K) /\ page \in [Tabs -> Pages(K)]
               /\ \A u \in Tabs : page[u] \in Pages(K)
  BY Held0
<1>2. PICK p \in Pages(K) : p = page[t]
  BY <1>1
<1>3. PICK B : B = Kept \cup {History(local'), << >>}
  OBVIOUS
<1>4. /\ Kept \subseteq B /\ History(local) \in B /\ History(before) \in B /\ History(file) \in B
      /\ (\A raw \in copies : History(raw) \in B) /\ History(local') \in B /\ History(None) \in B
      /\ History(p.state) \in B /\ History(p.sent) \in B /\ History(p.value) \in B
  BY <1>2, <1>3, KeptHas DEF History
<1>5. p.state \in HeldOrNone(K) /\ page' = [page EXCEPT ![t] = p]
  BY <1>1, <1>2 DEF Pages, Backup, ExportBefore, CreateFile
<1>6. local' = local /\ before' = before
  BY DEF Backup, ExportBefore, CreateFile
<1>7. History(file') \in B /\ \A raw \in copies' : History(raw) \in B
  <2>1. CASE Backup(t)
    <3>1. p.state # None /\ copies' = copies \cup {Clean(p.state)} /\ file' = file
      BY <1>2, <2>1 DEF Backup, Keep
    <3> QED
      BY <1>4, <1>5, <3>1, CleanHistory
  <2>2. CASE ExportBefore(t)
    <3>1. before # None /\ copies' = copies \cup {Clean(before)} /\ file' = file
      BY <2>2 DEF ExportBefore, Keep
    <3> QED
      BY <1>1, <1>4, <3>1, CleanHistory
  <2>3. CASE CreateFile(t)
    <3>1. p.state # None /\ copies' = copies /\ file' = Clean(p.state)
      BY <1>2, <2>3 DEF CreateFile
    <3> QED
      BY <1>4, <1>5, <3>1, CleanHistory
  <2> QED
    BY <2>1, <2>2, <2>3
<1>8. Kept' \subseteq B
  BY <1>1, <1>4, <1>5, <1>6, <1>7, KeptGoes
<1> QED
  BY <1>3, <1>6, <1>8 DEF LogGoes

LEMMA StartInstallLog ==
    ASSUME Inv, NEW t \in Tabs, NEW raw \in copies, NEW how \in Restores, StartInstall(t, raw, how)
    PROVE  LogGoes
<1>1. PICK K : /\ K = Known(life, used) /\ Holds(K) /\ Kinds /\ InstallsGo /\ Shows
               /\ local \in HeldOrNone(K) /\ before \in HeldOrNone(K) /\ copies \subseteq CopiesOf(K)
               /\ file \in Files(K) /\ page \in [Tabs -> Pages(K)]
               /\ \A u \in Tabs : page[u] \in Pages(K)
  BY Held0
<1>2. PICK p \in Pages(K) : p = page[t]
  BY <1>1
<1>3. PICK B : B = Kept \cup {History(local'), << >>}
  OBVIOUS
<1>4. /\ Kept \subseteq B /\ History(local) \in B /\ History(before) \in B /\ History(file) \in B
      /\ (\A copy \in copies : History(copy) \in B) /\ History(local') \in B /\ History(None) \in B
      /\ History(p.state) \in B /\ History(p.sent) \in B /\ History(p.value) \in B
  BY <1>2, <1>3, KeptHas DEF History
<1>5. PICK s \in ValidateBackup(raw) : page' = [page EXCEPT ![t].install = how, ![t].value = s]
  BY DEF StartInstall
<1>6. PICK q : q = [p EXCEPT !.install = how, !.value = s]
  OBVIOUS
<1>7. /\ page' = [page EXCEPT ![t] = q] /\ before' \in {before, p.state}
      /\ UNCHANGED <<life, local, news, file, copies, used, unaware>>
  BY <1>2, <1>5, <1>6 DEF StartInstall
<1>8. q.state = p.state /\ q.sent = p.sent /\ q.value = s
  BY <1>6 DEF Pages
<1>9. History(s) \in B
  <2>1. raw \in CopiesOf(K)
    BY <1>1
  <2> QED
    BY <1>4, <1>5, <2>1, RestoredHistory
<1>10. Kept' \subseteq B
  BY <1>1, <1>4, <1>7, <1>8, <1>9, KeptGoes
<1> QED
  BY <1>3, <1>7, <1>10 DEF LogGoes

LEMMA ReplaceLog ==
    ASSUME Inv, NEW t \in Tabs, Replace(t)
    PROVE  LogGoes
<1>1. PICK K : /\ K = Known(life, used) /\ Holds(K) /\ Kinds /\ InstallsGo /\ Shows
               /\ local \in HeldOrNone(K) /\ before \in HeldOrNone(K) /\ copies \subseteq CopiesOf(K)
               /\ file \in Files(K) /\ page \in [Tabs -> Pages(K)]
               /\ \A u \in Tabs : page[u] \in Pages(K)
  BY Held0
<1>2. PICK p \in Pages(K) : p = page[t]
  BY <1>1
<1>3. PICK B : B = Kept \cup {History(local'), << >>}
  OBVIOUS
<1>4. /\ Kept \subseteq B /\ History(local) \in B /\ History(before) \in B /\ History(file) \in B
      /\ (\A raw \in copies : History(raw) \in B) /\ History(local') \in B /\ History(None) \in B
      /\ History(p.state) \in B /\ History(p.sent) \in B /\ History(p.value) \in B
  BY <1>2, <1>3, KeptHas DEF History
<1>5. PICK s, how : s = p.value /\ how = IF p.install = "file" THEN "" ELSE "again"
  OBVIOUS
<1>6. PICK q : q = [p EXCEPT !.state = s, !.form = FALSE, !.install = how]
  OBVIOUS
<1>7. page' = [page EXCEPT ![t] = q]
  BY <1>2, <1>5, <1>6 DEF Replace
<1>8. /\ local' = s /\ file' \in {Clean(s), file} /\ UNCHANGED <<life, news, before, copies, used, installs>>
      /\ s \in HeldOrNone(K) /\ s # None
  BY <1>1, <1>2, <1>5 DEF Replace, Pages, InstallsGo, Restores
<1>9. q.state = s /\ q.sent = p.sent /\ q.value = s
  BY <1>5, <1>6 DEF Pages
<1>10. History(file') \in B
  BY <1>4, <1>5, <1>8, CleanHistory
<1>11. Kept' \subseteq B
  BY <1>1, <1>4, <1>5, <1>7, <1>8, <1>9, <1>10, KeptGoes
<1>12. History(local') \in Kept
  BY <1>2, <1>5, <1>8, KeptHas
<1> QED
  BY <1>3, <1>11, <1>12 DEF LogGoes

LEMMA ReplaceAgainLog ==
    ASSUME Inv, NEW t \in Tabs, ReplaceAgain(t)
    PROVE  LogGoes
<1>1. PICK K : /\ K = Known(life, used) /\ Holds(K) /\ Kinds /\ InstallsGo /\ Shows
               /\ local \in HeldOrNone(K) /\ before \in HeldOrNone(K) /\ copies \subseteq CopiesOf(K)
               /\ file \in Files(K) /\ page \in [Tabs -> Pages(K)]
               /\ \A u \in Tabs : page[u] \in Pages(K)
  BY Held0
<1>2. PICK p \in Pages(K) : p = page[t]
  BY <1>1
<1>3. PICK B : B = Kept \cup {History(local'), << >>}
  OBVIOUS
<1>4. /\ Kept \subseteq B /\ History(local) \in B /\ History(before) \in B /\ History(file) \in B
      /\ (\A raw \in copies : History(raw) \in B) /\ History(local') \in B /\ History(None) \in B
      /\ History(p.state) \in B /\ History(p.sent) \in B /\ History(p.value) \in B
  BY <1>2, <1>3, KeptHas DEF History
<1>5. PICK q : q = [p EXCEPT !.install = ""]
  OBVIOUS
<1>6. /\ p.install = "again" /\ local' = p.value /\ Mirror(p.state) /\ page' = [page EXCEPT ![t] = q]
      /\ UNCHANGED <<life, before, news, copies, used, installs>>
  BY <1>2, <1>5 DEF ReplaceAgain
<1>7. p.state \in HeldOrNone(K) /\ p.state # None
  BY <1>1, <1>2, <1>6 DEF Pages, InstallsGo
<1>8. q.state = p.state /\ q.sent = p.sent /\ q.value = p.value
  BY <1>5 DEF Pages
<1>9. History(file') \in B
  BY <1>4, <1>6, <1>7, MirrorHistory
<1>10. Kept' \subseteq B
  BY <1>1, <1>4, <1>6, <1>8, <1>9, KeptGoes
<1>11. History(local') \in Kept
  BY <1>2, <1>6, KeptHas
<1> QED
  BY <1>3, <1>10, <1>11 DEF LogGoes

LEMMA ReloadLog ==
    ASSUME Inv, NEW t \in Tabs, Reload(t)
    PROVE  LogGoes
<1>1. PICK K : /\ K = Known(life, used) /\ Holds(K) /\ Kinds /\ InstallsGo /\ Shows
               /\ local \in HeldOrNone(K) /\ before \in HeldOrNone(K) /\ copies \subseteq CopiesOf(K)
               /\ file \in Files(K) /\ page \in [Tabs -> Pages(K)]
               /\ \A u \in Tabs : page[u] \in Pages(K)
  BY Held0
<1>2. PICK p \in Pages(K) : p = page[t]
  BY <1>1
<1>3. PICK B : B = Kept \cup {History(local'), << >>}
  OBVIOUS
<1>4. /\ Kept \subseteq B /\ History(local) \in B /\ History(before) \in B /\ History(file) \in B
      /\ (\A raw \in copies : History(raw) \in B) /\ History(local') \in B /\ History(None) \in B
      /\ History(p.state) \in B /\ History(p.sent) \in B /\ History(p.value) \in B
  BY <1>2, <1>3, KeptHas DEF History
<1>5. PICK q : q = Page(local)
  OBVIOUS
<1>6. page' = [page EXCEPT ![t] = q] /\ UNCHANGED <<life, local, before, file, copies, used, installs>>
  BY <1>5 DEF Reload
<1>7. q.state = local /\ q.sent = None /\ q.value = None
  BY <1>1, <1>5, PageHeld
<1>8. Kept' \subseteq B
  BY <1>1, <1>4, <1>6, <1>7, KeptGoes
<1> QED
  BY <1>3, <1>6, <1>8 DEF LogGoes

LEMMA InitLog == Init => Log!Init
<1> SUFFICES ASSUME Init PROVE Log!Init
  OBVIOUS
<1>1. Inv
  BY InitInv
<1>2. PICK h : h = History(local)
  OBVIOUS
<1>3. Log!Distinct(h)
  BY <1>1, <1>2, LogDistinct DEF Inv, Holds
<1>4. /\ before = None /\ file = None /\ copies = IF local = None THEN {} ELSE {Legacy(local)}
      /\ page = [t \in Tabs |-> Page(local)]
  BY DEF Init
<1>5. \A raw \in copies : History(raw) = h
  <2> SUFFICES ASSUME NEW raw \in copies PROVE History(raw) = h
    OBVIOUS
  <2>1. local \in Warehouses /\ raw = Legacy(local)
    BY <1>1, <1>4 DEF Inv, Holds, HeldOrNone, Held
  <2> QED
    BY <1>2, <2>1, NotNone, CopyHistory DEF History
<1>6. History(None) = << >>
  BY DEF History
<1>7. ASSUME NEW t \in Tabs
      PROVE  /\ History(page[t].state) \in {h, << >>} /\ History(page[t].sent) \in {h, << >>}
             /\ History(page[t].value) \in {h, << >>}
  <2>1. page[t].state = local /\ page[t].sent = None /\ page[t].value = None
    BY <1>4 DEF Page
  <2> QED
    BY <1>2, <1>6, <2>1
<1>8. Kept \subseteq {h, << >>}
  BY <1>2, <1>4, <1>5, <1>6, <1>7 DEF Kept
<1> QED
  BY <1>2, <1>3, <1>8 DEF Log!Init, Kept

LEMMA StepLog ==
    ASSUME Inv, Next
    PROVE  LogGoes
<1>1. PICK t \in Tabs :
          \/ OpenForm(t) \/ SubmitForm(t)
          \/ \E c \in life.commands : Commit(t, c)
          \/ Report(t) \/ ReceiveNews(t)
          \/ Backup(t) \/ ExportBefore(t)
          \/ \E raw \in copies, how \in Restores : StartInstall(t, raw, how)
          \/ Replace(t) \/ ReplaceAgain(t)
          \/ CreateFile(t) \/ Reload(t)
  BY DEF Next
<1>2. CASE \E c \in life.commands : Commit(t, c)
  BY <1>2, CommitLog
<1>3. CASE \E raw \in copies, how \in Restores : StartInstall(t, raw, how)
  BY <1>3, StartInstallLog
<1> QED
  BY <1>1, <1>2, <1>3, OpenFormLog, SubmitFormLog, ReportLog, ReceiveNewsLog, AsideLog, ReplaceLog, ReplaceAgainLog,
     ReloadLog

\* However the history is cut into segments, a command only adds events with
\* new identifiers to its end, and a restoration only puts back a history this
\* warehouse had: no movement is lost, changed or counted twice (appendEvent,
\* normalizeHistory, applyLocal and restoreModal).
THEOREM HistoryOnlyGoesOn == Spec => ImplementsHistoryLog
<1>1. Inv /\ Inv' /\ [Next]_vars => [Log!Next]_<<History(local), Kept>>
  <2> SUFFICES ASSUME Inv, Inv', [Next]_vars PROVE [Log!Next]_<<History(local), Kept>>
    OBVIOUS
  <2>1. CASE Next
    BY <2>1, StepLog, LogStep
  <2>2. CASE UNCHANGED vars
    BY <2>2 DEF vars, Kept, History
  <2> QED
    BY <2>1, <2>2
<1>2. Inv /\ [Next]_vars => Inv'
  BY NextInv
<1> QED
  BY <1>1, <1>2, InitInv, InitLog, PTL DEF Spec, ImplementsHistoryLog, Log!Spec, Kept
=============================================================================
