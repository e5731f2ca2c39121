------------------------- MODULE JournalStoreProofs -------------------------
(***************************************************************************)
(* Proofs about JournalStore for every set of patches, every state and     *)
(* journals of every length.                                               *)
(***************************************************************************)
EXTENDS JournalStore, SequenceTheorems, TLAPS

HashAt(i) == IF i = 0 THEN 0 ELSE file[i].hash

\* Every line continues the chain, and snaps tells what the prefix before it
\* and the prefix that ends with it describe.
Chained ==
    /\ Len(snaps) = Len(file) + 1
    /\ snaps[1] = BlankState
    /\ \A i \in 1..Len(file) :
         /\ file[i].intact
         /\ file[i].seq = snaps[i].seq + 1
         /\ file[i].prev = HashAt(i - 1)
         /\ snaps[i + 1] = After(snaps[i], file[i].entry, file[i].seq)

\* What memory holds, by the point the store has reached.
Memory ==
    /\ pc \in {"down", "opening", "written", "broken"} => ~failed
    /\ pc \in {"down", "opening", "broken"} => pending = None
    /\ pc = "opening" => /\ offset <= Len(file)
                         /\ S = snaps[offset + 1]
                         /\ previous = HashAt(offset)
    /\ pc = "up" /\ ~failed => /\ tail = "none"
                               /\ pending = None
                               /\ S = snaps[Len(file) + 1]
                               /\ previous = HashAt(Len(file))
    /\ pc = "written" => /\ tail = "none"
                         /\ Len(file) > 0
                         /\ pending = file[Len(file)].entry
                         /\ S = snaps[Len(file)]
    /\ pc = "up" /\ failed => /\ pending \in Entry
                              /\ \/ S = snaps[Len(file) + 1]
                                 \/ /\ Len(file) > 0
                                    /\ pending = file[Len(file)].entry
                                    /\ S = snaps[Len(file)]

IInv == TypeOK /\ Chained /\ Memory /\ OnlyOversizedRefused

LEMMA AfterType ==
    ASSUME NEW s \in State, NEW e \in Entry, NEW n \in Nat
    PROVE  After(s, e, n) \in State
  BY StateAssumption DEF After, State, Entry

LEMMA NoneNotEntry == None \notin Entry
  BY DEF None, Entry

LEMMA Singleton ==
    ASSUME NEW X, NEW x \in X
    PROVE  <<x>> \in Seq(X) /\ Len(<<x>>) = 1 /\ <<x>>[1] = x
  OBVIOUS

LEMMA Couple ==
    ASSUME NEW X, NEW x \in X, NEW y \in X
    PROVE  /\ <<x, y>> \in Seq(X) /\ Len(<<x, y>>) = 2
           /\ <<x, y>>[1] = x /\ <<x, y>>[2] = y
  OBVIOUS

LEMMA BlankType == BlankState \in State
  BY StateAssumption DEF BlankState, State

LEMMA InitInv == Init => IInv
<1> SUFFICES ASSUME Init PROVE IInv
  OBVIOUS
<1>1. CASE file = <<>> /\ sealed = 0
  <2>1. snaps = <<BlankState>> /\ Len(file) = 0 /\ file \in Seq(Record)
    BY <1>1 DEF Init
  <2>2. snaps \in Seq(State) /\ Len(snaps) = 1 /\ snaps[1] = BlankState
    BY <2>1, BlankType, Singleton
  <2>3. TypeOK
    BY <1>1, <2>1, <2>2, BlankType DEF Init, TypeOK
  <2>4. Chained
    BY <2>1, <2>2 DEF Chained
  <2>5. QED
    BY <2>3, <2>4 DEF Init, IInv, Memory, OnlyOversizedRefused
<1>2. CASE \E p \in Patch : file = <<LegacyRecord(p)>> /\ sealed = 1
  <2>1. PICK p \in Patch : file = <<LegacyRecord(p)>> /\ sealed = 1
    BY <1>2
  <2> DEFINE r == LegacyRecord(p)
             s == After(BlankState, r.entry, 1)
  <2>2. r \in Record /\ r.entry \in Entry
    BY DEF LegacyRecord, Record, Entry
  <2>3. r.intact /\ r.seq = 1 /\ r.prev = 0
    BY DEF LegacyRecord
  <2>4. BlankState.seq = 0
    BY DEF BlankState
  <2>5. s \in State
    BY <2>2, BlankType, AfterType
  <2> HIDE DEF r
  <2>6. file \in Seq(Record) /\ Len(file) = 1 /\ file[1] = r
    BY <2>1, <2>2, Singleton DEF r
  <2>7. snaps = <<BlankState, s>>
    BY <2>1, <2>6 DEF Init
  <2> HIDE DEF s
  <2>8. snaps \in Seq(State) /\ Len(snaps) = 2 /\ snaps[1] = BlankState /\ snaps[2] = s
    BY <2>5, <2>7, BlankType, Couple
  <2>9. TypeOK
    BY <2>1, <2>6, <2>8, BlankType DEF Init, TypeOK
  <2>10. Chained
    BY <2>3, <2>4, <2>6, <2>8 DEF Chained, HashAt, s
  <2>11. QED
    BY <2>9, <2>10 DEF Init, IInv, Memory, OnlyOversizedRefused
<1>3. QED
  BY <1>1, <1>2 DEF Init

-----------------------------------------------------------------------------

LEMMA LastSnap ==
    ASSUME IInv
    PROVE  /\ snaps \in Seq(State) /\ Len(snaps) \in Nat
           /\ \A i \in 0..Len(file) : snaps[i + 1] \in State
           /\ \A i \in 1..Len(file) : file[i] \in Record /\ HashAt(i) \in Nat
           /\ HashAt(0) = 0
<1>1. Len(snaps) = Len(file) + 1 /\ snaps \in Seq(State) /\ file \in Seq(Record)
  BY DEF IInv, TypeOK, Chained
<1>2. \A i \in 1..Len(file) : file[i] \in Record
  BY <1>1
<1>3. \A i \in 1..Len(file) : file[i].hash \in Nat
  BY <1>2 DEF Record
<1>4. \A i \in 1..Len(snaps) : snaps[i] \in State
  BY <1>1
<1>5. \A i \in 0..Len(file) : snaps[i + 1] \in State
  BY <1>1, <1>4
<1>6. QED
  BY <1>1, <1>2, <1>3, <1>5 DEF HashAt

\* openStore only refuses an oversized record: replay stands at a prefix of
\* the chain.
LEMMA NextContinues ==
    ASSUME IInv, pc = "opening", offset < Len(file),
           ~Oversized(file[offset + 1])
    PROVE  Continues(file[offset + 1])
<1>1. offset \in Nat /\ offset + 1 \in 1..Len(file)
  BY DEF IInv, TypeOK
<1>2. S = snaps[offset + 1] /\ previous = HashAt(offset)
  BY DEF IInv, Memory
<1>3. QED
  BY <1>1, <1>2 DEF IInv, Chained, Continues

LEMMA OpenStoreInv == IInv /\ OpenStore => IInv'
<1> SUFFICES ASSUME IInv, OpenStore PROVE IInv'
  OBVIOUS
<1> USE DEF IInv
<1>1. TypeOK'
  BY BlankType DEF OpenStore, TypeOK
<1>2. Chained'
  BY DEF OpenStore, Chained, HashAt
<1>3. Memory'
  BY DEF OpenStore, Memory, Chained, HashAt, TypeOK
<1>4. QED
  BY <1>1, <1>2, <1>3 DEF OpenStore, OnlyOversizedRefused

LEMMA ReplayInv == IInv /\ Replay => IInv'
<1> SUFFICES ASSUME IInv, Replay PROVE IInv'
  OBVIOUS
<1> DEFINE r == file[offset + 1]
<1>1. offset \in Nat /\ offset + 1 \in 1..Len(file) /\ r \in Record
  BY LastSnap DEF Replay, IInv, TypeOK
<1>2. S = snaps[offset + 1]
  BY DEF Replay, IInv, Memory
<1>3. S' = snaps[offset + 2] /\ previous' = HashAt(offset + 1)
  BY <1>1, <1>2 DEF Replay, IInv, Chained, HashAt
<1>4. S' \in State /\ previous' \in Nat /\ offset' = offset + 1
  BY <1>1, <1>3, LastSnap DEF Replay
<1>5. TypeOK'
  BY <1>1, <1>4 DEF Replay, IInv, TypeOK
<1>6. Chained'
  BY DEF Replay, IInv, Chained, HashAt
<1>7. Memory'
  BY <1>1, <1>3, <1>4 DEF Replay, IInv, Memory, HashAt
<1>8. QED
  BY <1>5, <1>6, <1>7 DEF Replay, IInv, OnlyOversizedRefused

LEMMA ReplayRefusedInv == IInv /\ ReplayRefused => IInv'
<1> SUFFICES ASSUME IInv, ReplayRefused PROVE IInv'
  OBVIOUS
<1>1. TypeOK' /\ Chained'
  BY DEF ReplayRefused, IInv, TypeOK, Chained, HashAt
<1>2. Memory'
  BY DEF ReplayRefused, IInv, Memory
<1>3. OnlyOversizedRefused'
  BY NextContinues DEF ReplayRefused, OnlyOversizedRefused, Oversized
<1>4. QED
  BY <1>1, <1>2, <1>3 DEF IInv

LEMMA TruncateTailInv == IInv /\ TruncateTail => IInv'
<1> SUFFICES ASSUME IInv, TruncateTail PROVE IInv'
  OBVIOUS
<1>1. TypeOK'
  BY DEF TruncateTail, IInv, TypeOK
<1>2. Chained' /\ Memory' /\ OnlyOversizedRefused'
  BY DEF TruncateTail, IInv, Chained, Memory, HashAt, OnlyOversizedRefused
<1>3. QED
  BY <1>1, <1>2 DEF IInv

LEMMA RewriteEncryptedInv == IInv /\ RewriteEncrypted => IInv'
<1> SUFFICES ASSUME IInv, RewriteEncrypted PROVE IInv'
  OBVIOUS
<1> DEFINE r == [v |-> 1, seq |-> 1, prev |-> 0, hash |-> sealed + 1,
                 intact |-> TRUE,
                 entry |-> [full |-> TRUE, seq |-> S.seq, body |-> S.data]]
<1>1. S \in State /\ sealed \in Nat
  BY DEF IInv, TypeOK
<1>2. r \in Record
  BY <1>1 DEF Record, Entry, State
<1>3. r.intact /\ r.seq = 1 /\ r.prev = 0 /\ r.hash = sealed + 1
  OBVIOUS
<1>4. After(BlankState, r.entry, 1) = S
  BY <1>1 DEF After, State
<1> HIDE DEF r
<1>5. file' = <<r>> /\ previous' = r.hash
  BY DEF RewriteEncrypted, r
<1>6. file' \in Seq(Record) /\ Len(file') = 1 /\ file'[1] = r
  BY <1>2, <1>5, Singleton
<1>7. snaps' \in Seq(State) /\ Len(snaps') = 2 /\ snaps'[1] = BlankState /\ snaps'[2] = S
  BY <1>1, BlankType, Couple DEF RewriteEncrypted
<1>8. TypeOK'
  BY <1>1, <1>3, <1>5, <1>6, <1>7 DEF RewriteEncrypted, IInv, TypeOK
<1>9. Chained'
  BY <1>3, <1>4, <1>6, <1>7 DEF Chained, HashAt, BlankState
<1>10. Memory'
  BY <1>3, <1>5, <1>6, <1>7 DEF RewriteEncrypted, IInv, Memory, HashAt
<1>11. QED
  BY <1>8, <1>9, <1>10 DEF RewriteEncrypted, IInv, OnlyOversizedRefused

LEMMA OpenedInv == IInv /\ Opened => IInv'
<1> SUFFICES ASSUME IInv, Opened PROVE IInv'
  OBVIOUS
<1>1. TypeOK'
  BY DEF Opened, IInv, TypeOK
<1>2. Chained' /\ Memory' /\ OnlyOversizedRefused'
  BY DEF Opened, IInv, Chained, Memory, HashAt, OnlyOversizedRefused
<1>3. QED
  BY <1>1, <1>2 DEF IInv

LEMMA WriteLineInv ==
    ASSUME NEW e \in Entry
    PROVE  IInv /\ WriteLine(e) => IInv'
<1> SUFFICES ASSUME IInv, WriteLine(e) PROVE IInv'
  OBVIOUS
<1> DEFINE r == Sealed(e)
           s == After(S, e, S.seq + 1)
<1>1. S \in State /\ S.seq \in Nat /\ previous \in Nat /\ sealed \in Nat
  BY DEF IInv, TypeOK, State
<1>2. tail = "none" /\ S = snaps[Len(file) + 1] /\ previous = HashAt(Len(file))
  BY DEF WriteLine, CanCommit, IInv, Memory
<1>3. r \in Record /\ r.intact /\ r.seq = S.seq + 1 /\ r.prev = previous /\ r.entry = e
  <2>1. r = [v |-> 1, seq |-> S.seq + 1, prev |-> previous, hash |-> sealed + 1,
             entry |-> e, intact |-> TRUE]
    BY <1>2 DEF Sealed
  <2>2. S.seq + 1 \in Nat /\ sealed + 1 \in Nat
    BY <1>1
  <2> HIDE DEF r
  <2>3. QED
    BY <1>1, <2>1, <2>2 DEF Record
<1>4. s \in State
  BY <1>1, AfterType
<1> HIDE DEF r, s
<1>5. file' = Append(file, r) /\ snaps' = Append(snaps, s)
  BY DEF WriteLine, r, s
<1>6. /\ file \in Seq(Record) /\ snaps \in Seq(State)
      /\ Len(file) \in Nat /\ Len(snaps) = Len(file) + 1
  BY DEF IInv, TypeOK, Chained
<1>7. /\ file' \in Seq(Record) /\ Len(file') = Len(file) + 1
      /\ file'[Len(file) + 1] = r
      /\ \A i \in 1..Len(file) : file'[i] = file[i]
  BY <1>3, <1>5, <1>6
<1>8. /\ snaps' \in Seq(State) /\ Len(snaps') = Len(snaps) + 1
      /\ snaps'[Len(file) + 2] = s
      /\ \A i \in 1..(Len(file) + 1) : snaps'[i] = snaps[i]
  BY <1>4, <1>5, <1>6
<1>9. TypeOK'
  BY <1>1, <1>7, <1>8 DEF WriteLine, IInv, TypeOK
<1>10. Chained'
  <2>1. Len(snaps') = Len(file') + 1 /\ snaps'[1] = BlankState
    BY <1>6, <1>7, <1>8 DEF IInv, Chained
  <2>2. ASSUME NEW i \in 1..Len(file')
        PROVE  /\ file'[i].intact /\ file'[i].seq = snaps'[i].seq + 1
               /\ file'[i].prev = HashAt(i - 1)'
               /\ snaps'[i + 1] = After(snaps'[i], file'[i].entry, file'[i].seq)
    <3>1. CASE i \in 1..Len(file)
      <4>1. file'[i] = file[i] /\ snaps'[i] = snaps[i] /\ snaps'[i + 1] = snaps[i + 1]
        BY <3>1, <1>6, <1>7, <1>8
      <4>2. HashAt(i - 1)' = HashAt(i - 1)
        BY <3>1, <1>6, <1>7 DEF HashAt
      <4>3. QED
        BY <3>1, <4>1, <4>2 DEF IInv, Chained
    <3>2. CASE i = Len(file) + 1
      <4>1. file'[i] = r /\ snaps'[i] = S /\ snaps'[i + 1] = s
        BY <3>2, <1>2, <1>6, <1>7, <1>8
      <4>2. HashAt(i - 1)' = HashAt(Len(file))
        BY <3>2, <1>6, <1>7 DEF HashAt
      <4>3. QED
        BY <4>1, <4>2, <1>2, <1>3 DEF s
    <3>3. QED
      BY <1>6, <1>7, <3>1, <3>2
  <2>3. QED
    BY <2>1, <2>2 DEF Chained
<1>11. Memory'
  BY <1>2, <1>3, <1>6, <1>7, <1>8 DEF WriteLine, CanCommit, IInv, Memory
<1>12. QED
  BY <1>9, <1>10, <1>11 DEF WriteLine, IInv, OnlyOversizedRefused

LEMMA WriteFailsInv ==
    ASSUME NEW e \in Entry
    PROVE  IInv /\ WriteFails(e) => IInv'
<1> SUFFICES ASSUME IInv, WriteFails(e) PROVE IInv'
  OBVIOUS
<1>1. TypeOK'
  BY DEF WriteFails, IInv, TypeOK
<1>2. Chained'
  BY DEF WriteFails, IInv, Chained, HashAt
<1>3. Memory'
  BY DEF WriteFails, CanCommit, IInv, Memory, HashAt
<1>4. QED
  BY <1>1, <1>2, <1>3 DEF WriteFails, IInv, OnlyOversizedRefused

LEMMA SyncLineInv == IInv /\ SyncLine => IInv'
<1> SUFFICES ASSUME IInv, SyncLine PROVE IInv'
  OBVIOUS
<1> DEFINE n == Len(file)
<1>1. n \in Nat /\ n > 0 /\ n \in 1..n /\ file[n] \in Record
  BY DEF SyncLine, IInv, TypeOK, Memory
<1>2. S = snaps[n] /\ pending = file[n].entry /\ file[n].seq = S.seq + 1
  BY <1>1 DEF SyncLine, IInv, Memory, Chained
<1>3. S' = snaps[n + 1]
  BY <1>1, <1>2 DEF SyncLine, IInv, Chained
<1>4. S' \in State /\ previous' = HashAt(n) /\ previous' \in Nat
  BY <1>1, <1>3, LastSnap DEF SyncLine, HashAt
<1>5. TypeOK'
  BY <1>1, <1>4 DEF SyncLine, LinesOnDisk, IInv, TypeOK
<1>6. Chained'
  BY DEF SyncLine, IInv, Chained, HashAt
<1>7. Memory'
  BY <1>1, <1>3, <1>4 DEF SyncLine, IInv, Memory, HashAt
<1>8. QED
  BY <1>5, <1>6, <1>7 DEF SyncLine, IInv, OnlyOversizedRefused

LEMMA SyncFailsInv == IInv /\ SyncFails => IInv'
<1> SUFFICES ASSUME IInv, SyncFails PROVE IInv'
  OBVIOUS
<1>1. Len(file) \in 1..Len(file) /\ file[Len(file)] \in Record
  BY DEF SyncFails, IInv, TypeOK, Memory
<1>2. file[Len(file)].entry \in Entry
  BY <1>1 DEF Record
<1>3. TypeOK' /\ Chained'
  BY DEF SyncFails, IInv, TypeOK, Chained, HashAt
<1>4. Memory'
  BY <1>2 DEF SyncFails, IInv, Memory
<1>5. QED
  BY <1>3, <1>4 DEF SyncFails, IInv, OnlyOversizedRefused

LEMMA ProcessEndsInv == IInv /\ ProcessEnds => IInv'
<1> SUFFICES ASSUME IInv, ProcessEnds PROVE IInv'
  OBVIOUS
<1>1. TypeOK' /\ Chained'
  BY DEF ProcessEnds, IInv, TypeOK, Chained, HashAt
<1>2. Memory' /\ OnlyOversizedRefused'
  BY DEF ProcessEnds, Memory, OnlyOversizedRefused
<1>3. QED
  BY <1>1, <1>2 DEF IInv

LEMMA PowerLossInv == IInv /\ PowerLoss => IInv'
<1> SUFFICES ASSUME IInv, PowerLoss PROVE IInv'
  OBVIOUS
<1>1. PICK kept \in synced..Len(file) :
        /\ file' = SubSeq(file, 1, kept)
        /\ snaps' = SubSeq(snaps, 1, kept + 1)
        /\ synced' = kept
        /\ tail' \in {"none", "torn"}
  BY DEF PowerLoss
<1>2. /\ file \in Seq(Record) /\ snaps \in Seq(State)
      /\ Len(file) \in Nat /\ Len(snaps) = Len(file) + 1
      /\ kept \in 0..Len(file)
  BY DEF IInv, TypeOK, Chained
<1>3. /\ file' \in Seq(Record) /\ Len(file') = kept
      /\ \A i \in 1..kept : file'[i] = file[i]
  BY <1>1, <1>2, SubSeqProperties
<1>4. /\ snaps' \in Seq(State) /\ Len(snaps') = kept + 1
      /\ \A i \in 1..(kept + 1) : snaps'[i] = snaps[i]
  BY <1>1, <1>2, SubSeqProperties
<1>5. TypeOK'
  <2>1. synced' \in Nat
    BY <1>1, <1>2
  <2>2. pending' = None /\ pc' = "down" /\ failed' = FALSE
    BY DEF PowerLoss
  <2>3. UNCHANGED <<S, previous, offset, sealed, served, faults>>
    BY DEF PowerLoss
  <2>4. QED
    BY <1>1, <1>3, <1>4, <2>1, <2>2, <2>3 DEF IInv, TypeOK
<1>6. Chained'
  <2>1. \A i \in 0..kept : HashAt(i)' = HashAt(i)
    BY <1>2, <1>3 DEF HashAt
  <2>2. QED
    BY <1>2, <1>3, <1>4, <2>1 DEF IInv, Chained
<1>7. Memory' /\ OnlyOversizedRefused'
  BY DEF PowerLoss, Memory, OnlyOversizedRefused
<1>8. QED
  BY <1>5, <1>6, <1>7 DEF IInv

LEMMA NextInv == IInv /\ [Next]_vars => IInv'
<1> SUFFICES ASSUME IInv, [Next]_vars PROVE IInv'
  OBVIOUS
<1>1. CASE OpenStore
  BY <1>1, OpenStoreInv
<1>2. CASE Replay
  BY <1>2, ReplayInv
<1>3. CASE ReplayRefused
  BY <1>3, ReplayRefusedInv
<1>4. CASE TruncateTail
  BY <1>4, TruncateTailInv
<1>5. CASE RewriteEncrypted
  BY <1>5, RewriteEncryptedInv
<1>6. CASE Opened
  BY <1>6, OpenedInv
<1>7. ASSUME NEW e \in Entry, Commits(e) PROVE IInv'
  BY <1>7, WriteLineInv, WriteFailsInv DEF Commits
<1>8. \A p \in Patch : Delta(p) \in Entry
  BY DEF Delta, Entry
<1>9. \A n \in ImportSeqs, d \in ImportData : Import(n, d) \in Entry
  BY JournalAssumption DEF Import, Entry
<1>10. CASE SyncLine
  BY <1>10, SyncLineInv
<1>11. CASE SyncFails
  BY <1>11, SyncFailsInv
<1>12. CASE ProcessEnds
  BY <1>12, ProcessEndsInv
<1>13. CASE PowerLoss
  BY <1>13, PowerLossInv
<1>14. CASE UNCHANGED vars
  BY <1>14 DEF vars, IInv, TypeOK, Chained, Memory, HashAt, OnlyOversizedRefused, Oversized
<1>15. QED
  BY <1>1, <1>2, <1>3, <1>4, <1>5, <1>6, <1>7, <1>8, <1>9, <1>10, <1>11,
     <1>12, <1>13, <1>14 DEF Next

\* Every variable keeps its type through every step of openStore and commit.
THEOREM JournalTypes == Spec => []TypeOK
<1>1. IInv => TypeOK
  BY DEF IInv
<1>2. QED
  BY InitInv, NextInv, <1>1, PTL DEF Spec

\* Whatever crashes, failed writes and retries came before, openStore refuses
\* no record that commit() wrote, except an imported state too large for one
\* line of the file (server.go:421-463).
THEOREM JournalRefusesOversizedOnly == Spec => []OnlyOversizedRefused
<1>1. IInv => OnlyOversizedRefused
  BY DEF IInv
<1>2. QED
  BY InitInv, NextInv, <1>1, PTL DEF Spec

\* openStore never refuses the journal, as long as no imported state is too
\* large for one line of it (server.go:436-463).
THEOREM JournalAlwaysReadable ==
    ASSUME HugeStates = {}
    PROVE  Spec => []JournalReadable
<1>1. OnlyOversizedRefused => JournalReadable
  BY DEF OnlyOversizedRefused, Oversized, JournalReadable
<1>2. QED
  BY JournalRefusesOversizedOnly, <1>1, PTL

-----------------------------------------------------------------------------
(* What is on the disk itself.  Both arguments below need that a process   *)
(* that is killed and a power loss do not follow one another.              *)

OneFaultKind == {"process", "power"} \notin FaultSets

LEMMA PowerAlone ==
    ASSUME OneFaultKind, TypeOK, "power" \in faults
    PROVE  "process" \notin faults
<1>1. faults \in FaultSets /\ faults \subseteq {"process", "power"}
  BY JournalAssumption DEF TypeOK
<1>2. CASE "process" \in faults
  <2>1. faults = {"process", "power"}
    BY <1>1, <1>2
  <2>2. QED
    BY <1>1, <2>1 DEF OneFaultKind
<1>3. QED
  BY <1>2

\* Without process crashes every line that was not synced is the one being
\* committed, or the one whose commit failed.
Flushed ==
    "process" \notin faults =>
      /\ pc \in {"down", "opening"} => synced = Len(file)
      /\ pc = "up" /\ ~failed => synced = Len(file)
      /\ pc = "written" => synced = Len(file) - 1
      /\ pc = "up" /\ failed =>
           \/ synced = Len(file) /\ S = snaps[Len(file) + 1]
           \/ /\ synced = Len(file) - 1
              /\ pending = file[Len(file)].entry
              /\ S = snaps[Len(file)]
      /\ served <= synced

DInv == IInv /\ Flushed /\ synced <= Len(file) /\ ServedIsDurable

LEMMA InitDInv == Init => DInv
<1> SUFFICES ASSUME Init PROVE DInv
  OBVIOUS
<1>1. IInv
  BY InitInv
<1>2. Len(file) \in Nat
  BY <1>1 DEF IInv, TypeOK
<1>3. QED
  BY <1>1, <1>2 DEF Init, DInv, Flushed, ServedIsDurable

LEMMA NextDInv ==
    ASSUME OneFaultKind
    PROVE  DInv /\ [Next]_vars => DInv'
<1> SUFFICES ASSUME DInv, [Next]_vars PROVE DInv'
  OBVIOUS
<1> DEFINE D == Flushed /\ synced <= Len(file) /\ ServedIsDurable
<1>1. IInv /\ IInv' /\ D
  BY NextInv DEF DInv
<1>2. /\ Len(file) \in Nat /\ Len(file') \in Nat /\ synced \in Nat /\ served \in Nat
      /\ file \in Seq(Record)
  BY <1>1 DEF IInv, TypeOK
<1> USE DEF Flushed, ServedIsDurable
<1>3. CASE OpenStore \/ Replay \/ ReplayRefused \/ TruncateTail \/ Opened
  <2>1. CASE OpenStore
    BY <1>1, <1>2, <2>1 DEF OpenStore, DInv
  <2>2. CASE Replay
    BY <1>1, <1>2, <2>2 DEF Replay, DInv
  <2>3. CASE ReplayRefused
    BY <1>1, <1>2, <2>3 DEF ReplayRefused, DInv
  <2>4. CASE TruncateTail
    BY <1>1, <1>2, <2>4 DEF TruncateTail, DInv
  <2>5. CASE Opened
    <3>1. ~failed
      BY <1>1, <2>5 DEF Opened, IInv, Memory
    <3>2. QED
      BY <1>1, <1>2, <2>5, <3>1 DEF Opened, DInv
  <2>6. QED
    BY <1>3, <2>1, <2>2, <2>3, <2>4, <2>5
<1>4. CASE RewriteEncrypted
  <2>1. Len(file') = 1 /\ synced' = 1 /\ served' = 1 /\ pc' = "opening"
    BY <1>4 DEF RewriteEncrypted
  <2>2. QED
    BY <1>1, <2>1 DEF DInv
<1>5. ASSUME NEW e \in Entry, WriteLine(e) PROVE DInv'
  <2>1. /\ Len(file') = Len(file) + 1 /\ synced' = synced /\ served' = served
        /\ pc = "up" /\ ~failed /\ pc' = "written" /\ ~failed' /\ faults' = faults
    BY <1>2, <1>5 DEF WriteLine, CanCommit
  <2>2. QED
    BY <1>1, <1>2, <2>1 DEF DInv
<1>6. ASSUME NEW e \in Entry, WriteFails(e) PROVE DInv'
  <2>1. S = snaps[Len(file) + 1]
    BY <1>1, <1>6 DEF WriteFails, CanCommit, IInv, Memory
  <2>2. QED
    BY <1>1, <1>2, <1>6, <2>1 DEF WriteFails, CanCommit, DInv
<1>7. ASSUME NEW e \in Entry, Commits(e) PROVE DInv'
  BY <1>5, <1>6, <1>7 DEF Commits
<1>8. \A p \in Patch : Delta(p) \in Entry
  BY DEF Delta, Entry
<1>9. \A n \in ImportSeqs, d \in ImportData : Import(n, d) \in Entry
  BY JournalAssumption DEF Import, Entry
<1>10. CASE SyncLine
  <2>1. ~failed'
    BY <1>1, <1>10 DEF SyncLine, IInv, Memory
  <2>2. QED
    BY <1>1, <1>2, <1>10, <2>1 DEF SyncLine, LinesOnDisk, DInv
<1>11. CASE SyncFails
  <2>1. pending = file[Len(file)].entry /\ S = snaps[Len(file)]
    BY <1>1, <1>11 DEF SyncFails, IInv, Memory
  <2>2. QED
    BY <1>1, <1>2, <1>11, <2>1 DEF SyncFails, DInv
<1>12. CASE ProcessEnds
  BY <1>1, <1>2, <1>12 DEF ProcessEnds, DInv
<1>13. CASE PowerLoss
  <2>1. "process" \notin faults
    BY <1>1, <1>13, PowerAlone DEF PowerLoss, IInv
  <2>2. PICK kept \in synced..Len(file) : file' = SubSeq(file, 1, kept) /\ synced' = kept
    BY <1>13 DEF PowerLoss
  <2>3. Len(file') = kept /\ kept \in 0..Len(file)
    BY <1>2, <2>2, SubSeqProperties
  <2>4. served' = served /\ pc' = "down" /\ ~failed' /\ faults' = faults
    BY <1>13 DEF PowerLoss
  <2>5. served <= synced /\ synced \in Nat
    BY <1>1, <1>2, <2>1
  <2> HIDE DEF Flushed
  <2>6. Flushed'
    BY <1>2, <2>2, <2>3, <2>4, <2>5 DEF Flushed
  <2>7. QED
    BY <1>1, <1>2, <2>2, <2>3, <2>4, <2>5, <2>6 DEF DInv
<1>14. CASE UNCHANGED vars
  BY <1>1, <1>14 DEF vars, DInv
<1>15. QED
  BY <1>3, <1>4, <1>7, <1>8, <1>9, <1>10, <1>11, <1>12, <1>13, <1>14 DEF Next

\* A record whose effect clients have seen is never lost to a crash, if the
\* machine loses power or processes are killed, but not one after the other
\* (server.go:424-433, 547-558).
THEOREM ServedRecordsSurvive ==
    ASSUME OneFaultKind
    PROVE  Spec => []ServedIsDurable
<1>1. Init => DInv
  BY InitDInv
<1>2. DInv /\ [Next]_vars => DInv'
  BY NextDInv
<1>3. DInv => ServedIsDurable
  BY DEF DInv
<1>4. QED
  BY <1>1, <1>2, <1>3, PTL DEF Spec

-----------------------------------------------------------------------------
(* JournalStore implements DurableStore under the mapping Live, pending,   *)
(* failed.                                                                 *)

DNextOrStutter == [Durable!DNext]_Durable!dvars

\* The operators DurableStore takes from StoreState are the ones used here.
LEMMA SameOperators ==
    /\ Durable!None = None
    /\ Durable!Entry = Entry
    /\ Durable!BlankState = BlankState
    /\ \A s, e, n : Durable!After(s, e, n) = After(s, e, n)
BY DEF Durable!None, None, Durable!Entry, Entry, Durable!BlankState, BlankState,
       Durable!After, After

LEMMA InitRefines == Init => Durable!DInit
<1> SUFFICES ASSUME Init PROVE Durable!DInit
  OBVIOUS
<1>1. pending = None /\ failed = FALSE /\ Live = snaps[Len(snaps)]
  BY DEF Init, Live
<1>2. CASE file = <<>>
  <2>1. snaps = <<BlankState>>
    BY <1>2 DEF Init
  <2>2. Live = BlankState
    BY <1>1, <2>1, BlankType, Singleton
  <2>3. QED
    BY <1>1, <2>2, SameOperators DEF Durable!DInit
<1>3. ASSUME NEW p \in Patch, file = <<LegacyRecord(p)>> PROVE Durable!DInit
  <2> DEFINE s == After(BlankState, LegacyRecord(p).entry, 1)
  <2>1. LegacyRecord(p) \in Record /\ LegacyRecord(p).entry \in Entry
    BY DEF LegacyRecord, Record, Entry
  <2>2. s = [seq |-> 1, data |-> Apply(Blank, p)] /\ s \in State
    BY <2>1, BlankType, AfterType DEF After, LegacyRecord, BlankState
  <2> HIDE DEF s
  <2>3. file # <<>> /\ file[1] = LegacyRecord(p)
    BY <1>3, <2>1, Singleton
  <2>4. snaps = <<BlankState, s>>
    BY <2>3 DEF Init, s
  <2>5. Live = s
    BY <1>1, <2>2, <2>4, BlankType, Couple
  <2>6. QED
    BY <1>1, <2>2, <2>5, SameOperators DEF Durable!DInit
<1>4. QED
  BY <1>2, <1>3 DEF Init

\* What a restart finds after the process ended at any point.
LEMMA LastSnapIsOutcome ==
    ASSUME DInv, Running
    PROVE  snaps[Len(file) + 1] \in {Live, Durable!Outcome}
<1>1. /\ Len(file) \in Nat /\ Len(snaps) = Len(file) + 1
      /\ pending # None => pending \in Entry
  BY DEF DInv, IInv, TypeOK, Chained
<1>2. ASSUME Len(file) > 0
      PROVE  snaps[Len(file) + 1] = After(snaps[Len(file)], file[Len(file)].entry,
                                          snaps[Len(file)].seq + 1)
  BY <1>1, <1>2 DEF DInv, IInv, Chained
<1>3. CASE pc = "opening"
  BY <1>1, <1>3 DEF Live
<1>4. CASE pc = "up" /\ ~failed
  BY <1>4 DEF DInv, IInv, Memory, Live
<1>5. CASE pc = "written"
  <2>1. Len(file) > 0 /\ pending = file[Len(file)].entry /\ S = snaps[Len(file)]
    BY <1>5 DEF DInv, IInv, Memory
  <2>2. pending \in Entry /\ Live = S
    <3>1. Len(file) \in 1..Len(file) /\ file[Len(file)] \in Record
      BY <1>1, <2>1 DEF DInv, IInv, TypeOK
    <3>2. QED
      BY <1>5, <2>1, <3>1 DEF Live, Record
  <2>3. Durable!Outcome = After(S, pending, S.seq + 1)
    BY <2>2, NoneNotEntry, SameOperators DEF Durable!Outcome
  <2>4. QED
    BY <1>2, <2>1, <2>3
<1>6. CASE pc = "up" /\ failed
  <2>1. /\ pending \in Entry /\ Live = S
        /\ \/ S = snaps[Len(file) + 1]
           \/ /\ Len(file) > 0
              /\ pending = file[Len(file)].entry
              /\ S = snaps[Len(file)]
    BY <1>6 DEF DInv, IInv, Memory, Live
  <2>2. Durable!Outcome = After(S, pending, S.seq + 1)
    BY <2>1, NoneNotEntry, SameOperators DEF Durable!Outcome
  <2>3. QED
    BY <1>2, <2>1, <2>2
<1>7. QED
  BY <1>3, <1>4, <1>5, <1>6 DEF Running

LEMMA StepRefines ==
    ASSUME OneFaultKind
    PROVE  DInv /\ DInv' /\ [Next]_vars => DNextOrStutter
<1> SUFFICES ASSUME DInv, DInv', [Next]_vars PROVE DNextOrStutter
  OBVIOUS
<1>1. /\ Len(file) \in Nat /\ Len(snaps) = Len(file) + 1 /\ failed \in BOOLEAN
      /\ Len(file') \in Nat /\ Len(snaps') = Len(file') + 1
      /\ pending \in Entry \cup {None}
  BY DEF DInv, IInv, TypeOK, Chained
<1>2. ASSUME Live' = Live, pending' = pending, failed' = failed
      PROVE  DNextOrStutter
  BY <1>2 DEF DNextOrStutter, Durable!dvars
<1>3. CASE OpenStore
  BY <1>1, <1>2, <1>3 DEF OpenStore, Live, DInv, IInv, Memory
<1>4. CASE Replay
  BY <1>2, <1>4 DEF Replay, Live
<1>5. CASE ReplayRefused
  BY <1>2, <1>5 DEF ReplayRefused, Live
<1>6. CASE TruncateTail
  BY <1>2, <1>6 DEF TruncateTail, Live
<1>7. CASE RewriteEncrypted
  <2>1. S = snaps[Len(file) + 1] /\ S \in State
    BY <1>7 DEF RewriteEncrypted, DInv, IInv, Memory, TypeOK
  <2>2. snaps' = <<BlankState, S>> /\ pc' = "opening" /\ pc = "opening"
    BY <1>7 DEF RewriteEncrypted
  <2>3. Live' = S
    BY <2>1, <2>2, BlankType, Couple DEF Live
  <2>4. QED
    BY <1>1, <1>2, <1>7, <2>1, <2>2, <2>3 DEF RewriteEncrypted, Live
<1>8. CASE Opened
  <2>1. S = snaps[Len(file) + 1]
    BY <1>8 DEF Opened, DInv, IInv, Memory
  <2>2. QED
    BY <1>1, <1>2, <1>8, <2>1 DEF Opened, Live
<1>9. ASSUME NEW e \in Entry, Commits(e) PROVE DNextOrStutter
  <2>1. pending = None /\ pending' = e /\ failed' \in BOOLEAN /\ Live' = Live
    BY <1>1, <1>9 DEF Commits, WriteLine, WriteFails, CanCommit, Live, DInv, IInv, Memory
  <2>2. Durable!Begin
    BY <2>1, SameOperators DEF Durable!Begin
  <2>3. QED
    BY <2>2 DEF DNextOrStutter, Durable!DNext
<1>10. \A p \in Patch : Delta(p) \in Entry
  BY DEF Delta, Entry
<1>11. \A n \in ImportSeqs, d \in ImportData : Import(n, d) \in Entry
  BY JournalAssumption DEF Import, Entry
<1>12. CASE SyncLine
  <2>1. pending = file[Len(file)].entry /\ ~failed /\ Len(file) > 0
    BY <1>12 DEF SyncLine, DInv, IInv, Memory
  <2>2. file[Len(file)] \in Record
    BY <1>1, <2>1 DEF DInv, IInv, TypeOK
  <2>3. pending # None
    BY <2>1, <2>2, NoneNotEntry DEF Record
  <2>4. Live = S /\ Live' = After(S, pending, S.seq + 1) /\ pending' = None /\ failed' = failed
    BY <1>12 DEF SyncLine, Live
  <2>5. Durable!Commit
    BY <2>1, <2>3, <2>4, SameOperators DEF Durable!Commit, Durable!Outcome
  <2>6. QED
    BY <2>5 DEF DNextOrStutter, Durable!DNext
<1>13. CASE SyncFails
  <2>1. pending = file[Len(file)].entry /\ Len(file) > 0
    BY <1>13 DEF SyncFails, DInv, IInv, Memory
  <2>2. file[Len(file)] \in Record
    BY <1>1, <2>1 DEF DInv, IInv, TypeOK
  <2>3. pending # None
    BY <2>1, <2>2, NoneNotEntry DEF Record
  <2>4. Live' = Live /\ pending' = pending /\ failed' = TRUE
    BY <1>13 DEF SyncFails, Live
  <2>5. Durable!Freeze
    BY <2>3, <2>4, SameOperators DEF Durable!Freeze
  <2>6. QED
    BY <2>5 DEF DNextOrStutter, Durable!DNext
<1>14. CASE ProcessEnds
  <2>1. Live' = snaps[Len(file) + 1] /\ pending' = None /\ failed' = FALSE /\ Running
    BY <1>1, <1>14 DEF ProcessEnds, Live
  <2>2. Durable!Restart
    BY <2>1, LastSnapIsOutcome, SameOperators DEF Durable!Restart
  <2>3. QED
    BY <2>2 DEF DNextOrStutter, Durable!DNext
<1>15. CASE PowerLoss
  <2>1. "process" \notin faults
    BY <1>15, PowerAlone DEF PowerLoss, DInv, IInv
  <2>2. PICK kept \in synced..Len(file) :
          file' = SubSeq(file, 1, kept) /\ snaps' = SubSeq(snaps, 1, kept + 1)
    BY <1>15 DEF PowerLoss
  <2>3. kept \in 0..Len(file) /\ snaps \in Seq(State) /\ file \in Seq(Record)
    BY <1>1, <2>2 DEF DInv, IInv, TypeOK
  <2>4. Len(file') = kept /\ snaps'[kept + 1] = snaps[kept + 1]
    BY <1>1, <2>2, <2>3, SubSeqProperties
  <2>5. Live' = snaps[kept + 1] /\ pending' = None /\ failed' = FALSE /\ Running
    BY <1>1, <1>15, <2>4 DEF PowerLoss, Live
  <2>6. CASE kept = Len(file)
    BY <2>5, <2>6, LastSnapIsOutcome, SameOperators DEF Durable!Restart, DNextOrStutter, Durable!DNext
  <2>7. CASE kept # Len(file)
    <3>1. kept = Len(file) - 1 /\ (pc = "written" \/ (pc = "up" /\ failed))
      BY <1>1, <2>1, <2>2, <2>3, <2>5, <2>7 DEF DInv, Flushed, Running, IInv, TypeOK
    <3>2. S = snaps[Len(file)]
      BY <1>1, <2>1, <2>2, <2>3, <2>7, <3>1 DEF DInv, Flushed, IInv, Memory
    <3>3. Live' = Live
      BY <1>1, <2>5, <3>1, <3>2 DEF Live
    <3>4. QED
      BY <2>5, <3>3, SameOperators DEF Durable!Restart, DNextOrStutter, Durable!DNext
  <2>8. QED
    BY <2>6, <2>7
<1>16. CASE UNCHANGED vars
  BY <1>2, <1>16 DEF vars, Live
<1>17. QED
  BY <1>3, <1>4, <1>5, <1>6, <1>7, <1>8, <1>9, <1>10, <1>11, <1>12, <1>13,
     <1>14, <1>15, <1>16 DEF Next

\* The journal implements the store of DurableStore: the state handlers read
\* changes by whole patches only, and a restart loses or gains at most the one
\* patch that commit() reported as failed or never answered.
THEOREM JournalImplementsDurableStore ==
    ASSUME OneFaultKind
    PROVE  Spec => ImplementsDurableStore
<1>1. Init => DInv /\ Durable!DInit
  BY InitDInv, InitRefines
<1>2. DInv /\ [Next]_vars => DInv'
  BY NextDInv
<1>3. DInv /\ DInv' /\ [Next]_vars => [Durable!DNext]_Durable!dvars
  BY StepRefines DEF DNextOrStutter
<1>4. QED
  BY <1>1, <1>2, <1>3, PTL DEF Spec, ImplementsDurableStore, Durable!DSpec
=============================================================================
