---------------------------- MODULE JournalStore ----------------------------
(***************************************************************************)
(* The Go host's journal: Store.commit, openStore and rewriteEncrypted of  *)
(* src/server.go and src/journal_crypto.go, with the file as the operating *)
(* system and the disk treat it.                                           *)
(*                                                                         *)
(* commit seals a patch against the previous record, writes one line,      *)
(* calls Sync and only then applies the patch.  A process may be killed    *)
(* and the power may fail between any two of these steps.  openStore reads *)
(* the file from the start, one record per step, and refuses the whole     *)
(* journal when a record does not continue the chain.                      *)
(***************************************************************************)
EXTENDS StoreState

CONSTANTS
    ImportSeqs,    \* sequence numbers an imported State may carry
    ImportData,    \* the data it may carry
    HugeStates,    \* imported data whose sealed line is longer than 64 MiB
    FaultSets,     \* which faults happen in one life of a journal: sets of
                   \* "process" (killed) and "power" (power loss)
    MaxSealed      \* bound on the records ever sealed

ASSUME JournalAssumption ==
    /\ ImportSeqs \subseteq Nat
    /\ ImportData \subseteq Data
    /\ HugeStates \subseteq Data
    /\ FaultSets \subseteq SUBSET {"process", "power"}
    /\ MaxSealed \in Nat

VARIABLES
    file,      \* the complete lines of yarus.journal, as a reader sees them
    tail,      \* "torn" when an incomplete line follows them
    synced,    \* how many lines are known to be on the disk itself
    pc,        \* "down", "opening", "up", "written" (between Write and Sync), "broken"
    S,         \* st.S
    previous,  \* st.previous, the hash of the last record; 0 stands for ""
    failed,    \* st.failed
    pending,   \* the patch commit() is writing or failed to write
    offset,    \* records openStore has replayed
    sealed,    \* records sealed so far: each has a fresh nonce, so a hash of its own
    snaps,     \* history variable: snaps[i + 1] is the state after i records of file
    served,    \* history variable: the most records clients have seen the effect of
    faults     \* the member of FaultSets that this life of the journal meets

vars == <<file, tail, synced, pc, S, previous, failed, pending, offset,
          sealed, snaps, served, faults>>

\* v is 0 for a line of the open 1.0 journal; intact is FALSE for a line that
\* was glued to an earlier incomplete one.
Record == [v : {0, 1}, seq : Nat, prev : Nat, hash : Nat, entry : Entry,
           intact : BOOLEAN]

TypeOK ==
    /\ file \in Seq(Record)
    /\ tail \in {"none", "torn"}
    /\ synced \in Nat
    /\ pc \in {"down", "opening", "up", "written", "broken"}
    /\ S \in State
    /\ previous \in Nat
    /\ failed \in BOOLEAN
    /\ pending \in Entry \cup {None}
    /\ offset \in Nat
    /\ sealed \in Nat
    /\ snaps \in Seq(State)
    /\ served \in Nat
    /\ faults \in FaultSets

-----------------------------------------------------------------------------

LegacyRecord(p) ==
    [v |-> 0, seq |-> 1, prev |-> 0, hash |-> 1, intact |-> TRUE,
     entry |-> [full |-> FALSE, seq |-> 0, body |-> p]]

\* A new data folder, or one that the open-format 1.0 server left behind.
Init ==
    /\ \/ file = <<>> /\ sealed = 0
       \/ \E p \in Patch : file = <<LegacyRecord(p)>> /\ sealed = 1
    /\ tail = "none"
    /\ synced = Len(file)
    /\ pc = "down"
    /\ S = BlankState
    /\ previous = 0
    /\ failed = FALSE
    /\ pending = None
    /\ offset = 0
    /\ snaps = IF file = <<>> THEN <<BlankState>>
               ELSE <<BlankState, After(BlankState, file[1].entry, 1)>>
    /\ served = Len(file)
    /\ faults \in FaultSets

-----------------------------------------------------------------------------
(* openStore *)

OpenStore ==
    /\ pc = "down"
    /\ pc' = "opening"
    /\ S' = BlankState
    /\ previous' = 0
    /\ failed' = FALSE
    /\ offset' = 0
    /\ UNCHANGED <<file, tail, synced, pending, sealed, snaps, served, faults>>

Oversized(r) == r.entry.full /\ r.entry.body \in HugeStates

Continues(r) ==
    /\ r.intact
    /\ ~Oversized(r)
    /\ r.prev = previous
    /\ r.seq = S.seq + 1

Replay ==
    /\ pc = "opening" /\ offset < Len(file)
    /\ LET r == file[offset + 1] IN
         /\ Continues(r)
         /\ S' = After(S, r.entry, r.seq)
         /\ previous' = r.hash
    /\ offset' = offset + 1
    /\ UNCHANGED <<file, tail, synced, pc, failed, pending, sealed, snaps, served, faults>>

\* "journal integrity error": the server does not start.
ReplayRefused ==
    /\ pc = "opening" /\ offset < Len(file)
    /\ ~Continues(file[offset + 1])
    /\ pc' = "broken"
    /\ UNCHANGED <<file, tail, synced, S, previous, failed, pending, offset,
                   sealed, snaps, served, faults>>

TruncateTail ==
    /\ pc = "opening" /\ offset = Len(file) /\ tail = "torn"
    /\ tail' = "none"
    /\ synced' = Len(file)
    /\ UNCHANGED <<file, pc, S, previous, failed, pending, offset, sealed,
                   snaps, served, faults>>

LegacyJournal == \E i \in 1..Len(file) : file[i].v = 0

\* The temporary file is committed, synced and closed before it is renamed
\* over the journal, so the rename is the only step that changes the disk.
RewriteEncrypted ==
    /\ pc = "opening" /\ offset = Len(file) /\ tail = "none" /\ LegacyJournal
    /\ LET r == [v |-> 1, seq |-> 1, prev |-> 0, hash |-> sealed + 1,
                 intact |-> TRUE,
                 entry |-> [full |-> TRUE, seq |-> S.seq, body |-> S.data]]
       IN /\ file' = <<r>>
          /\ previous' = r.hash
    /\ sealed' = sealed + 1
    /\ synced' = 1
    /\ offset' = 1
    /\ snaps' = <<BlankState, S>>
    /\ served' = 1
    /\ UNCHANGED <<tail, pc, S, failed, pending, faults>>

Opened ==
    /\ pc = "opening" /\ offset = Len(file) /\ tail = "none" /\ ~LegacyJournal
    /\ pc' = "up"
    /\ served' = Len(file)
    /\ UNCHANGED <<file, tail, synced, S, previous, failed, pending, offset,
                   sealed, snaps, faults>>

-----------------------------------------------------------------------------
(* commit; the caller holds the write lock *)

\* Mutant of CanCommit: a failed write does not stop the next one.
CanCommitAfterFailure == pc = "up"

CanCommit == pc = "up" /\ ~failed

Sealed(e) == [v |-> 1, seq |-> S.seq + 1, prev |-> previous,
              hash |-> sealed + 1, entry |-> e, intact |-> (tail = "none")]

WriteLine(e) ==
    /\ CanCommit /\ sealed < MaxSealed
    /\ file' = Append(file, Sealed(e))
    /\ tail' = "none"
    /\ snaps' = Append(snaps, After(S, e, S.seq + 1))
    /\ sealed' = sealed + 1
    /\ pending' = e
    /\ pc' = "written"
    /\ UNCHANGED <<synced, S, previous, failed, offset, served, faults>>

\* Write returns an error, or fewer bytes than the line has.
WriteFails(e) ==
    /\ CanCommit /\ sealed < MaxSealed
    /\ tail' \in {"none", "torn"}
    /\ sealed' = sealed + 1
    /\ pending' = e
    /\ failed' = TRUE
    /\ UNCHANGED <<file, synced, pc, S, previous, offset, snaps, served, faults>>

\* Mutant of LinesOnDisk: the line is left in the cache of the operating system.
LinesLeftInCache == synced

LinesOnDisk == Len(file)

SyncLine ==
    /\ pc = "written"
    /\ synced' = LinesOnDisk
    /\ S' = After(S, pending, S.seq + 1)
    /\ previous' = file[Len(file)].hash
    /\ pending' = None
    /\ served' = Len(file)
    /\ pc' = "up"
    /\ UNCHANGED <<file, tail, failed, offset, sealed, snaps, faults>>

\* Mutant of SyncFails: the error is answered, and the store goes on.
SyncFailsSilently ==
    /\ pc = "written"
    /\ pc' = "up"
    /\ UNCHANGED <<file, tail, synced, S, previous, failed, pending, offset, sealed,
                   snaps, served, faults>>

SyncFails ==
    /\ pc = "written"
    /\ failed' = TRUE
    /\ pc' = "up"
    /\ UNCHANGED <<file, tail, synced, S, previous, pending, offset, sealed,
                   snaps, served, faults>>

-----------------------------------------------------------------------------
(* The process ends: it is killed, it exits after a failed start, or the   *)
(* power goes.  Only the last one loses what was written and not synced.   *)

Running == pc \in {"opening", "up", "written"}

ProcessEnds ==
    /\ "process" \in faults
    /\ Running
    /\ pc' = "down"
    /\ pending' = None
    /\ failed' = FALSE
    /\ UNCHANGED <<file, tail, synced, S, previous, offset, sealed, snaps, served, faults>>

PowerLoss ==
    /\ "power" \in faults
    /\ Running
    /\ \E kept \in synced..Len(file) :
         /\ file' = SubSeq(file, 1, kept)
         /\ snaps' = SubSeq(snaps, 1, kept + 1)
         /\ synced' = kept
         /\ tail' \in IF kept < Len(file) \/ tail = "torn"
                      THEN {"none", "torn"} ELSE {"none"}
    /\ pc' = "down"
    /\ pending' = None
    /\ failed' = FALSE
    /\ UNCHANGED <<S, previous, offset, sealed, served, faults>>

-----------------------------------------------------------------------------

Delta(p) == [full |-> FALSE, seq |-> 0, body |-> p]

\* Mutant of Import: the imported state is numbered one too low.
ImportRenumbered(n, d) == [full |-> TRUE, seq |-> n - 1, body |-> d]

Import(n, d) == [full |-> TRUE, seq |-> n, body |-> d]

Commits(e) == WriteLine(e) \/ WriteFails(e)

Next ==
    \/ OpenStore \/ Replay \/ ReplayRefused \/ TruncateTail
    \/ RewriteEncrypted \/ Opened
    \/ \E p \in Patch : Commits(Delta(p))
    \/ \E n \in ImportSeqs, d \in ImportData : Commits(Import(n, d))
    \/ SyncLine \/ SyncFails
    \/ ProcessEnds \/ PowerLoss

Spec == Init /\ [][Next]_vars

-----------------------------------------------------------------------------

\* The journal can always be opened again: no crash, failed write or retry
\* after a failure leaves a file that openStore refuses (server.go:421-463).
JournalReadable == pc # "broken"

\* The only line openStore ever refuses is an imported state that is longer
\* than the limit it reads with, although commit wrote it (server.go:436-441).
OnlyOversizedRefused == pc = "broken" => Oversized(file[offset + 1])

\* "No acknowledged transaction removed": a record whose effect a client has
\* been shown, whether by its own answer or by a later snapshot, stays in the
\* file through every crash and every truncation of an unfinished tail.
ServedIsDurable == served <= Len(file)

\* The state that handlers read.  While the store is not open it is the state
\* the complete lines of the file describe.
Live == IF pc \in {"up", "written"} THEN S ELSE snaps[Len(snaps)]

Durable == INSTANCE DurableStore WITH live <- Live, doubt <- pending,
                                      frozen <- failed

\* Through every interleaving of writes, failed writes and restarts the store
\* behaves as one state changed one patch at a time, where only the patch that
\* commit() did not confirm may or may not have happened.
ImplementsDurableStore == Durable!DSpec
=============================================================================
