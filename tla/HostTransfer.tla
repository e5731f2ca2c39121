---------------------------- MODULE HostTransfer ----------------------------
(***************************************************************************)
(* Handing over the role of the main device: prepare, cancel, confirm,     *)
(* import and activate, on Windows (src/server.go) and Android             *)
(* (src/web/host.js), and the owner who carries the package file and the   *)
(* two codes from one device to the other.                                 *)
(*                                                                         *)
(* Each handler runs under the lock of its device and commits one patch,   *)
(* so it is one step; its answer may be lost.  The devices share nothing   *)
(* but the file and the codes.  Files can be opened late, again and, when  *)
(* CopiedFiles holds, on several devices.                                  *)
(***************************************************************************)
EXTENDS Integers, FiniteSets

CONSTANTS
    Devices,
    First,          \* where the warehouse was created
    Windows,        \* the devices that run server.go; the others run host.js
    CopiedFiles,    \* the owner opens the file of one transfer on several devices
    OldRelease,     \* the warehouse may come from release 1.2
    MaxTransfers,   \* bound on the transfers started
    MaxFacts        \* bound on the changes made

ASSUME TransferAssumption ==
    /\ First \in Devices
    /\ Windows \subseteq Devices
    /\ CopiedFiles \in BOOLEAN /\ OldRelease \in BOOLEAN
    /\ MaxTransfers \in Nat /\ MaxFacts \in Nat

VARIABLES
    status,      \* status[d], State.Host.Status, or "empty"
    epoch,       \* epoch[d], State.Host.Epoch
    transfer,    \* transfer[d], the id of State.Transfer, 0 for none
    facts,       \* facts[d], the changes the state of d contains
    unknown,     \* devices whose state has fields that server.go does not know
    packages,    \* the package files there are
    receipts,    \* transfers whose receipt code the owner has seen
    tokens,      \* transfers whose activation code the owner has seen
    started,     \* transfers started
    opened,      \* history variable: pairs of a transfer and a device that opened it
    acked        \* history variable: changes a client was told are done

vars == <<status, epoch, transfer, facts, unknown, packages, receipts, tokens,
          started, opened, acked>>

\* The receipt and the activation code of a transfer are random, so knowing
\* one of them is knowing which transfer it belongs to.
Fact == [kind : {"movement", "account"}, n : 1..MaxFacts]
Package == [version : {1, 2}, transfer : 0..MaxTransfers, epoch : Nat,
            facts : SUBSET Fact, unknown : BOOLEAN]

Statuses == {"empty", "active", "transfer_pending", "retired", "awaiting_activation"}

TypeOK ==
    /\ status \in [Devices -> Statuses]
    /\ epoch \in [Devices -> Nat]
    /\ transfer \in [Devices -> 0..MaxTransfers]
    /\ facts \in [Devices -> SUBSET Fact]
    /\ unknown \subseteq Devices
    /\ packages \subseteq Package
    /\ receipts \subseteq 1..MaxTransfers
    /\ tokens \subseteq 1..MaxTransfers
    /\ started \in 0..MaxTransfers
    /\ opened \subseteq (0..MaxTransfers) \X Devices
    /\ acked \subseteq Fact

OldPackage == [version |-> 1, transfer |-> 0, epoch |-> 2, facts |-> {}, unknown |-> FALSE]

\* A new warehouse, or one that release 1.2 has already handed over: it retired
\* the old device before it wrote the file.
Init ==
    /\ \/ /\ status = [d \in Devices |-> IF d = First THEN "active" ELSE "empty"]
          /\ packages = {}
       \/ /\ OldRelease
          /\ status = [d \in Devices |-> IF d = First THEN "retired" ELSE "empty"]
          /\ packages = {OldPackage}
    /\ epoch = [d \in Devices |-> IF d = First THEN 1 ELSE 0]
    /\ transfer = [d \in Devices |-> 0]
    /\ facts = [d \in Devices |-> {}]
    /\ unknown = {}
    /\ receipts = {}
    /\ tokens = {}
    /\ started = 0
    /\ opened = {}
    /\ acked = {}

-----------------------------------------------------------------------------
(* Changes.  prepare() refuses every command unless the host is active;    *)
(* /api/login, /api/join, /api/invite and /api/logout ask nothing.  An     *)
(* Android device stops its server when it is not active.                  *)

Made(d, kind) ==
    LET f == [kind |-> kind, n |-> Cardinality(UNION {facts[e] : e \in Devices} \cup acked) + 1] IN
    /\ f \in Fact
    /\ facts' = [facts EXCEPT ![d] = @ \cup {f}]
    /\ acked' = acked \cup {f}

\* Mutant of Works: changes go on while the transfer is pending.
WorksUntilRetired(d) == status[d] \in {"active", "transfer_pending"}

Works(d) == status[d] = "active"

\* D.execute leaves "version" and "localSeen" in the state of an Android host.
Command(d) ==
    /\ Works(d)
    /\ Made(d, "movement")
    /\ unknown' = IF d \in Windows THEN unknown ELSE unknown \cup {d}
    /\ UNCHANGED <<status, epoch, transfer, packages, receipts, tokens, started, opened>>

Join(d) ==
    /\ status[d] \in IF d \in Windows THEN {"active", "transfer_pending"} ELSE {"active"}
    /\ Made(d, "account")
    /\ UNCHANGED <<status, epoch, transfer, unknown, packages, receipts, tokens, started, opened>>

\* The program starts again; in load() of host.js normalizeHistory adds "version".
Restart(d) ==
    /\ status[d] # "empty"
    /\ unknown' = IF d \in Windows THEN unknown ELSE unknown \cup {d}
    /\ UNCHANGED <<status, epoch, transfer, facts, packages, receipts, tokens, started,
                   opened, acked>>

-----------------------------------------------------------------------------
(* The old device *)

\* Mutant of NextEpoch: the new device continues the old epoch.
SameEpoch(d) == epoch[d]

NextEpoch(d) == epoch[d] + 1

\* The file is lost when the answer is; the owner asks again while pending.
Emit(d, t) ==
    packages' \in {packages,
                   packages \cup {[version |-> 2, transfer |-> t, epoch |-> NextEpoch(d),
                                   facts |-> facts[d], unknown |-> d \in unknown]}}

Prepare(d) ==
    /\ status[d] = "active"
    /\ started < MaxTransfers
    /\ started' = started + 1
    /\ status' = [status EXCEPT ![d] = "transfer_pending"]
    /\ transfer' = [transfer EXCEPT ![d] = started + 1]
    /\ Emit(d, started + 1)
    /\ UNCHANGED <<epoch, facts, unknown, receipts, tokens, opened, acked>>

PrepareAgain(d) ==
    /\ status[d] = "transfer_pending"
    /\ Emit(d, transfer[d])
    /\ UNCHANGED <<status, epoch, transfer, facts, unknown, receipts, tokens, started,
                   opened, acked>>

Cancel(d) ==
    /\ status[d] = "transfer_pending"
    /\ status' = [status EXCEPT ![d] = "active"]
    /\ transfer' = [transfer EXCEPT ![d] = 0]
    /\ UNCHANGED <<epoch, facts, unknown, packages, receipts, tokens, started, opened, acked>>

\* Mutant of ReceiptFits: the receipt of an earlier transfer is accepted.
AnyReceipt(d) == receipts # {}

ReceiptFits(d) == transfer[d] \in receipts

Confirm(d) ==
    /\ status[d] = "transfer_pending"
    /\ ReceiptFits(d)
    /\ status' = [status EXCEPT ![d] = "retired"]
    /\ tokens' \in {tokens, tokens \cup {transfer[d]}}
    /\ UNCHANGED <<epoch, transfer, facts, unknown, packages, receipts, started, opened, acked>>

\* /api/transfer/status: the device that wrote the file has the activation code
\* from the start, and its answer carries it while the transfer is pending too.
StatusAnswer(d) ==
    [kind |-> status[d],
     code |-> IF status[d] \in {"transfer_pending", "retired"} THEN transfer[d] ELSE 0]

\* It is the page (transferStatusModal) that keeps the code back until the device
\* has retired, and shows it again then.
ShowToken(d) ==
    /\ StatusAnswer(d).kind = "retired" /\ StatusAnswer(d).code > 0
    /\ tokens' = tokens \cup {StatusAnswer(d).code}
    /\ UNCHANGED <<status, epoch, transfer, facts, unknown, packages, receipts, started,
                   opened, acked>>

-----------------------------------------------------------------------------
(* The new device *)

\* server.go decodes the package with DisallowUnknownFields.
Opens(d, p) ==
    /\ status[d] \in {"empty", "awaiting_activation"}
    /\ d \in Windows => ~p.unknown

OwnerOpens(d, p) ==
    ~CopiedFiles => \A o \in opened : o[1] = p.transfer => o[2] = d

\* Mutant of ReceiptOf: a package of release 1.2 has a receipt as well.
AlwaysReceipt(p) == {p.transfer}

ReceiptOf(p) == IF p.version = 1 THEN {} ELSE {p.transfer}

Import(d, p) ==
    /\ Opens(d, p)
    /\ OwnerOpens(d, p)
    /\ status' = [status EXCEPT ![d] = IF p.version = 1 THEN "active" ELSE "awaiting_activation"]
    /\ epoch' = [epoch EXCEPT ![d] = p.epoch]
    /\ transfer' = [transfer EXCEPT ![d] = p.transfer]
    /\ facts' = [facts EXCEPT ![d] = p.facts]
    /\ unknown' = IF d \in Windows THEN unknown ELSE unknown \cup {d}
    /\ receipts' = receipts \cup ReceiptOf(p)
    /\ opened' = opened \cup {<<p.transfer, d>>}
    /\ UNCHANGED <<packages, tokens, started, acked>>

\* Mutant of TokenFits: the receipt code is taken for the activation code.
ReceiptActivates(d) == transfer[d] \in receipts

TokenFits(d) == transfer[d] \in tokens

Activate(d) ==
    /\ status[d] = "awaiting_activation"
    /\ TokenFits(d)
    /\ status' = [status EXCEPT ![d] = "active"]
    /\ transfer' = [transfer EXCEPT ![d] = 0]
    /\ UNCHANGED <<epoch, facts, unknown, packages, receipts, tokens, started, opened, acked>>

-----------------------------------------------------------------------------

Next ==
    \E d \in Devices :
        \/ Command(d) \/ Join(d) \/ Restart(d)
        \/ Prepare(d) \/ PrepareAgain(d) \/ Cancel(d) \/ Confirm(d) \/ ShowToken(d)
        \/ \E p \in packages : Import(d, p)
        \/ Activate(d)

Spec == Init /\ [][Next]_vars

-----------------------------------------------------------------------------

Active == {d \in Devices : status[d] = "active"}

\* "There is always one active main device" (docs/АРХИТЕКТУРА.md:5): never two,
\* in whatever order files are opened and codes entered, cancelled or lost.
OneActive == Cardinality(Active) <= 1

\* A device that takes over has every movement a client was told is done, and
\* a package written before a cancelled transfer never becomes the warehouse.
MovementsSurvive ==
    \A d \in Active : {f \in acked : f.kind = "movement"} \subseteq facts[d]

\* Clients tell an old state from a new one by the epoch: the device in charge
\* has a greater one than every device that was in charge before it.
EpochsOrdered ==
    \A d, e \in Devices :
        status[d] = "active" /\ status[e] = "retired" => epoch[d] > epoch[e]

\* Some device works, or can be returned to work, or the transfer that retired
\* the last one can still be completed (docs/ВОССТАНОВЛЕНИЕ.md:66-68).
NeverStranded ==
    \/ \E d \in Devices : status[d] \in {"active", "transfer_pending"}
    \/ \E d \in Devices, e \in Devices, p \in packages :
          /\ status[d] = "retired" /\ p.transfer = transfer[d]
          /\ Opens(e, p) /\ OwnerOpens(e, p)
=============================================================================
