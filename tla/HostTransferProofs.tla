------------------------- MODULE HostTransferProofs -------------------------
(***************************************************************************)
(* As long as the owner opens the file of one transfer on one device,      *)
(* there is at most one active main device, its epoch is the latest and it *)
(* has all the movements, and there is always a way to have one again, for *)
(* any number of devices, transfers and changes.                           *)
(***************************************************************************)
EXTENDS HostTransfer, FiniteSetTheorems, TLAPS

\* A device that may still take over.
NotYet(d) == status[d] \in {"empty", "awaiting_activation"}

Holder(d) == status[d] \in {"active", "transfer_pending"}

\* A retired device whose warehouse nobody has taken over yet.
Unclaimed(d) ==
    /\ status[d] = "retired"
    /\ \A e \in Devices : <<transfer[d], e>> \in opened => NotYet(e)

\* The right to be the main device is in one place: at a device that holds it
\* or with the transfer that retired the last one.
OneClaim ==
    \A d, e \in Devices : (Holder(d) \/ Unclaimed(d)) /\ (Holder(e) \/ Unclaimed(e)) => d = e

OneOpener ==
    \A d, e \in Devices, t \in 0..MaxTransfers :
        <<t, d>> \in opened /\ <<t, e>> \in opened => d = e

TokensRetire ==
    \A t \in tokens : \E d \in Devices : status[d] = "retired" /\ transfer[d] = t

AwaitingOpened ==
    \A d \in Devices : status[d] = "awaiting_activation" => <<transfer[d], d>> \in opened

PendingStarted ==
    \A d \in Devices : status[d] = "transfer_pending" => transfer[d] \in 1..started

\* Who opened the file of a pending transfer has not become the main device.
PendingFresh ==
    \A d, e \in Devices :
        status[d] = "transfer_pending" /\ <<transfer[d], e>> \in opened => NotYet(e)

OldRetired ==
    \A p \in packages :
        /\ p.version = 1 => /\ p.transfer = 0
                            /\ \E d \in Devices : status[d] = "retired" /\ transfer[d] = 0
        /\ p.version = 2 => p.transfer > 0

StartedOnly ==
    /\ \A p \in packages : p.transfer <= started
    /\ \A d \in Devices, t \in 0..MaxTransfers : <<t, d>> \in opened => t <= started

\* What does not depend on the owner.
Paper ==
    TokensRetire /\ AwaitingOpened /\ PendingStarted /\ OldRetired /\ StartedOnly

PInv == TypeOK /\ Paper

Claims == OneClaim /\ OneOpener /\ PendingFresh

-----------------------------------------------------------------------------
(* Types, and what each step keeps whatever the owner does *)

LEMMA OldPackageType == OldPackage \in Package
  BY TransferAssumption DEF OldPackage, Package

LEMMA InitPInv == Init => PInv
<1> SUFFICES ASSUME Init PROVE PInv
  OBVIOUS
<1>1. First \in Devices /\ MaxTransfers \in Nat
  BY TransferAssumption
<1>2. status \in [Devices -> Statuses]
  BY DEF Init, Statuses
<1>3. packages \subseteq Package
  BY OldPackageType DEF Init
<1>4. TypeOK
  BY <1>1, <1>2, <1>3 DEF Init, TypeOK
<1>5. TokensRetire /\ AwaitingOpened /\ PendingStarted
  BY DEF Init, TokensRetire, AwaitingOpened, PendingStarted
<1>6. OldRetired
  <2>1. CASE packages = {}
    BY <2>1 DEF OldRetired
  <2>2. CASE /\ status = [d \in Devices |-> IF d = First THEN "retired" ELSE "empty"]
             /\ packages = {OldPackage}
    <3>1. status[First] = "retired" /\ transfer[First] = 0
      BY <1>1, <2>2 DEF Init
    <3>2. OldPackage.version = 1 /\ OldPackage.transfer = 0
      BY DEF OldPackage
    <3>3. QED
      BY <1>1, <2>2, <3>1, <3>2 DEF OldRetired
  <2>3. QED
    BY <2>1, <2>2 DEF Init
<1>7. StartedOnly
  <2>1. OldPackage.transfer = 0
    BY DEF OldPackage
  <2>2. QED
    BY <2>1 DEF Init, StartedOnly
<1>8. QED
  BY <1>4, <1>5, <1>6, <1>7 DEF PInv, Paper

\* Commands, joins and restarts do not touch the transfer.
LEMMA QuietPInv ==
    ASSUME PInv, TypeOK',
           UNCHANGED <<status, transfer, packages, tokens, started, opened>>
    PROVE  PInv'
  BY DEF PInv, Paper, TokensRetire, AwaitingOpened, PendingStarted, OldRetired, StartedOnly

LEMMA MadeType ==
    ASSUME TypeOK, NEW d \in Devices, NEW kind, Made(d, kind)
    PROVE  facts' \in [Devices -> SUBSET Fact] /\ acked' \subseteq Fact
  BY DEF TypeOK, Made

LEMMA CommandPInv == ASSUME PInv, NEW d \in Devices, Command(d) PROVE PInv'
<1>1. TypeOK'
  BY MadeType DEF PInv, Command, TypeOK
<1>2. QED
  BY <1>1, QuietPInv DEF Command

LEMMA JoinPInv == ASSUME PInv, NEW d \in Devices, Join(d) PROVE PInv'
<1>1. TypeOK'
  BY MadeType DEF PInv, Join, TypeOK
<1>2. QED
  BY <1>1, QuietPInv DEF Join

LEMMA RestartPInv == ASSUME PInv, NEW d \in Devices, Restart(d) PROVE PInv'
<1>1. TypeOK'
  BY DEF PInv, Restart, TypeOK
<1>2. QED
  BY <1>1, QuietPInv DEF Restart

\* A package that is written is one of release 2.0.
LEMMA EmitType ==
    ASSUME TypeOK, NEW d \in Devices, NEW t \in 1..MaxTransfers, Emit(d, t)
    PROVE  /\ packages' \subseteq Package
           /\ \A p \in packages' : p \in packages \/ (p.version = 2 /\ p.transfer = t)
<1> DEFINE new == [version |-> 2, transfer |-> t, epoch |-> NextEpoch(d),
                   facts |-> facts[d], unknown |-> d \in unknown]
<1>1. epoch[d] + 1 \in Nat /\ facts[d] \in SUBSET Fact /\ (d \in unknown) \in BOOLEAN
  BY DEF TypeOK
<1>2. t \in 0..MaxTransfers
  BY TransferAssumption
<1>3. new \in Package
  BY <1>1, <1>2 DEF Package, NextEpoch
<1>4. new.version = 2 /\ new.transfer = t
  OBVIOUS
<1>5. packages' \in {packages, packages \cup {new}}
  BY DEF Emit
<1> HIDE DEF new
<1>6. QED
  BY <1>3, <1>4, <1>5 DEF TypeOK

LEMMA PreparePInv == ASSUME PInv, NEW d \in Devices, Prepare(d) PROVE PInv'
<1> DEFINE t == started + 1
<1>1. started \in Nat /\ t \in 1..MaxTransfers /\ started' = t /\ MaxTransfers \in Nat
  BY TransferAssumption DEF PInv, TypeOK, Prepare
<1>2. packages' \subseteq Package
      /\ \A p \in packages' : p \in packages \/ (p.version = 2 /\ p.transfer = t)
  BY <1>1, EmitType DEF PInv, Prepare
<1>3. status' = [status EXCEPT ![d] = "transfer_pending"] /\ transfer' = [transfer EXCEPT ![d] = t]
      /\ status[d] = "active" /\ UNCHANGED <<tokens, opened, receipts, epoch, facts, unknown, acked>>
  BY DEF Prepare
<1> HIDE DEF t
<1>4. TypeOK'
  BY <1>1, <1>2, <1>3 DEF PInv, TypeOK, Statuses
<1>5. TokensRetire'
  BY <1>3 DEF PInv, TypeOK, Paper, TokensRetire
<1>6. AwaitingOpened'
  BY <1>3 DEF PInv, TypeOK, Paper, AwaitingOpened
<1>7. PendingStarted'
  BY <1>1, <1>3 DEF PInv, TypeOK, Paper, PendingStarted, t
<1>8. OldRetired'
  BY <1>1, <1>2, <1>3 DEF PInv, TypeOK, Paper, OldRetired
<1>9. StartedOnly'
  <2>1. \A p \in packages : p.transfer \in Nat
    BY DEF PInv, TypeOK, Package
  <2>2. QED
    BY <1>1, <1>2, <1>3, <2>1 DEF PInv, TypeOK, Paper, StartedOnly, t
<1>10. QED
  BY <1>4, <1>5, <1>6, <1>7, <1>8, <1>9 DEF PInv, Paper

LEMMA PrepareAgainPInv == ASSUME PInv, NEW d \in Devices, PrepareAgain(d) PROVE PInv'
<1>1. transfer[d] \in 1..started /\ started \in 0..MaxTransfers
  BY DEF PInv, Paper, PendingStarted, PrepareAgain, TypeOK
<1>2. transfer[d] \in 1..MaxTransfers
  BY <1>1, TransferAssumption
<1>3. packages' \subseteq Package
      /\ \A p \in packages' : p \in packages \/ (p.version = 2 /\ p.transfer = transfer[d])
  BY <1>2, EmitType DEF PInv, PrepareAgain
<1>4. TypeOK'
  BY <1>3 DEF PInv, TypeOK, PrepareAgain
<1>5. TokensRetire' /\ AwaitingOpened' /\ PendingStarted'
  BY DEF PInv, Paper, TokensRetire, AwaitingOpened, PendingStarted, PrepareAgain
<1>6. OldRetired'
  BY <1>2, <1>3 DEF PInv, Paper, OldRetired, PrepareAgain
<1>7. StartedOnly'
  BY <1>1, <1>3 DEF PInv, Paper, StartedOnly, PrepareAgain
<1>8. QED
  BY <1>4, <1>5, <1>6, <1>7 DEF PInv, Paper

LEMMA CancelPInv == ASSUME PInv, NEW d \in Devices, Cancel(d) PROVE PInv'
<1>1. TypeOK'
  BY TransferAssumption DEF PInv, TypeOK, Cancel, Statuses
<1>2. TokensRetire' /\ AwaitingOpened' /\ PendingStarted'
  BY DEF PInv, TypeOK, Paper, TokensRetire, AwaitingOpened, PendingStarted, Cancel
<1>3. OldRetired' /\ StartedOnly'
  BY DEF PInv, TypeOK, Paper, OldRetired, StartedOnly, Cancel
<1>4. QED
  BY <1>1, <1>2, <1>3 DEF PInv, Paper

LEMMA ConfirmPInv == ASSUME PInv, NEW d \in Devices, Confirm(d) PROVE PInv'
<1>1. transfer[d] \in 1..started /\ started \in 0..MaxTransfers
  BY DEF PInv, Paper, PendingStarted, Confirm, TypeOK
<1>2. transfer[d] \in 1..MaxTransfers
  BY <1>1, TransferAssumption
<1>3. TypeOK'
  BY <1>2 DEF PInv, TypeOK, Confirm, Statuses
<1>4. TokensRetire'
  BY DEF PInv, TypeOK, Paper, TokensRetire, Confirm
<1>5. AwaitingOpened' /\ PendingStarted'
  BY DEF PInv, TypeOK, Paper, AwaitingOpened, PendingStarted, Confirm
<1>6. OldRetired' /\ StartedOnly'
  BY DEF PInv, TypeOK, Paper, OldRetired, StartedOnly, Confirm
<1>7. QED
  BY <1>3, <1>4, <1>5, <1>6 DEF PInv, Paper

LEMMA ShowTokenPInv == ASSUME PInv, NEW d \in Devices, ShowToken(d) PROVE PInv'
<1>1. transfer[d] \in 1..MaxTransfers
  BY TransferAssumption DEF PInv, TypeOK, ShowToken, StatusAnswer
<1>2. TypeOK'
  BY <1>1 DEF PInv, TypeOK, ShowToken, StatusAnswer
<1>3. TokensRetire'
  BY DEF PInv, Paper, TokensRetire, ShowToken, StatusAnswer
<1>4. AwaitingOpened' /\ PendingStarted' /\ OldRetired' /\ StartedOnly'
  BY DEF PInv, Paper, AwaitingOpened, PendingStarted, OldRetired, StartedOnly, ShowToken, StatusAnswer
<1>5. QED
  BY <1>2, <1>3, <1>4 DEF PInv, Paper

LEMMA ImportPInv ==
    ASSUME PInv, NEW d \in Devices, NEW p \in packages, Import(d, p)
    PROVE  PInv'
<1>1. /\ p.version \in {1, 2} /\ p.transfer \in 0..MaxTransfers /\ p.epoch \in Nat
      /\ p.facts \in SUBSET Fact
  BY DEF PInv, TypeOK, Package
<1>2. /\ p.version = 1 => p.transfer = 0
      /\ p.version = 2 => p.transfer > 0
      /\ p.transfer <= started
  BY DEF PInv, Paper, OldRetired, StartedOnly
<1>3. status[d] \in {"empty", "awaiting_activation"}
  BY DEF Import, Opens
<1>4. status' = [status EXCEPT ![d] = IF p.version = 1 THEN "active" ELSE "awaiting_activation"]
      /\ transfer' = [transfer EXCEPT ![d] = p.transfer]
      /\ opened' = opened \cup {<<p.transfer, d>>}
      /\ UNCHANGED <<packages, tokens, started>>
  BY DEF Import
<1>5. TypeOK'
  <2>1. ReceiptOf(p) \subseteq 1..MaxTransfers
    BY <1>1, <1>2, TransferAssumption DEF ReceiptOf
  <2>2. status' \in [Devices -> Statuses] /\ transfer' \in [Devices -> 0..MaxTransfers]
    BY <1>1, <1>4 DEF PInv, TypeOK, Statuses
  <2>3. facts' \in [Devices -> SUBSET Fact] /\ epoch' \in [Devices -> Nat]
    BY <1>1 DEF PInv, TypeOK, Import
  <2>4. unknown' \subseteq Devices
    BY DEF PInv, TypeOK, Import
  <2>5. opened' \subseteq (0..MaxTransfers) \X Devices
    BY <1>1, <1>4 DEF PInv, TypeOK
  <2>6. QED
    BY <2>1, <2>2, <2>3, <2>4, <2>5 DEF PInv, TypeOK, Import
<1>6. TokensRetire'
  BY <1>3, <1>4 DEF PInv, TypeOK, Paper, TokensRetire
<1>7. AwaitingOpened'
  BY <1>4 DEF PInv, TypeOK, Paper, AwaitingOpened
<1>8. PendingStarted'
  BY <1>4 DEF PInv, TypeOK, Paper, PendingStarted
<1>9. OldRetired'
  BY <1>3, <1>4 DEF PInv, TypeOK, Paper, OldRetired
<1>10. StartedOnly'
  BY <1>2, <1>4 DEF PInv, Paper, StartedOnly
<1>11. QED
  BY <1>5, <1>6, <1>7, <1>8, <1>9, <1>10 DEF PInv, Paper

LEMMA ActivatePInv == ASSUME PInv, NEW d \in Devices, Activate(d) PROVE PInv'
<1>1. TypeOK'
  BY TransferAssumption DEF PInv, TypeOK, Activate, Statuses
<1>2. TokensRetire' /\ AwaitingOpened' /\ PendingStarted'
  BY DEF PInv, TypeOK, Paper, TokensRetire, AwaitingOpened, PendingStarted, Activate
<1>3. OldRetired' /\ StartedOnly'
  BY DEF PInv, TypeOK, Paper, OldRetired, StartedOnly, Activate
<1>4. QED
  BY <1>1, <1>2, <1>3 DEF PInv, Paper

LEMMA NextPInv == PInv /\ [Next]_vars => PInv'
<1> SUFFICES ASSUME PInv, [Next]_vars PROVE PInv'
  OBVIOUS
<1>1. ASSUME NEW d \in Devices, Command(d) \/ Join(d) \/ Restart(d) PROVE PInv'
  BY <1>1, CommandPInv, JoinPInv, RestartPInv
<1>2. ASSUME NEW d \in Devices, Prepare(d) \/ PrepareAgain(d) PROVE PInv'
  BY <1>2, PreparePInv, PrepareAgainPInv
<1>3. ASSUME NEW d \in Devices, Cancel(d) \/ Confirm(d) \/ ShowToken(d) PROVE PInv'
  BY <1>3, CancelPInv, ConfirmPInv, ShowTokenPInv
<1>4. ASSUME NEW d \in Devices, NEW p \in packages, Import(d, p) PROVE PInv'
  BY <1>4, ImportPInv
<1>5. ASSUME NEW d \in Devices, Activate(d) PROVE PInv'
  BY <1>5, ActivatePInv
<1>6. CASE UNCHANGED vars
  <2>1. TypeOK'
    BY <1>6 DEF PInv, TypeOK, vars
  <2>2. QED
    BY <1>6, <2>1, QuietPInv DEF vars
<1>7. QED
  BY <1>1, <1>2, <1>3, <1>4, <1>5, <1>6 DEF Next

\* Every variable of the transfer keeps its type, for any number of devices,
\* transfers and changes: each code the owner sees is one of a transfer that
\* was started (server.go:1442-1713).
THEOREM TransferTypes == Spec => []TypeOK
<1>1. Spec => []PInv
  BY InitPInv, NextPInv, PTL DEF Spec
<1>2. PInv => TypeOK
  BY DEF PInv
<1>3. QED
  BY <1>1, <1>2, PTL

-----------------------------------------------------------------------------
(* The one claim to be the main device *)

CInv == PInv /\ Claims

LEMMA InitClaims == Init => Claims
<1> SUFFICES ASSUME Init PROVE Claims
  OBVIOUS
<1>1. \A d \in Devices : d # First => status[d] = "empty"
  BY DEF Init
<1>2. OneClaim
  BY <1>1 DEF OneClaim, Holder, Unclaimed
<1>3. OneOpener /\ PendingFresh
  BY DEF Init, OneOpener, PendingFresh
<1>4. QED
  BY <1>2, <1>3 DEF Claims

\* Steps that change no status and open no file.
LEMMA QuietClaims ==
    ASSUME Claims, UNCHANGED <<status, transfer, opened>>
    PROVE  Claims'
  BY DEF Claims, OneClaim, OneOpener, PendingFresh, Holder, Unclaimed, NotYet

LEMMA PrepareClaims == ASSUME CInv, NEW d \in Devices, Prepare(d) PROVE Claims'
<1> DEFINE t == started + 1
<1>1. started \in Nat /\ t \in 0..MaxTransfers
  BY TransferAssumption DEF CInv, PInv, TypeOK, Prepare
<1>2. /\ status' = [status EXCEPT ![d] = "transfer_pending"]
      /\ transfer' = [transfer EXCEPT ![d] = t]
      /\ status[d] = "active" /\ opened' = opened
  BY DEF Prepare
<1>3. \A e \in Devices : <<t, e>> \notin opened
  BY <1>1 DEF CInv, PInv, Paper, StartedOnly
<1> HIDE DEF t
<1>4. \A e \in Devices : NotYet(e)' <=> NotYet(e)
  BY <1>2 DEF CInv, PInv, TypeOK, NotYet
<1>5. \A e \in Devices : (Holder(e) \/ Unclaimed(e))' => Holder(e) \/ Unclaimed(e)
  BY <1>2, <1>4 DEF CInv, PInv, TypeOK, Holder, Unclaimed
<1>6. OneClaim'
  BY <1>5 DEF CInv, Claims, OneClaim
<1>7. OneOpener'
  BY <1>2 DEF CInv, Claims, OneOpener
<1>8. PendingFresh'
  BY <1>2, <1>3, <1>4 DEF CInv, PInv, TypeOK, Claims, PendingFresh
<1>9. QED
  BY <1>6, <1>7, <1>8 DEF Claims

LEMMA CancelClaims == ASSUME CInv, NEW d \in Devices, Cancel(d) PROVE Claims'
<1>1. \A e \in Devices : NotYet(e)' <=> NotYet(e)
  BY DEF CInv, PInv, TypeOK, NotYet, Cancel
<1>2. \A e \in Devices : (Holder(e) \/ Unclaimed(e))' => Holder(e) \/ Unclaimed(e)
  BY <1>1 DEF CInv, PInv, TypeOK, Holder, Unclaimed, Cancel
<1>3. OneClaim' /\ OneOpener'
  BY <1>2 DEF CInv, Claims, OneClaim, OneOpener, Cancel
<1>4. PendingFresh'
  BY <1>1 DEF CInv, PInv, TypeOK, Claims, PendingFresh, Cancel
<1>5. QED
  BY <1>3, <1>4 DEF Claims

\* The claim passes from the device to the transfer it retires with.
LEMMA ConfirmClaims == ASSUME CInv, NEW d \in Devices, Confirm(d) PROVE Claims'
<1>1. \A e \in Devices : NotYet(e)' <=> NotYet(e)
  BY DEF CInv, PInv, TypeOK, NotYet, Confirm
<1>2. \A e \in Devices : (Holder(e) \/ Unclaimed(e))' => Holder(e) \/ Unclaimed(e)
  BY <1>1 DEF CInv, PInv, TypeOK, Holder, Unclaimed, Confirm
<1>3. OneClaim' /\ OneOpener'
  BY <1>2 DEF CInv, Claims, OneClaim, OneOpener, Confirm
<1>4. PendingFresh'
  BY <1>1 DEF CInv, PInv, TypeOK, Claims, PendingFresh, Confirm
<1>5. QED
  BY <1>3, <1>4 DEF Claims

\* The owner opens the file of one transfer on one device.
LEMMA ImportOpens ==
    ASSUME CInv, ~CopiedFiles, NEW d \in Devices, NEW p \in packages, Import(d, p)
    PROVE  /\ \A e \in Devices : <<p.transfer, e>> \in opened => e = d
           /\ OneOpener'
<1>1. p.transfer \in 0..MaxTransfers
  BY DEF CInv, PInv, TypeOK, Package
<1>2. \A o \in opened : o[1] = p.transfer => o[2] = d
  BY DEF Import, OwnerOpens
<1>3. \A e \in Devices : <<p.transfer, e>> \in opened => e = d
  BY <1>2
<1>4. QED
  BY <1>1, <1>3 DEF CInv, Claims, OneOpener, Import

LEMMA ImportKeeps ==
    ASSUME CInv, NEW d \in Devices, NEW p \in packages, Import(d, p)
    PROVE  /\ status' = [status EXCEPT ![d] = IF p.version = 1 THEN "active"
                                                            ELSE "awaiting_activation"]
           /\ transfer' = [transfer EXCEPT ![d] = p.transfer]
           /\ opened' = opened \cup {<<p.transfer, d>>}
           /\ NotYet(d)
           /\ p.version \in {1, 2} /\ p.transfer \in 0..MaxTransfers
           /\ \A e \in Devices : Unclaimed(e)' => Unclaimed(e)
<1>1. /\ status' = [status EXCEPT ![d] = IF p.version = 1 THEN "active" ELSE "awaiting_activation"]
      /\ transfer' = [transfer EXCEPT ![d] = p.transfer]
      /\ opened' = opened \cup {<<p.transfer, d>>}
      /\ NotYet(d)
  BY DEF Import, Opens, NotYet
<1>2. p.version \in {1, 2} /\ p.transfer \in 0..MaxTransfers
  BY DEF CInv, PInv, TypeOK, Package
<1>3. \A e \in Devices : NotYet(e)' => NotYet(e)
  BY <1>1 DEF CInv, PInv, TypeOK, NotYet
<1>4. \A e \in Devices : Unclaimed(e)' => Unclaimed(e)
  BY <1>1, <1>3 DEF CInv, PInv, TypeOK, Unclaimed, NotYet
<1>5. QED
  BY <1>1, <1>2, <1>4

\* A package of release 1.2 takes the claim of the device that wrote it.
LEMMA ImportOldTakes ==
    ASSUME CInv, ~CopiedFiles, NEW d \in Devices, NEW p \in packages, Import(d, p),
           p.version = 1
    PROVE  /\ p.transfer = 0
           /\ \E r \in Devices : Unclaimed(r) /\ transfer[r] = 0
           /\ \A e \in Devices : (Holder(e) \/ Unclaimed(e))' => e = d
<1>1. PICK r \in Devices : status[r] = "retired" /\ transfer[r] = 0 /\ p.transfer = 0
  BY DEF CInv, PInv, Paper, OldRetired
<1>2. Unclaimed(r)
  BY <1>1, ImportOpens, ImportKeeps DEF Unclaimed
<1>3. \A e \in Devices : Holder(e) \/ Unclaimed(e) => e = r
  BY <1>2 DEF CInv, Claims, OneClaim
<1>4. status'[d] = "active" /\ ~Unclaimed(r)'
  <2>1. /\ status' = [status EXCEPT ![d] = "active"]
        /\ transfer' = [transfer EXCEPT ![d] = 0]
        /\ <<0, d>> \in opened'
    BY <1>1, ImportKeeps
  <2>2. status'[d] = "active" /\ transfer'[r] = 0
    BY <1>1, <2>1 DEF CInv, PInv, TypeOK
  <2>3. QED
    BY <2>1, <2>2 DEF Unclaimed, NotYet
<1>5. ASSUME NEW e \in Devices, e # d, Holder(e)' PROVE FALSE
  BY <1>1, <1>3, <1>5, ImportKeeps DEF CInv, PInv, TypeOK, Holder
<1>6. ASSUME NEW e \in Devices, e # d, Unclaimed(e)' PROVE FALSE
  BY <1>3, <1>4, <1>6, ImportKeeps
<1>7. QED
  BY <1>1, <1>2, <1>5, <1>6

LEMMA ImportClaims ==
    ASSUME CInv, ~CopiedFiles, NEW d \in Devices, NEW p \in packages, Import(d, p)
    PROVE  Claims'
<1>1. CASE p.version = 2
  <2>1. NotYet(d)'
    BY <1>1, ImportKeeps DEF CInv, PInv, TypeOK, NotYet
  <2>2. \A e \in Devices : NotYet(e)' <=> NotYet(e)
    BY <2>1, ImportKeeps DEF CInv, PInv, TypeOK, NotYet
  <2>3. \A e \in Devices : Holder(e)' => Holder(e)
    BY <1>1, ImportKeeps DEF CInv, PInv, TypeOK, Holder
  <2>4. OneClaim'
    BY <2>3, ImportKeeps DEF CInv, Claims, OneClaim
  <2>5. PendingFresh'
    BY <1>1, <2>1, <2>2, ImportKeeps DEF CInv, PInv, TypeOK, Claims, PendingFresh
  <2>6. QED
    BY <2>4, <2>5, ImportOpens DEF Claims
<1>2. CASE p.version = 1
  <2>1. OneClaim'
    BY <1>2, ImportOldTakes DEF OneClaim
  <2>2. status'[d] = "active"
    BY <1>2, ImportKeeps DEF CInv, PInv, TypeOK
  <2>3. PendingFresh'
    BY <1>2, <2>2, ImportOldTakes DEF PendingFresh, Holder
  <2>4. QED
    BY <2>1, <2>3, ImportOpens DEF Claims
<1>3. QED
  BY <1>1, <1>2, ImportKeeps

\* The claim passes from the transfer to the device that opened its file.
LEMMA ActivateTakes ==
    ASSUME CInv, NEW d \in Devices, Activate(d)
    PROVE  /\ \E r \in Devices : Unclaimed(r) /\ transfer[r] = transfer[d]
           /\ \A e \in Devices : (Holder(e) \/ Unclaimed(e))' => e = d
<1>1. /\ status' = [status EXCEPT ![d] = "active"]
      /\ transfer' = [transfer EXCEPT ![d] = 0]
      /\ opened' = opened /\ status[d] = "awaiting_activation"
      /\ transfer[d] \in tokens
  BY DEF Activate, TokenFits
<1>2. transfer[d] \in 0..MaxTransfers /\ <<transfer[d], d>> \in opened
  BY <1>1 DEF CInv, PInv, TypeOK, Paper, AwaitingOpened
<1>3. PICK r \in Devices : status[r] = "retired" /\ transfer[r] = transfer[d]
  BY <1>1 DEF CInv, PInv, Paper, TokensRetire
<1>4. \A e \in Devices : <<transfer[r], e>> \in opened => e = d
  BY <1>2, <1>3 DEF CInv, Claims, OneOpener
<1>5. Unclaimed(r)
  BY <1>1, <1>3, <1>4 DEF Unclaimed, NotYet
<1>6. \A e \in Devices : Holder(e) \/ Unclaimed(e) => e = r
  BY <1>5 DEF CInv, Claims, OneClaim
<1>7. r # d /\ ~Unclaimed(r)'
  BY <1>1, <1>2, <1>3 DEF CInv, PInv, TypeOK, Unclaimed, NotYet
<1>8. ASSUME NEW e \in Devices, e # d, Holder(e)' PROVE FALSE
  BY <1>1, <1>3, <1>6, <1>8 DEF CInv, PInv, TypeOK, Holder
<1>9. ASSUME NEW e \in Devices, e # d, Unclaimed(e)' PROVE FALSE
  <2>1. Unclaimed(e)
    BY <1>1, <1>9 DEF CInv, PInv, TypeOK, Unclaimed, NotYet
  <2>2. QED
    BY <1>6, <1>7, <1>9, <2>1
<1>10. QED
  BY <1>3, <1>5, <1>8, <1>9

LEMMA ActivateClaims == ASSUME CInv, NEW d \in Devices, Activate(d) PROVE Claims'
<1>1. OneClaim'
  BY ActivateTakes DEF OneClaim
<1>2. OneOpener'
  BY DEF CInv, Claims, OneOpener, Activate
<1>3. status'[d] = "active"
  BY DEF CInv, PInv, TypeOK, Activate
<1>4. PendingFresh'
  BY <1>3, ActivateTakes DEF PendingFresh, Holder
<1>5. QED
  BY <1>1, <1>2, <1>4 DEF Claims

LEMMA NextClaims == ASSUME ~CopiedFiles PROVE CInv /\ [Next]_vars => CInv'
<1> SUFFICES ASSUME CInv, [Next]_vars PROVE Claims'
  BY NextPInv DEF CInv
<1>1. ASSUME NEW d \in Devices, Command(d) \/ Join(d) \/ Restart(d) PROVE Claims'
  BY <1>1, QuietClaims DEF CInv, Command, Join, Restart
<1>2. ASSUME NEW d \in Devices, Prepare(d) PROVE Claims'
  BY <1>2, PrepareClaims
<1>3. ASSUME NEW d \in Devices, PrepareAgain(d) \/ ShowToken(d) PROVE Claims'
  BY <1>3, QuietClaims DEF CInv, PrepareAgain, ShowToken, StatusAnswer
<1>4. ASSUME NEW d \in Devices, Cancel(d) \/ Confirm(d) PROVE Claims'
  BY <1>4, CancelClaims, ConfirmClaims
<1>5. ASSUME NEW d \in Devices, NEW p \in packages, Import(d, p) PROVE Claims'
  BY <1>5, ImportClaims
<1>6. ASSUME NEW d \in Devices, Activate(d) PROVE Claims'
  BY <1>6, ActivateClaims
<1>7. CASE UNCHANGED vars
  BY <1>7, QuietClaims DEF CInv, vars
<1>8. QED
  BY <1>1, <1>2, <1>3, <1>4, <1>5, <1>6, <1>7 DEF Next

LEMMA AlwaysCInv == ASSUME ~CopiedFiles PROVE Spec => []CInv
<1>1. Init => CInv
  BY InitPInv, InitClaims DEF CInv
<1>2. CInv /\ [Next]_vars => CInv'
  BY NextClaims
<1>3. QED
  BY <1>1, <1>2, PTL DEF Spec

\* If the owner opens the file of one transfer on one device, there are never
\* two active main devices: for any number of devices and transfers, whatever
\* is cancelled, lost, opened late or again, and with a package of release 1.2
\* (docs/АРХИТЕКТУРА.md:5).
THEOREM NeverTwoActive == ASSUME ~CopiedFiles PROVE Spec => []OneActive
<1>1. Spec => []CInv
  BY AlwaysCInv
<1>2. CInv => OneActive
  <2> SUFFICES ASSUME CInv PROVE OneActive
    OBVIOUS
  <2>1. \A d, e \in Active : d = e
    BY DEF CInv, Claims, OneClaim, Holder, Active
  <2>2. CASE Active = {}
    BY <2>2, FS_EmptySet DEF OneActive
  <2>3. CASE Active # {}
    <3>1. PICK d \in Active : TRUE
      BY <2>3
    <3>2. Active = {d}
      BY <2>1, <3>1
    <3>3. QED
      BY <3>2, FS_Singleton DEF OneActive
  <2>4. QED
    BY <2>2, <2>3
<1>3. QED
  BY <1>1, <1>2, PTL

-----------------------------------------------------------------------------
(* Epochs *)

\* The device that wrote, or could still write, the package of its transfer.
Writer(d) == status[d] \in {"transfer_pending", "retired"}

HolderLatest ==
    \A d, e \in Devices : Holder(d) /\ status[e] = "retired" => epoch[d] > epoch[e]

UnclaimedLatest ==
    \A d, e \in Devices : Unclaimed(d) /\ status[e] = "retired" => epoch[d] >= epoch[e]

PackageEpoch ==
    \A p \in packages : \A d \in Devices :
        Writer(d) /\ transfer[d] = p.transfer => p.epoch = epoch[d] + 1

AwaitingEpoch ==
    \A d, e \in Devices :
        status[d] = "awaiting_activation" /\ Writer(e) /\ transfer[d] = transfer[e]
            => epoch[d] = epoch[e] + 1

OneWriter ==
    /\ \A d \in Devices : transfer[d] <= started
    /\ \A d, e \in Devices : Writer(d) /\ Writer(e) /\ transfer[d] = transfer[e] => d = e

Epochs == HolderLatest /\ UnclaimedLatest /\ PackageEpoch /\ AwaitingEpoch

WInv == CInv /\ OneWriter

LEMMA InitOneWriter == Init => OneWriter
  BY DEF Init, OneWriter, Writer

LEMMA NextOneWriter == PInv /\ OneWriter /\ [Next]_vars => OneWriter'
<1> SUFFICES ASSUME PInv, OneWriter, [Next]_vars PROVE OneWriter'
  OBVIOUS
<1>0. started \in Nat /\ \A d \in Devices : transfer[d] \in Nat
  BY TransferAssumption DEF PInv, TypeOK
<1>1. ASSUME UNCHANGED <<status, transfer, started>> PROVE OneWriter'
  BY <1>1 DEF OneWriter, Writer
<1>2. ASSUME NEW d \in Devices, Command(d) \/ Join(d) \/ Restart(d) PROVE OneWriter'
  BY <1>1, <1>2 DEF Command, Join, Restart
<1>3. ASSUME NEW d \in Devices, PrepareAgain(d) \/ ShowToken(d) PROVE OneWriter'
  BY <1>1, <1>3 DEF PrepareAgain, ShowToken, StatusAnswer
<1>4. ASSUME NEW d \in Devices, Prepare(d) PROVE OneWriter'
  BY <1>0, <1>4 DEF PInv, TypeOK, OneWriter, Writer, Prepare
<1>5. ASSUME NEW d \in Devices, Cancel(d) PROVE OneWriter'
  BY <1>0, <1>5 DEF PInv, TypeOK, OneWriter, Writer, Cancel
<1>6. ASSUME NEW d \in Devices, Confirm(d) PROVE OneWriter'
  BY <1>6 DEF PInv, TypeOK, OneWriter, Writer, Confirm
<1>7. ASSUME NEW d \in Devices, NEW p \in packages, Import(d, p) PROVE OneWriter'
  <2>1. p.transfer <= started
    BY DEF PInv, Paper, StartedOnly
  <2>2. status'[d] \in {"active", "awaiting_activation"}
    BY <1>7 DEF PInv, TypeOK, Import
  <2>3. \A e \in Devices \ {d} : status'[e] = status[e] /\ transfer'[e] = transfer[e]
    BY <1>7 DEF PInv, TypeOK, Import
  <2>4. transfer'[d] = p.transfer /\ started' = started
    BY <1>7 DEF PInv, TypeOK, Import
  <2>5. QED
    BY <2>1, <2>2, <2>3, <2>4 DEF OneWriter, Writer
<1>8. ASSUME NEW d \in Devices, Activate(d) PROVE OneWriter'
  BY <1>0, <1>8 DEF PInv, TypeOK, OneWriter, Writer, Activate
<1>9. QED
  BY <1>1, <1>2, <1>3, <1>4, <1>5, <1>6, <1>7, <1>8 DEF Next, vars

LEMMA AlwaysWInv == ASSUME ~CopiedFiles PROVE Spec => []WInv
<1>1. Init => WInv
  BY InitPInv, InitClaims, InitOneWriter DEF WInv, CInv
<1>2. WInv /\ [Next]_vars => WInv'
  BY NextClaims, NextOneWriter DEF WInv, CInv
<1>3. QED
  BY <1>1, <1>2, PTL DEF Spec

LEMMA InitEpochs == Init => Epochs
<1> SUFFICES ASSUME Init PROVE Epochs
  OBVIOUS
<1>1. HolderLatest /\ UnclaimedLatest /\ AwaitingEpoch
  BY DEF Init, HolderLatest, UnclaimedLatest, AwaitingEpoch, Holder, Unclaimed
<1>2. PackageEpoch
  <2>1. OldPackage.epoch = 2
    BY DEF OldPackage
  <2>2. QED
    BY <2>1 DEF Init, PackageEpoch, Writer
<1>3. QED
  BY <1>1, <1>2 DEF Epochs

LEMMA QuietEpochs ==
    ASSUME Epochs, UNCHANGED <<status, transfer, opened, epoch, packages>>
    PROVE  Epochs'
  BY DEF Epochs, HolderLatest, UnclaimedLatest, PackageEpoch, AwaitingEpoch, Holder,
         Unclaimed, NotYet, Writer

LEMMA EmitEpochs ==
    ASSUME WInv, WInv', Epochs, NEW d \in Devices, NEW t \in Nat,
           Emit(d, t), UNCHANGED epoch, Writer(d)', transfer'[d] = t,
           \A p \in packages : p.transfer = t => Writer(d) /\ transfer[d] = t,
           \A e \in Devices \ {d} : Writer(e)' => Writer(e) /\ transfer'[e] = transfer[e]
    PROVE  PackageEpoch'
<1>1. ASSUME NEW p \in packages', NEW e \in Devices, Writer(e)', transfer'[e] = p.transfer
      PROVE  p.epoch = epoch[e] + 1
  <2>1. CASE p \in packages
    BY <1>1, <2>1 DEF Epochs, PackageEpoch
  <2>2. CASE p \notin packages
    <3>1. p.transfer = t /\ p.epoch = epoch[d] + 1
      BY <1>1, <2>2 DEF Emit, NextEpoch
    <3>2. e = d
      BY <1>1, <3>1 DEF WInv, OneWriter
    <3>3. QED
      BY <3>1, <3>2
  <2>3. QED
    BY <2>1, <2>2
<1>2. QED
  BY <1>1 DEF PackageEpoch

LEMMA PrepareEpochs ==
    ASSUME WInv, WInv', Epochs, NEW d \in Devices, Prepare(d)
    PROVE  Epochs'
<1> DEFINE t == started + 1
<1>1. started \in Nat /\ t \in Nat /\ \A e \in Devices : transfer[e] \in Nat /\ transfer[e] # t
  BY TransferAssumption DEF WInv, CInv, PInv, TypeOK, OneWriter
<1>2. /\ status' = [status EXCEPT ![d] = "transfer_pending"]
      /\ transfer' = [transfer EXCEPT ![d] = t]
      /\ status[d] = "active" /\ UNCHANGED <<opened, epoch>>
      /\ Emit(d, t)
  BY DEF Prepare
<1>3. \A p \in packages : p.transfer # t
  <2>1. \A p \in packages : p.transfer \in Nat /\ p.transfer <= started
    BY DEF WInv, CInv, PInv, TypeOK, Paper, StartedOnly, Package
  <2>2. QED
    BY <1>1, <2>1
<1> HIDE DEF t
<1>4. \A e \in Devices \ {d} : status'[e] = status[e] /\ transfer'[e] = transfer[e]
  BY <1>2 DEF WInv, CInv, PInv, TypeOK
<1>5. status'[d] = "transfer_pending" /\ transfer'[d] = t
  BY <1>2 DEF WInv, CInv, PInv, TypeOK
<1>6. PackageEpoch'
  BY <1>1, <1>2, <1>3, <1>4, <1>5, EmitEpochs DEF Writer
<1>7. HolderLatest'
  BY <1>2, <1>4, <1>5 DEF Epochs, HolderLatest, Holder
<1>8. \A e \in Devices : Unclaimed(e)' => Unclaimed(e)
  BY <1>2, <1>4, <1>5 DEF Unclaimed, NotYet
<1>9. UnclaimedLatest'
  BY <1>2, <1>4, <1>5, <1>8 DEF Epochs, UnclaimedLatest
<1>10. AwaitingEpoch'
  BY <1>1, <1>2, <1>4, <1>5 DEF Epochs, AwaitingEpoch, Writer
<1>11. QED
  BY <1>6, <1>7, <1>9, <1>10 DEF Epochs

LEMMA PrepareAgainEpochs ==
    ASSUME WInv, WInv', Epochs, NEW d \in Devices, PrepareAgain(d)
    PROVE  Epochs'
<1>1. UNCHANGED <<status, transfer, opened, epoch>> /\ status[d] = "transfer_pending"
  BY DEF PrepareAgain
<1>2. transfer[d] \in Nat
  BY TransferAssumption DEF WInv, CInv, PInv, TypeOK
<1>3. PackageEpoch'
  BY <1>1, <1>2, EmitEpochs DEF PrepareAgain, Writer
<1>4. HolderLatest' /\ UnclaimedLatest' /\ AwaitingEpoch'
  BY <1>1 DEF Epochs, HolderLatest, UnclaimedLatest, AwaitingEpoch, Holder, Unclaimed,
              NotYet, Writer
<1>5. QED
  BY <1>3, <1>4 DEF Epochs

LEMMA CancelEpochs ==
    ASSUME WInv, Epochs, NEW d \in Devices, Cancel(d)
    PROVE  Epochs'
<1>1. UNCHANGED <<opened, epoch, packages>> /\ status[d] = "transfer_pending"
      /\ status'[d] = "active"
  BY DEF Cancel, WInv, CInv, PInv, TypeOK
<1>2. \A e \in Devices \ {d} : status'[e] = status[e] /\ transfer'[e] = transfer[e]
  BY DEF Cancel, WInv, CInv, PInv, TypeOK
<1>3. HolderLatest' /\ AwaitingEpoch' /\ PackageEpoch'
  BY <1>1, <1>2 DEF Epochs, HolderLatest, AwaitingEpoch, PackageEpoch, Holder, Writer
<1>4. UnclaimedLatest'
  BY <1>1, <1>2 DEF Epochs, UnclaimedLatest, Unclaimed, NotYet
<1>5. QED
  BY <1>3, <1>4 DEF Epochs

LEMMA ConfirmEpochs ==
    ASSUME WInv, Epochs, NEW d \in Devices, Confirm(d)
    PROVE  Epochs'
<1>1. UNCHANGED <<opened, epoch, packages, transfer>> /\ status[d] = "transfer_pending"
      /\ status'[d] = "retired"
  BY DEF Confirm, WInv, CInv, PInv, TypeOK
<1>2. \A e \in Devices \ {d} : status'[e] = status[e]
  BY DEF Confirm, WInv, CInv, PInv, TypeOK
<1>3. \A e \in Devices : Holder(e) \/ Unclaimed(e) => e = d
  BY <1>1 DEF WInv, CInv, Claims, OneClaim, Holder
<1>4. HolderLatest'
  BY <1>1, <1>2, <1>3 DEF HolderLatest, Holder
<1>5. \A e \in Devices : Unclaimed(e)' => e = d
  BY <1>1, <1>2, <1>3 DEF Unclaimed, NotYet
<1>6. \A e \in Devices : epoch[e] \in Nat
  BY DEF WInv, CInv, PInv, TypeOK
<1>7. UnclaimedLatest'
  <2>1. \A e \in Devices : status[e] = "retired" => epoch[d] > epoch[e]
    BY <1>1 DEF Epochs, HolderLatest, Holder
  <2>2. \A e \in Devices : status'[e] = "retired" => epoch[d] >= epoch[e]
    BY <1>2, <1>6, <2>1
  <2>3. QED
    BY <1>1, <1>5, <2>2 DEF UnclaimedLatest
<1>8. AwaitingEpoch' /\ PackageEpoch'
  BY <1>1, <1>2 DEF Epochs, AwaitingEpoch, PackageEpoch, Writer
<1>9. QED
  BY <1>4, <1>7, <1>8 DEF Epochs

LEMMA ImportEpochs ==
    ASSUME WInv, Epochs, ~CopiedFiles, NEW d \in Devices, NEW p \in packages, Import(d, p)
    PROVE  Epochs'
<1>1. /\ CInv /\ NotYet(d) /\ p.version \in {1, 2} /\ p.transfer \in 0..MaxTransfers
      /\ \A e \in Devices : Unclaimed(e)' => Unclaimed(e)
  BY ImportKeeps DEF WInv
<1>2. /\ status'[d] = IF p.version = 1 THEN "active" ELSE "awaiting_activation"
      /\ transfer'[d] = p.transfer /\ epoch'[d] = p.epoch /\ packages' = packages
  BY DEF Import, WInv, CInv, PInv, TypeOK
<1>3. \A e \in Devices \ {d} : /\ status'[e] = status[e]
                                /\ transfer'[e] = transfer[e] /\ epoch'[e] = epoch[e]
  BY DEF Import, WInv, CInv, PInv, TypeOK
<1>4. PackageEpoch'
  BY <1>2, <1>3 DEF Epochs, PackageEpoch, Writer
<1>5. AwaitingEpoch'
  BY <1>2, <1>3 DEF Epochs, AwaitingEpoch, PackageEpoch, Writer
<1>6. UnclaimedLatest'
  BY <1>1, <1>2, <1>3 DEF Epochs, UnclaimedLatest, Unclaimed, NotYet
<1>7. HolderLatest'
  <2>1. CASE p.version = 2
    BY <1>2, <1>3, <2>1 DEF Epochs, HolderLatest, Holder
  <2>2. CASE p.version = 1
    <3>1. /\ p.transfer = 0
          /\ \E r \in Devices : Unclaimed(r) /\ transfer[r] = 0
          /\ \A e \in Devices : (Holder(e) \/ Unclaimed(e))' => e = d
      BY <1>1, <2>2, ImportOldTakes
    <3>2. PICK r \in Devices : Unclaimed(r) /\ transfer[r] = 0
      BY <3>1
    <3>3. p.epoch = epoch[r] + 1
      BY <3>1, <3>2 DEF Epochs, PackageEpoch, Writer, Unclaimed
    <3>4. \A e \in Devices : epoch[e] \in Nat /\ (status[e] = "retired" => epoch[r] >= epoch[e])
      BY <3>2 DEF Epochs, UnclaimedLatest, WInv, CInv, PInv, TypeOK
    <3>5. QED
      BY <1>2, <1>3, <2>2, <3>1, <3>3, <3>4 DEF HolderLatest
  <2>3. QED
    BY <1>1, <2>1, <2>2
<1>8. QED
  BY <1>4, <1>5, <1>6, <1>7 DEF Epochs

LEMMA ActivateEpochs ==
    ASSUME WInv, Epochs, NEW d \in Devices, Activate(d)
    PROVE  Epochs'
<1>1. UNCHANGED <<opened, epoch, packages>> /\ status[d] = "awaiting_activation"
      /\ status'[d] = "active"
  BY DEF Activate, WInv, CInv, PInv, TypeOK
<1>2. \A e \in Devices \ {d} : status'[e] = status[e] /\ transfer'[e] = transfer[e]
  BY DEF Activate, WInv, CInv, PInv, TypeOK
<1>3. PICK r \in Devices : Unclaimed(r) /\ transfer[r] = transfer[d]
  BY ActivateTakes DEF WInv
<1>4. \A e \in Devices : (Holder(e) \/ Unclaimed(e))' => e = d
  BY ActivateTakes DEF WInv
<1>5. epoch[d] = epoch[r] + 1
  BY <1>1, <1>3 DEF Epochs, AwaitingEpoch, Writer, Unclaimed
<1>6. \A e \in Devices : epoch[e] \in Nat /\ (status[e] = "retired" => epoch[r] >= epoch[e])
  BY <1>3 DEF Epochs, UnclaimedLatest, WInv, CInv, PInv, TypeOK
<1>7. HolderLatest'
  BY <1>1, <1>2, <1>4, <1>5, <1>6 DEF HolderLatest
<1>8. UnclaimedLatest'
  BY <1>1, <1>4 DEF UnclaimedLatest, Unclaimed
<1>9. AwaitingEpoch' /\ PackageEpoch'
  BY <1>1, <1>2 DEF Epochs, AwaitingEpoch, PackageEpoch, Writer
<1>10. QED
  BY <1>7, <1>8, <1>9 DEF Epochs

LEMMA NextEpochs ==
    ASSUME ~CopiedFiles
    PROVE  WInv /\ WInv' /\ Epochs /\ [Next]_vars => Epochs'
<1> SUFFICES ASSUME WInv, WInv', Epochs, [Next]_vars PROVE Epochs'
  OBVIOUS
<1>1. ASSUME NEW d \in Devices, Command(d) \/ Join(d) \/ Restart(d) \/ ShowToken(d)
      PROVE  Epochs'
  BY <1>1, QuietEpochs DEF Command, Join, Restart, ShowToken, StatusAnswer
<1>2. ASSUME NEW d \in Devices, Prepare(d) \/ PrepareAgain(d) PROVE Epochs'
  BY <1>2, PrepareEpochs, PrepareAgainEpochs
<1>3. ASSUME NEW d \in Devices, Cancel(d) \/ Confirm(d) PROVE Epochs'
  BY <1>3, CancelEpochs, ConfirmEpochs
<1>4. ASSUME NEW d \in Devices, NEW p \in packages, Import(d, p) PROVE Epochs'
  BY <1>4, ImportEpochs
<1>5. ASSUME NEW d \in Devices, Activate(d) PROVE Epochs'
  BY <1>5, ActivateEpochs
<1>6. CASE UNCHANGED vars
  BY <1>6, QuietEpochs DEF vars
<1>7. QED
  BY <1>1, <1>2, <1>3, <1>4, <1>5, <1>6 DEF Next

\* The device in charge has a greater epoch than every device that was in
\* charge before it, so clients can tell its state from theirs (server.go:1599,
\* web/app.js:193), however many transfers there were.
THEOREM EpochsIncrease == ASSUME ~CopiedFiles PROVE Spec => []EpochsOrdered
<1>1. Spec => []WInv
  BY AlwaysWInv
<1>2. WInv /\ WInv' /\ Epochs /\ [Next]_vars => Epochs'
  BY NextEpochs
<1>3. Epochs => EpochsOrdered
  BY DEF Epochs, HolderLatest, Holder, EpochsOrdered
<1>4. QED
  BY <1>1, <1>2, <1>3, InitEpochs, PTL DEF Spec

-----------------------------------------------------------------------------
(* Movements *)

\* The warehouse of a device that takes over contains the movements: those of
\* the claimant, of the packages it wrote and of the devices that opened them.
Moves == {f \in acked : f.kind = "movement"}

Claimant(d) == status[d] = "transfer_pending" \/ Unclaimed(d)

HolderComplete == \A d \in Devices : Holder(d) => Moves \subseteq facts[d]

PackageComplete ==
    \A p \in packages : \A d \in Devices :
        Claimant(d) /\ transfer[d] = p.transfer => Moves \subseteq p.facts

AwaitingComplete ==
    \A d, e \in Devices :
        status[d] = "awaiting_activation" /\ Claimant(e) /\ transfer[d] = transfer[e]
            => Moves \subseteq facts[d]

Complete == HolderComplete /\ PackageComplete /\ AwaitingComplete

LEMMA InitComplete == Init => Complete
  BY DEF Init, Complete, HolderComplete, PackageComplete, AwaitingComplete, Moves

LEMMA QuietComplete ==
    ASSUME Complete, UNCHANGED <<status, transfer, facts, packages, opened, acked>>
    PROVE  Complete'
  BY DEF Complete, HolderComplete, PackageComplete, AwaitingComplete, Moves, Holder,
         Claimant, Unclaimed, NotYet

\* While a device is active nobody else may hand the warehouse over.
LEMMA ActiveAlone ==
    ASSUME CInv, NEW d \in Devices, status[d] = "active"
    PROVE  \A e \in Devices : ~Claimant(e) /\ (Holder(e) => e = d)
<1>1. \A e \in Devices : Holder(e) \/ Unclaimed(e) => e = d
  BY DEF CInv, Claims, OneClaim, Holder
<1>2. QED
  BY <1>1 DEF Claimant, Holder, Unclaimed

LEMMA CommandComplete ==
    ASSUME WInv, Complete, NEW d \in Devices, Command(d)
    PROVE  Complete'
<1>1. status[d] = "active" /\ UNCHANGED <<status, transfer, opened>>
  BY DEF Command, Works
<1>2. \A e \in Devices : ~Claimant(e) /\ (Holder(e) => e = d)
  BY <1>1, ActiveAlone DEF WInv
<1>3. PICK f : facts'[d] = facts[d] \cup {f} /\ acked' = acked \cup {f}
  BY DEF Command, Made, WInv, CInv, PInv, TypeOK
<1>4. Moves \subseteq facts[d]
  BY <1>1 DEF Complete, HolderComplete, Holder
<1>5. \A e \in Devices : ~Claimant(e)' /\ (Holder(e)' => e = d)
  BY <1>1, <1>2 DEF Claimant, Holder, Unclaimed, NotYet
<1>6. Moves' \subseteq facts'[d]
  BY <1>3, <1>4 DEF Moves
<1>7. QED
  BY <1>5, <1>6 DEF Complete, HolderComplete, PackageComplete, AwaitingComplete

\* An account that is made while the transfer is pending is not a movement.
LEMMA JoinComplete ==
    ASSUME WInv, Complete, NEW d \in Devices, Join(d)
    PROVE  Complete'
<1>1. UNCHANGED <<status, transfer, opened, packages>>
  BY DEF Join
<1>2. PICK f : f.kind = "account" /\ facts' = [facts EXCEPT ![d] = @ \cup {f}]
               /\ acked' = acked \cup {f}
  BY DEF Join, Made
<1>3. Moves' = Moves
  BY <1>2 DEF Moves
<1>4. \A e \in Devices : facts[e] \subseteq facts'[e]
  BY <1>2 DEF WInv, CInv, PInv, TypeOK
<1>5. \A e \in Devices : Claimant(e)' = Claimant(e) /\ Holder(e)' = Holder(e)
  BY <1>1 DEF Claimant, Holder, Unclaimed, NotYet
<1>6. HolderComplete'
  BY <1>3, <1>4, <1>5 DEF Complete, HolderComplete
<1>7. PackageComplete'
  BY <1>1, <1>3, <1>5 DEF Complete, PackageComplete
<1>8. AwaitingComplete'
  BY <1>1, <1>3, <1>4, <1>5 DEF Complete, AwaitingComplete
<1>9. QED
  BY <1>6, <1>7, <1>8 DEF Complete

\* The package has everything the device has that writes it.
LEMMA PrepareComplete ==
    ASSUME WInv, Complete, NEW d \in Devices, Prepare(d)
    PROVE  Complete'
<1> DEFINE t == started + 1
<1>1. started \in Nat /\ \A e \in Devices : transfer[e] # t
  BY TransferAssumption DEF WInv, CInv, PInv, TypeOK, OneWriter
<1>2. /\ status' = [status EXCEPT ![d] = "transfer_pending"]
      /\ transfer' = [transfer EXCEPT ![d] = t]
      /\ status[d] = "active" /\ UNCHANGED <<opened, facts, acked>>
      /\ Emit(d, t)
  BY DEF Prepare
<1>3. \A p \in packages : p.transfer # t
  <2>1. \A p \in packages : p.transfer \in Nat /\ p.transfer <= started
    BY DEF WInv, CInv, PInv, TypeOK, Paper, StartedOnly, Package
  <2>2. QED
    BY <1>1, <2>1
<1> HIDE DEF t
<1>4. \A e \in Devices \ {d} : status'[e] = status[e] /\ transfer'[e] = transfer[e]
  BY <1>2 DEF WInv, CInv, PInv, TypeOK
<1>5. status'[d] = "transfer_pending" /\ transfer'[d] = t
  BY <1>2 DEF WInv, CInv, PInv, TypeOK
<1>6. Moves' = Moves /\ Moves \subseteq facts[d]
  BY <1>2 DEF Moves, Complete, HolderComplete, Holder
<1>7. \A e \in Devices \ {d} : Claimant(e)' => Claimant(e)
  BY <1>2, <1>4, <1>5 DEF Claimant, Unclaimed, NotYet
<1>8. HolderComplete'
  BY <1>2, <1>4, <1>6 DEF Complete, HolderComplete, Holder
<1>9. PackageComplete'
  <2>1. \A p \in packages' : p \in packages \/ p.facts = facts[d]
    BY <1>2 DEF Emit
  <2>2. QED
    BY <1>3, <1>4, <1>5, <1>6, <1>7, <2>1 DEF Complete, PackageComplete
<1>10. AwaitingComplete'
  BY <1>1, <1>2, <1>4, <1>5, <1>6, <1>7 DEF Complete, AwaitingComplete
<1>11. QED
  BY <1>8, <1>9, <1>10 DEF Complete

LEMMA PrepareAgainComplete ==
    ASSUME Complete, NEW d \in Devices, PrepareAgain(d)
    PROVE  Complete'
<1>1. UNCHANGED <<status, transfer, opened, facts, acked>> /\ status[d] = "transfer_pending"
  BY DEF PrepareAgain
<1>2. Moves' = Moves /\ Moves \subseteq facts[d]
  BY <1>1 DEF Moves, Complete, HolderComplete, Holder
<1>3. \A p \in packages' : p \in packages \/ p.facts = facts[d]
  BY DEF PrepareAgain, Emit
<1>4. \A e \in Devices : Claimant(e)' = Claimant(e) /\ Holder(e)' = Holder(e)
  BY <1>1 DEF Claimant, Holder, Unclaimed, NotYet
<1>5. HolderComplete' /\ AwaitingComplete'
  BY <1>1, <1>2, <1>4 DEF Complete, HolderComplete, AwaitingComplete
<1>6. PackageComplete'
  BY <1>1, <1>2, <1>3, <1>4 DEF Complete, PackageComplete
<1>7. QED
  BY <1>5, <1>6 DEF Complete

\* A cancelled or confirmed transfer gives nobody else the right.
LEMMA EndComplete ==
    ASSUME WInv, Complete, NEW d \in Devices, Cancel(d) \/ Confirm(d)
    PROVE  Complete'
<1>1. UNCHANGED <<opened, facts, packages, acked>> /\ status[d] = "transfer_pending"
  BY DEF Cancel, Confirm
<1>2. \A e \in Devices \ {d} : status'[e] = status[e] /\ transfer'[e] = transfer[e]
  BY DEF Cancel, Confirm, WInv, CInv, PInv, TypeOK
<1>3. \/ status'[d] = "active"
      \/ status'[d] = "retired" /\ transfer'[d] = transfer[d]
  BY DEF Cancel, Confirm, WInv, CInv, PInv, TypeOK
<1>4. Moves' = Moves
  BY <1>1 DEF Moves
<1>5. \A e \in Devices : Claimant(e)' => Claimant(e) /\ transfer'[e] = transfer[e]
  BY <1>1, <1>2, <1>3 DEF Claimant, Unclaimed, NotYet
<1>6. HolderComplete'
  BY <1>1, <1>2, <1>3, <1>4 DEF Complete, HolderComplete, Holder
<1>7. PackageComplete'
  BY <1>1, <1>4, <1>5 DEF Complete, PackageComplete
<1>8. AwaitingComplete'
  BY <1>1, <1>2, <1>3, <1>4, <1>5 DEF Complete, AwaitingComplete
<1>9. QED
  BY <1>6, <1>7, <1>8 DEF Complete

LEMMA ImportComplete ==
    ASSUME WInv, Complete, ~CopiedFiles, NEW d \in Devices, NEW p \in packages, Import(d, p)
    PROVE  Complete'
<1>1. /\ CInv /\ NotYet(d) /\ p.version \in {1, 2}
      /\ \A e \in Devices : Unclaimed(e)' => Unclaimed(e)
  BY ImportKeeps DEF WInv
<1>2. /\ status'[d] = IF p.version = 1 THEN "active" ELSE "awaiting_activation"
      /\ transfer'[d] = p.transfer /\ facts'[d] = p.facts
      /\ UNCHANGED <<packages, acked>>
  BY DEF Import, WInv, CInv, PInv, TypeOK
<1>3. \A e \in Devices \ {d} : /\ status'[e] = status[e]
                                /\ transfer'[e] = transfer[e] /\ facts'[e] = facts[e]
  BY DEF Import, WInv, CInv, PInv, TypeOK
<1>4. Moves' = Moves
  BY <1>2 DEF Moves
<1>5. \A e \in Devices : Claimant(e)' => Claimant(e) /\ e # d
  BY <1>1, <1>2, <1>3 DEF Claimant, Unclaimed
<1>6. PackageComplete'
  BY <1>2, <1>3, <1>4, <1>5 DEF Complete, PackageComplete
<1>7. AwaitingComplete'
  BY <1>2, <1>3, <1>4, <1>5 DEF Complete, AwaitingComplete, PackageComplete
<1>8. HolderComplete'
  <2>1. CASE p.version = 2
    BY <1>2, <1>3, <1>4, <2>1 DEF Complete, HolderComplete, Holder
  <2>2. CASE p.version = 1
    <3>1. /\ p.transfer = 0
          /\ \E r \in Devices : Unclaimed(r) /\ transfer[r] = 0
          /\ \A e \in Devices : (Holder(e) \/ Unclaimed(e))' => e = d
      BY <1>1, <2>2, ImportOldTakes
    <3>2. Moves \subseteq p.facts
      BY <3>1 DEF Complete, PackageComplete, Claimant
    <3>3. QED
      BY <1>2, <1>4, <3>1, <3>2 DEF HolderComplete
  <2>3. QED
    BY <1>1, <2>1, <2>2
<1>9. QED
  BY <1>6, <1>7, <1>8 DEF Complete

LEMMA ActivateComplete ==
    ASSUME WInv, WInv', Complete, NEW d \in Devices, Activate(d)
    PROVE  Complete'
<1>1. UNCHANGED <<opened, facts, packages, acked>> /\ status[d] = "awaiting_activation"
      /\ status'[d] = "active"
  BY DEF Activate, WInv, CInv, PInv, TypeOK
<1>2. PICK r \in Devices : Unclaimed(r) /\ transfer[r] = transfer[d]
  BY ActivateTakes DEF WInv
<1>3. \A e \in Devices : (Holder(e) \/ Unclaimed(e))' => e = d
  BY ActivateTakes DEF WInv
<1>4. Moves' = Moves /\ Moves \subseteq facts[d]
  BY <1>1, <1>2 DEF Moves, Complete, AwaitingComplete, Claimant
<1>5. \A e \in Devices : ~Claimant(e)'
  BY <1>1, <1>3 DEF Claimant, Holder, Unclaimed
<1>6. HolderComplete'
  BY <1>1, <1>3, <1>4 DEF HolderComplete
<1>7. QED
  BY <1>5, <1>6 DEF Complete, PackageComplete, AwaitingComplete

LEMMA NextComplete ==
    ASSUME ~CopiedFiles
    PROVE  WInv /\ WInv' /\ Complete /\ [Next]_vars => Complete'
<1> SUFFICES ASSUME WInv, WInv', Complete, [Next]_vars PROVE Complete'
  OBVIOUS
<1>1. ASSUME NEW d \in Devices, Command(d) \/ Join(d) PROVE Complete'
  BY <1>1, CommandComplete, JoinComplete
<1>2. ASSUME NEW d \in Devices, Restart(d) \/ ShowToken(d) PROVE Complete'
  BY <1>2, QuietComplete DEF Restart, ShowToken, StatusAnswer
<1>3. ASSUME NEW d \in Devices, Prepare(d) \/ PrepareAgain(d) PROVE Complete'
  BY <1>3, PrepareComplete, PrepareAgainComplete
<1>4. ASSUME NEW d \in Devices, Cancel(d) \/ Confirm(d) PROVE Complete'
  BY <1>4, EndComplete
<1>5. ASSUME NEW d \in Devices, NEW p \in packages, Import(d, p) PROVE Complete'
  BY <1>5, ImportComplete
<1>6. ASSUME NEW d \in Devices, Activate(d) PROVE Complete'
  BY <1>6, ActivateComplete
<1>7. CASE UNCHANGED vars
  BY <1>7, QuietComplete DEF vars
<1>8. QED
  BY <1>1, <1>2, <1>3, <1>4, <1>5, <1>6, <1>7 DEF Next

\* No movement a client was told is done is missing on the device in charge,
\* whichever package of whichever transfer it was opened from: what is done
\* after a cancelled transfer cannot be undone by its package.
THEOREM MovementsKept == ASSUME ~CopiedFiles PROVE Spec => []MovementsSurvive
<1>1. Spec => []WInv
  BY AlwaysWInv
<1>2. WInv /\ WInv' /\ Complete /\ [Next]_vars => Complete'
  BY NextComplete
<1>3. Complete => MovementsSurvive
  BY DEF Complete, HolderComplete, Holder, MovementsSurvive, Active, Moves
<1>4. QED
  BY <1>1, <1>2, <1>3, InitComplete, PTL DEF Spec

-----------------------------------------------------------------------------
(* A transfer can be completed *)

\* Somebody has the claim.
Someone == \E d \in Devices : Holder(d) \/ Unclaimed(d)

\* Who opened the file of a transfer can open one of it again.
OpenedFile ==
    \A o \in opened : \E p \in packages : p.transfer = o[1] /\ (o[2] \in Windows => ~p.unknown)

ReceiptOpened == \A t \in receipts : \E d \in Devices : <<t, d>> \in opened

\* A device retires with the receipt of who opened its file.
RetiredReceipt == \A d \in Devices : status[d] = "retired" /\ transfer[d] # 0 => transfer[d] \in receipts

\* A package of release 1.2 makes its reader the main device at once.
OldOpeners == \A d \in Devices : <<0, d>> \in opened => ~NotYet(d)

\* While nobody has taken over from release 1.2, everybody else still may.
OldFile ==
    \A d \in Devices : status[d] = "retired" /\ transfer[d] = 0 =>
        /\ OldRelease /\ d = First /\ OldPackage \in packages
        /\ Unclaimed(d) => \A e \in Devices \ {d} : NotYet(e)

Open == Someone /\ OpenedFile /\ ReceiptOpened /\ RetiredReceipt /\ OldOpeners /\ OldFile

LEMMA InitOpen == Init => Open
<1> SUFFICES ASSUME Init PROVE Open
  OBVIOUS
<1>1. First \in Devices /\ opened = {} /\ receipts = {} /\ transfer = [d \in Devices |-> 0]
  BY TransferAssumption DEF Init
<1>2. CASE status = [d \in Devices |-> IF d = First THEN "active" ELSE "empty"]
  BY <1>1, <1>2 DEF Open, Someone, OpenedFile, ReceiptOpened, RetiredReceipt, OldOpeners, OldFile, Holder
<1>3. CASE /\ OldRelease /\ packages = {OldPackage}
           /\ status = [d \in Devices |-> IF d = First THEN "retired" ELSE "empty"]
  <2>1. Unclaimed(First)
    BY <1>1, <1>3 DEF Unclaimed
  <2>2. \A d \in Devices \ {First} : NotYet(d)
    BY <1>3 DEF NotYet
  <2> QED
    BY <1>1, <1>3, <2>1, <2>2
       DEF Open, Someone, OpenedFile, ReceiptOpened, RetiredReceipt, OldOpeners, OldFile
<1> QED
  BY <1>2, <1>3 DEF Init

LEMMA QuietOpen ==
    ASSUME Open, UNCHANGED <<status, transfer, opened, receipts>>, packages \subseteq packages'
    PROVE  Open'
<1>1. \A d \in Devices : /\ Holder(d)' = Holder(d) /\ NotYet(d)' = NotYet(d)
                         /\ Unclaimed(d)' = Unclaimed(d)
  BY DEF Holder, NotYet, Unclaimed
<1>2. Someone' /\ ReceiptOpened' /\ RetiredReceipt' /\ OldOpeners'
  BY <1>1 DEF Open, Someone, ReceiptOpened, RetiredReceipt, OldOpeners
<1>3. OpenedFile' /\ OldFile'
  BY <1>1 DEF Open, OpenedFile, OldFile
<1> QED
  BY <1>2, <1>3 DEF Open

\* The device d, which is or was in charge, moves on, and keeps the claim.
LEMMA HolderOpen ==
    ASSUME CInv, Open, NEW d \in Devices, Holder(d),
           NEW s \in {"active", "transfer_pending", "retired"}, NEW t \in 0..MaxTransfers,
           status' = [status EXCEPT ![d] = s], transfer' = [transfer EXCEPT ![d] = t],
           UNCHANGED <<opened, receipts>>, packages \subseteq packages',
           s = "retired" => t \in receipts /\ t # 0 /\ \A e \in Devices : <<t, e>> \in opened => NotYet(e)
    PROVE  Open'
<1>1. status \in [Devices -> Statuses] /\ transfer \in [Devices -> 0..MaxTransfers]
  BY DEF CInv, PInv, TypeOK
<1>2. \A e \in Devices : NotYet(e)' <=> NotYet(e)
  BY <1>1 DEF NotYet, Holder
<1>3. \A e \in Devices : e # d => (Unclaimed(e)' <=> Unclaimed(e))
  BY <1>1, <1>2 DEF Unclaimed
<1>4. Holder(d)' \/ Unclaimed(d)'
  BY <1>1, <1>2 DEF Holder, Unclaimed
<1>5. OldFile'
  <2>1. ASSUME NEW e \in Devices, status'[e] = "retired", transfer'[e] = 0
        PROVE  e # d /\ status[e] = "retired" /\ transfer[e] = 0 /\ ~Unclaimed(e)'
    <3>1. e # d /\ status[e] = "retired" /\ transfer[e] = 0
      BY <1>1, <2>1
    <3>2. ~Unclaimed(e)
      BY <3>1 DEF CInv, Claims, OneClaim
    <3> QED
      BY <1>3, <3>1, <3>2
  <2> QED
    BY <2>1 DEF Open, OldFile
<1>6. OpenedFile'
  BY DEF Open, OpenedFile
<1>7. RetiredReceipt'
  BY <1>1 DEF Open, RetiredReceipt
<1>8. Someone' /\ ReceiptOpened' /\ OldOpeners'
  BY <1>2, <1>4 DEF Open, Someone, ReceiptOpened, OldOpeners
<1> QED
  BY <1>5, <1>6, <1>7, <1>8 DEF Open

LEMMA ImportOpen ==
    ASSUME CInv, Open, ~CopiedFiles, NEW d \in Devices, NEW p \in packages, Import(d, p)
    PROVE  Open'
<1>1. /\ status \in [Devices -> Statuses] /\ transfer \in [Devices -> 0..MaxTransfers]
      /\ receipts' = receipts \cup ReceiptOf(p) /\ packages' = packages
      /\ opened' = opened \cup {<<p.transfer, d>>} /\ (d \in Windows => ~p.unknown)
  BY DEF CInv, PInv, TypeOK, Import, Opens
<1>2. OpenedFile'
  <2>1. \A o \in opened' : o \in opened \/ (o[1] = p.transfer /\ o[2] = d)
    BY <1>1
  <2> QED
    BY <1>1, <2>1 DEF Open, OpenedFile
<1>3. ReceiptOpened'
  BY <1>1 DEF Open, ReceiptOpened, ReceiptOf
<1>4. \A e \in Devices : e # d => (status'[e] = status[e] /\ transfer'[e] = transfer[e] /\ (NotYet(e)' <=> NotYet(e)))
  BY <1>1, ImportKeeps DEF NotYet
<1>5. status'[d] = IF p.version = 1 THEN "active" ELSE "awaiting_activation"
  BY <1>1, ImportKeeps
<1>6. RetiredReceipt'
  BY <1>1, <1>4, <1>5 DEF Open, RetiredReceipt
<1>7. CASE p.version = 2
  <2>1. NotYet(d)' /\ NotYet(d) /\ p.transfer # 0
    BY <1>5, <1>7, ImportKeeps DEF NotYet, CInv, PInv, TypeOK, Package, Paper, OldRetired
  <2>2. \A e \in Devices : (Holder(e) \/ Unclaimed(e)) => (Holder(e) \/ Unclaimed(e))'
    <3>1. \A e \in Devices : Holder(e) => Holder(e)'
      BY <1>4, <2>1 DEF Holder, NotYet
    <3>2. \A e \in Devices : Unclaimed(e) => Unclaimed(e)'
      BY <1>1, <1>4, <2>1 DEF Unclaimed, NotYet
    <3> QED
      BY <3>1, <3>2
  <2>3. Someone'
    BY <2>2 DEF Open, Someone
  <2>4. OldOpeners'
    BY <1>1, <1>4, <2>1 DEF Open, OldOpeners
  <2>5. OldFile'
    BY <1>1, <1>4, <1>5, <1>7, <2>1, ImportKeeps DEF Open, OldFile
  <2> QED
    BY <1>2, <1>3, <1>6, <2>3, <2>4, <2>5 DEF Open
<1>8. CASE p.version = 1
  <2>1. Holder(d)' /\ ~NotYet(d)'
    BY <1>5, <1>8 DEF Holder, NotYet
  <2>2. OldOpeners'
    BY <1>1, <1>4, <2>1 DEF Open, OldOpeners
  <2>3. OldFile'
    <3>1. ASSUME NEW e \in Devices, status'[e] = "retired", transfer'[e] = 0
          PROVE  e # d /\ status[e] = "retired" /\ transfer[e] = 0 /\ ~Unclaimed(e)'
      BY <1>4, <1>5, <1>8, <3>1, ImportOldTakes
    <3> QED
      BY <1>1, <3>1 DEF Open, OldFile
  <2> QED
    BY <1>2, <1>3, <1>6, <2>1, <2>2, <2>3 DEF Open, Someone
<1> QED
  BY <1>7, <1>8, ImportKeeps

LEMMA ActivateOpen == ASSUME CInv, Open, NEW d \in Devices, Activate(d) PROVE Open'
<1>1. /\ status' = [status EXCEPT ![d] = "active"] /\ transfer' = [transfer EXCEPT ![d] = 0]
      /\ status[d] = "awaiting_activation" /\ UNCHANGED <<opened, receipts, packages>>
      /\ status \in [Devices -> Statuses] /\ transfer \in [Devices -> 0..MaxTransfers]
  BY DEF Activate, CInv, PInv, TypeOK
<1>2. Holder(d)' /\ \A e \in Devices : NotYet(e)' => NotYet(e)
  BY <1>1 DEF Holder, NotYet
<1>3. RetiredReceipt' /\ OldOpeners'
  BY <1>1, <1>2 DEF Open, RetiredReceipt, OldOpeners
<1>4. OldFile'
  <2>1. ASSUME NEW e \in Devices, status'[e] = "retired", transfer'[e] = 0
        PROVE  status[e] = "retired" /\ transfer[e] = 0 /\ ~Unclaimed(e)'
    BY <1>1, <2>1, ActivateTakes
  <2> QED
    BY <1>1, <2>1 DEF Open, OldFile
<1>5. OpenedFile' /\ ReceiptOpened'
  BY <1>1 DEF Open, OpenedFile, ReceiptOpened
<1> QED
  BY <1>2, <1>3, <1>4, <1>5 DEF Open, Someone

LEMMA NextOpen == ASSUME ~CopiedFiles PROVE CInv /\ Open /\ [Next]_vars => Open'
<1> SUFFICES ASSUME CInv, Open, [Next]_vars PROVE Open'
  OBVIOUS
<1>1. ASSUME NEW d \in Devices, Command(d) \/ Join(d) \/ Restart(d) \/ ShowToken(d) PROVE Open'
  BY <1>1, QuietOpen DEF Command, Join, Restart, ShowToken, StatusAnswer
<1>2. ASSUME NEW d \in Devices, PrepareAgain(d) PROVE Open'
  BY <1>2, QuietOpen DEF PrepareAgain, Emit
<1>3. ASSUME NEW d \in Devices, Prepare(d) PROVE Open'
  <2>1. started + 1 \in 0..MaxTransfers
    BY <1>3, TransferAssumption DEF CInv, PInv, TypeOK, Prepare
  <2> QED
    BY <1>3, <2>1, HolderOpen DEF Prepare, Emit, Holder
<1>4. ASSUME NEW d \in Devices, Cancel(d) PROVE Open'
  <2>1. 0 \in 0..MaxTransfers
    BY TransferAssumption
  <2>2. /\ status' = [status EXCEPT ![d] = "active"] /\ transfer' = [transfer EXCEPT ![d] = 0]
        /\ UNCHANGED <<opened, receipts, packages>> /\ Holder(d)
    BY <1>4 DEF Cancel, Holder
  <2> QED
    BY <2>1, <2>2, HolderOpen
<1>5. ASSUME NEW d \in Devices, Confirm(d) PROVE Open'
  <2>1. /\ transfer[d] \in receipts /\ transfer[d] # 0 /\ transfer[d] \in 0..MaxTransfers
        /\ \A e \in Devices : <<transfer[d], e>> \in opened => NotYet(e)
    BY <1>5 DEF Confirm, ReceiptFits, CInv, PInv, TypeOK, Paper, PendingStarted, Claims, PendingFresh
  <2>2. transfer' = [transfer EXCEPT ![d] = transfer[d]]
    BY <1>5 DEF Confirm, CInv, PInv, TypeOK
  <2> QED
    BY <1>5, <2>1, <2>2, HolderOpen DEF Confirm, Holder
<1>6. ASSUME NEW d \in Devices, NEW p \in packages, Import(d, p) PROVE Open'
  BY <1>6, ImportOpen
<1>7. ASSUME NEW d \in Devices, Activate(d) PROVE Open'
  BY <1>7, ActivateOpen
<1>8. CASE UNCHANGED vars
  BY <1>8, QuietOpen DEF vars
<1> QED
  BY <1>1, <1>2, <1>3, <1>4, <1>5, <1>6, <1>7, <1>8 DEF Next

\* The warehouse is never stranded: some device works or can return to work, or
\* the file of the transfer that retired the last one can still be opened by a
\* device that has opened it before, or by any other after release 1.2, which
\* has handed it over to another device (docs/ВОССТАНОВЛЕНИЕ.md:66-68).
THEOREM NeverLost ==
    ASSUME ~CopiedFiles, OldRelease => \E d \in Devices : d # First
    PROVE  Spec => []NeverStranded
<1>1. Spec => [](CInv /\ Open)
  <2>1. Spec => []CInv
    BY AlwaysCInv
  <2>2. Init => Open
    BY InitOpen
  <2>3. CInv /\ Open /\ [Next]_vars => Open'
    BY NextOpen
  <2> QED
    BY <2>1, <2>2, <2>3, PTL DEF Spec
<1>2. CInv /\ Open => NeverStranded
  <2> SUFFICES ASSUME CInv, Open PROVE NeverStranded
    OBVIOUS
  <2>1. PICK d \in Devices : Holder(d) \/ Unclaimed(d)
    BY DEF Open, Someone
  <2>2. CASE Holder(d)
    BY <2>2 DEF Holder, NeverStranded
  <2>3. CASE Unclaimed(d) /\ transfer[d] # 0
    <3>1. PICK e \in Devices : <<transfer[d], e>> \in opened
      BY <2>3 DEF Unclaimed, Open, RetiredReceipt, ReceiptOpened
    <3>2. PICK p \in packages : p.transfer = transfer[d] /\ (e \in Windows => ~p.unknown)
      BY <3>1 DEF Open, OpenedFile
    <3>3. Opens(e, p)
      BY <2>3, <3>1, <3>2 DEF Unclaimed, NotYet, Opens
    <3>4. OwnerOpens(e, p)
      <4>1. opened \subseteq (0..MaxTransfers) \X Devices
        BY DEF CInv, PInv, TypeOK
      <4>2. \A o \in opened : o = <<o[1], o[2]>> /\ o[1] \in 0..MaxTransfers /\ o[2] \in Devices
        BY <4>1
      <4> QED
        BY <3>1, <3>2, <4>2 DEF CInv, Claims, OneOpener, OwnerOpens
    <3> QED
      BY <2>3, <3>2, <3>3, <3>4 DEF Unclaimed, NeverStranded
  <2>4. CASE Unclaimed(d) /\ transfer[d] = 0
    <3>1. OldRelease /\ d = First /\ OldPackage \in packages /\ \A e \in Devices \ {d} : NotYet(e)
      BY <2>4 DEF Unclaimed, Open, OldFile
    <3>2. PICK e \in Devices : e # First
      BY <3>1
    <3>3. OldPackage.transfer = 0 /\ ~OldPackage.unknown
      BY DEF OldPackage
    <3>4. Opens(e, OldPackage)
      BY <3>1, <3>2, <3>3 DEF Opens, NotYet
    <3>5. \A o \in opened : o[1] # 0
      <4>1. opened \subseteq (0..MaxTransfers) \X Devices
        BY DEF CInv, PInv, TypeOK
      <4>2. \A o \in opened : o = <<o[1], o[2]>> /\ o[2] \in Devices
        BY <4>1
      <4> QED
        BY <2>4, <4>2 DEF Unclaimed, Open, OldOpeners
    <3>6. OwnerOpens(e, OldPackage)
      BY <3>3, <3>5 DEF OwnerOpens
    <3> QED
      BY <2>4, <3>1, <3>3, <3>4, <3>6 DEF Unclaimed, NeverStranded
  <2> QED
    BY <2>1, <2>2, <2>3, <2>4
<1> QED
  BY <1>1, <1>2, PTL
=============================================================================
