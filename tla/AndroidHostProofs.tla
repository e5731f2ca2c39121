------------------------- MODULE AndroidHostProofs --------------------------
(***************************************************************************)
(* Proofs about the Android host: a command is applied once while it is    *)
(* remembered, an invitation is spent together with the user it was spent  *)
(* for, and only a copy of the state that was kept over an await undoes    *)
(* what was stored.                                                        *)
(*                                                                         *)
(* A handler that finishes after an await may write any copy it made, so   *)
(* the invariant is stated of the state and of every copy that a handler   *)
(* is about to write.                                                      *)
(***************************************************************************)
EXTENDS AndroidHost, SecureLink, SequenceTheorems, TLAPS

\* What every state that may become the stored one satisfies.
Sound(s) ==
    /\ s \in State
    /\ s.repeated \subseteq s.dropped
    /\ \A i \in s.used : \E r \in Requests : r.kind = "join" /\ r.i = i /\ r.u \in s.users

Steps == {"start", "hash", "check", "derive", "session", "end"}

IInv ==
    /\ Sound(state)
    /\ pc \in [Requests -> Steps]
    /\ DOMAIN next = Requests
    /\ \A r \in Requests : r.kind \in {"login", "join"} /\ pc[r] = "session" => Sound(next[r])

-----------------------------------------------------------------------------
(* The journal of recent commands *)

LEMMA SeqSet ==
    ASSUME NEW T, NEW s \in Seq(T)
    PROVE  ToSet(s) \subseteq T /\ ToSet(s) = {s[i] : i \in 1..Len(s)}
<1>1. ToSet(s) = {s[i] : i \in DOMAIN s} /\ DOMAIN s = 1..Len(s)
  BY LenProperties DEF ToSet
<1> QED
  BY <1>1, ElementOfSeq

\* The new identifier is remembered, and nothing that was not there before.
LEMMA RememberProperties ==
    ASSUME NEW ids \in Seq(CommandIds), NEW id \in CommandIds
    PROVE  Remember(ids, id) \in Seq(CommandIds) /\ id \in ToSet(Remember(ids, id))
<1> DEFINE all == Append(ids, id)
<1>1. /\ all \in Seq(CommandIds) /\ Len(all) = Len(ids) + 1 /\ all[Len(all)] = id
      /\ Len(ids) \in Nat /\ all # <<>>
  BY AppendProperties, LenProperties
<1> HIDE DEF all
<1>2. id \in ToSet(all)
  <2>1. ToSet(all) = {all[i] : i \in 1..Len(all)} /\ Len(all) \in 1..Len(all)
    BY <1>1, SeqSet
  <2> QED
    BY <1>1, <2>1
<1>3. CASE Len(all) > RecentLimit
  <2>1. /\ Tail(all) \in Seq(CommandIds) /\ Len(Tail(all)) = Len(ids)
        /\ \A i \in 1..Len(Tail(all)) : Tail(all)[i] = all[i + 1]
    BY <1>1, HeadTailProperties
  <2>2. RecentLimit \in Nat \ {0}
    BY HostAssumption
  <2>3. Len(ids) > 0 /\ Len(ids) \in 1..Len(Tail(all))
    BY <1>1, <1>3, <2>1, <2>2
  <2>4. Tail(all)[Len(ids)] = id
    BY <1>1, <2>1, <2>3
  <2>5. ToSet(Tail(all)) = {Tail(all)[i] : i \in 1..Len(Tail(all))}
    BY <2>1, SeqSet
  <2>6. id \in ToSet(Tail(all))
    BY <2>3, <2>4, <2>5
  <2> QED
    BY <1>3, <2>1, <2>6 DEF Remember, all
<1>4. CASE ~(Len(all) > RecentLimit)
  BY <1>1, <1>2, <1>4 DEF Remember, all
<1> QED
  BY <1>3, <1>4

\* A command that is new: what was done stays done, and it is applied again
\* only if it was forgotten.
LEMMA ChangedProperties ==
    ASSUME Sound(state), NEW r \in Requests, IsCommand(r), ~Seen(r), r.kind = "disable" => r.u \in Members,
           NEW s, s = Changed(r)
    PROVE  /\ Sound(s) /\ Done(state) \subseteq Done(s)
           /\ s.status = state.status /\ s.sessions = state.sessions
           /\ state.users = s.users /\ state.disabled \subseteq s.disabled
           /\ s.invites = state.invites /\ s.used = state.used
<1> DEFINE ids == Remember(state.recent, r.id)
           dropped == state.dropped \cup (ToSet(state.recent) \ ToSet(ids))
           repeated == IF r.id \in ToSet(state.recent) \cup state.dropped
                       THEN state.repeated \cup {r.id} ELSE state.repeated
           disabled == IF r.kind = "disable" THEN state.disabled \cup {r.u} ELSE state.disabled
<1>1. r.id \in CommandIds /\ state \in State /\ state.recent \in Seq(CommandIds)
  BY DEF CommandIds, Sound, State
<1>2. ids \in Seq(CommandIds) /\ ToSet(state.recent) \subseteq CommandIds
  BY <1>1, RememberProperties, SeqSet
<1>3. /\ dropped \subseteq CommandIds /\ repeated \subseteq CommandIds /\ disabled \subseteq Members
      /\ repeated \subseteq dropped /\ state.disabled \subseteq disabled
      /\ ToSet(state.recent) \cup state.dropped \subseteq ToSet(ids) \cup dropped
  BY <1>1, <1>2 DEF Sound, State, Seen
<1>4. s = [state EXCEPT !.recent = ids, !.dropped = dropped, !.repeated = repeated, !.disabled = disabled]
  BY <1>1 DEF Changed, State
<1>5. /\ s \in State /\ s.recent = ids /\ s.dropped = dropped /\ s.repeated = repeated
      /\ s.disabled = disabled /\ s.status = state.status /\ s.users = state.users
      /\ s.invites = state.invites /\ s.used = state.used /\ s.sessions = state.sessions
  <2> DEFINE A == {"active", "transfer_pending", "retired"}
             B == Seq(CommandIds)
             C == SUBSET CommandIds
             D == SUBSET (Members \cup {Owner})
             E == SUBSET Members
             F == SUBSET Invites
             G == SUBSET Requests
  <2>1. State = [status : A, recent : B, dropped : C, repeated : C, users : D, disabled : E,
                 invites : F, used : F, sessions : G]
    BY DEF State
  <2>2. ids \in B /\ dropped \in C /\ repeated \in C /\ disabled \in E
    BY <1>2, <1>3
  <2> HIDE DEF ids, dropped, repeated, disabled, A, B, C, D, E, F, G
  <2> QED
    BY <1>1, <1>4, <2>1, <2>2
<1> HIDE DEF ids, dropped, repeated, disabled
<1> QED
  BY <1>3, <1>5 DEF Sound, Done

-----------------------------------------------------------------------------
(* The other ways a state is made *)

LEMMA StatusSound ==
    ASSUME Sound(state), NEW x \in {"active", "transfer_pending", "retired"}, NEW s,
           s = [state EXCEPT !.status = x]
    PROVE  /\ Sound(s) /\ s.status = x /\ Done(s) = Done(state) /\ s.sessions = state.sessions
           /\ s.users = state.users /\ s.disabled = state.disabled
           /\ s.invites = state.invites /\ s.used = state.used
  BY DEF Sound, State, Done

LEMMA SessionsSound ==
    ASSUME Sound(state), NEW x \in SUBSET Requests, NEW s, s = [state EXCEPT !.sessions = x]
    PROVE  /\ Sound(s) /\ s.status = state.status /\ Done(s) = Done(state) /\ s.sessions = x
           /\ s.users = state.users /\ s.disabled = state.disabled
           /\ s.invites = state.invites /\ s.used = state.used
  BY DEF Sound, State, Done

LEMMA InviteSound ==
    ASSUME Sound(state), NEW i \in Invites, NEW s, s = [state EXCEPT !.invites = @ \cup {i}]
    PROVE  /\ Sound(s) /\ s.status = state.status /\ Done(s) = Done(state) /\ s.sessions = state.sessions
           /\ s.users = state.users /\ s.disabled = state.disabled
           /\ state.invites \subseteq s.invites /\ s.used = state.used
  BY DEF Sound, State, Done

\* A join puts the user and the spent invitation into one copy.
LEMMA JoinSound ==
    ASSUME Sound(state), NEW r \in Requests, r.kind = "join",
           NEW s, s = [state EXCEPT !.sessions = @ \cup {r}, !.users = @ \cup {r.u},
                                    !.invites = @ \cup {r.i}, !.used = @ \cup {r.i}]
    PROVE  Sound(s)
<1>1. r.u \in Members /\ r.i \in Invites /\ state \in State
  BY HostAssumption DEF Sound
<1>2. /\ s \in State /\ s.repeated = state.repeated /\ s.dropped = state.dropped
      /\ s.used = state.used \cup {r.i} /\ s.users = state.users \cup {r.u}
  BY <1>1 DEF State
<1> QED
  BY <1>2 DEF Sound

-----------------------------------------------------------------------------
(* The invariant *)

\* A step of r that leaves the copies alone.
LEMMA QuietStep ==
    ASSUME IInv, Sound(state'), NEW r \in Requests, NEW here, NEW there \in Steps \ {"session"},
           At(r, here, there), \/ next' = next
                               \/ next' = [next EXCEPT ![r] = NoState]
    PROVE  IInv'
  BY DEF IInv, At

\* What a step may do to the stored state, unless it writes a copy.
Onward ==
    /\ Done(state) \subseteq Done(state')
    /\ state.users \subseteq state'.users /\ state.disabled \subseteq state'.disabled
    /\ state.invites \subseteq state'.invites /\ state.used \subseteq state'.used
    /\ state'.sessions \subseteq state.sessions

\* Whatever the state, the socket serves others only while the device is the
\* main one, if it did before.
Serving ==
    /\ state.status = "retired" => state'.status = "retired"
    /\ state'.status # "active" /\ running' => state.status # "active" /\ running

LEMMA CommandStep ==
    ASSUME IInv, NEW r \in Requests, StartCommand(r) \/ FinishCommand(r)
    PROVE  IInv' /\ Onward /\ Serving
<1>1. CASE StartCommand(r)
  BY <1>1, QuietStep DEF StartCommand, IInv, Onward, Serving, Unchanged, Steps
<1>2. CASE FinishCommand(r)
  <2>1. r.kind = "disable" => r.u \in Members
    BY HostAssumption
  <2>2. IsCommand(r) /\ state' = (IF Seen(r) THEN state ELSE Changed(r)) /\ running' = running
    BY <1>2 DEF FinishCommand, Persist, PersistAnd
  <2>3. /\ Sound(state') /\ Done(state) \subseteq Done(state')
        /\ state'.status = state.status /\ state'.sessions = state.sessions
        /\ state'.users = state.users /\ state.disabled \subseteq state'.disabled
        /\ state'.invites = state.invites /\ state'.used = state.used
    <3>1. CASE Seen(r)
      BY <2>2, <3>1 DEF IInv
    <3>2. CASE ~Seen(r)
      BY <2>1, <2>2, <3>2, ChangedProperties DEF IInv
    <3> QED
      BY <3>1, <3>2
  <2>4. IInv'
    BY <1>2, <2>3, QuietStep DEF FinishCommand, Steps
  <2> QED
    BY <2>2, <2>3, <2>4 DEF Onward, Serving
<1> QED
  BY <1>1, <1>2

\* A log-in or a join makes its copy, and writes it after another await.
LEMMA AccountStep ==
    ASSUME IInv, NEW r \in Requests,
           StartLogin(r) \/ DeriveLogin(r) \/ StartJoin(r) \/ CheckInvite(r) \/ DeriveJoin(r)
    PROVE  IInv' /\ Onward /\ Serving
<1>1. state' = state /\ running' = running
  BY DEF StartLogin, DeriveLogin, StartJoin, CheckInvite, DeriveJoin, Unchanged
<1>2. Sound(state') /\ Onward /\ Serving
  BY <1>1 DEF IInv, Onward, Serving
<1>3. CASE StartLogin(r) \/ StartJoin(r) \/ CheckInvite(r)
  BY <1>2, <1>3, QuietStep DEF StartLogin, StartJoin, CheckInvite, Steps
<1>4. ASSUME NEW s, Sound(s), At(r, "derive", "session"), next' = [next EXCEPT ![r] = s] PROVE IInv'
  BY <1>2, <1>4 DEF IInv, At, Steps
<1>5. CASE DeriveLogin(r)
  <2> DEFINE x == state.sessions \cup {r}
             s == [state EXCEPT !.sessions = @ \cup {r}]
  <2>1. x \in SUBSET Requests /\ s = [state EXCEPT !.sessions = x]
    BY DEF IInv, Sound, State
  <2>2. Sound(s)
    <3> HIDE DEF x, s
    <3> QED
      BY <2>1, SessionsSound DEF IInv
  <2> QED
    BY <1>2, <1>4, <1>5, <2>2 DEF DeriveLogin
<1>6. CASE DeriveJoin(r)
  BY <1>2, <1>4, <1>6, JoinSound DEF DeriveJoin, IInv
<1> QED
  BY <1>2, <1>3, <1>5, <1>6

LEMMA FinishAccountStep ==
    ASSUME IInv, NEW r \in Requests, FinishAccount(r)
    PROVE  IInv' /\ StaleAccount
<1>1. Sound(state') /\ At(r, "session", "end") /\ next' = [next EXCEPT ![r] = NoState]
  BY DEF FinishAccount, Persist, PersistAnd, IInv, At
<1>2. StaleAccount
  BY <1>1 DEF FinishAccount, StaleAccount
<1> QED
  BY <1>1, <1>2, QuietStep DEF Steps

LEMMA InviteStep ==
    ASSUME IInv, NEW r \in Requests,
           StartInvite(r) \/ FinishInvite(r) \/ StartLogout(r) \/ FinishLogout(r) \/ Refuse(r)
    PROVE  IInv' /\ Onward /\ Serving
<1>1. CASE StartInvite(r) \/ StartLogout(r)
  BY <1>1, QuietStep DEF StartInvite, StartLogout, IInv, Onward, Serving, Unchanged, Steps
<1>2. CASE Refuse(r)
  <2>1. PICK here : At(r, here, "end")
    BY <1>2 DEF Refuse, At
  <2> QED
    BY <1>2, <2>1, QuietStep DEF Refuse, IInv, Onward, Serving, Unchanged, Steps
<1>3. CASE FinishInvite(r)
  <2>1. r.i \in Invites /\ state' = [state EXCEPT !.invites = @ \cup {r.i}] /\ running' = running
    BY <1>3, HostAssumption DEF FinishInvite, Persist, PersistAnd
  <2>2. /\ Sound(state') /\ state'.status = state.status /\ Done(state') = Done(state)
        /\ state'.sessions = state.sessions /\ state'.users = state.users /\ state'.disabled = state.disabled
        /\ state.invites \subseteq state'.invites /\ state'.used = state.used
    BY <2>1, InviteSound DEF IInv
  <2> QED
    BY <1>3, <2>1, <2>2, QuietStep DEF FinishInvite, Onward, Serving, Steps
<1>4. CASE FinishLogout(r)
  <2> DEFINE x == state.sessions \ {r.login}
  <2>1. x \in SUBSET Requests /\ state' = [state EXCEPT !.sessions = x] /\ running' = running
    BY <1>4 DEF FinishLogout, Persist, PersistAnd, IInv, Sound, State
  <2>2. /\ Sound(state') /\ state'.status = state.status /\ Done(state') = Done(state)
        /\ state'.sessions = x /\ state'.users = state.users /\ state'.disabled = state.disabled
        /\ state'.invites = state.invites /\ state'.used = state.used
    <3> HIDE DEF x
    <3> QED
      BY <2>1, SessionsSound DEF IInv
  <2> QED
    BY <1>4, <2>1, <2>2, QuietStep DEF FinishLogout, Onward, Serving, Steps
<1> QED
  BY <1>1, <1>2, <1>3, <1>4

\* Only a prepare that began while the device was active writes over what the
\* transfer became in between.
LEMMA TransferStep ==
    ASSUME IInv, NEW r \in Requests,
           StartPrepare(r) \/ FinishPrepare(r) \/ PrepareAgain(r) \/ Cancel(r) \/ Confirm(r)
    PROVE  IInv' /\ Onward /\ (Serving \/ StalePrepare)
<1>1. CASE StartPrepare(r)
  BY <1>1, QuietStep DEF StartPrepare, IInv, Onward, Serving, Unchanged, Steps
<1>2. CASE PrepareAgain(r)
  BY <1>2, QuietStep DEF PrepareAgain, Persist, PersistAnd, IInv, Onward, Serving, Steps
<1>3. ASSUME NEW x \in {"active", "transfer_pending", "retired"}, state' = [state EXCEPT !.status = x],
             NEW here, At(r, here, "end"), next' = next
      PROVE  IInv' /\ Onward /\ state'.status = x
  <2>1. /\ Sound(state') /\ state'.status = x /\ Done(state') = Done(state)
        /\ state'.sessions = state.sessions
        /\ state'.users = state.users /\ state'.disabled = state.disabled
        /\ state'.invites = state.invites /\ state'.used = state.used
    BY <1>3, StatusSound DEF IInv
  <2> QED
    BY <1>3, <2>1, QuietStep DEF Onward, Steps
<1>4. CASE FinishPrepare(r)
  <2>1. IInv' /\ Onward
    BY <1>3, <1>4 DEF FinishPrepare, PersistAnd
  <2> QED
    BY <1>4, <2>1 DEF FinishPrepare, StalePrepare
<1>5. CASE Cancel(r)
  <2>1. IInv' /\ Onward /\ state'.status = "active"
    BY <1>3, <1>5 DEF Cancel, PersistAnd
  <2> QED
    BY <1>5, <2>1 DEF Cancel, CanCancel, Serving
<1>6. CASE Confirm(r)
  <2>1. IInv' /\ Onward /\ state'.status = "retired" /\ ~running'
    BY <1>3, <1>6 DEF Confirm, PersistAnd
  <2> QED
    BY <2>1 DEF Serving
<1> QED
  BY <1>1, <1>2, <1>4, <1>5, <1>6

LEMMA StepHolds ==
    ASSUME IInv, [Next]_vars
    PROVE  IInv' /\ (Onward \/ StaleAccount) /\ (Serving \/ StaleAccount \/ StalePrepare)
<1>1. CASE UNCHANGED vars
  BY <1>1 DEF vars, IInv, Onward, Serving
<1>2. ASSUME NEW r \in Requests, Step(r)
      PROVE  IInv' /\ (Onward \/ StaleAccount) /\ (Serving \/ StaleAccount \/ StalePrepare)
  BY <1>2, CommandStep, AccountStep, FinishAccountStep, InviteStep, TransferStep DEF Step
<1>3. CASE Load
  BY <1>3 DEF Load, IInv, Steps, Onward, Serving
<1>4. CASE NativeStopped \/ Resume
  BY <1>4 DEF NativeStopped, Resume, IInv, Onward, Serving
<1> QED
  BY <1>1, <1>2, <1>3, <1>4 DEF Next

\* The invariant the other theorems follow from: whatever is about to be written is sound.
THEOREM Inductive == Spec => []IInv
<1>1. Init => IInv
  <2> SUFFICES ASSUME Init PROVE IInv
    OBVIOUS
  <2>1. PICK joined \in SUBSET Members :
            state = [status |-> "active", recent |-> <<>>, dropped |-> {}, repeated |-> {},
                     users |-> joined \cup {Owner}, disabled |-> {},
                     invites |-> {}, used |-> {}, sessions |-> {}]
    BY DEF Init
  <2>2. <<>> \in Seq(CommandIds)
    OBVIOUS
  <2>3. Sound(state)
    BY <2>1, <2>2 DEF Sound, State
  <2>4. pc \in [Requests -> {"start", "end"}] /\ DOMAIN next = Requests
    BY DEF Init
  <2> QED
    BY <2>3, <2>4 DEF IInv, Steps
<1>2. IInv /\ [Next]_vars => IInv'
  BY StepHolds
<1> QED
  BY <1>1, <1>2, PTL DEF Spec

\* A command is applied once, however many copies of it are between two awaits
\* at the same time, as long as it is among the last RecentLimit ones.
THEOREM CommandsOnce == Spec => []AppliedOnce
<1>1. IInv => AppliedOnce
  BY DEF IInv, Sound, AppliedOnce
<1> QED
  BY <1>1, Inductive, PTL

\* An invitation is spent in the step that stores the user it was spent for,
\* whichever copy of the state that step writes.
THEOREM InvitesSpent == Spec => []InviteSpentWithUser
<1>1. IInv => InviteSpentWithUser
  BY DEF IInv, Sound, InviteSpentWithUser
<1> QED
  BY <1>1, Inductive, PTL

\* What was stored is only undone by a log-in or a join that kept its copy over
\* an await; a retired device only comes back, or serves others while it may
\* not, that way or by a prepare that began while it was active.
THEOREM StaleWritesUndo == Spec => OnlyStaleWritesUndo
<1>1. ASSUME IInv, [Next]_vars
      PROVE  /\ Forgets => StaleAccount
             /\ Misplaced => StaleAccount \/ StalePrepare
  <2>1. Onward => ~Forgets
    BY DEF Onward, Forgets
  <2>2. Serving => ~Misplaced
    BY DEF Serving, Misplaced
  <2> QED
    BY <1>1, <2>1, <2>2, StepHolds
<1>2. IInv /\ [Next]_vars => [/\ Forgets => StaleAccount
                              /\ Misplaced => StaleAccount \/ StalePrepare]_vars
  BY <1>1
<1> QED
  BY <1>2, Inductive, PTL DEF Spec, OnlyStaleWritesUndo

-----------------------------------------------------------------------------
(***************************************************************************)
(* The protected transport of the same host, SecureLink, a module of its   *)
(* own: a protected request is carried out once while the main device      *)
(* remembers it, for any number of envelopes, any ages and any size of the *)
(* cache, and a page never goes back to fewer movements.                   *)
(***************************************************************************)


Envelope ==
    [id : Ids, at : Int, ahead : Int, kind : {"state", "command", "login"}, to : Hosts]

SeenAt == [id : Ids, seen : Int]

Snapshot == [id : Ids, epoch : Hosts, seq : Int]

LinkTypes ==
    /\ now \in Int /\ main \in Hosts
    /\ sent \subseteq Envelope
    /\ cache \in [Hosts -> SUBSET SeenAt]
    /\ seq \in [Hosts -> Int]
    /\ answers \subseteq Snapshot
    /\ waiting \in [Askers -> Envelope \cup {NoEnvelope}]
    /\ page \in [server : Hosts, epoch : Hosts, seq : Int]
    /\ runs \subseteq SeenAt
    /\ life \in Lives

\* One envelope per identifier.
Unrepeated == \A m, n \in sent : m.id = n.id => m = n

\* An envelope was carried out within its time, not before it was sent.
RunInTime ==
    \A r \in runs : \E m \in sent :
        /\ m.id = r.id
        /\ r.seen >= m.at - Fresh /\ r.seen >= m.at - m.ahead /\ r.seen <= now

SentBefore == \A m \in sent : m.at - m.ahead <= now

\* What was carried out is in the cache, or was dropped, or is too old.
Remembered ==
    \A r \in runs, m \in sent :
        m.id = r.id => \/ r \in cache[m.to]
                       \/ r.id \in forgotten
                       \/ now > r.seen + Keep

LinkInv == LinkTypes /\ Unrepeated /\ SentBefore /\ RunInTime /\ Remembered /\ ExecutedOnce

-----------------------------------------------------------------------------

LEMMA InitLinkTypes == LinkInit => LinkTypes
BY LinkAssumption DEF LinkInit, LinkTypes, Hosts, Askers, SeenAt, Snapshot, Envelope

LEMMA DeliverTypeOK ==
    ASSUME LinkTypes, NEW m \in sent, NEW d \in 0..Pause, Deliver(m, now + d)
    PROVE  LinkTypes'
<1>1. now + d \in Int /\ m \in Envelope
  BY LinkAssumption DEF LinkTypes
<1>2. [id |-> m.id, seen |-> now + d] \in SeenAt
  BY <1>1 DEF Envelope, SeenAt
<1>3. cache[m.to] \in SUBSET SeenAt /\ m.to \in Hosts /\ seq[m.to] \in Int
  BY <1>1 DEF LinkTypes, Envelope
<1>4. cache' \in [Hosts -> SUBSET SeenAt]
  BY <1>2, <1>3 DEF Deliver, Purged, LinkTypes
<1>5. seq' \in [Hosts -> Int] /\ answers' \subseteq Snapshot
  BY <1>1, <1>3 DEF Deliver, LinkTypes, Snapshot, Envelope
<1>6. runs' \subseteq SeenAt /\ now' \in Int
  BY <1>1, <1>2 DEF Deliver, LinkTypes
<1> QED
  BY <1>4, <1>5, <1>6 DEF Deliver, LinkTypes, client

LEMMA NextLinkTypes == LinkTypes /\ [LinkNext]_linkVars => LinkTypes'
<1> SUFFICES ASSUME LinkTypes, [LinkNext]_linkVars PROVE LinkTypes'
  OBVIOUS
<1>1. ASSUME NEW a \in Askers, Send(a) PROVE LinkTypes'
  <2>1. PICK id \in Ids, ahead \in life.ahead, kind \in {"state", "command", "login"}, to \in Hosts :
          LET m == [id |-> id, at |-> now + ahead, ahead |-> ahead, kind |-> kind, to |-> to]
          IN  sent' = sent \cup {m} /\ waiting' = [waiting EXCEPT ![a] = m]
    <3>1. 1..main \subseteq Hosts /\ page.server \in Hosts
      BY DEF LinkTypes, Hosts
    <3> QED
      BY <1>1, <3>1, Zenon DEF Send
  <2>2. ahead \in Int
    BY LinkAssumption DEF LinkTypes
  <2>3. [id |-> id, at |-> now + ahead, ahead |-> ahead, kind |-> kind, to |-> to] \in Envelope
    BY <2>2 DEF Envelope, LinkTypes
  <2> QED
    BY <1>1, <2>1, <2>3 DEF Send, LinkTypes, hosts, history
<1>2. ASSUME NEW a \in Askers, ReceiveAnswer(a) PROVE LinkTypes'
  <2>1. PICK s \in answers :
          /\ waiting' = [waiting EXCEPT ![a] = NoEnvelope]
          /\ page' = CASE a = "login" -> [server |-> s.epoch, epoch |-> s.epoch, seq |-> s.seq]
                       [] a = "sync" /\ Older(s) -> page
                       [] OTHER -> [page EXCEPT !.epoch = s.epoch, !.seq = s.seq]
          /\ answers' = answers \ {s}
          /\ UNCHANGED <<now, sent, hosts, history>>
    BY <1>2 DEF ReceiveAnswer
  <2>2. s.epoch \in Hosts /\ s.seq \in Int
    BY DEF LinkTypes, Snapshot
  <2>3. page' \in [server : Hosts, epoch : Hosts, seq : Int]
    <3>1. CASE a = "login"
      BY <2>1, <2>2, <3>1
    <3>2. CASE a # "login" /\ Older(s)
      BY <2>1, <3>2 DEF LinkTypes, Askers
    <3>3. CASE a # "login" /\ ~Older(s)
      BY <2>1, <2>2, <3>3 DEF LinkTypes, Askers
    <3> QED
      BY <3>1, <3>2, <3>3
  <2> QED
    BY <2>1, <2>3 DEF LinkTypes, hosts, history
<1>3. ASSUME NEW a \in Askers, GiveUp(a) PROVE LinkTypes'
  BY <1>3 DEF GiveUp, LinkTypes, hosts, history
<1>4. ASSUME NEW m \in sent, NEW d \in 0..Pause, Deliver(m, now + d) PROVE LinkTypes'
  BY <1>4, DeliverTypeOK
<1>5. ASSUME NEW h \in Hosts, Restart(h) PROVE LinkTypes'
  BY <1>5 DEF Restart, LinkTypes, client
<1>6. CASE TakeOver
  BY <1>6 DEF TakeOver, LinkTypes, client, history, Hosts
<1>7. CASE Tick
  BY <1>7 DEF Tick, LinkTypes, hosts, client, history
<1>8. CASE UNCHANGED linkVars
  BY <1>8 DEF linkVars, LinkTypes
<1> QED
  BY <1>1, <1>2, <1>3, <1>4, <1>5, <1>6, <1>7, <1>8 DEF LinkNext

-----------------------------------------------------------------------------

LEMMA InitLinkInv == LinkInit => LinkInv
BY InitLinkTypes DEF LinkInv, LinkInit, Unrepeated, SentBefore, RunInTime, Remembered, ExecutedOnce

\* A step that only lets time pass or forgets identifiers keeps all of it.
LEMMA QuietLinkInv ==
    ASSUME LinkInv, LinkTypes', now' >= now, sent' = sent, runs' = runs, again' = again,
           forgotten \subseteq forgotten',
           \A h \in Hosts : \A o \in cache[h] : o \in cache'[h] \/ o.id \in forgotten'
    PROVE  LinkInv'
<1>1. now \in Int /\ now' \in Int
  BY DEF LinkInv, LinkTypes
<1>2. \A m \in sent : m.to \in Hosts /\ m.at \in Int /\ m.ahead \in Int
  BY DEF LinkInv, LinkTypes, Envelope
<1>3. \A r \in runs : r.seen \in Int
  BY DEF LinkInv, LinkTypes, SeenAt
<1>4. SentBefore' /\ RunInTime'
  BY <1>1, <1>2, <1>3, LinkAssumption DEF LinkInv, SentBefore, RunInTime
<1>5. Remembered'
  BY <1>1, <1>2, <1>3, LinkAssumption DEF LinkInv, Remembered
<1>6. Unrepeated' /\ ExecutedOnce'
  BY DEF LinkInv, Unrepeated, ExecutedOnce
<1> QED
  BY <1>4, <1>5, <1>6 DEF LinkInv

LEMMA SendIInv ==
    ASSUME LinkInv, LinkTypes', NEW a \in Askers, Send(a)
    PROVE  LinkInv'
<1>1. PICK m :
        /\ \A other \in sent : other.id # m.id
        /\ sent' = sent \cup {m}
        /\ m.at - m.ahead <= now
  <2>1. PICK id \in Ids, ahead \in life.ahead,
             kind \in life.kinds \cap (IF a = "sync" THEN {"state", "command"} ELSE {"login"}),
             to \in (IF a = "sync" THEN {page.server} ELSE 1..main) :
          /\ \A other \in sent : other.id # id
          /\ sent' = sent \cup {[id |-> id, at |-> now + ahead, ahead |-> ahead,
                                 kind |-> kind, to |-> to]}
    BY Zenon DEF Send
  <2>2. ahead \in Int /\ now \in Int
    BY LinkAssumption DEF LinkInv, LinkTypes
  <2> DEFINE m == [id |-> id, at |-> now + ahead, ahead |-> ahead, kind |-> kind, to |-> to]
  <2>3. m.id = id /\ m.at - m.ahead <= now
    BY <2>2
  <2>4. sent' = sent \cup {m}
    BY <2>1
  <2> QED
    BY <2>1, <2>3, <2>4
<1>2. UNCHANGED <<now, cache, runs, again, forgotten>>
  BY DEF Send, hosts, history
<1>3. Unrepeated' /\ SentBefore' /\ RunInTime' /\ ExecutedOnce'
  BY <1>1, <1>2 DEF LinkInv, Unrepeated, SentBefore, RunInTime, ExecutedOnce
<1>4. \A r \in runs : r.id # m.id
  BY <1>1 DEF LinkInv, RunInTime
<1>5. Remembered'
  BY <1>1, <1>2, <1>4 DEF LinkInv, Remembered
<1> QED
  BY <1>3, <1>5 DEF LinkInv

\* The heart of it: what was purged by now + d was seen before now + d - Keep,
\* when its envelope was at least Fresh - Pause in the future.
LEMMA DeliverIInv ==
    ASSUME LinkInv, LinkTypes', NEW m \in sent, NEW d \in 0..Pause, Deliver(m, now + d)
    PROVE  LinkInv'
<1> DEFINE t == now + d
           kept == Purged(cache[m.to], t)
           one == [id |-> m.id, seen |-> t]
<1>1. /\ now \in Int /\ t \in Int /\ t >= now /\ t <= now + Pause
      /\ Fresh \in Nat /\ Pause \in Nat /\ Keep \in Nat /\ Keep >= 2 * Fresh
  BY LinkAssumption DEF LinkInv, LinkTypes
<1>2. m.to \in Hosts /\ m.at \in Int /\ m.ahead \in Int /\ now - m.at <= Fresh /\ m.at - now <= Fresh
  BY <1>1 DEF LinkInv, LinkTypes, Envelope, Deliver, Timely, Distance
<1>3. PICK lost \in Evicted(kept) :
        /\ cache' = [cache EXCEPT ![m.to] = (kept \ lost) \cup {one}]
        /\ forgotten' = forgotten \cup {o.id : o \in lost}
  BY Zenon DEF Deliver
<1>4. /\ \A o \in kept : o.id # m.id
      /\ now' = t /\ runs' = runs \cup {one} /\ sent' = sent
      /\ again' = IF \E r \in runs : r.id = m.id THEN again \cup {m.id} ELSE again
  BY DEF Deliver
<1>5. \A r \in runs : r.seen \in Int /\ r.seen <= now
  BY DEF LinkInv, LinkTypes, SeenAt, RunInTime
<1>6. \A n \in sent : n.to \in Hosts /\ n.at \in Int /\ n.ahead \in Int
  BY DEF LinkInv, LinkTypes, Envelope
<1>7. cache \in [Hosts -> SUBSET SeenAt]
  BY DEF LinkInv, LinkTypes
<1>8. Unrepeated' /\ SentBefore'
  BY <1>1, <1>4, <1>6 DEF LinkInv, Unrepeated, SentBefore
<1>9. RunInTime'
  <2>1. one.id = m.id /\ one.seen >= m.at - Fresh /\ one.seen >= m.at - m.ahead /\ one.seen <= t
    BY <1>1, <1>2 DEF LinkInv, SentBefore
  <2>2. ASSUME NEW r \in runs
        PROVE  \E n \in sent : /\ n.id = r.id
                               /\ r.seen >= n.at - Fresh /\ r.seen >= n.at - n.ahead /\ r.seen <= t
    <3>1. PICK n \in sent : n.id = r.id /\ r.seen >= n.at - Fresh /\ r.seen >= n.at - n.ahead
      BY DEF LinkInv, RunInTime
    <3> QED
      BY <3>1, <1>1, <1>5
  <2> QED
    BY <1>4, <2>1, <2>2 DEF RunInTime
<1>10. Remembered'
  <2> SUFFICES ASSUME NEW r \in runs', NEW n \in sent, n.id = r.id
               PROVE  r \in cache'[n.to] \/ r.id \in forgotten' \/ t > r.seen + Keep
    BY <1>4 DEF Remembered
  <2>1. CASE r = one
    <3>1. n = m
      BY <2>1 DEF LinkInv, Unrepeated
    <3> QED
      BY <1>2, <1>3, <1>7, <2>1, <3>1
  <2>2. CASE r \in runs /\ n.to = m.to
    <3>1. CASE r \in cache[n.to] /\ t - r.seen <= Keep
      <4>1. r \in kept
        BY <2>2, <3>1 DEF Purged
      <4> QED
        BY <1>2, <1>3, <1>7, <2>2, <4>1
    <3>2. CASE t - r.seen > Keep
      BY <1>1, <1>5, <2>2, <3>2
    <3>3. CASE r \notin cache[n.to] /\ t - r.seen <= Keep
      BY <1>1, <1>3, <1>5, <2>2, <3>3 DEF LinkInv, Remembered
    <3> QED
      BY <1>1, <1>5, <2>2, <3>1, <3>2, <3>3
  <2>3. CASE r \in runs /\ n.to # m.to
    <3>1. cache'[n.to] = cache[n.to]
      BY <1>3, <1>6, <1>7, <2>3
    <3> QED
      BY <1>1, <1>3, <1>5, <2>3, <3>1 DEF LinkInv, Remembered
  <2> QED
    BY <1>4, <2>1, <2>2, <2>3
<1>11. ExecutedOnce'
  <2>1. ASSUME NEW r \in runs, r.id = m.id
        PROVE  m.id \in forgotten' \/ m.ahead > Fresh - Pause
    <3>1. r \in cache[m.to] \/ r.id \in forgotten \/ now > r.seen + Keep
      BY <2>1 DEF LinkInv, Remembered
    <3>2. CASE r.id \in forgotten
      BY <1>3, <2>1, <3>2
    <3>3. CASE t - r.seen > Keep
      <4>1. PICK n \in sent : /\ n.id = r.id
                              /\ r.seen >= n.at - Fresh /\ r.seen >= n.at - n.ahead
        BY <2>1 DEF LinkInv, RunInTime
      <4>2. n = m
        BY <2>1, <4>1 DEF LinkInv, Unrepeated
      <4>3. r.seen >= m.at - m.ahead /\ r.seen \in Int /\ t > r.seen + Keep
        BY <1>1, <1>5, <3>3, <4>1, <4>2
      <4>4. t <= m.at + Fresh + Pause
        BY <1>1, <1>2
      <4> QED
        BY <1>1, <1>2, <4>3, <4>4
    <3>4. CASE r \in cache[m.to] /\ t - r.seen <= Keep
      BY <1>4, <2>1, <3>4 DEF Purged
    <3>5. CASE now > r.seen + Keep
      BY <1>1, <1>5, <3>3, <3>5
    <3> QED
      BY <1>1, <1>5, <3>1, <3>2, <3>3, <3>4, <3>5
  <2>2. ASSUME NEW id \in again
        PROVE  id \in forgotten' \/ \E n \in sent : n.id = id /\ n.ahead > Fresh - Pause
    BY <1>3 DEF LinkInv, ExecutedOnce
  <2> QED
    BY <1>4, <2>1, <2>2 DEF ExecutedOnce
<1> QED
  BY <1>8, <1>9, <1>10, <1>11 DEF LinkInv

LEMMA NextLinkInv == LinkInv /\ [LinkNext]_linkVars => LinkInv'
<1> SUFFICES ASSUME LinkInv, [LinkNext]_linkVars PROVE LinkInv'
  OBVIOUS
<1>1. LinkTypes' /\ now \in Int
  BY NextLinkTypes DEF LinkInv, LinkTypes
<1>2. ASSUME NEW a \in Askers, Send(a) PROVE LinkInv'
  BY <1>1, <1>2, SendIInv
<1>3. ASSUME NEW a \in Askers, ReceiveAnswer(a) \/ GiveUp(a) PROVE LinkInv'
  <2>1. UNCHANGED <<now, sent, hosts, history>>
    BY <1>3, Zenon DEF ReceiveAnswer, GiveUp
  <2> QED
    BY <1>1, <2>1, QuietLinkInv DEF hosts, history
<1>4. ASSUME NEW m \in sent, NEW d \in 0..Pause, Deliver(m, now + d) PROVE LinkInv'
  BY <1>1, <1>4, DeliverIInv
<1>5. ASSUME NEW h \in Hosts, Restart(h) PROVE LinkInv'
  <2>1. \A k \in Hosts : \A o \in cache[k] : o \in cache'[k] \/ o.id \in forgotten'
    BY <1>5 DEF Restart, LinkInv, LinkTypes
  <2> QED
    BY <1>1, <1>5, <2>1, QuietLinkInv DEF Restart
<1>6. CASE TakeOver
  BY <1>1, <1>6, QuietLinkInv DEF TakeOver, history
<1>7. CASE Tick
  BY <1>1, <1>7, QuietLinkInv DEF Tick, hosts, history
<1>8. CASE UNCHANGED linkVars
  BY <1>1, <1>8, QuietLinkInv DEF linkVars
<1> QED
  BY <1>2, <1>3, <1>4, <1>5, <1>6, <1>7, <1>8 DEF LinkNext

\* A protected request is carried out once, unless the main device lost its
\* identifier or the sender's clock was far ahead (web/host.js:101).
THEOREM ProtectedOnce == LinkSpec => []ExecutedOnce
<1>1. LinkInit => LinkInv
  BY InitLinkInv
<1>2. LinkInv /\ [LinkNext]_linkVars => LinkInv'
  BY NextLinkInv
<1>3. LinkInv => ExecutedOnce
  BY DEF LinkInv
<1> QED
  BY <1>1, <1>2, <1>3, PTL DEF LinkSpec

-----------------------------------------------------------------------------

\* The second device begins where the first one stopped.
Continued ==
    /\ \A m \in sent : m.to <= main
    /\ page.server <= main /\ page.epoch <= main /\ page.seq <= seq[page.epoch]
    /\ \A s \in answers :
        /\ s.epoch <= main
        /\ s.epoch = 2 => s.seq >= seq[1]
        /\ s.seq <= seq[s.epoch]
    /\ main = 2 => seq[1] <= seq[2]

SInv == LinkTypes /\ Continued

LEMMA InitSInv == LinkInit => SInv
BY InitLinkTypes DEF LinkInit, SInv, Continued, Hosts

LEMMA NextSInv == SInv /\ [LinkNext]_linkVars => SInv'
<1> SUFFICES ASSUME SInv, [LinkNext]_linkVars PROVE SInv'
  OBVIOUS
<1>1. LinkTypes /\ LinkTypes'
  BY NextLinkTypes DEF SInv
<1>2. ASSUME NEW a \in Askers, Send(a) PROVE Continued'
  <2>1. PICK m : sent' = sent \cup {m} /\ m.to <= main
    <3>1. PICK id \in Ids, ahead \in life.ahead,
               kind \in life.kinds \cap (IF a = "sync" THEN {"state", "command"} ELSE {"login"}),
               to \in (IF a = "sync" THEN {page.server} ELSE 1..main) :
            sent' = sent \cup {[id |-> id, at |-> now + ahead, ahead |-> ahead,
                                kind |-> kind, to |-> to]}
      BY <1>2, Zenon DEF Send
    <3>2. to <= main
      BY <1>1 DEF SInv, Continued, LinkTypes, Hosts
    <3> DEFINE m == [id |-> id, at |-> now + ahead, ahead |-> ahead, kind |-> kind, to |-> to]
    <3>3. sent' = sent \cup {m} /\ m.to <= main
      BY <3>1, <3>2
    <3> QED
      BY <3>3
  <2>2. UNCHANGED <<main, seq, answers, page>>
    BY <1>2 DEF Send, hosts
  <2> QED
    BY <2>1, <2>2 DEF SInv, Continued
<1>3. ASSUME NEW a \in Askers, ReceiveAnswer(a) PROVE Continued'
  <2>1. PICK s \in answers :
          /\ page' = CASE a = "login" -> [server |-> s.epoch, epoch |-> s.epoch, seq |-> s.seq]
                       [] a = "sync" /\ Older(s) -> page
                       [] OTHER -> [page EXCEPT !.epoch = s.epoch, !.seq = s.seq]
          /\ answers' = answers \ {s}
          /\ UNCHANGED <<now, sent, hosts, history>>
    BY <1>3, Zenon DEF ReceiveAnswer
  <2>2. \/ page' = page
        \/ /\ page'.server \in {s.epoch, page.server}
           /\ page'.epoch = s.epoch /\ page'.seq = s.seq
    <3>1. CASE a = "login"
      BY <2>1, <3>1
    <3>2. CASE a # "login" /\ Older(s)
      BY <2>1, <3>2 DEF Askers
    <3>3. CASE a # "login" /\ ~Older(s)
      BY <1>1, <2>1, <3>3 DEF Askers, LinkTypes
    <3> QED
      BY <3>1, <3>2, <3>3
  <2> QED
    BY <2>1, <2>2 DEF SInv, Continued, hosts
<1>4. ASSUME NEW a \in Askers, GiveUp(a) PROVE Continued'
  BY <1>4 DEF GiveUp, SInv, Continued, hosts
<1>5. ASSUME NEW m \in sent, NEW d \in 0..Pause, Deliver(m, now + d) PROVE Continued'
  <2>1. PICK n \in Int :
          /\ n >= seq[m.to] /\ (n # seq[m.to] => m.to = main)
          /\ seq' = [seq EXCEPT ![m.to] = n]
          /\ answers' \subseteq answers \cup {[id |-> m.id, epoch |-> m.to, seq |-> n]}
    <3>1. m.to \in Hosts /\ seq[m.to] \in Int
      BY <1>1 DEF LinkTypes, Envelope
    <3> DEFINE n == IF m.kind = "command" /\ m.to = main /\ ~\E r \in runs : r.id = m.id
                    THEN seq[m.to] + 1 ELSE seq[m.to]
    <3>2. /\ seq' = [seq EXCEPT ![m.to] = n]
          /\ answers' \subseteq answers \cup {[id |-> m.id, epoch |-> m.to, seq |-> n]}
      BY <1>5 DEF Deliver
    <3>3. n \in Int /\ n >= seq[m.to] /\ (n # seq[m.to] => m.to = main)
      BY <3>1
    <3> QED
      BY <3>2, <3>3
  <2>2. UNCHANGED <<sent, main, page>>
    BY <1>5 DEF Deliver, client
  <2>3. m.to \in {1, 2} /\ m.to <= main /\ main \in {1, 2} /\ seq[1] \in Int /\ seq[2] \in Int
    BY <1>1 DEF LinkTypes, Envelope, Hosts, SInv, Continued
  <2>4. /\ \A h \in Hosts : seq'[h] = IF h = m.to THEN n ELSE seq[h]
        /\ \A h \in Hosts : seq'[h] \in Int /\ seq'[h] >= seq[h]
        /\ main = 2 => seq'[1] = seq[1]
    BY <1>1, <2>1, <2>3 DEF LinkTypes, Hosts
  <2>5. ASSUME NEW s \in answers'
        PROVE  s.epoch <= main /\ (s.epoch = 2 => s.seq >= seq'[1]) /\ s.seq <= seq'[s.epoch]
    <3>1. CASE s \in answers
      <4>1. s.epoch \in Hosts /\ s.seq \in Int /\ s.epoch <= main
        BY <1>1, <3>1 DEF LinkTypes, Snapshot, SInv, Continued
      <4>2. s.seq <= seq[s.epoch] /\ (s.epoch = 2 => s.seq >= seq[1])
        BY <3>1 DEF SInv, Continued
      <4>3. s.epoch = 2 => main = 2
        BY <2>3, <4>1
      <4> QED
        BY <2>3, <2>4, <4>1, <4>2, <4>3 DEF Hosts
    <3>2. CASE s = [id |-> m.id, epoch |-> m.to, seq |-> n]
      <4>1. s.epoch = m.to /\ s.seq = n
        BY <3>2
      <4>2. m.to = 2 => main = 2 /\ seq[1] <= seq[2]
        BY <2>3 DEF SInv, Continued
      <4> QED
        BY <2>1, <2>3, <2>4, <4>1, <4>2 DEF Hosts
    <3> QED
      BY <2>1, <3>1, <3>2
  <2>6. page.seq <= seq'[page.epoch] /\ (main = 2 => seq'[1] <= seq'[2])
    BY <1>1, <2>3, <2>4 DEF SInv, Continued, LinkTypes, Hosts
  <2> QED
    BY <2>2, <2>5, <2>6 DEF SInv, Continued
<1>6. ASSUME NEW h \in Hosts, Restart(h) PROVE Continued'
  BY <1>6 DEF Restart, SInv, Continued, client
<1>7. ASSUME TakeOver PROVE Continued'
  <2>1. seq'[1] = seq[1] /\ seq'[2] = seq[1] /\ main' = 2 /\ main = 1
    BY <1>1, <1>7 DEF TakeOver, LinkTypes, Hosts
  <2>2. UNCHANGED <<sent, answers, page>>
    BY <1>7 DEF TakeOver, client
  <2>3. page.epoch = 1 /\ page.server = 1 /\ \A s \in answers : s.epoch = 1
    BY <1>1, <2>1 DEF SInv, Continued, LinkTypes, Snapshot, Hosts
  <2>4. \A m \in sent : m.to \in Hosts
    BY <1>1 DEF LinkTypes, Envelope
  <2>5. seq[1] \in Int
    BY <1>1 DEF LinkTypes, Hosts
  <2> QED
    BY <2>1, <2>2, <2>3, <2>4, <2>5 DEF SInv, Continued, Hosts
<1>8. ASSUME Tick PROVE Continued'
  BY <1>8 DEF Tick, SInv, Continued, hosts, client
<1>9. ASSUME UNCHANGED linkVars PROVE Continued'
  BY <1>9 DEF linkVars, SInv, Continued
<1> QED
  BY <1>1, <1>2, <1>3, <1>4, <1>5, <1>6, <1>7, <1>8, <1>9 DEF LinkNext, SInv

LEMMA StepMovements ==
    SInv /\ [LinkNext]_linkVars => page'.seq >= page.seq \/ waiting["login"] # waiting'["login"]
<1> SUFFICES ASSUME SInv, [LinkNext]_linkVars, waiting["login"] = waiting'["login"]
             PROVE  page'.seq >= page.seq
  OBVIOUS
<1>1. page.seq \in Int
  BY DEF SInv, LinkTypes
<1>2. ASSUME NEW a \in Askers, ReceiveAnswer(a) PROVE page'.seq >= page.seq
  <2>1. a = "sync"
    BY <1>2 DEF ReceiveAnswer, SInv, LinkTypes, Askers
  <2>2. PICK s \in answers :
          page' = CASE a = "login" -> [server |-> s.epoch, epoch |-> s.epoch, seq |-> s.seq]
                    [] a = "sync" /\ Older(s) -> page
                    [] OTHER -> [page EXCEPT !.epoch = s.epoch, !.seq = s.seq]
    BY <1>2, Zenon DEF ReceiveAnswer
  <2>3. CASE Older(s)
    BY <1>1, <2>1, <2>2, <2>3
  <2>4. CASE ~Older(s)
    <3>1. page'.seq = s.seq
      BY <2>1, <2>2, <2>4 DEF SInv, LinkTypes
    <3>2. s.seq \in Int /\ s.epoch \in {1, 2} /\ page.epoch \in {1, 2} /\ seq[1] \in Int
      BY DEF SInv, LinkTypes, Snapshot, Hosts
    <3>3. page.seq <= s.seq \/ s.epoch > page.epoch
      BY <1>1, <2>4, <3>2 DEF Older
    <3>4. CASE s.epoch > page.epoch
      <4>1. s.epoch = 2 /\ page.epoch = 1
        BY <3>2, <3>4
      <4>2. s.seq >= seq[1] /\ page.seq <= seq[1]
        BY <4>1 DEF SInv, Continued
      <4> QED
        BY <1>1, <3>1, <3>2, <4>2
    <3> QED
      BY <1>1, <3>1, <3>2, <3>3, <3>4
  <2> QED
    BY <2>3, <2>4
<1>3. ASSUME page' = page PROVE page'.seq >= page.seq
  BY <1>1, <1>3
<1>4. ASSUME NEW a \in Askers, Send(a) \/ GiveUp(a) PROVE page' = page
  BY <1>4, Zenon DEF Send, GiveUp
<1>5. ASSUME NEW m \in sent, NEW d \in 0..Pause, Deliver(m, now + d) PROVE page' = page
  BY <1>5 DEF Deliver, client
<1>6. ASSUME \/ \E h \in Hosts : Restart(h)
             \/ TakeOver \/ Tick \/ UNCHANGED linkVars
      PROVE  page' = page
  BY <1>6 DEF Restart, TakeOver, Tick, linkVars, client
<1> QED
  BY <1>2, <1>3, <1>4, <1>5, <1>6 DEF LinkNext

\* What a page shows never goes back to fewer movements (web/app.js:193).
THEOREM ShownMovementsStay == LinkSpec => MovementsStay
<1>1. LinkInit => SInv
  BY InitSInv
<1>2. SInv /\ [LinkNext]_linkVars => SInv'
  BY NextSInv
<1>3. SInv /\ [LinkNext]_linkVars =>
        [page'.seq >= page.seq \/ waiting["login"] # waiting'["login"]]_linkVars
  BY StepMovements
<1> QED
  BY <1>1, <1>2, <1>3, PTL DEF LinkSpec, MovementsStay
=============================================================================
