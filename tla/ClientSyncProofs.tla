-------------------------- MODULE ClientSyncProofs --------------------------
(***************************************************************************)
(* Drafts of a client: none is lost until users log out, what is called    *)
(* saved was carried out, and what was taken back stays out of the queue,  *)
(* for any tabs, any drafts and any losses of the network.                 *)
(***************************************************************************)
EXTENDS ClientSync, SequenceTheorems, WellFoundedInduction, TLAPS

TabType == [mode : {"remote", "local"}, queue : Seq(Draft),
            pc : {"idle", "state", "loop", "command", "remove"}, rest : Seq(Commands),
            answer : {"none", "ok", "refused"}, sending : Commands \cup {NoCommand},
            leaving : {"no", "asked", "forgotten"}]

DbType == [mode : {"remote", "local"}, local : {"own", "shared"}, queue : Seq(Draft)]

LifeType == [drafts : SUBSET Commands, discards : SUBSET Commands,
             quits : BOOLEAN, losses : Nat, reloads : Nat]

\* The commands of the drafts of a queue.
Cmds(queue) == {d.cmd : d \in Range(queue)}

(* What is known of the variables r of a tab: *)

\* a command it has an answer to, or is about to take out of the queue, was
\* carried out;
Steady(r, done) ==
    /\ r.pc \in {"command", "remove"} => r.rest # <<>>
    /\ r.pc \in {"idle", "loop", "remove"} => r.answer = "none"
    /\ r.pc = "idle" => r.sending = NoCommand
    /\ r.pc = "remove" \/ (r.pc = "command" /\ r.answer = "ok") => Head(r.rest) \in done

\* its drafts are drafts users made;
Made(r, made) ==
    /\ Cmds(r.queue) \subseteq made
    /\ r.sending # NoCommand => r.sending \in made

\* it stays with the shared warehouse;
Stays(r) == r.mode = "remote" /\ r.leaving = "no"

\* and the draft send() waits for is in its queue, or settled.
Awaited(r, settled) == r.sending # NoCommand => r.sending \in Cmds(r.queue) \cup settled

IInv ==
    /\ TypeOK
    /\ \A t \in Tabs : Steady(tab[t], Applied) /\ Made(tab[t], created)
    /\ Cmds(db.queue) \subseteq created
    /\ DiscardedStaysOut
    /\ ~life.quits =>
          /\ db.mode = "remote"
          /\ \A t \in Tabs : Stays(tab[t]) /\ Awaited(tab[t], Applied \cup discarded)
          /\ created \subseteq Cmds(db.queue) \cup Applied \cup discarded
          /\ reported \subseteq Applied \cup discarded

-----------------------------------------------------------------------------
(* Queues *)

\* A set of numbers has a least one: what inductions over a queue rest on.
LEMMA Least ==
    ASSUME NEW T, T \subseteq Nat, T # {}
    PROVE  \E n \in T : \A m \in T : n <= m
<1> DEFINE R == OpToRel(<, Nat)
<1>1. IsWellFoundedOn(R, Nat)
  BY NatLessThanWellFounded
<1> HIDE DEF R
<1>2. PICK n \in T : \A m \in T : <<m, n>> \notin R
  BY <1>1, WFMin
<1>3. \A m \in T : ~(m < n)
  BY <1>2 DEF R, OpToRel
<1> QED
  BY <1>3

\* picked[i] has the drafts that are in keep, of the first i of queue.
Picks(queue, keep, picked, n) ==
    /\ picked \in [0..n -> Seq(Draft)]
    /\ picked[0] = <<>>
    /\ \A i \in 1..n : picked[i] = IF queue[i] \in keep THEN Append(picked[i - 1], queue[i])
                                                        ELSE picked[i - 1]
    /\ \A i \in 0..n : Range(picked[i]) = {queue[j] : j \in 1..i} \cap keep

LEMMA RangeAppend ==
    ASSUME NEW X, NEW s \in Seq(X), NEW x \in X
    PROVE  Range(Append(s, x)) = Range(s) \cup {x}
<1>1. /\ Range(s) = {s[i] : i \in 1..Len(s)}
      /\ Append(s, x) \in Seq(X) /\ Len(Append(s, x)) = Len(s) + 1
      /\ \A i \in 1..Len(s) : Append(s, x)[i] = s[i]
      /\ Append(s, x)[Len(s) + 1] = x
  BY RangeEquality, AppendProperties
<1>2. Range(Append(s, x)) = {Append(s, x)[i] : i \in 1..(Len(s) + 1)}
  BY <1>1, RangeEquality
<1>3. Len(s) \in Nat
  BY LenProperties
<1> QED
  BY <1>1, <1>2, <1>3

LEMMA PicksExist ==
    ASSUME NEW queue \in Seq(Draft), NEW keep
    PROVE  \E picked : Picks(queue, keep, picked, Len(queue))
<1> DEFINE T == {n \in 0..Len(queue) : ~ \E picked : Picks(queue, keep, picked, n)}
<1>1. SUFFICES ASSUME T # {} PROVE FALSE
  <2>1. Len(queue) \in 0..Len(queue)
    BY LenProperties
  <2> QED
    BY <2>1
<1>2. PICK n \in T : \A m \in T : n <= m
  <2>1. T \subseteq Nat
    OBVIOUS
  <2> QED
    BY <1>1, <2>1, Least
<1>3. n # 0
  <2> DEFINE picked == [i \in 0..0 |-> <<>>]
  <2>1. picked \in [0..0 -> Seq(Draft)] /\ picked[0] = <<>> /\ \A i \in 1..0 : FALSE
    OBVIOUS
  <2>2. Range(<<>>) = {}
    BY DEF Range
  <2>3. \A i \in 0..0 : Range(picked[i]) = {queue[j] : j \in 1..i} \cap keep
    BY <2>2
  <2> HIDE DEF picked
  <2>4. Picks(queue, keep, picked, 0)
    BY <2>1, <2>3 DEF Picks
  <2> QED
    BY <2>4
<1>4. n - 1 \in 0..Len(queue) /\ n - 1 \notin T /\ n \in 1..Len(queue)
  BY <1>2, <1>3
<1>5. PICK picked : Picks(queue, keep, picked, n - 1)
  BY <1>4
<1> DEFINE last == IF queue[n] \in keep THEN Append(picked[n - 1], queue[n]) ELSE picked[n - 1]
           more == [i \in 0..n |-> IF i < n THEN picked[i] ELSE last]
<1>6. /\ queue[n] \in Draft /\ n \in Nat /\ n - 1 \in 0..(n - 1)
      /\ \A i \in 0..(n - 1) : picked[i] \in Seq(Draft)
  <2>1. n \in Nat /\ n - 1 \in Nat /\ n \in 1..Len(queue)
    BY <1>4
  <2>2. n - 1 \in 0..(n - 1)
    BY <2>1
  <2>3. queue[n] \in Draft
    BY <2>1, ElementOfSeq
  <2>4. picked \in [0..(n - 1) -> Seq(Draft)]
    BY <1>5 DEF Picks
  <2>5. \A i \in 0..(n - 1) : picked[i] \in Seq(Draft)
    BY <2>4
  <2> QED
    BY <2>1, <2>2, <2>3, <2>5
<1>7. last \in Seq(Draft) /\ Range(last) = {queue[j] : j \in 1..n} \cap keep
  <2>1. Range(picked[n - 1]) = {queue[j] : j \in 1..(n - 1)} \cap keep /\ picked[n - 1] \in Seq(Draft)
    BY <1>5, <1>6 DEF Picks
  <2>2. {queue[j] : j \in 1..n} = {queue[j] : j \in 1..(n - 1)} \cup {queue[n]}
    BY <1>4
  <2>3. Range(Append(picked[n - 1], queue[n])) = Range(picked[n - 1]) \cup {queue[n]}
    BY <1>6, <2>1, RangeAppend
  <2>4. Append(picked[n - 1], queue[n]) \in Seq(Draft)
    BY <1>6, <2>1
  <2> QED
    BY <2>1, <2>2, <2>3, <2>4
<1> HIDE DEF last
<1>8. \A i \in 0..n : more[i] \in Seq(Draft)
  BY <1>6, <1>7
<1>9. more[0] = <<>>
  BY <1>4, <1>5 DEF Picks
<1>10. ASSUME NEW i \in 1..n
       PROVE  more[i] = IF queue[i] \in keep THEN Append(more[i - 1], queue[i]) ELSE more[i - 1]
  <2>1. i \in 0..n /\ i - 1 \in 0..n /\ i - 1 < n /\ more[i - 1] = picked[i - 1]
    BY <1>4
  <2>2. CASE i = n
    BY <2>1, <2>2 DEF last
  <2>3. CASE i # n
    <3>1. i < n /\ i \in 1..(n - 1)
      BY <1>4, <2>3
    <3>2. picked[i] = IF queue[i] \in keep THEN Append(picked[i - 1], queue[i]) ELSE picked[i - 1]
      BY <1>5, <3>1 DEF Picks
    <3> QED
      BY <2>1, <3>1, <3>2
  <2> QED
    BY <2>2, <2>3
<1>11. ASSUME NEW i \in 0..n PROVE Range(more[i]) = {queue[j] : j \in 1..i} \cap keep
  <2>1. CASE i = n
    BY <1>7, <2>1
  <2>2. CASE i # n
    <3>1. i < n /\ i \in 0..(n - 1)
      BY <1>4, <2>2
    <3> QED
      BY <1>5, <3>1 DEF Picks
  <2> QED
    BY <2>1, <2>2
<1>12. Picks(queue, keep, more, n)
  <2>1. more \in [0..n -> Seq(Draft)]
    BY <1>8
  <2> HIDE DEF more
  <2> QED
    BY <1>9, <1>10, <1>11, <2>1 DEF Picks
<1> QED
  BY <1>2, <1>12

\* Chosen keeps the drafts that are in keep, and no others.
LEMMA ChosenProperties ==
    ASSUME NEW queue \in Seq(Draft), NEW keep
    PROVE  /\ Chosen(queue, keep) \in Seq(Draft)
           /\ Range(Chosen(queue, keep)) = Range(queue) \cap keep
<1> DEFINE N == Len(queue)
           Next1(f, n) == IF n = 0 THEN <<>>
                          ELSE IF queue[n] \in keep THEN Append(f[n - 1], queue[n]) ELSE f[n - 1]
           c == CHOOSE f : f = [n \in 0..N |-> Next1(f, n)]
<1>1. N \in Nat /\ Range(queue) = {queue[j] : j \in 1..N}
  BY LenProperties, RangeEquality
<1>2. PICK picked : Picks(queue, keep, picked, N)
  BY PicksExist
<1>3. \A n \in 0..N : picked[n] = Next1(picked, n)
  <2>1. \A n \in 0..N : n # 0 => n \in 1..N
    OBVIOUS
  <2> QED
    BY <1>2, <2>1 DEF Picks
<1>4. picked = [n \in 0..N |-> Next1(picked, n)]
  BY <1>2, <1>3 DEF Picks
<1>5. c = [n \in 0..N |-> Next1(c, n)]
  BY <1>4, Zenon
<1>6. Chosen(queue, keep) = c[N]
  BY Zenon DEF Chosen
<1> HIDE DEF c
<1>7. \A n \in 0..N : c[n] = picked[n]
  <2> DEFINE T == {n \in 0..N : c[n] # picked[n]}
  <2>1. SUFFICES ASSUME T # {} PROVE FALSE
    OBVIOUS
  <2>2. PICK n \in T : \A m \in T : n <= m
    <3>1. T \subseteq Nat
      OBVIOUS
    <3> QED
      BY <2>1, <3>1, Least
  <2>3. c[n] = Next1(c, n) /\ picked[n] = Next1(picked, n)
    BY <1>3, <1>5
  <2>4. n # 0
    BY <2>2, <2>3
  <2>5. n - 1 \in 0..N /\ n - 1 \notin T
    BY <1>1, <2>2, <2>4
  <2>6. c[n - 1] = picked[n - 1]
    BY <2>5
  <2> QED
    BY <2>2, <2>3, <2>6
<1>8. N \in 0..N
  BY <1>1
<1> QED
  BY <1>1, <1>2, <1>6, <1>7, <1>8 DEF Picks

\* A draft taken out of the queue is not in it, and the others are.
LEMMA WithoutProperties ==
    ASSUME NEW queue \in Seq(Draft), NEW c
    PROVE  Without(queue, c) \in Seq(Draft) /\ Cmds(Without(queue, c)) = Cmds(queue) \ {c}
<1>1. /\ Without(queue, c) \in Seq(Draft)
      /\ Range(Without(queue, c)) = Range(queue) \cap {d \in Draft : d.cmd # c}
  BY ChosenProperties DEF Without
<1>2. Range(queue) \subseteq Draft
  BY RangeOfSeq
<1> QED
  BY <1>1, <1>2 DEF Cmds

LEMMA WithErrorProperties ==
    ASSUME NEW queue \in Seq(Draft), NEW c, NEW error \in BOOLEAN
    PROVE  WithError(queue, c, error) \in Seq(Draft) /\ Cmds(WithError(queue, c, error)) = Cmds(queue)
<1> DEFINE new == WithError(queue, c, error)
<1>1. DOMAIN queue = 1..Len(queue) /\ Len(queue) \in Nat /\ \A i \in 1..Len(queue) : queue[i] \in Draft
  BY LenProperties, ElementOfSeq
<1>2. /\ DOMAIN new = 1..Len(queue)
      /\ \A i \in 1..Len(queue) : new[i] \in Draft /\ new[i].cmd = queue[i].cmd
  BY <1>1 DEF WithError, Draft
<1>3. new \in [1..Len(queue) -> Draft]
  BY <1>1, <1>2 DEF WithError
<1> HIDE DEF new
<1>4. new \in Seq(Draft)
  BY <1>1, <1>3, SeqDef
<1>5. Cmds(new) = {new[i].cmd : i \in 1..Len(queue)} /\ Cmds(queue) = {queue[i].cmd : i \in 1..Len(queue)}
  BY <1>1, <1>2 DEF Cmds, Range
<1> QED
  BY <1>2, <1>4, <1>5 DEF new

LEMMA EnqueuedProperties ==
    ASSUME NEW t, NEW c \in Commands, db.queue \in Seq(Draft)
    PROVE  Enqueued(t, c) \in Seq(Draft) /\ Cmds(Enqueued(t, c)) = Cmds(db.queue) \cup {c}
<1> DEFINE d == [cmd |-> c, error |-> FALSE]
<1>1. d \in Draft /\ d.cmd = c
  BY DEF Draft
<1>2. Enqueued(t, c) = Append(db.queue, d)
  BY DEF Enqueued
<1> HIDE DEF d
<1>3. Append(db.queue, d) \in Seq(Draft)
  BY <1>1, AppendProperties
<1>4. Range(Append(db.queue, d)) = Range(db.queue) \cup {d}
  BY <1>1, RangeAppend
<1> QED
  BY <1>1, <1>2, <1>3, <1>4 DEF Cmds

LEMMA ToSendType == ASSUME NEW queue \in Seq(Draft) PROVE ToSend(queue) \in Seq(Commands)
<1> DEFINE s == Chosen(queue, {d \in Draft : ~d.error})
<1>1. s \in Seq(Draft)
  BY ChosenProperties
<1>2. DOMAIN s = 1..Len(s) /\ Len(s) \in Nat /\ \A i \in 1..Len(s) : s[i] \in Draft
  BY <1>1, LenProperties, ElementOfSeq
<1>3. CommandsOf(s) \in [1..Len(s) -> Commands]
  BY <1>2 DEF CommandsOf, Draft
<1> HIDE DEF s
<1>4. CommandsOf(s) \in Seq(Commands)
  BY <1>2, <1>3, SeqDef
<1> QED
  BY <1>4 DEF ToSend, s

\* The commands Report looks for are those of the queue.
LEMMA CommandsOfRange == ASSUME NEW queue \in Seq(Draft) PROVE Range(CommandsOf(queue)) = Cmds(queue)
  BY LenProperties DEF CommandsOf, Range, Cmds

LEMMA EmptyQueue == <<>> \in Seq(Draft) /\ Cmds(<<>>) = {}
<1>1. Range(<<>>) = {}
  BY DEF Range
<1> QED
  BY <1>1 DEF Cmds

LEMMA QueuedIsCmds == Queued = Cmds(db.queue)
  BY DEF Queued, Drafts, Cmds

\* A command that is handled is done once, and the others stay.
LEMMA HandledProperties ==
    ASSUME TypeOK, NEW c \in Commands
    PROVE  /\ Handled(c) \in Seq(Commands) /\ IsInjective(Handled(c))
           /\ Applied \subseteq Range(Handled(c))
           /\ Fitting(c) => c \in Range(Handled(c))
<1>1. log \in Seq(Commands) /\ IsInjective(log) /\ Len(log) \in Nat /\ DOMAIN log = 1..Len(log)
  BY LenProperties DEF TypeOK
<1>2. CASE Fitting(c) /\ c \notin Applied
  <2> DEFINE new == Append(log, c)
  <2>1. /\ new \in Seq(Commands) /\ Len(new) = Len(log) + 1 /\ DOMAIN new = 1..(Len(log) + 1)
        /\ \A i \in 1..Len(log) : new[i] = log[i]
        /\ new[Len(log) + 1] = c
    BY <1>1, AppendProperties, LenProperties
  <2>2. Range(new) = Range(log) \cup {c}
    BY <1>1, RangeAppend
  <2>3. \A i \in 1..Len(log) : log[i] # c
    BY <1>1, <1>2 DEF Applied, Range
  <2> HIDE DEF new
  <2>4. IsInjective(new)
    BY <1>1, <2>1, <2>3 DEF IsInjective
  <2>5. Handled(c) = new
    BY <1>2 DEF Handled, new
  <2> QED
    BY <2>1, <2>2, <2>4, <2>5 DEF Applied
<1>3. CASE ~(Fitting(c) /\ c \notin Applied)
  BY <1>1, <1>3 DEF Handled, Applied
<1> QED
  BY <1>2, <1>3

-----------------------------------------------------------------------------
(* Steps of one tab *)

LEMMA TypesFold ==
    /\ TypeOK => /\ db \in DbType /\ tab \in [Tabs -> TabType] /\ life \in LifeType
                 /\ db.queue \in Seq(Draft)
                 /\ \A t \in Tabs : tab[t] \in TabType
    /\ TypeOK <=> /\ db \in DbType /\ tab \in [Tabs -> TabType]
                  /\ log \in Seq(Commands) /\ IsInjective(log)
                  /\ session \in BOOLEAN /\ late \subseteq Commands
                  /\ created \subseteq Commands /\ discarded \subseteq created /\ reported \subseteq created
                  /\ life \in LifeType
  BY DEF TypeOK, DbType, TabType, LifeType

\* What a step of tab t has to show: its new variables, and what it makes of the
\* queue, the log and the drafts.
LEMMA TabInv ==
    ASSUME IInv, NEW t \in Tabs, NEW r \in TabType, tab' = [tab EXCEPT ![t] = r],
           db' \in DbType, log' \in Seq(Commands), IsInjective(log'), session' \in BOOLEAN,
           late' \subseteq Commands, created' \subseteq Commands, discarded' \subseteq created',
           reported' \subseteq created', life' \in LifeType, life'.quits = life.quits,
           Applied \subseteq Applied', created \subseteq created', discarded \subseteq discarded',
           Steady(r, Applied'), Made(r, created'), Cmds(db'.queue) \subseteq created',
           discarded' \cap Cmds(db'.queue) = {},
           ~life.quits => /\ db'.mode = "remote" /\ Stays(r)
                          /\ Awaited(r, Applied' \cup discarded')
                          /\ created' \subseteq Cmds(db'.queue) \cup Applied' \cup discarded'
                          /\ reported' \subseteq Applied' \cup discarded'
    PROVE  IInv'
<1>1. TypeOK /\ tab \in [Tabs -> TabType]
  BY TypesFold DEF IInv
<1>2. tab' \in [Tabs -> TabType]
  BY <1>1
<1>3. TypeOK'
  BY <1>2 DEF TypeOK, DbType, TabType, LifeType
<1>4. \A u \in Tabs : tab'[u] = IF u = t THEN r ELSE tab[u]
  BY <1>1
<1>5. \A u \in Tabs : Steady(tab'[u], Applied') /\ Made(tab'[u], created')
  BY <1>4 DEF IInv, Steady, Made
<1>6. DiscardedStaysOut'
  BY QueuedIsCmds DEF DiscardedStaysOut, Queued, Drafts, Cmds
<1>7. ~life.quits => \A u \in Tabs : Stays(tab'[u]) /\ Awaited(tab'[u], Applied' \cup discarded')
  BY <1>4 DEF IInv, Awaited
<1> QED
  BY <1>3, <1>5, <1>6, <1>7 DEF IInv

\* A step that changes the variables of the tab and, when syncNow returns to
\* send(), what was reported.
LEMMA QuietInv ==
    ASSUME IInv, NEW t \in Tabs, NEW r \in TabType, tab' = [tab EXCEPT ![t] = r],
           UNCHANGED <<log, session, created, discarded>>,
           db' \in {db, [db EXCEPT !.local = "shared"]},
           late' \subseteq Commands, life' \in LifeType, life'.quits = life.quits,
           Steady(r, Applied),
           r.queue = tab[t].queue \/ r.queue = db.queue,
           r.sending \in {tab[t].sending, NoCommand}, r.mode = tab[t].mode, r.leaving = tab[t].leaving,
           reported' = reported \/ Report(t)
    PROVE  IInv'
<1>1. TypeOK /\ db \in DbType /\ tab[t] \in TabType /\ db.queue \in Seq(Draft)
  BY TypesFold DEF IInv
<1>2. db' \in DbType /\ db'.queue = db.queue /\ db'.mode = db.mode
  BY <1>1 DEF DbType
<1>3. Steady(tab[t], Applied) /\ Made(tab[t], created) /\ Cmds(db.queue) \subseteq created
  BY DEF IInv
<1>4. Made(r, created)
  BY <1>3 DEF Made
<1>5. Applied' = Applied
  BY DEF Applied
<1>6. reported' \subseteq created /\ (~life.quits => reported' \subseteq Applied \cup discarded)
  <2>1. CASE reported' = reported
    BY <2>1 DEF IInv, TypeOK
  <2>2. CASE Report(t)
    <3>1. Range(CommandsOf(tab[t].queue)) = Cmds(tab[t].queue)
      BY <1>1, CommandsOfRange DEF TabType
    <3>2. \/ reported' = reported
          \/ /\ reported' = reported \cup {tab[t].sending} /\ tab[t].sending # NoCommand
             /\ tab[t].sending \notin Cmds(tab[t].queue)
      BY <2>2, <3>1 DEF Report
    <3> QED
      BY <1>3, <3>2 DEF IInv, TypeOK, Made, Awaited
  <2> QED
    BY <2>1, <2>2
<1>7. ~life.quits => /\ db'.mode = "remote" /\ Stays(r) /\ Awaited(r, Applied \cup discarded)
                     /\ created \subseteq Cmds(db'.queue) \cup Applied \cup discarded
  BY <1>2, <1>3 DEF IInv, Stays, Awaited, Made
<1>8. discarded \cap Cmds(db'.queue) = {}
  BY <1>2, QueuedIsCmds DEF IInv, DiscardedStaysOut
<1> QED
  BY <1>1, <1>2, <1>3, <1>4, <1>5, <1>6, <1>7, <1>8, TabInv DEF TypeOK

\* A step that edits the queue.  A tab that writes the queue of the personal
\* warehouse leaves that of the shared one alone.
LEMMA QueueInv ==
    ASSUME IInv, NEW t \in Tabs, NEW edited \in Seq(Draft), NEW changed \in TabType,
           MutateQueue(t, edited, changed),
           UNCHANGED <<log, session, late, reported, life>>,
           created' \subseteq Commands, discarded' \subseteq created',
           created \subseteq created', discarded \subseteq discarded',
           tab[t].mode # "remote" => UNCHANGED <<created, discarded>>,
           Steady(changed, Applied),
           changed.sending # NoCommand => changed.sending \in created',
           changed.mode = tab[t].mode, changed.leaving = tab[t].leaving,
           Cmds(edited) \subseteq created', discarded' \cap Cmds(edited) = {},
           ~life.quits => created' \subseteq Cmds(edited) \cup Applied \cup discarded'
    PROVE  IInv'
<1>1. /\ TypeOK /\ db \in DbType /\ tab[t] \in TabType
      /\ Cmds(db.queue) \subseteq created /\ discarded \cap Cmds(db.queue) = {}
      /\ log \in Seq(Commands) /\ IsInjective(log) /\ session \in BOOLEAN /\ late \subseteq Commands
      /\ reported \subseteq created /\ life \in LifeType
  BY TypesFold, QueuedIsCmds DEF IInv, DiscardedStaysOut, TypeOK
<1>2. Applied' = Applied
  BY DEF Applied
<1>3. CASE tab[t].mode = "remote"
  <2> DEFINE r == [changed EXCEPT !.queue = edited]
             new == [db EXCEPT !.queue = edited]
  <2>1. /\ r \in TabType /\ r.queue = edited /\ r.sending = changed.sending
        /\ r.mode = changed.mode /\ r.leaving = changed.leaving /\ Steady(r, Applied)
    BY DEF TabType, Steady
  <2>2. new \in DbType /\ new.queue = edited /\ new.mode = db.mode
    BY <1>1 DEF DbType
  <2>3. tab' = [tab EXCEPT ![t] = r] /\ db' = new
    BY <1>3 DEF MutateQueue
  <2> HIDE DEF r, new
  <2>4. Made(r, created')
    BY <2>1 DEF Made
  <2>5. ~life.quits => /\ db'.mode = "remote" /\ Stays(r)
                       /\ Awaited(r, Applied \cup discarded')
                       /\ reported \subseteq Applied \cup discarded'
    BY <2>1, <2>2, <2>3 DEF IInv, Stays, Awaited
  <2> QED
    BY <1>1, <1>2, <2>1, <2>2, <2>3, <2>4, <2>5, TabInv
<1>4. CASE tab[t].mode # "remote"
  <2> DEFINE r == [changed EXCEPT !.queue = <<>>]
  <2>1. /\ r \in TabType /\ r.queue = <<>> /\ r.sending = changed.sending
        /\ Steady(r, Applied)
    BY EmptyQueue DEF TabType, Steady
  <2>2. tab' = [tab EXCEPT ![t] = r] /\ db' = db
    BY <1>4 DEF MutateQueue
  <2> HIDE DEF r
  <2>3. Made(r, created')
    BY <2>1, EmptyQueue DEF Made
  <2>4. life.quits
    BY <1>4 DEF IInv, Stays
  <2> QED
    BY <1>1, <1>2, <1>4, <2>1, <2>2, <2>3, <2>4, TabInv
<1> QED
  BY <1>3, <1>4

-----------------------------------------------------------------------------
(* The actions *)

LEMMA InitInv == ASSUME ClientAssumption, Init PROVE IInv
<1>1. /\ db \in DbType /\ tab \in [Tabs -> TabType] /\ life \in LifeType
      /\ Cmds(db.queue) = {}
  BY EmptyQueue DEF Init, Opened, DbType, TabType, LifeType, ClientAssumption
<1>2. log \in Seq(Commands) /\ IsInjective(log)
  BY DEF Init, IsInjective
<1>3. TypeOK
  BY <1>1, <1>2, TypesFold DEF Init
<1>4. \A t \in Tabs : Steady(tab[t], Applied) /\ Made(tab[t], created) /\ Stays(tab[t])
                      /\ Awaited(tab[t], Applied \cup discarded)
  BY EmptyQueue DEF Init, Opened, Steady, Made, Stays, Awaited
<1> QED
  BY <1>1, <1>3, <1>4, QueuedIsCmds DEF Init, IInv, DiscardedStaysOut

\* What every action has at hand.
LEMMA Facts ==
    ASSUME IInv, NEW t \in Tabs
    PROVE  /\ TypeOK /\ db \in DbType /\ tab \in [Tabs -> TabType] /\ tab[t] \in TabType
           /\ db.queue \in Seq(Draft) /\ tab[t].queue \in Seq(Draft) /\ tab[t].rest \in Seq(Commands)
           /\ Steady(tab[t], Applied) /\ Made(tab[t], created)
           /\ Cmds(db.queue) \subseteq created /\ discarded \cap Cmds(db.queue) = {}
           /\ ~life.quits => created \subseteq Cmds(db.queue) \cup Applied \cup discarded
           /\ log \in Seq(Commands) /\ IsInjective(log) /\ session \in BOOLEAN
           /\ late \subseteq Commands /\ created \subseteq Commands
           /\ discarded \subseteq created /\ reported \subseteq created /\ life \in LifeType
  BY TypesFold, QueuedIsCmds DEF IInv, DiscardedStaysOut, TypeOK, TabType

LEMMA HeadTail ==
    ASSUME NEW X, NEW s \in Seq(X), s # <<>> PROVE Head(s) \in X /\ Tail(s) \in Seq(X)
  BY HeadTailProperties

LEMMA StartSyncInv == ASSUME IInv, NEW t \in Tabs, StartSync(t) PROVE IInv'
<1> DEFINE r == Started(t, db.queue)
<1>1. /\ r \in TabType /\ Steady(r, Applied) /\ r.queue = db.queue /\ r.sending = tab[t].sending
      /\ r.mode = tab[t].mode /\ r.leaving = tab[t].leaving
  BY Facts DEF StartSync, Started, TabType, Steady
<1>2. tab' = [tab EXCEPT ![t] = r]
  BY DEF StartSync
<1> HIDE DEF r
<1> QED
  BY <1>1, <1>2, Facts, QuietInv DEF StartSync, OthersUnchanged, HostUnchanged, UsersUnchanged

LEMMA ReceiveStateInv == ASSUME IInv, NEW t \in Tabs, ReceiveState(t) PROVE IInv'
<1> DEFINE r == [tab[t] EXCEPT !.pc = "loop", !.answer = "none", !.rest = ToSend(tab[t].queue)]
<1>1. /\ r \in TabType /\ Steady(r, Applied) /\ r.queue = tab[t].queue /\ r.sending = tab[t].sending
      /\ r.mode = tab[t].mode /\ r.leaving = tab[t].leaving
  BY Facts, ToSendType DEF TabType, Steady
<1>2. tab' = [tab EXCEPT ![t] = r]
  BY DEF ReceiveState
<1> HIDE DEF r
<1>3. db' \in {db, [db EXCEPT !.local = "shared"]}
  BY DEF ReceiveState, AcceptState
<1> QED
  BY <1>1, <1>2, <1>3, Facts, QuietInv DEF ReceiveState, OthersUnchanged, HostUnchanged, UsersUnchanged

LEMMA SendDraftInv == ASSUME IInv, NEW t \in Tabs, SendDraft(t) PROVE IInv'
<1> DEFINE r == [tab[t] EXCEPT !.pc = "command"]
<1>1. /\ r \in TabType /\ Steady(r, Applied) /\ r.queue = tab[t].queue /\ r.sending = tab[t].sending
      /\ r.mode = tab[t].mode /\ r.leaving = tab[t].leaving
  BY Facts DEF SendDraft, TabType, Steady
<1>2. tab' = [tab EXCEPT ![t] = r]
  BY DEF SendDraft
<1> HIDE DEF r
<1> QED
  BY <1>1, <1>2, Facts, QuietInv DEF SendDraft, OthersUnchanged, HostUnchanged, UsersUnchanged

LEMMA ReceiveDoneInv ==
    ASSUME IInv, NEW t \in Tabs, NEW c \in Commands, ReceiveDone(t, c) PROVE IInv'
<1> DEFINE r == [tab[t] EXCEPT !.pc = "remove", !.answer = "none"]
<1>1. /\ r \in TabType /\ Steady(r, Applied) /\ r.queue = tab[t].queue /\ r.sending = tab[t].sending
      /\ r.mode = tab[t].mode /\ r.leaving = tab[t].leaving
  BY Facts DEF ReceiveDone, Awaits, TabType, Steady
<1>2. tab' = [tab EXCEPT ![t] = r]
  BY Facts DEF ReceiveDone, TabType
<1> HIDE DEF r
<1>3. db' \in {db, [db EXCEPT !.local = "shared"]}
  BY DEF ReceiveDone, AcceptState
<1> QED
  BY <1>1, <1>2, <1>3, Facts, QuietInv DEF ReceiveDone, OthersUnchanged, HostUnchanged, UsersUnchanged

LEMMA EndedProperties ==
    ASSUME IInv, NEW t \in Tabs
    PROVE  /\ Ended(t) \in TabType /\ Steady(Ended(t), Applied)
           /\ Ended(t).queue = tab[t].queue /\ Ended(t).sending = NoCommand
           /\ Ended(t).mode = tab[t].mode /\ Ended(t).leaving = tab[t].leaving
<1>1. tab[t] \in TabType /\ <<>> \in Seq(Commands)
  BY Facts
<1>2. Ended(t) \in TabType
  BY <1>1 DEF Ended, TabType
<1> QED
  BY <1>1, <1>2 DEF Ended, TabType, Steady

\* What a tab leaves behind on its way is a command.
LEMMA AskingProperties == ASSUME IInv, NEW t \in Tabs, Asking(t) PROVE Head(tab[t].rest) \in Commands
  BY Facts, HeadTail DEF Asking, Steady

LEMMA LoseAnswerInv == ASSUME IInv, NEW t \in Tabs, LoseAnswer(t) PROVE IInv'
<1>1. late' \subseteq Commands
  BY Facts, AskingProperties DEF LoseAnswer
<1>2. life' \in LifeType /\ life'.quits = life.quits
  <2>1. life \in LifeType /\ life.losses > 0 /\ life' = [life EXCEPT !.losses = @ - 1]
    BY Facts DEF LoseAnswer
  <2> QED
    BY <2>1 DEF LifeType
<1> QED
  BY <1>1, <1>2, Facts, EndedProperties, QuietInv DEF LoseAnswer

LEMMA ReceiveUnauthorisedInv == ASSUME IInv, NEW t \in Tabs, ReceiveUnauthorised(t) PROVE IInv'
  BY Facts, EndedProperties, QuietInv
     DEF ReceiveUnauthorised, OthersUnchanged, HostUnchanged, UsersUnchanged

LEMMA EndSyncInv == ASSUME IInv, NEW t \in Tabs, EndSync(t) PROVE IInv'
  BY Facts, EndedProperties, QuietInv DEF EndSync, OthersUnchanged, HostUnchanged, UsersUnchanged

LEMMA AnswerStateInv == ASSUME IInv, NEW t \in Tabs, AnswerState(t) PROVE IInv'
<1> DEFINE r == [tab[t] EXCEPT !.answer = "ok"]
<1>1. /\ r \in TabType /\ Steady(r, Applied) /\ r.queue = tab[t].queue /\ r.sending = tab[t].sending
      /\ r.mode = tab[t].mode /\ r.leaving = tab[t].leaving
  BY Facts DEF AnswerState, TabType, Steady
<1>2. tab' = [tab EXCEPT ![t] = r]
  BY DEF AnswerState
<1> HIDE DEF r
<1> QED
  BY <1>1, <1>2, Facts, QuietInv DEF AnswerState, OthersUnchanged, HostUnchanged, UsersUnchanged

LEMMA AnswerCommandInv ==
    ASSUME IInv, NEW t \in Tabs, NEW c \in Commands, AnswerCommand(t, c) PROVE IInv'
<1> DEFINE r == [tab[t] EXCEPT !.answer = IF Fitting(c) THEN "ok" ELSE "refused"]
<1>1. /\ r \in TabType /\ r.queue = tab[t].queue /\ r.sending = tab[t].sending
      /\ r.mode = tab[t].mode /\ r.leaving = tab[t].leaving
  BY Facts DEF TabType
<1>2. tab' = [tab EXCEPT ![t] = r]
  BY Facts DEF AnswerCommand, TabType
<1>3. /\ Applied' = Range(Handled(c)) /\ log' = Handled(c)
      /\ UNCHANGED <<db, session, late, reported, created, discarded, life>>
  BY DEF AnswerCommand, Applied, UsersUnchanged
<1>4. /\ log' \in Seq(Commands) /\ IsInjective(log') /\ Applied \subseteq Applied'
      /\ Fitting(c) => c \in Applied'
  BY <1>3, Facts, HandledProperties
<1>5. Steady(r, Applied')
  BY <1>4, Facts DEF Steady, AnswerCommand, Awaits, TabType
<1> HIDE DEF r
<1>6. Made(r, created) /\ Cmds(db.queue) \subseteq created
  BY <1>1, Facts DEF Made
<1>7. ~life.quits => /\ db.mode = "remote" /\ Stays(r) /\ Awaited(r, Applied' \cup discarded)
                     /\ created \subseteq Cmds(db.queue) \cup Applied' \cup discarded
                     /\ reported \subseteq Applied' \cup discarded
  BY <1>1, <1>4 DEF IInv, Stays, Awaited
<1> QED
  BY <1>1, <1>2, <1>3, <1>4, <1>5, <1>6, <1>7, Facts, TabInv

\* No tab waits for the answer.
LEMMA LateCommandInv == ASSUME IInv, LateCommand PROVE IInv'
<1>1. PICK c \in late : /\ late' = late \ {c}
                        /\ log' \in {log, IF session THEN Handled(c) ELSE log}
                        /\ UNCHANGED <<db, tab, session, reported, created, discarded, life>>
  BY DEF LateCommand, UsersUnchanged
<1>2. TypeOK /\ c \in Commands
  BY DEF IInv, TypeOK
<1>3. log' \in Seq(Commands) /\ IsInjective(log') /\ Applied \subseteq Applied'
  BY <1>1, <1>2, HandledProperties DEF Applied, TypeOK
<1>4. TypeOK'
  BY <1>1, <1>2, <1>3 DEF TypeOK
<1>5. \A t \in Tabs : Steady(tab[t], Applied') /\ Made(tab[t], created)
  BY <1>3 DEF IInv, Steady
<1>6. ~life.quits => \A t \in Tabs : Stays(tab[t]) /\ Awaited(tab[t], Applied' \cup discarded)
  BY <1>3 DEF IInv, Awaited
<1>7. DiscardedStaysOut'
  BY <1>1, QueuedIsCmds DEF IInv, DiscardedStaysOut, Queued, Drafts, Cmds
<1> QED
  BY <1>1, <1>3, <1>4, <1>5, <1>6, <1>7 DEF IInv

LEMMA RemoveDraftInv == ASSUME IInv, NEW t \in Tabs, RemoveDraft(t) PROVE IInv'
<1> DEFINE c == Head(tab[t].rest)
           r == [tab[t] EXCEPT !.pc = "loop", !.rest = Tail(tab[t].rest)]
<1>1. c \in Commands /\ c \in Applied /\ Tail(tab[t].rest) \in Seq(Commands)
  BY Facts, HeadTail DEF RemoveDraft, Steady
<1>2. /\ r \in TabType /\ Steady(r, Applied) /\ r.sending = tab[t].sending
      /\ r.mode = tab[t].mode /\ r.leaving = tab[t].leaving
  BY <1>1, Facts DEF RemoveDraft, TabType, Steady
<1>3. MutateQueue(t, Without(db.queue, c), r)
  BY DEF RemoveDraft
<1>4. Without(db.queue, c) \in Seq(Draft) /\ Cmds(Without(db.queue, c)) = Cmds(db.queue) \ {c}
  BY Facts, WithoutProperties
<1> HIDE DEF r
<1> QED
  BY <1>1, <1>2, <1>3, <1>4, Facts, QueueInv
     DEF RemoveDraft, OthersUnchanged, HostUnchanged, UsersUnchanged, Made

LEMMA ReceiveRefusedInv ==
    ASSUME IInv, NEW t \in Tabs, NEW c \in Commands, ReceiveRefused(t, c) PROVE IInv'
<1> DEFINE r == [tab[t] EXCEPT !.pc = "loop", !.rest = Tail(tab[t].rest), !.answer = "none"]
<1>1. Tail(tab[t].rest) \in Seq(Commands)
  BY Facts, HeadTail DEF ReceiveRefused, Awaits, Steady
<1>2. /\ r \in TabType /\ Steady(r, Applied) /\ r.sending = tab[t].sending
      /\ r.mode = tab[t].mode /\ r.leaving = tab[t].leaving
  BY <1>1, Facts DEF ReceiveRefused, Awaits, TabType, Steady
<1>3. MutateQueue(t, WithError(db.queue, c, TRUE), r)
  BY DEF ReceiveRefused
<1>4. /\ WithError(db.queue, c, TRUE) \in Seq(Draft)
      /\ Cmds(WithError(db.queue, c, TRUE)) = Cmds(db.queue)
  BY Facts, WithErrorProperties
<1> HIDE DEF r
<1> QED
  BY <1>2, <1>3, <1>4, Facts, QueueInv
     DEF ReceiveRefused, OthersUnchanged, HostUnchanged, UsersUnchanged, Made

LEMMA SaveDraftInv == ASSUME IInv, NEW t \in Tabs, SaveDraft(t) PROVE IInv'
<1> DEFINE r(c) == IF tab[t].pc = "idle" THEN [Started(t, <<>>) EXCEPT !.sending = c] ELSE tab[t]
<1>1. PICK c \in life.drafts \ created : /\ MutateQueue(t, Enqueued(t, c), r(c))
                                         /\ created' = created \cup {c}
  BY DEF SaveDraft
<1>2. c \in Commands /\ c \notin discarded
  BY Facts DEF LifeType
<1>3. /\ r(c) \in TabType /\ Steady(r(c), Applied) /\ r(c).sending \in {c, tab[t].sending}
      /\ r(c).mode = tab[t].mode /\ r(c).leaving = tab[t].leaving
  <2>1. tab[t] \in TabType /\ Steady(tab[t], Applied) /\ <<>> \in Seq(Draft)
    BY Facts, EmptyQueue
  <2>2. CASE tab[t].pc = "idle"
    <3>1. r(c) = [tab[t] EXCEPT !.pc = "state", !.queue = <<>>, !.sending = c]
      BY <2>1, <2>2 DEF Started, TabType
    <3>2. r(c) \in TabType /\ r(c).pc = "state"
      BY <1>2, <2>1, <3>1 DEF TabType
    <3>3. Steady(r(c), Applied)
      BY <3>2 DEF Steady
    <3> QED
      BY <2>1, <3>1, <3>2, <3>3 DEF TabType
  <2>3. CASE tab[t].pc # "idle"
    BY <2>1, <2>3
  <2> QED
    BY <2>2, <2>3
<1>4. Enqueued(t, c) \in Seq(Draft) /\ Cmds(Enqueued(t, c)) = Cmds(db.queue) \cup {c}
  BY <1>2, Facts, EnqueuedProperties
<1>5. UNCHANGED <<log, session, late, reported, discarded, life>> /\ tab[t].mode = "remote"
  BY DEF SaveDraft, HostUnchanged
<1> HIDE DEF r
<1> QED
  BY <1>1, <1>2, <1>3, <1>4, <1>5, Facts, QueueInv DEF Made

LEMMA DiscardDraftInv == ASSUME IInv, NEW t \in Tabs, DiscardDraft(t) PROVE IInv'
<1>1. PICK d \in Range(tab[t].queue) : /\ MutateQueue(t, Without(db.queue, d.cmd), tab[t])
                                       /\ discarded' = discarded \cup {d.cmd}
  BY DEF DiscardDraft
<1>2. d.cmd \in created
  BY Facts DEF Made, Cmds
<1>3. /\ Without(db.queue, d.cmd) \in Seq(Draft)
      /\ Cmds(Without(db.queue, d.cmd)) = Cmds(db.queue) \ {d.cmd}
  BY Facts, WithoutProperties
<1>4. UNCHANGED <<log, session, late, reported, created, life>> /\ tab[t].mode = "remote"
  BY DEF DiscardDraft, HostUnchanged
<1> QED
  BY <1>1, <1>2, <1>3, <1>4, Facts, QueueInv DEF Made

LEMMA RetryDraftInv == ASSUME IInv, NEW t \in Tabs, RetryDraft(t) PROVE IInv'
<1> DEFINE r == IF tab[t].pc = "idle" THEN Started(t, <<>>) ELSE tab[t]
<1>1. PICK d \in Range(tab[t].queue) : MutateQueue(t, WithError(db.queue, d.cmd, FALSE), r)
  BY DEF RetryDraft
<1>2. /\ r \in TabType /\ Steady(r, Applied) /\ r.sending = tab[t].sending
      /\ r.mode = tab[t].mode /\ r.leaving = tab[t].leaving
  BY Facts, EmptyQueue DEF Started, TabType, Steady
<1>3. /\ WithError(db.queue, d.cmd, FALSE) \in Seq(Draft)
      /\ Cmds(WithError(db.queue, d.cmd, FALSE)) = Cmds(db.queue)
  BY Facts, WithErrorProperties
<1> HIDE DEF r
<1> QED
  BY <1>1, <1>2, <1>3, Facts, QueueInv
     DEF RetryDraft, OthersUnchanged, HostUnchanged, UsersUnchanged, Made

-----------------------------------------------------------------------------
(* Logging out, and loading the page again *)

LEMMA AskLogoutInv == ASSUME IInv, NEW t \in Tabs, AskLogout(t) PROVE IInv'
<1> DEFINE r == [tab[t] EXCEPT !.leaving = "asked"]
<1>1. r \in TabType /\ Steady(r, Applied) /\ Made(r, created)
  BY Facts DEF TabType, Steady, Made
<1>2. tab' = [tab EXCEPT ![t] = r] /\ life.quits
  BY DEF AskLogout
<1>3. UNCHANGED <<db, log, session, late, created, discarded, reported, life>> /\ Applied' = Applied
  BY DEF AskLogout, OthersUnchanged, HostUnchanged, UsersUnchanged, Applied
<1> HIDE DEF r
<1> QED
  BY <1>1, <1>2, <1>3, Facts, TabInv

LEMMA RefuseLogoutInv == ASSUME IInv, NEW t \in Tabs, RefuseLogout(t) PROVE IInv'
<1> DEFINE r == [tab[t] EXCEPT !.leaving = "no"]
<1>1. r \in TabType /\ Steady(r, Applied) /\ Made(r, created)
  BY Facts DEF TabType, Steady, Made
<1>2. tab' = [tab EXCEPT ![t] = r] /\ life.quits
  BY DEF RefuseLogout, IInv, Stays
<1>3. UNCHANGED <<db, log, session, late, created, discarded, reported, life>> /\ Applied' = Applied
  BY DEF RefuseLogout, OthersUnchanged, HostUnchanged, UsersUnchanged, Applied
<1> HIDE DEF r
<1> QED
  BY <1>1, <1>2, <1>3, Facts, TabInv

LEMMA ForgetSharedInv == ASSUME IInv, NEW t \in Tabs, ForgetShared(t) PROVE IInv'
<1> DEFINE r == [tab[t] EXCEPT !.leaving = "forgotten"]
<1>1. r \in TabType /\ Steady(r, Applied) /\ Made(r, created)
  BY Facts DEF TabType, Steady, Made
<1>2. tab' = [tab EXCEPT ![t] = r] /\ life.quits
  BY DEF ForgetShared, IInv, Stays
<1>3. db' \in DbType /\ Cmds(db'.queue) = {}
  BY Facts, EmptyQueue DEF ForgetShared, DbType
<1>4. UNCHANGED <<log, late, created, discarded, reported, life>> /\ Applied' = Applied /\ session' \in BOOLEAN
  BY Facts DEF ForgetShared, UsersUnchanged, Applied
<1> HIDE DEF r
<1> QED
  BY <1>1, <1>2, <1>3, <1>4, Facts, TabInv

LEMMA LeaveSharedInv == ASSUME IInv, NEW t \in Tabs, LeaveShared(t) PROVE IInv'
<1> DEFINE r == [tab[t] EXCEPT !.mode = "local", !.queue = <<>>, !.leaving = "no"]
<1>1. r \in TabType /\ Steady(r, Applied) /\ Made(r, created)
  BY Facts, EmptyQueue DEF TabType, Steady, Made
<1>2. tab' = [tab EXCEPT ![t] = r] /\ life.quits
  BY Facts DEF LeaveShared, IInv, Stays, TabType
<1>3. db' \in DbType /\ db'.queue = db.queue
  BY Facts DEF LeaveShared, DbType
<1>4. UNCHANGED <<log, session, late, created, discarded, reported, life>> /\ Applied' = Applied
  BY DEF LeaveShared, OthersUnchanged, HostUnchanged, UsersUnchanged, Applied
<1> HIDE DEF r
<1> QED
  BY <1>1, <1>2, <1>3, <1>4, Facts, TabInv

LEMMA ReloadInv == ASSUME IInv, NEW t \in Tabs, Reload(t) PROVE IInv'
<1> DEFINE r == Opened(db.mode, IF db.mode = "remote" THEN db.queue ELSE <<>>)
<1>1. r \in TabType /\ Steady(r, Applied) /\ r.sending = NoCommand
  BY Facts, EmptyQueue DEF Opened, TabType, DbType, Steady
<1>2. Made(r, created)
  BY Facts, EmptyQueue DEF Opened, Made
<1>3. ~life.quits => /\ db.mode = "remote" /\ Stays(r) /\ Awaited(r, Applied \cup discarded)
                     /\ reported \subseteq Applied \cup discarded
  BY DEF IInv, Opened, Stays, Awaited
<1>4. tab' = [tab EXCEPT ![t] = r] /\ late' \subseteq Commands
  BY Facts, AskingProperties DEF Reload
<1>5. life' \in LifeType /\ life'.quits = life.quits
  <2>1. life \in LifeType /\ life.reloads > 0 /\ life' = [life EXCEPT !.reloads = @ - 1]
    BY Facts DEF Reload
  <2> QED
    BY <2>1 DEF LifeType
<1>6. UNCHANGED <<db, log, session, created, discarded, reported>> /\ Applied' = Applied
  BY DEF Reload, Applied
<1> HIDE DEF r
<1> QED
  BY <1>1, <1>2, <1>3, <1>4, <1>5, <1>6, Facts, TabInv

-----------------------------------------------------------------------------

LEMMA StutterInv == ASSUME IInv, UNCHANGED vars PROVE IInv'
  BY DEF IInv, TypeOK, vars, Applied, DiscardedStaysOut, Queued, Drafts

LEMMA StepInv == ASSUME IInv, [Next]_vars PROVE IInv'
<1>1. CASE UNCHANGED vars
  BY <1>1, StutterInv
<1>2. CASE LateCommand
  BY <1>2, LateCommandInv
<1>3. ASSUME NEW t \in Tabs, Sync(t) PROVE IInv'
  BY <1>3, StartSyncInv, ReceiveStateInv, SendDraftInv, RemoveDraftInv, ReceiveDoneInv,
     ReceiveRefusedInv, LoseAnswerInv, ReceiveUnauthorisedInv, EndSyncInv DEF Sync
<1>4. ASSUME NEW t \in Tabs, Host(t) PROVE IInv'
  BY <1>4, AnswerStateInv, AnswerCommandInv DEF Host
<1>5. ASSUME NEW t \in Tabs, User(t) PROVE IInv'
  BY <1>5, SaveDraftInv, DiscardDraftInv, RetryDraftInv, AskLogoutInv, RefuseLogoutInv,
     ForgetSharedInv, LeaveSharedInv, ReloadInv DEF User
<1> QED
  BY <1>1, <1>2, <1>3, <1>4, <1>5 DEF Next

\* The invariant the other theorems follow from.
THEOREM Inductive == Spec => []IInv
<1>1. Init => IInv
  BY ClientAssumption, InitInv
<1>2. IInv /\ [Next]_vars => IInv'
  BY StepInv
<1> QED
  BY <1>1, <1>2, PTL DEF Spec

\* The variables keep their types, and the main device carries out no command
\* twice, however often a tab sends it (web/app.js:192, workspace.js:75).
THEOREM TypesHold == Spec => []TypeOK
<1>1. IInv => TypeOK
  BY DEF IInv
<1> QED
  BY <1>1, Inductive, PTL

\* No draft is lost while users stay with the shared warehouse: every one is in
\* the queue, at the main device, or taken back (mutateQueue, web/app.js:42).
THEOREM NoDraftLost == Spec => []DraftsSurvive
<1>1. IInv => DraftsSurvive
  BY QueuedIsCmds DEF IInv, DraftsSurvive
<1> QED
  BY <1>1, Inductive, PTL

\* What send() calls saved because it is no longer in the queue of its tab was
\* carried out by the main device or taken back (web/app.js:200).
THEOREM SavedIsDone == Spec => []SavedIsApplied
<1>1. IInv => SavedIsApplied
  BY DEF IInv, SavedIsApplied
<1> QED
  BY <1>1, Inductive, PTL

\* No write of another tab and no running sync brings a draft back that was
\* taken out of the queue (web/app.js:43, 393).
THEOREM TakenBackStaysOut == Spec => []DiscardedStaysOut
<1>1. IInv => DiscardedStaysOut
  BY DEF IInv
<1> QED
  BY <1>1, Inductive, PTL
=============================================================================
