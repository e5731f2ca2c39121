-------------------------- MODULE StocktakeProofs ---------------------------
(***************************************************************************)
(* Proofs about two parts of the client's pages.  Stocktaking: a document  *)
(* changes stocks by the differences its user saw, what a page calls       *)
(* recorded is recorded, and a document that was sent is not lost.  The    *)
(* scanner: a camera that is on belongs to the open session, and a code    *)
(* of the camera was read three times.                                     *)
(***************************************************************************)
EXTENDS Stocktake, Scanner, SequenceTheorems, TLAPS

-----------------------------------------------------------------------------
(* Warehouses and documents *)

Rows == [Items -> Row]
Doc == [id : Nat, rows : Rows]
Draft == [id : Nat, cmd : Doc \cup {None}, rows : Rows]
Record == [cmd : Doc, changes : UNION {[C -> Int] : C \in SUBSET Items}]
Host == [stock : [Items -> [qty : Nat, version : Nat]], done : SUBSET Record]
Jobs == [step : {"", "review", "keep", "send", "asked"}, cmd : Doc \cup {None}]

\* The stock g may be what the stock h became: a version of a card has one quantity.
Behind(h, g) ==
    /\ \A i \in Items : /\ h.stock[i].version <= g.stock[i].version
                        /\ h.stock[i].version = g.stock[i].version => h.stock[i].qty = g.stock[i].qty
    /\ h.done \subseteq g.done

\* What was counted was seen in the warehouse h or before.
SeenIn(h, rows) ==
    \A i \in Items : /\ rows[i].expected <= h.stock[i].version
                     /\ rows[i].expected = h.stock[i].version => rows[i].qty = h.stock[i].qty

GoodDoc(c) == c \in Doc /\ SeenIn(host, c.rows) /\ c.id <= spent.drafts

GoodDraft(d) ==
    /\ d \in Draft /\ SeenIn(host, d.rows) /\ d.id <= spent.drafts
    /\ d.cmd # None => GoodDoc(d.cmd) /\ d.cmd.id = d.id

\* A document has changed the stocks by the differences it shows.
Recorded(h) ==
    \A d \in h.done : \A i \in DOMAIN d.changes : d.changes[i] = d.cmd.rows[i].value - d.cmd.rows[i].qty

-----------------------------------------------------------------------------
(* The invariant, part by part *)

HostPart == life \in Lives /\ host \in Host /\ Recorded(host) /\ spent \in [drafts : Nat, moves : Nat, losses : Nat, failures : Nat, reloads : Nat]

ShownPart == shown \in [Pages -> Host] /\ \A p \in Pages : Behind(shown[p], host)

DraftPart ==
    /\ disk # None => GoodDraft(disk)
    /\ draft \in [Pages -> Draft \cup {None}]
    /\ \A p \in Pages : draft[p] # None => GoodDraft(draft[p])

JobPart ==
    /\ job \in [Pages -> Jobs]
    /\ \A p \in Pages : job[p].step # "" => GoodDoc(job[p].cmd)

\* A document that is on its way was handed to send.
QueuePart ==
    /\ \A e \in queue : e \in [cmd : Doc, error : BOOLEAN] /\ GoodDoc(e.cmd) /\ e.cmd \in tried
    /\ \A c \in late : GoodDoc(c) /\ c \in tried
    /\ \A c \in tried : GoodDoc(c)
    /\ \A d \in host.done : d.cmd \in tried

InDone(c) == \E d \in host.done : d.cmd = c

\* No other document has its number.
Unique(c) == \A other \in tried : other.id = c.id => other = c

\* The warehouse has recorded it, unless another one took its number or the user
\* gave it up.
Kept(c) == c \in tried /\ (Unique(c) => InDone(c) \/ c.id \in dropped)

AnswerPart ==
    /\ sync \in [Pages -> [cmd : Doc, done : BOOLEAN] \cup {None}]
    /\ accept \in [Pages -> Doc \cup {None}]
    /\ \A p \in Pages :
        /\ sync[p] # None => sync[p].cmd \in tried /\ (sync[p].done => InDone(sync[p].cmd))
        /\ job[p].step = "asked" => job[p].cmd \in tried /\ (Queued(job[p].cmd.id) = {} => Kept(job[p].cmd))
        /\ accept[p] # None => Kept(accept[p])
    /\ \A c \in told : Kept(c)

IInv == HostPart /\ ShownPart /\ DraftPart /\ JobPart /\ QueuePart /\ AnswerPart

-----------------------------------------------------------------------------
(* What every step keeps *)

Onward ==
    /\ life' = life /\ host' \in Host /\ Behind(host, host')
    /\ spent' \in [drafts : Nat, moves : Nat, losses : Nat, failures : Nat, reloads : Nat]
    /\ spent.drafts <= spent'.drafts
    /\ tried \subseteq tried' /\ dropped \subseteq dropped'

LEMMA BehindItself == ASSUME NEW h \in Host PROVE Behind(h, h)
  BY DEF Behind, Host

LEMMA BehindTransitive ==
    ASSUME NEW h \in Host, NEW g \in Host, NEW f \in Host, Behind(h, g), Behind(g, f)
    PROVE  Behind(h, f)
<1>1. \A i \in Items : /\ h.stock[i].version \in Nat /\ g.stock[i].version \in Nat /\ f.stock[i].version \in Nat
  BY DEF Host
<1> QED
  BY <1>1 DEF Behind

LEMMA SeenStays ==
    ASSUME NEW h \in Host, NEW g \in Host, Behind(h, g), NEW rows \in Rows, SeenIn(h, rows)
    PROVE  SeenIn(g, rows)
<1>1. \A i \in Items : h.stock[i].version \in Nat /\ g.stock[i].version \in Nat /\ rows[i].expected \in Nat
  BY DEF Host, Rows, Row
<1> QED
  BY <1>1 DEF Behind, SeenIn

LEMMA DocStays == ASSUME HostPart, Onward, NEW c, GoodDoc(c) PROVE GoodDoc(c)'
<1>1. c \in Doc' /\ Doc' = Doc /\ c.rows \in Rows /\ c.id \in Nat
  BY DEF Onward, GoodDoc, Doc, Rows, Items
<1>2. SeenIn(host', c.rows)
  BY <1>1, SeenStays DEF Onward, HostPart, GoodDoc
<1>3. SeenIn(host, c.rows)'
  BY <1>2 DEF SeenIn, Onward, Items
<1>4. c.id <= spent'.drafts
  BY <1>1 DEF Onward, HostPart, GoodDoc
<1> QED
  BY <1>1, <1>3, <1>4 DEF GoodDoc

LEMMA DraftStays == ASSUME HostPart, Onward, NEW d, GoodDraft(d) PROVE GoodDraft(d)'
<1>1. d \in Draft' /\ d.rows \in Rows /\ d.id \in Nat
  BY DEF Onward, GoodDraft, Draft, Doc, Rows, Items
<1>2. SeenIn(host', d.rows)
  BY <1>1, SeenStays DEF Onward, HostPart, GoodDraft
<1>3. SeenIn(host, d.rows)'
  BY <1>2 DEF SeenIn, Onward, Items
<1>4. d.id <= spent'.drafts
  BY <1>1 DEF Onward, HostPart, GoodDraft
<1> QED
  BY <1>1, <1>3, <1>4, DocStays DEF GoodDraft

\* A document that fits adds one record, of the differences it shows.
LEMMA AfterProperties ==
    ASSUME HostPart, NEW c, GoodDoc(c), NEW g, g = After(host, c)
    PROVE  /\ g \in Host /\ Behind(host, g) /\ Recorded(g)
           /\ \A d \in g.done : d \in host.done \/ d.cmd = c
           /\ Accepted(host, c) => \E d \in g.done : d.cmd = c
<1>1. c \in Doc /\ host \in Host /\ SeenIn(host, c.rows)
  BY DEF GoodDoc, HostPart
<1>2. CASE ~Accepted(host, c) \/ Known(host, c.id)
  <2>1. g = host
    BY <1>2 DEF After
  <2>2. Accepted(host, c) => \E d \in host.done : d.cmd = c
    BY <1>2 DEF Accepted
  <2> QED
    BY <1>1, <2>1, <2>2, BehindItself DEF HostPart
<1>3. CASE Accepted(host, c) /\ ~Known(host, c.id)
  <2> DEFINE C == Counted(c.rows)
             changes == [i \in C |-> c.rows[i].value - host.stock[i].qty]
             d == [cmd |-> c, changes |-> changes]
             stock == [i \in Items |-> IF i \in C THEN [qty |-> c.rows[i].value, version |-> host.stock[i].version + 1]
                                       ELSE host.stock[i]]
  <2>1. g = [stock |-> stock, done |-> host.done \cup {d}]
    BY <1>3 DEF After
  <2>2. Fits(host, c)
    BY <1>3 DEF Accepted
  <2>3. \A i \in Items : /\ host.stock[i] \in [qty : Nat, version : Nat]
                         /\ i \in C => c.rows[i].value \in Nat
    BY <1>1, StocktakeAssumption DEF Host, Doc, Rows, Row, Counted
  <2>4. stock \in [Items -> [qty : Nat, version : Nat]]
    <3>1. \A i \in Items : (IF i \in C THEN [qty |-> c.rows[i].value, version |-> host.stock[i].version + 1]
                            ELSE host.stock[i]) \in [qty : Nat, version : Nat]
      BY <2>3
    <3> QED
      BY <3>1
  <2>5. d \in Record
    <3>1. C \subseteq Items /\ changes \in [C -> Int]
      BY <2>3 DEF Counted
    <3> HIDE DEF C, changes
    <3> QED
      BY <1>1, <3>1 DEF Record
  <2>6. g \in Host
    BY <1>1, <2>1, <2>4, <2>5 DEF Host
  <2>7. Behind(host, g)
    <3>1. \A i \in Items : \/ stock[i] = host.stock[i]
                           \/ stock[i].version = host.stock[i].version + 1
      OBVIOUS
    <3> HIDE DEF stock
    <3> QED
      BY <2>1, <2>3, <3>1 DEF Behind
  <2>8. \A i \in C : changes[i] = c.rows[i].value - c.rows[i].qty
    BY <1>1, <2>2 DEF Fits, SeenIn, Counted
  <2>9. Recorded(g)
    <3>1. DOMAIN d.changes = C /\ d.changes = changes /\ d.cmd = c
      OBVIOUS
    <3> HIDE DEF C, changes, d
    <3> QED
      BY <2>1, <2>8, <3>1 DEF Recorded, HostPart
  <2>10. d.cmd = c /\ g.done = host.done \cup {d}
    BY <2>1
  <2> HIDE DEF d
  <2> QED
    BY <2>6, <2>7, <2>9, <2>10
<1> QED
  BY <1>2, <1>3

\* Each part of the invariant after a step that leaves its own variables alone,
\* or adds what is good already.
LEMMA ShownStays ==
    ASSUME HostPart, ShownPart, Onward, \A p \in Pages : shown'[p] \in {shown[p], host, host'},
           shown' \in [Pages -> Host]
    PROVE  ShownPart'
<1>1. ASSUME NEW p \in Pages PROVE Behind(shown'[p], host')
  <2>1. shown[p] \in Host /\ host \in Host /\ host' \in Host /\ Behind(shown[p], host) /\ Behind(host, host')
    BY DEF HostPart, ShownPart, Onward
  <2> QED
    BY <2>1, BehindTransitive, BehindItself
<1>2. Pages' = Pages /\ Host' = Host /\ \A h, g : Behind(h, g) => Behind(h, g)'
  BY DEF Onward, Pages, Items, Host, Record, Doc, Rows, Behind
<1> QED
  BY <1>1, <1>2 DEF ShownPart

LEMMA SpendGrows ==
    ASSUME HostPart, NEW what \in {"drafts", "moves", "losses", "failures", "reloads"},
           spent' = spent \/ Spend(what)
    PROVE  /\ spent' \in [drafts : Nat, moves : Nat, losses : Nat, failures : Nat, reloads : Nat]
           /\ spent.drafts <= spent'.drafts
  BY DEF HostPart, Spend

LEMMA SameHost ==
    ASSUME HostPart, life' = life, host' = host,
           spent' = spent \/ \E what \in {"drafts", "moves", "losses", "failures", "reloads"} : Spend(what),
           tried \subseteq tried', dropped \subseteq dropped'
    PROVE  Onward /\ HostPart'
<1>1. /\ spent' \in [drafts : Nat, moves : Nat, losses : Nat, failures : Nat, reloads : Nat]
      /\ spent.drafts <= spent'.drafts
  BY SpendGrows DEF HostPart
<1> QED
  BY <1>1, BehindItself DEF HostPart, Onward, Recorded, Host, Record, Doc, Rows, Items

LEMMA DraftsStay ==
    ASSUME HostPart, DraftPart, Onward, UNCHANGED <<disk, draft>> PROVE DraftPart'
<1>1. Pages' = Pages /\ Draft' = Draft
  BY DEF Onward, Pages, Draft, Doc, Rows, Items
<1> QED
  BY <1>1, DraftStays DEF DraftPart

LEMMA JobsStay ==
    ASSUME HostPart, JobPart, Onward, UNCHANGED job PROVE JobPart'
<1>1. Pages' = Pages /\ Jobs' = Jobs
  BY DEF Onward, Pages, Jobs, Doc, Rows, Items
<1> QED
  BY <1>1, DocStays DEF JobPart

\* The page p goes on to another step, with a good document or without one.
LEMMA JobGoes ==
    ASSUME HostPart, JobPart, Onward, NEW p \in Pages,
           NEW step \in {"", "review", "keep", "send", "asked"}, NEW c \in Doc \cup {None}, To(p, step, c),
           step # "" => GoodDoc(c)
    PROVE  JobPart'
<1>1. Pages' = Pages /\ Jobs' = Jobs
  BY DEF Onward, Pages, Jobs, Doc, Rows, Items
<1>2. job' = [job EXCEPT ![p] = [step |-> step, cmd |-> c]] /\ [step |-> step, cmd |-> c] \in Jobs
  BY DEF To, Jobs
<1>3. job' \in [Pages -> Jobs]
  BY <1>2 DEF JobPart
<1>4. \A q \in Pages : \A d : job'[q].step # "" /\ job'[q].cmd = d => GoodDoc(d)'
  BY <1>2, DocStays DEF JobPart
<1>5. \A q \in Pages : job'[q].step # "" => GoodDoc(job[q].cmd)'
  BY <1>4 DEF GoodDoc, SeenIn
<1> QED
  BY <1>1, <1>3, <1>5 DEF JobPart

\* What is in the queue or late, and what the warehouse recorded, was handed to send.
LEMMA QueueStays ==
    ASSUME HostPart, QueuePart, Onward,
           \A e \in queue' : e \in [cmd : Doc, error : BOOLEAN] /\ GoodDoc(e.cmd) /\ e.cmd \in tried',
           late' \subseteq late \/ late' \subseteq late \cup {e.cmd : e \in queue},
           \A c \in tried' : GoodDoc(c),
           \A d \in host'.done : d \in host.done \/ d.cmd \in tried'
    PROVE  QueuePart'
<1>1. Doc' = Doc
  BY DEF Onward, Doc, Rows, Items
<1>2. \A c \in late' : GoodDoc(c) /\ c \in tried'
  BY DEF QueuePart, Onward
<1>3. \A d \in host'.done : d.cmd \in tried'
  BY DEF QueuePart, Onward
<1> QED
  BY <1>1, <1>2, <1>3, DocStays DEF QueuePart

LEMMA KeptStays == ASSUME Onward, NEW c, Kept(c) PROVE Kept(c)'
  BY DEF Onward, Behind, Kept, Unique, InDone

\* The answers, after a step of the page p or of nobody.
LEMMA AnswersStay ==
    ASSUME HostPart, JobPart, AnswerPart, Onward,
           sync' \in [Pages -> [cmd : Doc, done : BOOLEAN] \cup {None}],
           accept' \in [Pages -> Doc \cup {None}],
           \A q \in Pages :
              /\ sync'[q] # None =>
                    \/ sync'[q] = sync[q]
                    \/ \E c \in tried' : sync'[q].cmd = c /\ (sync'[q].done => InDone(c)')
              /\ accept'[q] # None => accept'[q] = accept[q] \/ \E c : accept'[q] = c /\ Kept(c)'
              /\ job'[q].step = "asked" =>
                    \/ job'[q] = job[q]
                    \/ job'[q].cmd \in tried' /\ \E e \in queue' : e.cmd.id = job'[q].cmd.id,
           \* What leaves the queue is recorded, or given up.
           \A c : (\E e \in queue : e.cmd = c) => c \in tried /\ ((\A f \in queue' : f.cmd.id # c.id) => Kept(c)'),
           \A c \in told' : c \in told \/ Kept(c)'
    PROVE  AnswerPart'
<1>1. Pages' = Pages /\ Doc' = Doc
  BY DEF Onward, Pages, Doc, Rows, Items
<1>2. \A q \in Pages : \A c : accept'[q] = c /\ c # None => Kept(c)'
  BY KeptStays DEF AnswerPart
<1>3. \A c \in told' : Kept(c)'
  BY KeptStays DEF AnswerPart
<1>4. \A q \in Pages : sync'[q] # None =>
         sync'[q].cmd \in tried' /\ (sync'[q].done => \E d \in host'.done : d.cmd = sync'[q].cmd)
  BY DEF AnswerPart, Onward, Behind, InDone
<1>5. ASSUME NEW q \in Pages, job'[q].step = "asked", NEW c, c = job'[q].cmd
      PROVE  c \in tried' /\ ((\A f \in queue' : f.cmd.id # c.id) => Kept(c)')
  <2>1. CASE job'[q] = job[q]
    <3>1. c \in tried /\ (Queued(c.id) = {} => Kept(c))
      BY <1>5, <2>1 DEF AnswerPart
    <3>2. CASE Queued(c.id) = {}
      <4>1. Kept(c)'
        BY <3>1, <3>2, KeptStays
      <4> QED
        BY <3>1, <4>1 DEF Onward
    <3>3. CASE Queued(c.id) # {} /\ \A f \in queue' : f.cmd.id # c.id
      <4>1. PICK e \in queue : e.cmd.id = c.id
        BY <3>3 DEF Queued
      <4>2. PICK b : b = e.cmd
        OBVIOUS
      <4>3. Kept(b)' /\ b \in tried /\ b.id = c.id
        BY <3>3, <4>1, <4>2
      <4>4. c \in tried' /\ b \in tried'
        BY <3>1, <4>3 DEF Onward
      <4>5. Kept(c)'
        BY <4>3, <4>4 DEF Kept, Unique, InDone
      <4> QED
        BY <4>4, <4>5
    <3>4. CASE ~\A f \in queue' : f.cmd.id # c.id
      BY <3>1, <3>4 DEF Onward
    <3> QED
      BY <3>2, <3>3, <3>4
  <2>2. CASE job'[q].cmd \in tried' /\ \E e \in queue' : e.cmd.id = job'[q].cmd.id
    BY <1>5, <2>2
  <2> QED
    BY <1>5, <2>1, <2>2
<1>6. \A q \in Pages : accept'[q] # None => Kept(accept[q])'
  BY <1>2 DEF Kept, Unique, InDone
<1>7. \A q \in Pages : sync'[q] # None => sync'[q].cmd \in tried' /\ (sync'[q].done => InDone(sync[q].cmd)')
  BY <1>4 DEF InDone
<1>8. \A q \in Pages : job'[q].step = "asked" =>
         job'[q].cmd \in tried' /\ (Queued(job[q].cmd.id)' = {} => Kept(job[q].cmd)')
  BY <1>5 DEF Queued, Kept, Unique, InDone
<1> QED
  BY <1>1, <1>3, <1>6, <1>7, <1>8 DEF AnswerPart

LEMMA AnswersUntouched ==
    ASSUME IInv, Onward, UNCHANGED <<sync, accept, told>>,
           \A q \in Pages : job'[q].step = "asked" => job'[q] = job[q],
           \A e \in queue : \E f \in queue' : f.cmd = e.cmd
    PROVE  AnswerPart'
<1>1. \A c : (\E e \in queue : e.cmd = c) => c \in tried /\ \E f \in queue' : f.cmd.id = c.id
  BY DEF IInv, QueuePart
<1>2. /\ sync' \in [Pages -> [cmd : Doc, done : BOOLEAN] \cup {None}]
      /\ accept' \in [Pages -> Doc \cup {None}]
  BY DEF IInv, AnswerPart
<1>3. \A c \in told' : c \in told
  OBVIOUS
<1>4. \A q \in Pages : sync'[q] = sync[q] /\ accept'[q] = accept[q]
  OBVIOUS
<1> QED
  BY <1>1, <1>2, <1>3, <1>4, AnswersStay DEF IInv

\* The queue, when nothing new comes into it and nothing is recorded.
LEMMA QueueUntouched ==
    ASSUME IInv, Onward, UNCHANGED <<tried, late>>, host'.done = host.done,
           \A e \in queue' : e \in [cmd : Doc, error : BOOLEAN] /\ \E f \in queue : f.cmd = e.cmd
    PROVE  QueuePart'
<1>1. \A e \in queue' : e \in [cmd : Doc, error : BOOLEAN] /\ GoodDoc(e.cmd) /\ e.cmd \in tried'
  BY DEF IInv, QueuePart
<1>2. \A c \in tried' : GoodDoc(c)
  BY DEF IInv, QueuePart
<1>3. (\A d \in host'.done : d \in host.done \/ d.cmd \in tried') /\ late' \subseteq late
  OBVIOUS
<1> QED
  BY <1>1, <1>2, <1>3, QueueStays DEF IInv

-----------------------------------------------------------------------------
(* Every step keeps the invariant *)

LEMMA MoveKeeps == ASSUME IInv, NEW i \in Items, Move(i) PROVE IInv'
<1>1. PICK qty \in Counts : host' = [host EXCEPT !.stock[i] = [qty |-> qty, version |-> @.version + 1]]
  BY DEF Move
<1>2. qty \in Nat
  BY StocktakeAssumption
<1>3. host \in Host /\ host.stock \in [Items -> [qty : Nat, version : Nat]] /\ host.stock[i].version \in Nat
  BY DEF IInv, HostPart, Host
<1>4. PICK s : s = [qty |-> qty, version |-> host.stock[i].version + 1]
  OBVIOUS
<1>5. host' = [host EXCEPT !.stock = [host.stock EXCEPT ![i] = s]] /\ s \in [qty : Nat, version : Nat]
      /\ s.version = host.stock[i].version + 1
  BY <1>1, <1>2, <1>3, <1>4
<1>6. host' \in Host
  BY <1>3, <1>5 DEF Host
<1>7. host'.done = host.done /\ \A j \in Items : host'.stock[j] = IF j = i THEN s ELSE host.stock[j]
  BY <1>3, <1>5 DEF Host
<1>8. Behind(host, host')
  <2>1. \A j \in Items : host.stock[j].version \in Nat
    BY <1>3
  <2> QED
    BY <1>5, <1>7, <2>1 DEF Behind
<1>9. Onward
  BY <1>6, <1>8, SpendGrows DEF Move, IInv, Onward
<1>10. HostPart'
  BY <1>7, <1>9 DEF IInv, HostPart, Onward, Recorded, Host, Record, Doc, Rows, Items
<1>11. ShownPart'
  BY <1>9, ShownStays DEF IInv, Move, ShownPart
<1>12. DraftPart' /\ JobPart'
  BY <1>9, DraftsStay, JobsStay DEF IInv, Move
<1>13. QueuePart'
  <2>1. \A e \in queue : e \in [cmd : Doc, error : BOOLEAN]
    BY DEF IInv, QueuePart
  <2> QED
    BY <1>7, <1>9, <2>1, QueueUntouched DEF Move
<1>14. AnswerPart'
  BY <1>9, AnswersUntouched DEF Move
<1> QED
  BY <1>10, <1>11, <1>12, <1>13, <1>14 DEF IInv

\* The parts that a step leaves alone when the warehouse and the queue do not change.
LEMMA Quiet ==
    ASSUME IInv, life' = life, host' = host,
           spent' = spent \/ \E what \in {"drafts", "moves", "losses", "failures", "reloads"} : Spend(what),
           UNCHANGED <<tried, late, sync, accept, told, queue>>, dropped \subseteq dropped',
           \A q \in Pages : job'[q].step = "asked" => job'[q] = job[q]
    PROVE  Onward /\ HostPart' /\ QueuePart' /\ AnswerPart'
<1>1. Onward /\ HostPart'
  BY SameHost DEF IInv
<1>2. \A e \in queue : e \in [cmd : Doc, error : BOOLEAN]
  BY DEF IInv, QueuePart
<1> QED
  BY <1>1, <1>2, QueueUntouched, AnswersUntouched

LEMMA RefreshKeeps == ASSUME IInv, NEW p \in Pages, Refresh(p) PROVE IInv'
<1>1. Onward /\ HostPart' /\ QueuePart' /\ AnswerPart'
  BY Quiet DEF Refresh
<1>2. ShownPart'
  <2>1. shown' \in [Pages -> Host] /\ \A q \in Pages : shown'[q] \in {shown[q], host, host'}
    BY DEF Refresh, IInv, ShownPart, HostPart
  <2> QED
    BY <1>1, <2>1, ShownStays DEF IInv
<1>3. DraftPart' /\ JobPart'
  BY <1>1, DraftsStay, JobsStay DEF IInv, Refresh
<1> QED
  BY <1>1, <1>2, <1>3 DEF IInv

\* A page or the store gets another draft.
LEMMA DraftsChange ==
    ASSUME HostPart, DraftPart, Onward, draft' \in [Pages -> Draft \cup {None}],
           disk' = disk \/ disk' = None \/ \E q \in Pages : disk' = draft'[q],
           \A q \in Pages : draft'[q] \in {draft[q], disk, None} \/ \E d : draft'[q] = d /\ GoodDraft(d)'
    PROVE  DraftPart'
<1>1. Pages' = Pages /\ Draft' = Draft
  BY DEF Onward, Pages, Draft, Doc, Rows, Items
<1>2. \A q \in Pages : \A d : draft'[q] = d /\ d # None => GoodDraft(d)'
  BY DraftStays DEF DraftPart
<1>3. \A d : disk' = d /\ d # None => GoodDraft(d)'
  BY <1>2, DraftStays DEF DraftPart
<1>4. disk' # None => GoodDraft(disk)'
  BY <1>3 DEF GoodDraft, GoodDoc, SeenIn
<1>5. \A q \in Pages : draft'[q] # None => GoodDraft(draft[q])'
  BY <1>2 DEF GoodDraft, GoodDoc, SeenIn
<1> QED
  BY <1>1, <1>4, <1>5 DEF DraftPart

LEMMA StartInventoryKeeps == ASSUME IInv, NEW p \in Pages, StartInventory(p) PROVE IInv'
<1>1. Onward /\ HostPart' /\ QueuePart' /\ AnswerPart'
  BY Quiet DEF StartInventory
<1>2. PICK rows : rows = [i \in Items |-> [qty |-> shown[p].stock[i].qty, expected |-> shown[p].stock[i].version,
                                          value |-> NotCounted]]
  OBVIOUS
<1>3. PICK new : new = [id |-> spent.drafts + 1, cmd |-> None, rows |-> rows]
  OBVIOUS
<1>4. draft' = [draft EXCEPT ![p] = new] /\ disk' = new
  BY <1>2, <1>3 DEF StartInventory
<1>5. rows \in Rows /\ SeenIn(host, rows)
  <2>1. \A i \in Items : shown[p].stock[i].qty \in Nat /\ shown[p].stock[i].version \in Nat
    BY DEF IInv, ShownPart, Host
  <2>2. \A i \in Items : /\ rows[i].qty = shown[p].stock[i].qty
                         /\ rows[i].expected = shown[p].stock[i].version
    BY <1>2
  <2>3. ASSUME NEW i \in Items PROVE rows[i] \in Row
    <3>1. rows[i] = [qty |-> shown[p].stock[i].qty, expected |-> shown[p].stock[i].version,
                     value |-> NotCounted]
      BY <1>2
    <3> QED
      BY <2>1, <3>1 DEF Row
  <2>4. rows \in Rows
    BY <1>2, <2>3 DEF Rows
  <2>5. Behind(shown[p], host)
    BY DEF IInv, ShownPart
  <2>6. SeenIn(host, rows)
    BY <2>2, <2>5 DEF SeenIn, Behind
  <2> QED
    BY <2>4, <2>6
<1>6. spent'.drafts = spent.drafts + 1 /\ spent.drafts \in Nat
  BY DEF StartInventory, Spend, IInv, HostPart
<1>7. new \in Draft /\ new.id <= spent'.drafts
  BY <1>3, <1>5, <1>6 DEF Draft
<1>8. GoodDraft(new)'
  <2>1. SeenIn(host, new.rows)'
    BY <1>3, <1>5 DEF SeenIn, StartInventory, Items
  <2>2. new \in Draft' /\ new.cmd = None
    BY <1>1, <1>3, <1>7 DEF Onward, Draft, Doc, Rows, Items
  <2> QED
    BY <1>7, <2>1, <2>2 DEF GoodDraft
<1>9. draft' \in [Pages -> Draft \cup {None}]
  BY <1>4, <1>7 DEF IInv, DraftPart
<1>10. draft'[p] = new /\ \A q \in Pages : q # p => draft'[q] = draft[q]
  BY <1>4 DEF IInv, DraftPart
<1>11. DraftPart'
  BY <1>1, <1>4, <1>8, <1>9, <1>10, DraftsChange DEF IInv
<1>12. ShownPart' /\ JobPart'
  BY <1>1, ShownStays, JobsStay DEF IInv, ShownPart, StartInventory
<1> QED
  BY <1>1, <1>11, <1>12 DEF IInv

\* An input changes one row of the draft, and of it only the count.
LEMMA InputDraft ==
    ASSUME IInv, NEW p \in Pages, Input(p)
    PROVE  \E new : /\ GoodDraft(new) /\ new.id = draft[p].id /\ new.cmd = None
                    /\ draft' = [draft EXCEPT ![p] = new]
<1>1. PICK i \in Items, n \in Counts : draft' = [draft EXCEPT ![p].rows[i].value = n]
  BY DEF Input
<1>2. PICK old : old = draft[p]
  OBVIOUS
<1>3. old \in Draft /\ SeenIn(host, old.rows) /\ old.id <= spent.drafts /\ old.cmd = None
  BY <1>2 DEF Input, IInv, DraftPart, GoodDraft
<1>4. PICK rows : rows = [old.rows EXCEPT ![i].value = n]
  OBVIOUS
<1>5. old.rows \in Rows /\ \A j \in Items : old.rows[j] \in Row
  BY <1>3 DEF Draft, Rows
<1>6. \A j \in Items : rows[j] = IF j = i THEN [old.rows[i] EXCEPT !.value = n] ELSE old.rows[j]
  BY <1>4, <1>5 DEF Rows
<1>7. \A j \in Items : rows[j] \in Row /\ rows[j].qty = old.rows[j].qty /\ rows[j].expected = old.rows[j].expected
  BY <1>5, <1>6 DEF Row
<1>8. rows \in Rows /\ SeenIn(host, rows)
  BY <1>3, <1>4, <1>5, <1>7 DEF Rows, SeenIn
<1>9. PICK new : new = [old EXCEPT !.rows = rows]
  OBVIOUS
<1>10. new \in Draft /\ new.rows = rows /\ new.id = old.id /\ new.cmd = None
  BY <1>3, <1>8, <1>9 DEF Draft
<1>11. draft' = [draft EXCEPT ![p] = new]
  BY <1>1, <1>2, <1>4, <1>9
<1>12. GoodDraft(new)
  BY <1>3, <1>8, <1>10 DEF GoodDraft
<1> QED
  BY <1>2, <1>10, <1>11, <1>12

LEMMA InputKeeps == ASSUME IInv, NEW p \in Pages, Input(p) PROVE IInv'
<1>1. Onward /\ HostPart' /\ QueuePart' /\ AnswerPart'
  BY Quiet DEF Input, Saved, NotSaved
<1>2. PICK new : GoodDraft(new) /\ draft' = [draft EXCEPT ![p] = new]
  BY InputDraft
<1>3. GoodDraft(new)'
  BY <1>1, <1>2, DraftStays DEF IInv
<1>4. draft' \in [Pages -> Draft \cup {None}]
  BY <1>2 DEF IInv, DraftPart, GoodDraft
<1>5. draft'[p] = new /\ \A q \in Pages : q # p => draft'[q] = draft[q]
  BY <1>2 DEF IInv, DraftPart
<1>6. disk' = disk \/ disk' = draft'[p]
  BY DEF Input, Saved, NotSaved
<1>7. DraftPart'
  BY <1>1, <1>3, <1>4, <1>5, <1>6, DraftsChange DEF IInv
<1>8. ShownPart' /\ JobPart'
  BY <1>1, ShownStays, JobsStay DEF IInv, ShownPart, Input
<1> QED
  BY <1>1, <1>7, <1>8 DEF IInv

LEMMA FinishKeeps == ASSUME IInv, NEW p \in Pages, Finish(p) PROVE IInv'
<1>1. draft[p] # None /\ GoodDraft(draft[p]) /\ job \in [Pages -> Jobs]
  BY DEF Finish, IInv, DraftPart, JobPart
<1>2. CASE UNCHANGED job
  <2>1. Onward /\ HostPart' /\ QueuePart' /\ AnswerPart'
    BY <1>2, Quiet DEF Finish, Saved, NotSaved
  <2>2. DraftPart' /\ ShownPart' /\ JobPart'
    <3>1. disk' = disk \/ disk' = draft'[p]
      BY DEF Finish, Saved, NotSaved
    <3>2. UNCHANGED <<draft, shown>>
      BY DEF Finish
    <3> QED
      BY <1>2, <2>1, <3>1, <3>2, ShownStays, JobsStay, DraftsChange DEF IInv, ShownPart, DraftPart
  <2> QED
    BY <2>1, <2>2 DEF IInv
<1>3. ASSUME NEW step \in {"review", "keep"}, NEW c, GoodDoc(c), To(p, step, c), Saved(draft[p])
      PROVE  IInv'
  <2>1. \A q \in Pages : job'[q].step = "asked" => job'[q] = job[q]
    BY <1>1, <1>3 DEF To, Jobs
  <2>2. Onward /\ HostPart' /\ QueuePart' /\ AnswerPart'
    BY <1>3, <2>1, Quiet DEF Finish, Saved
  <2>3. JobPart'
    BY <1>3, <2>2, JobGoes DEF IInv, GoodDoc
  <2>4. UNCHANGED <<draft, shown>> /\ disk' = draft'[p]
    BY <1>3 DEF Finish, Saved
  <2>5. DraftPart' /\ ShownPart'
    BY <2>2, <2>4, ShownStays, DraftsChange DEF IInv, ShownPart, DraftPart
  <2> QED
    BY <2>2, <2>3, <2>5 DEF IInv
<1>4. draft[p].cmd # None => GoodDoc(draft[p].cmd)
  BY <1>1 DEF GoodDraft
<1>5. GoodDoc(Document(draft[p]))
  BY <1>1 DEF GoodDraft, Draft, Doc, Document, GoodDoc
<1> QED
  BY <1>2, <1>3, <1>4, <1>5 DEF Finish

\* finishInventory goes on, and perhaps puts its document into the draft.
LEMMA JobStep ==
    ASSUME IInv, NEW p \in Pages, NEW step \in {"", "review", "keep", "send"}, NEW c \in Doc \cup {None},
           To(p, step, c), step # "" => GoodDoc(c),
           UNCHANGED <<life, host, shown, sync, accept, queue, late, tried, told, dropped>>,
           spent' = spent \/ \E what \in {"drafts", "moves", "losses", "failures", "reloads"} : Spend(what),
           draft' = draft \/ \E new : GoodDraft(new) /\ draft' = [draft EXCEPT ![p] = new],
           disk' = disk \/ disk' = draft'[p]
    PROVE  IInv'
<1>1. \A q \in Pages : job'[q].step = "asked" => job'[q] = job[q]
  BY DEF To, IInv, JobPart, Jobs
<1>2. Onward /\ HostPart' /\ QueuePart' /\ AnswerPart'
  BY <1>1, Quiet
<1>3. ShownPart' /\ JobPart'
  BY <1>2, ShownStays, JobGoes DEF IInv, ShownPart
<1>4. CASE draft' = draft
  BY <1>2, <1>3, <1>4, DraftsChange DEF IInv, DraftPart
<1>5. ASSUME NEW new, GoodDraft(new), draft' = [draft EXCEPT ![p] = new] PROVE DraftPart'
  <2>1. GoodDraft(new)'
    BY <1>2, <1>5, DraftStays DEF IInv
  <2>2. draft' \in [Pages -> Draft \cup {None}]
    BY <1>5 DEF IInv, DraftPart, GoodDraft
  <2>3. draft'[p] = new /\ \A q \in Pages : q # p => draft'[q] = draft[q]
    BY <1>5 DEF IInv, DraftPart
  <2> QED
    BY <1>2, <2>1, <2>2, <2>3, DraftsChange DEF IInv
<1> QED
  BY <1>2, <1>3, <1>4, <1>5 DEF IInv

LEMMA ReviewKeeps == ASSUME IInv, NEW p \in Pages, Review(p) PROVE IInv'
<1>1. GoodDoc(job[p].cmd) /\ job[p].cmd \in Doc
  BY DEF IInv, JobPart, Review, GoodDoc
<1>2. CASE Same(p) /\ draft' = [draft EXCEPT ![p].cmd = job[p].cmd]
  <2>1. PICK old, new : old = draft[p] /\ new = [old EXCEPT !.cmd = job[p].cmd]
    OBVIOUS
  <2>2. draft' = [draft EXCEPT ![p] = new]
    BY <1>2, <2>1
  <2>3. GoodDraft(old) /\ old.id = job[p].cmd.id
    BY <1>2, <2>1 DEF Same, IInv, DraftPart
  <2>4. new \in Draft /\ new.cmd = job[p].cmd /\ new.id = old.id /\ new.rows = old.rows
    BY <1>1, <2>1, <2>3 DEF GoodDraft, Draft
  <2>5. GoodDraft(new)
    BY <1>1, <2>3, <2>4 DEF GoodDraft
  <2> QED
    BY <1>1, <2>2, <2>5, JobStep DEF Review, Saved, NotSaved
<1>3. CASE To(p, "", None) /\ UNCHANGED <<draft, disk, spent>>
  BY <1>3, JobStep DEF Review
<1> QED
  BY <1>2, <1>3 DEF Review

LEMMA KeepPayloadKeeps == ASSUME IInv, NEW p \in Pages, KeepPayload(p) PROVE IInv'
<1>1. GoodDoc(job[p].cmd) /\ job[p].cmd \in Doc
  BY DEF IInv, JobPart, KeepPayload, GoodDoc
<1>2. disk' = disk \/ disk' = draft'[p]
  BY DEF KeepPayload, Saved, NotSaved
<1> QED
  BY <1>1, <1>2, JobStep DEF KeepPayload, Saved, NotSaved

\* A document that is good is carried out, or not.
LEMMA Carried ==
    ASSUME HostPart, NEW c, GoodDoc(c), host' = After(host, c), life' = life,
           spent' = spent, tried \subseteq tried', dropped \subseteq dropped'
    PROVE  /\ Onward /\ HostPart'
           /\ \A d \in host'.done : d \in host.done \/ d.cmd = c
           /\ Accepted(host, c) => \E d \in host'.done : d.cmd = c
<1>1. PICK g : g = host'
  OBVIOUS
<1>2. /\ g \in Host /\ Behind(host, g) /\ Recorded(g)
      /\ \A d \in g.done : d \in host.done \/ d.cmd = c
      /\ Accepted(host, c) => \E d \in g.done : d.cmd = c
  BY <1>1, AfterProperties
<1>3. Onward
  BY <1>1, <1>2 DEF Onward, HostPart
<1>4. HostPart'
  BY <1>1, <1>2, <1>3 DEF HostPart, Onward, Recorded, Host, Record, Doc, Rows, Items
<1> QED
  BY <1>1, <1>2, <1>3, <1>4

LEMMA SendLocalKeeps == ASSUME IInv, NEW p \in Pages, SendLocal(p) PROVE IInv'
<1>1. PICK c : c = job[p].cmd
  OBVIOUS
<1>2. GoodDoc(c) /\ c \in Doc
  BY <1>1 DEF IInv, JobPart, SendLocal, GoodDoc
<1>3. /\ host' = After(host, c) /\ tried' = tried \cup {c} /\ To(p, "", None)
      /\ UNCHANGED <<life, disk, draft, sync, queue, late, spent, dropped>>
  BY <1>1 DEF SendLocal
<1>4. /\ Onward /\ HostPart'
      /\ \A d \in host'.done : d \in host.done \/ d.cmd = c
      /\ Accepted(host, c) => \E d \in host'.done : d.cmd = c
  BY <1>2, <1>3, Carried DEF IInv
<1>5. ShownPart'
  <2>1. shown' = shown \/ shown' = [shown EXCEPT ![p] = host']
    BY DEF SendLocal
  <2>2. shown' \in [Pages -> Host] /\ \A q \in Pages : shown'[q] \in {shown[q], host, host'}
    BY <1>4, <2>1 DEF IInv, ShownPart, Onward
  <2> QED
    BY <1>4, <2>2, ShownStays DEF IInv
<1>6. DraftPart' /\ JobPart'
  BY <1>3, <1>4, DraftsStay, JobGoes DEF IInv
<1>7. QueuePart'
  <2>1. \A e \in queue' : e \in [cmd : Doc, error : BOOLEAN] /\ GoodDoc(e.cmd) /\ e.cmd \in tried'
    BY <1>3 DEF IInv, QueuePart
  <2>2. \A b \in tried' : GoodDoc(b)
    BY <1>2, <1>3 DEF IInv, QueuePart
  <2>3. \A d \in host'.done : d \in host.done \/ d.cmd \in tried'
    BY <1>3, <1>4
  <2> QED
    BY <1>3, <1>4, <2>1, <2>2, <2>3, QueueStays DEF IInv
<1>8. AnswerPart'
  <2>1. UNCHANGED <<told, accept>> \/ (told' = told \cup {c} /\ accept' = [accept EXCEPT ![p] = c] /\ Kept(c)')
    BY <1>1, <1>3, <1>4 DEF SendLocal, Tell, Kept, Unique, InDone
  <2>2. /\ accept' \in [Pages -> Doc \cup {None}]
        /\ \A q \in Pages : accept'[q] # None => accept'[q] = accept[q] \/ \E b : accept'[q] = b /\ Kept(b)'
    BY <1>2, <2>1 DEF IInv, AnswerPart
  <2>3. \A b \in told' : b \in told \/ Kept(b)'
    BY <2>1
  <2>4. \A b : (\E e \in queue : e.cmd = b) => b \in tried /\ \E f \in queue' : f.cmd.id = b.id
    BY <1>3 DEF IInv, QueuePart
  <2>5. \A q \in Pages : job'[q].step = "asked" => job'[q] = job[q]
    BY <1>3 DEF To, IInv, JobPart
  <2>6. sync' = sync /\ sync' \in [Pages -> [cmd : Doc, done : BOOLEAN] \cup {None}]
    BY <1>3 DEF IInv, AnswerPart
  <2> QED
    BY <1>4, <2>2, <2>3, <2>4, <2>5, <2>6, AnswersStay DEF IInv
<1> QED
  BY <1>4, <1>5, <1>6, <1>7, <1>8 DEF IInv

LEMMA EnqueueKeeps == ASSUME IInv, NEW p \in Pages, Enqueue(p) PROVE IInv'
<1>1. PICK c : c = job[p].cmd
  OBVIOUS
<1>2. GoodDoc(c) /\ c \in Doc
  BY <1>1 DEF IInv, JobPart, Enqueue, GoodDoc
<1>3. /\ queue' = IF Queued(c.id) # {} THEN queue ELSE queue \cup {[cmd |-> c, error |-> FALSE]}
      /\ tried' = tried \cup {c} /\ To(p, "asked", c)
      /\ UNCHANGED <<life, host, shown, disk, draft, sync, accept, late, spent, told, dropped>>
  BY <1>1 DEF Enqueue
<1>4. Onward /\ HostPart'
  BY <1>3, SameHost DEF IInv
<1>5. ShownPart' /\ DraftPart' /\ JobPart'
  BY <1>2, <1>3, <1>4, ShownStays, DraftsStay, JobGoes DEF IInv, ShownPart
<1>6. queue \subseteq queue' /\ \E e \in queue' : e.cmd.id = c.id
  <2>1. [cmd |-> c, error |-> FALSE].cmd = c
    OBVIOUS
  <2> QED
    BY <1>3, <2>1 DEF Queued
<1>7. QueuePart'
  <2>1. PICK new : new = [cmd |-> c, error |-> FALSE]
    OBVIOUS
  <2>2. new \in [cmd : Doc, error : BOOLEAN] /\ new.cmd = c
    BY <1>2, <2>1
  <2>3. queue' \subseteq queue \cup {new}
    BY <1>3, <2>1
  <2>4. \A e \in queue' : e \in [cmd : Doc, error : BOOLEAN] /\ GoodDoc(e.cmd) /\ e.cmd \in tried'
    BY <1>2, <1>3, <2>2, <2>3 DEF IInv, QueuePart
  <2>5. \A b \in tried' : GoodDoc(b)
    BY <1>2, <1>3 DEF IInv, QueuePart
  <2> QED
    BY <1>3, <1>4, <2>4, <2>5, QueueStays DEF IInv
<1>8. AnswerPart'
  <2>1. \A b : (\E e \in queue : e.cmd = b) => b \in tried /\ \E f \in queue' : f.cmd.id = b.id
    BY <1>6 DEF IInv, QueuePart
  <2>2. \A q \in Pages : job'[q].step = "asked" =>
           job'[q] = job[q] \/ (job'[q].cmd \in tried' /\ \E e \in queue' : e.cmd.id = job'[q].cmd.id)
    BY <1>3, <1>6 DEF To, IInv, JobPart
  <2>3. /\ UNCHANGED <<sync, accept, told>>
        /\ sync' \in [Pages -> [cmd : Doc, done : BOOLEAN] \cup {None}] /\ accept' \in [Pages -> Doc \cup {None}]
    BY <1>3 DEF IInv, AnswerPart
  <2> QED
    BY <1>4, <2>1, <2>2, <2>3, AnswersStay DEF IInv
<1> QED
  BY <1>4, <1>5, <1>7, <1>8 DEF IInv

LEMMA LookAtQueueKeeps == ASSUME IInv, NEW p \in Pages, LookAtQueue(p) PROVE IInv'
<1>1. PICK c : c = job[p].cmd
  OBVIOUS
<1>2. GoodDoc(c) /\ c \in Doc /\ (Queued(c.id) = {} => Kept(c))
  BY <1>1 DEF IInv, JobPart, LookAtQueue, GoodDoc, AnswerPart
<1>3. /\ IF Queued(c.id) = {} THEN Tell(p, c) ELSE UNCHANGED <<told, accept>>
      /\ To(p, "", None)
      /\ UNCHANGED <<life, host, shown, disk, draft, sync, queue, late, spent, tried, dropped>>
  BY <1>1 DEF LookAtQueue
<1>4. Onward /\ HostPart'
  BY <1>3, SameHost DEF IInv
<1>5. ShownPart' /\ DraftPart' /\ JobPart'
  BY <1>3, <1>4, ShownStays, DraftsStay, JobGoes DEF IInv, ShownPart
<1>6. QueuePart'
  <2>1. \A e \in queue : e \in [cmd : Doc, error : BOOLEAN]
    BY DEF IInv, QueuePart
  <2> QED
    BY <1>3, <1>4, <2>1, QueueUntouched
<1>7. AnswerPart'
  <2>1. UNCHANGED <<told, accept>> \/ (told' = told \cup {c} /\ accept' = [accept EXCEPT ![p] = c] /\ Kept(c)')
    BY <1>2, <1>3, <1>4, KeptStays DEF Tell
  <2>2. /\ accept' \in [Pages -> Doc \cup {None}]
        /\ \A q \in Pages : accept'[q] # None => accept'[q] = accept[q] \/ \E b : accept'[q] = b /\ Kept(b)'
    BY <1>2, <2>1 DEF IInv, AnswerPart
  <2>3. \A b \in told' : b \in told \/ Kept(b)'
    BY <2>1
  <2>4. \A b : (\E e \in queue : e.cmd = b) => b \in tried /\ \E f \in queue' : f.cmd.id = b.id
    BY <1>3 DEF IInv, QueuePart
  <2>5. \A q \in Pages : job'[q].step = "asked" => job'[q] = job[q]
    BY <1>3 DEF To, IInv, JobPart
  <2>6. sync' = sync /\ sync' \in [Pages -> [cmd : Doc, done : BOOLEAN] \cup {None}]
    BY <1>3 DEF IInv, AnswerPart
  <2> QED
    BY <1>4, <2>2, <2>3, <2>4, <2>5, <2>6, AnswersStay DEF IInv
<1> QED
  BY <1>4, <1>5, <1>6, <1>7 DEF IInv

LEMMA SyncKeeps == ASSUME IInv, NEW p \in Pages, Sync(p) PROVE IInv'
<1>1. PICK e \in queue :
         \/ /\ host' = After(host, e.cmd)
            /\ sync' = [sync EXCEPT ![p] = [cmd |-> e.cmd, done |-> Accepted(host, e.cmd)]]
            /\ UNCHANGED <<late, spent>>
         \/ Spend("losses") /\ late' = late \cup {e.cmd} /\ UNCHANGED <<host, sync>>
  BY DEF Sync
<1>2. UNCHANGED <<life, shown, disk, draft, job, accept, queue, tried, told, dropped>>
  BY DEF Sync
<1>3. PICK c : c = e.cmd
  OBVIOUS
<1>4. GoodDoc(c) /\ c \in Doc /\ c \in tried
  BY <1>3 DEF IInv, QueuePart, GoodDoc
<1>5. /\ Onward /\ HostPart'
      /\ \A d \in host'.done : d \in host.done \/ d.cmd = c
      /\ sync' = sync \/ (sync' = [sync EXCEPT ![p] = [cmd |-> c, done |-> Accepted(host, c)]]
                          /\ (Accepted(host, c) => \E d \in host'.done : d.cmd = c))
  <2>1. CASE host' = After(host, c) /\ UNCHANGED spent
    BY <1>1, <1>2, <1>3, <1>4, <2>1, Carried DEF IInv
  <2>2. CASE Spend("losses") /\ UNCHANGED <<host, sync>>
    BY <1>2, <2>2, SameHost DEF IInv
  <2> QED
    BY <1>1, <1>3, <2>1, <2>2
<1>6. ShownPart' /\ DraftPart' /\ JobPart'
  BY <1>2, <1>5, ShownStays, DraftsStay, JobsStay DEF IInv, ShownPart
<1>7. QueuePart'
  <2>1. \A f \in queue' : f \in [cmd : Doc, error : BOOLEAN] /\ GoodDoc(f.cmd) /\ f.cmd \in tried'
    BY <1>2 DEF IInv, QueuePart
  <2>2. \A b \in tried' : GoodDoc(b)
    BY <1>2 DEF IInv, QueuePart
  <2>3. \A d \in host'.done : d \in host.done \/ d.cmd \in tried'
    BY <1>2, <1>4, <1>5
  <2>4. late' \subseteq late \cup {f.cmd : f \in queue}
    BY <1>1
  <2> QED
    BY <1>5, <2>1, <2>2, <2>3, <2>4, QueueStays DEF IInv
<1>8. AnswerPart'
  <2>1. PICK done \in BOOLEAN : done = Accepted(host, c)
    <3>1. Accepted(host, c) \in BOOLEAN
      BY DEF Accepted, Fits
    <3> QED
      BY <3>1
  <2>2. [cmd |-> c, done |-> done] \in [cmd : Doc, done : BOOLEAN]
    BY <1>4
  <2>3. PICK new : new = [cmd |-> c, done |-> done]
    OBVIOUS
  <2>4. new \in [cmd : Doc, done : BOOLEAN] /\ new.cmd = c /\ new.done = done
    BY <2>2, <2>3
  <2>5. sync' = sync \/ (sync' = [sync EXCEPT ![p] = new] /\ (done => \E d \in host'.done : d.cmd = c))
    BY <1>5, <2>1, <2>3
  <2>6. sync' \in [Pages -> [cmd : Doc, done : BOOLEAN] \cup {None}]
    BY <2>4, <2>5 DEF IInv, AnswerPart
  <2>7. \A q \in Pages : sync'[q] # None =>
           sync'[q] = sync[q] \/ \E b \in tried' : sync'[q].cmd = b /\ (sync'[q].done => InDone(b)')
    BY <1>2, <1>4, <2>4, <2>5 DEF IInv, AnswerPart, InDone
  <2>8. \A b : (\E f \in queue : f.cmd = b) => b \in tried /\ \E f \in queue' : f.cmd.id = b.id
    BY <1>2 DEF IInv, QueuePart
  <2>9. accept' = accept /\ accept' \in [Pages -> Doc \cup {None}]
    BY <1>2 DEF IInv, AnswerPart
  <2> QED
    BY <1>2, <1>5, <2>6, <2>7, <2>8, <2>9, AnswersStay DEF IInv
<1> QED
  BY <1>5, <1>6, <1>7, <1>8 DEF IInv

LEMMA LateCommandKeeps == ASSUME IInv, LateCommand PROVE IInv'
<1>1. PICK c \in late : host' = After(host, c) /\ late' = late \ {c}
  BY DEF LateCommand
<1>2. UNCHANGED <<life, shown, disk, draft, job, sync, accept, queue, spent, tried, told, dropped>>
  BY DEF LateCommand
<1>3. GoodDoc(c) /\ c \in tried
  BY DEF IInv, QueuePart
<1>4. /\ Onward /\ HostPart'
      /\ \A d \in host'.done : d \in host.done \/ d.cmd = c
  BY <1>1, <1>2, <1>3, Carried DEF IInv
<1>5. ShownPart' /\ DraftPart' /\ JobPart'
  BY <1>2, <1>4, ShownStays, DraftsStay, JobsStay DEF IInv, ShownPart
<1>6. QueuePart'
  <2>1. \A f \in queue' : f \in [cmd : Doc, error : BOOLEAN] /\ GoodDoc(f.cmd) /\ f.cmd \in tried'
    BY <1>2 DEF IInv, QueuePart
  <2>2. \A b \in tried' : GoodDoc(b)
    BY <1>2 DEF IInv, QueuePart
  <2>3. \A d \in host'.done : d \in host.done \/ d.cmd \in tried'
    BY <1>2, <1>3, <1>4
  <2> QED
    BY <1>1, <1>4, <2>1, <2>2, <2>3, QueueStays DEF IInv
<1>7. AnswerPart'
  BY <1>2, <1>4, AnswersUntouched
<1> QED
  BY <1>4, <1>5, <1>6, <1>7 DEF IInv

\* What leaves the queue with an answered document is recorded too, unless its
\* number belongs to several documents.
LEMMA ReceiveDoneKeeps == ASSUME IInv, NEW p \in Pages, ReceiveDone(p) PROVE IInv'
<1>1. PICK c : c = sync[p].cmd
  OBVIOUS
<1>2. c \in tried /\ c \in Doc /\ InDone(c)
  BY <1>1 DEF ReceiveDone, IInv, AnswerPart
<1>3. /\ shown' = [shown EXCEPT ![p] = host] /\ queue' = queue \ Queued(c.id)
      /\ accept' = [accept EXCEPT ![p] = c] /\ sync' = [sync EXCEPT ![p] = None]
      /\ UNCHANGED <<life, host, disk, draft, job, late, spent, tried, told, dropped>>
  BY <1>1 DEF ReceiveDone
<1>4. Onward /\ HostPart'
  BY <1>3, SameHost DEF IInv
<1>5. ShownPart'
  <2>1. shown' \in [Pages -> Host] /\ \A q \in Pages : shown'[q] \in {shown[q], host, host'}
    BY <1>3 DEF IInv, ShownPart, HostPart
  <2> QED
    BY <1>4, <2>1, ShownStays DEF IInv
<1>6. DraftPart' /\ JobPart'
  BY <1>3, <1>4, DraftsStay, JobsStay DEF IInv
<1>7. QueuePart'
  <2>1. \A e \in queue' : e \in [cmd : Doc, error : BOOLEAN] /\ \E f \in queue : f.cmd = e.cmd
    BY <1>3 DEF IInv, QueuePart
  <2> QED
    BY <1>3, <1>4, <2>1, QueueUntouched
<1>8. AnswerPart'
  <2>1. ASSUME NEW b, \E e \in queue : e.cmd = b
        PROVE  b \in tried /\ ((\A f \in queue' : f.cmd.id # b.id) => Kept(b)')
    <3>1. PICK e \in queue : e.cmd = b
      BY <2>1
    <3>2. b \in tried
      BY <3>1 DEF IInv, QueuePart
    <3>3. (\A f \in queue' : f.cmd.id # b.id) => b.id = c.id
      BY <1>3, <3>1 DEF Queued
    <3>4. b.id = c.id => Kept(b)'
      BY <1>2, <1>3, <3>2 DEF Kept, Unique, InDone
    <3> QED
      BY <3>2, <3>3, <3>4
  <2>2. Kept(c)'
    BY <1>2, <1>3 DEF Kept, Unique, InDone
  <2>3. /\ accept' \in [Pages -> Doc \cup {None}]
        /\ \A q \in Pages : accept'[q] # None => accept'[q] = accept[q] \/ \E b : accept'[q] = b /\ Kept(b)'
    BY <1>2, <1>3, <2>2 DEF IInv, AnswerPart
  <2>4. /\ sync' \in [Pages -> [cmd : Doc, done : BOOLEAN] \cup {None}]
        /\ \A q \in Pages : sync'[q] # None => sync'[q] = sync[q]
    BY <1>3 DEF IInv, AnswerPart
  <2> QED
    BY <1>3, <1>4, <2>1, <2>3, <2>4, AnswersStay DEF IInv
<1> QED
  BY <1>4, <1>5, <1>6, <1>7, <1>8 DEF IInv

\* Answers may be forgotten, and with them the job of a page.
LEMMA AnswersForgotten ==
    ASSUME IInv, Onward, UNCHANGED told,
           sync' \in [Pages -> [cmd : Doc, done : BOOLEAN] \cup {None}],
           accept' \in [Pages -> Doc \cup {None}],
           \A q \in Pages : sync'[q] \in {sync[q], None} /\ accept'[q] \in {accept[q], None},
           \A q \in Pages : job'[q].step = "asked" => job'[q] = job[q],
           \A e \in queue : \E f \in queue' : f.cmd = e.cmd
    PROVE  AnswerPart'
<1>1. \A c : (\E e \in queue : e.cmd = c) => c \in tried /\ \E f \in queue' : f.cmd.id = c.id
  BY DEF IInv, QueuePart
<1>2. \A q \in Pages : /\ sync'[q] # None => sync'[q] = sync[q]
                       /\ accept'[q] # None => accept'[q] = accept[q]
  OBVIOUS
<1> QED
  BY <1>1, <1>2, AnswersStay DEF IInv

LEMMA ReceiveRefusedKeeps == ASSUME IInv, NEW p \in Pages, ReceiveRefused(p) PROVE IInv'
<1>1. PICK id : id = sync[p].cmd.id
  OBVIOUS
<1>2. /\ queue' = {IF e.cmd.id = id THEN [e EXCEPT !.error = TRUE] ELSE e : e \in queue}
      /\ sync' = [sync EXCEPT ![p] = None]
      /\ UNCHANGED <<life, host, shown, disk, draft, job, accept, late, spent, tried, told, dropped>>
  BY <1>1 DEF ReceiveRefused
<1>3. Onward /\ HostPart'
  BY <1>2, SameHost DEF IInv
<1>4. ShownPart' /\ DraftPart' /\ JobPart'
  BY <1>2, <1>3, ShownStays, DraftsStay, JobsStay DEF IInv, ShownPart
<1>5. \A e \in queue : e \in [cmd : Doc, error : BOOLEAN]
  BY DEF IInv, QueuePart
<1>6. /\ \A e \in queue' : e \in [cmd : Doc, error : BOOLEAN] /\ \E f \in queue : f.cmd = e.cmd
      /\ \A e \in queue : \E f \in queue' : f.cmd = e.cmd
  <2> DEFINE Marked(e) == IF e.cmd.id = id THEN [e EXCEPT !.error = TRUE] ELSE e
  <2>1. \A e \in queue : Marked(e) \in [cmd : Doc, error : BOOLEAN] /\ Marked(e).cmd = e.cmd
    BY <1>5
  <2>2. queue' = {Marked(e) : e \in queue}
    BY <1>2
  <2> HIDE DEF Marked
  <2> QED
    BY <2>1, <2>2
<1>7. QueuePart'
  BY <1>2, <1>3, <1>6, QueueUntouched
<1>8. AnswerPart'
  <2>1. /\ sync' \in [Pages -> [cmd : Doc, done : BOOLEAN] \cup {None}]
        /\ accept' \in [Pages -> Doc \cup {None}]
        /\ \A q \in Pages : sync'[q] \in {sync[q], None} /\ accept'[q] \in {accept[q], None}
    BY <1>2 DEF IInv, AnswerPart
  <2> QED
    BY <1>2, <1>3, <1>6, <2>1, AnswersForgotten
<1> QED
  BY <1>3, <1>4, <1>7, <1>8 DEF IInv

LEMMA RetryEntryKeeps == ASSUME IInv, RetryEntry PROVE IInv'
<1>1. PICK e \in queue : queue' = (queue \ {e}) \cup {[e EXCEPT !.error = FALSE]}
  BY DEF RetryEntry
<1>2. UNCHANGED <<life, host, shown, disk, draft, job, sync, accept, late, spent, tried, told, dropped>>
  BY DEF RetryEntry
<1>3. Onward /\ HostPart'
  BY <1>2, SameHost DEF IInv
<1>4. ShownPart' /\ DraftPart' /\ JobPart'
  BY <1>2, <1>3, ShownStays, DraftsStay, JobsStay DEF IInv, ShownPart
<1>5. \A f \in queue : f \in [cmd : Doc, error : BOOLEAN]
  BY DEF IInv, QueuePart
<1>6. PICK g : g = [e EXCEPT !.error = FALSE]
  OBVIOUS
<1>7. g \in [cmd : Doc, error : BOOLEAN] /\ g.cmd = e.cmd
  BY <1>5, <1>6
<1>8. /\ \A f \in queue' : f \in [cmd : Doc, error : BOOLEAN] /\ \E h \in queue : h.cmd = f.cmd
      /\ \A f \in queue : \E h \in queue' : h.cmd = f.cmd
  BY <1>1, <1>5, <1>6, <1>7
<1>9. QueuePart' /\ AnswerPart'
  BY <1>2, <1>3, <1>8, QueueUntouched, AnswersUntouched
<1> QED
  BY <1>3, <1>4, <1>9 DEF IInv

LEMMA LookAtDraftKeeps == ASSUME IInv, NEW p \in Pages, LookAtDraft(p) PROVE IInv'
<1>1. /\ accept' = [accept EXCEPT ![p] = None]
      /\ UNCHANGED <<life, host, shown, disk, draft, job, sync, queue, late, spent, tried, told, dropped>>
  BY DEF LookAtDraft
<1>2. Onward /\ HostPart'
  BY <1>1, SameHost DEF IInv
<1>3. ShownPart' /\ DraftPart' /\ JobPart'
  BY <1>1, <1>2, ShownStays, DraftsStay, JobsStay DEF IInv, ShownPart
<1>4. QueuePart'
  <2>1. \A e \in queue : e \in [cmd : Doc, error : BOOLEAN]
    BY DEF IInv, QueuePart
  <2> QED
    BY <1>1, <1>2, <2>1, QueueUntouched
<1>5. AnswerPart'
  <2>1. /\ sync' \in [Pages -> [cmd : Doc, done : BOOLEAN] \cup {None}]
        /\ accept' \in [Pages -> Doc \cup {None}]
        /\ \A q \in Pages : sync'[q] \in {sync[q], None} /\ accept'[q] \in {accept[q], None}
    BY <1>1 DEF IInv, AnswerPart
  <2> QED
    BY <1>1, <1>2, <2>1, AnswersForgotten
<1> QED
  BY <1>2, <1>3, <1>4, <1>5 DEF IInv

LEMMA RemoveDraftKeeps == ASSUME IInv, NEW p \in Pages, RemoveDraft(p) PROVE IInv'
<1>1. /\ disk' = None /\ accept' = [accept EXCEPT ![p] = None]
      /\ draft' = [draft EXCEPT ![p] = IF @ # None /\ @.id = accept[p].id THEN None ELSE @]
      /\ UNCHANGED <<life, host, shown, job, sync, queue, late, spent, tried, told, dropped>>
  BY DEF RemoveDraft
<1>2. Onward /\ HostPart'
  BY <1>1, SameHost DEF IInv
<1>3. draft' \in [Pages -> Draft \cup {None}] /\ \A q \in Pages : draft'[q] \in {draft[q], None}
  BY <1>1 DEF IInv, DraftPart
<1>4. ShownPart' /\ DraftPart' /\ JobPart'
  BY <1>1, <1>2, <1>3, ShownStays, DraftsChange, JobsStay DEF IInv, ShownPart
<1>5. QueuePart'
  <2>1. \A e \in queue : e \in [cmd : Doc, error : BOOLEAN]
    BY DEF IInv, QueuePart
  <2> QED
    BY <1>1, <1>2, <2>1, QueueUntouched
<1>6. AnswerPart'
  <2>1. /\ sync' \in [Pages -> [cmd : Doc, done : BOOLEAN] \cup {None}]
        /\ accept' \in [Pages -> Doc \cup {None}]
        /\ \A q \in Pages : sync'[q] \in {sync[q], None} /\ accept'[q] \in {accept[q], None}
    BY <1>1 DEF IInv, AnswerPart
  <2> QED
    BY <1>1, <1>2, <2>1, AnswersForgotten
<1> QED
  BY <1>2, <1>4, <1>5, <1>6 DEF IInv

LEMMA ReloadKeeps == ASSUME IInv, NEW p \in Pages, Reload(p) PROVE IInv'
<1>1. /\ shown' = [shown EXCEPT ![p] = host] /\ draft' = [draft EXCEPT ![p] = disk]
      /\ job' = [job EXCEPT ![p] = NoJob] /\ sync' = [sync EXCEPT ![p] = None]
      /\ accept' = [accept EXCEPT ![p] = None] /\ Spend("reloads")
      /\ UNCHANGED <<life, host, disk, queue, late, tried, told, dropped>>
  BY DEF Reload
<1>2. Onward /\ HostPart'
  BY <1>1, SameHost DEF IInv
<1>3. ShownPart'
  <2>1. shown' \in [Pages -> Host] /\ \A q \in Pages : shown'[q] \in {shown[q], host, host'}
    BY <1>1 DEF IInv, ShownPart, HostPart
  <2> QED
    BY <1>2, <2>1, ShownStays DEF IInv
<1>4. DraftPart'
  <2>1. draft' \in [Pages -> Draft \cup {None}] /\ \A q \in Pages : draft'[q] \in {draft[q], disk}
    BY <1>1 DEF IInv, DraftPart, GoodDraft
  <2> QED
    BY <1>1, <1>2, <2>1, DraftsChange DEF IInv
<1>5. To(p, "", None)
  BY <1>1 DEF To, NoJob
<1>6. JobPart'
  BY <1>2, <1>5, JobGoes DEF IInv
<1>7. QueuePart'
  <2>1. \A e \in queue : e \in [cmd : Doc, error : BOOLEAN]
    BY DEF IInv, QueuePart
  <2> QED
    BY <1>1, <1>2, <2>1, QueueUntouched
<1>8. AnswerPart'
  <2>1. /\ sync' \in [Pages -> [cmd : Doc, done : BOOLEAN] \cup {None}]
        /\ accept' \in [Pages -> Doc \cup {None}]
        /\ \A q \in Pages : sync'[q] \in {sync[q], None} /\ accept'[q] \in {accept[q], None}
    BY <1>1 DEF IInv, AnswerPart
  <2>2. \A q \in Pages : job'[q].step = "asked" => job'[q] = job[q]
    BY <1>5 DEF To, IInv, JobPart
  <2> QED
    BY <1>1, <1>2, <2>1, <2>2, AnswersForgotten
<1> QED
  BY <1>2, <1>3, <1>4, <1>6, <1>7, <1>8 DEF IInv

\* What is taken out of the queue is given up, or found in the history.
LEMMA CancelKeeps == ASSUME IInv, NEW p \in Pages, Cancel(p) PROVE IInv'
<1>1. PICK id : id = draft[p].id
  OBVIOUS
<1>2. /\ queue' = queue \/ queue' = queue \ Queued(id)
      /\ (Queued(id) = {} /\ Known(shown[p], id) /\ dropped' = dropped) \/ dropped' = dropped \cup {id}
      /\ draft' = [draft EXCEPT ![p] = None] /\ disk' = None
      /\ UNCHANGED <<life, host, shown, job, sync, accept, late, spent, tried, told>>
  BY <1>1 DEF Cancel
<1>3. Onward /\ HostPart'
  BY <1>2, SameHost DEF IInv
<1>4. draft' \in [Pages -> Draft \cup {None}] /\ \A q \in Pages : draft'[q] \in {draft[q], None}
  BY <1>2 DEF IInv, DraftPart
<1>5. ShownPart' /\ DraftPart' /\ JobPart'
  BY <1>2, <1>3, <1>4, ShownStays, DraftsChange, JobsStay DEF IInv, ShownPart
<1>6. QueuePart'
  <2>1. \A e \in queue' : e \in [cmd : Doc, error : BOOLEAN] /\ \E f \in queue : f.cmd = e.cmd
    BY <1>2 DEF IInv, QueuePart
  <2> QED
    BY <1>2, <1>3, <2>1, QueueUntouched
<1>7. AnswerPart'
  <2>1. ASSUME NEW b, \E e \in queue : e.cmd = b
        PROVE  b \in tried /\ ((\A f \in queue' : f.cmd.id # b.id) => Kept(b)')
    <3>1. PICK e \in queue : e.cmd = b
      BY <2>1
    <3>2. b \in tried
      BY <3>1 DEF IInv, QueuePart
    <3>3. (\A f \in queue' : f.cmd.id # b.id) => b.id = id /\ e \in Queued(id)
      BY <1>2, <3>1 DEF Queued
    <3>4. b.id = id /\ e \in Queued(id) => Kept(b)'
      BY <1>2, <3>2 DEF Kept, Unique, InDone
    <3> QED
      BY <3>2, <3>3, <3>4
  <2>2. /\ UNCHANGED <<sync, accept, told, job>>
        /\ sync' \in [Pages -> [cmd : Doc, done : BOOLEAN] \cup {None}] /\ accept' \in [Pages -> Doc \cup {None}]
    BY <1>2 DEF IInv, AnswerPart
  <2> QED
    BY <1>3, <2>1, <2>2, AnswersStay DEF IInv
<1> QED
  BY <1>3, <1>5, <1>6, <1>7 DEF IInv

-----------------------------------------------------------------------------
(* The theorems *)

LEMMA InitHolds == ASSUME Init PROVE IInv
<1>1. host = [stock |-> [i \in Items |-> [qty |-> 1, version |-> 1]], done |-> {}]
  BY DEF Init
<1>2. host \in Host
  BY <1>1 DEF Host
<1>3. HostPart
  BY <1>1, <1>2 DEF Init, HostPart, Recorded
<1>4. ShownPart
  BY <1>2, BehindItself DEF Init, ShownPart
<1>5. DraftPart
  BY DEF Init, DraftPart
<1>6. JobPart
  BY DEF Init, JobPart, Jobs, NoJob
<1>7. QueuePart
  BY <1>1 DEF Init, QueuePart
<1>8. AnswerPart
  BY DEF Init, AnswerPart, NoJob
<1> QED
  BY <1>3, <1>4, <1>5, <1>6, <1>7, <1>8 DEF IInv

LEMMA Unchanged == ASSUME IInv, UNCHANGED vars PROVE IInv'
<1>1. UNCHANGED <<life, host, shown, disk, draft, job, sync, accept, queue, late, spent, tried, told, dropped>>
  BY DEF vars
<1>2. Onward /\ HostPart' /\ QueuePart' /\ AnswerPart'
  BY <1>1, Quiet
<1> QED
  BY <1>1, <1>2, ShownStays, DraftsStay, JobsStay DEF IInv, ShownPart

\* The invariant the other theorems follow from, for any number of pages.
THEOREM Inductive == Spec => []IInv
<1>1. ASSUME IInv, [Next]_vars PROVE IInv'
  <2>1. CASE \E i \in Items : Move(i)
    BY <1>1, <2>1, MoveKeeps
  <2>2. CASE LateCommand \/ RetryEntry
    BY <1>1, <2>2, LateCommandKeeps, RetryEntryKeeps
  <2>3. ASSUME NEW p \in Pages,
               \/ Refresh(p) \/ StartInventory(p) \/ Input(p) \/ Finish(p) \/ Review(p) \/ KeepPayload(p)
               \/ SendLocal(p) \/ Enqueue(p) \/ LookAtQueue(p)
        PROVE  IInv'
    BY <1>1, <2>3, RefreshKeeps, StartInventoryKeeps, InputKeeps, FinishKeeps, ReviewKeeps, KeepPayloadKeeps,
       SendLocalKeeps, EnqueueKeeps, LookAtQueueKeeps
  <2>4. ASSUME NEW p \in Pages,
               \/ Sync(p) \/ ReceiveDone(p) \/ ReceiveRefused(p) \/ LookAtDraft(p) \/ RemoveDraft(p)
               \/ Cancel(p) \/ Reload(p)
        PROVE  IInv'
    BY <1>1, <2>4, SyncKeeps, ReceiveDoneKeeps, ReceiveRefusedKeeps, LookAtDraftKeeps, RemoveDraftKeeps,
       CancelKeeps, ReloadKeeps
  <2>5. CASE UNCHANGED vars
    BY <1>1, <2>5, Unchanged
  <2> QED
    BY <1>1, <2>1, <2>2, <2>3, <2>4, <2>5 DEF Next
<1>2. Init => IInv
  BY InitHolds
<1> QED
  BY <1>1, <1>2, PTL DEF Spec

\* A document changes every stock by the difference its user saw and agreed to,
\* whoever moved the cards meanwhile and however often it was sent: the versions
\* that finishInventory compares are enough.
THEOREM DifferencesHold == Spec => []DifferenceIsRecorded
<1>1. IInv => DifferenceIsRecorded
  BY DEF IInv, HostPart, Recorded, DifferenceIsRecorded
<1> QED
  BY <1>1, Inductive, PTL

-----------------------------------------------------------------------------
(* One page *)

\* Documents that were handed to send, or that the page is about to hand over.
Sent == tried \cup {job[p].cmd : p \in {q \in Pages : job[q].step = "send"}}

Recoverable(c) ==
    \/ \E d \in host.done : d.cmd = c
    \/ disk # None /\ disk.cmd = c
    \/ \E e \in queue : e.cmd = c
    \/ c.id \in dropped

\* A draft that has the number of a document that was sent is that document: a
\* page alone makes one document of a draft.
SentPart ==
    /\ \A c, d \in Sent : c.id = d.id => c = d
    /\ \A c \in Sent : disk # None /\ disk.id = c.id => disk.cmd = c
    /\ \A c \in Sent : Recoverable(c)

PagePart ==
    \A p \in Pages :
        /\ \A c \in Sent : draft[p] # None /\ draft[p].id = c.id => draft[p].cmd = c
        /\ job[p].step \in {"review", "keep"} => \A c \in Sent : c.id = job[p].cmd.id => c = job[p].cmd
        /\ job[p].step = "keep" /\ draft[p] # None /\ draft[p].id = job[p].cmd.id => draft[p].cmd = job[p].cmd
        /\ disk # None => draft[p] # None /\ draft[p].id = disk.id

OneInv == OnePage => SentPart /\ PagePart

LEMMA NoneIsNone == ASSUME IInv PROVE None \notin Doc /\ None \notin Draft
  BY StocktakeAssumption DEF IInv, HostPart, Draft, Doc, Rows, Items

\* The stored draft of a document has its number, which is not above the last one.
LEMMA SentIsGood ==
    ASSUME IInv
    PROVE  /\ \A c \in Sent : c \in Doc /\ c # None /\ c.id <= spent.drafts
           /\ disk # None /\ disk.cmd # None => disk.cmd.id = disk.id
           /\ tried \subseteq Sent
<1>1. \A c \in Sent : GoodDoc(c)
  BY DEF Sent, IInv, QueuePart, JobPart
<1> QED
  BY <1>1, NoneIsNone DEF GoodDoc, Sent, IInv, DraftPart, GoodDraft

\* A step that leaves the drafts alone, and takes nothing away.
LEMMA OneStays ==
    ASSUME IInv, OneInv, IInv', life' = life, UNCHANGED <<disk, draft>>, Sent' \subseteq Sent,
           \A p \in Pages : job'[p].step \in {"review", "keep"} => job'[p] = job[p],
           host.done \subseteq host'.done, dropped \subseteq dropped',
           \A e \in queue : \E f \in queue' : f.cmd = e.cmd
    PROVE  OneInv'
<1> SUFFICES ASSUME OnePage' PROVE SentPart' /\ PagePart'
  BY DEF OneInv
<1>1. OnePage /\ SentPart /\ PagePart /\ Pages' = Pages
  BY DEF OnePage, OneInv, Pages
<1>2. \A c : c \in Sent' => Recoverable(c)'
  BY <1>1 DEF SentPart, Recoverable
<1>3. SentPart'
  BY <1>1, <1>2 DEF SentPart
<1>4. PagePart'
  BY <1>1 DEF PagePart
<1> QED
  BY <1>3, <1>4

LEMMA HostGrows == ASSUME IInv, NEW c PROVE host.done \subseteq After(host, c).done
  BY DEF After

\* The actions that leave the drafts alone.
LEMMA DraftsAlone ==
    ASSUME IInv, OneInv, IInv', OnePage, NEW p \in Pages,
           \/ Refresh(p) \/ SendLocal(p) \/ Enqueue(p) \/ LookAtQueue(p) \/ Sync(p) \/ ReceiveRefused(p)
           \/ LookAtDraft(p)
    PROVE  OneInv'
<1>1. job \in [Pages -> Jobs] /\ \A q \in Pages : q = p
  BY DEF IInv, JobPart, OnePage
<1>2. CASE Refresh(p) \/ LookAtDraft(p)
  BY <1>2, OneStays DEF Refresh, LookAtDraft, Sent, Pages
<1>3. ASSUME SendLocal(p) \/ Enqueue(p) PROVE Sent' \subseteq Sent /\ job'[p].step \in {"", "asked"}
  <2>1. tried' = tried \cup {job[p].cmd} /\ job[p].step = "send" /\ Pages' = Pages
    BY <1>3 DEF SendLocal, Enqueue, Pages
  <2>2. job'[p].step \in {"", "asked"}
    <3>1. CASE job' = [job EXCEPT ![p] = [step |-> "", cmd |-> None]]
      BY <1>1, <3>1
    <3>2. CASE job' = [job EXCEPT ![p] = [step |-> "asked", cmd |-> job[p].cmd]]
      BY <1>1, <3>2
    <3> QED
      BY <1>3, <3>1, <3>2 DEF SendLocal, Enqueue, To
  <2> QED
    BY <1>1, <2>1, <2>2 DEF Sent
<1>4. CASE SendLocal(p)
  <2>1. host.done \subseteq host'.done
    BY <1>4, HostGrows DEF SendLocal
  <2> QED
    BY <1>1, <1>3, <1>4, <2>1, OneStays DEF SendLocal
<1>5. CASE Enqueue(p)
  <2>1. \A e \in queue : e \in queue'
    BY <1>5 DEF Enqueue
  <2> QED
    BY <1>1, <1>3, <1>5, <2>1, OneStays DEF Enqueue
<1>6. CASE LookAtQueue(p)
  <2>1. job' = [job EXCEPT ![p] = [step |-> "", cmd |-> None]] /\ tried' = tried /\ Pages' = Pages
    BY <1>6 DEF LookAtQueue, To, Pages
  <2>2. job'[p].step = "" /\ Sent' \subseteq Sent
    BY <1>1, <2>1 DEF Sent
  <2> QED
    BY <1>1, <1>6, <2>2, OneStays DEF LookAtQueue
<1>7. CASE Sync(p)
  <2>1. host.done \subseteq host'.done
    BY <1>7, HostGrows DEF Sync
  <2>2. Sent' = Sent
    BY <1>7 DEF Sync, Sent, Pages
  <2> QED
    BY <1>7, <2>1, <2>2, OneStays DEF Sync
<1>8. CASE ReceiveRefused(p)
  <2>1. PICK id : queue' = {IF e.cmd.id = id THEN [e EXCEPT !.error = TRUE] ELSE e : e \in queue}
    BY <1>8 DEF ReceiveRefused
  <2> DEFINE Marked(e) == IF e.cmd.id = id THEN [e EXCEPT !.error = TRUE] ELSE e
  <2>2. \A e \in queue : Marked(e).cmd = e.cmd
    BY DEF IInv, QueuePart
  <2>3. \A e \in queue : Marked(e) \in queue'
    BY <2>1
  <2> HIDE DEF Marked
  <2>4. \A e \in queue : \E f \in queue' : f.cmd = e.cmd
    BY <2>2, <2>3
  <2>5. Sent' = Sent
    BY <1>8 DEF ReceiveRefused, Sent, Pages
  <2> QED
    BY <1>8, <2>4, <2>5, OneStays DEF ReceiveRefused
<1> QED
  BY <1>2, <1>4, <1>5, <1>6, <1>7, <1>8

LEMMA AloneStartInventory ==
    ASSUME IInv, OneInv, IInv', OnePage, NEW p \in Pages, StartInventory(p) PROVE OneInv'
<1>1. PICK new : /\ new.id = spent.drafts + 1 /\ new.cmd = None
                 /\ draft' = [draft EXCEPT ![p] = new] /\ disk' = new
  BY DEF StartInventory
<1>2. /\ UNCHANGED <<life, host, shown, job, sync, accept, queue, late, tried, told, dropped>>
      /\ draft[p] = None /\ job[p] = NoJob
  BY DEF StartInventory
<1>3. Sent' = Sent /\ Pages' = Pages /\ draft'[p] = new /\ spent.drafts \in Nat /\ \A q \in Pages : q = p
  BY <1>1, <1>2 DEF Sent, Pages, IInv, HostPart, DraftPart, OnePage
<1>4. disk = None
  BY <1>2 DEF OneInv, PagePart
<1>5. \A c \in Sent : c.id # new.id
  <2>1. \A c \in Sent : c.id \in Nat /\ c.id <= spent.drafts
    BY SentIsGood DEF Doc
  <2> QED
    BY <1>1, <1>3, <2>1
<1>6. \A c : c \in Sent => Recoverable(c)'
  BY <1>2, <1>4 DEF OneInv, SentPart, Recoverable
<1>7. SentPart'
  BY <1>1, <1>3, <1>5, <1>6 DEF OneInv, SentPart
<1>8. PagePart'
  <2>1. NoJob.step = ""
    BY DEF NoJob
  <2>2. job'[p].step = ""
    BY <1>2, <2>1
  <2> QED
    BY <1>1, <1>3, <1>5, <2>2 DEF PagePart
<1> QED
  BY <1>7, <1>8 DEF OneInv

\* A draft that is counted on was not sent.
LEMMA AloneInput ==
    ASSUME IInv, OneInv, IInv', OnePage, NEW p \in Pages, Input(p) PROVE OneInv'
<1>1. PICK old, new : /\ old = draft[p] /\ GoodDraft(new) /\ new.id = old.id /\ new.cmd = None
                      /\ draft' = [draft EXCEPT ![p] = new]
  BY InputDraft
<1>2. old # None /\ old.cmd = None /\ \A q \in Pages : q = p
  BY <1>1 DEF Input, OnePage
<1>3. draft'[p] = new /\ new # None
  BY <1>1, NoneIsNone DEF IInv, DraftPart, GoodDraft
<1>4. /\ UNCHANGED <<life, host, shown, job, sync, accept, queue, late, tried, told, dropped>>
      /\ disk' = disk \/ disk' = new
  BY <1>3 DEF Input, Saved, NotSaved
<1>5. Sent' = Sent /\ Pages' = Pages
  BY <1>4 DEF Sent, Pages
<1>6. \A c \in Sent : c # None /\ c.id # old.id
  BY <1>1, <1>2, SentIsGood DEF OneInv, PagePart
<1>7. disk # None => disk.id = old.id /\ \A c \in Sent : disk.cmd # c
  BY <1>1, <1>2, <1>6, SentIsGood DEF OneInv, PagePart
<1>8. \A c : c \in Sent => Recoverable(c)'
  BY <1>4, <1>7 DEF OneInv, SentPart, Recoverable
<1>9. SentPart'
  BY <1>1, <1>4, <1>5, <1>6, <1>8 DEF OneInv, SentPart
<1>10. PagePart'
  <2>1. job[p].step = "keep" => job[p].cmd \in Doc /\ job[p].cmd # None
    BY NoneIsNone DEF IInv, JobPart, GoodDoc
  <2>2. job[p].step = "keep" => old.id # job[p].cmd.id
    BY <1>1, <1>2, <2>1 DEF OneInv, PagePart
  <2> QED
    BY <1>1, <1>2, <1>3, <1>4, <1>5, <1>6, <1>7, <2>2 DEF OneInv, PagePart
<1> QED
  BY <1>9, <1>10 DEF OneInv

LEMMA StepOfJob ==
    ASSUME IInv, NEW p \in Pages, NEW step, NEW c, To(p, step, c)
    PROVE  job'[p].step = step /\ job'[p].cmd = c
BY DEF To, IInv, JobPart

\* The page alone: what is sent, when finishInventory goes on.
LEMMA SentOf ==
    ASSUME IInv, OnePage, NEW p \in Pages, life' = life
    PROVE  /\ Sent = tried \cup (IF job[p].step = "send" THEN {job[p].cmd} ELSE {})
           /\ Sent' = tried' \cup (IF job'[p].step = "send" THEN {job'[p].cmd} ELSE {})
<1>1. Pages = {p} /\ Pages' = {p}
  BY DEF OnePage, Pages
<1> QED
  BY <1>1 DEF Sent

LEMMA AloneFinish ==
    ASSUME IInv, OneInv, IInv', OnePage, NEW p \in Pages, Finish(p) PROVE OneInv'
<1>1. /\ UNCHANGED <<life, host, shown, draft, sync, accept, queue, late, tried, told, dropped>>
      /\ draft[p] # None /\ job[p] = NoJob /\ Pages' = Pages /\ \A q \in Pages : q = p
  BY DEF Finish, OnePage, Pages
<1>2. NoJob.step = ""
  BY DEF NoJob
<1>3. CASE UNCHANGED <<disk, job>>
  <2>1. Sent' = Sent
    BY <1>1, <1>3 DEF Sent
  <2> QED
    BY <1>1, <1>3, <2>1, OneStays
<1>4. ASSUME NEW step \in {"review", "keep"}, NEW c, To(p, step, c), Saved(draft[p]), c.id = draft[p].id,
             IF step = "keep" THEN c = draft[p].cmd ELSE draft[p].cmd = None
      PROVE  OneInv'
  <2>1. disk' = draft[p] /\ job'[p].step = step /\ job'[p].cmd = c
    BY <1>4, StepOfJob DEF Saved
  <2>2. Sent' = Sent
    BY <1>1, <1>2, <2>1, SentOf
  <2>3. \A b : b \in Sent => Recoverable(b)'
    BY <1>1, <2>1, SentIsGood DEF OneInv, SentPart, PagePart, Recoverable
  <2>4. SentPart'
    BY <1>1, <2>1, <2>2, <2>3 DEF OneInv, SentPart, PagePart
  <2>5. \A b \in Sent : b.id = c.id => b = c
    BY <1>1, <1>4, SentIsGood DEF OneInv, PagePart
  <2>6. PagePart'
    BY <1>1, <1>4, <2>1, <2>2, <2>5 DEF OneInv, PagePart
  <2> QED
    BY <2>4, <2>6 DEF OneInv
<1>5. draft[p].cmd # None => draft[p].cmd.id = draft[p].id
  BY <1>1 DEF IInv, DraftPart, GoodDraft
<1>6. Document(draft[p]).id = draft[p].id
  BY DEF Document
<1> QED
  BY <1>3, <1>4, <1>5, <1>6 DEF Finish, NotSaved

\* The draft gets the document that nobody else has sent under its number.
LEMMA AloneReview ==
    ASSUME IInv, OneInv, IInv', OnePage, NEW p \in Pages, Review(p) PROVE OneInv'
<1>1. /\ UNCHANGED <<life, host, shown, sync, accept, queue, late, tried, told, dropped>>
      /\ job[p].step = "review" /\ Pages' = Pages /\ \A q \in Pages : q = p
  BY DEF Review, OnePage, Pages
<1>2. ASSUME NEW step \in {"", "keep"}, NEW c, To(p, step, c) PROVE Sent' = Sent
  BY <1>1, <1>2, StepOfJob, SentOf
<1>3. CASE To(p, "", None) /\ UNCHANGED <<draft, disk>>
  <2>1. Sent' = Sent /\ job'[p].step = ""
    BY <1>2, <1>3, StepOfJob
  <2> QED
    BY <1>1, <1>3, <2>1, OneStays
<1>4. CASE Same(p) /\ draft' = [draft EXCEPT ![p].cmd = job[p].cmd]
  <2>1. PICK old, new : old = draft[p] /\ new = [old EXCEPT !.cmd = job[p].cmd]
    OBVIOUS
  <2>2. old \in Draft /\ old # None /\ old.id = job[p].cmd.id
    BY <1>4, <2>1 DEF Same, IInv, DraftPart
  <2>3. draft' = [draft EXCEPT ![p] = new] /\ new.id = old.id /\ new.cmd = job[p].cmd
    BY <1>4, <2>1, <2>2 DEF Draft
  <2>4. draft'[p] = new
    BY <2>3 DEF IInv, DraftPart
  <2>5. new # None
    <3>1. job[p].cmd \in Doc
      BY <1>1 DEF IInv, JobPart, GoodDoc
    <3>2. new \in Draft
      BY <2>1, <2>2, <3>1 DEF Draft
    <3> QED
      BY <3>2, NoneIsNone
  <2>6. \A c \in Sent : c.id = new.id => c = new.cmd
    BY <1>1, <2>2, <2>3 DEF OneInv, PagePart
  <2>7. ASSUME disk' = disk \/ disk' = new, NEW step \in {"", "keep"}, NEW d, To(p, step, d),
               step = "keep" => d = job[p].cmd
        PROVE  OneInv'
    <3>1. Sent' = Sent /\ job'[p].step = step /\ job'[p].cmd = d
      BY <1>2, <2>7, StepOfJob
    <3>2. disk # None => disk.id = new.id
      BY <2>1, <2>3 DEF OneInv, PagePart
    <3>3. \A c : c \in Sent => Recoverable(c)'
      BY <1>1, <2>5, <2>6, <2>7, <3>2, SentIsGood DEF OneInv, SentPart, Recoverable
    <3>4. SentPart'
      BY <2>6, <2>7, <3>1, <3>3 DEF OneInv, SentPart
    <3>5. job'[p].step \in {"review", "keep"} => job'[p].cmd = new.cmd /\ new.cmd.id = new.id
      BY <2>2, <2>3, <2>7, <3>1
    <3>6. disk' # None => disk'.id = new.id
      BY <2>7, <3>2
    <3>7. draft'[p] = new /\ new # None /\ Pages' = Pages /\ \A q \in Pages : q = p
      BY <1>1, <2>4, <2>5
    <3>8. /\ \A c \in Sent' : draft'[p].id = c.id => draft'[p].cmd = c
          /\ job'[p].step \in {"review", "keep"} => \A c \in Sent' : c.id = job'[p].cmd.id => c = job'[p].cmd
          /\ job'[p].step = "keep" => draft'[p].cmd = job'[p].cmd
      BY <2>6, <3>1, <3>5, <3>7
    <3> HIDE DEF Sent
    <3>9. PagePart'
      BY <3>6, <3>7, <3>8 DEF PagePart
    <3> QED
      BY <3>4, <3>9 DEF OneInv
  <2> QED
    BY <1>4, <2>4, <2>7 DEF Review, Saved, NotSaved
<1> QED
  BY <1>3, <1>4 DEF Review

\* The document is in the stored draft before it is sent.
LEMMA AloneKeepPayload ==
    ASSUME IInv, OneInv, IInv', OnePage, NEW p \in Pages, KeepPayload(p) PROVE OneInv'
<1>1. /\ UNCHANGED <<life, host, shown, draft, sync, accept, queue, late, tried, told, dropped>>
      /\ job[p].step = "keep" /\ Pages' = Pages /\ \A q \in Pages : q = p
  BY DEF KeepPayload, OnePage, Pages
<1>2. CASE To(p, "", None) /\ disk' = disk
  <2>1. job'[p].step = ""
    BY <1>2, StepOfJob
  <2>2. Sent' = Sent
    BY <1>1, <2>1, SentOf
  <2> QED
    BY <1>1, <1>2, <2>1, <2>2, OneStays
<1>3. CASE Same(p) /\ Saved(draft[p]) /\ To(p, "send", job[p].cmd)
  <2>1. PICK c : c = job[p].cmd
    OBVIOUS
  <2>2. /\ disk' = draft[p] /\ draft[p] # None /\ draft[p].id = c.id /\ draft[p].cmd = c
        /\ job'[p].step = "send" /\ job'[p].cmd = c
    BY <1>1, <1>3, <2>1, StepOfJob DEF Same, Saved, OneInv, PagePart
  <2>3. Sent' = Sent \cup {c}
    BY <1>1, <2>2, SentOf
  <2>4. \A b \in Sent : b.id = c.id => b = c
    BY <1>1, <2>1 DEF OneInv, PagePart
  <2>5. disk # None => disk.id = draft[p].id
    BY DEF OneInv, PagePart
  <2>6. \A b : b \in Sent \cup {c} => Recoverable(b)'
    BY <1>1, <2>2, <2>4, <2>5, SentIsGood DEF OneInv, SentPart, Recoverable
  <2>7. SentPart'
    BY <2>2, <2>3, <2>4, <2>6 DEF OneInv, SentPart
  <2>8. PagePart'
    BY <1>1, <2>2, <2>3, <2>4 DEF PagePart
  <2> QED
    BY <2>7, <2>8 DEF OneInv
<1> QED
  BY <1>2, <1>3 DEF KeepPayload, NotSaved

\* An answered document leaves the queue: the warehouse has recorded it.
LEMMA AloneReceiveDone ==
    ASSUME IInv, OneInv, IInv', OnePage, NEW p \in Pages, ReceiveDone(p) PROVE OneInv'
<1>1. PICK c : c = sync[p].cmd
  OBVIOUS
<1>2. c \in tried /\ InDone(c)
  BY <1>1 DEF ReceiveDone, IInv, AnswerPart
<1>3. queue' = queue \ Queued(c.id) /\ UNCHANGED <<life, host, disk, draft, job, tried, dropped>>
  BY <1>1 DEF ReceiveDone
<1>4. Sent' = Sent /\ Pages' = Pages
  BY <1>3 DEF Sent, Pages
<1>5. ASSUME NEW b, b \in Sent PROVE Recoverable(b)'
  <2>1. Recoverable(b)
    BY <1>5 DEF OneInv, SentPart
  <2>2. b.id = c.id => b = c
    BY <1>2, <1>5, SentIsGood DEF OneInv, SentPart
  <2>3. b.id = c.id => \E d \in host'.done : d.cmd = b
    BY <1>2, <1>3, <2>2 DEF InDone
  <2>4. b.id # c.id => \A e \in queue : e.cmd = b => e \in queue'
    BY <1>3 DEF Queued
  <2> QED
    BY <1>3, <2>1, <2>3, <2>4 DEF Recoverable
<1>6. SentPart'
  BY <1>3, <1>4, <1>5 DEF OneInv, SentPart
<1>7. PagePart'
  BY <1>3, <1>4 DEF OneInv, PagePart
<1> QED
  BY <1>6, <1>7 DEF OneInv

\* The draft of a recorded document is removed.
LEMMA AloneRemoveDraft ==
    ASSUME IInv, OneInv, IInv', OnePage, NEW p \in Pages, RemoveDraft(p) PROVE OneInv'
<1>1. PICK a : a = accept[p]
  OBVIOUS
<1>2. disk # None /\ disk.cmd # None /\ disk.id = a.id /\ Kept(a)
  BY <1>1 DEF RemoveDraft, IInv, AnswerPart
<1>3. /\ disk' = None /\ UNCHANGED <<life, host, job, queue, tried, dropped>>
      /\ draft' = [draft EXCEPT ![p] = IF @ # None /\ @.id = a.id THEN None ELSE @]
  BY <1>1 DEF RemoveDraft
<1>4. Sent' = Sent /\ Pages' = Pages /\ draft'[p] \in {draft[p], None} /\ \A q \in Pages : q = p
  BY <1>3 DEF Sent, Pages, IInv, DraftPart, OnePage
<1>5. a \in tried /\ a \in Sent /\ Unique(a)
  BY <1>2, SentIsGood DEF Kept, Unique, OneInv, SentPart
<1>6. InDone(a) \/ a.id \in dropped
  BY <1>2, <1>5 DEF Kept
<1>7. ASSUME NEW b, b \in Sent PROVE Recoverable(b)'
  <2>1. Recoverable(b)
    BY <1>7 DEF OneInv, SentPart
  <2>2. disk.cmd = b => b = a
    BY <1>2, <1>5, <1>7, SentIsGood DEF OneInv, SentPart
  <2> QED
    BY <1>3, <1>6, <2>1, <2>2 DEF Recoverable, InDone
<1>8. SentPart'
  BY <1>3, <1>4, <1>7 DEF OneInv, SentPart
<1>9. PagePart'
  BY <1>3, <1>4 DEF OneInv, PagePart
<1> QED
  BY <1>8, <1>9 DEF OneInv

\* What is given up was found in the history, or is noted as given up.
LEMMA AloneCancel ==
    ASSUME IInv, OneInv, IInv', OnePage, NEW p \in Pages, Cancel(p) PROVE OneInv'
<1>1. PICK id : id = draft[p].id
  OBVIOUS
<1>2. /\ queue' = queue \/ queue' = queue \ Queued(id)
      /\ (Queued(id) = {} /\ Known(shown[p], id) /\ dropped' = dropped) \/ dropped' = dropped \cup {id}
      /\ draft' = [draft EXCEPT ![p] = None] /\ disk' = None
      /\ UNCHANGED <<life, host, job, tried>>
  BY <1>1 DEF Cancel
<1>3. Sent' = Sent /\ Pages' = Pages /\ draft'[p] = None /\ \A q \in Pages : q = p
  BY <1>2 DEF Sent, Pages, IInv, DraftPart, OnePage
<1>4. ASSUME NEW b, b \in Sent PROVE Recoverable(b)'
  <2>1. Recoverable(b)
    BY <1>4 DEF OneInv, SentPart
  <2>2. disk # None /\ disk.cmd = b => b.id = id
    BY <1>1, <1>4, SentIsGood DEF OneInv, PagePart
  <2>3. b.id = id => b.id \in dropped' \/ \E d \in host.done : d.cmd = b
    <3>1. ASSUME b.id = id, Known(shown[p], id) PROVE \E d \in host.done : d.cmd = b
      <4>1. PICK d \in host.done : d.cmd.id = id
        BY <3>1 DEF Known, IInv, ShownPart, Behind
      <4>2. d.cmd \in Sent
        BY SentIsGood DEF IInv, QueuePart
      <4> QED
        BY <1>4, <3>1, <4>1, <4>2 DEF OneInv, SentPart
    <3>2. Known(shown[p], id) \/ id \in dropped'
      BY <1>2
    <3> QED
      BY <1>2, <3>1, <3>2
  <2>4. b.id # id => \A e \in queue : e.cmd = b => e \in queue'
    BY <1>2 DEF Queued
  <2> QED
    BY <1>2, <2>1, <2>2, <2>3, <2>4 DEF Recoverable
<1>5. SentPart'
  BY <1>2, <1>3, <1>4 DEF OneInv, SentPart
<1>6. PagePart'
  <2>1. job'[p].step \in {"review", "keep"} => job'[p] = job[p]
    BY <1>2
  <2> QED
    BY <1>2, <1>3, <2>1 DEF OneInv, PagePart
<1> QED
  BY <1>5, <1>6 DEF OneInv

LEMMA AloneReload ==
    ASSUME IInv, OneInv, IInv', OnePage, NEW p \in Pages, Reload(p) PROVE OneInv'
<1>1. /\ draft' = [draft EXCEPT ![p] = disk] /\ job' = [job EXCEPT ![p] = NoJob]
      /\ UNCHANGED <<life, host, disk, queue, tried, dropped>>
  BY DEF Reload
<1>2. NoJob.step = "" /\ Pages' = Pages /\ \A q \in Pages : q = p
  BY <1>1 DEF NoJob, OnePage, Pages
<1>3. draft'[p] = disk /\ job'[p].step = ""
  BY <1>1, <1>2 DEF IInv, DraftPart, JobPart
<1>4. Sent' \subseteq Sent
  BY <1>1, <1>3, SentOf
<1>5. \A c : c \in Sent => Recoverable(c)'
  BY <1>1 DEF OneInv, SentPart, Recoverable
<1>6. SentPart'
  BY <1>1, <1>4, <1>5 DEF OneInv, SentPart
<1>7. PagePart'
  <2>1. \A c \in Sent : disk # None /\ disk.id = c.id => disk.cmd = c
    BY DEF OneInv, SentPart
  <2>2. disk' = disk
    BY <1>1
  <2> QED
    BY <1>2, <1>3, <1>4, <2>1, <2>2 DEF PagePart
<1> QED
  BY <1>6, <1>7 DEF OneInv

LEMMA AloneNobody ==
    ASSUME IInv, OneInv, IInv', (\E i \in Items : Move(i)) \/ LateCommand \/ RetryEntry \/ UNCHANGED vars
    PROVE  OneInv'
<1>1. CASE UNCHANGED vars
  BY <1>1, OneStays DEF vars, Sent, Pages
<1>2. CASE \E i \in Items : Move(i)
  <2>1. PICK i \in Items : \E qty : host' = [host EXCEPT !.stock[i] = [qty |-> qty, version |-> @.version + 1]]
    BY <1>2 DEF Move
  <2>2. host'.done = host.done
    BY <2>1 DEF IInv, HostPart, Host
  <2>3. UNCHANGED <<life, disk, draft, job, queue, tried, dropped>>
    BY <1>2 DEF Move
  <2> QED
    BY <2>2, <2>3, OneStays DEF Sent, Pages
<1>3. CASE LateCommand
  <2>1. host.done \subseteq host'.done
    BY <1>3, HostGrows DEF LateCommand
  <2> QED
    BY <1>3, <2>1, OneStays DEF LateCommand, Sent, Pages
<1>4. CASE RetryEntry
  <2>1. PICK e \in queue : queue' = (queue \ {e}) \cup {[e EXCEPT !.error = FALSE]}
    BY <1>4 DEF RetryEntry
  <2>2. [e EXCEPT !.error = FALSE].cmd = e.cmd
    BY DEF IInv, QueuePart
  <2>3. PICK g : g = [e EXCEPT !.error = FALSE]
    OBVIOUS
  <2>4. \A f \in queue : \E h \in queue' : h.cmd = f.cmd
    BY <2>1, <2>2, <2>3
  <2> QED
    BY <1>4, <2>4, OneStays DEF RetryEntry, Sent, Pages
<1> QED
  BY <1>1, <1>2, <1>3, <1>4

LEMMA OneInductive == Spec => [](IInv /\ OneInv)
<1>1. Init => IInv /\ OneInv
  <2>1. ASSUME Init PROVE Sent = {} /\ disk = None /\ \A p \in Pages : job[p].step = ""
    <3>1. NoJob.step = ""
      BY DEF NoJob
    <3> QED
      BY <2>1, <3>1 DEF Init, Sent
  <2> QED
    BY <2>1, InitHolds DEF OneInv, SentPart, PagePart
<1>2. ASSUME IInv, OneInv, IInv', [Next]_vars PROVE OneInv'
  <2>1. CASE (\E i \in Items : Move(i)) \/ LateCommand \/ RetryEntry \/ UNCHANGED vars
    BY <1>2, <2>1, AloneNobody
  <2>2. ASSUME NEW p \in Pages,
               \/ Refresh(p) \/ StartInventory(p) \/ Input(p) \/ Finish(p) \/ Review(p) \/ KeepPayload(p)
               \/ SendLocal(p) \/ Enqueue(p) \/ LookAtQueue(p)
               \/ Sync(p) \/ ReceiveDone(p) \/ ReceiveRefused(p) \/ LookAtDraft(p) \/ RemoveDraft(p)
               \/ Cancel(p) \/ Reload(p)
        PROVE  OneInv'
    <3>1. life' = life
      BY <1>2 , <2>2 DEF Refresh, StartInventory, Input, Finish, Review, KeepPayload, SendLocal, Enqueue, LookAtQueue,
         Sync, ReceiveDone, ReceiveRefused, LookAtDraft, RemoveDraft, Cancel, Reload
    <3>2. OnePage' => OnePage
      BY <3>1 DEF OnePage, Pages
    <3>3. CASE OnePage
      BY <1>2, <2>2, <3>3, DraftsAlone, AloneStartInventory, AloneInput, AloneFinish, AloneReview, AloneKeepPayload,
         AloneReceiveDone, AloneRemoveDraft, AloneCancel, AloneReload
    <3> QED
      BY <3>2, <3>3 DEF OneInv
  <2> QED
    BY <1>2, <2>1, <2>2 DEF Next
<1> QED
  BY <1>1, <1>2, Inductive, PTL DEF Spec

\* With one page open, a document that was sent is recorded, or kept whole in the
\* draft or in the queue, or was given up: neither a write that failed nor a page
\* that was loaded again loses it.
THEOREM SentIsKept == Spec => []SentIsRecoverable
<1>1. IInv /\ OneInv => SentIsRecoverable
  BY SentIsGood DEF OneInv, SentPart, Recoverable, SentIsRecoverable
<1> QED
  BY <1>1, OneInductive, PTL

\* What a page calls recorded, the warehouse has recorded with these very counts,
\* or the user gave it up, unless two pages sent different counts of one draft.
THEOREM ToldIsTrue == Spec => []ToldIsRecorded
<1>1. IInv /\ OneInv => ToldIsRecorded
  <2>1. ASSUME IInv, OneInv, NEW c \in told, OnePage \/ Unique(c)
        PROVE  c.id \in dropped \/ \E d \in host.done : d.cmd = c
    <3>1. Kept(c) /\ c \in tried
      BY <2>1 DEF IInv, AnswerPart, Kept
    <3>2. Unique(c)
      BY <2>1, <3>1, SentIsGood DEF Unique, OneInv, SentPart
    <3> QED
      BY <3>1, <3>2 DEF Kept, InDone
  <2> QED
    BY <2>1 DEF ToldIsRecorded, Unique
<1> QED
  BY <1>1, OneInductive, PTL

-----------------------------------------------------------------------------
(* The scanner: what its sessions and its starts are *)

ScanSession == [closed : BOOLEAN, generation : Nat, stream : Nat \cup {Nothing},
                found : {Nothing} \cup [code : Codes, from : Nat], pending : BOOLEAN]
ScanSteps == {"asked", "play", "tick", "detect", "done"}
ScanRead == [code : Codes, recent : BOOLEAN]
ScanStart == [session : Nat, step : ScanSteps, last : Codes \cup {Nothing}, repeats : Nat,
              recent : BOOLEAN, reads : Seq(ScanRead)]

\* What is counted as repeated is what was read last, soon after the same code.
Repeated(r) ==
    LET n == Len(r.reads)
    IN /\ r.repeats >= 1 => n >= 1 /\ r.reads[n].code = r.last
       /\ r.repeats >= 2 => n >= 2 /\ r.reads[n - 1].code = r.last /\ r.reads[n].recent

\* The last three readable frames of a start that is over show the code.
Shows(r, n, code) ==
    /\ r.session = n /\ r.step = "done" /\ Len(r.reads) = 3
    /\ \A i \in 1..3 : r.reads[i].code = code
    /\ r.reads[2].recent /\ r.reads[3].recent

Source(from, n, code) == from = 0 \/ (from \in DOMAIN start /\ Shows(start[from], n, code))

\* The start a session waits for has not brought a stream yet.
Waits(n, s) ==
    s.generation # 0 => /\ s.generation \in DOMAIN start /\ start[s.generation].session = n
                        /\ start[s.generation].step = "asked" => s.stream = Nothing

ScannerInv ==
    /\ device \in Devices
    /\ session \in Seq(ScanSession) /\ start \in Seq(ScanStart) /\ live \subseteq DOMAIN start
    /\ used \subseteq [by : DOMAIN session, code : Codes, from : Nat]
    /\ \A k \in DOMAIN start : start[k].session \in DOMAIN session /\ Repeated(start[k])
    /\ \A k \in live : ~session[start[k].session].closed /\ session[start[k].session].stream = k
    /\ \A n \in DOMAIN session :
          /\ Waits(n, session[n])
          /\ session[n].found # Nothing => Source(session[n].found.from, n, session[n].found.code)
    /\ \A u \in used : session[u.by].closed /\ Source(u.from, u.by, u.code)
    /\ \A u, v \in used : u.by = v.by => u = v

\* What any step may do to the starts.
StartsGrow ==
    /\ start' \in Seq(ScanStart) /\ DOMAIN start \subseteq DOMAIN start'
    /\ \A k \in DOMAIN start' : start'[k].session \in DOMAIN session /\ Repeated(start'[k])
    /\ \A k \in DOMAIN start :
          /\ start'[k].session = start[k].session
          /\ start'[k].step = "asked" => start[k].step = "asked"
          /\ start[k].step = "done" => start'[k].step = "done" /\ start'[k].reads = start[k].reads

LEMMA StartsStay ==
    ASSUME ScannerInv, start' = start
    PROVE  StartsGrow
  BY DEF StartsGrow, ScannerInv

LEMMA SourceStays ==
    ASSUME StartsGrow, NEW from, NEW n, NEW code, Source(from, n, code)
    PROVE  Source(from, n, code)'
  BY DEF StartsGrow, Source, Shows

\* A step that changes one session: it stays closed, waits only for a start of
\* its own, and the streams that stay on are its stream and those of the others.
LEMMA OneSession ==
    ASSUME ScannerInv, StartsGrow, device' = device,
           NEW n \in DOMAIN session, NEW x \in ScanSession,
           session' = [session EXCEPT ![n] = x], session[n].closed => x.closed,
           Waits(n, x)',
           \A k \in live' : /\ k \in DOMAIN start'
                            /\ IF start'[k].session = n THEN ~x.closed /\ x.stream = k
                               ELSE k \in live,
           x.found # Nothing => Source(x.found.from, n, x.found.code)',
           \/ used' = used
           \/ \E u \in [by : {n}, code : Codes, from : Nat] :
                /\ used' = used \cup {u}
                /\ ~session[n].closed /\ x.closed /\ Source(u.from, n, u.code)'
    PROVE  ScannerInv'
<1>1. /\ session' \in Seq(ScanSession) /\ DOMAIN session' = DOMAIN session /\ session'[n] = x
      /\ \A m \in DOMAIN session : m # n => session'[m] = session[m]
  BY DEF ScannerInv
<1>2. \A u \in used : u.by \in DOMAIN session /\ session[u.by].closed /\ Source(u.from, u.by, u.code)
  BY DEF ScannerInv
<1>3. \A u \in used' : /\ u \in [by : DOMAIN session, code : Codes, from : Nat]
                       /\ session'[u.by].closed /\ Source(u.from, u.by, u.code)'
  <2>1. \A u \in used : /\ u \in [by : DOMAIN session, code : Codes, from : Nat]
                        /\ session'[u.by].closed /\ Source(u.from, u.by, u.code)'
    BY <1>1, <1>2, SourceStays DEF ScannerInv
  <2>2. CASE used' = used
    BY <2>1, <2>2
  <2>3. ASSUME NEW u \in [by : {n}, code : Codes, from : Nat], used' = used \cup {u},
               x.closed, Source(u.from, n, u.code)'
        PROVE  \A v \in used' : /\ v \in [by : DOMAIN session, code : Codes, from : Nat]
                                /\ session'[v.by].closed /\ Source(v.from, v.by, v.code)'
    BY <1>1, <2>1, <2>3
  <2> QED
    BY <2>2, <2>3
<1>4. \A u, v \in used' : u.by = v.by => u = v
  BY <1>2 DEF ScannerInv
<1>5. \A k \in DOMAIN start' : start'[k].session \in DOMAIN session' /\ Repeated(start'[k])
  BY <1>1 DEF StartsGrow
<1>6. live' \subseteq DOMAIN start' /\ \A k \in live' : ~session'[start'[k].session].closed /\ session'[start'[k].session].stream = k
  <2> SUFFICES ASSUME NEW k \in live'
               PROVE  k \in DOMAIN start' /\ ~session'[start'[k].session].closed /\ session'[start'[k].session].stream = k
    OBVIOUS
  <2>1. CASE start'[k].session = n
    BY <1>1, <2>1
  <2>2. CASE start'[k].session # n
    <3>1. k \in live /\ k \in DOMAIN start'
      BY <2>2
    <3>2. /\ start[k].session \in DOMAIN session /\ ~session[start[k].session].closed
          /\ session[start[k].session].stream = k /\ start'[k].session = start[k].session
      BY <3>1 DEF ScannerInv, StartsGrow
    <3> QED
      BY <1>1, <2>2, <3>1, <3>2
  <2> QED
    BY <2>1, <2>2
<1>7. ASSUME NEW m \in DOMAIN session'
      PROVE  /\ Waits(m, session[m])'
             /\ (session[m].found # Nothing => Source(session[m].found.from, m, session[m].found.code))'
  <2>1. CASE m = n
    BY <1>1, <2>1 DEF Waits
  <2>2. CASE m # n
    <3>1. session'[m] = session[m] /\ m \in DOMAIN session
      BY <1>1, <2>2
    <3>2. Waits(m, session[m]) /\ (session[m].found # Nothing => Source(session[m].found.from, m, session[m].found.code))
      BY <3>1 DEF ScannerInv
    <3>3. Waits(m, session[m])'
      BY <3>1, <3>2 DEF Waits, StartsGrow
    <3> QED
      BY <3>1, <3>2, <3>3, SourceStays
  <2> QED
    BY <2>1, <2>2
<1>8. start' \in Seq(ScanStart) /\ device' \in Devices
  BY DEF StartsGrow, ScannerInv
<1> QED
  BY <1>1, <1>3, <1>4, <1>5, <1>6, <1>7, <1>8 DEF ScannerInv

\* The stream of the session is off afterwards.
LEMMA OneStops ==
    ASSUME ScannerInv, StartsGrow, device' = device,
           NEW n \in DOMAIN session, NEW x \in ScanSession,
           session' = [session EXCEPT ![n] = x], session[n].closed => x.closed,
           x.generation = 0 \/ (x.generation = session[n].generation /\ x.stream = session[n].stream),
           live' = live \ {session[n].stream},
           x.found = session[n].found \/ (x.found # Nothing => Source(x.found.from, n, x.found.code)'),
           \/ used' = used
           \/ \E u \in [by : {n}, code : Codes, from : Nat] :
                /\ used' = used \cup {u}
                /\ ~session[n].closed /\ x.closed /\ Source(u.from, n, u.code)'
    PROVE  ScannerInv'
<1>1. Waits(n, session[n]) /\ (session[n].found # Nothing => Source(session[n].found.from, n, session[n].found.code))
  BY DEF ScannerInv
<1>2. Waits(n, x)'
  BY <1>1 DEF Waits, StartsGrow
<1>3. x.found # Nothing => Source(x.found.from, n, x.found.code)'
  BY <1>1, SourceStays
<1>4. ASSUME NEW k \in live'
      PROVE  k \in DOMAIN start' /\ start'[k].session # n /\ k \in live
  <2>1. k \in live /\ k # session[n].stream
    OBVIOUS
  <2>2. k \in DOMAIN start /\ start'[k].session = start[k].session /\ session[start[k].session].stream = k
    BY <2>1 DEF ScannerInv, StartsGrow
  <2> QED
    BY <2>1, <2>2 DEF StartsGrow
<1> QED
  BY <1>2, <1>3, <1>4, OneSession

\* A step of a start that leaves the sessions alone.
LEMMA OnlyStarts ==
    ASSUME ScannerInv, StartsGrow, device' = device, session' = session, live' = live, used' = used
    PROVE  ScannerInv'
<1>1. \A u \in used : Source(u.from, u.by, u.code)'
  BY SourceStays DEF ScannerInv
<1>2. \A n \in DOMAIN session : session[n].found # Nothing => Source(session[n].found.from, n, session[n].found.code)'
  BY SourceStays DEF ScannerInv
<1>3. \A n \in DOMAIN session : Waits(n, session[n])'
  BY DEF Waits, ScannerInv, StartsGrow
<1>4. \A k \in live : start[k].session = start'[k].session /\ k \in DOMAIN start'
  BY DEF ScannerInv, StartsGrow
<1>5. /\ session' \in Seq(ScanSession) /\ device' \in Devices
      /\ used' \subseteq [by : DOMAIN session', code : Codes, from : Nat]
      /\ \A u, v \in used' : u.by = v.by => u = v
      /\ \A u \in used' : session'[u.by].closed
      /\ \A k \in live' : ~session'[start'[k].session].closed /\ session'[start'[k].session].stream = k
  BY <1>4 DEF ScannerInv
<1>6. start' \in Seq(ScanStart) /\ \A k \in DOMAIN start' : start'[k].session \in DOMAIN session' /\ Repeated(start'[k])
  BY DEF StartsGrow
<1> QED
  BY <1>1, <1>2, <1>3, <1>4, <1>5, <1>6 DEF ScannerInv

-----------------------------------------------------------------------------
(* Codes *)

LEMMA AcceptKeeps ==
    ASSUME ScannerInv, StartsGrow, device' = device, NEW n \in DOMAIN session, NEW code \in Codes, NEW from \in Nat,
           Source(from, n, code)', Accept(n, code, from)
    PROVE  ScannerInv'
<1>1. CASE session[n].closed
  BY <1>1, OnlyStarts DEF Accept
<1>2. CASE ~session[n].closed
  <2> DEFINE x == [session[n] EXCEPT !.generation = 0, !.stream = Nothing,
                                     !.closed = IF code \in Fitting THEN TRUE ELSE @]
             u == [by |-> n, code |-> code, from |-> from]
  <2>1. session[n] \in ScanSession
    BY DEF ScannerInv
  <2>2. /\ x \in ScanSession /\ x.generation = 0 /\ x.found = session[n].found
        /\ code \in Fitting => x.closed
    BY <2>1 DEF ScanSession
  <2>3. session' = [session EXCEPT ![n] = x] /\ live' = live \ {session[n].stream}
    <3>1. CASE code \in Fitting
      BY <1>2, <2>1, <3>1 DEF Accept, Now, Closed, Stopped, Off, ScannerInv, ScanSession
    <3>2. CASE code \notin Fitting
      <4>1. x = [session[n] EXCEPT !.generation = 0, !.stream = Nothing]
        BY <2>1, <3>2 DEF ScanSession
      <4> HIDE DEF x
      <4> QED
        BY <1>2, <3>2, <4>1 DEF Accept, Now, Stopped, Off, ScannerInv
    <3> QED
      BY <3>1, <3>2
  <2>4. used' = used \/ (used' = used \cup {u} /\ x.closed)
    BY <1>2, <2>2 DEF Accept
  <2>5. u \in [by : {n}, code : Codes, from : Nat] /\ Source(u.from, n, u.code)'
    OBVIOUS
  <2> HIDE DEF x, u
  <2> QED
    BY <1>2, <2>2, <2>3, <2>4, <2>5, OneStops
<1> QED
  BY <1>1, <1>2

LEMMA UseDetectedKeeps ==
    ASSUME ScannerInv, StartsGrow, device' = device, NEW n \in DOMAIN session, NEW code \in Codes, NEW from \in Nat,
           Source(from, n, code)', UseDetected(n, code, from)
    PROVE  ScannerInv'
<1>1. CASE code \in Printed
  <2> DEFINE next == [session[n] EXCEPT !.generation = 0, !.stream = Nothing,
                                        !.found = [code |-> code, from |-> from]]
  <2>1. session[n] \in ScanSession
    BY DEF ScannerInv
  <2> PICK x : x = next
    OBVIOUS
  <2>2. /\ x \in ScanSession /\ x.generation = 0 /\ x.closed = session[n].closed
        /\ x.found = [code |-> code, from |-> from]
    BY <2>1 DEF ScanSession
  <2>3. session' = [session EXCEPT ![n] = x] /\ live' = live \ {session[n].stream} /\ used' = used
    BY <1>1, <2>1 DEF UseDetected, Now, Stopped, Off, ScannerInv, ScanSession
  <2>4. Source(x.found.from, n, x.found.code)'
    BY <2>2
  <2> HIDE DEF next
  <2> QED
    BY <2>2, <2>3, <2>4, OneStops
<1>2. CASE code \notin Printed
  BY <1>2, AcceptKeeps DEF UseDetected
<1> QED
  BY <1>1, <1>2

\* A start that reads a code once more: what it counts as repeated it has read,
\* and a third repetition makes the last three frames show the code.
LEMMA CountReadProperties ==
    ASSUME NEW r \in ScanStart, Repeated(r), NEW code \in Codes, NEW d, d = CountRead(r, code)
    PROVE  /\ d \in ScanStart /\ Repeated(d) /\ d.session = r.session /\ d.step = r.step
           /\ d.repeats >= 3 => /\ Len(d.reads) = 3 /\ \A i \in 1..3 : d.reads[i].code = code
                                /\ d.reads[2].recent /\ d.reads[3].recent
<1> DEFINE e == [code |-> code, recent |-> r.recent]
           all == Append(r.reads, e)
           n == Len(r.reads)
           low == Max({1, n - 1})
           few == SubSeq(all, low, n + 1)
           count == IF code = r.last /\ r.recent THEN r.repeats + 1 ELSE 1
<1>1. r.reads \in Seq(ScanRead) /\ e \in ScanRead /\ n \in Nat
  BY LenProperties DEF ScanStart, ScanRead
<1>2. /\ all \in Seq(ScanRead) /\ Len(all) = n + 1 /\ all[n + 1] = e
      /\ \A i \in 1..n : all[i] = r.reads[i]
  BY <1>1, AppendProperties
<1>3. /\ low \in {1, n - 1} /\ low >= 1 /\ low >= n - 1
  <2>1. \E y \in {1, n - 1} : \A z \in {1, n - 1} : y >= z
    BY <1>1
  <2> QED
    BY <2>1 DEF Max
<1> HIDE DEF low, all
<1>4. low \in Nat /\ low <= n + 1 /\ low \in 1..(n + 2)
  BY <1>1, <1>3
<1>5. /\ few \in Seq(ScanRead) /\ Len(few) = n + 2 - low
      /\ \A i \in 1..(n + 2 - low) : few[i] = all[low + i - 1]
  <2>1. \A i \in low..(n + 1) : all[i] \in ScanRead
    BY <1>1, <1>2, <1>4, ElementOfSeq
  <2> QED
    BY <1>1, <1>2, <1>4, <2>1, SubSeqProperties, SMTT(30)
<1>6. Len(all) - 2 = n - 1
  BY <1>1, <1>2
<1>7. /\ d = [r EXCEPT !.last = code, !.recent = TRUE, !.repeats = count, !.reads = few]
  BY <1>2, <1>6 DEF CountRead, low, all, ScanStart
<1>8. count \in Nat
  BY DEF ScanStart
<1> HIDE DEF few, count, e
<1>9. /\ d \in ScanStart /\ d.session = r.session /\ d.step = r.step /\ d.reads = few /\ d.repeats = count /\ d.last = code
  BY <1>5, <1>7, <1>8 DEF ScanStart
<1>10. few[Len(few)] = e /\ Len(few) >= 1 /\ Len(few) \in Nat
  BY <1>1, <1>2, <1>3, <1>4, <1>5
<1>11. n >= 1 => Len(few) >= 2 /\ few[Len(few) - 1] = r.reads[n]
  <2> SUFFICES ASSUME n >= 1
               PROVE  Len(few) >= 2 /\ few[Len(few) - 1] = r.reads[n]
    OBVIOUS
  <2>1. low <= n
    BY <1>1, <1>3
  <2>2. n + 1 - low \in 1..(n + 2 - low) /\ low + (n + 1 - low) - 1 = n /\ Len(few) - 1 = n + 1 - low
    BY <1>1, <1>4, <1>5, <2>1
  <2>3. few[n + 1 - low] = all[n] /\ all[n] = r.reads[n]
    BY <1>1, <1>2, <1>5, <2>2
  <2> QED
    BY <1>1, <1>4, <1>5, <2>1, <2>2, <2>3
<1>12. n >= 2 => Len(few) = 3 /\ few[1] = r.reads[n - 1]
  BY <1>1, <1>2, <1>3, <1>4, <1>5
<1>13. e.code = code /\ e.recent = r.recent
  BY DEF e
<1>14. r.repeats \in Nat
  BY DEF ScanStart
<1>15. count >= 2 => code = r.last /\ r.recent /\ r.repeats >= 1 /\ count = r.repeats + 1
  BY <1>14 DEF count
<1>16. Repeated(d)
  BY <1>9, <1>10, <1>11, <1>13, <1>14, <1>15 DEF Repeated
<1>17. count >= 3 => /\ Len(few) = 3 /\ few[1].code = code /\ few[2].code = code /\ few[3].code = code
                     /\ few[2].recent /\ few[3].recent
  <2> SUFFICES ASSUME count >= 3
               PROVE  /\ Len(few) = 3 /\ few[1].code = code /\ few[2].code = code /\ few[3].code = code
                      /\ few[2].recent /\ few[3].recent
    OBVIOUS
  <2>1. r.repeats >= 2 /\ code = r.last /\ r.recent
    BY <1>8, <1>14, <1>15
  <2>2. n >= 2 /\ r.reads[n - 1].code = r.last /\ r.reads[n].recent /\ r.reads[n].code = r.last
    BY <1>14, <2>1 DEF Repeated
  <2>3. Len(few) = 3 /\ few[1] = r.reads[n - 1] /\ few[2] = r.reads[n] /\ few[3] = e
    BY <1>1, <1>10, <1>11, <1>12, <2>2
  <2> QED
    BY <1>13, <2>1, <2>2, <2>3
<1>18. 1..3 = {1, 2, 3}
  OBVIOUS
<1> QED
  BY <1>9, <1>16, <1>17, <1>18

-----------------------------------------------------------------------------
(* The actions *)

LEMMA OpenScannerKeeps ==
    ASSUME ScannerInv, OpenScanner
    PROVE  ScannerInv'
<1> PICK n : n = Len(session)
  OBVIOUS
<1> DEFINE closed == IF IsOpen(n) THEN Closed(session, n) ELSE session
<1>1. /\ session \in Seq(ScanSession) /\ n \in Nat /\ DOMAIN session = 1..n
      /\ device' = device /\ start' = start /\ used' = used
  BY LenProperties DEF ScannerInv, OpenScanner
<1>2. /\ closed \in Seq(ScanSession) /\ DOMAIN closed = 1..n /\ Len(closed) = n
      /\ \A m \in 1..n : /\ session[m].closed => closed[m].closed
                         /\ closed[m].generation = session[m].generation /\ closed[m].stream = session[m].stream
                         /\ closed[m].found = session[m].found
      /\ \A m \in 1..n : closed[m].closed => session[m].closed \/ (IsOpen(n) /\ m = n)
  <2>1. CASE ~IsOpen(n)
    BY <1>1, <2>1
  <2>2. CASE IsOpen(n)
    <3> DEFINE x == [session[n] EXCEPT !.closed = TRUE]
    <3>1. n \in 1..n /\ session[n] \in ScanSession
      BY <1>1, <2>2, ElementOfSeq DEF IsOpen, Last
    <3>2. closed = [session EXCEPT ![n] = x] /\ x \in ScanSession
      BY <2>2, <3>1 DEF Closed, ScanSession
    <3>3. x.closed /\ x.generation = session[n].generation /\ x.stream = session[n].stream /\ x.found = session[n].found
      BY <3>1 DEF ScanSession
    <3> HIDE DEF x, closed
    <3>4. closed \in Seq(ScanSession) /\ DOMAIN closed = 1..n /\ Len(closed) = n
      <4>1. closed \in Seq(ScanSession) /\ DOMAIN closed = DOMAIN session
        BY <1>1, <3>1, <3>2
      <4> QED
        BY <1>1, <4>1, LenProperties
    <3>5. closed[n] = x /\ \A m \in 1..n : m # n => closed[m] = session[m]
      BY <1>1, <3>1, <3>2
    <3> QED
      BY <1>1, <2>2, <3>1, <3>3, <3>4, <3>5
  <2> QED
    BY <2>1, <2>2
<1>3. /\ session' = Append(closed, Session)
      /\ live' = IF IsOpen(n) THEN live \ {session[n].stream} ELSE live
  BY DEF OpenScanner, Now, Off, Last
<1>4. Session \in ScanSession /\ Session.generation = 0 /\ Session.found = Nothing
  BY DEF Session, ScanSession
<1> HIDE DEF closed
<1>5. /\ session' \in Seq(ScanSession) /\ DOMAIN session' = 1..(n + 1) /\ session'[n + 1] = Session
      /\ \A m \in 1..n : session'[m] = closed[m]
  <2>1. /\ Append(closed, Session) \in Seq(ScanSession) /\ Len(Append(closed, Session)) = n + 1
        /\ Append(closed, Session)[n + 1] = Session
        /\ \A m \in 1..n : Append(closed, Session)[m] = closed[m]
    BY <1>2, <1>4, AppendProperties
  <2> QED
    BY <1>3, <2>1, LenProperties
<1>6. \A k \in DOMAIN start : start[k].session \in 1..n /\ Repeated(start[k])
  BY <1>1 DEF ScannerInv
<1>7. ASSUME NEW k \in live'
      PROVE  ~session'[start[k].session].closed /\ session'[start[k].session].stream = k /\ k \in DOMAIN start
  <2>1. k \in live /\ k \in DOMAIN start /\ start[k].session \in 1..n
    BY <1>3, <1>6 DEF ScannerInv
  <2>2. ~session[start[k].session].closed /\ session[start[k].session].stream = k
    BY <2>1 DEF ScannerInv
  <2>3. IsOpen(n) => start[k].session # n
    BY <1>3, <2>2
  <2> QED
    BY <1>2, <1>5, <2>1, <2>2, <2>3
<1>8. \A from, m, code : Source(from, m, code)' = Source(from, m, code)
  BY <1>1 DEF Source
<1>9. ASSUME NEW m \in DOMAIN session'
      PROVE  /\ Waits(m, session[m])'
             /\ (session[m].found # Nothing => Source(session[m].found.from, m, session[m].found.code))'
  <2>1. CASE m = n + 1
    BY <1>4, <1>5, <2>1 DEF Waits
  <2>2. CASE m \in 1..n
    <3>1. Waits(m, session[m]) /\ (session[m].found # Nothing => Source(session[m].found.from, m, session[m].found.code))
      BY <1>1, <2>2 DEF ScannerInv
    <3>2. session'[m].generation = session[m].generation /\ session'[m].stream = session[m].stream /\ session'[m].found = session[m].found
      BY <1>2, <1>5, <2>2
    <3> QED
      BY <1>1, <3>1, <3>2 DEF Waits, Source
  <2> QED
    BY <1>1, <1>5, <2>1, <2>2
<1>10. /\ used' \subseteq [by : DOMAIN session', code : Codes, from : Nat]
       /\ \A u \in used' : (session[u.by].closed /\ Source(u.from, u.by, u.code))'
       /\ \A u, v \in used' : u.by = v.by => u = v
  <2>1. \A u \in used : /\ u \in [by : 1..n, code : Codes, from : Nat] /\ session[u.by].closed
                        /\ Source(u.from, u.by, u.code)
    BY <1>1 DEF ScannerInv
  <2>2. \A u \in used' : u \in [by : DOMAIN session', code : Codes, from : Nat]
    BY <1>1, <1>5, <2>1
  <2>3. \A u \in used' : (session[u.by].closed /\ Source(u.from, u.by, u.code))'
    BY <1>1, <1>2, <1>5, <2>1 DEF Source
  <2> QED
    BY <1>1, <2>2, <2>3 DEF ScannerInv
<1>11. \A k \in DOMAIN start' : start'[k].session \in DOMAIN session' /\ Repeated(start'[k])
  BY <1>1, <1>5, <1>6
<1> QED
  BY <1>1, <1>5, <1>7, <1>9, <1>10, <1>11 DEF ScannerInv

LEMMA StartCameraKeeps ==
    ASSUME ScannerInv, NEW n \in DOMAIN session, StartCamera(n)
    PROVE  ScannerInv'
<1> DEFINE new == [session |-> n, step |-> "asked", last |-> Nothing, repeats |-> 0, recent |-> FALSE, reads |-> << >>]
           k == Len(start) + 1
           next == [session[n] EXCEPT !.generation = k, !.stream = Nothing, !.found = Nothing]
<1>1. start \in Seq(ScanStart) /\ Len(start) \in Nat /\ DOMAIN start = 1..Len(start) /\ n \in Nat
  BY LenProperties DEF ScannerInv
<1>2. start' = Append(start, new) /\ device' = device /\ used' = used
  BY DEF StartCamera
<1>3. new \in ScanStart /\ Repeated(new) /\ new.session = n /\ new.step = "asked"
  BY <1>1 DEF ScanStart, Repeated, ScanSteps
<1> HIDE DEF new
<1>4. /\ start' \in Seq(ScanStart) /\ DOMAIN start' = 1..k /\ start'[k] = new
      /\ \A j \in 1..Len(start) : start'[j] = start[j]
  BY <1>1, <1>2, <1>3, AppendProperties
<1>5. StartsGrow
  BY <1>1, <1>3, <1>4 DEF StartsGrow, ScannerInv
<1>6. session[n] \in ScanSession
  BY DEF ScannerInv
<1> PICK x : x = next
  OBVIOUS
<1>7. /\ x \in ScanSession /\ x.generation = k /\ x.stream = Nothing /\ x.found = Nothing
      /\ x.closed = session[n].closed
  <2>1. k \in Nat
    BY <1>1
  <2> HIDE DEF k
  <2> QED
    BY <1>6, <2>1 DEF ScanSession
<1>8. session' = [session EXCEPT ![n] = x] /\ live' = live \ {session[n].stream}
  BY <1>6 DEF StartCamera, Now, Stopped, Off, ScannerInv, ScanSession
<1>9. Waits(n, x)'
  BY <1>1, <1>3, <1>4, <1>7 DEF Waits
<1>10. ASSUME NEW j \in live'
       PROVE  j \in DOMAIN start' /\ start'[j].session # n /\ j \in live
  <2>1. j \in live /\ j # session[n].stream
    BY <1>8
  <2>2. j \in DOMAIN start /\ session[start[j].session].stream = j
    BY <2>1 DEF ScannerInv
  <2>3. j \in DOMAIN start' /\ start'[j].session = start[j].session
    BY <2>2, <1>5 DEF StartsGrow
  <2> QED
    BY <2>1, <2>2, <2>3
<1> HIDE DEF next, k
<1> QED
  BY <1>2, <1>5, <1>7, <1>8, <1>9, <1>10, OneSession

\* One start goes on.
LEMMA OneGrows ==
    ASSUME ScannerInv, NEW k \in DOMAIN start, NEW r \in ScanStart, Repeated(r),
           start' = [start EXCEPT ![k] = r], r.session = start[k].session, start[k].step # "done",
           r.step = "asked" => start[k].step = "asked"
    PROVE  StartsGrow
<1>1. start \in Seq(ScanStart)
  BY DEF ScannerInv
<1>2. start' \in Seq(ScanStart) /\ DOMAIN start' = DOMAIN start
  BY <1>1
<1>3. start'[k] = r /\ \A j \in DOMAIN start : j # k => start'[j] = start[j]
  BY <1>1
<1> QED
  BY <1>2, <1>3 DEF StartsGrow, ScannerInv

LEMMA StepGrows ==
    ASSUME ScannerInv, NEW k \in DOMAIN start, NEW to \in ScanSteps, start' = [start EXCEPT ![k].step = to],
           start[k].step # "done", to = "asked" => start[k].step = "asked"
    PROVE  StartsGrow
<1> DEFINE r == [start[k] EXCEPT !.step = to]
<1>1. start[k] \in ScanStart /\ Repeated(start[k]) /\ start \in Seq(ScanStart)
  BY DEF ScannerInv
<1>2. /\ r \in ScanStart /\ r.session = start[k].session /\ r.step = to /\ r.reads = start[k].reads
      /\ r.repeats = start[k].repeats /\ r.last = start[k].last
  BY <1>1 DEF ScanStart
<1>3. Repeated(r)
  BY <1>1, <1>2 DEF Repeated
<1>4. start' = [start EXCEPT ![k] = r]
  BY <1>1
<1> HIDE DEF r
<1> QED
  BY <1>2, <1>3, <1>4, OneGrows

LEMMA GrantedKeeps ==
    ASSUME ScannerInv, NEW k \in DOMAIN start, Granted(k)
    PROVE  ScannerInv'
<1> PICK n : n = start[k].session
  OBVIOUS
<1>1. start \in Seq(ScanStart) /\ start[k] \in ScanStart /\ start[k].step = "asked" /\ Repeated(start[k])
      /\ k \in Nat /\ n \in DOMAIN session
  BY DEF ScannerInv, Granted
<1>2. PICK to \in {"play", "done"} : start' = [start EXCEPT ![k].step = to]
  BY DEF Granted, Step
<1>3. StartsGrow
  <2>1. start[k].step # "done" /\ (to = "asked" => start[k].step = "asked") /\ to \in ScanSteps
    BY <1>1 DEF ScanSteps
  <2> QED
    BY <1>2, <2>1, StepGrows
<1>4. CASE ~Current(k)
  BY <1>3, <1>4, OnlyStarts DEF Granted
<1>5. CASE Current(k)
  <2>1. session[n] \in ScanSession /\ ~session[n].closed /\ session[n].generation = k /\ Waits(n, session[n])
    BY <1>1, <1>5 DEF ScannerInv, Current
  <2>2. session[n].stream = Nothing
    BY <1>1, <2>1 DEF Waits, ScannerInv
  <2> DEFINE next == [session[n] EXCEPT !.stream = k]
  <2> PICK x : x = next
    OBVIOUS
  <2>3. /\ x \in ScanSession /\ x.stream = k /\ x.generation = k /\ ~x.closed /\ x.found = session[n].found
    BY <1>1, <2>1 DEF ScanSession
  <2>4. session' = [session EXCEPT ![n] = x] /\ live' = live \cup {k} /\ start' = [start EXCEPT ![k].step = "play"]
        /\ used' = used /\ device' = device
    BY <1>5, <2>1 DEF Granted, Now, Step, ScannerInv
  <2>5. DOMAIN start' = DOMAIN start /\ start'[k].step = "play" /\ \A j \in DOMAIN start : start'[j].session = start[j].session
    BY <1>1, <2>4 DEF ScanStart
  <2>6. Waits(n, x)'
    BY <1>1, <2>3, <2>5 DEF Waits
  <2>7. ASSUME NEW j \in live'
        PROVE  j \in DOMAIN start' /\ IF start'[j].session = n THEN ~x.closed /\ x.stream = j ELSE j \in live
    <3>1. CASE j = k
      BY <1>1, <2>3, <2>5, <3>1
    <3>2. CASE j # k
      <4>1. j \in live /\ j \in DOMAIN start /\ session[start[j].session].stream = j /\ j \in Nat
        BY <2>4, <3>2 DEF ScannerInv
      <4>2. start[j].session # n
        BY <2>2, <4>1, ScannerAssumption
      <4> QED
        BY <2>5, <4>1, <4>2
    <3> QED
      BY <3>1, <3>2
  <2>8. x.found # Nothing => Source(x.found.from, n, x.found.code)'
    BY <1>1, <1>3, <2>3, SourceStays DEF ScannerInv
  <2> HIDE DEF next
  <2> QED
    BY <1>1, <1>3, <2>1, <2>3, <2>4, <2>6, <2>7, <2>8, OneSession, ZenonT(60)
<1> QED
  BY <1>4, <1>5

LEMMA StopKeeps ==
    ASSUME ScannerInv, StartsGrow, device' = device, used' = used, NEW n \in DOMAIN session,
           Now(Stopped(n), Off(n))
    PROVE  ScannerInv'
<1>1. session[n] \in ScanSession
  BY DEF ScannerInv
<1> DEFINE next == [session[n] EXCEPT !.generation = 0, !.stream = Nothing]
<1> PICK x : x = next
  OBVIOUS
<1>2. /\ x \in ScanSession /\ x.generation = 0 /\ x.found = session[n].found /\ x.closed = session[n].closed
  BY <1>1 DEF ScanSession
<1>3. session' = [session EXCEPT ![n] = x] /\ live' = live \ {session[n].stream}
  BY <1>1 DEF Now, Stopped, Off, ScannerInv
<1> HIDE DEF next
<1> QED
  BY <1>2, <1>3, OneStops

LEMMA CloseScannerKeeps ==
    ASSUME ScannerInv, NEW n \in DOMAIN session, CloseScanner(n)
    PROVE  ScannerInv'
<1>1. session[n] \in ScanSession
  BY DEF ScannerInv
<1> DEFINE next == [session[n] EXCEPT !.closed = TRUE]
<1> PICK x : x = next
  OBVIOUS
<1>2. /\ x \in ScanSession /\ x.generation = session[n].generation /\ x.stream = session[n].stream
      /\ x.found = session[n].found /\ x.closed
  BY <1>1 DEF ScanSession
<1>3. /\ session' = [session EXCEPT ![n] = x] /\ live' = live \ {session[n].stream}
      /\ start' = start /\ device' = device /\ used' = used
  BY <1>1 DEF CloseScanner, Now, Closed, Off, ScannerInv
<1> HIDE DEF next
<1> QED
  BY <1>2, <1>3, OneStops, StartsStay

LEMMA NativeDeliveredKeeps ==
    ASSUME ScannerInv, NEW m, NativeDelivered(m)
    PROVE  ScannerInv'
<1>1. start' = start /\ device' = device
  BY DEF NativeDelivered
<1>2. CASE ~IsOpen(Last)
  BY <1>1, <1>2, OnlyStarts, StartsStay DEF NativeDelivered
<1>3. CASE IsOpen(Last)
  <2> PICK n : n = Last
    OBVIOUS
  <2>1. n \in DOMAIN session /\ ~session[n].closed /\ session[n] \in ScanSession
    BY <1>3, ElementOfSeq DEF IsOpen, Last, ScannerInv
  <2>2. PICK code \in device.codes :
          /\ session' = [Stopped(n) EXCEPT ![n].pending = FALSE, ![n].closed = code \in Fitting]
          /\ live' = Off(n)
          /\ used' = IF code \in Fitting THEN used \cup {[by |-> n, code |-> code, from |-> 0]} ELSE used
    BY <1>3 DEF NativeDelivered
  <2>3. code \in Codes
    BY ScannerAssumption DEF ScannerInv
  <2> PICK fits \in BOOLEAN : fits <=> code \in Fitting
    OBVIOUS
  <2> DEFINE next == [session[n] EXCEPT !.generation = 0, !.stream = Nothing, !.pending = FALSE,
                                        !.closed = fits]
             u == [by |-> n, code |-> code, from |-> 0]
  <2> PICK x : x = next
    OBVIOUS
  <2>4. /\ x \in ScanSession /\ x.generation = 0 /\ x.found = session[n].found
        /\ code \in Fitting => x.closed
    BY <2>1 DEF ScanSession
  <2>5. session' = [session EXCEPT ![n] = x] /\ live' = live \ {session[n].stream}
    BY <2>1, <2>2 DEF Stopped, Off, ScannerInv
  <2>6. used' = used \/ (used' = used \cup {u} /\ x.closed)
    BY <2>2, <2>4
  <2>7. u \in [by : {n}, code : Codes, from : Nat] /\ Source(u.from, n, u.code)'
    BY <2>3 DEF Source
  <2> HIDE DEF next, u
  <2> QED
    BY <1>1, <2>1, <2>4, <2>5, <2>6, <2>7, OneStops, StartsStay
<1> QED
  BY <1>2, <1>3

LEMMA NativeEndsKeeps ==
    ASSUME ScannerInv, NEW m, NativeEnds(m)
    PROVE  ScannerInv'
<1>1. start' = start /\ device' = device /\ used' = used
  BY DEF NativeEnds
<1>2. CASE ~IsOpen(Last)
  BY <1>1, <1>2, OnlyStarts, StartsStay DEF NativeEnds
<1>3. CASE IsOpen(Last)
  <2> PICK n : n = Last
    OBVIOUS
  <2>1. n \in DOMAIN session /\ ~session[n].closed /\ session[n] \in ScanSession
    BY <1>3, ElementOfSeq DEF IsOpen, Last, ScannerInv
  <2>2. PICK closed \in BOOLEAN : session' = [session EXCEPT ![n].pending = FALSE, ![n].closed = closed]
    BY <1>3 DEF NativeEnds
  <2> DEFINE next == [session[n] EXCEPT !.pending = FALSE, !.closed = closed]
  <2> PICK x : x = next
    OBVIOUS
  <2>3. /\ x \in ScanSession /\ x.generation = session[n].generation /\ x.stream = session[n].stream
        /\ x.found = session[n].found
    BY <2>1, <2>2 DEF ScanSession
  <2>4. session' = [session EXCEPT ![n] = x] /\ live' = live \ {session[n].stream}
    BY <1>3, <2>1, <2>2 DEF NativeEnds, Off, ScannerInv
  <2> HIDE DEF next
  <2> QED
    BY <1>1, <2>1, <2>3, <2>4, OneStops, StartsStay
<1> QED
  BY <1>2, <1>3

LEMMA StartNativeKeeps ==
    ASSUME ScannerInv, NEW n \in DOMAIN session, StartNative(n)
    PROVE  ScannerInv'
<1>1. session[n] \in ScanSession /\ Waits(n, session[n])
  BY DEF ScannerInv
<1> DEFINE next == [session[n] EXCEPT !.pending = TRUE, !.found = Nothing]
<1> PICK x : x = next
  OBVIOUS
<1>2. /\ x \in ScanSession /\ x.generation = session[n].generation /\ x.stream = session[n].stream
      /\ x.found = Nothing /\ x.closed = session[n].closed
  BY <1>1 DEF ScanSession
<1>3. session' = [session EXCEPT ![n] = x] /\ start' = start /\ device' = device /\ used' = used /\ live' = live
  BY <1>1 DEF StartNative, ScannerInv
<1>4. Waits(n, x)'
  BY <1>1, <1>2, <1>3 DEF Waits
<1>5. \A k \in live' : k \in DOMAIN start' /\ IF start'[k].session = n THEN ~x.closed /\ x.stream = k ELSE k \in live
  BY <1>2, <1>3 DEF ScannerInv
<1> HIDE DEF next
<1> QED
  BY <1>2, <1>3, <1>4, <1>5, OneSession, StartsStay

LEMMA StartFailsKeeps ==
    ASSUME ScannerInv, NEW k \in DOMAIN start, StartFails(k)
    PROVE  ScannerInv'
<1> PICK n : n = start[k].session
  OBVIOUS
<1>1. StartsGrow /\ device' = device /\ used' = used
  BY StepGrows DEF StartFails, Step, ScanSteps
<1>2. n \in DOMAIN session
  BY DEF ScannerInv
<1> QED
  BY <1>1, <1>2, StopKeeps, OnlyStarts DEF StartFails

LEMMA DetectedKeeps ==
    ASSUME ScannerInv, NEW k \in DOMAIN start, Detected(k)
    PROVE  ScannerInv'
<1> PICK n : n = start[k].session
  OBVIOUS
<1>1. start[k] \in ScanStart /\ Repeated(start[k]) /\ start[k].step = "detect" /\ n \in DOMAIN session
      /\ device' = device /\ k \in Nat /\ start \in Seq(ScanStart)
  BY DEF ScannerInv, Detected
<1>2. ASSUME NEW to \in {"done", "tick"}, Step(k, to), UNCHANGED <<session, live, used>>
      PROVE  ScannerInv'
  BY <1>1, <1>2, StepGrows, OnlyStarts DEF Step, ScanSteps
<1>3. ASSUME NEW code \in device.codes, NEW d, d = CountRead(start[k], code),
             start' = [start EXCEPT ![k] = [d EXCEPT !.step = AfterFrame(k, d)]],
             IF d.repeats >= 3 THEN UseDetected(d.session, code, k) ELSE UNCHANGED <<session, live, used>>
      PROVE  ScannerInv'
  <2>1. code \in Codes
    BY ScannerAssumption DEF ScannerInv
  <2>2. /\ d \in ScanStart /\ Repeated(d) /\ d.session = n
        /\ d.repeats >= 3 => /\ Len(d.reads) = 3 /\ \A i \in 1..3 : d.reads[i].code = code
                             /\ d.reads[2].recent /\ d.reads[3].recent
    BY <1>1, <1>3, <2>1, CountReadProperties
  <2>3. PICK to : to = AfterFrame(k, d)
    OBVIOUS
  <2>4. to \in {"done", "tick"} /\ (d.repeats >= 3 => to = "done")
    BY <2>3 DEF AfterFrame
  <2> DEFINE next == [d EXCEPT !.step = to]
  <2> PICK r : r = next
    OBVIOUS
  <2>5. r \in ScanStart /\ r.session = n /\ r.step = to /\ r.reads = d.reads /\ r.repeats = d.repeats /\ r.last = d.last
    BY <2>2, <2>4 DEF ScanStart, ScanSteps
  <2>6. Repeated(r)
    BY <2>2, <2>5 DEF Repeated
  <2>7. start' = [start EXCEPT ![k] = r]
    BY <1>3, <2>3
  <2> HIDE DEF next
  <2>8. StartsGrow
    BY <1>1, <2>4, <2>5, <2>6, <2>7, OneGrows
  <2>9. CASE d.repeats >= 3
    <3>1. Shows(r, n, code)
      BY <2>2, <2>4, <2>5, <2>9 DEF Shows
    <3>2. start'[k] = r /\ k \in DOMAIN start'
      BY <1>1, <2>7
    <3>3. Source(k, n, code)'
      BY <3>1, <3>2 DEF Source
    <3> QED
      BY <1>1, <1>3, <2>1, <2>2, <2>8, <2>9, <3>3, UseDetectedKeeps
  <2>10. CASE ~(d.repeats >= 3)
    BY <1>1, <1>3, <2>8, <2>10, OnlyStarts
  <2> QED
    BY <2>9, <2>10
<1> QED
  BY <1>1, <1>2, <1>3 DEF Detected, AfterFrame

LEMMA TimePassesKeeps ==
    ASSUME ScannerInv, TimePasses
    PROVE  ScannerInv'
<1>1. PICK k \in DOMAIN start : start' = [start EXCEPT ![k].recent = FALSE]
  BY DEF TimePasses
<1> DEFINE next == [start[k] EXCEPT !.recent = FALSE]
<1> PICK r : r = next
  OBVIOUS
<1>2. start[k] \in ScanStart /\ Repeated(start[k]) /\ start \in Seq(ScanStart)
  BY DEF ScannerInv
<1>3. /\ r \in ScanStart /\ r.session = start[k].session /\ r.step = start[k].step /\ r.reads = start[k].reads
      /\ r.repeats = start[k].repeats /\ r.last = start[k].last
  BY <1>2 DEF ScanStart
<1>4. Repeated(r)
  BY <1>2, <1>3 DEF Repeated
<1>5. start' = [start EXCEPT ![k] = r] /\ device' = device /\ session' = session /\ live' = live /\ used' = used
  BY <1>1, <1>2 DEF TimePasses
<1> HIDE DEF next
<1>6. StartsGrow
  <2>1. start' \in Seq(ScanStart) /\ DOMAIN start' = DOMAIN start /\ start'[k] = r
        /\ \A j \in DOMAIN start : j # k => start'[j] = start[j]
    BY <1>2, <1>3, <1>5
  <2> QED
    <3>1. \A j \in DOMAIN start : /\ start'[j].session = start[j].session /\ start'[j].step = start[j].step
                                  /\ start'[j].reads = start[j].reads /\ Repeated(start'[j])
      BY <1>3, <1>4, <2>1 DEF ScannerInv
    <3> QED
      BY <2>1, <3>1 DEF StartsGrow, ScannerInv
<1> QED
  BY <1>5, <1>6, OnlyStarts

LEMMA ScannerStep ==
    ASSUME ScannerInv, [ScannerNext]_scannerVars
    PROVE  ScannerInv'
<1>1. CASE UNCHANGED scannerVars
  BY <1>1, OnlyStarts, StartsStay DEF scannerVars
<1>2. ASSUME NEW n \in DOMAIN session, UseFound(n)
      PROVE  ScannerInv'
  <2> PICK found : found = session[n].found
    OBVIOUS
  <2>1. /\ found \in [code : Codes, from : Nat] /\ Source(found.from, n, found.code)
        /\ Accept(n, found.code, found.from) /\ start' = start /\ device' = device
    <3>1. session[n] \in ScanSession /\ session[n].found # Nothing
      BY <1>2 DEF UseFound, ScannerInv
    <3>2. session[n].found \in [code : Codes, from : Nat]
      BY <3>1 DEF ScanSession
    <3>3. Source(session[n].found.from, n, session[n].found.code)
      BY <3>1 DEF ScannerInv
    <3> QED
      BY <1>2, <3>2, <3>3 DEF UseFound
  <2> QED
    BY <2>1, AcceptKeeps, StartsStay, SourceStays
<1>3. ASSUME NEW n \in DOMAIN session, Manual(n) \/ ReadPhoto(n)
      PROVE  ScannerInv'
  <2>1. device.codes \subseteq Codes /\ start' = start /\ device' = device /\ \A code : Source(0, n, code)'
    BY <1>3, ScannerAssumption DEF Manual, ReadPhoto, ScannerInv, Source
  <2> QED
    BY <1>3, <2>1, AcceptKeeps, UseDetectedKeeps, OnlyStarts, StartsStay DEF Manual, ReadPhoto
<1>4. ASSUME NEW n \in DOMAIN session, StopVideo(n) \/ ChoosePhoto(n)
      PROVE  ScannerInv'
  BY <1>4, StopKeeps, StartsStay DEF StopVideo, ChoosePhoto
<1>5. ASSUME NEW k \in DOMAIN start, Playing(k) \/ Tick(k)
      PROVE  ScannerInv'
  <2>1. StartsGrow
    BY <1>5, StepGrows DEF Playing, Tick, Step, ScanSteps
  <2> QED
    BY <1>5, <2>1, OnlyStarts DEF Playing, Tick
<1> QED
  BY <1>1, <1>2, <1>3, <1>4, <1>5, OpenScannerKeeps, StartCameraKeeps, GrantedKeeps, CloseScannerKeeps,
     NativeDeliveredKeeps, NativeEndsKeeps, StartNativeKeeps, StartFailsKeeps, DetectedKeeps, TimePassesKeeps
     DEF ScannerNext

LEMMA ScannerInvariance == ScannerSpec => []ScannerInv
<1>1. ScannerInit => ScannerInv
  BY DEF ScannerInit, ScannerInv
<1> QED
  BY <1>1, ScannerStep, PTL DEF ScannerSpec

\* A camera is on only for the session that is open: no stream outlives the
\* session it was asked for, and a session has one stream (scanner.js start, stopVideo).
THEOREM NoCameraForNobody == ScannerSpec => []CameraHasOwner
<1>1. ScannerInv => CameraHasOwner
  BY LenProperties DEF ScannerInv, CameraHasOwner, IsOpen, Last
<1> QED
  BY <1>1, ScannerInvariance, PTL

\* A session puts one code into its form, and one of the camera was read three
\* times in a row, each soon after the one before (scanner.js tick, accept).
THEOREM UsedCodeIsSure == ScannerSpec => []CodeIsSure
<1>1. ScannerInv => CodeIsSure
  <2> SUFFICES ASSUME ScannerInv, NEW u \in used, u.from \in DOMAIN start
               PROVE  Shows(start[u.from], u.by, u.code)
    BY DEF ScannerInv, CodeIsSure, Shows
  <2>1. Source(u.from, u.by, u.code)
    BY DEF ScannerInv
  <2>2. u.from # 0
    BY DEF ScannerInv
  <2> QED
    BY <2>1, <2>2 DEF Source
<1> QED
  BY <1>1, ScannerInvariance, PTL
=============================================================================
