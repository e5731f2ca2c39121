----------------------------- MODULE SecureLink ------------------------------
(***************************************************************************)
(* Protected requests of one page over plain HTTP (web/transport.js and    *)
(* api() of web/app.js) and the main device that answers them (secureRoute *)
(* of web/host.js; the Go host does the same).  An envelope carries an     *)
(* identifier and the time of the sender's clock.  The network may lose    *)
(* one, deliver it late, out of order and more than once; the main device  *)
(* remembers, in memory only, which identifiers it has carried out.        *)
(*                                                                         *)
(* Every kind of request is protected this way.  A command that is carried *)
(* out twice is recognised by its own identifier (AndroidHost, Warehouse); *)
(* a login, an invitation or a log-out has nothing but this cache.         *)
(***************************************************************************)
EXTENDS Integers, FiniteSets

CONSTANTS
    Ids,        \* identifiers of envelopes: 96 random bits, so never repeated
    Fresh,      \* how far the time of an envelope may be from now: 300000 ms
    Keep,       \* how long an identifier is remembered: 600000 ms
    Limit,      \* how many of them: 20000
    Pause,      \* the longest time between two readings of the clock in secureRoute
    Lives       \* what happens: how many envelopes are sent, of which kinds, how
                \* far the page's clock is ahead of the main device's, whether
                \* the role moves, and the time at which the behaviour ends

ASSUME LinkAssumption ==
    /\ Fresh \in Nat /\ Limit \in Nat \ {0} /\ Pause \in Nat
    /\ Keep \in Nat /\ Keep >= 2 * Fresh
    /\ Lives \subseteq [envelopes : Nat, kinds : SUBSET {"state", "command", "login"},
                       ahead : SUBSET Int, moves : BOOLEAN, time : Nat]

\* Main devices one after the other; their number is the epoch (host.js:200).
Hosts == {1, 2}
Askers == {"sync", "login"}

VARIABLES
    now,        \* the clock of the main device
    sent,       \* the envelopes sent
    cache,      \* cache[h], secureIDs of device h: identifiers, and when they were seen
    main,       \* the device that is the main one
    seq,        \* seq[h], the sequence number of the warehouse on device h
    answers,    \* the snapshots that were answered
    waiting,    \* waiting[a], the envelope whose answer a part of the page awaits
    page,       \* the device the page is connected to, and the snapshot it shows
    runs,       \* history variable: what was carried out, and when it was seen
    again,      \* history variable: the identifiers carried out more than once
    forgotten,  \* history variable: those dropped before their time
    life        \* the member of Lives of this behaviour

hosts == <<cache, main, seq>>
client == <<waiting, page>>
history == <<runs, again, forgotten, life>>
linkVars == <<now, sent, cache, main, seq, answers, waiting, page, runs, again, forgotten, life>>

NoEnvelope == [none |-> TRUE]

LinkInit ==
    /\ now = 0
    /\ sent = {} /\ answers = {}
    /\ cache = [h \in Hosts |-> {}]
    /\ main = 1
    /\ seq = [h \in Hosts |-> 0]
    /\ waiting = [a \in Askers |-> NoEnvelope]
    /\ page = [server |-> 1, epoch |-> 1, seq |-> 0]
    /\ runs = {} /\ again = {} /\ forgotten = {}
    /\ life \in Lives

-----------------------------------------------------------------------------
(* The page *)

\* api() encrypts a request and posts it.  syncNow asks for the state and then
\* posts its drafts one by one; the account form may log in at any time.
Send(a) ==
    /\ waiting[a] = NoEnvelope
    /\ Cardinality(sent) < life.envelopes
    /\ \E id \in Ids, ahead \in life.ahead,
          kind \in life.kinds \cap (IF a = "sync" THEN {"state", "command"} ELSE {"login"}),
          to \in (IF a = "sync" THEN {page.server} ELSE 1..main) :
        LET m == [id |-> id, at |-> now + ahead, ahead |-> ahead, kind |-> kind, to |-> to]
        IN  /\ \A other \in sent : other.id # id
            /\ sent' = sent \cup {m}
            /\ waiting' = [waiting EXCEPT ![a] = m]
    /\ UNCHANGED <<now, answers, page, hosts, history>>

\* Mutant of Older: every snapshot is taken, in the order of the answers.
NeverOlder(next) == FALSE

\* acceptState drops a snapshot that went back on the same or an earlier device.
Older(next) == page.seq > next.seq /\ next.epoch <= page.epoch

\* The answer belongs to the request: its identifier is authenticated.  An
\* answer nobody waits for is dropped.
ReceiveAnswer(a) ==
    \E s \in answers :
        /\ waiting[a] # NoEnvelope /\ s.id = waiting[a].id
        /\ waiting' = [waiting EXCEPT ![a] = NoEnvelope]
        /\ page' = CASE a = "login" -> [server |-> s.epoch, epoch |-> s.epoch, seq |-> s.seq]
                     [] a = "sync" /\ Older(s) -> page
                     [] OTHER -> [page EXCEPT !.epoch = s.epoch, !.seq = s.seq]
        /\ answers' = answers \ {s}
        /\ UNCHANGED <<now, sent, hosts, history>>

\* The request is aborted after 20 s, the network or the main device failed it:
\* syncNow goes offline or marks the draft, the form shows the error.
GiveUp(a) ==
    /\ waiting[a] # NoEnvelope
    /\ waiting' = [waiting EXCEPT ![a] = NoEnvelope]
    /\ answers' = {s \in answers : s.id # waiting[a].id}
    /\ UNCHANGED <<now, sent, page, hosts, history>>

-----------------------------------------------------------------------------
(* The main device *)

Distance(m) == IF now >= m.at THEN now - m.at ELSE m.at - now

Timely(m) == Distance(m) <= Fresh

\* Mutant of Purged: an identifier is kept as long as its envelope is fresh.
PurgedEarly(c, t) == {o \in c : t - o.seen <= Fresh}

Purged(c, t) == {o \in c : t - o.seen <= Keep}

\* The sets of identifiers that may be dropped for a new one: the oldest when
\* the cache is full.
Evicted(c) ==
    IF Cardinality(c) < Limit
    THEN {{}}
    ELSE {{o} : o \in {p \in c : \A q \in c : p.seen <= q.seen}}

\* A command is only carried out by the main device; the other one answers 423.
Answerable(m) == m.kind = "command" => m.to = main

\* secureRoute.  The clock is read twice, for the age of the envelope and for
\* the cache.  A refusal changes nothing but what is purged on the way, which
\* the next envelope purges as well.  A command that is carried out again finds
\* its own identifier among those seen (AndroidHost).
Deliver(m, t) ==
    LET kept == Purged(cache[m.to], t)
        one == [id |-> m.id, seen |-> t]
        repeated == \E r \in runs : r.id = m.id
        next == IF m.kind = "command" /\ m.to = main /\ ~repeated
                THEN seq[m.to] + 1 ELSE seq[m.to]
    IN  /\ Timely(m)
        /\ \A o \in kept : o.id # m.id
        /\ \E lost \in Evicted(kept) :
            /\ cache' = [cache EXCEPT ![m.to] = (kept \ lost) \cup {one}]
            /\ forgotten' = forgotten \cup {o.id : o \in lost}
        /\ now' = t
        /\ seq' = [seq EXCEPT ![m.to] = next]
        /\ answers' = IF Answerable(m) /\ \E a \in Askers : waiting[a] = m
                      THEN answers \cup {[id |-> m.id, epoch |-> m.to, seq |-> next]}
                      ELSE answers
        /\ runs' = runs \cup {one}
        /\ again' = IF repeated THEN again \cup {m.id} ELSE again
        /\ UNCHANGED <<sent, main, client, life>>

\* secureIDs is not stored.
Restart(h) ==
    /\ cache[h] # {}
    /\ cache' = [cache EXCEPT ![h] = {}]
    /\ forgotten' = forgotten \cup {o.id : o \in cache[h]}
    /\ UNCHANGED <<now, sent, main, seq, answers, client, runs, again, life>>

\* The role moves to another device with the warehouse as it is (HostTransfer).
TakeOver ==
    /\ main = 1 /\ life.moves
    /\ main' = 2
    /\ seq' = [seq EXCEPT ![2] = seq[1]]
    /\ UNCHANGED <<now, sent, cache, answers, client, history>>

Tick ==
    /\ now < life.time
    /\ now' = now + 1
    /\ UNCHANGED <<sent, answers, hosts, client, history>>

LinkNext ==
    \/ \E a \in Askers : Send(a) \/ ReceiveAnswer(a) \/ GiveUp(a)
    \/ \E m \in sent, d \in 0..Pause : now + d <= life.time /\ Deliver(m, now + d)
    \/ \E h \in Hosts : Restart(h)
    \/ TakeOver
    \/ Tick

LinkSpec == LinkInit /\ [][LinkNext]_linkVars

-----------------------------------------------------------------------------

\* A protected request is carried out once, however often it is delivered
\* (web/host.js:101 refuses an identifier it has seen), unless the main device
\* lost its identifier (it restarted, or twenty thousand others came after it)
\* or the sender's clock was so far ahead that the envelope was at the edge of
\* its time when it first came.
ExecutedOnce ==
    \A id \in again :
        \/ id \in forgotten
        \/ \E m \in sent : m.id = id /\ m.ahead > Fresh - Pause

\* What a page shows never goes back to fewer movements, in whatever order the
\* answers come and across a change of the main device, except that a login
\* shows the snapshot it was answered (web/app.js:193, 239).
MovementsStay ==
    [][page'.seq >= page.seq \/ waiting["login"] # waiting'["login"]]_linkVars
=============================================================================
