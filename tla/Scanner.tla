------------------------------- MODULE Scanner -------------------------------
(***************************************************************************)
(* The scanner of src/web/scanner.js: sessions the user opens and closes,  *)
(* the camera each start asks for and gets after several awaits, the loop  *)
(* that reads its frames, photos, typed codes and the camera of Android.   *)
(* A code is an element of Codes; what validateScan rejects is no code.    *)
(***************************************************************************)
EXTENDS Integers, Sequences, FiniteSets, FiniteSetsExt

CONSTANTS
    Codes,          \* texts with the right check digits
    Printed,        \* those the user compares with the package (EAN, Code 128)
    Fitting,        \* those the form that opened the scanner takes
    Devices,        \* [native, codes, sessions, starts]: the camera, the
                    \* codes there are to read, and the bounds
    Nothing

ASSUME ScannerAssumption ==
    /\ Printed \subseteq Codes /\ Fitting \subseteq Codes /\ Nothing \notin Codes \cup Nat
    /\ \A l \in Devices : l.native \in BOOLEAN /\ l.codes \subseteq Codes /\ {l.sessions, l.starts} \subseteq Nat

VARIABLES
    device,     \* one of Devices
    session,    \* the sessions opened so far, the last one is yarusScanSession
    start,      \* the calls of start so far, each with the camera stream it gets
    live,       \* the streams that are on
    photo,      \* sessions that are reading a photo
    asked,      \* sessions whose Android camera has not answered yet
    used        \* history: codes put into a form, with the start that read
                \* them, 0 for another source

scannerVars == <<device, session, start, live, photo, asked, used>>

\* generation: the start that has the generation of the session, 0 when the
\* video was stopped since.
Session == [closed |-> FALSE, generation |-> 0, stream |-> Nothing, found |-> Nothing, pending |-> FALSE]

ScannerInit ==
    /\ device \in Devices
    /\ session = << >> /\ start = << >> /\ live = {} /\ photo = {} /\ asked = {}
    /\ used = {}

------------------------------------------------------------------------------
(* Sessions: the operators give the new sessions and the streams left on. *)

Last == Len(session)
IsOpen(n) == n \in 1..Last /\ ~session[n].closed
Now(all, on) == session' = all /\ live' = on

Closed(all, n) == [all EXCEPT ![n].closed = TRUE]
Off(n) == live \ {session[n].stream}

Stopped(n) == [session EXCEPT ![n].generation = 0, ![n].stream = Nothing]

OpenScanner ==
    /\ Last < device.sessions
    /\ IF IsOpen(Last) THEN Now(Append(Closed(session, Last), Session), Off(Last))
       ELSE Now(Append(session, Session), live)
    /\ UNCHANGED <<device, start, photo, asked, used>>

CloseScanner(n) ==
    /\ IsOpen(n)
    /\ Now(Closed(session, n), Off(n))
    /\ UNCHANGED <<device, start, photo, asked, used>>

\* accept: nothing in a closed session; the camera is stopped, and a code that
\* fits closes the session, any other leaves it open with a message.
Accept(n, code, from) ==
    IF session[n].closed THEN UNCHANGED <<session, live, used>>
    ELSE /\ Now(IF code \in Fitting THEN Closed(Stopped(n), n) ELSE Stopped(n), Off(n))
         /\ used' = IF code \in Fitting THEN used \cup {[by |-> n, code |-> code, from |-> from]} ELSE used

\* useDetected and confirmDetected: a printed code waits for the user.
UseDetected(n, code, from) ==
    IF code \in Printed
    THEN /\ Now([Stopped(n) EXCEPT ![n].found = [code |-> code, from |-> from]], Off(n))
         /\ UNCHANGED used
    ELSE Accept(n, code, from)

UseFound(n) ==
    /\ IsOpen(n) /\ session[n].found # Nothing
    /\ Accept(n, session[n].found.code, session[n].found.from)
    /\ UNCHANGED <<device, start, photo, asked>>

Manual(n) ==
    /\ IsOpen(n)
    /\ \E code \in device.codes : Accept(n, code, 0)
    /\ UNCHANGED <<device, start, photo, asked>>

\* The button stops a camera that is on; so does a page that is hidden, unless
\* it waits for the camera of Android.
StopVideo(n) ==
    /\ IsOpen(n) /\ session[n].stream # Nothing
    /\ Now(Stopped(n), Off(n))
    /\ UNCHANGED <<device, start, photo, asked, used>>

ChoosePhoto(n) ==
    /\ IsOpen(n) /\ n \notin photo
    /\ Now(Stopped(n), Off(n))
    /\ photo' = photo \cup {n}
    /\ UNCHANGED <<device, start, asked, used>>

\* The picture is read after an await; there may be no code in it.
ReadPhoto(n) ==
    /\ n \in photo
    /\ photo' = photo \ {n}
    /\ \/ UNCHANGED <<session, live, used>>
       \/ ~session[n].closed /\ \E code \in device.codes : UseDetected(n, code, 0)
    /\ UNCHANGED <<device, start, asked>>

------------------------------------------------------------------------------
(* start: the camera of the browser *)

Step(k, step) == start' = [start EXCEPT ![k].step = step]

StartCamera(n) ==
    /\ ~device.native /\ IsOpen(n) /\ Len(start) < device.starts
    /\ Now([Stopped(n) EXCEPT ![n].found = Nothing, ![n].generation = Len(start) + 1], Off(n))
    /\ start' = Append(start, [session |-> n, step |-> "asked",
                               last |-> Nothing, repeats |-> 0, recent |-> FALSE, reads |-> << >>])
    /\ UNCHANGED <<device, photo, asked, used>>

Current(k) ==
    LET s == session[start[k].session]
    IN ~s.closed /\ s.generation = k

\* Mutant: only a closed session gives the stream back.
GrantedLate(k) ==
    /\ start[k].step = "asked"
    /\ IF ~session[start[k].session].closed
       THEN Now([session EXCEPT ![start[k].session].stream = k], live \cup {k}) /\ Step(k, "play")
       ELSE Step(k, "done") /\ UNCHANGED <<session, live>>
    /\ UNCHANGED <<device, photo, asked, used>>

\* getUserMedia answers: a stream nobody waits for any more is stopped.
Granted(k) ==
    /\ start[k].step = "asked"
    /\ IF Current(k)
       THEN Now([session EXCEPT ![start[k].session].stream = k], live \cup {k}) /\ Step(k, "play")
       ELSE Step(k, "done") /\ UNCHANGED <<session, live>>
    /\ UNCHANGED <<device, photo, asked, used>>

\* The catch of start: it stops the camera of the session, whoever started it.
StartFails(k) ==
    /\ start[k].step \in {"asked", "play"}
    /\ Step(k, "done")
    /\ LET n == start[k].session
       IN IF session[n].closed THEN UNCHANGED <<session, live>> ELSE Now(Stopped(n), Off(n))
    /\ UNCHANGED <<device, photo, asked, used>>

\* After play the awaits of optimiseTrack and of the list of cameras look at
\* nothing: the first tick does.
Playing(k) ==
    /\ start[k].step = "play"
    /\ Step(k, IF Current(k) THEN "tick" ELSE "done")
    /\ UNCHANGED <<device, session, live, photo, asked, used>>

Tick(k) ==
    /\ start[k].step = "tick"
    /\ Step(k, IF Current(k) /\ session[start[k].session].stream # Nothing THEN "detect" ELSE "done")
    /\ UNCHANGED <<device, session, live, photo, asked, used>>

\* Mutant: how long ago the code was read does not matter.
CountReadAnyTime(r, code) ==
    [r EXCEPT !.last = code, !.recent = TRUE,
              !.repeats = IF code = r.last THEN @ + 1 ELSE 1,
              !.reads = LET all == Append(@, [code |-> code, recent |-> r.recent])
                        IN SubSeq(all, Max({1, Len(all) - 2}), Len(all))]

\* A frame is read after an await.  A code counts again when it is the one read
\* before, less than 2500 ms ago; frames without a code do not count.
CountRead(r, code) ==
    [r EXCEPT !.last = code, !.recent = TRUE,
              !.repeats = IF code = r.last /\ r.recent THEN @ + 1 ELSE 1,
              !.reads = LET all == Append(@, [code |-> code, recent |-> r.recent])
                        IN SubSeq(all, Max({1, Len(all) - 2}), Len(all))]

AfterFrame(k, r) == IF r.repeats >= 3 \/ ~Current(k) THEN "done" ELSE "tick"

Detected(k) ==
    /\ start[k].step = "detect"
    /\ \/ /\ Step(k, AfterFrame(k, [repeats |-> 0]))
          /\ UNCHANGED <<session, live, used>>
       \/ \E code \in device.codes :
            LET r == CountRead(start[k], code)
            IN /\ start' = [start EXCEPT ![k] = [r EXCEPT !.step = AfterFrame(k, r)]]
               /\ IF r.repeats >= 3 THEN UseDetected(r.session, code, k) ELSE UNCHANGED <<session, live, used>>
    /\ UNCHANGED <<device, photo, asked>>

------------------------------------------------------------------------------
(* start: the camera of Android, an activity of its own that answers whichever *)
(* session is open then.                                                       *)

StartNative(n) ==
    /\ device.native /\ IsOpen(n) /\ ~session[n].pending /\ n \notin asked
    /\ session' = [session EXCEPT ![n].pending = TRUE, ![n].found = Nothing]
    /\ asked' = asked \cup {n}
    /\ UNCHANGED <<device, start, live, photo, used>>

NativeDelivered(m) ==
    /\ m \in asked /\ asked' = asked \ {m}
    /\ IF ~IsOpen(Last) THEN UNCHANGED <<session, live, used>>
       ELSE \E code \in device.codes :
              /\ session' = [Stopped(Last) EXCEPT ![Last].pending = FALSE, ![Last].closed = code \in Fitting]
              /\ live' = Off(Last)
              /\ used' = IF code \in Fitting THEN used \cup {[by |-> Last, code |-> code, from |-> 0]} ELSE used
    /\ UNCHANGED <<device, start, photo>>

NativeEnds(m) ==
    /\ m \in asked /\ asked' = asked \ {m}
    /\ \E closed \in BOOLEAN :
          session' = IF IsOpen(Last) THEN [session EXCEPT ![Last].pending = FALSE, ![Last].closed = closed]
                     ELSE session
    /\ live' = IF IsOpen(Last) THEN Off(Last) ELSE live
    /\ UNCHANGED <<device, start, photo, used>>

\* 2500 ms pass between two frames.
TimePasses ==
    /\ \E k \in DOMAIN start : start[k].recent /\ start' = [start EXCEPT ![k].recent = FALSE]
    /\ UNCHANGED <<device, session, live, photo, asked, used>>

ScannerNext ==
    \/ OpenScanner \/ TimePasses
    \/ \E n \in DOMAIN session :
        \/ CloseScanner(n) \/ UseFound(n) \/ Manual(n) \/ StopVideo(n) \/ ChoosePhoto(n) \/ ReadPhoto(n)
        \/ StartCamera(n) \/ StartNative(n) \/ NativeDelivered(n) \/ NativeEnds(n)
    \/ \E k \in DOMAIN start : Granted(k) \/ StartFails(k) \/ Playing(k) \/ Tick(k) \/ Detected(k)

ScannerSpec == ScannerInit /\ [][ScannerNext]_scannerVars

------------------------------------------------------------------------------
(* Properties *)

\* A camera is on only for the session that is open, whatever was closed,
\* stopped, switched or refused while start was waiting.
CameraHasOwner ==
    \A k \in live : LET n == start[k].session IN IsOpen(n) /\ session[n].stream = k

\* A session puts one code into its form at most, and one that came from the
\* camera was what the last three readable frames of one start showed.
CodeIsSure ==
    /\ \A u, v \in used : u.by = v.by => u = v
    /\ \A u \in used : u.from \in DOMAIN start =>
          LET r == start[u.from].reads
          IN /\ start[u.from].session = u.by
             /\ Len(r) = 3 /\ \A i \in 1..3 : r[i].code = u.code
             /\ r[2].recent /\ r[3].recent
=============================================================================
