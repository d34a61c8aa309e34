--------------------------- MODULE ValidationCore ---------------------------
(****************************************************************************)
(* internal/core/validation.go behind the Validate and ValidateBatch       *)
(* handlers of cmd/refinement-api/main.go: sessions that validate requests *)
(* concurrently, each against the last position of its device in Redis.    *)
(*                                                                          *)
(* Validate only reads the position and UpdateDevicePosition only writes   *)
(* it, so between the two commands of one request other requests of the    *)
(* device come and go.  Either command may fail, or the client may cancel  *)
(* the context they run under, which fails them too.                       *)
(****************************************************************************)
EXTENDS Scoring

CONSTANTS
    Sessions,     \* Validate and ValidateBatch calls
    Streams,      \* those that are ValidateBatch calls
    Devices,
    Requests,     \* the requests that are sent: [device, place, timestamp]
    Sources,      \* what the points of a request are worth: [Groups -> Nat]
    MaxRequests,  \* bound: the requests of all sessions
    Clock,        \* the seconds of time.Now().Unix(), while requests arrive
    MaxTimeDiff,  \* ValidationConfig.MaxTimeDiff, in ticks
    MaxSpeed,     \* ValidationConfig.MaxSpeedKmH, in places a tick
    Second,       \* time.Second, in ticks
    Word,         \* int64 counts modulo 2 * Word
    NoRequest, NoPosition, NoReply

ASSUME RequestsAssumption ==
    /\ Requests \subseteq [device : Devices, place : Int, timestamp : -Word .. Word - 1]
    /\ NoRequest \notin Requests
    /\ NoPosition \notin [place : Int, timestamp : -Word .. Word - 1]
    /\ Sources \subseteq [Groups -> 0 .. MaxConfidence]
    /\ MaxRequests \in Nat
    /\ Streams \subseteq Sessions

ASSUME TimeAssumption ==
    /\ Clock \subseteq 0 .. Word - 1
    /\ MaxTimeDiff \in Nat /\ MaxSpeed \in Nat
    /\ Second \in Nat \ {0} /\ Word \in Nat \ {0}

-----------------------------------------------------------------------------
(* Time arithmetic                                                         *)

\* int64 arithmetic wraps around.
Wrap(n) == ((n + Word) % (2 * Word)) - Word

\* time.Duration(later-earlier) * time.Second
Elapsed(earlier, later) == Wrap(Wrap(later - earlier) * Second)

\* HaversineDistance, on a line.
Distance(a, b) == IF a < b THEN b - a ELSE a - b

\* Mutated: a request as old as the clock can tell is accepted.
FreshForEver(timestamp, now) == timestamp <= now

\* validateTime
Fresh(timestamp, now) == timestamp <= now /\ Elapsed(timestamp, now) <= MaxTimeDiff

\* validateSpeed, when the position was read
SpeedValid(last, r) ==
    \/ last = NoPosition
    \/ LET timeDiff == Elapsed(last.timestamp, r.timestamp)
       IN  \/ timeDiff <= 0
           \/ Distance(last.place, r.place) <= MaxSpeed * timeDiff

-----------------------------------------------------------------------------
(* State                                                                   *)

VARIABLES
    now,        \* time.Now().Unix()
    positions,  \* the device:<id> keys of Redis
    pc,         \* what a session does next
    req,        \* the request it is working on
    speedOK,    \* speedCheck.valid
    verdict,    \* resp.Result
    reply,      \* what the handler returned or sent for its last request
    sent,       \* how many requests have arrived
    \* History, which nothing in the code reads:
    recent,     \* the requests done with that may be the last of a device
    seen        \* of a session: what it met since its request arrived

code == <<now, positions, pc, req, speedOK, verdict, reply, sent>>
vars == <<code, recent, seen>>

\* A stream is "broken" when Send failed under it.
Steps == {"recv", "position", "sources", "update", "send", "ended", "broken"}
Busy(s) == pc[s] \in {"position", "sources", "update", "send"}

\* Mutated: the position is as of now, not of when the device was there.
PositionNow(r) == [place |-> r.place, timestamp |-> now]

\* The model.DevicePosition that is stored
Position(r) == [place |-> r.place, timestamp |-> r.timestamp]

Rivals(s, d) == {t \in Sessions \ {s} : Busy(t) /\ req[t].device = d}

\* number: of the request; at: when it arrived; before: recent, then; alone: no
\* other request of the device was under way; heard: its position was read;
\* stored: its position was written.
Nothing == [number |-> 0, at |-> 0, before |-> {}, alone |-> TRUE,
            heard |-> FALSE, stored |-> FALSE]

Init ==
    /\ now \in Clock
    /\ positions = [d \in Devices |-> NoPosition]
    /\ pc = [s \in Sessions |-> "recv"]
    /\ req = [s \in Sessions |-> NoRequest]
    /\ speedOK = [s \in Sessions |-> TRUE]
    /\ verdict = [s \in Sessions |-> "INVALID"]
    /\ reply = [s \in Sessions |-> NoReply]
    /\ sent = 0
    /\ recent = [d \in Devices |-> {}]
    /\ seen = [s \in Sessions |-> Nothing]

-----------------------------------------------------------------------------
(* Actions                                                                 *)

Tick == /\ now + 1 \in Clock
        /\ now' = now + 1
        /\ UNCHANGED <<positions, pc, req, speedOK, verdict, reply, sent, recent, seen>>

\* Recv of a stream or the call itself: a request arrives, its points are
\* converted and validateTime looks at the clock.  A request that it refuses
\* has its verdict, but its position is stored all the same.
Receive(s, r) ==
    /\ pc[s] = "recv" /\ sent < MaxRequests
    /\ pc' = [pc EXCEPT ![s] = IF Fresh(r.timestamp, now) THEN "position" ELSE "update"]
    /\ req' = [req EXCEPT ![s] = r]
    /\ reply' = [reply EXCEPT ![s] = NoReply]
    /\ sent' = sent + 1
    /\ seen' = [t \in Sessions |->
                  IF t = s THEN [number |-> sent', at |-> now, before |-> recent[r.device],
                                 alone |-> Rivals(s, r.device) = {},
                                 heard |-> FALSE, stored |-> FALSE]
                  ELSE [seen[t] EXCEPT !.alone = @ /\ t \notin Rivals(s, r.device)]]
    /\ UNCHANGED <<now, positions, speedOK, verdict, recent>>

\* GetDevicePosition answers, and the rest of validateSpeed.
ReadPosition(s) ==
    /\ pc[s] = "position"
    /\ speedOK' = [speedOK EXCEPT ![s] = SpeedValid(positions[req[s].device], req[s])]
    /\ pc' = [pc EXCEPT ![s] = "sources"]
    /\ seen' = [seen EXCEPT ![s].heard = TRUE]
    /\ UNCHANGED <<now, positions, req, verdict, reply, sent, recent>>

\* Mutated: Validate returns the error, and the handler gives up.
ReadFailsUnanswered(s) ==
    /\ pc[s] = "position"
    /\ pc' = [pc EXCEPT ![s] = "ended"]
    /\ UNCHANGED <<now, positions, req, speedOK, verdict, reply, sent, recent, seen>>

\* The error of GetDevicePosition makes the request INVALID.
ReadFails(s) ==
    /\ pc[s] = "position"
    /\ pc' = [pc EXCEPT ![s] = "update"]
    /\ UNCHANGED <<now, positions, req, speedOK, verdict, reply, sent, recent, seen>>

\* triangulate and determineResult.  The points are read one by one, and one
\* whose read fails is skipped, so any of the Sources may come of it.
Judge(s) ==
    /\ pc[s] = "sources"
    /\ \E conf \in Sources :
           \E result \in DetermineResult(AfterSpeed(Triangulate(conf), speedOK[s])) :
               verdict' = [verdict EXCEPT ![s] = result]
    /\ pc' = [pc EXCEPT ![s] = "update"]
    /\ UNCHANGED <<now, positions, req, speedOK, reply, sent, recent, seen>>

\* Mutated: a refused request does not move its device.
UpdateUnlessRefused(s) ==
    /\ pc[s] = "update"
    /\ \/ /\ IF verdict[s] = "INVALID" THEN UNCHANGED positions
             ELSE positions' = [positions EXCEPT ![req[s].device] = Position(req[s])]
          /\ seen' = [seen EXCEPT ![s].stored = TRUE]
       \/ UNCHANGED <<positions, seen>>
    /\ pc' = [pc EXCEPT ![s] = "send"]
    /\ UNCHANGED <<now, req, speedOK, verdict, reply, sent, recent>>

\* UpdateDevicePosition, whatever the verdict.  The handlers drop its error.
UpdateDevicePosition(s) ==
    /\ pc[s] = "update"
    /\ \/ /\ positions' = [positions EXCEPT ![req[s].device] = Position(req[s])]
          /\ seen' = [seen EXCEPT ![s].stored = TRUE]
       \/ UNCHANGED <<positions, seen>>
    /\ pc' = [pc EXCEPT ![s] = "send"]
    /\ UNCHANGED <<now, req, speedOK, verdict, reply, sent, recent>>

\* convertValidationResult is a placeholder.
ConvertValidationResult(result) == "VALID"

\* The requests done with before the request of s came are not the last.
LastAfter(s) == {r \in recent[req[s].device] : r \notin seen[s].before}
                \cup {[number |-> seen[s].number, request |-> req[s]]}

Response(s) == [result |-> ConvertValidationResult(verdict[s]),
                fresh |-> Fresh(req[s].timestamp, seen[s].at)]

\* What was local to the request is gone.
Forget(s) ==
    /\ recent' = IF seen[s].stored THEN [recent EXCEPT ![req[s].device] = LastAfter(s)]
                 ELSE recent
    /\ req' = [req EXCEPT ![s] = NoRequest]
    /\ speedOK' = [speedOK EXCEPT ![s] = TRUE]
    /\ verdict' = [verdict EXCEPT ![s] = "INVALID"]
    /\ seen' = [seen EXCEPT ![s] = Nothing]

\* Validate returns the response.
Return(s) ==
    /\ pc[s] = "send" /\ s \notin Streams
    /\ reply' = [reply EXCEPT ![s] = Response(s)]
    /\ pc' = [pc EXCEPT ![s] = "ended"]
    /\ Forget(s)
    /\ UNCHANGED <<now, positions, sent>>

\* ValidateBatch sends it and goes on; where Send fails, the client gets no
\* response and the handler returns, with the position stored all the same.
Send(s) ==
    /\ pc[s] = "send" /\ s \in Streams
    /\ \/ /\ reply' = [reply EXCEPT ![s] = Response(s)]
          /\ pc' = [pc EXCEPT ![s] = "recv"]
       \/ /\ pc' = [pc EXCEPT ![s] = "broken"]
          /\ UNCHANGED reply
    /\ Forget(s)
    /\ UNCHANGED <<now, positions, sent>>

\* The client calls no more: Recv of a stream fails.
End(s) ==
    /\ pc[s] = "recv"
    /\ pc' = [pc EXCEPT ![s] = "ended"]
    /\ UNCHANGED <<now, positions, req, speedOK, verdict, reply, sent, recent, seen>>

Handle(s) == ReadPosition(s) \/ ReadFails(s) \/ Judge(s)
             \/ UpdateDevicePosition(s) \/ Return(s) \/ Send(s)

AllEnded == (\A s \in Sessions : pc[s] \in {"ended", "broken"}) /\ UNCHANGED vars

Next == \/ Tick
        \/ \E s \in Sessions : (\E r \in Requests : Receive(s, r)) \/ Handle(s) \/ End(s)
        \/ AllEnded

Spec == Init /\ [][Next]_vars

\* Every Redis command returns, if only by its timeout, and a handler goes on.
FairSpec == Spec /\ \A s \in Sessions : WF_vars(Handle(s))

-----------------------------------------------------------------------------
(* Properties                                                              *)

Positions == {[place |-> r.place, timestamp |-> r.timestamp] : r \in Requests}

\* The values the variables take: Redis holds no position that no request
\* reported, and a session has a request exactly while it works on one.
TypeOK ==
    /\ now \in Clock /\ sent \in 0 .. MaxRequests
    /\ positions \in [Devices -> Positions \cup {NoPosition}]
    /\ pc \in [Sessions -> Steps]
    /\ req \in [Sessions -> Requests \cup {NoRequest}]
    /\ speedOK \in [Sessions -> BOOLEAN]
    /\ verdict \in [Sessions -> {"VALID", "INVALID", "UNCERTAIN"}]
    /\ reply \in [Sessions -> [result : {"VALID"}, fresh : BOOLEAN] \cup {NoReply}]
    /\ recent \in [Devices -> SUBSET [number : 1 .. MaxRequests, request : Requests]]
    /\ seen \in [Sessions -> [number : 0 .. MaxRequests, at : Clock \cup {0},
                              before : SUBSET [number : 1 .. MaxRequests, request : Requests],
                              alone : BOOLEAN, heard : BOOLEAN, stored : BOOLEAN]]
    /\ \A s \in Sessions : Busy(s) <=> req[s] # NoRequest

\* A request that is not INVALID was neither in the future nor older than
\* MaxTimeDiff when it arrived, if its age fits in a time.Duration.
AcceptedAreFresh ==
    \A s \in Sessions :
        verdict[s] # "INVALID" =>
            LET age == seen[s].at - req[s].timestamp
            IN  age >= 0 /\ (age * Second < Word => age * Second <= MaxTimeDiff)

\* The real numbers behind validateSpeed.
TooFast(r, last) ==
    LET timeDiff == (r.timestamp - last.timestamp) * Second
    IN  timeDiff > 0 /\ Distance(last.place, r.place) > MaxSpeed * timeDiff

Comparable(r, last) == (r.timestamp - last.timestamp) * Second \in -Word .. Word - 1

\* A request that no other request of its device overlapped is judged by its
\* speed from the last request of the device that is done with, accepted or
\* refused, answered or not; where several overlapped, from one of them; and
\* not by that of another device.
SpeedIsJudged ==
    \A s \in Sessions :
        (pc[s] \in {"sources", "update", "send"} /\ seen[s].heard /\ seen[s].alone) =>
            IF seen[s].before = {} THEN speedOK[s]
            ELSE \E last \in seen[s].before :
                     Comparable(req[s], last.request)
                         => (speedOK[s] = ~TooFast(req[s], last.request))

\* However well its points are known, a request that is too fast from every
\* request that may be the last is not VALID.  That is all the code does about
\* it: it halves the score (see ImpossibleSpeedIsInvalid).
ImpossibleSpeedIsNotValid ==
    \A s \in Sessions :
        (/\ pc[s] \in {"update", "send"} /\ seen[s].alone
         /\ seen[s].before # {}
         /\ \A last \in seen[s].before :
                Comparable(req[s], last.request) /\ TooFast(req[s], last.request))
            => verdict[s] # "VALID"

\* docs/testing-checklist.md:79: "Invalid speed returns INVALID" (and :40,
\* "impossible speed (>150km/h) -> INVALID"), for a request whose device was
\* nowhere else in the meantime.
ImpossibleSpeedIsInvalid ==
    \A s \in Sessions :
        (/\ pc[s] = "send" /\ seen[s].heard /\ seen[s].alone
         /\ seen[s].before # {}
         /\ \A last \in seen[s].before :
                Comparable(req[s], last.request) /\ TooFast(req[s], last.request))
            => verdict[s] = "INVALID"

\* Every request that arrives is answered, unless its own stream breaks when
\* the answer is sent: a failure of Redis, at any command, is a verdict and
\* never an error that ends the stream.
RequestsAreAnswered ==
    \A s \in Sessions : Busy(s) ~> reply[s] # NoReply \/ pc[s] = "broken"
=============================================================================
