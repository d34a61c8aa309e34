-------------------------- MODULE ValidatorService --------------------------
(****************************************************************************)
(* internal/service/validator.go: Validate, alone or in the loop of        *)
(* ValidateBatch, leaves writing to goroutines that it counts in a         *)
(* WaitGroup and answers without them; Shutdown waits for the WaitGroup.   *)
(*                                                                          *)
(* A request is known by the number of its arrival, a location and a       *)
(* cached point by the request they were taken from.  The methods of cache *)
(* and storage used here are not those of the repository: each is one      *)
(* command that may fail.  Who calls Shutdown, and when, is not in the     *)
(* repository either, so the model lets it be called at any time.          *)
(****************************************************************************)
EXTENDS Integers, Sequences, FiniteSets

CONSTANTS
    Sessions,     \* calls of Validate and ValidateBatch
    Streams,      \* those of ValidateBatch
    Devices,
    Points,       \* access points, Bluetooth devices and cells
    Beacons,      \* those of them that are Bluetooth devices
    Known,        \* the points that were cached before
    Requests,     \* what may arrive: [device, place, time, points]
    Clock,        \* what time.Now() may say
    MaxTimeDiff,
    MaxSpeed,     \* cfg.MaxSpeedKmH, in places per 0.001 hours
    Weight,       \* what a known point adds to the confidence, in percent
    MaxRequests,  \* bound: requests in the whole behaviour
    MaxFailures,  \* bound: commands and Sends that fail in it
    Absent,       \* a point that is not cached
    Before,       \* the entry of a point that was cached before
    NoPoint,      \* a goroutine that is about no point
    Free          \* cacheMu is not locked

ASSUME ServiceAssumption ==
    /\ Streams \subseteq Sessions /\ Free \notin Sessions
    /\ Known \subseteq Points /\ Beacons \subseteq Points /\ NoPoint \notin Points
    /\ Requests \subseteq [device : Devices, place : Int, time : Int, points : Seq(Points)]
    /\ Clock \subseteq Int /\ MaxTimeDiff \in Nat /\ MaxSpeed \in Nat
    /\ Weight \in [Points -> Nat]
    /\ MaxRequests \in Nat /\ MaxFailures \in Nat
    /\ Absent # Before /\ Absent \notin Nat /\ Before \notin Nat

VARIABLES
    asked,       \* the requests, as they arrived
    pc,          \* where each session is
    number,      \* the number of its request
    index,       \* the point its loop is at
    verdict,     \* result
    confidence,  \* in percent
    mu,          \* who has locked cacheMu
    cache,       \* the cached points
    location,    \* the last known location of each device
    rows,        \* the history in the storage
    tasks,       \* the goroutines that Validate started
    wg,          \* the counter of s.wg
    waiter,      \* the goroutine of Shutdown
    shutdown,    \* Shutdown itself
    failures,    \* what failed so far
    crashed,     \* sync: WaitGroup is reused before previous Wait has returned
    \* History, which nothing in the code reads:
    decided,     \* what Validate found
    answered,    \* what the clients were told
    unsaved,     \* the requests whose history could not be saved
    blinded,     \* the known points that a request recorded as its read of them failed
    handled      \* the requests that were done with when Shutdown was called

handlers == <<asked, pc, number, index, verdict, confidence, mu>>
stores   == <<cache, location, rows, unsaved>>
group    == <<tasks, wg, waiter, crashed>>
closing  == <<shutdown, handled>>
seen     == <<decided, answered, blinded>>
vars     == <<handlers, stores, group, closing, failures, seen>>

Places == {"recv", "lock", "locate", "points", "history", "location", "send", "ended"}
Busy(s) == pc[s] \notin {"recv", "ended"}
Req(s) == asked[number[s]]

Fail == failures < MaxFailures /\ failures' = failures + 1

Init ==
    /\ asked = <<>>
    /\ pc = [s \in Sessions |-> "recv"]
    /\ number = [s \in Sessions |-> 0]
    /\ index = [s \in Sessions |-> 1]
    /\ verdict = [s \in Sessions |-> "VALID"]
    /\ confidence = [s \in Sessions |-> 100]
    /\ mu = Free
    /\ cache = [p \in Points |-> IF p \in Known THEN Before ELSE Absent]
    /\ location = [d \in Devices |-> 0]
    /\ rows = {} /\ unsaved = {}
    /\ tasks = {} /\ wg = 0 /\ waiter = "none" /\ crashed = FALSE /\ failures = 0
    /\ shutdown = "no" /\ handled = {}
    /\ decided = {} /\ answered = {} /\ blinded = {}

-----------------------------------------------------------------------------
(* The wait group                                                          *)

Task(kind, s, point, slot) ==
    [kind |-> kind, by |-> number[s], verdict |-> verdict[s], point |-> point, slot |-> slot]

\* Mutated: s.wg.Add(1) is missing.
GoUncounted(task) ==
    /\ tasks' = tasks \cup {task}
    /\ UNCHANGED wg

\* s.wg.Add(1); go func() { defer s.wg.Done() ... }
Go(task) ==
    /\ tasks' = tasks \cup {task}
    /\ wg' = wg + 1

\* Mutated: Done is called at the end and deferred as well.
DoneTwice(task) ==
    /\ tasks' = tasks \ {task}
    /\ wg' = wg - 2
    /\ waiter' = IF wg <= 2 /\ waiter = "waiting" THEN "woken" ELSE waiter
    /\ UNCHANGED crashed

\* The goroutine of a task is at its end.  The last one wakes up the waiter.
Done(task) ==
    /\ tasks' = tasks \ {task}
    /\ wg' = wg - 1
    /\ waiter' = IF wg = 1 /\ waiter = "waiting" THEN "woken" ELSE waiter
    /\ UNCHANGED crashed

-----------------------------------------------------------------------------
(* Validate and ValidateBatch                                              *)

Stale(r, now) == r.time > now \/ now - r.time > MaxTimeDiff

\* calculateSpeedKmH: no time, or time that runs backwards, is 0.001 hours.
TooFast(last, r) ==
    LET distance == IF last.place < r.place THEN r.place - last.place ELSE last.place - r.place
        hours    == IF r.time > last.time THEN r.time - last.time ELSE 1
    IN  distance > MaxSpeed * hours

\* A call of Validate, or a request that Recv returns.
Receive(s, r) ==
    /\ pc[s] = "recv" /\ Len(asked) < MaxRequests
    /\ asked' = Append(asked, r)
    /\ number' = [number EXCEPT ![s] = Len(asked) + 1]
    /\ pc' = [pc EXCEPT ![s] = IF s \in Streams THEN "lock" ELSE "locate"]
    /\ UNCHANGED <<index, verdict, confidence, mu, stores, group, closing, failures, seen>>

\* s.cacheMu.Lock() in ValidateBatch
Lock(s) ==
    /\ pc[s] = "lock" /\ mu = Free
    /\ mu' = s
    /\ pc' = [pc EXCEPT ![s] = "locate"]
    /\ UNCHANGED <<asked, number, index, verdict, confidence, stores, group, closing,
                   failures, seen>>

\* The time check, GetLastKnownLocation and the speed check.  A read that
\* fails passes for a device without a location.
Locate(s) ==
    /\ pc[s] = "locate"
    /\ \E now \in Clock, last \in {location[Req(s).device], 0} :
        /\ IF last = location[Req(s).device] THEN UNCHANGED failures ELSE Fail
        /\ LET refused == \/ Stale(Req(s), now)
                          \/ last # 0 /\ TooFast(asked[last], Req(s))
           IN  /\ verdict' = [verdict EXCEPT ![s] = IF refused THEN "INVALID" ELSE "VALID"]
               /\ pc' = [pc EXCEPT ![s] = IF refused \/ Req(s).points = <<>>
                                          THEN "history" ELSE "points"]
    /\ index' = [index EXCEPT ![s] = 1]
    /\ confidence' = [confidence EXCEPT ![s] = 100]
    /\ UNCHANGED <<asked, number, mu, stores, group, closing, seen>>

\* One point is done with.
NextPoint(s) ==
    /\ index' = [index EXCEPT ![s] = @ + 1]
    /\ pc' = [pc EXCEPT ![s] = IF index[s] = Len(Req(s).points) THEN "history" ELSE @]
    /\ UNCHANGED <<asked, number, verdict, mu, stores, waiter, crashed, closing,
                   decided, answered>>

\* Mutated: a point is recorded whether it is known or not.
ReadKnownRecording(s) ==
    /\ pc[s] = "points"
    /\ cache[Req(s).points[index[s]]] # Absent
    /\ confidence' = [confidence EXCEPT ![s] = @ + Weight[Req(s).points[index[s]]]]
    /\ Go(Task("record", s, Req(s).points[index[s]], index[s]))
    /\ NextPoint(s)
    /\ UNCHANGED <<failures, blinded>>

\* GetWifiPoint, GetBluetoothPoint or GetCellPoint returns an entry.
ReadKnown(s) ==
    /\ pc[s] = "points"
    /\ cache[Req(s).points[index[s]]] # Absent
    /\ confidence' = [confidence EXCEPT ![s] = @ + Weight[Req(s).points[index[s]]]]
    /\ NextPoint(s)
    /\ UNCHANGED <<tasks, wg, failures, blinded>>

\* It returns none, or an error, which is taken for none.  The access point
\* or cell is recorded at the place of the request; a Bluetooth device is not.
ReadUnknown(s) ==
    /\ pc[s] = "points"
    /\ LET p == Req(s).points[index[s]]
       IN  /\ IF cache[p] = Absent THEN UNCHANGED failures ELSE Fail
           /\ IF p \in Beacons THEN UNCHANGED <<tasks, wg, blinded>>
              ELSE /\ Go(Task("record", s, p, index[s]))
                   /\ blinded' = blinded \cup ({p} \cap Known)
    /\ NextPoint(s)
    /\ UNCHANGED confidence

\* The confidence is cut to 0..1 and may still change the result; then
\* saveToHistory is started.
Final(s) == IF verdict[s] = "VALID" /\ confidence[s] < 50 THEN "UNCERTAIN" ELSE verdict[s]

\* Mutated: only accepted requests are saved.
DecideAcceptedOnly(s) ==
    /\ pc[s] = "history"
    /\ verdict' = [verdict EXCEPT ![s] = Final(s)]
    /\ confidence' = [confidence EXCEPT ![s] = IF verdict[s] = "INVALID" THEN 0 ELSE 100]
    /\ decided' = decided \cup {[by |-> number[s], verdict |-> Final(s)]}
    /\ IF verdict[s] = "INVALID" THEN UNCHANGED <<tasks, wg>>
       ELSE Go(Task("history", s, NoPoint, 0))
    /\ pc' = [pc EXCEPT ![s] = "location"]
    /\ UNCHANGED <<asked, number, index, mu, stores, waiter, crashed, closing,
                   failures, answered, blinded>>

Decide(s) ==
    /\ pc[s] = "history"
    /\ verdict' = [verdict EXCEPT ![s] = Final(s)]
    /\ confidence' = [confidence EXCEPT ![s] =
                         IF verdict[s] = "INVALID" THEN 0 ELSE IF @ > 100 THEN 100 ELSE @]
    /\ decided' = decided \cup {[by |-> number[s], verdict |-> Final(s)]}
    /\ Go([Task("history", s, NoPoint, 0) EXCEPT !.verdict = Final(s)])
    /\ pc' = [pc EXCEPT ![s] = "location"]
    /\ UNCHANGED <<asked, number, index, mu, stores, waiter, crashed, closing,
                   failures, answered, blinded>>

\* Mutated: the location of a refused request is stored too.
MoveRefused(s) ==
    /\ pc[s] = "location"
    /\ Go(Task("location", s, NoPoint, 0))
    /\ mu' = IF s \in Streams THEN Free ELSE mu
    /\ pc' = [pc EXCEPT ![s] = "send"]
    /\ UNCHANGED <<asked, number, index, verdict, confidence, stores, waiter, crashed,
                   closing, failures, seen>>

\* SetLastKnownLocation is started unless the request is refused, and a stream
\* unlocks cacheMu.
Move(s) ==
    /\ pc[s] = "location"
    /\ IF verdict[s] = "INVALID" THEN UNCHANGED <<tasks, wg>>
       ELSE Go(Task("location", s, NoPoint, 0))
    /\ mu' = IF s \in Streams THEN Free ELSE mu
    /\ pc' = [pc EXCEPT ![s] = "send"]
    /\ UNCHANGED <<asked, number, index, verdict, confidence, stores, waiter, crashed,
                   closing, failures, seen>>

\* The response; a stream whose Send fails ends.
Send(s) ==
    /\ pc[s] = "send"
    /\ \/ /\ answered' = answered \cup {[by |-> number[s], verdict |-> verdict[s]]}
          /\ pc' = [pc EXCEPT ![s] = IF s \in Streams THEN "recv" ELSE "ended"]
          /\ UNCHANGED failures
       \/ /\ Fail
          /\ pc' = [pc EXCEPT ![s] = "ended"]
          /\ UNCHANGED answered
    /\ UNCHANGED <<asked, number, index, verdict, confidence, mu, stores, group, closing,
                   decided, blinded>>

\* The client sends no more.
End(s) ==
    /\ pc[s] = "recv"
    /\ pc' = [pc EXCEPT ![s] = "ended"]
    /\ UNCHANGED <<asked, number, index, verdict, confidence, mu, stores, group, closing,
                   failures, seen>>

Handle(s) == Locate(s) \/ ReadKnown(s) \/ ReadUnknown(s) \/ Decide(s) \/ Move(s) \/ Send(s)

-----------------------------------------------------------------------------
(* The goroutines                                                          *)

\* recordWifiPointFromEGTS or recordCellPointFromEGTS: the entry is written or
\* not.  UpdatePointStats follows, whose tables the model leaves out.
Record(t) ==
    /\ t.kind = "record"
    /\ \/ cache' = [cache EXCEPT ![t.point] = t.by] /\ UNCHANGED failures
       \/ Fail /\ UNCHANGED cache
    /\ Done(t)
    /\ UNCHANGED <<handlers, location, rows, unsaved, closing, seen>>

\* Mutated: Done is not deferred, and an error returns before it.
SaveToHistoryReturning(t) ==
    /\ t.kind = "history"
    /\ \/ /\ rows' = rows \cup {[by |-> t.by, verdict |-> t.verdict]}
          /\ UNCHANGED <<unsaved, failures>>
          /\ Done(t)
       \/ /\ Fail /\ unsaved' = unsaved \cup {t.by} /\ UNCHANGED rows
          /\ tasks' = tasks \ {t}
          /\ UNCHANGED <<wg, waiter, crashed>>
    /\ UNCHANGED <<handlers, cache, location, closing, seen>>

\* Mutated: after an error it ends, but starts a goroutine that tries again.
SaveToHistoryRetrying(t) ==
    /\ t.kind = "history"
    /\ \/ /\ rows' = rows \cup {[by |-> t.by, verdict |-> t.verdict]}
          /\ UNCHANGED <<unsaved, failures>>
          /\ Done(t)
       \/ /\ Fail
          /\ waiter' = IF wg = 1 /\ waiter = "waiting" THEN "woken" ELSE waiter
          /\ UNCHANGED <<rows, unsaved, tasks, wg, crashed>>
    /\ UNCHANGED <<handlers, cache, location, closing, seen>>

SaveToHistory(t) ==
    /\ t.kind = "history"
    /\ \/ rows' = rows \cup {[by |-> t.by, verdict |-> t.verdict]}
          /\ UNCHANGED <<unsaved, failures>>
       \/ Fail /\ unsaved' = unsaved \cup {t.by} /\ UNCHANGED rows
    /\ Done(t)
    /\ UNCHANGED <<handlers, cache, location, closing, seen>>

SetLastKnownLocation(t) ==
    /\ t.kind = "location"
    /\ \/ location' = [location EXCEPT ![asked[t.by].device] = t.by] /\ UNCHANGED failures
       \/ Fail /\ UNCHANGED location
    /\ Done(t)
    /\ UNCHANGED <<handlers, cache, rows, unsaved, closing, seen>>

Work(t) == Record(t) \/ SaveToHistory(t) \/ SetLastKnownLocation(t)

-----------------------------------------------------------------------------
(* Shutdown                                                                *)

Shutdown ==
    /\ shutdown = "no"
    /\ shutdown' = "select"
    /\ waiter' = "started"
    /\ handled' = DOMAIN asked \ {number[s] : s \in {x \in Sessions : Busy(x)}}
    /\ UNCHANGED <<handlers, stores, tasks, wg, crashed, failures, seen>>

\* s.wg.Wait(): it returns at once when the counter is zero.
Wait ==
    /\ waiter = "started"
    /\ waiter' = IF wg = 0 THEN "closed" ELSE "waiting"
    /\ UNCHANGED <<handlers, stores, tasks, wg, crashed, closing, failures, seen>>

\* Woken up, it panics when the counter has moved again, else close(done).
\* (Add may panic for the same reason a little earlier.)
Resume ==
    /\ waiter = "woken"
    /\ IF wg = 0 THEN waiter' = "closed" /\ UNCHANGED crashed
       ELSE crashed' = TRUE /\ UNCHANGED waiter
    /\ UNCHANGED <<handlers, stores, tasks, wg, closing, failures, seen>>

\* The select of Shutdown; its context may end at any time.
Return(outcome) ==
    /\ shutdown = "select"
    /\ outcome = "nil" => waiter = "closed"
    /\ shutdown' = outcome
    /\ UNCHANGED <<handlers, stores, group, handled, failures, seen>>

Halted ==
    /\ crashed \/ /\ tasks = {} /\ shutdown \in {"nil", "timeout"}
                  /\ \A s \in Sessions : pc[s] = "ended"
    /\ UNCHANGED vars

Next == \/ /\ ~crashed
           /\ \/ \E s \in Sessions : (\E r \in Requests : Receive(s, r))
                                     \/ Lock(s) \/ Handle(s) \/ End(s)
              \/ \E t \in tasks : Work(t)
              \/ Shutdown \/ Wait \/ Resume \/ Return("nil") \/ Return("timeout")
        \/ Halted

Spec == Init /\ [][Next]_vars

-----------------------------------------------------------------------------
(* Properties                                                              *)

Verdicts == {"VALID", "INVALID", "UNCERTAIN"}

TypeOK ==
    /\ asked \in Seq(Requests) /\ Len(asked) <= MaxRequests
    /\ pc \in [Sessions -> Places]
    /\ number \in [Sessions -> 0 .. Len(asked)]
    /\ index \in [Sessions -> Nat \ {0}]
    /\ verdict \in [Sessions -> Verdicts] /\ confidence \in [Sessions -> Nat]
    /\ mu \in Streams \cup {Free}
    /\ cache \in [Points -> Nat \cup {Absent, Before}]
    /\ location \in [Devices -> 0 .. Len(asked)]
    /\ \A t \in tasks : /\ t.kind \in {"record", "history", "location"}
                        /\ t.by \in 1 .. Len(asked)
    /\ wg \in Nat /\ failures \in 0 .. MaxFailures
    /\ waiter \in {"none", "started", "waiting", "woken", "closed"}
    /\ shutdown \in {"no", "select", "nil", "timeout"}
    /\ \A s \in Sessions : Busy(s) => number[s] # 0

\* When Shutdown returns nil, nothing is under way of the requests that were
\* done with before: no goroutine of theirs could use a store after its Close.
ShutdownWaits == shutdown = "nil" => \A t \in tasks : t.by \notin handled

\* Shutdown does not panic unless a request was in its handler when it was
\* called, or came later.
OrderlyShutdown == crashed => handled # DOMAIN asked

\* The goroutine of Shutdown is not left behind: while it sleeps there is a
\* goroutine still to wake it up.
WaiterIsWoken == waiter = "waiting" => tasks # {}

\* The history says of a request what its client was told, and only a failed
\* InsertCoordinate leaves a request out.
HistoryMatchesAnswers ==
    \A a \in answered :
        /\ \A row \in rows : row.by = a.by => row = a
        /\ \/ a \in rows
           \/ a.by \in unsaved
           \/ \E t \in tasks : t.kind = "history" /\ t.by = a.by /\ t.verdict = a.verdict

\* A point that was known is replaced only by a request whose read of it
\* failed, whatever other requests record at the same time.
KnownPointsAreKept == \A p \in Known \ blinded : cache[p] = Before

\* Validate never finds UNCERTAIN: the confidence starts at its maximum, so no
\* point changes a verdict.
NeverUncertain == \A a \in decided : a.verdict # "UNCERTAIN"

\* The last known locations are a DeviceTrack.
LocationsOf(d, ns) == {n \in ns : asked[n].device = d}
Accepted == {a.by : a \in {x \in decided : x.verdict # "INVALID"}}

Track == INSTANCE DeviceTrack WITH
            Requests <- 1 .. MaxRequests,
            current  <- location,
            coming   <- [d \in Devices |-> LocationsOf(d, {n \in Accepted :
                            \/ \E t \in tasks : t.kind = "location" /\ t.by = n
                            \/ \E s \in Sessions : pc[s] = "location" /\ number[s] = n})],
            accepted <- [d \in Devices |-> LocationsOf(d, Accepted)]

ImplementsDeviceTrack == Track!Spec
=============================================================================
