------------------------ MODULE ValidationCoreProofs ------------------------
(****************************************************************************)
(* The safety properties of ValidationCore, for any number of sessions,    *)
(* any requests and sources, and any width of the integers.                *)
(****************************************************************************)
EXTENDS ValidationCore, TLAPS

-----------------------------------------------------------------------------
(* Scores and verdicts, whatever the confidences                           *)

\* The thresholds, as numbers: what is expanded here is cited below.
LEMMA Numbers ==
  /\ MaxConfidence \in Nat /\ BaseConfidence \in Nat /\ High \in Nat
  /\ BaseConfidence <= MaxConfidence
BY SMT DEF MaxConfidence, BaseConfidence, High

\* Half of a score of at most the maximal confidence is below the threshold.
LEMMA HalfIsBelowHigh ==
  ASSUME NEW num \in Nat, NEW den \in Nat \ {0}, num <= MaxConfidence * den
  PROVE  num < High * (den * 2)
BY SMT DEF MaxConfidence, High

\* The weights of any groups that know a point are positive, and the weighted
\* confidences are at most as many times the maximum.
THEOREM ScoreBounded ==
  ASSUME NEW conf \in [Groups -> 0 .. MaxConfidence]
  PROVE  \E num \in Nat, den \in Nat \ {0} :
             /\ Triangulate(conf) = [num |-> num, den |-> den]
             /\ num <= MaxConfidence * den
<1>1. /\ MaxConfidence \in Nat /\ BaseConfidence \in Nat
      /\ BaseConfidence <= MaxConfidence
  BY Numbers
<1>2. conf.wifi \in 0 .. MaxConfidence /\ conf.cell \in 0 .. MaxConfidence
      /\ conf.bt \in 0 .. MaxConfidence
  BY DEF Groups
<1>3. CASE \A g \in Groups : conf[g] = 0
  <2>1. Triangulate(conf) = [num |-> BaseConfidence, den |-> 1]
    BY <1>3 DEF Triangulate
  <2>2. BaseConfidence <= MaxConfidence * 1
    BY <1>1
  <2>3. 1 \in Nat \ {0}
    OBVIOUS
  <2> QED
    BY <1>1, <2>1, <2>2, <2>3
<1>4. CASE \E g \in Groups : conf[g] # 0
  <2> DEFINE known == {g \in Groups : conf[g] > 0}
             num == conf.wifi * 40 + conf.cell * 35 + conf.bt * 25
             den == WeightOf(known)
  <2>1. /\ "wifi" \in known <=> conf.wifi > 0
        /\ "cell" \in known <=> conf.cell > 0
        /\ "bt" \in known <=> conf.bt > 0
    BY DEF Groups
  <2>2. Triangulate(conf) = [num |-> num, den |-> den]
    BY <1>4 DEF Triangulate, Weight
  <2>3. conf.wifi > 0 \/ conf.cell > 0 \/ conf.bt > 0
    BY <1>2, <1>4 DEF Groups
  <2> HIDE DEF known
  <2>4. den = (IF conf.wifi > 0 THEN 40 ELSE 0) + (IF conf.cell > 0 THEN 35 ELSE 0)
                            + (IF conf.bt > 0 THEN 25 ELSE 0)
    BY <2>1 DEF WeightOf, Weight
  <2>5. num \in Nat /\ den \in Nat \ {0} /\ num <= MaxConfidence * den
    <3> DEFINE w == IF conf.wifi > 0 THEN 40 ELSE 0
               c == IF conf.cell > 0 THEN 35 ELSE 0
               b == IF conf.bt > 0 THEN 25 ELSE 0
    <3>1. conf.wifi * 40 <= MaxConfidence * w
      BY <1>1, <1>2
    <3>2. conf.cell * 35 <= MaxConfidence * c
      BY <1>1, <1>2
    <3>3. conf.bt * 25 <= MaxConfidence * b
      BY <1>1, <1>2
    <3>4. num \in Nat /\ den \in Nat \ {0}
      BY <1>1, <1>2, <2>3, <2>4
    <3>5. den = w + c + b /\ w \in Nat /\ c \in Nat /\ b \in Nat
      BY <2>4
    <3> HIDE DEF w, c, b
    <3>6. MaxConfidence * (w + c + b) = MaxConfidence * w + MaxConfidence * c + MaxConfidence * b
      BY <1>1, <3>5
    <3>7. num <= MaxConfidence * w + MaxConfidence * c + MaxConfidence * b
      BY <1>1, <1>2, <3>1, <3>2, <3>3, <3>5
    <3> QED
      BY <3>4, <3>5, <3>6, <3>7
  <2> QED
    BY <2>2, <2>5
<1> QED
  BY <1>3, <1>4

\* A verdict is one of three.
LEMMA ResultTyped ==
  ASSUME NEW score
  PROVE  DetermineResult(score) \subseteq {"VALID", "INVALID", "UNCERTAIN"}
BY DEF DetermineResult

\* Half of the maximal confidence is below the threshold of VALID.
THEOREM HalvedIsNotValid ==
  ASSUME NEW conf \in [Groups -> 0 .. MaxConfidence]
  PROVE  "VALID" \notin DetermineResult(AfterSpeed(Triangulate(conf), FALSE))
<1>1. PICK num \in Nat, den \in Nat \ {0} :
          /\ Triangulate(conf) = [num |-> num, den |-> den]
          /\ num <= MaxConfidence * den
  BY ScoreBounded
<1>2. AfterSpeed(Triangulate(conf), FALSE) = [num |-> num, den |-> den * 2]
  BY <1>1 DEF AfterSpeed
<1>3. num < High * (den * 2)
  BY <1>1, HalfIsBelowHigh
<1>4. High \in Nat
  BY Numbers
<1>5. ~AtLeast([num |-> num, den |-> den * 2], High)
  BY <1>3, <1>4 DEF AtLeast
<1> QED
  BY <1>2, <1>5 DEF DetermineResult

USE RequestsAssumption, TimeAssumption

-----------------------------------------------------------------------------
(* Time and speed                                                          *)

\* An int64 that did not overflow is the number it stands for.
LEMMA WrapSmall ==
  ASSUME NEW n \in -Word .. Word - 1
  PROVE  Wrap(n) = n
BY DEF Wrap

\* A number of seconds whose ticks fit into an int64 fits into one itself.
LEMMA SecondsFit ==
  ASSUME NEW n \in Int, n * Second \in -Word .. Word - 1
  PROVE  n \in -Word .. Word - 1
<1>1. CASE n >= 0
  <2>1. n * Second >= n
    BY <1>1
  <2> QED
    BY <1>1, <2>1
<1>2. CASE n < 0
  <2>1. n * Second <= n
    BY <1>2
  <2> QED
    BY <1>2, <2>1
<1> QED
  BY <1>1, <1>2

\* A time.Duration in range is the number of ticks between its ends.
LEMMA ElapsedInRange ==
  ASSUME NEW a \in Int, NEW b \in Int, (b - a) * Second \in -Word .. Word - 1
  PROVE  Elapsed(a, b) = (b - a) * Second
<1>1. b - a \in -Word .. Word - 1
  BY SecondsFit
<1>2. Wrap(b - a) = b - a
  BY <1>1, WrapSmall
<1> QED
  BY <1>2, WrapSmall DEF Elapsed

\* Where the duration is in range, validateSpeed refuses what is too fast.
LEMMA SpeedValidIsExact ==
  ASSUME NEW r \in Requests, NEW last \in Requests, Comparable(r, last)
  PROVE  SpeedValid(Position(last), r) <=> ~TooFast(r, last)
<1>1. Position(last) # NoPosition
  BY DEF Position
<1>2. Elapsed(last.timestamp, r.timestamp) = (r.timestamp - last.timestamp) * Second
  BY ElapsedInRange DEF Comparable
<1> DEFINE d == (r.timestamp - last.timestamp) * Second
<1>3. d \in Int /\ MaxSpeed * d \in Int /\ Distance(last.place, r.place) \in Int
  BY DEF Distance
<1> HIDE DEF d
<1>4. SpeedValid(Position(last), r)
        <=> (d <= 0 \/ Distance(last.place, r.place) <= MaxSpeed * d)
  BY <1>1, <1>2 DEF SpeedValid, Position, d
<1>5. TooFast(r, last) <=> (d > 0 /\ Distance(last.place, r.place) > MaxSpeed * d)
  BY DEF TooFast, d
<1> QED
  BY <1>3, <1>4, <1>5

-----------------------------------------------------------------------------
(* The inductive invariant                                                 *)

\* What is so at each step of a session, whatever the others do.
LocalAt(s) ==
    /\ Busy(s) => seen[s].number \in 1 .. sent /\ seen[s].at \in Clock
    /\ pc[s] \in {"position", "sources"} =>
           /\ ~seen[s].stored /\ verdict[s] = "INVALID"
           /\ Fresh(req[s].timestamp, seen[s].at)
    /\ pc[s] \in {"recv", "ended", "broken"} => seen[s] = Nothing
    /\ pc[s] = "position" => ~seen[s].heard
    /\ pc[s] = "sources" => seen[s].heard
    /\ verdict[s] # "INVALID" => Busy(s) /\ Fresh(req[s].timestamp, seen[s].at)
    /\ pc[s] \in {"update", "send"} /\ verdict[s] = "VALID" => seen[s].heard /\ speedOK[s]

Local == \A s \in Sessions : LocalAt(s)

Mine(s) == [number |-> seen[s].number, request |-> req[s]]

\* A request that is done with, and its number.
Answers == [number : 1 .. MaxRequests, request : Requests]

\* The request a session works on is none of those that are done with.
Unanswered ==
    \A s \in Sessions : Busy(s) =>
        /\ \A d \in Devices : Mine(s) \notin recent[d]
        /\ \A t \in Sessions : Mine(s) \notin seen[t].before
        /\ \A t \in Sessions \ {s} : Busy(t) => seen[t].number # seen[s].number

\* No number is used before its request arrives.
Used ==
    /\ \A d \in Devices : \A r \in recent[d] : r.number \in 1 .. sent
    /\ \A s \in Sessions : \A r \in seen[s].before : r.number \in 1 .. sent

\* Nothing happened to a device since a request that is alone arrived.
Undisturbed ==
    \A s \in Sessions : Busy(s) /\ seen[s].alone =>
        /\ Rivals(s, req[s].device) = {}
        /\ recent[req[s].device] = seen[s].before

\* The sessions that stored the position of a device and are not done.
Storing(d) == {s \in Sessions : seen[s].stored /\ req[s].device = d}

\* The stored position is that of h, and no session that has stored one since
\* hides it when it is done.
Holds(d, h) ==
    /\ positions[d] = Position(h.request)
    /\ h \in recent[d] \cup {Mine(s) : s \in Storing(d)}
    /\ \A s \in Storing(d) : h \notin seen[s].before

\* The position of a device is that of a request that may be the last.
Held ==
    \A d \in Devices :
        \/ positions[d] = NoPosition /\ recent[d] = {} /\ Storing(d) = {}
        \/ \E h \in Answers : Holds(d, h)

Typed == TypeOK /\ Local

IInv == Typed /\ Unanswered /\ Used /\ Undisturbed /\ Held /\ SpeedIsJudged

-----------------------------------------------------------------------------
(* Types, and one session by itself                                        *)

Memory == [number : 0 .. MaxRequests, at : Clock \cup {0}, before : SUBSET Answers,
           alone : BOOLEAN, heard : BOOLEAN, stored : BOOLEAN]

\* A step of another session takes nothing from t but that t is alone.
Kept(t) ==
    /\ pc'[t] = pc[t] /\ req'[t] = req[t]
    /\ speedOK'[t] = speedOK[t] /\ verdict'[t] = verdict[t]
    /\ \/ seen'[t] = seen[t]
       \/ Busy(t) /\ seen'[t] = [seen[t] EXCEPT !.alone = FALSE]

\* What Return and Send have in common: the request of s is done with.
Leave(s) ==
    /\ pc[s] = "send"
    /\ \E next \in {"recv", "ended", "broken"} : pc' = [pc EXCEPT ![s] = next]
    /\ reply' = [reply EXCEPT ![s] = Response(s)] \/ UNCHANGED reply
    /\ recent' = IF seen[s].stored THEN [recent EXCEPT ![req[s].device] = LastAfter(s)]
                 ELSE recent
    /\ req' = [req EXCEPT ![s] = NoRequest]
    /\ speedOK' = [speedOK EXCEPT ![s] = TRUE]
    /\ verdict' = [verdict EXCEPT ![s] = "INVALID"]
    /\ seen' = [seen EXCEPT ![s] = Nothing]
    /\ UNCHANGED <<now, positions, sent>>

\* The steps of the handler of s.
HandleStep(s) == ReadPosition(s) \/ ReadFails(s) \/ Judge(s)
                 \/ UpdateDevicePosition(s) \/ Leave(s)

LEMMA HandlerSteps ==
  ASSUME NEW s \in Sessions, Handle(s)
  PROVE  HandleStep(s)
<1>1. CASE Return(s)
  BY <1>1 DEF Return, Forget, Leave, HandleStep
<1>2. CASE Send(s)
  BY <1>2 DEF Send, Forget, Leave, HandleStep
<1> QED
  BY <1>1, <1>2 DEF Handle, HandleStep

\* A step of the specification, by what it does to a session.
LEMMA NextSteps ==
  ASSUME [Next]_vars
  PROVE  \/ Tick \/ UNCHANGED vars \/ AllEnded
         \/ \E s \in Sessions : (\E r \in Requests : Receive(s, r)) \/ HandleStep(s) \/ End(s)
BY HandlerSteps DEF Next

\* Whatever a session does, the others are kept.
LEMMA OthersAreKept ==
  ASSUME TypeOK, NEW s \in Sessions, NEW t \in Sessions \ {s},
         (\E r \in Requests : Receive(s, r)) \/ HandleStep(s) \/ End(s)
  PROVE  Kept(t)
<1>a. /\ pc \in [Sessions -> Steps] /\ req \in [Sessions -> Requests \cup {NoRequest}]
      /\ speedOK \in [Sessions -> BOOLEAN]
      /\ verdict \in [Sessions -> {"VALID", "INVALID", "UNCERTAIN"}]
      /\ seen \in [Sessions -> Memory]
  BY DEF TypeOK, Memory, Answers
<1> USE <1>a DEF Kept
<1>1. ASSUME NEW r \in Requests, Receive(s, r) PROVE Kept(t)
  <2>1. seen[t] \in Memory
    OBVIOUS
  <2>2. seen'[t] = [seen[t] EXCEPT !.alone = seen[t].alone /\ t \notin Rivals(s, r.device)]
    BY <1>1 DEF Receive
  <2>3. CASE t \in Rivals(s, r.device)
    <3>1. seen'[t] = [seen[t] EXCEPT !.alone = FALSE] /\ Busy(t)
      BY <2>2, <2>3 DEF Rivals
    <3> QED
      BY <1>1, <3>1 DEF Receive
  <2>4. CASE t \notin Rivals(s, r.device)
    <3>1. seen'[t] = seen[t]
      BY <2>1, <2>2, <2>4 DEF Memory
    <3> QED
      BY <1>1, <3>1 DEF Receive
  <2> QED
    BY <2>3, <2>4
<1>2. CASE ReadPosition(s)
  BY <1>2 DEF ReadPosition
<1>3. CASE ReadFails(s)
  BY <1>3 DEF ReadFails
<1>4. CASE Judge(s)
  BY <1>4 DEF Judge
<1>5. CASE UpdateDevicePosition(s)
  BY <1>5 DEF UpdateDevicePosition
<1>6. CASE Leave(s)
  BY <1>6 DEF Leave
<1>7. CASE End(s)
  BY <1>7 DEF End
<1> QED
  BY <1>1, <1>2, <1>3, <1>4, <1>5, <1>6, <1>7 DEF HandleStep

\* So what is so of them stays so.
LEMMA LocalIsKept ==
  ASSUME Typed, NEW t \in Sessions, Kept(t), sent' \in Nat, sent' >= sent
  PROVE  LocalAt(t)'
<1>1. seen[t] \in Memory /\ sent \in Nat
  BY DEF Typed, TypeOK, Memory, Answers
<1>2. /\ seen'[t].number = seen[t].number /\ seen'[t].at = seen[t].at
      /\ seen'[t].heard = seen[t].heard /\ seen'[t].stored = seen[t].stored
  BY <1>1 DEF Kept, Memory
<1>3. seen[t] = Nothing /\ ~Busy(t) => seen'[t] = Nothing
  BY DEF Kept
<1>4. LocalAt(t)
  BY DEF Typed, Local
<1>5. Busy(t)' <=> Busy(t)
  BY DEF Kept, Busy
<1>6. Fresh(req'[t].timestamp, seen'[t].at) <=> Fresh(req[t].timestamp, seen[t].at)
  BY <1>2 DEF Kept
<1>7. pc[t] \in {"recv", "ended", "broken"} => ~Busy(t)
  BY DEF Busy
<1> QED
  BY <1>1, <1>2, <1>3, <1>4, <1>5, <1>6, <1>7 DEF LocalAt, Kept

\* What the actions below may assume of the session that takes them.
LEMMA Acting ==
  ASSUME Typed, NEW s \in Sessions
  PROVE  /\ seen[s] \in Memory /\ LocalAt(s) /\ sent \in 0 .. MaxRequests
         /\ Busy(s) => req[s] \in Requests /\ seen[s].number \in 1 .. MaxRequests
BY DEF Typed, TypeOK, Local, LocalAt, Memory, Answers

\* The steps of a session keep the types, and what is so at each of its steps.
LEMMA TypedStep ==
  ASSUME Typed, [Next]_vars
  PROVE  Typed'
<1>t. TypeOK /\ Local
  BY DEF Typed
<1>m. seen \in [Sessions -> Memory]
  BY <1>t DEF TypeOK, Memory, Answers
<1> USE DEF Steps, Busy
<1>1. CASE Tick \/ UNCHANGED vars \/ AllEnded
  <2>1. TypeOK'
    BY <1>1, <1>t DEF Tick, AllEnded, vars, code, TypeOK
  <2>2. Local'
    BY <1>1, <1>t DEF Tick, AllEnded, vars, code, Local, LocalAt
  <2> QED
    BY <2>1, <2>2 DEF Typed
<1>2. ASSUME NEW s \in Sessions, (\E r \in Requests : Receive(s, r)) \/ HandleStep(s) \/ End(s)
      PROVE  Typed'
  <2>a. seen[s] \in Memory /\ LocalAt(s) /\ sent \in 0 .. MaxRequests
        /\ (Busy(s) => req[s] \in Requests /\ seen[s].number \in 1 .. MaxRequests)
    BY Acting
  <2>1. ASSUME NEW r \in Requests, Receive(s, r)
        PROVE  TypeOK' /\ LocalAt(s)' /\ sent' \in Nat /\ sent' >= sent
    <3>1. r.device \in Devices /\ r # NoRequest
      OBVIOUS
    <3>2. recent[r.device] \in SUBSET Answers /\ sent + 1 \in 1 .. MaxRequests /\ now \in Clock
      BY <2>1, <2>a, <3>1, <1>t DEF Receive, TypeOK, Answers
    <3>3. seen' \in [Sessions -> Memory]
      <4>1. ASSUME NEW t \in Sessions PROVE seen'[t] \in Memory
        <5>1. CASE t = s
          BY <2>1, <3>2, <5>1 DEF Receive, Memory
        <5>2. CASE t # s
          <6>1. seen[t] \in Memory
            BY <1>m
          <6>2. seen'[t] = [seen[t] EXCEPT !.alone = seen[t].alone
                                                     /\ t \notin Rivals(s, r.device)]
            BY <2>1, <5>2 DEF Receive
          <6>3. (seen[t].alone /\ t \notin Rivals(s, r.device)) \in BOOLEAN
            OBVIOUS
          <6> QED
            BY <6>1, <6>2, <6>3 DEF Memory
        <5> QED
          BY <5>1, <5>2
      <4>2. seen' = [t \in Sessions |-> seen'[t]]
        BY <2>1 DEF Receive
      <4> QED
        BY <4>1, <4>2
    <3>4. /\ pc' \in [Sessions -> Steps] /\ req' \in [Sessions -> Requests \cup {NoRequest}]
          /\ reply' \in [Sessions -> [result : {"VALID"}, fresh : BOOLEAN] \cup {NoReply}]
          /\ \A t \in Sessions : Busy(t)' <=> req'[t] # NoRequest
      BY <2>1, <3>1, <1>t DEF Receive, TypeOK
    <3>5. TypeOK'
      BY <2>1, <3>2, <3>3, <3>4, <1>t DEF Receive, TypeOK, Memory, Answers
    <3>6. LocalAt(s)'
      <4>1. /\ seen'[s].number = sent + 1 /\ seen'[s].at = now /\ seen'[s].stored = FALSE
            /\ seen'[s].heard = FALSE
            /\ req'[s] = r /\ verdict'[s] = "INVALID" /\ sent' = sent + 1
            /\ pc'[s] = IF Fresh(r.timestamp, now) THEN "position" ELSE "update"
        BY <2>1, <2>a, <1>t DEF Receive, LocalAt, TypeOK
      <4> QED
        BY <2>a, <3>2, <4>1 DEF LocalAt
    <3> QED
      BY <2>1, <2>a, <3>5, <3>6 DEF Receive
  <2>2. ASSUME ReadPosition(s)
        PROVE  TypeOK' /\ LocalAt(s)' /\ sent' \in Nat /\ sent' >= sent
    <3>1. SpeedValid(positions[req[s].device], req[s]) \in BOOLEAN
      BY DEF SpeedValid
    <3>2. seen' \in [Sessions -> Memory] /\ seen'[s] = [seen[s] EXCEPT !.heard = TRUE]
      <4>1. [seen[s] EXCEPT !.heard = TRUE] \in Memory
        BY <2>a DEF Memory
      <4>2. seen' = [seen EXCEPT ![s] = [seen[s] EXCEPT !.heard = TRUE]]
        BY <2>2 DEF ReadPosition
      <4> QED
        BY <1>m, <4>1, <4>2
    <3>3. TypeOK'
      BY <2>2, <3>1, <3>2, <1>t DEF ReadPosition, TypeOK, Memory, Answers
    <3>4. LocalAt(s)'
      BY <2>2, <2>a, <3>2, <1>t DEF ReadPosition, TypeOK, LocalAt, Memory
    <3> QED
      BY <2>2, <2>a, <3>3, <3>4 DEF ReadPosition
  <2>3. ASSUME ReadFails(s)
        PROVE  TypeOK' /\ LocalAt(s)' /\ sent' \in Nat /\ sent' >= sent
    BY <2>3, <2>a, <1>t DEF ReadFails, TypeOK, LocalAt
  <2>4. ASSUME Judge(s)
        PROVE  TypeOK' /\ LocalAt(s)' /\ sent' \in Nat /\ sent' >= sent
    <3>1. PICK conf \in Sources :
            \E result \in DetermineResult(AfterSpeed(Triangulate(conf), speedOK[s])) :
                verdict' = [verdict EXCEPT ![s] = result]
      BY <2>4 DEF Judge
    <3>2. verdict'[s] \in DetermineResult(AfterSpeed(Triangulate(conf), speedOK[s]))
          /\ verdict' = [verdict EXCEPT ![s] = verdict'[s]]
      BY <3>1, <1>t DEF TypeOK
    <3>3. verdict'[s] \in {"VALID", "INVALID", "UNCERTAIN"}
      BY <3>2, ResultTyped
    <3>4. speedOK[s] \in BOOLEAN /\ conf \in [Groups -> 0 .. MaxConfidence]
      BY <1>t DEF TypeOK
    <3>5. verdict'[s] = "VALID" => speedOK[s]
      BY <3>2, <3>4, HalvedIsNotValid
    <3>6. TypeOK'
      BY <2>4, <3>2, <3>3, <1>t DEF Judge, TypeOK
    <3>7. LocalAt(s)'
      BY <2>4, <2>a, <3>5, <1>t DEF Judge, TypeOK, LocalAt
    <3> QED
      BY <2>4, <2>a, <3>6, <3>7 DEF Judge
  <2>5. ASSUME UpdateDevicePosition(s)
        PROVE  TypeOK' /\ LocalAt(s)' /\ sent' \in Nat /\ sent' >= sent
    <3>1. req[s] \in Requests
      BY <2>5, <2>a DEF UpdateDevicePosition
    <3>2. Position(req[s]) \in Positions
      BY <3>1 DEF Position, Positions
    <3>3. positions' \in [Devices -> Positions \cup {NoPosition}]
      BY <2>5, <3>1, <3>2, <1>t DEF UpdateDevicePosition, TypeOK
    <3>4. seen' \in [Sessions -> Memory]
          /\ seen'[s] \in {seen[s], [seen[s] EXCEPT !.stored = TRUE]}
      <4>1. [seen[s] EXCEPT !.stored = TRUE] \in Memory
        BY <2>a DEF Memory
      <4>2. seen' = [seen EXCEPT ![s] = [seen[s] EXCEPT !.stored = TRUE]] \/ seen' = seen
        BY <2>5 DEF UpdateDevicePosition
      <4> QED
        BY <1>m, <4>1, <4>2
    <3>5. TypeOK'
      BY <2>5, <3>1, <3>3, <3>4, <1>t DEF UpdateDevicePosition, TypeOK, Memory, Answers
    <3>6. LocalAt(s)'
      BY <2>5, <2>a, <3>4, <1>t DEF UpdateDevicePosition, TypeOK, LocalAt, Memory
    <3> QED
      BY <2>5, <2>a, <3>5, <3>6 DEF UpdateDevicePosition
  <2>6. ASSUME Leave(s)
        PROVE  TypeOK' /\ LocalAt(s)' /\ sent' \in Nat /\ sent' >= sent
    <3>1. req[s] \in Requests /\ seen[s].number \in 1 .. MaxRequests
      BY <2>6, <2>a DEF Leave
    <3>2. LastAfter(s) \in SUBSET Answers
      BY <3>1, <1>t DEF LastAfter, TypeOK, Answers
    <3>3. recent' \in [Devices -> SUBSET Answers]
      BY <2>6, <3>1, <3>2, <1>t DEF Leave, TypeOK, Answers
    <3>4. pc' \in [Sessions -> Steps] /\ pc'[s] \in {"recv", "ended", "broken"}
          /\ req' \in [Sessions -> Requests \cup {NoRequest}]
          /\ \A t \in Sessions : Busy(t)' <=> req'[t] # NoRequest
      <4>1. /\ pc \in [Sessions -> Steps] /\ req \in [Sessions -> Requests \cup {NoRequest}]
            /\ \A t \in Sessions : Busy(t) <=> req[t] # NoRequest
        BY <1>t DEF TypeOK
      <4>2. /\ pc' = [pc EXCEPT ![s] = pc'[s]] /\ pc'[s] \in {"recv", "ended", "broken"}
            /\ req' = [req EXCEPT ![s] = NoRequest]
        BY <2>6, <4>1 DEF Leave
      <4>3. ASSUME NEW t \in Sessions PROVE Busy(t)' <=> req'[t] # NoRequest
        BY <4>1, <4>2
      <4> QED
        BY <4>1, <4>2, <4>3
    <3>5. seen' \in [Sessions -> Memory] /\ seen'[s] = Nothing
      <4>1. Nothing \in Memory
        BY DEF Nothing, Memory
      <4> QED
        BY <2>6, <4>1, <1>t DEF Leave, TypeOK, Memory, Answers
    <3>6. Response(s) \in [result : {"VALID"}, fresh : BOOLEAN]
      BY DEF Response, Fresh, ConvertValidationResult
    <3>7. reply' \in [Sessions -> [result : {"VALID"}, fresh : BOOLEAN] \cup {NoReply}]
      BY <2>6, <3>6, <1>t DEF Leave, TypeOK
    <3>8. TypeOK'
      BY <2>6, <3>3, <3>4, <3>5, <3>7, <1>t DEF Leave, TypeOK, Memory, Answers
    <3>9. LocalAt(s)'
      BY <2>6, <3>4, <3>5, <1>t DEF Leave, TypeOK, LocalAt
    <3> QED
      BY <2>6, <2>a, <3>8, <3>9 DEF Leave
  <2>7. ASSUME End(s)
        PROVE  TypeOK' /\ LocalAt(s)' /\ sent' \in Nat /\ sent' >= sent
    BY <2>7, <2>a, <1>t DEF End, TypeOK, LocalAt
  <2>8. TypeOK' /\ LocalAt(s)' /\ sent' \in Nat /\ sent' >= sent
    BY <1>2, <2>1, <2>2, <2>3, <2>4, <2>5, <2>6, <2>7 DEF HandleStep
  <2>9. ASSUME NEW t \in Sessions PROVE LocalAt(t)'
    BY <1>2, <2>8, <1>t, OthersAreKept, LocalIsKept
  <2> QED
    BY <2>8, <2>9 DEF Typed, Local
<1> QED
  BY <1>1, <1>2, NextSteps

\* Every variable keeps its type; only a request's own steps touch what its
\* session knows, and VALID is only said of a request whose speed was checked.
THEOREM TypeCorrect == Spec => []TypeOK
<1>1. Init => Typed
  BY DEF Init, Typed, TypeOK, Local, LocalAt, Nothing, Steps, Busy
<1>2. Typed /\ [Next]_vars => Typed'
  BY TypedStep
<1>3. Typed => TypeOK
  BY DEF Typed
<1> QED
  BY <1>1, <1>2, <1>3, PTL DEF Spec

\* A request that is not INVALID was neither in the future nor older than
\* MaxTimeDiff when it arrived: validateTime may only be fooled by an age that
\* no time.Duration can hold.
THEOREM AcceptedRequestsAreFresh == Spec => []AcceptedAreFresh
<1>1. Init => Typed
  BY DEF Init, Typed, TypeOK, Local, LocalAt, Nothing, Steps, Busy
<1>2. Typed /\ [Next]_vars => Typed'
  BY TypedStep
<1>3. Typed => AcceptedAreFresh
  <2> SUFFICES ASSUME Typed, NEW s \in Sessions, verdict[s] # "INVALID"
               PROVE  LET age == seen[s].at - req[s].timestamp
                      IN  age >= 0 /\ (age * Second < Word => age * Second <= MaxTimeDiff)
    BY DEF AcceptedAreFresh
  <2> DEFINE at == seen[s].at  timestamp == req[s].timestamp
  <2>1. Busy(s) /\ Fresh(timestamp, at) /\ at \in Clock /\ req[s] \in Requests
    BY Acting DEF Typed, Local, LocalAt
  <2>2. at \in Int /\ timestamp \in Int /\ at - timestamp >= 0
    <3>1. at \in Int
      <4>1. at \in Clock
        BY <2>1
      <4>2. at \in 0 .. Word - 1
        BY <4>1
      <4> QED
        BY <4>2
    <3>2. timestamp \in Int
      <4>1. req[s] \in [device : Devices, place : Int, timestamp : -Word .. Word - 1]
        BY <2>1
      <4>2. timestamp \in -Word .. Word - 1
        BY <4>1
      <4> QED
        BY <4>2
    <3>3. timestamp <= at
      BY <2>1 DEF Fresh
    <3> HIDE DEF at, timestamp
    <3> QED
      BY <3>1, <3>2, <3>3
  <2>3. (at - timestamp) * Second >= 0 /\ (at - timestamp) * Second \in Int
    BY <2>2
  <2>4. ASSUME (at - timestamp) * Second < Word PROVE (at - timestamp) * Second <= MaxTimeDiff
    <3>1. (at - timestamp) * Second \in -Word .. Word - 1
      BY <2>3, <2>4
    <3>2. Elapsed(timestamp, at) = (at - timestamp) * Second
      BY <2>2, <3>1, ElapsedInRange
    <3> QED
      BY <2>1, <3>2 DEF Fresh
  <2> QED
    BY <2>2, <2>4
<1> QED
  BY <1>1, <1>2, <1>3, PTL DEF Spec

-----------------------------------------------------------------------------
(* Which requests may be the last of a device                              *)

\* A step that neither takes up a request nor is done with one.
Within ==
    /\ UNCHANGED <<recent, req, sent>>
    /\ \A t \in Sessions :
           /\ Busy(t)' <=> Busy(t)
           /\ seen'[t].number = seen[t].number /\ seen'[t].before = seen[t].before
           /\ seen'[t].alone = seen[t].alone

\* Every other step takes up a request or is done with one.
LEMMA StepsAreWithin ==
  ASSUME Typed, [Next]_vars
  PROVE  Within \/ \E s \in Sessions : (\E r \in Requests : Receive(s, r)) \/ Leave(s)
<1>1. pc \in [Sessions -> Steps] /\ seen \in [Sessions -> Memory]
  BY DEF Typed, TypeOK, Memory, Answers
<1> USE DEF Within, Busy
<1>2. CASE Tick \/ UNCHANGED vars \/ AllEnded
  BY <1>2 DEF Tick, AllEnded, vars, code
<1>3. ASSUME NEW s \in Sessions, ReadPosition(s) PROVE Within
  BY <1>1, <1>3 DEF ReadPosition, Memory
<1>4. ASSUME NEW s \in Sessions, ReadFails(s) PROVE Within
  BY <1>1, <1>4 DEF ReadFails
<1>5. ASSUME NEW s \in Sessions, Judge(s) PROVE Within
  BY <1>1, <1>5 DEF Judge
<1>6. ASSUME NEW s \in Sessions, UpdateDevicePosition(s) PROVE Within
  BY <1>1, <1>6 DEF UpdateDevicePosition, Memory
<1>7. ASSUME NEW s \in Sessions, End(s) PROVE Within
  BY <1>1, <1>7 DEF End
<1> QED
  BY <1>2, <1>3, <1>4, <1>5, <1>6, <1>7, NextSteps DEF HandleStep

\* A request keeps a number of its own until it is done with.
LEMMA NumbersStep ==
  ASSUME Typed, Unanswered, Used, [Next]_vars
  PROVE  Unanswered' /\ Used'
<1>t. /\ pc \in [Sessions -> Steps] /\ req \in [Sessions -> Requests \cup {NoRequest}]
      /\ recent \in [Devices -> SUBSET Answers] /\ seen \in [Sessions -> Memory]
      /\ sent \in Nat
  BY DEF Typed, TypeOK, Memory, Answers
<1>1. CASE Within
  BY <1>1, <1>t DEF Within, Unanswered, Used, Mine
<1>2. ASSUME NEW s \in Sessions, NEW r \in Requests, Receive(s, r)
      PROVE  Unanswered' /\ Used'
  <2>1. /\ seen'[s].number = sent + 1 /\ seen'[s].before = recent[r.device]
        /\ sent' = sent + 1 /\ recent' = recent /\ Busy(s)' /\ r.device \in Devices
    BY <1>2, <1>t DEF Receive, Busy
  <2>2. ASSUME NEW t \in Sessions \ {s}
        PROVE  /\ seen'[t].number = seen[t].number /\ seen'[t].before = seen[t].before
               /\ Busy(t)' <=> Busy(t) /\ Mine(t)' = Mine(t)
               /\ Busy(t) => seen[t].number \in 1 .. sent
    <3>1. Kept(t)
      BY <1>2, OthersAreKept DEF Typed
    <3> QED
      BY <1>t, <3>1 DEF Kept, Memory, Mine, Busy, Typed, Local, LocalAt
  <2>3. Used'
    BY <2>1, <2>2, <1>t DEF Used
  <2>4. ASSUME NEW t \in Sessions, Busy(t)'
        PROVE  /\ \A d \in Devices : Mine(t)' \notin recent'[d]
               /\ \A u \in Sessions : Mine(t)' \notin seen'[u].before
               /\ \A u \in Sessions \ {t} : Busy(u)' => seen'[u].number # seen'[t].number
    <3>1. CASE t = s
      <4>1. Mine(t)'.number = sent + 1
        BY <2>1, <3>1 DEF Mine
      <4>2. \A d \in Devices : \A a \in recent'[d] : a.number # sent + 1
        BY <2>1, <1>t DEF Used
      <4>3. \A u \in Sessions : \A a \in seen'[u].before : a.number # sent + 1
        BY <2>1, <2>2, <4>2, <1>t DEF Used
      <4> QED
        BY <2>1, <2>2, <3>1, <4>1, <4>2, <4>3, <1>t
    <3>2. CASE t # s
      <4>1. Busy(t) /\ Mine(t)' = Mine(t)
        BY <2>2, <2>4, <3>2
      <4> QED
        BY <2>1, <2>2, <3>2, <4>1, <1>t DEF Unanswered
    <3> QED
      BY <3>1, <3>2
  <2> QED
    BY <2>3, <2>4 DEF Unanswered
<1>3. ASSUME NEW s \in Sessions, Leave(s)
      PROVE  Unanswered' /\ Used'
  <2>1. Busy(s) /\ ~Busy(s)' /\ sent' = sent /\ seen'[s].before = {}
    BY <1>3, <1>t DEF Leave, Busy, Nothing
  <2>2. ASSUME NEW t \in Sessions \ {s}
        PROVE  /\ seen'[t].number = seen[t].number /\ seen'[t].before = seen[t].before
               /\ Busy(t)' <=> Busy(t) /\ Mine(t)' = Mine(t)
    <3>1. Kept(t)
      BY <1>3, OthersAreKept DEF Typed, HandleStep
    <3> QED
      BY <1>t, <3>1 DEF Kept, Memory, Mine, Busy
  <2>3. \A d \in Devices : \A a \in recent'[d] : a \in recent[d] \/ a = Mine(s)
    BY <1>3, <1>t DEF Leave, LastAfter, Mine
  <2>4. Mine(s).number \in 1 .. sent
    BY <2>1 DEF Mine, Typed, Local, LocalAt
  <2>5. Used'
    BY <2>1, <2>2, <2>3, <2>4 DEF Used
  <2>6. ASSUME NEW t \in Sessions \ {s}, Busy(t) PROVE Mine(t) # Mine(s)
    BY <2>1, <2>6 DEF Mine, Unanswered
  <2> QED
    BY <2>1, <2>2, <2>3, <2>5, <2>6 DEF Unanswered
<1> QED
  BY <1>1, <1>2, <1>3, StepsAreWithin

\* A request that is alone since it arrived finds its device as it was then.
LEMMA UndisturbedStep ==
  ASSUME Typed, Undisturbed, [Next]_vars
  PROVE  Undisturbed'
<1>t. /\ pc \in [Sessions -> Steps] /\ req \in [Sessions -> Requests \cup {NoRequest}]
      /\ recent \in [Devices -> SUBSET Answers] /\ seen \in [Sessions -> Memory]
  BY DEF Typed, TypeOK, Memory, Answers
<1>1. CASE Within
  BY <1>1 DEF Within, Undisturbed, Rivals
<1>2. ASSUME NEW s \in Sessions, NEW r \in Requests, Receive(s, r)
      PROVE  Undisturbed'
  <2>1. /\ seen'[s].alone = (Rivals(s, r.device) = {}) /\ seen'[s].before = recent[r.device]
        /\ req'[s] = r /\ recent' = recent
    BY <1>2, <1>t DEF Receive
  <2>2. ASSUME NEW t \in Sessions \ {s}
        PROVE  /\ pc'[t] = pc[t] /\ req'[t] = req[t] /\ seen'[t].before = seen[t].before
               /\ seen'[t].alone => seen[t].alone /\ t \notin Rivals(s, r.device)
    <3>1. seen[t] \in Memory
      BY <1>t
    <3>2. seen'[t] = [seen[t] EXCEPT !.alone = seen[t].alone
                                               /\ t \notin Rivals(s, r.device)]
      BY <1>2 DEF Receive
    <3>3. seen'[t].before = seen[t].before
          /\ seen'[t].alone = (seen[t].alone /\ t \notin Rivals(s, r.device))
      BY <3>1, <3>2 DEF Memory
    <3> QED
      BY <1>2, <1>t, <3>3 DEF Receive
  <2> SUFFICES ASSUME NEW t \in Sessions, Busy(t)', seen'[t].alone
               PROVE  Rivals(t, req[t].device)' = {} /\ recent'[req'[t].device] = seen'[t].before
    BY DEF Undisturbed
  <2>3. CASE t = s
    <3>1. Rivals(s, r.device)' = Rivals(s, r.device)
      BY <2>2 DEF Rivals, Busy
    <3> QED
      BY <2>1, <2>3, <3>1
  <2>4. CASE t # s
    <3>1. Busy(t) /\ seen[t].alone /\ t \notin Rivals(s, r.device)
      BY <2>2, <2>4 DEF Busy
    <3>2. Rivals(t, req[t].device) = {} /\ recent[req[t].device] = seen[t].before
      BY <3>1 DEF Undisturbed
    <3>3. req[t].device # r.device
      BY <2>4, <3>1 DEF Rivals
    <3>4. Rivals(t, req[t].device)' = {}
      BY <2>1, <2>2, <2>4, <3>2, <3>3 DEF Rivals, Busy
    <3> QED
      BY <2>1, <2>2, <2>4, <3>2, <3>4
  <2> QED
    BY <2>3, <2>4
<1>3. ASSUME NEW s \in Sessions, Leave(s)
      PROVE  Undisturbed'
  <2>1. Busy(s) /\ ~Busy(s)'
    BY <1>3, <1>t DEF Leave, Busy
  <2>2. ASSUME NEW t \in Sessions \ {s}
        PROVE  /\ pc'[t] = pc[t] /\ req'[t] = req[t] /\ seen'[t] = seen[t]
    BY <1>3, <1>t DEF Leave
  <2> SUFFICES ASSUME NEW t \in Sessions, Busy(t)', seen'[t].alone
               PROVE  Rivals(t, req[t].device)' = {} /\ recent'[req'[t].device] = seen'[t].before
    BY DEF Undisturbed
  <2>3. t # s /\ Busy(t) /\ seen[t].alone
    BY <2>1, <2>2 DEF Busy
  <2>4. Rivals(t, req[t].device) = {} /\ recent[req[t].device] = seen[t].before
    BY <2>3 DEF Undisturbed
  <2>5. req[s].device # req[t].device
    BY <2>1, <2>3, <2>4 DEF Rivals
  <2>6. recent'[req[t].device] = recent[req[t].device]
    BY <1>3, <1>t, <2>5 DEF Leave
  <2>7. Rivals(t, req[t].device)' = {}
    BY <2>1, <2>2, <2>3, <2>4 DEF Rivals, Busy
  <2> QED
    BY <2>2, <2>3, <2>4, <2>6, <2>7
<1> QED
  BY <1>1, <1>2, <1>3, StepsAreWithin

\* A step that stores no position and ends no request that stored one.
Idle ==
    /\ UNCHANGED <<positions, recent>>
    /\ \A t \in Sessions :
           /\ seen'[t].stored = seen[t].stored
           /\ seen[t].stored => /\ req'[t] = req[t] /\ seen'[t].number = seen[t].number
                               /\ seen'[t].before = seen[t].before

\* The steps of s that are not.
Moves(s) ==
    \/ Leave(s) /\ seen[s].stored
    \/ UpdateDevicePosition(s) /\ (positions' # positions \/ seen' # seen)

\* A step is idle or moves a device.
LEMMA StepsAreIdle ==
  ASSUME Typed, [Next]_vars
  PROVE  Idle \/ \E s \in Sessions : Moves(s)
<1>t. /\ pc \in [Sessions -> Steps] /\ req \in [Sessions -> Requests \cup {NoRequest}]
      /\ seen \in [Sessions -> Memory]
  BY DEF Typed, TypeOK, Memory, Answers
<1> USE DEF Idle
<1>1. CASE Tick \/ UNCHANGED vars \/ AllEnded
  BY <1>1 DEF Tick, AllEnded, vars, code
<1>2. ASSUME NEW s \in Sessions, (\E r \in Requests : Receive(s, r)) \/ Leave(s) \/ End(s),
             ~(Leave(s) /\ seen[s].stored)
      PROVE  Idle
  <2>1. UNCHANGED <<positions, recent>> /\ ~seen[s].stored /\ ~seen'[s].stored
    BY <1>2, <1>t DEF Receive, Leave, End, Typed, Local, LocalAt, Nothing
  <2>2. ASSUME NEW t \in Sessions \ {s}
        PROVE  /\ req'[t] = req[t] /\ seen'[t].number = seen[t].number
               /\ seen'[t].before = seen[t].before /\ seen'[t].stored = seen[t].stored
    <3>1. Kept(t)
      BY <1>2, OthersAreKept DEF Typed, HandleStep
    <3> QED
      BY <1>t, <3>1 DEF Kept, Memory
  <2>3. seen[s].stored \in BOOLEAN /\ seen'[s].stored \in BOOLEAN
    <3>1. Typed'
      BY TypedStep
    <3> QED
      BY <3>1 DEF Typed, TypeOK
  <2> QED
    BY <2>1, <2>2, <2>3
<1>3. ASSUME NEW s \in Sessions, ReadPosition(s) PROVE Idle
  BY <1>t, <1>3 DEF ReadPosition, Memory
<1>4. ASSUME NEW s \in Sessions, ReadFails(s) PROVE Idle
  BY <1>4 DEF ReadFails
<1>5. ASSUME NEW s \in Sessions, Judge(s) PROVE Idle
  BY <1>5 DEF Judge
<1>6. ASSUME NEW s \in Sessions, UpdateDevicePosition(s), positions' = positions, seen' = seen
      PROVE  Idle
  BY <1>6 DEF UpdateDevicePosition
<1> HIDE DEF Idle
<1>7. ASSUME NEW s \in Sessions, (\E r \in Requests : Receive(s, r)) \/ HandleStep(s) \/ End(s)
      PROVE  Idle \/ Moves(s)
  BY <1>2, <1>3, <1>4, <1>5, <1>6, <1>7 DEF HandleStep, Moves
<1>8. CASE Tick \/ AllEnded \/ UNCHANGED vars
  BY <1>1, <1>8
<1>9. CASE \E s \in Sessions : (\E r \in Requests : Receive(s, r)) \/ HandleStep(s) \/ End(s)
  BY <1>7, <1>9
<1> QED
  BY <1>8, <1>9, NextSteps

\* The position that Redis holds stays that of a request that may be the last:
\* a session that is done hides only what came before it arrived.
LEMMA HeldStep ==
  ASSUME Typed, Unanswered, Held, [Next]_vars
  PROVE  Held'
<1>t. /\ pc \in [Sessions -> Steps] /\ req \in [Sessions -> Requests \cup {NoRequest}]
      /\ recent \in [Devices -> SUBSET Answers] /\ seen \in [Sessions -> Memory]
      /\ positions \in [Devices -> Positions \cup {NoPosition}]
  BY DEF Typed, TypeOK, Memory, Answers
<1>1. CASE Idle
  <2> SUFFICES ASSUME NEW d \in Devices
               PROVE  \/ positions'[d] = NoPosition /\ recent'[d] = {} /\ Storing(d)' = {}
                      \/ \E h \in Answers : Holds(d, h)'
    BY DEF Held
  <2>1. Storing(d)' = Storing(d) /\ \A t \in Storing(d) : Mine(t)' = Mine(t)
    BY <1>1 DEF Idle, Storing, Mine
  <2>2. ASSUME NEW h \in Answers, Holds(d, h) PROVE Holds(d, h)'
    BY <1>1, <2>1, <2>2 DEF Holds, Idle, Storing
  <2> QED
    BY <1>1, <2>1, <2>2 DEF Held, Idle, Answers
<1>2. ASSUME NEW s \in Sessions, UpdateDevicePosition(s),
             positions' # positions \/ seen' # seen
      PROVE  Held'
  <2> DEFINE own == req[s].device
  <2>1. /\ Busy(s) /\ req[s] \in Requests /\ own \in Devices
        /\ seen[s].number \in 1 .. MaxRequests
    BY <1>2, Acting DEF UpdateDevicePosition, Busy
  <2>2. /\ positions' = [positions EXCEPT ![own] = Position(req[s])]
        /\ seen' = [seen EXCEPT ![s].stored = TRUE] /\ UNCHANGED <<req, recent>>
    BY <1>2 DEF UpdateDevicePosition
  <2>3. ASSUME NEW t \in Sessions
        PROVE  /\ Mine(t)' = Mine(t) /\ seen'[t].before = seen[t].before
               /\ t # s => seen'[t].stored = seen[t].stored
               /\ seen'[s].stored
    <3>1. /\ seen'[t].number = seen[t].number /\ seen'[t].before = seen[t].before
          /\ t # s => seen'[t].stored = seen[t].stored
          /\ seen'[s].stored
      <4>1. seen[t] \in Memory /\ seen[s] \in Memory
        BY <1>t
      <4>2. /\ seen'[t] = IF t = s THEN [seen[t] EXCEPT !.stored = TRUE] ELSE seen[t]
            /\ seen'[s] = [seen[s] EXCEPT !.stored = TRUE]
        BY <2>2, <1>t
      <4> QED
        BY <4>1, <4>2 DEF Memory
    <3> QED
      BY <2>2, <3>1 DEF Mine
  <2> SUFFICES ASSUME NEW d \in Devices
               PROVE  \/ positions'[d] = NoPosition /\ recent'[d] = {} /\ Storing(d)' = {}
                      \/ \E h \in Answers : Holds(d, h)'
    BY DEF Held
  <2>4. CASE d = own
    <3>1. Mine(s) \in Answers /\ Mine(s).request = req[s]
      BY <2>1 DEF Mine, Answers
    <3>2. \A t \in Sessions : Mine(s) \notin seen[t].before
      BY <2>1 DEF Unanswered
    <3>3. s \in Storing(d)'
      BY <2>2, <2>3, <2>4 DEF Storing
    <3>4. positions'[d] = Position(req[s])
      BY <2>1, <2>2, <2>4, <1>t
    <3>5. Mine(s)' = Mine(s)
      BY <2>3
    <3> QED
      BY <2>3, <3>1, <3>2, <3>3, <3>4, <3>5 DEF Holds, Storing
  <2>5. CASE d # own
    <3>1. Storing(d)' = Storing(d) /\ positions'[d] = positions[d] /\ recent' = recent
      BY <2>2, <2>3, <2>5, <1>t DEF Storing
    <3>2. ASSUME NEW h \in Answers, Holds(d, h) PROVE Holds(d, h)'
      BY <2>3, <3>1, <3>2 DEF Holds, Storing
    <3> QED
      BY <3>1, <3>2 DEF Held, Answers
  <2> QED
    BY <2>4, <2>5
<1>3. ASSUME NEW s \in Sessions, Leave(s), seen[s].stored
      PROVE  Held'
  <2> DEFINE own == req[s].device
  <2>1. Busy(s) /\ req[s] \in Requests /\ own \in Devices
    BY <1>3, Acting DEF Leave, Busy
  <2>2. /\ recent' = [recent EXCEPT ![own] = LastAfter(s)] /\ positions' = positions
        /\ seen'[s] = Nothing
    BY <1>3, <1>t DEF Leave
  <2>3. ASSUME NEW t \in Sessions \ {s}
        PROVE  /\ req'[t] = req[t] /\ seen'[t] = seen[t] /\ Mine(t)' = Mine(t)
    BY <1>3, <1>t DEF Leave, Mine
  <2> SUFFICES ASSUME NEW d \in Devices
               PROVE  \/ positions'[d] = NoPosition /\ recent'[d] = {} /\ Storing(d)' = {}
                      \/ \E h \in Answers : Holds(d, h)'
    BY DEF Held
  <2>4. Storing(d)' = Storing(d) \ {s}
    BY <2>2, <2>3 DEF Storing, Nothing
  <2>5. CASE d = own
    <3>1. s \in Storing(d)
      BY <1>3, <2>5 DEF Storing
    <3>2. PICK h \in Answers : Holds(d, h)
      BY <3>1 DEF Held, Answers
    <3>3. recent'[d] = {a \in recent[d] : a \notin seen[s].before} \cup {Mine(s)}
      BY <2>1, <2>2, <2>5, <1>t DEF LastAfter, Mine
    <3>4. h \notin seen[s].before
      BY <3>1, <3>2 DEF Holds
    <3>5. h \in recent'[d] \cup {Mine(t) : t \in Storing(d) \ {s}}
      BY <3>2, <3>3, <3>4 DEF Holds
    <3>6. \A t \in Storing(d) \ {s} : Mine(t)' = Mine(t) /\ seen'[t] = seen[t]
      BY <2>3 DEF Storing
    <3>7. Holds(d, h)'
      BY <2>2, <2>4, <3>2, <3>5, <3>6 DEF Holds
    <3> QED
      BY <3>7
  <2>6. CASE d # own
    <3>1. s \notin Storing(d) /\ recent'[d] = recent[d]
      BY <2>2, <2>6, <1>t DEF Storing
    <3>2. Storing(d)' = Storing(d)
      BY <2>4, <3>1
    <3>3. \A t \in Storing(d) : Mine(t)' = Mine(t) /\ seen'[t] = seen[t]
      BY <2>3, <3>1 DEF Storing
    <3>4. ASSUME NEW h \in Answers, Holds(d, h) PROVE Holds(d, h)'
      BY <2>2, <3>1, <3>2, <3>3, <3>4 DEF Holds
    <3> QED
      BY <2>2, <3>1, <3>2, <3>4 DEF Held, Answers
  <2> QED
    BY <2>5, <2>6
<1> QED
  BY <1>1, <1>2, <1>3, StepsAreIdle DEF Moves

-----------------------------------------------------------------------------
(* What a request is judged by                                             *)

\* SpeedIsJudged, of one session.
JudgedAt(s) ==
    (pc[s] \in {"sources", "update", "send"} /\ seen[s].heard /\ seen[s].alone) =>
        IF seen[s].before = {} THEN speedOK[s]
        ELSE \E last \in seen[s].before :
                 Comparable(req[s], last.request)
                     => (speedOK[s] = ~TooFast(req[s], last.request))

\* The position validateSpeed reads is that of a request that may be the last,
\* and nothing a session or its rivals do later changes the judgement.
LEMMA JudgedStep ==
  ASSUME Typed, Undisturbed, Held, SpeedIsJudged, [Next]_vars
  PROVE  SpeedIsJudged'
<1>t. /\ pc \in [Sessions -> Steps] /\ req \in [Sessions -> Requests \cup {NoRequest}]
      /\ recent \in [Devices -> SUBSET Answers] /\ seen \in [Sessions -> Memory]
      /\ speedOK \in [Sessions -> BOOLEAN]
  BY DEF Typed, TypeOK, Memory, Answers
<1>j. \A t \in Sessions : JudgedAt(t)
  BY DEF SpeedIsJudged, JudgedAt
<1>1. CASE Tick \/ UNCHANGED vars \/ AllEnded
  BY <1>1 DEF Tick, AllEnded, vars, code, SpeedIsJudged
<1>2. ASSUME NEW s \in Sessions, (\E r \in Requests : Receive(s, r)) \/ HandleStep(s) \/ End(s)
      PROVE  SpeedIsJudged'
  <2>1. ASSUME NEW t \in Sessions \ {s} PROVE JudgedAt(t)'
    <3>1. Kept(t)
      BY <1>2, OthersAreKept DEF Typed
    <3>2. seen[t] \in Memory
      BY <1>t
    <3>3. /\ seen'[t].before = seen[t].before /\ seen'[t].heard = seen[t].heard
          /\ seen'[t].alone => seen[t].alone
      BY <3>1, <3>2 DEF Kept, Memory
    <3> QED
      BY <1>j, <3>1, <3>3 DEF JudgedAt, Kept
  <2>2. ASSUME NEW r \in Requests, Receive(s, r) PROVE JudgedAt(s)'
    BY <2>2, <1>t DEF Receive, JudgedAt
  <2>3. ASSUME ReadPosition(s) PROVE JudgedAt(s)'
    <3> DEFINE d == req[s].device
    <3>1. Busy(s) /\ pc[s] = "position" /\ req[s] \in Requests /\ d \in Devices /\ ~seen[s].stored
      BY <2>3, Acting DEF ReadPosition, Busy, LocalAt
    <3>2. /\ req' = req /\ speedOK'[s] = SpeedValid(positions[d], req[s])
          /\ seen'[s].before = seen[s].before /\ seen'[s].alone = seen[s].alone
      BY <2>3, <1>t DEF ReadPosition, Memory
    <3> SUFFICES ASSUME seen[s].alone
                 PROVE  IF seen[s].before = {} THEN speedOK'[s]
                        ELSE \E last \in seen[s].before :
                                 Comparable(req[s], last.request)
                                     => (speedOK'[s] = ~TooFast(req[s], last.request))
      BY <3>2 DEF JudgedAt
    <3>3. Rivals(s, d) = {} /\ recent[d] = seen[s].before
      BY <3>1 DEF Undisturbed
    <3>4. Storing(d) = {}
      <4> SUFFICES ASSUME NEW t \in Storing(d) PROVE FALSE
        OBVIOUS
      <4>1. t \in Sessions /\ seen[t].stored /\ req[t].device = d
        BY DEF Storing
      <4>2. Busy(t)
        BY <4>1, <1>t DEF Typed, Local, LocalAt, Nothing, Steps, Busy
      <4> QED
        BY <3>1, <3>3, <4>1, <4>2 DEF Rivals
    <3>5. CASE positions[d] = NoPosition /\ recent[d] = {}
      BY <3>2, <3>3, <3>5 DEF SpeedValid
    <3>6. ASSUME NEW h \in Answers, Holds(d, h)
          PROVE  \E last \in seen[s].before :
                     Comparable(req[s], last.request)
                         => (speedOK'[s] = ~TooFast(req[s], last.request))
      <4>1. h \in seen[s].before /\ positions[d] = Position(h.request) /\ h.request \in Requests
        BY <3>3, <3>4, <3>6 DEF Holds, Answers
      <4>2. Comparable(req[s], h.request) =>
              (SpeedValid(positions[d], req[s]) <=> ~TooFast(req[s], h.request))
        BY <3>1, <4>1, SpeedValidIsExact
      <4>3. speedOK'[s] \in BOOLEAN /\ TooFast(req[s], h.request) \in BOOLEAN
        BY <3>2 DEF SpeedValid, TooFast
      <4> QED
        BY <3>2, <4>1, <4>2, <4>3
    <3> QED
      BY <3>1, <3>5, <3>6, <3>3 DEF Held, Answers
  <2>4. ASSUME ReadFails(s) PROVE JudgedAt(s)'
    BY <2>4, Acting DEF ReadFails, JudgedAt, LocalAt
  <2>5. ASSUME Judge(s) PROVE JudgedAt(s)'
    BY <2>5, <1>j, <1>t DEF Judge, JudgedAt
  <2>6. ASSUME UpdateDevicePosition(s) PROVE JudgedAt(s)'
    <3>1. /\ seen'[s].before = seen[s].before /\ seen'[s].heard = seen[s].heard
          /\ seen'[s].alone = seen[s].alone
      BY <2>6, <1>t DEF UpdateDevicePosition, Memory
    <3> QED
      BY <2>6, <3>1, <1>j DEF UpdateDevicePosition, JudgedAt
  <2>7. ASSUME Leave(s) PROVE JudgedAt(s)'
    BY <2>7, <1>t DEF Leave, JudgedAt
  <2>8. ASSUME End(s) PROVE JudgedAt(s)'
    BY <2>8, <1>t DEF End, JudgedAt
  <2>9. JudgedAt(s)'
    BY <1>2, <2>2, <2>3, <2>4, <2>5, <2>6, <2>7, <2>8 DEF HandleStep
  <2> QED
    BY <2>1, <2>9 DEF SpeedIsJudged, JudgedAt
<1> QED
  BY <1>1, <1>2, NextSteps

\* All of it together is inductive.
LEMMA Invariant == Spec => []IInv
<1>1. Init => IInv
  BY DEF Init, IInv, Typed, TypeOK, Local, LocalAt, Unanswered, Used, Undisturbed, Held,
         Storing, SpeedIsJudged, Nothing, Steps, Busy
<1>2. IInv /\ [Next]_vars => IInv'
  BY TypedStep, NumbersStep, UndisturbedStep, HeldStep, JudgedStep DEF IInv
<1> QED
  BY <1>1, <1>2, PTL DEF Spec

\* A request that no other request of its device overlapped is judged by its
\* speed from the last that is done with, however sessions interleave.
THEOREM SpeedIsJudgedFromTheLast == Spec => []SpeedIsJudged
<1>1. IInv => SpeedIsJudged
  BY DEF IInv
<1> QED
  BY <1>1, Invariant, PTL

\* A request that is too fast from every request that may be the last
\* is not VALID, whatever the points it lists are worth.
THEOREM ImpossibleSpeedIsRefused == Spec => []ImpossibleSpeedIsNotValid
<1>1. IInv => ImpossibleSpeedIsNotValid
  <2> SUFFICES ASSUME IInv, NEW s \in Sessions,
                      pc[s] \in {"update", "send"}, seen[s].alone, seen[s].before # {},
                      \A last \in seen[s].before :
                          Comparable(req[s], last.request) /\ TooFast(req[s], last.request),
                      verdict[s] = "VALID"
               PROVE  FALSE
    BY DEF ImpossibleSpeedIsNotValid
  <2>1. seen[s].heard /\ speedOK[s]
    BY DEF IInv, Typed, Local, LocalAt
  <2>2. PICK last \in seen[s].before :
            Comparable(req[s], last.request)
                => (speedOK[s] = ~TooFast(req[s], last.request))
    BY <2>1 DEF IInv, SpeedIsJudged
  <2> QED
    BY <2>1, <2>2
<1> QED
  BY <1>1, Invariant, PTL

=============================================================================
