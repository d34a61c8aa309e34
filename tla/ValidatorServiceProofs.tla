----------------------- MODULE ValidatorServiceProofs -----------------------
(****************************************************************************)
(* For any number of sessions, requests, points and failures: types, what  *)
(* Shutdown waits for, what becomes of known points, the history and the   *)
(* last known locations.                                                    *)
(****************************************************************************)
EXTENDS ValidatorService, FiniteSetTheorems, TLAPS

-----------------------------------------------------------------------------
(* The inductive invariant                                                 *)

TaskSet == [kind : {"record", "history", "location"}, by : Nat, verdict : Verdicts,
            point : Points \cup {NoPoint}, slot : Nat]

\* A goroutine that records is about a point, and the loop is at one; only a
\* stream waits for the lock.
Shapes ==
    /\ tasks \subseteq TaskSet
    /\ \A t \in tasks : t.kind = "record" => t.point \in Points
    /\ decided \subseteq [by : Nat, verdict : Verdicts]
    /\ \A s \in Sessions : /\ pc[s] = "points" => index[s] <= Len(Req(s).points)
                           /\ pc[s] = "lock" => s \in Streams

\* A request has one session, whose place tells what it has started.
Order ==
    /\ \A s, u \in Sessions : Busy(s) /\ Busy(u) /\ s # u => number[s] # number[u]
    /\ \A s \in Sessions, t \in tasks :
          Busy(s) /\ t.by = number[s] =>
              /\ pc[s] \notin {"lock", "locate"}
              /\ t.kind = "record" /\ pc[s] = "points" => t.slot < index[s]
              /\ t.kind = "history" => pc[s] \in {"location", "send"}
              /\ t.kind = "location" => pc[s] = "send"

\* The wait group counts the goroutines.
Counted ==
    /\ IsFiniteSet(tasks) /\ wg = Cardinality(tasks)
    /\ waiter = "waiting" => wg # 0

\* No session works on what was done with at Shutdown, and the waiter has seen
\* the last goroutine of it end.
Closed ==
    /\ handled \subseteq 1 .. Len(asked)
    /\ shutdown = "no" <=> waiter = "none"
    /\ shutdown = "no" => handled = {}
    /\ \A s \in Sessions : Busy(s) => number[s] \notin handled
    /\ waiter \in {"woken", "closed"} => \A t \in tasks : t.by \notin handled
    /\ shutdown = "nil" => waiter = "closed"
    /\ OrderlyShutdown

\* A goroutine that records a known point has a session that did not see it.
Blind ==
    /\ KnownPointsAreKept
    /\ \A t \in tasks : t.kind = "record" /\ t.point \in Known => t.point \in blinded

\* A request gets one verdict, which its row, its answer and the goroutines
\* started after it carry; and it is never UNCERTAIN.
Decision(s) == [by |-> number[s], verdict |-> verdict[s]]
Matching(t) == [by |-> t.by, verdict |-> t.verdict]
Undecided(s) == pc[s] \in {"lock", "locate", "points", "history"}
Saved(a) == \/ a \in rows
            \/ a.by \in unsaved
            \/ \E t \in tasks : t.kind = "history" /\ t.by = a.by /\ t.verdict = a.verdict
One ==
    /\ \A a \in decided : a.by \in 1 .. Len(asked) /\ a.verdict # "UNCERTAIN"
    /\ \A a, b \in decided : a.by = b.by => a = b
    /\ \A s \in Sessions, a \in decided : Undecided(s) => a.by # number[s]
    /\ \A s \in Sessions : /\ pc[s] \in {"points", "history"} =>
                                  confidence[s] >= 100 /\ verdict[s] # "UNCERTAIN"
                           /\ pc[s] \in {"location", "send"} => Decision(s) \in decided
Agreed ==
    /\ rows \subseteq decided /\ answered \subseteq decided
    /\ \A t \in tasks : t.kind \in {"history", "location"} => Matching(t) \in decided
    /\ \A t \in tasks : t.kind = "location" =>
                            t.verdict # "INVALID" /\ t.point = NoPoint /\ t.slot = 0
    /\ \A a \in decided : Saved(a)

IInv == TypeOK /\ Shapes /\ Order /\ Counted /\ Closed /\ Blind /\ One /\ Agreed

LEMMA InitIInv == Init => IInv
<1> SUFFICES ASSUME Init PROVE IInv
  OBVIOUS
<1>1. TypeOK
  BY ServiceAssumption DEF Init, TypeOK, Places, Verdicts, Busy
<1>2. Counted
  BY FS_EmptySet DEF Init, Counted
<1>3. Blind
  BY ServiceAssumption DEF Init, Blind, KnownPointsAreKept
<1> QED
  BY <1>1, <1>2, <1>3 DEF Init, IInv, Shapes, Order, Closed, One, Agreed, OrderlyShutdown, Busy,
     Undecided

-----------------------------------------------------------------------------
(* What the steps do                                                       *)

StepOf(s) == (\E r \in Requests : Receive(s, r)) \/ Lock(s) \/ Handle(s) \/ End(s)
StepOfShutdown == Shutdown \/ Wait \/ Resume \/ Return("nil") \/ Return("timeout")

\* A busy session has a request.
LEMMA Asked ==
    ASSUME TypeOK, NEW s \in Sessions, Busy(s)
    PROVE  /\ number[s] \in 1 .. Len(asked) /\ number[s] \in Nat
           /\ Req(s) \in Requests /\ Req(s).device \in Devices /\ Req(s).points \in Seq(Points)
<1>1. number[s] \in 1 .. Len(asked) /\ number[s] \in Nat
  BY DEF TypeOK
<1>2. Req(s) \in Requests
  BY <1>1 DEF TypeOK, Req
<1> QED BY <1>1, <1>2, ServiceAssumption

\* The point a session is at.
LEMMA AtPoint ==
    ASSUME TypeOK, Shapes, NEW s \in Sessions, pc[s] = "points"
    PROVE  Req(s).points[index[s]] \in Points /\ index[s] \in Nat \ {0}
<1>1. index[s] \in Nat \ {0} /\ index[s] <= Len(Req(s).points)
  BY DEF TypeOK, Shapes
<1>2. Req(s).points \in Seq(Points)
  BY Asked DEF Busy
<1> QED BY <1>1, <1>2

\* A session starts at most one goroutine in a step, and counts it.
New(s, t) ==
    /\ t \in TaskSet /\ t.by = number[s]
    /\ tasks' = tasks \cup {t} /\ wg' = wg + 1
    /\ \/ /\ pc[s] = "points" /\ t.kind = "record" /\ t.point \in Points /\ t.slot = index[s]
          /\ index'[s] = index[s] + 1 /\ pc'[s] \in {"points", "history"}
       \/ pc[s] = "history" /\ t.kind = "history" /\ pc'[s] = "location"
       \/ pc[s] = "location" /\ t.kind = "location" /\ pc'[s] = "send"

LEMMA Starts ==
    ASSUME TypeOK, Shapes, NEW s \in Sessions, StepOf(s)
    PROVE  UNCHANGED <<tasks, wg>> \/ \E t : New(s, t)
<1>0. /\ pc \in [Sessions -> Places] /\ number \in [Sessions -> 0 .. Len(asked)]
      /\ index \in [Sessions -> Nat \ {0}] /\ verdict \in [Sessions -> Verdicts]
  BY DEF TypeOK
<1>n. number[s] \in Nat /\ verdict[s] \in Verdicts /\ Final(s) \in Verdicts
  BY <1>0 DEF TypeOK, Final, Verdicts
<1>1. CASE ReadUnknown(s)
  <2> DEFINE p == Req(s).points[index[s]]
             t == Task("record", s, p, index[s])
  <2>1. p \in Points /\ index[s] \in Nat /\ pc[s] = "points"
    BY <1>1, AtPoint DEF ReadUnknown
  <2>2. t \in TaskSet /\ t.by = number[s] /\ t.kind = "record" /\ t.point = p /\ t.slot = index[s]
    BY <1>n, <2>1 DEF Task, TaskSet
  <2>3. index'[s] = index[s] + 1 /\ pc'[s] \in {"points", "history"}
    BY <1>0, <1>1, <2>1 DEF ReadUnknown, NextPoint
  <2>4. UNCHANGED <<tasks, wg>> \/ Go(t)
    BY <1>1 DEF ReadUnknown
  <2> QED BY <2>1, <2>2, <2>3, <2>4 DEF New, Go
<1>2. CASE Decide(s)
  <2> DEFINE t == [Task("history", s, NoPoint, 0) EXCEPT !.verdict = Final(s)]
  <2>1. t \in TaskSet /\ t.by = number[s] /\ t.kind = "history"
    BY <1>n DEF Task, TaskSet
  <2> QED BY <1>0, <1>2, <2>1 DEF Decide, New, Go
<1>3. CASE Move(s)
  <2> DEFINE t == Task("location", s, NoPoint, 0)
  <2>1. t \in TaskSet /\ t.by = number[s] /\ t.kind = "location"
    BY <1>n DEF Task, TaskSet
  <2>2. pc[s] = "location" /\ pc'[s] = "send"
    BY <1>0, <1>3 DEF Move
  <2>3. UNCHANGED <<tasks, wg>> \/ Go(t)
    BY <1>3 DEF Move
  <2> QED BY <2>1, <2>2, <2>3 DEF New, Go
<1> QED
  BY <1>1, <1>2, <1>3 DEF StepOf, Handle, Receive, Lock, Locate, ReadKnown, Send, End, group

\* The other sessions stay where they are.
LEMMA Others ==
    ASSUME TypeOK, NEW s \in Sessions, StepOf(s), NEW u \in Sessions, u # s
    PROVE  /\ pc'[u] = pc[u] /\ number'[u] = number[u] /\ index'[u] = index[u]
           /\ verdict'[u] = verdict[u] /\ confidence'[u] = confidence[u]
<1>1. /\ pc \in [Sessions -> Places] /\ number \in [Sessions -> 0 .. Len(asked)]
      /\ index \in [Sessions -> Nat \ {0}] /\ verdict \in [Sessions -> Verdicts]
      /\ confidence \in [Sessions -> Nat]
  BY DEF TypeOK
<1> QED
  BY <1>1 DEF StepOf, Handle, Receive, Lock, Locate, ReadKnown, ReadUnknown, NextPoint, Decide, Move, Send, End

\* Requests are added to those that arrived; a session takes only a new one.
LEMMA Arrivals ==
    ASSUME TypeOK, NEW s \in Sessions, StepOf(s)
    PROVE  /\ Len(asked) \in Nat /\ Len(asked') \in Nat /\ Len(asked) <= Len(asked')
           /\ \A n \in 1 .. Len(asked) : asked'[n] = asked[n]
           /\ \/ /\ pc[s] = "recv" /\ pc'[s] \in {"lock", "locate"}
                 /\ number'[s] = Len(asked) + 1 /\ Len(asked') = Len(asked) + 1
              \/ pc'[s] = "ended"
              \/ pc'[s] = "recv"
              \/ Busy(s) /\ number'[s] = number[s] /\ asked' = asked
<1>1. asked \in Seq(Requests) /\ pc \in [Sessions -> Places] /\ number \in [Sessions -> 0 .. Len(asked)]
  BY DEF TypeOK
<1>2. ASSUME NEW r \in Requests, Receive(s, r)
      PROVE  /\ Len(asked') = Len(asked) + 1 /\ \A n \in 1 .. Len(asked) : asked'[n] = asked[n]
             /\ pc[s] = "recv" /\ pc'[s] \in {"lock", "locate"} /\ number'[s] = Len(asked) + 1
  BY <1>1, <1>2 DEF Receive
<1>3. CASE Lock(s) \/ Handle(s) \/ End(s)
  <2>1. asked' = asked /\ number' = number
    BY <1>3 DEF Handle, Lock, Locate, ReadKnown, ReadUnknown, NextPoint, Decide, Move, Send, End
  <2>2. Busy(s) \/ pc'[s] = "ended"
    BY <1>1, <1>3 DEF Handle, Lock, Locate, ReadKnown, ReadUnknown, Decide, Move, Send, End, Busy
  <2> QED BY <1>1, <2>1, <2>2
<1>4. Len(asked) \in Nat
  BY <1>1
<1> QED BY <1>2, <1>3, <1>4 DEF StepOf

\* A goroutine that ends leaves the group.
LEMMA Ends ==
    ASSUME NEW t \in tasks, Work(t)
    PROVE  Done(t) /\ UNCHANGED <<handlers, closing, seen>>
BY DEF Work, Record, SaveToHistory, SetLastKnownLocation, handlers

-----------------------------------------------------------------------------
(* Types                                                                   *)

LEMMA SessionsKeepTypes ==
    ASSUME TypeOK, Shapes, NEW s \in Sessions, StepOf(s), wg + 1 \in Nat
    PROVE  TypeOK' /\ Shapes'
<1>0. /\ asked \in Seq(Requests) /\ Len(asked) <= MaxRequests /\ Len(asked) \in Nat
      /\ pc \in [Sessions -> Places] /\ number \in [Sessions -> 0 .. Len(asked)]
      /\ index \in [Sessions -> Nat \ {0}] /\ verdict \in [Sessions -> Verdicts]
      /\ confidence \in [Sessions -> Nat] /\ mu \in Streams \cup {Free}
      /\ failures \in 0 .. MaxFailures /\ MaxFailures \in Nat /\ MaxRequests \in Nat
  BY ServiceAssumption DEF TypeOK
<1>f. Fail => failures' \in 0 .. MaxFailures
  BY <1>0 DEF Fail
<1>a. asked' \in Seq(Requests) /\ Len(asked') <= MaxRequests
  <2>1. ASSUME NEW r \in Requests, Receive(s, r) PROVE asked' \in Seq(Requests) /\ Len(asked') <= MaxRequests
    <3>1. asked' = Append(asked, r) /\ Len(asked) < MaxRequests
      BY <2>1 DEF Receive
    <3>2. Len(asked') = Len(asked) + 1 /\ asked' \in Seq(Requests)
      BY <1>0, <3>1
    <3> QED BY <1>0, <3>1, <3>2
  <2> QED
    BY <1>0, <2>1 DEF StepOf, Handle, Lock, Locate, ReadKnown, ReadUnknown, NextPoint, Decide, Move, Send, End
<1>b. Len(asked') \in Nat /\ Len(asked) <= Len(asked') /\ \A n \in 1 .. Len(asked) : asked'[n] = asked[n]
  BY Arrivals
<1>c. pc' \in [Sessions -> Places]
  BY <1>0 DEF StepOf, Handle, Receive, Lock, Locate, ReadKnown, ReadUnknown, NextPoint, Decide, Move, Send, End, Places
<1>d. number' \in [Sessions -> 0 .. Len(asked')]
  <2>1. number \in [Sessions -> 0 .. Len(asked')]
    BY <1>0, <1>b
  <2>2. ASSUME NEW r \in Requests, Receive(s, r) PROVE number' \in [Sessions -> 0 .. Len(asked')]
    <3>1. number' = [number EXCEPT ![s] = Len(asked) + 1] /\ Len(asked) + 1 \in 0 .. Len(asked')
      BY <1>0, <2>2 DEF Receive
    <3> QED BY <2>1, <3>1
  <2> QED
    BY <2>1, <2>2 DEF StepOf, Handle, Lock, Locate, ReadKnown, ReadUnknown, NextPoint, Decide, Move, Send, End
<1>e. index' \in [Sessions -> Nat \ {0}]
  BY <1>0 DEF StepOf, Handle, Receive, Lock, Locate, ReadKnown, ReadUnknown, NextPoint, Decide, Move, Send, End
<1>g. verdict' \in [Sessions -> Verdicts]
  <2>1. Final(s) \in Verdicts
    BY <1>0 DEF Final, Verdicts
  <2> QED
    BY <1>0, <2>1 DEF StepOf, Handle, Receive, Lock, Locate, ReadKnown, ReadUnknown, NextPoint, Decide, Move, Send, End, Verdicts
<1>h. confidence' \in [Sessions -> Nat]
  <2>1. CASE ReadKnown(s)
    <3>1. Weight[Req(s).points[index[s]]] \in Nat
      BY <2>1, AtPoint, ServiceAssumption DEF ReadKnown
    <3> QED BY <1>0, <2>1, <3>1 DEF ReadKnown
  <2>2. CASE Locate(s)
    BY <1>0, <2>2 DEF Locate
  <2>3. CASE Decide(s)
    <3>1. confidence[s] \in Nat
      BY <1>0
    <3> QED BY <1>0, <2>3, <3>1 DEF Decide
  <2> QED
    BY <1>0, <2>1, <2>2, <2>3 DEF StepOf, Handle, Receive, Lock, ReadUnknown, NextPoint, Move, Send, End
<1>i. mu' \in Streams \cup {Free}
  <2>1. ASSUME Lock(s) PROVE s \in Streams
    BY <2>1 DEF Lock, Shapes
  <2> QED
    BY <1>0, <2>1 DEF StepOf, Handle, Receive, Lock, Locate, ReadKnown, ReadUnknown, NextPoint, Decide, Move, Send, End
<1>j. failures' \in 0 .. MaxFailures
  BY <1>0, <1>f DEF StepOf, Handle, Receive, Lock, Locate, ReadKnown, ReadUnknown, NextPoint, Decide, Move, Send, End
<1>k. UNCHANGED <<stores, waiter, crashed, closing>>
  BY DEF StepOf, Handle, Receive, Lock, Locate, ReadKnown, ReadUnknown, NextPoint, Decide, Move, Send, End, group
<1>l. \A u \in Sessions : Busy(u)' => number'[u] # 0
  <2> SUFFICES ASSUME NEW u \in Sessions, Busy(u)' PROVE number'[u] # 0
    OBVIOUS
  <2>1. CASE u = s
    <3>1. CASE number'[s] = Len(asked) + 1
      BY <1>0, <2>1, <3>1
    <3>2. CASE Busy(s) /\ number'[s] = number[s]
      BY <2>1, <3>2 DEF TypeOK
    <3> QED BY <2>1, <3>1, <3>2, Arrivals DEF Busy
  <2>2. CASE u # s
    BY <2>2, Others DEF TypeOK, Busy
  <2> QED BY <2>1, <2>2
<1>m. /\ tasks' \subseteq TaskSet /\ wg' \in Nat
      /\ \A t \in tasks' : t.by \in 1 .. Len(asked) /\ (t.kind = "record" => t.point \in Points)
  <2>1. CASE UNCHANGED <<tasks, wg>>
    BY <2>1 DEF TypeOK, Shapes
  <2>2. ASSUME NEW t, New(s, t)
        PROVE  /\ tasks' \subseteq TaskSet /\ wg' \in Nat
               /\ \A o \in tasks' : o.by \in 1 .. Len(asked) /\ (o.kind = "record" => o.point \in Points)
    <3>1. Busy(s)
      BY <2>2 DEF New, Busy
    <3>2. t.by \in 1 .. Len(asked)
      BY <2>2, <3>1, Asked DEF New
    <3>3. t.kind = "record" => t.point \in Points
      BY <2>2 DEF New
    <3> QED BY <2>2, <3>2, <3>3 DEF New, TypeOK, Shapes
  <2> QED BY <2>1, <2>2, Starts
<1>n. decided' \subseteq [by : Nat, verdict : Verdicts]
  <2>1. number[s] \in Nat /\ Final(s) \in Verdicts
    BY <1>0 DEF Final, Verdicts
  <2>2. CASE Decide(s)
    BY <2>1, <2>2 DEF Decide, Shapes
  <2> QED
    BY <2>2 DEF StepOf, Handle, Receive, Lock, Locate, ReadKnown, ReadUnknown, NextPoint, Move, Send, End, Shapes, seen
<1>t. \A u \in Sessions : pc'[u] = "lock" => u \in Streams
  <2>1. pc'[s] = "lock" => s \in Streams
    BY <1>0 DEF StepOf, Handle, Receive, Lock, Locate, ReadKnown, ReadUnknown, NextPoint, Decide, Move, Send, End
  <2> QED BY <2>1, Others DEF Shapes
<1>o. \A u \in Sessions : pc'[u] = "points" => index'[u] <= Len(Req(u)'.points)
  <2> SUFFICES ASSUME NEW u \in Sessions, pc'[u] = "points" PROVE index'[u] <= Len(Req(u)'.points)
    OBVIOUS
  <2>1. CASE u = s
    <3>1. Busy(s) /\ Req(s)' = Req(s)
      BY <1>0, <2>1, Arrivals DEF Req
    <3>2. Len(Req(s).points) \in Nat
      BY <3>1, Asked
    <3>3. CASE Locate(s)
      <4>1. Req(s).points # <<>> /\ index'[s] = 1
        BY <1>0, <2>1, <3>3 DEF Locate
      <4> QED BY <2>1, <3>1, <4>1, Asked
    <3>4. CASE NextPoint(s) /\ pc[s] = "points"
      <4>1. index[s] # Len(Req(s).points) /\ index'[s] = index[s] + 1 /\ index[s] \in Nat
        BY <1>0, <2>1, <3>4 DEF NextPoint
      <4>2. index[s] <= Len(Req(s).points)
        BY <3>4 DEF Shapes
      <4> QED BY <2>1, <3>1, <3>2, <4>1, <4>2
    <3> QED
      BY <1>0, <2>1, <3>3, <3>4 DEF StepOf, Handle, Receive, Lock, ReadKnown, ReadUnknown, Decide, Move, Send, End
  <2>2. CASE u # s
    <3>1. pc[u] = "points" /\ index'[u] = index[u] /\ number'[u] = number[u]
      BY <2>2, Others
    <3>2. number[u] \in 1 .. Len(asked)
      BY <3>1, Asked DEF Busy
    <3>3. Req(u)' = Req(u)
      BY <1>b, <3>1, <3>2 DEF Req
    <3> QED BY <3>1, <3>3 DEF Shapes
  <2> QED BY <2>1, <2>2
<1>p. Shapes'
  BY <1>m, <1>n, <1>o, <1>t DEF Shapes
<1>q. location' \in [Devices -> 0 .. Len(asked')] /\ cache' = cache
  BY <1>0, <1>b, <1>k DEF stores, TypeOK
<1>r. \A t \in tasks' : t.kind \in {"record", "history", "location"} /\ t.by \in 1 .. Len(asked')
  BY <1>0, <1>b, <1>m DEF TaskSet
<1>s. TypeOK'
  BY <1>a, <1>c, <1>d, <1>e, <1>g, <1>h, <1>i, <1>j, <1>k, <1>l, <1>m, <1>q, <1>r DEF TypeOK, closing
<1> QED BY <1>p, <1>s

LEMMA TasksKeepTypes ==
    ASSUME TypeOK, Shapes, NEW t \in tasks, Work(t), wg - 1 \in Nat
    PROVE  TypeOK' /\ Shapes'
<1>1. /\ tasks' = tasks \ {t} /\ wg' \in Nat
      /\ waiter' \in {"none", "started", "waiting", "woken", "closed"}
      /\ UNCHANGED <<handlers, crashed, closing, seen>>
  BY Ends DEF Done, TypeOK
<1>2. failures' \in 0 .. MaxFailures
  <2>1. failures \in 0 .. MaxFailures /\ MaxFailures \in Nat
    BY ServiceAssumption DEF TypeOK
  <2>2. Fail => failures' \in 0 .. MaxFailures
    BY <2>1 DEF Fail
  <2> QED BY <2>1, <2>2 DEF Work, Record, SaveToHistory, SetLastKnownLocation
<1>3. t.by \in 1 .. Len(asked) /\ t.by \in Nat /\ t.by \in 0 .. Len(asked)
  BY DEF TypeOK
<1>4. cache' \in [Points -> Nat \cup {Absent, Before}]
  BY <1>3 DEF Work, Record, SaveToHistory, SetLastKnownLocation, TypeOK
<1>5. location' \in [Devices -> 0 .. Len(asked)]
  BY <1>3 DEF Work, Record, SaveToHistory, SetLastKnownLocation, TypeOK
<1>6. Shapes'
  BY <1>1 DEF Shapes, handlers, seen, Req
<1> QED BY <1>1, <1>2, <1>4, <1>5, <1>6 DEF TypeOK, handlers, closing, Busy

LEMMA ShutdownKeepsTypes ==
    ASSUME TypeOK, Shapes, StepOfShutdown
    PROVE  TypeOK' /\ Shapes'
<1>1. /\ UNCHANGED <<handlers, stores, tasks, wg, failures, seen>>
      /\ waiter' \in {"none", "started", "waiting", "woken", "closed"}
      /\ shutdown' \in {"no", "select", "nil", "timeout"}
  BY DEF StepOfShutdown, Shutdown, Wait, Resume, Return, TypeOK, group, closing
<1> QED BY <1>1 DEF TypeOK, Shapes, handlers, stores, seen, Busy, Req

-----------------------------------------------------------------------------
(* The sessions, their goroutines and the wait group                       *)

\* A session that starts a goroutine is on a request, with one it did not have.
LEMMA NewIsNew ==
    ASSUME TypeOK, Order, NEW s \in Sessions, NEW t, New(s, t)
    PROVE  Busy(s) /\ number[s] \in 1 .. Len(asked) /\ t \notin tasks
<1>1. Busy(s)
  BY DEF New, Busy
<1>2. index[s] \in Nat
  BY DEF TypeOK
<1> QED BY <1>1, <1>2, Asked DEF New, Order

LEMMA SessionsKeepOrder ==
    ASSUME TypeOK, Shapes, Order, NEW s \in Sessions, StepOf(s)
    PROVE  Order'
<1>a. Len(asked) \in Nat /\ pc \in [Sessions -> Places] /\ \A t \in tasks : t.by \in 1 .. Len(asked)
  BY Arrivals DEF TypeOK
<1>b. \A u \in Sessions : Busy(u) => number[u] \in 1 .. Len(asked)
  BY Asked
<1>1. ASSUME NEW u \in Sessions, NEW v \in Sessions, Busy(u)', Busy(v)', u # v
      PROVE  number'[u] # number'[v]
  <2>1. CASE u # s /\ v # s
    <3>1. Busy(u) /\ Busy(v) /\ number'[u] = number[u] /\ number'[v] = number[v]
      BY <1>1, <2>1, Others DEF Busy
    <3> QED BY <1>1, <3>1 DEF Order
  <2>2. ASSUME NEW x \in Sessions, x # s, Busy(x)', Busy(s)' PROVE number'[x] # number'[s]
    <3>1. Busy(x) /\ number'[x] = number[x] /\ number[x] \in 1 .. Len(asked)
      BY <1>b, <2>2, Others DEF Busy
    <3>2. CASE number'[s] = Len(asked) + 1
      BY <1>a, <3>1, <3>2
    <3>3. CASE Busy(s) /\ number'[s] = number[s]
      BY <2>2, <3>1, <3>3 DEF Order
    <3> QED BY <2>2, <3>2, <3>3, Arrivals DEF Busy
  <2> QED BY <1>1, <2>1, <2>2
<1>2. ASSUME NEW u \in Sessions, NEW t \in tasks', Busy(u)', t.by = number'[u]
      PROVE  /\ pc'[u] \notin {"lock", "locate"}
             /\ t.kind = "record" /\ pc'[u] = "points" => t.slot < index'[u]
             /\ t.kind = "history" => pc'[u] \in {"location", "send"}
             /\ t.kind = "location" => pc'[u] = "send"
  <2>1. CASE u # s
    <3>1. Busy(u) /\ number'[u] = number[u] /\ pc'[u] = pc[u] /\ index'[u] = index[u]
      BY <1>2, <2>1, Others DEF Busy
    <3>2. t \in tasks
      <4>1. ASSUME NEW n, New(s, n), t = n PROVE FALSE
        BY <1>2, <2>1, <3>1, <4>1, NewIsNew DEF New, Order
      <4> QED BY <1>2, <4>1, Starts DEF New
    <3> QED BY <1>2, <3>1, <3>2 DEF Order
  <2>2. CASE u = s
    <3>1. CASE t \in tasks
      <4>1. Busy(s) /\ number'[s] = number[s]
        BY <1>2, <1>a, <2>2, <3>1, Arrivals DEF Busy
      <4>2. /\ pc[s] \notin {"lock", "locate"}
            /\ t.kind = "record" /\ pc[s] = "points" => t.slot < index[s]
            /\ t.kind = "history" => pc[s] \in {"location", "send"}
            /\ t.kind = "location" => pc[s] = "send"
        BY <1>2, <2>2, <3>1, <4>1 DEF Order
      <4>3. /\ pc[s] \in {"points", "history", "location", "send"}
            /\ index[s] \in Nat /\ t.slot \in Nat
        BY <1>a, <3>1, <4>1, <4>2 DEF TypeOK, Places, Busy, Shapes, TaskSet
      <4>4. CASE NextPoint(s) /\ pc[s] = "points"
        <5>1. index'[s] = index[s] + 1 /\ (pc'[s] = "points" \/ pc'[s] = "history")
          BY <1>a, <4>3, <4>4 DEF NextPoint, TypeOK
        <5> QED BY <2>2, <4>2, <4>3, <4>4, <5>1
      <4>5. CASE Decide(s) \/ Move(s) \/ Send(s)
        <5>1. \/ pc[s] = "history" /\ pc'[s] = "location"
              \/ pc[s] = "location" /\ pc'[s] = "send"
              \/ pc[s] = "send" /\ pc'[s] \in {"recv", "ended"}
          BY <1>a, <4>5 DEF Decide, Move, Send
        <5> QED BY <1>2, <2>2, <4>2, <5>1 DEF Busy
      <4> QED BY <4>3, <4>4, <4>5 DEF StepOf, Handle, Receive, Lock, Locate, ReadKnown, ReadUnknown, End
    <3>2. ASSUME NEW n, New(s, n), t = n
          PROVE  /\ pc'[s] \notin {"lock", "locate"}
                 /\ t.kind = "record" /\ pc'[s] = "points" => t.slot < index'[s]
                 /\ t.kind = "history" => pc'[s] \in {"location", "send"}
                 /\ t.kind = "location" => pc'[s] = "send"
      <4>1. index[s] \in Nat
        BY DEF TypeOK
      <4> QED BY <3>2, <4>1 DEF New
    <3> QED BY <1>2, <2>2, <3>1, <3>2, Starts DEF New
  <2> QED BY <2>1, <2>2
<1> QED BY <1>1, <1>2 DEF Order

LEMMA SessionsKeepCounted ==
    ASSUME TypeOK, Shapes, Order, Counted, NEW s \in Sessions, StepOf(s)
    PROVE  Counted'
<1>1. waiter' = waiter /\ wg \in Nat
  BY DEF StepOf, Handle, Receive, Lock, Locate, ReadKnown, ReadUnknown, NextPoint, Decide, Move, Send, End, group, TypeOK
<1>2. ASSUME NEW t, New(s, t) PROVE Counted'
  <2>1. t \notin tasks /\ tasks' = tasks \cup {t} /\ wg' = wg + 1
    BY <1>2, NewIsNew DEF New
  <2>2. IsFiniteSet(tasks') /\ Cardinality(tasks') = Cardinality(tasks) + 1
    BY <2>1, FS_AddElement DEF Counted
  <2> QED BY <1>1, <2>1, <2>2 DEF Counted
<1> QED BY <1>1, <1>2, Starts DEF Counted

LEMMA TasksKeepCounted ==
    ASSUME TypeOK, Counted, NEW t \in tasks, Work(t)
    PROVE  Counted' /\ wg - 1 \in Nat
<1>1. tasks' = tasks \ {t} /\ wg' = wg - 1 /\ waiter' = IF wg = 1 /\ waiter = "waiting" THEN "woken" ELSE waiter
  BY Ends DEF Done
<1>2. IsFiniteSet(tasks') /\ Cardinality(tasks') = Cardinality(tasks) - 1
  BY <1>1, FS_RemoveElement DEF Counted
<1>3. wg \in Nat /\ wg # 0
  <2>1. Cardinality(tasks) # 0
    BY FS_EmptySet DEF Counted
  <2> QED BY <2>1 DEF Counted, TypeOK
<1> QED BY <1>1, <1>2, <1>3 DEF Counted

\* At zero there is no goroutine.
LEMMA ZeroIsEmpty == ASSUME Counted PROVE wg = 0 <=> tasks = {}
BY FS_EmptySet DEF Counted

LEMMA ShutdownKeepsCounted ==
    ASSUME TypeOK, Counted, StepOfShutdown
    PROVE  Counted'
<1>1. UNCHANGED <<tasks, wg>> /\ (waiter' = "waiting" => waiter = "waiting" \/ wg # 0)
  BY DEF StepOfShutdown, Shutdown, Wait, Resume, Return, group
<1> QED BY <1>1 DEF Counted

-----------------------------------------------------------------------------
(* Shutdown                                                                *)

LEMMA SessionsKeepClosed ==
    ASSUME TypeOK, Shapes, Order, Closed, NEW s \in Sessions, StepOf(s), ~crashed
    PROVE  Closed'
<1>1. UNCHANGED <<waiter, crashed, shutdown, handled>>
  BY DEF StepOf, Handle, Receive, Lock, Locate, ReadKnown, ReadUnknown, NextPoint, Decide, Move, Send, End,
     group, closing
<1>2. handled' \subseteq 1 .. Len(asked')
  BY <1>1, Arrivals DEF Closed
<1>3. ASSUME NEW u \in Sessions, Busy(u)' PROVE number'[u] \notin handled
  <2>1. CASE u # s
    BY <1>3, <2>1, Others DEF Closed, Busy
  <2>2. CASE u = s
    <3>1. CASE number'[s] = Len(asked) + 1
      <4>1. Len(asked) + 1 \notin 1 .. Len(asked)
        BY Arrivals
      <4> QED BY <2>2, <3>1, <4>1 DEF Closed
    <3> QED BY <1>3, <2>2, <3>1, Arrivals DEF Closed, Busy
  <2> QED BY <2>1, <2>2
<1>4. \A t \in tasks' : t \in tasks \/ t.by \notin handled
  BY Starts, NewIsNew DEF New, Closed
<1> QED BY <1>1, <1>2, <1>3, <1>4 DEF Closed, OrderlyShutdown

LEMMA TasksKeepClosed ==
    ASSUME TypeOK, Counted, Closed, NEW t \in tasks, Work(t), ~crashed
    PROVE  Closed'
<1>1. tasks' = tasks \ {t} /\ wg' = wg - 1 /\ UNCHANGED <<handlers, closing, crashed>>
  BY Ends DEF Done
<1>2. \/ waiter' = waiter
      \/ wg = 1 /\ waiter = "waiting" /\ waiter' = "woken"
  BY Ends DEF Done
<1>3. wg = 1 => tasks' = {}
  <2>1. Counted'
    BY TasksKeepCounted
  <2>2. wg' = 0 <=> tasks' = {}
    BY <2>1, FS_EmptySet DEF Counted
  <2> QED BY <1>1, <2>2
<1> QED BY <1>1, <1>2, <1>3 DEF Closed, OrderlyShutdown, handlers, closing, Busy

LEMMA ShutdownKeepsClosed ==
    ASSUME TypeOK, Counted, Closed, StepOfShutdown, ~crashed
    PROVE  Closed'
<1>0. DOMAIN asked = 1 .. Len(asked) /\ UNCHANGED <<asked, pc, number, tasks, wg>>
  BY DEF StepOfShutdown, Shutdown, Wait, Resume, Return, TypeOK, handlers, group
<1>1. CASE Shutdown
  BY <1>0, <1>1 DEF Shutdown, Closed, OrderlyShutdown, Busy
<1>2. CASE Wait
  <2>1. waiter' \in {"closed", "waiting"} /\ (waiter' = "closed" => tasks = {})
    BY <1>2, ZeroIsEmpty DEF Wait
  <2> QED BY <1>0, <1>2, <2>1 DEF Wait, Closed, OrderlyShutdown, closing, Busy
<1>3. CASE Resume
  <2>1. crashed' => handled # DOMAIN asked
    <3> SUFFICES ASSUME crashed' PROVE handled # DOMAIN asked
      OBVIOUS
    <3>1. wg # 0 /\ waiter = "woken"
      BY <1>3 DEF Resume
    <3>2. PICK t \in tasks : TRUE
      BY <3>1, ZeroIsEmpty
    <3>3. t.by \in 1 .. Len(asked) /\ t.by \notin handled
      BY <3>1, <3>2 DEF Closed, TypeOK
    <3> QED BY <1>0, <3>3
  <2> QED BY <1>0, <1>3, <2>1 DEF Resume, Closed, OrderlyShutdown, closing, Busy
<1>4. CASE Return("nil") \/ Return("timeout")
  <2>1. /\ shutdown = "select" /\ shutdown' \in {"nil", "timeout"}
        /\ shutdown' = "nil" => waiter = "closed"
        /\ UNCHANGED <<waiter, crashed, handled>>
    BY <1>4 DEF Return, group
  <2> QED BY <1>0, <2>1 DEF Closed, OrderlyShutdown, Busy
<1> QED BY <1>1, <1>2, <1>3, <1>4 DEF StepOfShutdown

-----------------------------------------------------------------------------
(* The known points                                                        *)

LEMMA SessionsKeepBlind ==
    ASSUME TypeOK, Shapes, Blind, NEW s \in Sessions, StepOf(s)
    PROVE  Blind'
<1>1. UNCHANGED cache /\ blinded \subseteq blinded'
  BY DEF StepOf, Handle, Receive, Lock, Locate, ReadKnown, ReadUnknown, NextPoint, Decide, Move, Send, End,
     stores, seen
<1>2. \A t \in tasks' : t \in tasks \/ (t.kind = "record" /\ t.point \in Known => t.point \in blinded')
  <2>1. CASE ReadUnknown(s)
    BY <2>1 DEF ReadUnknown, Go, Task
  <2>2. CASE UNCHANGED tasks
    BY <2>2
  <2>3. CASE Decide(s) \/ Move(s)
    <3>1. \A t : New(s, t) => t.kind # "record"
      BY <2>3 DEF Decide, Move, New
    <3> QED BY <3>1, Starts DEF New
  <2> QED
    BY <2>1, <2>2, <2>3 DEF StepOf, Handle, Receive, Lock, Locate, ReadKnown, Send, End, group
<1> QED BY <1>1, <1>2 DEF Blind, KnownPointsAreKept

LEMMA TasksKeepBlind ==
    ASSUME TypeOK, Shapes, Blind, NEW t \in tasks, Work(t)
    PROVE  Blind'
<1>1. tasks' = tasks \ {t} /\ UNCHANGED blinded
  BY Ends DEF Done, seen
<1>2. \A p \in Points : cache'[p] = cache[p] \/ (t.kind = "record" /\ p = t.point)
  BY DEF Work, Record, SaveToHistory, SetLastKnownLocation, TypeOK
<1> QED BY <1>1, <1>2, ServiceAssumption DEF Blind, KnownPointsAreKept

-----------------------------------------------------------------------------
(* The verdicts                                                            *)

LEMMA SessionsKeepOne ==
    ASSUME TypeOK, Shapes, Order, One, NEW s \in Sessions, StepOf(s)
    PROVE  One'
<1>0. /\ pc \in [Sessions -> Places] /\ number \in [Sessions -> 0 .. Len(asked)]
      /\ verdict \in [Sessions -> Verdicts] /\ confidence \in [Sessions -> Nat]
      /\ Len(asked) \in Nat
  BY Arrivals DEF TypeOK
<1>1. CASE Decide(s)
  <2>1. pc[s] = "history" /\ confidence[s] >= 100 /\ verdict[s] # "UNCERTAIN" /\ confidence[s] \in Nat
    BY <1>0, <1>1 DEF Decide, One
  <2>2. Final(s) = verdict[s]
    BY <2>1 DEF Final
  <2>3. /\ decided' = decided \cup {Decision(s)} /\ pc' = [pc EXCEPT ![s] = "location"]
        /\ verdict' = verdict /\ UNCHANGED <<asked, number>>
    BY <1>0, <1>1, <2>2 DEF Decide, Decision
  <2>4. Decision(s).by = number[s] /\ Decision(s).verdict = verdict[s] /\ number[s] \in 1 .. Len(asked)
    BY <2>1, Asked DEF Decision, Busy
  <2>5. \A a \in decided : a.by # number[s]
    BY <2>1 DEF One, Undecided
  <2>6. \A u \in Sessions : u # s /\ Undecided(u) => number[u] # number[s]
    BY <2>1 DEF Order, Busy, Undecided
  <2>7. \A u \in Sessions : Undecided(u)' => u # s /\ Undecided(u)
    BY <1>0, <2>3 DEF Undecided
  <2>8. \A a \in decided' : a.by \in 1 .. Len(asked) /\ a.verdict # "UNCERTAIN"
    BY <2>1, <2>3, <2>4 DEF One
  <2>9. \A a, b \in decided' : a.by = b.by => a = b
    BY <2>3, <2>4, <2>5 DEF One
  <2>10. \A u \in Sessions, a \in decided' : Undecided(u)' => a.by # number[u]
    BY <2>3, <2>4, <2>6, <2>7 DEF One
  <2>11. ASSUME NEW u \in Sessions
         PROVE  /\ pc'[u] \in {"points", "history"} => confidence'[u] >= 100 /\ verdict'[u] # "UNCERTAIN"
                /\ pc'[u] \in {"location", "send"} => Decision(u)' \in decided'
    <3>1. CASE u = s
      BY <1>0, <2>3, <3>1 DEF Decision
    <3>2. CASE u # s
      BY <2>3, <3>2, Others DEF One, Decision
    <3> QED BY <3>1, <3>2
  <2> QED BY <2>3, <2>8, <2>9, <2>10, <2>11 DEF One
<1>2. CASE ~Decide(s)
  <2>1. UNCHANGED decided
    BY <1>2 DEF StepOf, Handle, Receive, Lock, Locate, ReadKnown, ReadUnknown, NextPoint, Move, Send, End, seen
  <2>2. \A a \in decided : a.by \in 1 .. Len(asked')
    BY <1>0, Arrivals DEF One
  <2>3. ASSUME Undecided(s)' PROVE number'[s] = Len(asked) + 1 \/ (Undecided(s) /\ number'[s] = number[s])
    BY <1>0, <2>3 DEF StepOf, Handle, Receive, Lock, Locate, ReadKnown, ReadUnknown, NextPoint, Decide, Move, Send,
       End, Undecided
  <2>4. ASSUME NEW u \in Sessions, NEW a \in decided, Undecided(u)' PROVE a.by # number'[u]
    <3>1. CASE u # s
      BY <2>4, <3>1, Others DEF One, Undecided
    <3>2. CASE u = s
      <4>1. a.by \in 1 .. Len(asked)
        BY DEF One
      <4>2. a.by # Len(asked) + 1
        BY <1>0, <4>1
      <4> QED BY <2>3, <2>4, <3>2, <4>2 DEF One
    <3> QED BY <3>1, <3>2
  <2>5. pc'[s] \in {"points", "history"} => confidence'[s] >= 100 /\ verdict'[s] # "UNCERTAIN"
    <3>1. CASE Locate(s)
      BY <1>0, <3>1 DEF Locate
    <3>2. CASE ReadKnown(s)
      <4>1. Weight[Req(s).points[index[s]]] \in Nat
        BY <3>2, AtPoint, ServiceAssumption DEF ReadKnown
      <4>2. confidence[s] >= 100 /\ verdict[s] # "UNCERTAIN" /\ confidence[s] \in Nat
        BY <1>0, <3>2 DEF ReadKnown, One
      <4> QED BY <1>0, <3>2, <4>1, <4>2 DEF ReadKnown, NextPoint
    <3>3. CASE ReadUnknown(s)
      BY <1>0, <3>3 DEF ReadUnknown, NextPoint, One
    <3> QED
      BY <1>0, <1>2, <3>1, <3>2, <3>3 DEF StepOf, Handle, Receive, Lock, Move, Send, End
  <2>6. pc'[s] \in {"location", "send"} => Decision(s)' \in decided
    BY <1>0, <1>2 DEF StepOf, Handle, Receive, Lock, Locate, ReadKnown, ReadUnknown, NextPoint, Move, Send, End,
       One, Decision
  <2>7. \A u \in Sessions :
           /\ pc'[u] \in {"points", "history"} => confidence'[u] >= 100 /\ verdict'[u] # "UNCERTAIN"
           /\ pc'[u] \in {"location", "send"} => Decision(u)' \in decided
    BY <2>5, <2>6, Others DEF One, Decision
  <2> QED BY <2>1, <2>2, <2>4, <2>7 DEF One
<1> QED BY <1>1, <1>2

\* A request that was decided, has its row or a goroutine for it.
LEMMA SessionsKeepAgreed ==
    ASSUME TypeOK, Shapes, Order, One, Agreed, NEW s \in Sessions, StepOf(s)
    PROVE  Agreed'
<1>0. /\ pc \in [Sessions -> Places] /\ verdict \in [Sessions -> Verdicts]
      /\ number \in [Sessions -> 0 .. Len(asked)]
  BY DEF TypeOK
<1>1. UNCHANGED <<rows, unsaved>>
  BY DEF StepOf, Handle, Receive, Lock, Locate, ReadKnown, ReadUnknown, NextPoint, Decide, Move, Send, End, stores
<1>2. tasks \subseteq tasks' /\ decided \subseteq decided'
  <2>1. decided \subseteq decided'
    BY DEF StepOf, Handle, Receive, Lock, Locate, ReadKnown, ReadUnknown, NextPoint, Decide, Move, Send, End, seen
  <2> QED BY <2>1, Starts DEF New
<1>3. \A a \in decided : Saved(a)'
  BY <1>1, <1>2 DEF Agreed, Saved
<1>4. answered' \subseteq decided'
  <2>1. CASE Send(s)
    <3>1. Decision(s) \in decided
      BY <2>1 DEF Send, One
    <3> QED BY <1>2, <2>1, <3>1 DEF Send, Decision, Agreed
  <2> QED
    BY <1>2, <2>1 DEF StepOf, Handle, Receive, Lock, Locate, ReadKnown, ReadUnknown, NextPoint, Decide, Move, End,
       seen, Agreed
<1>5. CASE Decide(s)
  <2>1. PICK t, a : /\ t = [Task("history", s, NoPoint, 0) EXCEPT !.verdict = Final(s)]
                    /\ a = [by |-> number[s], verdict |-> Final(s)]
                    /\ tasks' = tasks \cup {t} /\ decided' = decided \cup {a}
    BY <1>5 DEF Decide, Go
  <2>2. t.kind = "history" /\ t.by = a.by /\ t.verdict = a.verdict /\ Matching(t) = a
    BY <2>1 DEF Task, Matching
  <2>3. Saved(a)'
    BY <2>1, <2>2 DEF Saved
  <2>4. \A x \in decided' : Saved(x)'
    BY <1>3, <2>1, <2>3
  <2>5. \A x \in tasks' : /\ x.kind \in {"history", "location"} => Matching(x) \in decided'
                          /\ x.kind = "location" => x.verdict # "INVALID" /\ x.point = NoPoint /\ x.slot = 0
    BY <1>2, <2>1, <2>2 DEF Agreed, Matching
  <2> QED BY <1>1, <1>2, <1>4, <2>4, <2>5 DEF Agreed, Matching
<1>6. CASE Move(s)
  <2> DEFINE t == Task("location", s, NoPoint, 0)
  <2>1. Decision(s) \in decided
    BY <1>6 DEF Move, One
  <2>2. t.kind = "location" /\ t.verdict = verdict[s] /\ t.point = NoPoint /\ t.slot = 0 /\ Matching(t) = Decision(s)
    BY DEF Task, Matching, Decision
  <2>3. UNCHANGED tasks \/ (tasks' = tasks \cup {t} /\ verdict[s] # "INVALID")
    BY <1>6 DEF Move, Go
  <2>4. UNCHANGED decided
    BY <1>6 DEF Move, seen
  <2> HIDE DEF t
  <2>5. \A x \in tasks' : /\ x.kind \in {"history", "location"} => Matching(x) \in decided
                          /\ x.kind = "location" => x.verdict # "INVALID" /\ x.point = NoPoint /\ x.slot = 0
    BY <2>1, <2>2, <2>3 DEF Agreed
  <2> QED BY <1>1, <1>3, <1>4, <2>4, <2>5 DEF Agreed, Matching
<1>7. CASE ~Decide(s) /\ ~Move(s)
  <2>1. UNCHANGED decided
    BY <1>7 DEF StepOf, Handle, Receive, Lock, Locate, ReadKnown, ReadUnknown, NextPoint, Send, End, seen
  <2>2. \A t \in tasks' : t \in tasks \/ t.kind = "record"
    <3>1. CASE ReadUnknown(s)
      BY <3>1 DEF ReadUnknown, Go, Task
    <3> QED
      BY <1>7, <3>1 DEF StepOf, Handle, Receive, Lock, Locate, ReadKnown, Send, End, group
  <2> QED BY <1>1, <1>3, <1>4, <2>1, <2>2 DEF Agreed, Matching
<1> QED BY <1>5, <1>6, <1>7

LEMMA TasksKeepAgreed ==
    ASSUME TypeOK, Shapes, One, Agreed, NEW t \in tasks, Work(t)
    PROVE  Agreed'
<1>1. tasks' = tasks \ {t} /\ UNCHANGED <<decided, answered>>
  BY Ends DEF Done, seen
<1>2. \/ UNCHANGED <<rows, unsaved>> /\ t.kind # "history"
      \/ t.kind = "history" /\ rows' = rows \cup {Matching(t)} /\ UNCHANGED unsaved
      \/ t.kind = "history" /\ unsaved' = unsaved \cup {t.by} /\ UNCHANGED rows
  BY DEF Work, Record, SaveToHistory, SetLastKnownLocation, Matching
<1>3. rows' \subseteq decided
  BY <1>2 DEF Agreed
<1>4. ASSUME NEW a \in decided PROVE Saved(a)'
  <2>1. CASE a \in rows \/ a.by \in unsaved
    BY <1>2, <2>1 DEF Saved
  <2>2. CASE a \notin rows /\ a.by \notin unsaved
    <3>1. PICK h \in tasks : h.kind = "history" /\ h.by = a.by /\ h.verdict = a.verdict
      BY <2>2 DEF Agreed, Saved
    <3>2. CASE h # t
      BY <1>1, <3>1, <3>2 DEF Saved
    <3>3. CASE h = t
      <4>1. Matching(t) = a
        BY <3>1, <3>3 DEF Matching, Shapes
      <4> QED BY <1>2, <3>1, <3>3, <4>1 DEF Saved
    <3> QED BY <3>2, <3>3
  <2> QED BY <2>1, <2>2
<1> QED BY <1>1, <1>3, <1>4 DEF Agreed, Matching

-----------------------------------------------------------------------------
(* The invariant is inductive                                              *)

LEMMA SessionsKeepIInv ==
    ASSUME IInv, NEW s \in Sessions, StepOf(s), ~crashed
    PROVE  IInv'
<1>1. wg + 1 \in Nat
  BY DEF IInv, TypeOK
<1> QED
  BY <1>1, SessionsKeepTypes, SessionsKeepOrder, SessionsKeepCounted, SessionsKeepClosed, SessionsKeepBlind,
     SessionsKeepOne, SessionsKeepAgreed DEF IInv

LEMMA TasksKeepIInv ==
    ASSUME IInv, NEW t \in tasks, Work(t), ~crashed
    PROVE  IInv'
<1>1. tasks' = tasks \ {t} /\ UNCHANGED <<handlers, closing, seen>>
  BY Ends DEF Done
<1>2. Order' /\ One'
  BY <1>1 DEF IInv, Order, One, handlers, seen, Busy, Undecided, Decision
<1> QED
  BY <1>2, TasksKeepTypes, TasksKeepCounted, TasksKeepClosed, TasksKeepBlind, TasksKeepAgreed DEF IInv

LEMMA ShutdownKeepsIInv ==
    ASSUME IInv, StepOfShutdown, ~crashed
    PROVE  IInv'
<1>1. UNCHANGED <<handlers, stores, tasks, seen>>
  BY DEF StepOfShutdown, Shutdown, Wait, Resume, Return, group
<1>2. Order' /\ Blind' /\ One' /\ Agreed'
  BY <1>1 DEF IInv, Order, Blind, One, Agreed, KnownPointsAreKept, handlers, stores, seen, Busy, Undecided, Decision,
     Matching, Saved
<1> QED
  BY <1>2, ShutdownKeepsTypes, ShutdownKeepsCounted, ShutdownKeepsClosed DEF IInv

LEMMA StepCases ==
    ASSUME [Next]_vars
    PROVE  \/ ~crashed /\ \E s \in Sessions : StepOf(s)
           \/ ~crashed /\ \E t \in tasks : Work(t)
           \/ ~crashed /\ StepOfShutdown
           \/ UNCHANGED vars
BY DEF Next, StepOf, StepOfShutdown, Halted

LEMMA Invariant == Spec => []IInv
<1>1. IInv /\ [Next]_vars => IInv'
  <2> SUFFICES ASSUME IInv, [Next]_vars PROVE IInv'
    OBVIOUS
  <2>1. CASE UNCHANGED vars
    <3>1. UNCHANGED <<handlers, stores, group, closing, failures, seen>>
      BY <2>1 DEF vars
    <3>2. TypeOK' /\ Shapes' /\ Order'
      BY <3>1 DEF IInv, TypeOK, Shapes, Order, handlers, stores, group, closing, seen, Busy, Req
    <3>3. Counted' /\ Closed' /\ Blind'
      BY <3>1 DEF IInv, Counted, Closed, OrderlyShutdown, Blind, KnownPointsAreKept, handlers, stores, group, closing,
         seen, Busy
    <3>4. One' /\ Agreed'
      BY <3>1 DEF IInv, One, Agreed, handlers, stores, group, seen, Undecided, Decision, Matching, Saved
    <3> QED BY <3>2, <3>3, <3>4 DEF IInv
  <2> QED BY <2>1, StepCases, SessionsKeepIInv, TasksKeepIInv, ShutdownKeepsIInv
<1> QED BY <1>1, InitIInv, PTL DEF Spec

-----------------------------------------------------------------------------
(* The last known locations                                                *)

\* The accepted requests whose location a session or a goroutine still has.
OnItsWay(n) == \/ \E t \in tasks : t.kind = "location" /\ t.by = n
               \/ \E s \in Sessions : pc[s] = "location" /\ number[s] = n
ComingNow == {n \in Accepted : \/ \E t \in tasks : t.kind = "location" /\ t.by = n
                               \/ \E s \in Sessions : pc[s] = "location" /\ number[s] = n}

\* Requests do not change once they arrived.
Kept == \A n \in 1 .. Len(asked) : asked'[n] = asked[n]

LEMMA AcceptedArrived == ASSUME One PROVE Accepted \subseteq 1 .. Len(asked) /\ ComingNow \subseteq Accepted
BY DEF One, Accepted, ComingNow

LEMMA TrackStutters ==
    ASSUME One, Kept, UNCHANGED location, Accepted' = Accepted, ComingNow' = ComingNow
    PROVE  UNCHANGED Track!vars
<1>1. ASSUME NEW d \in Devices, NEW S, S \subseteq 1 .. Len(asked)
      PROVE  {n \in S : asked'[n].device = d} = {n \in S : asked[n].device = d}
  BY <1>1 DEF Kept
<1>2. \A d \in Devices : /\ {n \in Accepted : asked'[n].device = d} = {n \in Accepted : asked[n].device = d}
                         /\ {n \in ComingNow : asked'[n].device = d} = {n \in ComingNow : asked[n].device = d}
  BY <1>1, AcceptedArrived
<1>3. \A d \in Devices : /\ LocationsOf(d, Accepted)' = LocationsOf(d, Accepted)
                         /\ LocationsOf(d, ComingNow)' = LocationsOf(d, ComingNow)
  BY <1>2 DEF LocationsOf
<1>4. /\ [d \in Devices |-> LocationsOf(d, Accepted)]' = [d \in Devices |-> LocationsOf(d, Accepted)]
      /\ [d \in Devices |-> LocationsOf(d, ComingNow)]' = [d \in Devices |-> LocationsOf(d, ComingNow)]
  BY <1>3
<1> QED BY <1>4 DEF Track!vars, ComingNow

LEMMA DecideTracks ==
    ASSUME IInv, NEW s \in Sessions, Decide(s)
    PROVE  [Track!Next]_(Track!vars)
<1>0. TypeOK /\ Order /\ One /\ pc \in [Sessions -> Places] /\ pc[s] = "history"
  BY DEF IInv, TypeOK, Decide
<1>1. /\ pc' = [pc EXCEPT ![s] = "location"] /\ UNCHANGED <<asked, number, location>>
      /\ decided' = decided \cup {[by |-> number[s], verdict |-> Final(s)]}
  BY DEF Decide, stores
<1>2. \A t : t \in tasks' /\ t.kind = "location" <=> t \in tasks /\ t.kind = "location"
  BY Starts, <1>0, <1>1 DEF New, IInv, StepOf, Handle
<1>3. number[s] \in 1 .. Len(asked) /\ Req(s).device \in Devices
  BY <1>0, Asked DEF Busy
<1>4. number[s] \notin Accepted
  BY <1>0 DEF One, Accepted, Undecided
<1>5. \A n : n # number[s] => (OnItsWay(n)' <=> OnItsWay(n))
  BY <1>0, <1>1, <1>2 DEF OnItsWay
<1>6. CASE Final(s) = "INVALID"
  <2>1. Accepted' = Accepted
    BY <1>1, <1>6 DEF Accepted
  <2>2. ComingNow' = ComingNow
    BY <1>4, <1>5, <2>1 DEF ComingNow, OnItsWay
  <2> QED BY <1>0, <1>1, <2>1, <2>2, TrackStutters DEF Kept
<1>7. CASE Final(s) # "INVALID"
  <2>1. PICK n, d : n = number[s] /\ d = Req(s).device /\ n \in 1 .. MaxRequests /\ d \in Devices
    <3>1. Len(asked) \in Nat /\ Len(asked) <= MaxRequests /\ MaxRequests \in Nat
      BY <1>0, ServiceAssumption DEF TypeOK
    <3>2. number[s] \in 1 .. MaxRequests
      BY <1>3, <3>1
    <3> QED BY <1>3, <3>2
  <2>2. Accepted' = Accepted \cup {n}
    <3>1. PICK a : /\ a = [by |-> number[s], verdict |-> Final(s)]
                   /\ decided' = decided \cup {a}
      BY <1>1
    <3>2. a.by = n /\ a.verdict # "INVALID"
      BY <1>7, <2>1, <3>1
    <3>3. {x \in decided' : x.verdict # "INVALID"} = {x \in decided : x.verdict # "INVALID"} \cup {a}
      BY <3>1, <3>2
    <3> QED BY <3>2, <3>3 DEF Accepted
  <2>3. OnItsWay(n)'
    BY <1>0, <1>1, <2>1 DEF OnItsWay
  <2>4. ComingNow' = ComingNow \cup {n}
    BY <1>4, <1>5, <2>1, <2>2, <2>3 DEF ComingNow, OnItsWay
  <2>5. asked[n].device = d
    BY <2>1 DEF Req
  <2> DEFINE A == [e \in Devices |-> LocationsOf(e, Accepted)]
             C == [e \in Devices |-> LocationsOf(e, ComingNow)]
  <2>6. /\ \A e \in Devices : LocationsOf(e, Accepted)' =
                IF e = d THEN LocationsOf(e, Accepted) \cup {n} ELSE LocationsOf(e, Accepted)
        /\ \A e \in Devices : LocationsOf(e, ComingNow)' =
                IF e = d THEN LocationsOf(e, ComingNow) \cup {n} ELSE LocationsOf(e, ComingNow)
    BY <1>1, <2>2, <2>4, <2>5 DEF LocationsOf
  <2>7. A' = [A EXCEPT ![d] = @ \cup {n}] /\ C' = [C EXCEPT ![d] = @ \cup {n}]
    BY <2>1, <2>6
  <2>8. \A other \in Devices : n \notin A[other]
    BY <1>4, <2>1 DEF LocationsOf
  <2>9. Track!Accept(d, n)
    BY <1>1, <2>7, <2>8 DEF Track!Accept, ComingNow
  <2> QED BY <2>1, <2>9 DEF Track!Next
<1> QED BY <1>6, <1>7

LEMMA SessionsTrack ==
    ASSUME IInv, NEW s \in Sessions, StepOf(s), ~Decide(s)
    PROVE  UNCHANGED Track!vars
<1>0. TypeOK /\ Order /\ One /\ Agreed /\ pc \in [Sessions -> Places]
  BY DEF IInv, TypeOK
<1>1. UNCHANGED <<decided, location>>
  BY DEF StepOf, Handle, Receive, Lock, Locate, ReadKnown, ReadUnknown, NextPoint, Move, Send, End, seen, stores
<1>2. Accepted' = Accepted /\ Kept
  BY <1>0, <1>1, Arrivals DEF Accepted, Kept
<1>3. CASE Move(s)
  <2>1. pc[s] = "location" /\ pc' = [pc EXCEPT ![s] = "send"] /\ UNCHANGED number
    BY <1>3 DEF Move
  <2>2. Decision(s) \in decided
    BY <1>0, <2>1 DEF One
  <2>3. CASE verdict[s] = "INVALID"
    <3>1. number[s] \notin Accepted
      BY <1>0, <2>2, <2>3 DEF One, Decision, Accepted
    <3>2. UNCHANGED tasks
      BY <1>3, <2>3 DEF Move
    <3>3. \A n \in Accepted : OnItsWay(n)' <=> OnItsWay(n)
      BY <1>0, <2>1, <3>1, <3>2 DEF OnItsWay
    <3> QED BY <1>0, <1>1, <1>2, <3>3, TrackStutters DEF ComingNow, OnItsWay
  <2>4. CASE verdict[s] # "INVALID"
    <3>1. PICK t : t = Task("location", s, NoPoint, 0) /\ tasks' = tasks \cup {t}
      BY <1>3, <2>4 DEF Move, Go
    <3>2. t.kind = "location" /\ t.by = number[s]
      BY <3>1 DEF Task
    <3>3. \A n \in Accepted : OnItsWay(n)' <=> OnItsWay(n)
      BY <1>0, <2>1, <3>1, <3>2 DEF OnItsWay
    <3> QED BY <1>0, <1>1, <1>2, <3>3, TrackStutters DEF ComingNow, OnItsWay
  <2> QED BY <2>3, <2>4
<1>4. CASE ~Move(s)
  <2>1. pc[s] # "location" /\ pc'[s] # "location"
    BY <1>0, <1>4 DEF StepOf, Handle, Receive, Lock, Locate, ReadKnown, ReadUnknown, NextPoint, Send, End
  <2>2. \A t : t \in tasks' /\ t.kind = "location" <=> t \in tasks /\ t.kind = "location"
    BY <2>1, Starts DEF IInv, New
  <2>3. \A u \in Sessions : pc'[u] = "location" <=> pc[u] = "location"
    BY <1>0, <2>1, Others
  <2>4. \A u \in Sessions : pc[u] = "location" => number'[u] = number[u]
    BY <1>0, <2>1, Others
  <2>5. \A n \in Accepted : OnItsWay(n)' <=> OnItsWay(n)
    BY <2>2, <2>3, <2>4 DEF OnItsWay
  <2> QED BY <1>0, <1>1, <1>2, <2>5, TrackStutters DEF ComingNow, OnItsWay
<1> QED BY <1>3, <1>4

LEMMA TasksTrack ==
    ASSUME IInv, NEW t \in tasks, Work(t)
    PROVE  [Track!Next]_(Track!vars)
<1>0. TypeOK /\ Shapes /\ Order /\ One /\ Agreed
  BY DEF IInv
<1>1. tasks' = tasks \ {t} /\ UNCHANGED <<asked, pc, number, decided>>
  BY Ends DEF Done, handlers, seen
<1>2. Accepted' = Accepted /\ Kept
  BY <1>1 DEF Accepted, Kept
<1>3. CASE t.kind # "location"
  <2>1. UNCHANGED location
    BY <1>3 DEF Work, Record, SaveToHistory, SetLastKnownLocation
  <2>2. \A n \in Accepted : OnItsWay(n)' <=> OnItsWay(n)
    BY <1>1, <1>3 DEF OnItsWay
  <2> QED BY <1>0, <1>2, <2>1, <2>2, TrackStutters DEF ComingNow, OnItsWay
<1>4. CASE t.kind = "location"
  <2>1. PICK n, d : n = t.by /\ d = asked[t.by].device
    OBVIOUS
  <2>2. n \in 1 .. Len(asked) /\ n \in 1 .. MaxRequests /\ asked[n] \in Requests /\ d \in Devices
    <3>1. n \in 1 .. Len(asked) /\ Len(asked) \in Nat /\ Len(asked) <= MaxRequests
      BY <1>0, <2>1 DEF TypeOK
    <3>2. asked[n] \in Requests
      BY <1>0, <3>1 DEF TypeOK
    <3> QED BY <2>1, <3>1, <3>2, ServiceAssumption
  <2>3. n \in Accepted
    <3>1. Matching(t) \in decided /\ Matching(t).verdict # "INVALID" /\ Matching(t).by = n
      BY <1>0, <1>4, <2>1 DEF Agreed, Matching
    <3> QED BY <3>1 DEF Accepted
  <2>4. n \in ComingNow
    BY <1>4, <2>1, <2>3 DEF ComingNow
  <2>5. ASSUME NEW o \in tasks, o.kind = "location", o.by = n PROVE o = t
    <3>1. Matching(o) = Matching(t)
      BY <1>0, <1>4, <2>1, <2>5 DEF Agreed, One, Matching
    <3>2. o \in TaskSet /\ t \in TaskSet /\ o.point = t.point /\ o.slot = t.slot
      BY <1>0, <1>4, <2>5 DEF Agreed, Shapes
    <3>3. o.verdict = t.verdict
      BY <3>1 DEF Matching
    <3> QED BY <1>4, <2>1, <2>5, <3>2, <3>3 DEF TaskSet
  <2>6. \A s \in Sessions : pc[s] = "location" => number[s] # n
    BY <1>0, <1>4, <2>1 DEF Order, Busy
  <2>7. ~ OnItsWay(n)'
    BY <1>1, <2>5, <2>6 DEF OnItsWay
  <2>8. \A m \in Accepted : m # n => (OnItsWay(m)' <=> OnItsWay(m))
    BY <1>1, <2>1 DEF OnItsWay
  <2>9. ComingNow' = ComingNow \ {n}
    BY <1>2, <2>7, <2>8 DEF ComingNow, OnItsWay
  <2> DEFINE A == [e \in Devices |-> LocationsOf(e, Accepted)]
             C == [e \in Devices |-> LocationsOf(e, ComingNow)]
  <2>10. /\ \A e \in Devices : LocationsOf(e, Accepted)' = LocationsOf(e, Accepted)
         /\ \A e \in Devices : LocationsOf(e, ComingNow)' =
                IF e = d THEN LocationsOf(e, ComingNow) \ {n} ELSE LocationsOf(e, ComingNow)
    BY <1>1, <1>2, <2>1, <2>9 DEF LocationsOf
  <2>11. A' = A /\ C' = [C EXCEPT ![d] = @ \ {n}] /\ n \in C[d]
    <3>1. A' = A /\ C' = [C EXCEPT ![d] = @ \ {n}]
      BY <2>2, <2>10
    <3>2. n \in LocationsOf(d, ComingNow)
      BY <2>1, <2>4 DEF LocationsOf
    <3> QED BY <2>2, <3>1, <3>2
  <2>12. location' \in {[location EXCEPT ![d] = n], location}
    BY <1>4, <2>1 DEF Work, Record, SaveToHistory, SetLastKnownLocation
  <2>13. Track!Settle(d, n)
    BY <2>11, <2>12 DEF Track!Settle, ComingNow
  <2> QED BY <2>2, <2>13 DEF Track!Next
<1> QED BY <1>3, <1>4

-----------------------------------------------------------------------------
(* The theorems                                                            *)

\* Types, for any number of sessions, devices and points.
THEOREM TypeCorrect == Spec => []TypeOK
<1>1. IInv => TypeOK
  BY DEF IInv
<1> QED BY <1>1, Invariant, PTL

\* Once Shutdown returned nil, no goroutine works for what was done before.
THEOREM NilMeansDone == Spec => []ShutdownWaits
<1>1. IInv => ShutdownWaits
  BY DEF IInv, Closed, ShutdownWaits
<1> QED BY <1>1, Invariant, PTL

\* Only requests under way or later can make Shutdown panic.
THEOREM PanicNeedsRequests == Spec => []OrderlyShutdown
<1>1. IInv => OrderlyShutdown
  BY DEF IInv, Closed
<1> QED BY <1>1, Invariant, PTL

\* The goroutine of Shutdown sleeps only while there is one to wake it up.
THEOREM SomebodyWakes == Spec => []WaiterIsWoken
<1>1. IInv => WaiterIsWoken
  BY ZeroIsEmpty DEF IInv, Counted, WaiterIsWoken
<1> QED BY <1>1, Invariant, PTL

\* A known point is replaced only after a read of it failed.
THEOREM KnownStay == Spec => []KnownPointsAreKept
<1>1. IInv => KnownPointsAreKept
  BY DEF IInv, Blind
<1> QED BY <1>1, Invariant, PTL

\* The history agrees with the answers.
THEOREM HistoryIsTrue == Spec => []HistoryMatchesAnswers
<1>1. IInv => HistoryMatchesAnswers
  <2> SUFFICES ASSUME IInv, NEW a \in answered
               PROVE  /\ \A row \in rows : row.by = a.by => row = a
                      /\ Saved(a)
    BY DEF HistoryMatchesAnswers, Saved
  <2> QED BY DEF IInv, Agreed, One
<1> QED BY <1>1, Invariant, PTL

\* Validate has no way to an UNCERTAIN result.
THEOREM UncertainIsDead == Spec => []NeverUncertain
<1>1. IInv => NeverUncertain
  BY DEF IInv, One, NeverUncertain
<1> QED BY <1>1, Invariant, PTL

\* The goroutines that store locations keep them a DeviceTrack.
THEOREM Refinement == Spec => ImplementsDeviceTrack
<1>1. Init => Track!Init
  BY DEF Init, Track!Init, Accepted, LocationsOf
<1>2. IInv /\ [Next]_vars => [Track!Next]_(Track!vars)
  <2> SUFFICES ASSUME IInv, [Next]_vars PROVE [Track!Next]_(Track!vars)
    OBVIOUS
  <2>1. CASE StepOfShutdown \/ UNCHANGED vars
    <3>1. UNCHANGED <<asked, pc, number, location, tasks, decided>>
      BY <2>1 DEF StepOfShutdown, Shutdown, Wait, Resume, Return, vars, handlers, stores, group, seen
    <3>2. Accepted' = Accepted /\ Kept
      BY <3>1 DEF Accepted, Kept
    <3>3. ComingNow' = ComingNow
      BY <3>1, <3>2 DEF ComingNow
    <3> QED BY <3>1, <3>2, <3>3, TrackStutters DEF IInv
  <2> QED BY <2>1, StepCases, DecideTracks, SessionsTrack, TasksTrack
<1> QED BY <1>1, <1>2, Invariant, PTL DEF Spec, ImplementsDeviceTrack, Track!Spec

-----------------------------------------------------------------------------
(* What follows of last locations from their being a DeviceTrack           *)

\* The accepted requests of a device, and those whose location is on its way.
AcceptedOf == [d \in Devices |-> LocationsOf(d, Accepted)]
ComingOf   == [d \in Devices |-> LocationsOf(d, {n \in Accepted :
                  \/ \E t \in tasks : t.kind = "location" /\ t.by = n
                  \/ \E s \in Sessions : pc[s] = "location" /\ number[s] = n})]

\* A last known location is one of an accepted request of its device.
LocationsAreAccepted ==
    \A d \in Devices : location[d] # 0 => location[d] \in AcceptedOf[d]

\* The location of a request has arrived, or was dropped, and is not the last.
Superseded(d, n) == n \in AcceptedOf[d] \ ComingOf[d] /\ location[d] # n

LEMMA TrackMoves ==
    ASSUME [Track!Next]_(Track!vars)
    PROVE  \/ UNCHANGED <<location, AcceptedOf, ComingOf>>
           \/ \E d \in Devices, n \in 1 .. MaxRequests :
                  /\ \A other \in Devices : n \notin AcceptedOf[other]
                  /\ AcceptedOf' = [AcceptedOf EXCEPT ![d] = @ \cup {n}]
                  /\ ComingOf' = [ComingOf EXCEPT ![d] = @ \cup {n}]
                  /\ UNCHANGED location
           \/ \E d \in Devices, n \in 1 .. MaxRequests :
                  /\ n \in ComingOf[d]
                  /\ ComingOf' = [ComingOf EXCEPT ![d] = @ \ {n}]
                  /\ location' \in {[location EXCEPT ![d] = n], location}
                  /\ UNCHANGED AcceptedOf
  BY DEF Track!Next, Track!Accept, Track!Settle, Track!vars, AcceptedOf, ComingOf

\* A refused request never moves its device, and no request one of another.
THEOREM LocationsOfAccepted == Spec => []LocationsAreAccepted
<1>1. Track!Init => LocationsAreAccepted
  BY DEF Track!Init, LocationsAreAccepted
<1>2. TypeOK /\ LocationsAreAccepted /\ [Track!Next]_(Track!vars) => LocationsAreAccepted'
  <2> SUFFICES ASSUME TypeOK, LocationsAreAccepted, [Track!Next]_(Track!vars)
               PROVE  LocationsAreAccepted'
    OBVIOUS
  <2>1. /\ location \in [Devices -> Nat]
        /\ DOMAIN AcceptedOf = Devices /\ \A d \in Devices : ComingOf[d] \subseteq AcceptedOf[d]
    BY DEF TypeOK, AcceptedOf, ComingOf, LocationsOf
  <2> HIDE DEF AcceptedOf, ComingOf
  <2> QED
    BY <2>1, TrackMoves DEF LocationsAreAccepted
<1> QED
  BY <1>1, <1>2, TypeCorrect, Refinement, PTL DEF ImplementsDeviceTrack, Track!Spec

\* A location that was replaced, or whose writing failed, never comes back,
\* however late the goroutines run and in whatever order.
THEOREM NoLocationComesBack ==
    ASSUME NEW d \in Devices, NEW n
    PROVE  Spec => [](Superseded(d, n) => [](location[d] # n))
<1>1. TypeOK /\ Superseded(d, n) /\ [Track!Next]_(Track!vars) => Superseded(d, n)'
  <2> SUFFICES ASSUME TypeOK, Superseded(d, n), [Track!Next]_(Track!vars)
               PROVE  Superseded(d, n)'
    OBVIOUS
  <2>1. location \in [Devices -> Nat] /\ DOMAIN AcceptedOf = Devices /\ DOMAIN ComingOf = Devices
    BY DEF TypeOK, AcceptedOf, ComingOf
  <2>2. AcceptedOf = [e \in Devices |-> AcceptedOf[e]] /\ ComingOf = [e \in Devices |-> ComingOf[e]]
    BY DEF AcceptedOf, ComingOf
  <2> HIDE DEF AcceptedOf, ComingOf
  <2> QED
    BY <2>1, <2>2, TrackMoves DEF Superseded
<1>2. Superseded(d, n) => location[d] # n
  BY DEF Superseded
<1> QED
  BY <1>1, <1>2, TypeCorrect, Refinement, PTL DEF ImplementsDeviceTrack, Track!Spec
=============================================================================
