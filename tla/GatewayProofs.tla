---------------------------- MODULE GatewayProofs ----------------------------
(****************************************************************************)
(* For any number of calls, stops and deaths: types, the isolation of      *)
(* Refinement, and that no call is served twice.                           *)
(****************************************************************************)
EXTENDS Gateway, TLAPS

\* A call that has not been made has left nothing behind.
Fresh == \A c \in Calls :
    client[c] = "idle" => gate[c] = "none" /\ work[c] = "none" /\ served[c] = 0

\* A client calls the gateway or the API of the method, and only a call of the
\* gateway runs a handler there.
Entered == \A c \in Calls : /\ entry[c] \in {"gateway", Backend(method[c])} \/ client[c] = "idle"
                            /\ entry[c] # "gateway" => gate[c] = "none"

\* How far the handlers of a call are tells how often it was served.
Served == \A c \in Calls :
    /\ served[c] \in {0, 1}
    /\ gate[c] = "dial" => work[c] = "none" /\ served[c] = 0
    /\ work[c] = "running" => served[c] = 0
    /\ work[c] \in {"ok", "error"} => served[c] = 1
    /\ "ok" \in {gate[c], client[c]} => served[c] = 1

\* Who is to blame before the client has its answer: while the gateway has not
\* dialled, whatever is not up is known to be missing; an error it holds comes
\* from there, and none comes from a handler of Validate.
Blamed == \A c \in Calls : method[c] = "Validate" =>
    /\ Open(c) /\ gate[c] = "dial" /\ process["refinement"] # "up" => "refinement" \in unavailable[c]
    /\ Open(c) /\ gate[c] = "error" => "refinement" \in unavailable[c]
    /\ work[c] # "error"
    /\ client[c] = "error" => unavailable[c] \cap {entry[c], "refinement"} # {}

IInv == TypeOK /\ Fresh /\ Entered /\ Served /\ Blamed

LEMMA InitIInv == Init => IInv
  BY GatewayAssumption DEF Init, IInv, TypeOK, Fresh, Entered, Served, Blamed, Open,
     Servers, Processes, Methods

LEMMA NextTypeOK == TypeOK /\ [Next]_vars => TypeOK'
<1> SUFFICES ASSUME TypeOK, [Next]_vars PROVE TypeOK'
  OBVIOUS
<1> USE GatewayAssumption DEF TypeOK, Servers, Processes, Methods, calls
<1>1. ASSUME NEW c \in Calls, NEW p \in Servers, NEW m \in Methods, Call(c, p, m) PROVE TypeOK'
  BY <1>1 DEF Call, Path, Backend
<1>2. ASSUME NEW c \in Calls, Handle(c) PROVE TypeOK'
  <2>1. CASE Dial(c)    BY <2>1 DEF Dial
  <2>2. CASE Serve(c)   BY <2>2 DEF Serve
  <2>3. CASE Forward(c) BY <2>3 DEF Forward
  <2>4. CASE Answer(c)  BY <2>4 DEF Answer
  <2>5. CASE Abandon(c) BY <2>5 DEF Abandon
  <2> QED BY <1>2, <2>1, <2>2, <2>3, <2>4, <2>5 DEF Handle
<1>3. ASSUME NEW c \in Calls, Cancel(c) PROVE TypeOK'
  BY <1>3 DEF Cancel
<1>4. ASSUME NEW p \in Processes, Crash(p) PROVE TypeOK'
  BY <1>4 DEF Crash
<1>5. ASSUME NEW p \in Processes, Signal(p) PROVE TypeOK'
  BY <1>5 DEF Signal
<1>6. ASSUME NEW p \in Processes, Exit(p) \/ Start(p) PROVE TypeOK'
  BY <1>6 DEF Exit, Start
<1>7. CASE UNCHANGED vars
  BY <1>7 DEF vars
<1> QED BY <1>1, <1>2, <1>3, <1>4, <1>5, <1>6, <1>7 DEF Next, Idle

LEMMA NextIInv == IInv /\ [Next]_vars => IInv'
<1> SUFFICES ASSUME IInv, [Next]_vars PROVE (Fresh /\ Entered /\ Served /\ Blamed)'
  BY NextTypeOK DEF IInv
<1>0. TypeOK /\ TypeOK'
  BY NextTypeOK DEF IInv
<1> USE <1>0 DEF TypeOK, Servers, Processes, Methods, calls, Open
<1> DEFINE Goal == (Fresh /\ Entered /\ Served /\ Blamed)'
<1>1. ASSUME NEW c \in Calls, NEW p \in Servers, NEW m \in Methods, Call(c, p, m) PROVE Goal
  BY <1>1 DEF Call, Path, Backend, IInv, Fresh, Entered, Served, Blamed
<1>2. ASSUME NEW c \in Calls, Handle(c) PROVE Goal
  <2>1. CASE Dial(c)
    <3>1. /\ gate[c] = "dial" /\ UNCHANGED <<process, method, entry, client, served, unavailable>>
          /\ \A d \in Calls : d # c => gate'[d] = gate[d] /\ work'[d] = work[d]
          /\ \/ gate'[c] = "waiting" /\ work'[c] = "running"
             \/ gate'[c] = "error" /\ work'[c] = work[c]
      BY <2>1 DEF Dial
    <3>2. method[c] = "Validate" /\ gate'[c] = "error" => process["refinement"] # "up"
      BY <2>1 DEF Dial, Address, Backend
    <3>3. (Fresh /\ Entered /\ Served)'
      BY <3>1 DEF Backend, IInv, Fresh, Entered, Served
    <3>4. Blamed'
      BY <3>1, <3>2 DEF IInv, Served, Blamed
    <3> QED BY <3>3, <3>4
  <2>2. CASE Serve(c)
    BY <2>2 DEF Serve, Backend, IInv, Fresh, Entered, Served, Blamed
  <2>3. CASE Forward(c)
    BY <2>3 DEF Forward, Backend, IInv, Fresh, Entered, Served, Blamed
  <2>4. CASE Answer(c)
    BY <2>4 DEF Answer, Backend, IInv, Fresh, Entered, Served, Blamed
  <2>5. CASE Abandon(c)
    BY <2>5 DEF Abandon, Backend, IInv, Fresh, Entered, Served, Blamed
  <2> QED BY <1>2, <2>1, <2>2, <2>3, <2>4, <2>5 DEF Handle
<1>3. ASSUME NEW c \in Calls, Cancel(c) PROVE Goal
  BY <1>3 DEF Cancel, Backend, IInv, Fresh, Entered, Served, Blamed
<1>4. ASSUME NEW p \in Processes, Crash(p) PROVE Goal
  <2>1. Fresh'
    BY <1>4 DEF Crash, Runs, IInv, Fresh
  <2>2. Entered'
    BY <1>4 DEF Crash, Runs, IInv, Entered, Fresh
  <2>3. Served'
    BY <1>4 DEF Crash, Runs, IInv, Served
  <2>4. Blamed'
    BY <1>4 DEF Crash, Runs, Path, Backend, IInv, Entered, Served, Blamed, Fresh
  <2> QED BY <2>1, <2>2, <2>3, <2>4
<1>5. ASSUME NEW p \in Processes, Signal(p) PROVE Goal
  BY <1>5 DEF Signal, Backend, IInv, Fresh, Entered, Served, Blamed
<1>6. ASSUME NEW p \in Processes, Exit(p) \/ Start(p) PROVE Goal
  BY <1>6 DEF Exit, Start, Backend, IInv, Fresh, Entered, Served, Blamed
<1>7. CASE UNCHANGED vars
  BY <1>7 DEF vars, Backend, IInv, Fresh, Entered, Served, Blamed
<1> QED BY <1>1, <1>2, <1>3, <1>4, <1>5, <1>6, <1>7 DEF Next, Idle

\* Types, for any number of calls.
THEOREM TypeCorrect == Spec => []TypeOK
<1>1. Init => IInv
  BY InitIInv
<1>2. IInv /\ [Next]_vars => IInv'
  BY NextIInv
<1>3. IInv => TypeOK
  BY DEF IInv
<1> QED BY <1>1, <1>2, <1>3, PTL DEF Spec

\* A failed Validate is never the fault of Learning, of Redis or of a graceful
\* stop, whatever dies.
THEOREM ValidateIsIsolated == Spec => []RefinementIsIsolated
<1>1. Init => IInv
  BY InitIInv
<1>2. IInv /\ [Next]_vars => IInv'
  BY NextIInv
<1>3. IInv => RefinementIsIsolated
  BY DEF IInv, Blamed, RefinementIsIsolated
<1> QED BY <1>1, <1>2, <1>3, PTL DEF Spec

\* No call is served twice, and none is answered ok that was not served.
THEOREM CallsAreServedOnce == Spec => []ServedOnce
<1>1. Init => IInv
  BY InitIInv
<1>2. IInv /\ [Next]_vars => IInv'
  BY NextIInv
<1>3. IInv => ServedOnce
  BY DEF IInv, Served, ServedOnce
<1> QED BY <1>1, <1>2, <1>3, PTL DEF Spec

-----------------------------------------------------------------------------
(* The calls of the learning service                                       *)

\* What becomes of one that comes through the gateway: nothing.
NotRouted == \A c \in Calls : entry[c] = "gateway" /\ method[c] # "Validate" =>
    gate[c] # "waiting" /\ gate[c] # "ok" /\ work[c] = "none" /\ served[c] = 0 /\ client[c] # "ok"

\* The gateway forwards no call of the learning service, whatever is up: the
\* instance registered for it has no address.
THEOREM LearningIsNotRouted == Spec => []NotRouted
<1>1. Init => NotRouted
  BY DEF Init, NotRouted
<1>2. IInv /\ NotRouted /\ [Next]_vars => NotRouted'
  <2> SUFFICES ASSUME IInv, NotRouted, [Next]_vars PROVE NotRouted'
    OBVIOUS
  <2>0. TypeOK /\ Fresh /\ Entered
    BY DEF IInv
  <2> USE <2>0 DEF TypeOK, Servers, Processes, Methods, calls
  <2>1. ASSUME NEW c \in Calls, NEW p \in Servers, NEW m \in Methods, Call(c, p, m) PROVE NotRouted'
    BY <2>1 DEF Call, NotRouted, Fresh
  <2>2. ASSUME NEW c \in Calls, Handle(c) PROVE NotRouted'
    <3>1. CASE Dial(c)
      <4>1. method[c] # "Validate" => gate'[c] = "error" /\ work'[c] = work[c]
        BY <3>1 DEF Dial, Address, Backend
      <4> QED BY <3>1, <4>1 DEF Dial, NotRouted
    <3>2. CASE Serve(c)   BY <3>2 DEF Serve, NotRouted
    <3>3. CASE Forward(c) BY <3>3 DEF Forward, NotRouted
    <3>4. CASE Answer(c)  BY <3>4 DEF Answer, NotRouted
    <3>5. CASE Abandon(c) BY <3>5 DEF Abandon, NotRouted
    <3> QED BY <2>2, <3>1, <3>2, <3>3, <3>4, <3>5 DEF Handle
  <2>3. ASSUME NEW c \in Calls, Cancel(c) PROVE NotRouted'
    BY <2>3 DEF Cancel, NotRouted
  <2>4. ASSUME NEW p \in Processes, Crash(p) PROVE NotRouted'
    BY <2>4 DEF Crash, NotRouted
  <2>5. ASSUME NEW p \in Processes, Signal(p) \/ Exit(p) \/ Start(p) PROVE NotRouted'
    BY <2>5 DEF Signal, Exit, Start, NotRouted
  <2>6. CASE UNCHANGED vars
    BY <2>6 DEF vars, NotRouted
  <2> QED BY <2>1, <2>2, <2>3, <2>4, <2>5, <2>6 DEF Next, Idle
<1>3. Init => IInv
  BY InitIInv
<1>4. IInv /\ [Next]_vars => IInv'
  BY NextIInv
<1> QED BY <1>1, <1>2, <1>3, <1>4, PTL DEF Spec
=============================================================================
