------------------------------- MODULE Gateway -------------------------------
(****************************************************************************)
(* cmd/gateway/main.go in front of the two APIs: a call of a client runs a *)
(* handler of the gateway, which dials the backend for this call alone,    *)
(* forwards it and hands the answer back.  docker-compose.yml publishes    *)
(* the ports of the APIs too, so a client may as well call them directly.  *)
(* Every process may die, or be stopped gracefully, and be started again.  *)
(*                                                                          *)
(* What the handlers of the APIs compute is left to ValidationCore and     *)
(* LearningCore; here counts only which error ends a call.                 *)
(****************************************************************************)
EXTENDS Naturals, FiniteSets

CONSTANTS Calls,
          MaxStops   \* bound: deaths and graceful stops in the whole behaviour

ASSUME GatewayAssumption == MaxStops \in Nat

VARIABLES
    process,     \* "up", "draining" in GracefulStop, or "down"
    stops,       \* deaths and stops so far
    method,      \* what a call calls
    entry,       \* whom its client calls
    client,      \* the client of a call
    gate,        \* the handler of the gateway
    work,        \* the handler of the API
    \* History, which nothing in the code reads:
    served,      \* how often a handler of an API ran to its end for a call
    unavailable  \* who was not there when the call needed it, died meanwhile, or
                 \* did not answer it

calls == <<method, entry, client>>
vars  == <<process, stops, calls, gate, work, served, unavailable>>

Servers   == {"gateway", "refinement", "learning"}
Processes == Servers \cup {"redis", "clickhouse"}
Methods   == {"Validate", "LearnFromCoordinates", "GetCompanionSources"}

\* The API whose main registers the service of a method.
Backend(m) == IF m = "Validate" THEN "refinement" ELSE "learning"

\* Mutated: the two addresses are taken for each other.
AddressSwapped(m) == IF m = "Validate" THEN "learning" ELSE "refinement"

\* The address a gateway handler dials: the instance registered for
\* CoordinateValidator has both addresses, the one for LearningService none.
Address(m) == IF m = "Validate" THEN "refinement" ELSE ""

\* The processes a call has to do with.
Path(p, m) == {p, Backend(m), "redis"}

Open(c) == client[c] = "waiting"

Init ==
    /\ process = [p \in Processes |-> "up"] /\ stops = 0
    /\ method = [c \in Calls |-> "Validate"] /\ entry = [c \in Calls |-> "gateway"]
    /\ client = [c \in Calls |-> "idle"]
    /\ gate = [c \in Calls |-> "none"] /\ work = [c \in Calls |-> "none"]
    /\ served = [c \in Calls |-> 0] /\ unavailable = [c \in Calls |-> {}]

-----------------------------------------------------------------------------
(* A call                                                                  *)

\* A client calls the gateway or the API itself; a server that is not up
\* accepts no connection.
Call(c, p, m) ==
    /\ client[c] = "idle" /\ p \in {"gateway", Backend(m)}
    /\ method' = [method EXCEPT ![c] = m]
    /\ entry' = [entry EXCEPT ![c] = p]
    /\ unavailable' = [unavailable EXCEPT ![c] = {q \in Path(p, m) : process[q] # "up"}]
    /\ client' = [client EXCEPT ![c] = IF process[p] = "up" THEN "waiting" ELSE "error"]
    /\ gate' = [gate EXCEPT ![c] = IF process[p] = "up" /\ p = "gateway" THEN "dial" ELSE @]
    /\ work' = [work EXCEPT ![c] = IF process[p] = "up" /\ p # "gateway" THEN "running" ELSE @]
    /\ UNCHANGED <<process, stops, served>>

\* grpc.Dial and the first half of the forwarded call: it fails for an empty
\* address, a server that does not know the service, or one that is not up.
Dial(c) ==
    /\ gate[c] = "dial"
    /\ LET reached == Address(method[c]) = Backend(method[c]) /\ process[Address(method[c])] = "up"
       IN  /\ gate' = [gate EXCEPT ![c] = IF reached THEN "waiting" ELSE "error"]
           /\ work' = [work EXCEPT ![c] = IF reached THEN "running" ELSE @]
    /\ UNCHANGED <<process, stops, calls, served, unavailable>>

\* The handler of the API.  Learn, to which no source is handed on, and
\* GetCompanionSources return any error of their one command to Redis: it is
\* down, the command times out, no connection of the pool is free.  Validate
\* never fails.
Serve(c) ==
    /\ work[c] = "running"
    /\ \/ /\ method[c] = "Validate" \/ process["redis"] = "up"
          /\ work' = [work EXCEPT ![c] = "ok"]
          /\ UNCHANGED unavailable
       \/ /\ method[c] # "Validate"
          /\ work' = [work EXCEPT ![c] = "error"]
          /\ unavailable' = [unavailable EXCEPT ![c] = @ \cup {"redis"}]
    /\ served' = [served EXCEPT ![c] = @ + 1]
    /\ UNCHANGED <<process, stops, calls, gate>>

\* The gateway has the answer of the API, and closes the connection.
Forward(c) ==
    /\ gate[c] = "waiting" /\ work[c] \in {"ok", "error"}
    /\ gate' = [gate EXCEPT ![c] = work[c]]
    /\ work' = [work EXCEPT ![c] = "none"]
    /\ UNCHANGED <<process, stops, calls, served, unavailable>>

\* The handler that the client called is at its end.
Answer(c) ==
    LET answer == IF entry[c] = "gateway" THEN gate[c] ELSE work[c]
    IN  /\ answer \in {"ok", "error"}
        /\ client' = [client EXCEPT ![c] = IF Open(c) THEN answer ELSE @]
        /\ gate' = [gate EXCEPT ![c] = "none"]
        /\ work' = [work EXCEPT ![c] = IF entry[c] = "gateway" THEN @ ELSE "none"]
        /\ UNCHANGED <<process, stops, method, entry, served, unavailable>>

\* The client ends the context of its call.
Cancel(c) ==
    /\ Open(c)
    /\ client' = [client EXCEPT ![c] = "cancelled"]
    /\ UNCHANGED <<process, stops, method, entry, gate, work, served, unavailable>>

\* The gateway sees that, or the API sees that nobody waits for its answer.
Abandon(c) ==
    /\ \/ /\ client[c] = "cancelled" /\ gate[c] \in {"dial", "waiting"}
          /\ gate' = [gate EXCEPT ![c] = "none"]
          /\ UNCHANGED work
       \/ /\ entry[c] = "gateway" /\ gate[c] # "waiting" /\ work[c] \in {"ok", "error"}
          /\ work' = [work EXCEPT ![c] = "none"]
          /\ UNCHANGED gate
    /\ UNCHANGED <<process, stops, calls, served, unavailable>>

-----------------------------------------------------------------------------
(* The processes                                                           *)

\* A handler of c runs in p.
Runs(c, p) == IF p = "gateway" THEN gate[c] # "none" ELSE work[c] # "none" /\ Backend(method[c]) = p

\* Mutated: the gateway does not notice that the connection to an API broke.
CrashUnseen(p) ==
    /\ stops < MaxStops /\ stops' = stops + 1
    /\ process[p] # "down"
    /\ process' = [process EXCEPT ![p] = "down"]
    /\ unavailable' = [c \in Calls |-> IF Open(c) /\ p \in Path(entry[c], method[c])
                                      THEN unavailable[c] \cup {p} ELSE unavailable[c]]
    /\ client' = [c \in Calls |-> IF Open(c) /\ entry[c] = p THEN "error" ELSE client[c]]
    /\ gate' = [c \in Calls |-> IF p = "gateway" THEN "none" ELSE gate[c]]
    /\ work' = [c \in Calls |-> IF p # "gateway" /\ Runs(c, p) THEN "none" ELSE work[c]]
    /\ UNCHANGED <<method, entry, served>>

\* Mutated: the gateway dials again when the connection to an API broke.
CrashRedialled(p) ==
    /\ stops < MaxStops /\ stops' = stops + 1
    /\ process[p] # "down"
    /\ process' = [process EXCEPT ![p] = "down"]
    /\ unavailable' = [c \in Calls |-> IF Open(c) /\ p \in Path(entry[c], method[c])
                                      THEN unavailable[c] \cup {p} ELSE unavailable[c]]
    /\ client' = [c \in Calls |-> IF Open(c) /\ entry[c] = p THEN "error" ELSE client[c]]
    /\ gate' = [c \in Calls |->
                   IF p = "gateway" THEN "none"
                   ELSE IF gate[c] = "waiting" /\ Runs(c, p) THEN "dial" ELSE gate[c]]
    /\ work' = [c \in Calls |-> IF p # "gateway" /\ Runs(c, p) THEN "none" ELSE work[c]]
    /\ UNCHANGED <<method, entry, served>>

\* A process dies.  Who waits for it learns that the connection broke.
Crash(p) ==
    /\ stops < MaxStops /\ stops' = stops + 1
    /\ process[p] # "down"
    /\ process' = [process EXCEPT ![p] = "down"]
    /\ unavailable' = [c \in Calls |-> IF Open(c) /\ p \in Path(entry[c], method[c])
                                      THEN unavailable[c] \cup {p} ELSE unavailable[c]]
    /\ client' = [c \in Calls |-> IF Open(c) /\ entry[c] = p THEN "error" ELSE client[c]]
    /\ gate' = [c \in Calls |->
                   IF p = "gateway" THEN "none"
                   ELSE IF gate[c] = "waiting" /\ Runs(c, p) THEN "error" ELSE gate[c]]
    /\ work' = [c \in Calls |-> IF p # "gateway" /\ Runs(c, p) THEN "none" ELSE work[c]]
    /\ UNCHANGED <<method, entry, served>>

\* SIGINT or SIGTERM, and GracefulStop: no new connection is accepted.
Signal(p) ==
    /\ p \in Servers /\ process[p] = "up"
    /\ stops < MaxStops /\ stops' = stops + 1
    /\ process' = [process EXCEPT ![p] = "draining"]
    /\ unavailable' = [c \in Calls |->
           IF gate[c] = "dial" /\ p = Backend(method[c]) THEN unavailable[c] \cup {p} ELSE unavailable[c]]
    /\ UNCHANGED <<calls, gate, work, served>>

\* The handlers have ended, Serve returns and main with it.
Exit(p) ==
    /\ process[p] = "draining" /\ \A c \in Calls : ~Runs(c, p)
    /\ process' = [process EXCEPT ![p] = "down"]
    /\ UNCHANGED <<stops, calls, gate, work, served, unavailable>>

\* The stores an API cannot start without: NewRedisCache pings Redis, and
\* NewClickHouseStorage, which only the learning API calls, pings ClickHouse and
\* creates its tables.  Where one does not answer, main ends by log.Fatalf.
Needs(p) == CASE p = "refinement" -> {"redis"}
              [] p = "learning"   -> {"redis", "clickhouse"}
              [] OTHER            -> {}

Start(p) ==
    /\ process[p] = "down"
    /\ \A store \in Needs(p) : process[store] = "up"
    /\ process' = [process EXCEPT ![p] = "up"]
    /\ UNCHANGED <<stops, calls, gate, work, served, unavailable>>

\* No call is open or coming; the servers go on waiting for one.
Idle == (\A c \in Calls : client[c] \notin {"idle", "waiting"}) /\ UNCHANGED vars

Handle(c) == Dial(c) \/ Serve(c) \/ Forward(c) \/ Answer(c) \/ Abandon(c)

Next == \/ \E c \in Calls : (\E p \in Servers, m \in Methods : Call(c, p, m)) \/ Handle(c) \/ Cancel(c)
        \/ \E p \in Processes : Crash(p) \/ Signal(p) \/ Exit(p) \/ Start(p)
        \/ Idle

Spec == Init /\ [][Next]_vars

\* A handler goes on: Redis commands and connection attempts time out, and a
\* broken connection is seen.  Nobody has to call, stop, kill or start.
FairSpec == Spec /\ \A c \in Calls : WF_vars(Handle(c)) /\ \A p \in Servers : WF_vars(Exit(p))

-----------------------------------------------------------------------------
(* Properties                                                              *)

TypeOK ==
    /\ process \in [Processes -> {"up", "draining", "down"}] /\ stops \in 0 .. MaxStops
    /\ method \in [Calls -> Methods] /\ entry \in [Calls -> Servers]
    /\ client \in [Calls -> {"idle", "waiting", "ok", "error", "cancelled"}]
    /\ gate \in [Calls -> {"none", "dial", "waiting", "ok", "error"}]
    /\ work \in [Calls -> {"none", "running", "ok", "error"}]
    /\ served \in [Calls -> Nat]
    /\ unavailable \in [Calls -> SUBSET Processes]

\* A call of Validate fails only because Refinement, or the gateway it went
\* through, died or was not there: never because of Learning or Redis, nor
\* because a process it had reached was stopped gracefully.
RefinementIsIsolated ==
    \A c \in Calls : client[c] = "error" /\ method[c] = "Validate"
                     => unavailable[c] \cap {entry[c], "refinement"} # {}

\* Whoever is told ok was served once by the API, and nobody more than once,
\* whatever breaks between the client, the gateway and the API.
ServedOnce ==
    \A c \in Calls : served[c] <= 1 /\ (client[c] = "ok" => served[c] = 1)

\* docs/testing-checklist.md: "Route LearnFromCoordinates to Learning API": it
\* does not fail while everything is there and answers.
LearningIsRouted ==
    \A c \in Calls : client[c] = "error" /\ method[c] = "LearnFromCoordinates"
                     => unavailable[c] # {}

\* Every call ends for its client, although the gateway sets no deadline, and
\* every graceful stop comes to its end, although the gateway waits for
\* handlers that wait for an API that may be stopping too.
CallsAndStopsEnd ==
    /\ \A c \in Calls : Open(c) ~> ~Open(c)
    /\ \A p \in Servers : process[p] = "draining" ~> process[p] # "draining"
=============================================================================
