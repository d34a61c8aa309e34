--------------------------- MODULE StorageService ---------------------------
(****************************************************************************)
(* cmd/storage-service/main.go: handlers that queue a record for ClickHouse *)
(* and hand an event to internal/queue/kafka.go, and the main goroutine    *)
(* that closes both stores once the server has stopped.                    *)
(*                                                                          *)
(* The ClickHouse store is not modelled here but assumed to be what module *)
(* DeliveryLog promises, one record at a time: its only step, Flush, is    *)
(* written after the steps of that module, which ClickHouseStorage is      *)
(* shown to implement.  A kafka-go writer, which is Async here, keeps the  *)
(* events it was handed until they are published or given up, and may      *)
(* publish one, not notice and try it again.                               *)
(*                                                                          *)
(* A validation record and its event are known by the number of its append *)
(* to the queue, a learning event by the number of its request.            *)
(****************************************************************************)
EXTENDS Naturals, Sequences, FiniteSets, SequencesExt

CONSTANTS Handlers,     \* the goroutines that run SaveValidation, SaveLearning
          None,         \* a handler that runs neither
          MaxRequests,  \* bound: requests in the whole behaviour
          MaxRestarts   \* bound: deaths and new starts in the whole behaviour

\* The topics, each with a writer of its own, and where a handler can be.
Topics == {"refinement", "learning"}
Places == {"idle", "queue", "send", "reply"}
Stages == {"serving", "draining", "closeRefinement", "closeLearning", "closeStore", "exited"}

ASSUME StorageAssumption ==
    /\ None \notin Topics
    /\ MaxRequests \in Nat /\ MaxRestarts \in Nat

VARIABLES
    accepted,   \* how many records were ever queued for ClickHouse
    table,      \* the rows of validation_requests
    lost,       \* the records that are neither queued nor rows
    pending,    \* the events each writer has and has not settled
    published,  \* the events of each topic
    dropped,    \* history: the events a writer gave up or died with
    pc,         \* where each handler is
    topic,      \* the topic of its event
    number,     \* the number of its record or event
    stage,      \* how far the main goroutine is
    learned,    \* how many learning requests arrived
    answered,   \* history: the events whose request was told Success
    unsent,     \* history: the events WriteMessages refused
    asked,      \* counts towards MaxRequests
    restarts    \* counts towards MaxRestarts

store    == <<accepted, table, lost>>
kafka    == <<pending, published, dropped>>
handlers == <<pc, topic, number>>
ghosts   == <<answered, unsent>>
vars     == <<store, kafka, handlers, stage, learned, ghosts, asked, restarts>>

\* The records that are in the queue or in a transaction of the store.
Queued == (1 .. accepted) \ (ToSet(table) \cup lost)

Init ==
    /\ accepted = 0 /\ table = <<>> /\ lost = {}
    /\ pending = [t \in Topics |-> {}]
    /\ published = [t \in Topics |-> {}]
    /\ dropped = [t \in Topics |-> {}]
    /\ pc = [h \in Handlers |-> "idle"]
    /\ topic = [h \in Handlers |-> None]
    /\ number = [h \in Handlers |-> 0]
    /\ stage = "serving"
    /\ learned = 0
    /\ answered = [t \in Topics |-> {}]
    /\ unsent = [t \in Topics |-> {}]
    /\ asked = 0 /\ restarts = 0

-----------------------------------------------------------------------------
(* The handlers                                                            *)

\* The server hands a request to a goroutine, until it is told to stop.
Arrives(h, t) ==
    /\ pc[h] = "idle" /\ stage = "serving"
    /\ asked < MaxRequests
    /\ asked' = asked + 1
    /\ topic' = [topic EXCEPT ![h] = t]

\* Mutated: the event is sent before the record is queued.
SaveValidationSendingFirst(h) ==
    /\ Arrives(h, "refinement")
    /\ number' = [number EXCEPT ![h] = accepted + 1]
    /\ pc' = [pc EXCEPT ![h] = "send"]
    /\ UNCHANGED <<store, kafka, stage, learned, ghosts, restarts>>

SaveValidation(h) ==
    /\ Arrives(h, "refinement")
    /\ pc' = [pc EXCEPT ![h] = "queue"]
    /\ UNCHANGED <<store, kafka, number, stage, learned, ghosts, restarts>>

SaveLearning(h) ==
    /\ Arrives(h, "learning")
    /\ learned' = learned + 1
    /\ number' = [number EXCEPT ![h] = learned + 1]
    /\ pc' = [pc EXCEPT ![h] = "send"]
    /\ UNCHANGED <<store, kafka, stage, ghosts, restarts>>

\* Mutated: it needs a lock that StopServer holds until the handlers are done.
QueueUntilStopped(h) ==
    /\ pc[h] = "queue" /\ stage = "serving"
    /\ accepted' = accepted + 1
    /\ number' = [number EXCEPT ![h] = accepted + 1]
    /\ pc' = [pc EXCEPT ![h] = "send"]
    /\ UNCHANGED <<table, lost, kafka, topic, stage, learned, ghosts, asked, restarts>>

\* s.clickhouse.QueueValidation(record)
Queue(h) ==
    /\ pc[h] = "queue"
    /\ accepted' = accepted + 1
    /\ number' = [number EXCEPT ![h] = accepted + 1]
    /\ pc' = [pc EXCEPT ![h] = "send"]
    /\ UNCHANGED <<table, lost, kafka, topic, stage, learned, ghosts, asked, restarts>>

\* SendRefinementEvent or SendLearningEvent: the writer takes the event, or
\* the event cannot be encoded, or the writer cannot place it in time.  The
\* handlers drop the error.
Send(h) ==
    /\ pc[h] = "send"
    /\ \/ /\ pending' = [pending EXCEPT ![topic[h]] = @ \cup {number[h]}]
          /\ UNCHANGED unsent
       \/ /\ unsent' = [unsent EXCEPT ![topic[h]] = @ \cup {number[h]}]
          /\ UNCHANGED pending
    /\ pc' = [pc EXCEPT ![h] = "reply"]
    /\ UNCHANGED <<store, published, dropped, topic, number, stage, learned, answered,
                   asked, restarts>>

\* Mutated: the handler keeps the topic of its last request.
ReplyKeepingTopic(h) ==
    /\ pc[h] = "reply"
    /\ answered' = [answered EXCEPT ![topic[h]] = @ \cup {number[h]}]
    /\ pc' = [pc EXCEPT ![h] = "idle"]
    /\ UNCHANGED <<store, kafka, topic, number, stage, learned, unsent, asked, restarts>>

\* Success: true
Reply(h) ==
    /\ pc[h] = "reply"
    /\ answered' = [answered EXCEPT ![topic[h]] = @ \cup {number[h]}]
    /\ pc' = [pc EXCEPT ![h] = "idle"]
    /\ topic' = [topic EXCEPT ![h] = None]
    /\ number' = [number EXCEPT ![h] = 0]
    /\ UNCHANGED <<store, kafka, stage, learned, unsent, asked, restarts>>

Handle(h) == Queue(h) \/ Send(h) \/ Reply(h)

-----------------------------------------------------------------------------
(* The two stores                                                          *)

\* The store by itself, as DeliveryLog allows: ClickHouse gets the next record,
\* or the store drops one.
Flush ==
    /\ \E r \in Queued :
          \/ /\ \A earlier \in ToSet(table) : earlier < r
             /\ table' = Append(table, r)
             /\ UNCHANGED lost
          \/ lost' = lost \cup {r} /\ UNCHANGED table
    /\ UNCHANGED <<accepted, kafka, handlers, stage, learned, ghosts, asked, restarts>>

\* The topic gets an event, and the writer does not get to know.
Attempt(t) ==
    /\ \E n \in pending[t] : published' = [published EXCEPT ![t] = @ \cup {n}]
    /\ UNCHANGED <<store, pending, dropped, handlers, stage, learned, ghosts, asked, restarts>>

\* The writer is done with an event: published, or given up.
Settle(t) ==
    /\ \E n \in pending[t] :
          /\ pending' = [pending EXCEPT ![t] = @ \ {n}]
          /\ \/ published' = [published EXCEPT ![t] = @ \cup {n}] /\ UNCHANGED dropped
             \/ dropped' = [dropped EXCEPT ![t] = @ \cup {n}] /\ UNCHANGED published
    /\ UNCHANGED <<store, handlers, stage, learned, ghosts, asked, restarts>>

-----------------------------------------------------------------------------
(* The main goroutine                                                      *)

\* GracefulStop: no new request is taken.
StopServer ==
    /\ stage = "serving"
    /\ stage' = "draining"
    /\ UNCHANGED <<store, kafka, handlers, learned, ghosts, asked, restarts>>

\* Serve returns when every handler has.  The deferred calls run, last first.
ServeReturns ==
    /\ stage = "draining"
    /\ \A h \in Handlers : pc[h] = "idle"
    /\ stage' = "closeRefinement"
    /\ UNCHANGED <<store, kafka, handlers, learned, ghosts, asked, restarts>>

\* Mutated: only the refinement writer is closed.
CloseKafkaHalf ==
    /\ stage = "closeRefinement" /\ pending["refinement"] = {}
    /\ stage' = "closeStore"
    /\ UNCHANGED <<store, kafka, handlers, learned, ghosts, asked, restarts>>

\* kafka.Close(): each writer settles what it has, and its Close never fails.
CloseKafka ==
    /\ \/ stage = "closeRefinement" /\ pending["refinement"] = {} /\ stage' = "closeLearning"
       \/ stage = "closeLearning" /\ pending["learning"] = {} /\ stage' = "closeStore"
    /\ UNCHANGED <<store, kafka, handlers, learned, ghosts, asked, restarts>>

\* ch.Close() returns with an empty queue; main returns.
CloseStore ==
    /\ stage = "closeStore" /\ Queued = {}
    /\ stage' = "exited"
    /\ UNCHANGED <<store, kafka, handlers, learned, ghosts, asked, restarts>>

\* The process dies anywhere, also by the log.Fatalf of a failed Serve, which
\* skips the deferred calls; or it has exited.  It is started again.
Restart ==
    /\ restarts < MaxRestarts
    /\ restarts' = restarts + 1
    /\ lost' = lost \cup Queued
    /\ dropped' = [t \in Topics |-> dropped[t] \cup pending[t]]
    /\ pending' = [t \in Topics |-> {}]
    /\ pc' = [h \in Handlers |-> "idle"]
    /\ topic' = [h \in Handlers |-> None]
    /\ number' = [h \in Handlers |-> 0]
    /\ stage' = "serving"
    /\ UNCHANGED <<accepted, table, published, learned, ghosts, asked>>

\* main has returned and nobody starts the process again.
Exited == stage = "exited" /\ UNCHANGED vars

Next == \/ \E h \in Handlers : SaveValidation(h) \/ SaveLearning(h) \/ Handle(h)
        \/ Flush \/ \E t \in Topics : Attempt(t) \/ Settle(t)
        \/ StopServer \/ ServeReturns \/ CloseKafka \/ CloseStore
        \/ Restart
        \/ Exited

Spec == Init /\ [][Next]_vars

\* A handler goes on: QueueValidation returns (CallersReturn of
\* ClickHouseStorage) and WriteMessages returns by its context.  The store
\* settles its records (EveryRecordSettles), a writer its events after at most
\* MaxAttempts attempts, and main does not pause between its deferred calls.
Fairness == /\ \A h \in Handlers : WF_vars(Handle(h))
            /\ WF_vars(Flush)
            /\ \A t \in Topics : WF_vars(Settle(t))
            /\ WF_vars(ServeReturns) /\ WF_vars(CloseKafka) /\ WF_vars(CloseStore)

FairSpec == Spec /\ Fairness

-----------------------------------------------------------------------------
(* Properties                                                              *)

\* What has been numbered so far: events count like the records they are of.
Numbered == [t \in Topics |-> IF t = "refinement" THEN 1 .. accepted ELSE 1 .. learned]

\* The values the variables take: a handler has a topic while it works.
TypeOK ==
    /\ accepted \in Nat /\ learned \in Nat /\ asked \in Nat /\ restarts \in Nat
    /\ table \in Seq(Nat) /\ lost \subseteq 1 .. accepted
    /\ pending \in [Topics -> SUBSET Nat] /\ published \in [Topics -> SUBSET Nat]
    /\ dropped \in [Topics -> SUBSET Nat] /\ unsent \in [Topics -> SUBSET Nat]
    /\ answered \in [Topics -> SUBSET Nat]
    /\ pc \in [Handlers -> Places]
    /\ topic \in [Handlers -> Topics \cup {None}]
    /\ number \in [Handlers -> Nat]
    /\ stage \in Stages
    /\ \A h \in Handlers : pc[h] = "idle" <=> topic[h] = None

\* No consumer of the topic sees a validation the store was not given, however
\* handlers overlap and wherever the process died: the record comes first.
EventsFollowRecords ==
    \A t \in Topics : pending[t] \cup published[t] \cup answered[t] \subseteq Numbered[t]

\* A process that exits by itself leaves nothing behind: every record given to
\* the store is a row or was dropped, every event given to a writer is in the
\* topic or was given up.
CleanExit ==
    stage = "exited" =>
        /\ ToSet(table) \cup lost = 1 .. accepted
        /\ \A t \in Topics : answered[t] \subseteq published[t] \cup dropped[t] \cup unsent[t]

\* A server that was told to stop stops, unless it is killed.
StopIsClean == stage = "draining" ~> stage \in {"exited", "serving"}
=============================================================================
