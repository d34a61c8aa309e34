-------------------------- MODULE ClickHouseStorage --------------------------
(****************************************************************************)
(* internal/storage/clickhouse.go: a queue of validation records guarded   *)
(* by one mutex, filled by gRPC handlers, emptied into ClickHouse by       *)
(* whoever finds it full, by a ticker goroutine and by Close.              *)
(*                                                                          *)
(* A record is the number of its append: 1 is the first record that was    *)
(* ever put in the queue, whatever process put it there.  `table` and the  *)
(* outcomes of BeginTx, PrepareContext, ExecContext and Commit stand for   *)
(* the ClickHouse server, which outlives the process.                      *)
(****************************************************************************)
EXTENDS OrderedRecords

CONSTANTS Writers,      \* the handler goroutines that queue records
          Flusher,      \* the background goroutine started by the constructor
          Closer,       \* the main goroutine, once it runs the deferred Close
          Free,         \* the mutex is not held
          CallSizes,    \* how many records one call may carry
          BatchSize,    \* cfg.BatchSize
          MaxRecords,   \* bound: records handed over in the whole behaviour
          MaxRestarts   \* bound: process deaths in the whole behaviour

Threads == Writers \cup {Flusher, Closer}

ASSUME ThreadsAssumption ==
    /\ Flusher \notin Writers
    /\ Closer \notin Writers
    /\ Flusher # Closer
    /\ Free \notin Threads

ASSUME SizesAssumption ==
    /\ BatchSize \in Nat \ {0}
    /\ CallSizes \subseteq Nat \ {0}
    /\ MaxRecords \in Nat
    /\ MaxRestarts \in Nat

VARIABLES
    queue,     \* s.queue
    mu,        \* s.mu: the thread that holds it, or Free
    records,   \* flushLocked's records not yet handed to the statement
    staged,    \* the rows the open transaction has taken
    pc,        \* where each thread is
    size,      \* how many records the pending call of each writer carries
    dbOpen,    \* s.db has not been closed
    table,     \* the rows of validation_requests, in insertion order
    accepted,  \* history: how many records were ever appended to the queue
    lost,      \* history: the records that are nowhere any more
    asked,     \* counts towards MaxRecords
    restarts   \* counts towards MaxRestarts

process == <<queue, mu, records, staged, pc, size, dbOpen>>
history == <<table, accepted, lost>>
bounds  == <<asked, restarts>>
vars    == <<process, history, bounds>>

\* The locations of a thread: outside, waiting for mu, in flushLocked, in Close.
Flushing == {"flush", "begin", "prepare", "exec"}
Locations == {"idle", "lock", "close", "closed"} \cup Flushing

TypeOK ==
    /\ queue \in Seq(Record) /\ records \in Seq(Record) /\ staged \in Seq(Record)
    /\ mu \in Threads \cup {Free}
    /\ pc \in [Threads -> Locations]
    /\ size \in [Writers -> Nat]
    /\ dbOpen \in BOOLEAN
    /\ table \in Seq(Record)
    /\ accepted \in Nat
    /\ lost \subseteq Record
    /\ asked \in Nat /\ restarts \in Nat

NoThreadActive == [t \in Threads |-> "idle"]
NoCallPending  == [w \in Writers |-> 0]

\* A process that has just run NewClickHouseStorage, for the first time.
Init == /\ queue = <<>> /\ records = <<>> /\ staged = <<>>
        /\ mu = Free
        /\ pc = NoThreadActive
        /\ size = NoCallPending
        /\ dbOpen = TRUE
        /\ table = <<>> /\ accepted = 0 /\ lost = {}
        /\ asked = 0 /\ restarts = 0

Goto(t, location) == pc' = [pc EXCEPT ![t] = location]

-----------------------------------------------------------------------------
(* QueueValidation (one record) and QueueValidations (any number)          *)

\* A handler calls in.  None does once the server has stopped.
Call(w, k) ==
    /\ pc[w] = "idle" /\ pc[Closer] = "idle"
    /\ asked + k <= MaxRecords
    /\ asked' = asked + k
    /\ size' = [size EXCEPT ![w] = k]
    /\ Goto(w, "lock")
    /\ UNCHANGED <<queue, mu, records, staged, dbOpen, history, restarts>>

Appended(w) == queue \o [i \in 1 .. size[w] |-> accepted + i]

\* Mutated: > for >=.
FullLate(s) == Len(s) > BatchSize

\* The queue reached the batch size: its caller keeps the mutex and flushes.
Full(s) == Len(s) >= BatchSize

QueueValidations(w) ==
    /\ pc[w] = "lock" /\ mu = Free
    /\ queue' = Appended(w)
    /\ accepted' = accepted + size[w]
    /\ IF Full(Appended(w)) THEN mu' = w /\ Goto(w, "flush")
                            ELSE mu' = Free /\ Goto(w, "idle")
    /\ UNCHANGED <<records, staged, size, dbOpen, table, lost, bounds>>

-----------------------------------------------------------------------------
(* The background flusher and Close                                        *)

\* Mutated: the ticker looks for a full batch too.
FlusherTickWhenFull ==
    /\ pc[Flusher] = "idle" /\ mu = Free
    /\ Full(queue)
    /\ mu' = Flusher
    /\ Goto(Flusher, "flush")
    /\ UNCHANGED <<queue, records, staged, size, dbOpen, history, bounds>>

\* A tick that finds the queue empty changes nothing.
FlusherTick ==
    /\ pc[Flusher] = "idle" /\ mu = Free
    /\ queue # <<>>
    /\ mu' = Flusher
    /\ Goto(Flusher, "flush")
    /\ UNCHANGED <<queue, records, staged, size, dbOpen, history, bounds>>

\* Mutated: Stop for GracefulStop.
StopServerAtOnce ==
    /\ pc[Closer] = "idle"
    /\ Goto(Closer, "lock")
    /\ UNCHANGED <<queue, mu, records, staged, size, dbOpen, history, bounds>>

\* main returns from Serve: GracefulStop has waited for every handler.
StopServer ==
    /\ pc[Closer] = "idle"
    /\ \A w \in Writers : pc[w] = "idle"
    /\ Goto(Closer, "lock")
    /\ UNCHANGED <<queue, mu, records, staged, size, dbOpen, history, bounds>>

\* Mutated: Close calls a flush that locks again.
CloseRelocking ==
    /\ pc[Closer] = "lock" /\ mu = Free
    /\ mu' = Closer
    /\ Goto(Closer, IF queue # <<>> THEN "lock" ELSE "close")
    /\ UNCHANGED <<queue, records, staged, size, dbOpen, history, bounds>>

Close ==
    /\ pc[Closer] = "lock" /\ mu = Free
    /\ mu' = Closer
    /\ Goto(Closer, IF queue # <<>> THEN "flush" ELSE "close")
    /\ UNCHANGED <<queue, records, staged, size, dbOpen, history, bounds>>

CloseDB ==
    /\ pc[Closer] = "close"
    /\ dbOpen' = FALSE
    /\ mu' = Free
    /\ Goto(Closer, "closed")
    /\ UNCHANGED <<queue, records, staged, size, history, bounds>>

-----------------------------------------------------------------------------
(* flushLocked, run by the thread t that holds the mutex                   *)

\* flushLocked returns: Close goes on to close the database, still locked,
\* every other caller's deferred Unlock runs.
Return(t) == /\ mu' = IF t = Closer THEN Closer ELSE Free
             /\ Goto(t, IF t = Closer THEN "close" ELSE "idle")

\* Mutated: the error path returns without the deferred Unlock.
AbandonLocked(t) == /\ lost' = lost \cup ToSet(records) \cup ToSet(staged)
                    /\ records' = <<>>
                    /\ staged' = <<>>
                    /\ UNCHANGED <<table, mu>>
                    /\ Goto(t, IF t = Closer THEN "close" ELSE "idle")

\* A logged error after which nothing refers to the batch any more.
Abandon(t) == /\ lost' = lost \cup ToSet(records) \cup ToSet(staged)
              /\ records' = <<>>
              /\ staged' = <<>>
              /\ UNCHANGED table
              /\ Return(t)

\* Mutated: the queue is not replaced by an empty one.
TakeBatchKept(t) ==
    /\ pc[t] = "flush"
    /\ records' = queue
    /\ Goto(t, "begin")
    /\ UNCHANGED <<queue, mu, staged, size, dbOpen, history, bounds>>

\* Mutated: the new queue is made with a length instead of a capacity.
TakeBatchZeroed(t) ==
    /\ pc[t] = "flush"
    /\ records' = queue
    /\ queue' = [i \in 1 .. BatchSize |-> 0]
    /\ Goto(t, "begin")
    /\ UNCHANGED <<mu, staged, size, dbOpen, history, bounds>>

\* Mutated: one batch of at most BatchSize records is taken.
TakeBatchCut(t) ==
    /\ pc[t] = "flush"
    /\ records' = IF Full(queue) THEN SubSeq(queue, 1, BatchSize) ELSE queue
    /\ queue' = <<>>
    /\ Goto(t, "begin")
    /\ UNCHANGED <<mu, staged, size, dbOpen, history, bounds>>

TakeBatch(t) ==
    /\ pc[t] = "flush"
    /\ records' = queue
    /\ queue' = <<>>
    /\ Goto(t, "begin")
    /\ UNCHANGED <<mu, staged, size, dbOpen, history, bounds>>

BeginTx(t) ==
    /\ pc[t] = "begin"
    /\ \/ /\ dbOpen
          /\ Goto(t, "prepare")
          /\ UNCHANGED <<mu, records, staged, table, lost>>
       \/ Abandon(t)
    /\ UNCHANGED <<queue, size, dbOpen, accepted, bounds>>

Prepare(t) ==
    /\ pc[t] = "prepare"
    /\ \/ Goto(t, "exec") /\ UNCHANGED <<mu, records, staged, table, lost>>
       \/ Abandon(t)
    /\ UNCHANGED <<queue, size, dbOpen, accepted, bounds>>

\* One iteration of the loop: the row is taken, or its error is logged.
ExecRow(t) ==
    /\ pc[t] = "exec" /\ records # <<>>
    /\ records' = Tail(records)
    /\ \/ staged' = Append(staged, Head(records)) /\ UNCHANGED lost
       \/ lost' = lost \cup {Head(records)} /\ UNCHANGED staged
    /\ UNCHANGED <<queue, mu, pc, size, dbOpen, table, accepted, bounds>>

\* Mutated: the table gets the batch, and an error queues it again.
CommitRequeued(t) ==
    /\ pc[t] = "exec" /\ records = <<>>
    /\ table' = table \o staged
    /\ staged' = <<>>
    /\ Return(t)
    /\ queue' = queue \o staged
    /\ UNCHANGED <<records, lost, size, dbOpen, accepted, bounds>>

\* A Commit that fails after the server applied it looks like the first case.
Commit(t) ==
    /\ pc[t] = "exec" /\ records = <<>>
    /\ \/ /\ table' = table \o staged
          /\ staged' = <<>>
          /\ Return(t)
          /\ UNCHANGED <<records, lost>>
       \/ Abandon(t)
    /\ UNCHANGED <<queue, size, dbOpen, accepted, bounds>>

Flush(t) == TakeBatch(t) \/ BeginTx(t) \/ Prepare(t) \/ ExecRow(t) \/ Commit(t)

-----------------------------------------------------------------------------
\* The process dies anywhere, or exits after Close, and is started again.
Restart ==
    /\ restarts < MaxRestarts
    /\ restarts' = restarts + 1
    /\ lost' = lost \cup ToSet(queue) \cup ToSet(records) \cup ToSet(staged)
    /\ queue' = <<>> /\ records' = <<>> /\ staged' = <<>>
    /\ mu' = Free
    /\ pc' = NoThreadActive
    /\ size' = NoCallPending
    /\ dbOpen' = TRUE
    /\ UNCHANGED <<table, accepted, asked>>

\* main has returned and nobody starts the process again.
Stopped == pc[Closer] = "closed" /\ UNCHANGED vars

Next == \/ \E w \in Writers : (\E k \in CallSizes : Call(w, k)) \/ QueueValidations(w)
        \/ FlusherTick \/ StopServer \/ Close \/ CloseDB
        \/ \E t \in Threads : Flush(t)
        \/ Restart
        \/ Stopped

Spec == Init /\ [][Next]_vars

\* Every database call of flushLocked returns: its context expires after 30 s.
\* A Go mutex hands over to a waiter that has starved for 1 ms, so a thread
\* that keeps asking gets the mutex; the ticker keeps asking for the flusher.
Fairness == /\ \A t \in Threads : WF_vars(Flush(t))
            /\ \A w \in Writers : SF_vars(QueueValidations(w))
            /\ SF_vars(FlusherTick)
            /\ SF_vars(Close)
            /\ WF_vars(CloseDB)

FairSpec == Spec /\ Fairness

-----------------------------------------------------------------------------
(* Properties                                                              *)

\* The stages a record goes through, the last one first.
Stages == <<table, staged, records, queue>>

\* Records reach the table in the order they were queued, and none is in two
\* stages or twice in one: swapping the queue under the mutex, and flushing
\* while holding it, is what keeps two flushes from reordering or repeating.
InOrder == \A a \in 1 .. 4 : /\ Increasing(Stages[a])
                             /\ \A b \in 1 .. 4 : a < b => Before(Stages[a], Stages[b])

\* Every record ever queued is in a stage or was lost, and never both: no
\* failure path of flushLocked forgets a record without dropping it, and none
\* drops a record that is in the table.
Accounted ==
    LET held == UNION {ToSet(Stages[a]) : a \in 1 .. 4}
    IN  /\ held \cup lost = 1 .. accepted
        /\ held \cap lost = {}

\* Only the holder of the mutex is inside flushLocked or Close, and a batch in
\* flight has one: the mutex is never left locked, or left to two threads, by
\* an error return of flushLocked.
OneFlusher ==
    /\ \A t \in Threads : pc[t] \in Flushing \cup {"close"} <=> mu = t
    /\ mu = Free => records = <<>> /\ staged = <<>>

\* The queue is below the batch size whenever the mutex is free, so memory is
\* bounded by BatchSize and not by how long ClickHouse is away.
QueueBelowBatchSize == mu = Free => Len(queue) < BatchSize

\* flushLocked is only entered with something to flush, and its transaction is
\* never opened on a database Close has closed.
FlushHasWork ==
    /\ \A t \in Threads : pc[t] = "flush" => queue # <<>>
    /\ (\E t \in Threads : pc[t] \in Flushing) => dbOpen

\* Once Close has returned no record is left behind in memory: each is in the
\* table or was dropped with an error in the log.
CloseDrains == pc[Closer] = "closed" =>
                   queue = <<>> /\ ToSet(table) \cup lost = 1 .. accepted

\* The component does what DeliveryLog promises.
Log == INSTANCE DeliveryLog WITH delivered <- table

ImplementsDeliveryLog == Log!Spec

\* Every queued record ends in the table or is given up: the ticker, not only
\* the next call, drains a queue that stays below the batch size.
EveryRecordSettles ==
    \A r \in 1 .. MaxRecords :
        r <= accepted ~> r \in ToSet(table) \cup lost

\* A call returns even when the caller has to flush a whole batch itself.
CallersReturn == \A w \in Writers : pc[w] # "idle" ~> pc[w] = "idle"

\* Close returns unless the process is killed first.
CloseReturns == pc[Closer] = "lock" ~> pc[Closer] \in {"closed", "idle"}

\* docs/testing-checklist.md promises that a failed batch is retried: a record
\* is not given up while the process lives.
FailedBatchIsRetried == [][lost' # lost => restarts' # restarts]_vars
=============================================================================
