----------------------- MODULE ClickHouseStorageProofs -----------------------
(****************************************************************************)
(* The safety properties of ClickHouseStorage, and that it implements      *)
(* DeliveryLog, for any number of handlers, any batch size and any bounds. *)
(*                                                                          *)
(* The inductive invariant is built in three layers: TypeOK; Mutex, which  *)
(* ties the place of each thread to the mutex, the batch in flight and the *)
(* database handle; and Order, which is InOrder and Accounted.             *)
(****************************************************************************)
EXTENDS ClickHouseStorage, OrderedRecordsProofs

USE ThreadsAssumption, SizesAssumption

-----------------------------------------------------------------------------
(* Types                                                                   *)

\* Every variable keeps its type, and no zero record ever enters a sequence:
\* the queue flushLocked makes is empty, whatever its capacity.
THEOREM TypeCorrect == Spec => []TypeOK
<1>1. Init => TypeOK
  BY DEF Init, TypeOK, Threads, Locations, Record, NoThreadActive, NoCallPending
<1>2. TypeOK /\ [Next]_vars => TypeOK'
  <2> SUFFICES ASSUME TypeOK, [Next]_vars PROVE TypeOK'
    OBVIOUS
  <2> USE DEF TypeOK, Locations, Flushing
  <2> Writers \subseteq Threads /\ Flusher \in Threads /\ Closer \in Threads
    BY DEF Threads
  <2>1. ASSUME NEW w \in Writers, NEW k \in CallSizes, Call(w, k) PROVE TypeOK'
    BY <2>1 DEF Call, Goto, history
  <2>2. ASSUME NEW w \in Writers, QueueValidations(w) PROVE TypeOK'
    <3>1. Appended(w) \in Seq(Record)
      BY NewRecords, ConcatProperties DEF Appended
    <3>2. pc' \in [Threads -> Locations] /\ mu' \in Threads \cup {Free}
      BY <2>2 DEF QueueValidations, Goto
    <3> QED
      BY <2>2, <3>1, <3>2 DEF QueueValidations, bounds
  <2>3. ASSUME FlusherTick PROVE TypeOK'
    BY <2>3 DEF FlusherTick, Goto, history, bounds
  <2>4. ASSUME StopServer PROVE TypeOK'
    BY <2>4 DEF StopServer, Goto, history, bounds
  <2>5. ASSUME Close PROVE TypeOK'
    BY <2>5 DEF Close, Goto, history, bounds
  <2>6. ASSUME CloseDB PROVE TypeOK'
    BY <2>6 DEF CloseDB, Goto, history, bounds
  <2>7. ASSUME NEW t \in Threads, Flush(t) PROVE TypeOK'
    <3>1. CASE TakeBatch(t)
      BY <3>1 DEF TakeBatch, Goto, history, bounds
    <3>2. ASSUME Abandon(t), UNCHANGED <<queue, size, dbOpen, accepted, bounds>>
          PROVE TypeOK'
      <4>1. ToSet(records) \cup ToSet(staged) \subseteq Record
        BY DEF ToSet
      <4> QED
        BY <3>2, <4>1 DEF Abandon, Return, Goto, bounds
    <3>3. CASE BeginTx(t)
      BY <3>2, <3>3 DEF BeginTx, Goto, bounds
    <3>4. CASE Prepare(t)
      BY <3>2, <3>4 DEF Prepare, Goto, bounds
    <3>5. CASE ExecRow(t)
      <4>1. Head(records) \in Record /\ Tail(records) \in Seq(Record)
        BY <3>5, HeadTailProperties DEF ExecRow
      <4>2. Append(staged, Head(records)) \in Seq(Record)
        BY <4>1, ToSetAppend
      <4> QED
        BY <3>5, <4>1, <4>2 DEF ExecRow, bounds
    <3>6. CASE Commit(t)
      <4>1. CASE Abandon(t)
        BY <3>2, <3>6, <4>1 DEF Commit
      <4>2. CASE ~ Abandon(t)
        <5>1. table \o staged \in Seq(Record)
          BY ConcatProperties
        <5> QED
          BY <3>6, <4>2, <5>1 DEF Commit, Return, Goto, bounds
      <4> QED
        BY <4>1, <4>2
    <3> QED
      BY <2>7, <3>1, <3>3, <3>4, <3>5, <3>6 DEF Flush
  <2>8. ASSUME Restart PROVE TypeOK'
    <3>1. ToSet(queue) \cup ToSet(records) \cup ToSet(staged) \subseteq Record
      BY DEF ToSet
    <3> QED
      BY <2>8, <3>1 DEF Restart, NoThreadActive, NoCallPending
  <2>9. ASSUME UNCHANGED vars PROVE TypeOK'
    BY <2>9 DEF vars, process, history, bounds
  <2> QED
    BY <2>1, <2>2, <2>3, <2>4, <2>5, <2>6, <2>7, <2>8, <2>9 DEF Next, Stopped
<1> QED
  BY <1>1, <1>2, PTL DEF Spec

-----------------------------------------------------------------------------
(* The mutex, the batch in flight and the database handle                  *)

\* What a thread inside flushLocked or Close may rely on.
Inside(t) ==
    /\ pc[t] \in {"flush", "close"} => records = <<>>
    /\ pc[t] \in {"flush", "begin", "prepare", "close"} => staged = <<>>
    /\ pc[t] \in {"begin", "prepare", "exec", "close"} => queue = <<>>
    /\ pc[t] = "flush" => queue # <<>>

\* What the shutdown sequence establishes, in its order.
Shutdown ==
    /\ \A t \in Threads \ {Closer} : pc[t] \notin {"close", "closed"}
    /\ \A w \in Writers : pc[w] # "idle" => pc[Closer] = "idle"
    /\ pc[Closer] = "closed" => mu = Free /\ queue = <<>>
    /\ dbOpen <=> pc[Closer] # "closed"

Mutex == /\ OneFlusher
         /\ QueueBelowBatchSize
         /\ \A t \in Threads : Inside(t)
         /\ Shutdown

\* Nobody holds the mutex when NewClickHouseStorage returns.
LEMMA MutexInit == Init => Mutex
<1> SUFFICES ASSUME Init PROVE Mutex
  OBVIOUS
<1>1. \A t \in Threads : pc[t] = "idle"
  BY DEF Init, NoThreadActive
<1>2. Closer \in Threads /\ Writers \subseteq Threads
  BY DEF Threads
<1> QED
  BY <1>1, <1>2 DEF Init, Mutex, OneFlusher, Flushing, QueueBelowBatchSize, Inside, Shutdown

\* A restart leaves the state Init describes, as far as Mutex can tell.
LEMMA MutexNext == TypeOK /\ TypeOK' /\ Mutex /\ [Next]_vars => Mutex'
<1> SUFFICES ASSUME TypeOK, TypeOK', Mutex, [Next]_vars PROVE Mutex'
  OBVIOUS
<1> USE DEF Mutex, OneFlusher, QueueBelowBatchSize, Inside, Shutdown, Flushing, Goto
<1>t. /\ Writers \subseteq Threads /\ Flusher \in Threads /\ Closer \in Threads
      /\ \A t \in Threads : t # Free
      /\ \A t \in Threads : t \in Writers \/ t = Flusher \/ t = Closer
      /\ pc \in [Threads -> Locations] /\ mu \in Threads \cup {Free}
  BY DEF Threads, TypeOK
<1>1. ASSUME NEW w \in Writers, NEW k \in CallSizes, Call(w, k) PROVE Mutex'
  BY <1>1, <1>t DEF Call, history
<1>2. ASSUME NEW w \in Writers, QueueValidations(w) PROVE Mutex'
  <2>1. Len(Appended(w)) \in Nat /\ (Full(Appended(w)) => Appended(w) # <<>>)
    BY <1>2 DEF QueueValidations, TypeOK, Full
  <2>2. CASE Full(Appended(w))
    BY <1>2, <1>t, <2>1, <2>2 DEF QueueValidations
  <2>3. CASE ~ Full(Appended(w))
    BY <1>2, <1>t, <2>1, <2>3 DEF QueueValidations, Full
  <2> QED
    BY <2>2, <2>3
<1>3. ASSUME FlusherTick PROVE Mutex'
  BY <1>3, <1>t DEF FlusherTick, history
<1>4. ASSUME StopServer PROVE Mutex'
  BY <1>4, <1>t DEF StopServer, history
<1>5. ASSUME Close PROVE Mutex'
  BY <1>5, <1>t DEF Close, history
<1>6. ASSUME CloseDB PROVE Mutex'
  BY <1>6, <1>t DEF CloseDB, history
<1>7. ASSUME NEW t \in Threads, Flush(t) PROVE Mutex'
  <2>1. CASE TakeBatch(t)
    BY <2>1, <1>t DEF TakeBatch, history
  <2>2. ASSUME Abandon(t), pc[t] \in {"begin", "prepare", "exec"}, UNCHANGED <<queue, dbOpen>>
        PROVE  Mutex'
    BY <2>2, <1>t DEF Abandon, Return
  <2>3. CASE BeginTx(t)
    BY <2>2, <2>3, <1>t DEF BeginTx
  <2>4. CASE Prepare(t)
    BY <2>2, <2>4, <1>t DEF Prepare
  <2>5. CASE ExecRow(t)
    BY <2>5, <1>t DEF ExecRow
  <2>6. CASE Commit(t)
    BY <2>2, <2>6, <1>t DEF Commit, Return
  <2> QED
    BY <1>7, <2>1, <2>3, <2>4, <2>5, <2>6 DEF Flush
<1>8. ASSUME Restart PROVE Mutex'
  <2>1. \A t \in Threads : pc'[t] = "idle"
    BY <1>8 DEF Restart, NoThreadActive
  <2> QED
    BY <1>8, <1>t, <2>1 DEF Restart
<1>9. ASSUME UNCHANGED vars PROVE Mutex'
  BY <1>9 DEF vars, process
<1> QED
  BY <1>1, <1>2, <1>3, <1>4, <1>5, <1>6, <1>7, <1>8, <1>9 DEF Next, Stopped

-----------------------------------------------------------------------------
(* The order of the records and what became of each                        *)

\* InOrder and Accounted without the quantifier over the stages.
Chain(a, b, c, d) ==
    /\ Increasing(a) /\ Increasing(b) /\ Increasing(c) /\ Increasing(d)
    /\ Before(a, b) /\ Before(a, c) /\ Before(a, d)
    /\ Before(b, c) /\ Before(b, d)
    /\ Before(c, d)

Held(a, b, c, d) == ToSet(a) \cup ToSet(b) \cup ToSet(c) \cup ToSet(d)

Order == /\ Chain(table, staged, records, queue)
         /\ Held(table, staged, records, queue) \cup lost = 1 .. accepted
         /\ Held(table, staged, records, queue) \cap lost = {}

\* The inductive form of InOrder and Accounted.
LEMMA OrderIsInOrderAndAccounted == Order <=> InOrder /\ Accounted
<1>1. /\ Stages[1] = table /\ Stages[2] = staged
      /\ Stages[3] = records /\ Stages[4] = queue
  BY DEF Stages
<1>2. 1 .. 4 = {1, 2, 3, 4}
  OBVIOUS
<1>3. InOrder <=> Chain(table, staged, records, queue)
  BY <1>1, <1>2 DEF InOrder, Chain
<1>4. UNION {ToSet(Stages[a]) : a \in 1 .. 4} = Held(table, staged, records, queue)
  BY <1>1, <1>2 DEF Held
<1> QED
  BY <1>3, <1>4 DEF Order, Accounted

\* An empty batch holds no record and is in order.
LEMMA ToSetEmpty == ToSet(<<>>) = {} /\ Increasing(<<>>)
  BY DEF ToSet, Increasing

\* The empty store is in order.
LEMMA OrderInit == Init => Order
  BY ToSetEmpty DEF Init, Order, Chain, Held, Before

\* Records join the queue with the next numbers; then each step moves the
\* batch one stage on, or moves records from a stage into lost.
LEMMA OrderNext == TypeOK /\ Mutex /\ Order /\ [Next]_vars => Order'
<1> SUFFICES ASSUME TypeOK, Mutex, Order, [Next]_vars PROVE Order'
  OBVIOUS
<1> USE ToSetEmpty DEF Order, Chain, Held, Before
<1>t. /\ queue \in Seq(Record) /\ records \in Seq(Record) /\ staged \in Seq(Record)
      /\ table \in Seq(Record) /\ accepted \in Nat
  BY DEF TypeOK
<1>u. ASSUME UNCHANGED <<table, staged, records, queue, accepted, lost>> PROVE Order'
  BY <1>u
<1>1. ASSUME NEW w \in Writers, NEW k \in CallSizes, Call(w, k) PROVE Order'
  BY <1>1, <1>u DEF Call, history
<1>2. ASSUME NEW w \in Writers, QueueValidations(w) PROVE Order'
  <2> DEFINE new == [i \in 1 .. size[w] |-> accepted + i]
  <2>0. size[w] \in Nat
    BY DEF TypeOK
  <2>1. /\ new \in Seq(Record) /\ ToSet(new) = (accepted + 1) .. (accepted + size[w])
        /\ Increasing(new)
    BY <2>0, <1>t, NewRecords
  <2>2. Before(queue, new)
    <3>1. ToSet(queue) \subseteq 1 .. accepted
      OBVIOUS
    <3> QED
      BY <2>1, <2>0, <3>1, <1>t
  <2> HIDE DEF new, Chain, Held
  <2>3. ToSet(queue \o new) = ToSet(queue) \cup ToSet(new)
    <3>1. queue \in Seq(Record) /\ new \in Seq(Record)
      BY <1>t, <2>1
    <3> QED
      BY ONLY <3>1, ToSetConcat
  <2>4. Increasing(queue \o new)
    <3>1. Increasing(queue)
      BY DEF Chain
    <3> QED
      BY <1>t, <2>1, <2>2, <3>1, IncreasingConcat
  <2>5. queue' = queue \o new /\ accepted' = accepted + size[w]
    BY <1>2 DEF QueueValidations, Appended, new
  <2>6. (1 .. accepted) \cup ToSet(new) = 1 .. accepted' /\ (1 .. accepted) \cap ToSet(new) = {}
    BY <2>0, <2>1, <2>5, <1>t
  <2>7. \A x \in 1 .. accepted, y \in ToSet(new) : x < y
    BY <2>0, <2>1, <1>t
  <2>8. UNCHANGED <<table, staged, records, lost>>
    BY <1>2 DEF QueueValidations
  <2> QED
    BY <2>3, <2>4, <2>5, <2>6, <2>7, <2>8 DEF Chain, Held
<1>3. ASSUME FlusherTick \/ StopServer \/ Close \/ CloseDB PROVE Order'
  BY <1>3, <1>u DEF FlusherTick, StopServer, Close, CloseDB, history
<1>4. ASSUME NEW t \in Threads, Flush(t) PROVE Order'
  <2>1. CASE TakeBatch(t)
    <3>1. records = <<>>
      BY <2>1 DEF TakeBatch, Mutex, Inside
    <3> QED
      BY <2>1, <3>1 DEF TakeBatch, history
  <2>2. ASSUME Abandon(t), UNCHANGED <<queue, accepted>> PROVE Order'
    BY <2>2 DEF Abandon
  <2>3. CASE BeginTx(t)
    BY <2>2, <2>3, <1>u DEF BeginTx
  <2>4. CASE Prepare(t)
    BY <2>2, <2>4, <1>u DEF Prepare
  <2>5. CASE ExecRow(t)
    <3>0. records # <<>>
      BY <2>5 DEF ExecRow
    <3>1. /\ ToSet(records) = {Head(records)} \cup ToSet(Tail(records))
          /\ Increasing(Tail(records))
          /\ Head(records) \in Record /\ Tail(records) \in Seq(Record)
      BY <1>t, <3>0, ToSetHeadTail, IncreasingTail, HeadTailProperties
    <3>2. \A y \in ToSet(Tail(records)) : Head(records) < y
      <4>1. ToSet(<<Head(records)>>) = {Head(records)}
        BY DEF ToSet
      <4> QED
        BY <1>t, <3>0, <4>1, IncreasingTail
    <3>3. UNCHANGED <<queue, table, accepted>> /\ records' = Tail(records)
      BY <2>5 DEF ExecRow
    <3>4. CASE staged' = Append(staged, Head(records)) /\ UNCHANGED lost
      <4>1. ToSet(staged') = ToSet(staged) \cup {Head(records)}
        BY <1>t, <3>1, <3>4, ToSetAppend
      <4>2. Increasing(staged')
        BY <1>t, <3>1, <3>4, IncreasingAppend
      <4> HIDE DEF Chain, Held
      <4>3. Chain(table, staged', records', queue)
        BY <3>1, <3>2, <3>3, <4>1, <4>2 DEF Chain
      <4>4. Held(table, staged', records', queue) = Held(table, staged, records, queue)
        BY <3>1, <3>3, <4>1 DEF Held
      <4> QED
        BY <3>3, <3>4, <4>3, <4>4
    <3>5. CASE lost' = lost \cup {Head(records)} /\ UNCHANGED staged
      <4>1. /\ Head(records) \notin ToSet(Tail(records))
            /\ Head(records) \notin ToSet(table) \cup ToSet(staged) \cup ToSet(queue)
        BY <3>1, <3>2 DEF Record
      <4> QED
        BY <3>1, <3>2, <3>3, <3>5, <4>1
    <3> QED
      BY <2>5, <3>4, <3>5 DEF ExecRow
  <2>6. CASE Commit(t)
    <3>1. CASE Abandon(t)
      BY <2>2, <2>6, <3>1 DEF Commit
    <3>2. CASE table' = table \o staged /\ staged' = <<>> /\ UNCHANGED <<records, lost, queue, accepted>>
      <4>1. ToSet(table') = ToSet(table) \cup ToSet(staged)
        BY <1>t, <3>2, ToSetConcat
      <4>2. Increasing(table')
        BY <1>t, <3>2, IncreasingConcat
      <4> QED
        BY <3>2, <4>1, <4>2
    <3> QED
      BY <2>6, <3>1, <3>2 DEF Commit
  <2> QED
    BY <1>4, <2>1, <2>3, <2>4, <2>5, <2>6 DEF Flush
<1>5. ASSUME Restart PROVE Order'
  BY <1>5 DEF Restart
<1>6. ASSUME UNCHANGED vars PROVE Order'
  BY <1>6, <1>u DEF vars, process, history
<1> QED
  BY <1>1, <1>2, <1>3, <1>4, <1>5, <1>6 DEF Next, Stopped

-----------------------------------------------------------------------------
(* The theorems                                                            *)

IInv == TypeOK /\ Mutex /\ Order

\* The inductive invariant holds in every reachable state.
LEMMA Invariant == Spec => []IInv
<1>1. Init => Mutex /\ Order
  BY MutexInit, OrderInit
<1>2. TypeOK /\ TypeOK' /\ Mutex /\ Order /\ [Next]_vars => Mutex' /\ Order'
  BY MutexNext, OrderNext
<1> QED
  BY <1>1, <1>2, TypeCorrect, PTL DEF Spec, IInv

\* The mutex is held exactly while some thread is inside flushLocked or Close,
\* by that thread, and a batch in flight always has such a thread.
THEOREM MutexIsExclusive == Spec => []OneFlusher
<1>1. IInv => OneFlusher
  BY DEF IInv, Mutex
<1> QED
  BY <1>1, Invariant, PTL

\* Memory is bounded: a caller that leaves the mutex leaves less than a batch.
THEOREM QueueIsBounded == Spec => []QueueBelowBatchSize
<1>1. IInv => QueueBelowBatchSize
  BY DEF IInv, Mutex
<1> QED
  BY <1>1, Invariant, PTL

\* flushLocked never runs for nothing or on a closed database.
THEOREM FlushAlwaysHasWork == Spec => []FlushHasWork
<1>1. IInv => FlushHasWork
  <2> SUFFICES ASSUME IInv PROVE FlushHasWork
    OBVIOUS
  <2>1. \A t \in Threads : pc[t] = "flush" => queue # <<>>
    BY DEF IInv, Mutex, Inside
  <2>2. ASSUME NEW t \in Threads, pc[t] \in Flushing, pc[Closer] = "closed" PROVE FALSE
    <3>1. mu = t /\ mu = Free
      BY <2>2 DEF IInv, Mutex, OneFlusher, Shutdown
    <3> QED
      BY <3>1
  <2> QED
    BY <2>1, <2>2 DEF FlushHasWork, IInv, Mutex, Shutdown
<1> QED
  BY <1>1, Invariant, PTL

\* Records keep the order of their calls through every stage, once each.
THEOREM RecordsStayInOrder == Spec => []InOrder
<1>1. IInv => InOrder
  BY OrderIsInOrderAndAccounted DEF IInv
<1> QED
  BY <1>1, Invariant, PTL

\* Every record ever queued is in one stage, or lost, and not both.
THEOREM RecordsAreAccountedFor == Spec => []Accounted
<1>1. IInv => Accounted
  BY OrderIsInOrderAndAccounted DEF IInv
<1> QED
  BY <1>1, Invariant, PTL

\* When Close has returned, no record is left behind in memory.
THEOREM CloseLeavesNothing == Spec => []CloseDrains
<1>1. IInv => CloseDrains
  <2> SUFFICES ASSUME IInv, pc[Closer] = "closed"
               PROVE  queue = <<>> /\ ToSet(table) \cup lost = 1 .. accepted
    BY DEF CloseDrains
  <2>1. queue = <<>> /\ records = <<>> /\ staged = <<>>
    BY DEF IInv, Mutex, Shutdown, OneFlusher
  <2> QED
    BY <2>1, ToSetEmpty DEF IInv, Order, Held
<1> QED
  BY <1>1, Invariant, PTL

\* The store keeps the promise of DeliveryLog: each step of the code accepts
\* records, delivers a batch in order, gives records up, or is invisible.
THEOREM Refinement == Spec => ImplementsDeliveryLog
<1>1. Init => Log!Init
  BY DEF Init, Log!Init
<1>2. IInv /\ IInv' /\ [Next]_vars => [Log!Next]_(Log!vars)
  <2> SUFFICES ASSUME IInv, IInv', [Next]_vars PROVE [Log!Next]_(Log!vars)
    OBVIOUS
  <2>t. /\ table \in Seq(Record) /\ staged \in Seq(Record)
        /\ accepted \in Nat /\ accepted' \in Nat
    BY DEF IInv, TypeOK
  <2>u. ASSUME UNCHANGED <<accepted, table, lost>> PROVE [Log!Next]_(Log!vars)
    BY <2>u DEF Log!vars
  <2>l. ASSUME lost \subseteq lost', UNCHANGED <<accepted, table>> PROVE [Log!Next]_(Log!vars)
    <3>1. lost' \subseteq (1 .. accepted) \ ToSet(table)
      BY <2>l DEF IInv, Order, Held
    <3> QED
      BY <2>l, <3>1 DEF Log!Next, Log!Lose, Log!ToSet, ToSet
  <2>1. ASSUME NEW w \in Writers, NEW k \in CallSizes, Call(w, k) PROVE [Log!Next]_(Log!vars)
    BY <2>1, <2>u DEF Call, history
  <2>2. ASSUME NEW w \in Writers, QueueValidations(w) PROVE [Log!Next]_(Log!vars)
    <3>1. size[w] \in Nat /\ accepted' = accepted + size[w] /\ UNCHANGED <<table, lost>>
      BY <2>2 DEF QueueValidations, IInv, TypeOK
    <3>2. CASE size[w] = 0
      BY <3>1, <3>2, <2>t, <2>u
    <3>3. CASE size[w] # 0
      BY <3>1, <3>3, <2>t DEF Log!Next, Log!Accept
    <3> QED
      BY <3>2, <3>3
  <2>3. ASSUME FlusherTick \/ StopServer \/ Close \/ CloseDB PROVE [Log!Next]_(Log!vars)
    BY <2>3, <2>u DEF FlusherTick, StopServer, Close, CloseDB, history
  <2>4. ASSUME NEW t \in Threads, Flush(t) PROVE [Log!Next]_(Log!vars)
    <3>1. CASE TakeBatch(t)
      BY <3>1, <2>u DEF TakeBatch, history
    <3>2. ASSUME Abandon(t), UNCHANGED accepted PROVE [Log!Next]_(Log!vars)
      BY <3>2, <2>l DEF Abandon
    <3>3. CASE BeginTx(t)
      BY <3>2, <3>3, <2>u DEF BeginTx
    <3>4. CASE Prepare(t)
      BY <3>2, <3>4, <2>u DEF Prepare
    <3>5. CASE ExecRow(t)
      BY <3>5, <2>l DEF ExecRow
    <3>6. CASE Commit(t)
      <4>1. CASE Abandon(t)
        BY <3>2, <3>6, <4>1 DEF Commit
      <4>2. CASE table' = table \o staged /\ UNCHANGED <<accepted, lost>>
        <5>1. IsPrefix(table, table')
          BY <2>t, <4>2, PrefixOfConcat
        <5>2. Increasing(table') /\ ToSet(table') \subseteq (1 .. accepted) \ lost
          BY <4>2 DEF IInv, Order, Chain, Held
        <5> QED
          BY <4>2, <5>1, <5>2 DEF Log!Next, Log!Deliver, Log!IsPrefix, Log!Increasing, Log!ToSet, IsPrefix, Increasing, ToSet
      <4> QED
        BY <3>6, <4>1, <4>2 DEF Commit
    <3> QED
      BY <2>4, <3>1, <3>3, <3>4, <3>5, <3>6 DEF Flush
  <2>5. ASSUME Restart PROVE [Log!Next]_(Log!vars)
    BY <2>5, <2>l DEF Restart
  <2>6. ASSUME UNCHANGED vars PROVE [Log!Next]_(Log!vars)
    BY <2>6, <2>u DEF vars, history
  <2> QED
    BY <2>1, <2>2, <2>3, <2>4, <2>5, <2>6 DEF Next, Stopped
<1> QED
  BY <1>1, <1>2, Invariant, PTL DEF Spec, ImplementsDeliveryLog, Log!Spec

\* A record that was given up is never written afterwards, by any retry, flush
\* or restart: what Accounted counts as lost stays lost.
THEOREM LostIsForGood ==
    ASSUME NEW r
    PROVE  Spec => [](r \in lost => [](r \notin ToSet(table)))
<1>1. [Log!Next]_(Log!vars) => lost \subseteq lost'
  BY DEF Log!Next, Log!Accept, Log!Deliver, Log!Lose, Log!vars
<1>2. r \in lost /\ lost \subseteq lost' => (r \in lost)'
  OBVIOUS
<1>3. IInv => (r \in lost => r \notin ToSet(table))
  BY DEF IInv, Order, Held
<1> QED
  BY <1>1, <1>2, <1>3, Invariant, Refinement, PTL DEF ImplementsDeliveryLog, Log!Spec
=============================================================================
