------------------------ MODULE StorageServiceProofs ------------------------
(****************************************************************************)
(* For any number of handlers, requests and deaths: types, that no event   *)
(* precedes its record, and what an exit leaves.                           *)
(****************************************************************************)
EXTENDS StorageService, OrderedRecordsProofs, TLAPS

\* A record is known to the store before the handler goes on with it.
Known == /\ EventsFollowRecords
         /\ \A h \in Handlers : /\ pc[h] = "queue" => topic[h] = "refinement"
                                /\ pc[h] \in {"send", "reply"} => number[h] \in Numbered[topic[h]]

\* An event is with its writer, in its topic, given up or refused by the time
\* the handler answers.
Taken(t) == pending[t] \cup published[t] \cup dropped[t] \cup unsent[t]
Answers == /\ \A t \in Topics : answered[t] \subseteq Taken(t)
           /\ \A h \in Handlers : pc[h] = "reply" => number[h] \in Taken(topic[h])

\* The rows are records that were not lost, in their order.
Rows == /\ table \in Seq(Record) /\ Increasing(table)
        /\ ToSet(table) \subseteq (1 .. accepted) \ lost

\* How far main is tells what is empty: Serve has waited for the handlers, and
\* each Close for its store.
Closing ==
    /\ stage \notin {"serving", "draining"} => \A h \in Handlers : pc[h] = "idle"
    /\ stage \in {"closeLearning", "closeStore", "exited"} => pending["refinement"] = {}
    /\ stage \in {"closeStore", "exited"} => pending["learning"] = {}
    /\ stage = "exited" => Queued = {}

IInv == TypeOK /\ Known /\ Answers /\ Rows /\ Closing

-----------------------------------------------------------------------------
(* The invariant is inductive                                              *)

LEMMA InitIInv == Init => IInv
<1> SUFFICES ASSUME Init PROVE IInv
  OBVIOUS
<1>1. table \in Seq(Record) /\ table \in Seq(Nat) /\ Increasing(table) /\ ToSet(table) = {}
  BY DEF Init, Increasing, ToSet
<1>2. TypeOK
  BY <1>1, StorageAssumption DEF Init, TypeOK, Places, Stages, Topics
<1>3. Known /\ Answers /\ Closing
  BY <1>1 DEF Init, Known, EventsFollowRecords, Numbered, Answers, Taken, Closing, Topics
<1> QED
  BY <1>1, <1>2, <1>3 DEF Init, IInv, Rows

\* A number stays one of its topic's.
LEMMA NumbersStay ==
    ASSUME TypeOK, accepted' \in Nat, learned' \in Nat, accepted <= accepted', learned <= learned'
    PROVE  \A t \in Topics : Numbered[t] \subseteq (Numbered[t])'
BY DEF TypeOK, Numbered

\* What the handlers do to the store and the writers.
LEMMA HandlersKeepIInv ==
    ASSUME IInv, NEW h \in Handlers, SaveValidation(h) \/ SaveLearning(h) \/ Handle(h)
    PROVE  IInv'
<1> USE DEF Topics
<1>0. TypeOK
  BY DEF IInv
<1>1. CASE SaveValidation(h)
  <2>1. TypeOK'
    BY <1>0, <1>1, StorageAssumption DEF SaveValidation, Arrives, TypeOK, store, kafka, ghosts, Places
  <2>2. Known' /\ Answers'
    BY <1>0, <1>1 DEF SaveValidation, Arrives, TypeOK, store, kafka, ghosts, IInv, Known, Answers,
       EventsFollowRecords, Numbered, Taken
  <2>3. Rows' /\ Closing'
    BY <1>1 DEF SaveValidation, Arrives, store, kafka, IInv, Rows, Closing
  <2> QED BY <2>1, <2>2, <2>3 DEF IInv
<1>2. CASE SaveLearning(h)
  <2>1. TypeOK'
    BY <1>0, <1>2, StorageAssumption DEF SaveLearning, Arrives, TypeOK, store, kafka, ghosts, Places
  <2>2. \A t \in Topics : Numbered[t] \subseteq (Numbered[t])'
    BY <1>0, <1>2, NumbersStay DEF SaveLearning, Arrives, TypeOK, store
  <2>3. learned + 1 \in (Numbered["learning"])'
    BY <1>0, <1>2 DEF SaveLearning, TypeOK, Numbered
  <2>4. EventsFollowRecords'
    BY <1>2, <2>2 DEF SaveLearning, kafka, ghosts, IInv, Known, EventsFollowRecords
  <2>5. ASSUME NEW g \in Handlers
        PROVE  /\ pc'[g] = "queue" => topic'[g] = "refinement"
               /\ pc'[g] \in {"send", "reply"} => number'[g] \in (Numbered[topic[g]])'
    <3>1. CASE g = h
      BY <1>0, <1>2, <2>3, <3>1 DEF SaveLearning, Arrives, TypeOK
    <3>2. CASE g # h
      <4>1. pc'[g] = pc[g] /\ topic'[g] = topic[g] /\ number'[g] = number[g]
        BY <1>0, <1>2, <3>2 DEF SaveLearning, Arrives, TypeOK
      <4>2. pc[g] \in {"send", "reply"} => topic[g] \in Topics
        BY <1>0 DEF TypeOK
      <4> QED BY <2>2, <4>1, <4>2 DEF IInv, Known
    <3> QED BY <3>1, <3>2
  <2>6. Known'
    BY <2>4, <2>5 DEF Known
  <2>7. Answers'
    BY <1>0, <1>2 DEF SaveLearning, Arrives, TypeOK, kafka, ghosts, IInv, Answers, Taken
  <2>8. Rows' /\ Closing'
    BY <1>2 DEF SaveLearning, Arrives, store, kafka, IInv, Rows, Closing
  <2> QED BY <2>1, <2>6, <2>7, <2>8 DEF IInv
<1>3. CASE Queue(h)
  <2>1. TypeOK'
    BY <1>0, <1>3, StorageAssumption DEF Queue, TypeOK, kafka, ghosts, Places
  <2>2. \A t \in Topics : Numbered[t] \subseteq (Numbered[t])'
    BY <1>0, <1>3, NumbersStay DEF Queue, TypeOK
  <2>3. accepted + 1 \in (Numbered["refinement"])'
    BY <1>0, <1>3 DEF Queue, TypeOK, Numbered
  <2>4. EventsFollowRecords'
    BY <1>3, <2>2 DEF Queue, kafka, ghosts, IInv, Known, EventsFollowRecords
  <2>5. ASSUME NEW g \in Handlers
        PROVE  /\ pc'[g] = "queue" => topic'[g] = "refinement"
               /\ pc'[g] \in {"send", "reply"} => number'[g] \in (Numbered[topic[g]])'
    <3>1. CASE g = h
      <4>1. topic'[g] = "refinement"
        BY <1>3, <3>1 DEF Queue, IInv, Known
      <4>2. pc'[g] = "send" /\ number'[g] = accepted + 1
        BY <1>0, <1>3, <3>1 DEF Queue, TypeOK
      <4> QED BY <2>3, <4>1, <4>2
    <3>2. CASE g # h
      <4>1. pc'[g] = pc[g] /\ topic'[g] = topic[g] /\ number'[g] = number[g]
        BY <1>0, <1>3, <3>2 DEF Queue, TypeOK
      <4>2. pc[g] \in {"send", "reply"} => topic[g] \in Topics
        BY <1>0 DEF TypeOK
      <4> QED BY <2>2, <4>1, <4>2 DEF IInv, Known
    <3> QED BY <3>1, <3>2
  <2>6. Known'
    BY <2>4, <2>5 DEF Known
  <2>7. Answers'
    BY <1>0, <1>3 DEF Queue, TypeOK, kafka, ghosts, IInv, Answers, Taken
  <2>8. Rows'
    BY <1>0, <1>3 DEF Queue, TypeOK, IInv, Rows
  <2>9. Closing'
    BY <1>3 DEF Queue, kafka, IInv, Closing
  <2> QED BY <2>1, <2>6, <2>7, <2>8, <2>9 DEF IInv
<1>4. CASE Send(h)
  <2>1. topic[h] \in Topics /\ number[h] \in Nat /\ number[h] \in Numbered[topic[h]]
    BY <1>0, <1>4 DEF Send, TypeOK, IInv, Known
  <2>2. UNCHANGED <<store, published, dropped, topic, number, stage, learned, answered, asked, restarts, Numbered>>
    BY <1>4 DEF Send, store, Numbered
  <2>3. pc' = [pc EXCEPT ![h] = "reply"] /\ pc[h] = "send"
    BY <1>4 DEF Send
  <2>4. \A t \in Topics : /\ pending[t] \subseteq pending'[t] /\ unsent[t] \subseteq unsent'[t]
                          /\ pending'[t] \subseteq pending[t] \cup (IF t = topic[h] THEN {number[h]} ELSE {})
    <3>1. CASE pending' = [pending EXCEPT ![topic[h]] = @ \cup {number[h]}] /\ unsent' = unsent
      BY <1>0, <3>1 DEF TypeOK
    <3>2. CASE unsent' = [unsent EXCEPT ![topic[h]] = @ \cup {number[h]}] /\ pending' = pending
      BY <1>0, <3>2 DEF TypeOK
    <3> QED BY <1>4, <3>1, <3>2 DEF Send
  <2>5. number[h] \in pending'[topic[h]] \cup unsent'[topic[h]]
    BY <1>0, <1>4, <2>1 DEF Send, TypeOK
  <2>6. pending' \in [Topics -> SUBSET Nat] /\ unsent' \in [Topics -> SUBSET Nat]
    <3>1. CASE pending' = [pending EXCEPT ![topic[h]] = @ \cup {number[h]}] /\ unsent' = unsent
      BY <1>0, <2>1, <3>1 DEF TypeOK
    <3>2. CASE unsent' = [unsent EXCEPT ![topic[h]] = @ \cup {number[h]}] /\ pending' = pending
      BY <1>0, <2>1, <3>2 DEF TypeOK
    <3> QED BY <1>4, <3>1, <3>2 DEF Send
  <2>7. TypeOK'
    <3>1. pc' \in [Handlers -> Places] /\ \A g \in Handlers : pc'[g] = "idle" <=> topic'[g] = None
      BY <1>0, <2>1, <2>2, <2>3, StorageAssumption DEF TypeOK, Places
    <3> QED BY <1>0, <2>2, <2>6, <3>1 DEF TypeOK, store
  <2>8. EventsFollowRecords'
    BY <2>1, <2>2, <2>4 DEF IInv, Known, EventsFollowRecords
  <2>9. Known'
    <3>1. \A g \in Handlers : /\ pc'[g] = "queue" => pc[g] = "queue"
                              /\ pc'[g] \in {"send", "reply"} => pc[g] \in {"send", "reply"}
      BY <1>0, <2>3 DEF TypeOK
    <3> QED BY <2>2, <2>8, <3>1 DEF IInv, Known
  <2>10. \A t \in Topics : Taken(t) \subseteq Taken(t)'
    BY <2>2, <2>4 DEF Taken
  <2>11. ASSUME NEW g \in Handlers, pc'[g] = "reply" PROVE number'[g] \in Taken(topic[g])'
    <3>1. CASE g = h
      BY <2>2, <2>5, <3>1 DEF Taken
    <3>2. CASE g # h
      <4>1. pc[g] = "reply" /\ topic[g] \in Topics
        BY <1>0, <2>3, <2>11, <3>2 DEF TypeOK
      <4> QED BY <2>2, <2>10, <4>1 DEF IInv, Answers
    <3> QED BY <3>1, <3>2
  <2>12. Answers'
    BY <2>2, <2>10, <2>11 DEF IInv, Answers
  <2>13. Rows' /\ Closing'
    BY <1>4 DEF Send, store, IInv, Rows, Closing
  <2> QED BY <2>7, <2>9, <2>12, <2>13 DEF IInv
<1>5. CASE Reply(h)
  <2>1. topic[h] \in Topics /\ number[h] \in Nat /\ number[h] \in Numbered[topic[h]] /\ number[h] \in Taken(topic[h])
    BY <1>0, <1>5 DEF Reply, TypeOK, IInv, Known, Answers
  <2>2. UNCHANGED <<store, kafka, stage, learned, unsent, asked, restarts, Numbered>>
    BY <1>5 DEF Reply, store, Numbered
  <2>3. answered' = [answered EXCEPT ![topic[h]] = @ \cup {number[h]}]
    BY <1>5 DEF Reply
  <2>4. \A t \in Topics : answered'[t] \subseteq answered[t] \cup (IF t = topic[h] THEN {number[h]} ELSE {})
    BY <1>0, <2>1, <2>3 DEF TypeOK
  <2>5. \A g \in Handlers : g # h => pc'[g] = pc[g] /\ topic'[g] = topic[g] /\ number'[g] = number[g]
    BY <1>0, <1>5 DEF Reply, TypeOK
  <2>6. pc'[h] = "idle"
    BY <1>0, <1>5 DEF Reply, TypeOK
  <2>7. TypeOK'
    BY <1>0, <1>5, <2>1, StorageAssumption DEF Reply, TypeOK, store, kafka, Places
  <2>8. EventsFollowRecords'
    BY <2>1, <2>2, <2>4 DEF IInv, Known, EventsFollowRecords, kafka
  <2>9. Known'
    BY <2>2, <2>5, <2>6, <2>8 DEF IInv, Known
  <2>10. \A t \in Topics : Taken(t)' = Taken(t)
    BY <2>2 DEF Taken, kafka
  <2>11. \A g \in Handlers : pc'[g] = "reply" => topic'[g] \in Topics
    BY <2>7 DEF TypeOK
  <2>12. \A t \in Topics : answered'[t] \subseteq Taken(t)
    BY <2>1, <2>4 DEF IInv, Answers
  <2>13. Answers'
    BY <2>5, <2>6, <2>10, <2>11, <2>12 DEF IInv, Answers
  <2>14. Rows' /\ Closing'
    BY <1>5 DEF Reply, store, kafka, IInv, Rows, Closing
  <2> QED BY <2>7, <2>9, <2>13, <2>14 DEF IInv
<1> QED BY <1>1, <1>2, <1>3, <1>4, <1>5 DEF Handle

\* A record more in the table, after all the others.
LEMMA FlushAppends ==
    ASSUME Rows, accepted \in Nat, NEW r \in Queued, \A earlier \in ToSet(table) : earlier < r
    PROVE  LET longer == Append(table, r)
           IN  /\ longer \in Seq(Record) /\ Increasing(longer) /\ IsPrefix(table, longer)
               /\ ToSet(longer) \subseteq (1 .. accepted) \ lost
<1>1. r \in Record /\ r \in (1 .. accepted) \ lost
  BY DEF Queued, Record
<1>2. Append(table, r) \in Seq(Record) /\ ToSet(Append(table, r)) = ToSet(table) \cup {r}
  BY <1>1, ToSetAppend DEF Rows
<1>3. Increasing(Append(table, r))
  BY <1>1, IncreasingAppend DEF Rows
<1>4. Append(table, r) = table \o <<r>> /\ <<r>> \in Seq(Record)
  BY <1>1 DEF Rows
<1>5. IsPrefix(table, Append(table, r))
  BY <1>4, PrefixOfConcat DEF Rows
<1> QED BY <1>1, <1>2, <1>3, <1>5 DEF Rows

LEMMA StoresKeepIInv ==
    ASSUME IInv, Flush \/ (\E t \in Topics : Attempt(t) \/ Settle(t))
    PROVE  IInv'
<1>0. TypeOK
  BY DEF IInv
<1>1. CASE Flush
  <2>1. PICK r \in Queued :
            \/ /\ \A earlier \in ToSet(table) : earlier < r
               /\ table' = Append(table, r)
               /\ UNCHANGED lost
            \/ lost' = lost \cup {r} /\ UNCHANGED table
    BY <1>1 DEF Flush
  <2>2. UNCHANGED <<accepted, kafka, handlers, stage, learned, ghosts, asked, restarts>>
    BY <1>1 DEF Flush
  <2>3. Rows'
    BY <1>0, <2>1, <2>2, FlushAppends DEF IInv, TypeOK, Rows, Queued
  <2>4. table' \in Seq(Nat) /\ lost' \subseteq 1 .. accepted
    <3>1. r \in 1 .. accepted /\ r \in Nat
      BY <1>0, <2>1 DEF TypeOK, Queued
    <3>2. CASE table' = Append(table, r) /\ UNCHANGED lost
      BY <1>0, <3>1, <3>2 DEF TypeOK
    <3>3. CASE lost' = lost \cup {r} /\ UNCHANGED table
      BY <1>0, <3>1, <3>3 DEF TypeOK
    <3> QED BY <2>1, <3>2, <3>3
  <2>5. TypeOK'
    BY <1>0, <2>2, <2>4 DEF TypeOK, kafka, handlers, ghosts
  <2>6. Known' /\ Answers'
    BY <2>2 DEF IInv, Known, Answers, EventsFollowRecords, Numbered, Taken, kafka, handlers, ghosts
  <2>7. stage # "exited"
    BY <2>1 DEF IInv, Closing
  <2>8. Closing'
    BY <2>2, <2>7 DEF IInv, Closing, kafka, handlers
  <2> QED BY <2>3, <2>5, <2>6, <2>8 DEF IInv
<1>2. ASSUME NEW t \in Topics, Attempt(t) PROVE IInv'
  <2>1. TypeOK' /\ Known' /\ Answers'
    BY <1>0, <1>2 DEF Attempt, TypeOK, IInv, Known, Answers, EventsFollowRecords, Numbered, Taken,
       store, handlers, ghosts
  <2>2. Rows' /\ Closing'
    BY <1>2 DEF Attempt, IInv, Rows, Closing, Queued, store, handlers
  <2> QED BY <2>1, <2>2 DEF IInv
<1>3. ASSUME NEW t \in Topics, Settle(t) PROVE IInv'
  <2>1. PICK n \in pending[t] :
            /\ pending' = [pending EXCEPT ![t] = @ \ {n}]
            /\ \/ published' = [published EXCEPT ![t] = @ \cup {n}] /\ UNCHANGED dropped
               \/ dropped' = [dropped EXCEPT ![t] = @ \cup {n}] /\ UNCHANGED published
    BY <1>3 DEF Settle
  <2>2. UNCHANGED <<store, handlers, stage, learned, ghosts, asked, restarts>>
    BY <1>3 DEF Settle
  <2>a. n \in Nat /\ n \in Numbered[t]
    BY <1>0, <2>1 DEF TypeOK, IInv, Known, EventsFollowRecords
  <2>b. pending' \in [Topics -> SUBSET Nat] /\ published' \in [Topics -> SUBSET Nat] /\ dropped' \in [Topics -> SUBSET Nat]
    <3>1. pending' \in [Topics -> SUBSET Nat]
      BY <1>0, <2>1 DEF TypeOK
    <3>2. CASE published' = [published EXCEPT ![t] = @ \cup {n}] /\ UNCHANGED dropped
      BY <1>0, <2>a, <3>1, <3>2 DEF TypeOK
    <3>3. CASE dropped' = [dropped EXCEPT ![t] = @ \cup {n}] /\ UNCHANGED published
      BY <1>0, <2>a, <3>1, <3>3 DEF TypeOK
    <3> QED BY <2>1, <3>2, <3>3
  <2>3. TypeOK'
    BY <1>0, <2>2, <2>b DEF TypeOK, store, handlers, ghosts
  <2>c. \A u \in Topics : /\ pending'[u] \subseteq pending[u]
                          /\ published'[u] \subseteq published[u] \cup (IF u = t THEN {n} ELSE {})
    BY <1>0, <2>1 DEF TypeOK
  <2>d. UNCHANGED Numbered
    BY <2>2 DEF Numbered, store
  <2>4. Known'
    BY <2>2, <2>a, <2>c, <2>d DEF IInv, Known, EventsFollowRecords, handlers, ghosts
  <2>5. \A u \in Topics : Taken(u)' = Taken(u)
    BY <1>0, <2>1, <2>2 DEF TypeOK, Taken, ghosts
  <2>6. \A h \in Handlers : pc[h] = "reply" => topic[h] \in Topics
    BY <1>0 DEF TypeOK
  <2>7. Answers'
    BY <2>2, <2>5, <2>6 DEF IInv, Answers, handlers, ghosts
  <2>8. Rows' /\ Closing'
    BY <1>0, <2>1, <2>2 DEF TypeOK, IInv, Rows, Closing, Queued, store, handlers, Topics
  <2> QED BY <2>3, <2>4, <2>7, <2>8 DEF IInv
<1> QED BY <1>1, <1>2, <1>3

LEMMA MainKeepsIInv ==
    ASSUME IInv, StopServer \/ ServeReturns \/ CloseKafka \/ CloseStore
    PROVE  IInv'
<1>1. /\ UNCHANGED <<store, kafka, handlers, learned, ghosts, asked, restarts>>
      /\ stage' \in Stages
  BY DEF StopServer, ServeReturns, CloseKafka, CloseStore, Stages
<1>2. TypeOK' /\ Known' /\ Answers' /\ Rows'
  BY <1>1 DEF IInv, TypeOK, Known, Answers, Rows, EventsFollowRecords, Numbered, Taken,
     store, kafka, handlers, ghosts
<1>3. Closing'
  BY <1>1 DEF IInv, Closing, Queued, store, kafka, handlers, StopServer, ServeReturns, CloseKafka, CloseStore
<1> QED BY <1>2, <1>3 DEF IInv

LEMMA RestartKeepsIInv ==
    ASSUME IInv, Restart
    PROVE  IInv'
<1>0. TypeOK
  BY DEF IInv
<1>1. TypeOK'
  <2>1. lost' \subseteq 1 .. accepted
    BY <1>0 DEF Restart, TypeOK, Queued
  <2>2. pending' \in [Topics -> SUBSET Nat] /\ dropped' \in [Topics -> SUBSET Nat]
    BY <1>0 DEF Restart, TypeOK
  <2>3. /\ pc' \in [Handlers -> Places] /\ topic' \in [Handlers -> Topics \cup {None}]
        /\ number' \in [Handlers -> Nat] /\ stage' \in Stages
        /\ \A h \in Handlers : pc'[h] = "idle" <=> topic'[h] = None
    BY DEF Restart, Places, Stages
  <2>4. restarts' \in Nat
    BY <1>0 DEF Restart, TypeOK
  <2>5. UNCHANGED <<accepted, table, published, learned, ghosts, asked>>
    BY DEF Restart
  <2> QED BY <1>0, <2>1, <2>2, <2>3, <2>4, <2>5 DEF TypeOK, ghosts
<1>2. Known'
  BY <1>0 DEF Restart, TypeOK, IInv, Known, EventsFollowRecords, Numbered, ghosts
<1>3. Answers'
  BY <1>0 DEF Restart, TypeOK, IInv, Answers, Taken, ghosts
<1>4. Rows' /\ Closing'
  BY <1>0 DEF Restart, TypeOK, IInv, Rows, Closing, Queued
<1> QED BY <1>1, <1>2, <1>3, <1>4 DEF IInv

LEMMA Invariant == Spec => []IInv
<1>1. IInv /\ [Next]_vars => IInv'
  <2> SUFFICES ASSUME IInv, [Next]_vars PROVE IInv'
    OBVIOUS
  <2>1. CASE UNCHANGED vars
    BY <2>1 DEF vars, store, kafka, handlers, ghosts, IInv, TypeOK, Known, Answers, Rows, Closing,
       EventsFollowRecords, Numbered, Taken, Queued
  <2> QED
    BY <2>1, HandlersKeepIInv, StoresKeepIInv, MainKeepsIInv, RestartKeepsIInv DEF Next, Exited
<1> QED
  BY <1>1, InitIInv, PTL DEF Spec

-----------------------------------------------------------------------------
(* The theorems                                                            *)

\* Types, for any number of handlers.
THEOREM TypeCorrect == Spec => []TypeOK
<1>1. IInv => TypeOK
  BY DEF IInv
<1> QED BY <1>1, Invariant, PTL

\* No event of a validation exists before its record was handed to the store.
THEOREM RecordsComeFirst == Spec => []EventsFollowRecords
<1>1. IInv => EventsFollowRecords
  BY DEF IInv, Known
<1> QED BY <1>1, Invariant, PTL

\* A process that exits by itself has settled every record and event.
THEOREM ExitIsClean == Spec => []CleanExit
<1>1. IInv => CleanExit
  <2> SUFFICES ASSUME IInv, stage = "exited" PROVE CleanExit
    BY DEF CleanExit
  <2>1. ToSet(table) \cup lost = 1 .. accepted
    BY DEF IInv, TypeOK, Rows, Closing, Queued
  <2>2. \A t \in Topics : answered[t] \subseteq published[t] \cup dropped[t] \cup unsent[t]
    BY DEF IInv, Closing, Answers, Taken, Topics
  <2> QED BY <2>1, <2>2 DEF CleanExit
<1> QED BY <1>1, Invariant, PTL
=============================================================================
