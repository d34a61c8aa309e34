------------------------- MODULE LearningCoreProofs -------------------------
(****************************************************************************)
(* What holds of LearningCore for any calls, any requests and any number   *)
(* of restarts.  The inductive invariant adds to the types what a call     *)
(* knows between its GET and its SET (Knowledge) and what its loops have   *)
(* done so far (Progress).                                                 *)
(****************************************************************************)
EXTENDS LearningCore, SequenceTheorems, FiniteSetTheorems, TLAPS

-----------------------------------------------------------------------------
(* The requests and the keys                                               *)

\* The sources of one type as a set, and those of a request.
Devices(type, ids) == {[type |-> type, id |-> ids[i]] : i \in 1 .. Len(ids)}
SourceSet(r) == Devices("WIFI", r.wifi) \cup Devices("CELL", r.cells) \cup Devices("BT", r.bt)

\* The sources of one type are a sequence of points (the loops of Learn).
LEMMA TypedIsSeq ==
    ASSUME NEW type, NEW ids, Len(ids) \in Nat
    PROVE  Typed(type, ids) \in Seq(Devices(type, ids))
<1>1. Typed(type, ids) \in [1 .. Len(ids) -> Devices(type, ids)]
  BY DEF Typed, Devices
<1> QED
  BY <1>1

\* The sources of a request are those of its three lists.
LEMMA SourcesTyped ==
    ASSUME NEW r \in Reports
    PROVE  Sources(r) \in Seq(SourceSet(r))
<1>1. Len(r.wifi) \in Nat /\ Len(r.cells) \in Nat /\ Len(r.bt) \in Nat
  BY LearningAssumption, LenProperties
<1>2. /\ Typed("WIFI", r.wifi) \in Seq(Devices("WIFI", r.wifi))
      /\ Typed("CELL", r.cells) \in Seq(Devices("CELL", r.cells))
      /\ Typed("BT", r.bt) \in Seq(Devices("BT", r.bt))
  BY <1>1, TypedIsSeq
<1>3. /\ Typed("WIFI", r.wifi) \in Seq(SourceSet(r))
      /\ Typed("CELL", r.cells) \in Seq(SourceSet(r))
      /\ Typed("BT", r.bt) \in Seq(SourceSet(r))
  BY <1>2, SeqMonotonic DEF SourceSet
<1> QED
  BY <1>3, ConcatProperties DEF Sources

\* The sources of a request are a sequence of points, as many as it lists.
LEMMA SourcesArePoints ==
    ASSUME NEW r \in Reports
    PROVE  Sources(r) \in Seq(Points) /\ Len(Sources(r)) \in Nat
<1>1. \A i \in 1 .. Len(Sources(r)) : Sources(r)[i] \in Points
  BY SourcesTyped, LenProperties DEF Points, ToSet
<1>2. Sources(r) \in [1 .. Len(Sources(r)) -> Points] /\ Len(Sources(r)) \in Nat
  BY SourcesTyped, <1>1, LenProperties
<1> QED
  BY <1>2

\* isCompanion is true of every source it is asked about, because the sources
\* it is compared with are those of the same request under the same keys.
THEOREM EverySourceIsCompanion ==
    ASSUME NEW r \in Reports, NEW i \in Indices(r)
    PROVE  IsCompanion(r, Sources(r)[i])
<1>1. Sources(r)[i] \in ToSet(Sources(r))
  BY SourcesArePoints, LenProperties DEF Indices, ToSet
<1> QED
  BY <1>1 DEF IsCompanion, DetectCompanions

\* So a request is never told that a source is random, and it is told
\* STATIONARY_DETECTED as soon as it lists one.
THEOREM ResultOfSources ==
    ASSUME NEW r \in Reports
    PROVE  DetermineLearningResult(Stationary(r), Random(r)) =
               IF Sources(r) = <<>> THEN "NEED_MORE_DATA" ELSE "STATIONARY_DETECTED"
<1>1. Sources(r) \in Seq(Points) /\ Len(Sources(r)) \in Nat
  BY SourcesArePoints
<1>2. {i \in Indices(r) : IsCompanion(r, Sources(r)[i])} = 1 .. Len(Sources(r))
  BY EverySourceIsCompanion DEF Indices
<1>3. {i \in Indices(r) : ~ IsCompanion(r, Sources(r)[i])} = {}
  BY EverySourceIsCompanion
<1>4. Cardinality(1 .. Len(Sources(r))) = Len(Sources(r))
  <2>1. ASSUME NEW n \in Nat PROVE Cardinality(1 .. n) = n
    BY FS_Interval
  <2> QED
    BY <1>1, <2>1
<1>5. Stationary(r) = Len(Sources(r)) /\ Random(r) = 0
  <2>1. Stationary(r) = Len(Sources(r))
    BY <1>2, <1>4 DEF Stationary
  <2>2. Random(r) = 0
    BY <1>3, FS_EmptySet DEF Random
  <2> QED
    BY <2>1, <2>2
<1>6. Sources(r) = <<>> <=> Len(Sources(r)) = 0
  BY <1>1, EmptySeq
<1> QED
  BY <1>1, <1>5, <1>6 DEF DetermineLearningResult

\* Two cells whose ids are all code points have different companion keys: the
\* collisions of keyFromCell are those of ids that are none.
THEOREM CellKeysDistinct ==
    ASSUME NEW a, NEW b,
           a = <<a[1], a[2]>>, b = <<b[1], b[2]>>,
           \A i \in 1 .. 2 : CodePoint(a[i]) /\ CodePoint(b[i]),
           KeyFromCell(a) = KeyFromCell(b)
    PROVE  a = b
  BY DEF KeyFromCell, Rune

-----------------------------------------------------------------------------
(* Types                                                                   *)

\* What a step of a running call may take for granted.
LEMMA RunningCall ==
    ASSUME TypeOK, NEW c \in Calls, pc[c] \in Running \cup {"done"}
    PROVE  /\ report[c] \in Reports /\ report[c].object \in Objects
           /\ SourcesOf(c) \in Seq(Points) /\ Len(SourcesOf(c)) \in Nat
           /\ pc[c] \notin {"return", "done"} => Point(c) \in Points /\ index[c] \in 1 .. Len(SourcesOf(c))
<1>1. report[c] \in Reports
  BY DEF TypeOK, InLoop
<1>2. SourcesOf(c) \in Seq(Points) /\ Len(SourcesOf(c)) \in Nat
  BY <1>1, SourcesArePoints DEF SourcesOf
<1>3. pc[c] \notin {"return", "done"} => index[c] \in 1 .. Len(SourcesOf(c))
  BY <1>2 DEF TypeOK, InLoop
<1> QED
  BY <1>1, <1>2, <1>3, LenProperties DEF Point, Objects

\* Where Advance leads, for a call that is at one of its sources.
LEMMA AdvanceStep ==
    ASSUME TypeOK, NEW c \in Calls, pc[c] \in {"companions", "get", "set"},
           NEW loop \in Running \ {"return"}, NEW after \in Running,
           after = "return" \/ Len(SourcesOf(c)) > 0,
           Advance(c, loop, after), UNCHANGED report
    PROVE  /\ pc' \in [Calls -> Locations] /\ index' \in [Calls -> Nat \ {0}]
           /\ \A d \in Calls \ {c} : pc'[d] = pc[d] /\ index'[d] = index[d]
           /\ \/ /\ index[c] < Len(SourcesOf(c))
                 /\ index'[c] = index[c] + 1 /\ pc'[c] = loop
              \/ /\ index[c] = Len(SourcesOf(c))
                 /\ index'[c] = 1 /\ pc'[c] = after
           /\ \A d \in Calls : InLoop(d)'
<1>1. /\ index[c] \in 1 .. Len(SourcesOf(c)) /\ Len(SourcesOf(c)) \in Nat
      /\ report[c] \in Reports
  BY RunningCall DEF Running
<1>2. pc \in [Calls -> Locations] /\ index \in [Calls -> Nat \ {0}]
  BY DEF TypeOK
<1>3. loop \in Locations /\ after \in Locations
  BY DEF Locations, Running
<1>4. /\ pc' \in [Calls -> Locations]
      /\ \A d \in Calls \ {c} : pc'[d] = pc[d] /\ index'[d] = index[d]
  BY <1>2, <1>3 DEF Advance
<1>5. \/ /\ index[c] < Len(SourcesOf(c))
         /\ index' = [index EXCEPT ![c] = @ + 1] /\ pc'[c] = loop
      \/ /\ index[c] = Len(SourcesOf(c))
         /\ index' = [index EXCEPT ![c] = 1] /\ pc'[c] = after
  BY <1>1, <1>2 DEF Advance
<1>6. index' \in [Calls -> Nat \ {0}] /\ index'[c] <= Len(SourcesOf(c))
  BY <1>1, <1>2, <1>5
<1>7. \A d \in Calls : InLoop(d)'
  BY <1>1, <1>4, <1>6 DEF TypeOK, InLoop, SourcesOf
<1> QED
  BY <1>2, <1>4, <1>5, <1>6, <1>7

\* The entry updateWifiCoordinates builds is an entry.
LEMMA EntryUpdated ==
    ASSUME NEW c \in Calls, NEW p \in Points, NEW old \in Entry \cup {Nil}
    PROVE  Updated(c, p, old) \in Entry
<1> DEFINE B == [by : Calls, weight : {10, 20, 100}]
<1>1. CASE old = Nil
  <2>1. <<[by |-> c, weight |-> 100]>> \in Seq(B)
    OBVIOUS
  <2> QED
    BY <1>1, <2>1 DEF Updated, Entry
<1>2. CASE old # Nil
  <2>1. old \in Entry
    BY <1>2
  <2>2. \A w \in {10, 20} : Append(old.at, [by |-> c, weight |-> w]) \in Seq(B)
    BY <2>1 DEF Entry
  <2>3. (IF IsCompanion(report[c], p) THEN 20 ELSE 10) \in {10, 20}
    OBVIOUS
  <2> QED
    BY <1>2, <2>1, <2>2, <2>3 DEF Updated, Entry
<1> QED
  BY <1>1, <1>2

\* Every variable keeps its type, and no loop runs past the request's sources.
THEOREM TypeCorrect == Spec => []TypeOK
<1>1. Init => TypeOK
  BY LearningAssumption DEF Init, TypeOK, InLoop, Locations, Running
<1>2. TypeOK /\ [Next]_vars => TypeOK'
  <2> SUFFICES ASSUME TypeOK, [Next]_vars PROVE TypeOK'
    OBVIOUS
  <2> USE DEF redis, calls, history
  <2>1. ASSUME NEW c \in Calls, NEW r \in Reports, Learn(c, r) PROVE TypeOK'
    <3>1. Len(Sources(r)) \in Nat /\ (Sources(r) = <<>> \/ Len(Sources(r)) >= 1)
      BY SourcesArePoints, EmptySeq
    <3>2. /\ pc' \in [Calls -> Locations] /\ index' \in [Calls -> Nat \ {0}]
          /\ report' \in [Calls -> Reports \cup {Nil}]
          /\ \A d \in Calls \ {c} : pc'[d] = pc[d] /\ index'[d] = index[d] /\ report'[d] = report[d]
          /\ index'[c] = 1 /\ report'[c] = r
      BY <2>1 DEF Learn, TypeOK, Locations, Running
    <3>3. pc'[c] \in {"failed", "return"} \/ Len(Sources(r)) >= 1
      BY <2>1, <3>1 DEF Learn, TypeOK
    <3>4. ASSUME NEW d \in Calls PROVE InLoop(d)'
      BY <3>1, <3>2, <3>3 DEF TypeOK, InLoop, SourcesOf, Running
    <3> QED
      BY <2>1, <3>2, <3>4 DEF Learn, TypeOK
  <2>2. ASSUME NEW c \in Calls, AddCompanion(c) PROVE TypeOK'
    <3>1. pc[c] = "companions" /\ Advance(c, "companions", "get") /\ UNCHANGED report
      BY <2>2 DEF AddCompanion
    <3>2. Point(c) \in Points /\ Len(SourcesOf(c)) > 0 /\ report[c].object \in Objects
      BY <3>1, RunningCall DEF Running
    <3>3. /\ pc' \in [Calls -> Locations] /\ index' \in [Calls -> Nat \ {0}]
          /\ \A d \in Calls : InLoop(d)'
      BY <3>1, <3>2, AdvanceStep DEF Running
    <3>4. /\ companions' \in [Objects -> SUBSET {Companion(p) : p \in Points}]
          /\ missed' \subseteq Calls
      <4> DEFINE K == {Companion(p) : p \in Points}
      <4>1. Companion(Point(c)) \in K
        BY <3>2
      <4> HIDE DEF K
      <4>2. companions \in [Objects -> SUBSET K] /\ missed \subseteq Calls
        BY DEF TypeOK, K
      <4>3. companions' \in [Objects -> SUBSET K] /\ missed' \subseteq Calls
        BY <2>2, <3>2, <4>1, <4>2 DEF AddCompanion
      <4> QED
        BY <4>3 DEF K
    <3> QED
      BY <2>2, <3>3, <3>4 DEF AddCompanion, TypeOK
  <2>3. ASSUME NEW c \in Calls, Get(c) PROVE TypeOK'
    <3>1. Point(c) \in Points /\ report[c] \in Reports /\ index[c] <= Len(SourcesOf(c))
      BY <2>3, RunningCall DEF Get, Running
    <3>2. /\ existing' \in [Calls -> Entry \cup {Nil}] /\ seen' \in [Calls -> Nat]
          /\ pc' \in [Calls -> Locations]
      <4>1. cache[Point(c)] \in Entry \cup {Nil} /\ applied[Point(c)] \in Nat
        BY <3>1 DEF TypeOK
      <4>2. "set" \in Locations
        BY DEF Locations, Running
      <4> QED
        BY <2>3, <4>1, <4>2 DEF Get, TypeOK
    <3>3. ASSUME NEW d \in Calls PROVE InLoop(d)'
      BY <2>3, <3>1 DEF Get, TypeOK, InLoop, SourcesOf, Running
    <3> QED
      BY <2>3, <3>2, <3>3 DEF Get, TypeOK
  <2>4. ASSUME NEW c \in Calls, Set(c) PROVE TypeOK'
    <3>1. pc[c] = "set" /\ Advance(c, "get", "return") /\ UNCHANGED report
      BY <2>4 DEF Set
    <3>2. Point(c) \in Points
      BY <3>1, RunningCall DEF Running
    <3>3. /\ pc' \in [Calls -> Locations] /\ index' \in [Calls -> Nat \ {0}]
          /\ \A d \in Calls : InLoop(d)'
      BY <3>1, AdvanceStep DEF Running
    <3>4. Updated(c, Point(c), existing[c]) \in Entry
      BY <3>2, EntryUpdated DEF TypeOK
    <3>5. /\ cache' \in [Points -> Entry \cup {Nil}] /\ applied' \in [Points -> Nat]
          /\ raced' \subseteq Points /\ missed' \subseteq Calls
      BY <2>4, <3>2, <3>4 DEF Set, TypeOK
    <3> QED
      BY <2>4, <3>3, <3>5 DEF Set, TypeOK
  <2>5. ASSUME NEW c \in Calls, Return(c) PROVE TypeOK'
    <3>1. DetermineLearningResult(Stationary(report[c]), Random(report[c])) \in Results
      BY <2>5, RunningCall, ResultOfSources DEF Return, Running, Results
    <3>2. result' \in [Calls -> Results \cup {Nil}] /\ pc' \in [Calls -> Locations]
      BY <2>5, <3>1 DEF Return, TypeOK, Locations
    <3>3. ASSUME NEW d \in Calls PROVE InLoop(d)'
      BY <2>5 DEF Return, TypeOK, InLoop, SourcesOf, Running
    <3> QED
      BY <2>5, <3>2, <3>3 DEF Return, TypeOK
  <2>6. ASSUME Restart PROVE TypeOK'
    <3>1. pc' \in [Calls -> Locations]
      BY <2>6 DEF Restart, TypeOK, Locations
    <3>2. ASSUME NEW d \in Calls PROVE InLoop(d)'
      BY <2>6 DEF Restart, TypeOK, InLoop, SourcesOf, Running
    <3> QED
      BY <2>6, <3>1, <3>2 DEF Restart, TypeOK
  <2>7. ASSUME UNCHANGED vars PROVE TypeOK'
    BY <2>7 DEF vars, TypeOK, InLoop, SourcesOf
  <2> QED
    BY <2>1, <2>2, <2>3, <2>4, <2>5, <2>6, <2>7 DEF Next, Step, Finished
<1> QED
  BY <1>1, <1>2, PTL DEF Spec

-----------------------------------------------------------------------------
(* What a call knows between its GET and its SET                           *)

\* The entry a call is about to replace is consistent with the writes the call
\* has seen, and is the current one unless a write came in between.
Knows(c) ==
    LET p == Point(c)
    IN  pc[c] = "set" =>
            /\ seen[c] <= applied[p]
            /\ existing[c] # Nil => Consistent(existing[c], seen[c])
            /\ seen[c] = applied[p] => existing[c] = cache[p]

Knowledge == EntriesAreConsistent /\ NoUpdateLost /\ \A c \in Calls : Knows(c)

\* One more update of a consistent entry is a consistent entry.
LEMMA UpdatedIsConsistent ==
    ASSUME NEW c \in Calls, NEW p \in Points, NEW n \in Nat, NEW m \in Nat, m <= n,
           NEW old \in Entry \cup {Nil}, old # Nil => Consistent(old, m)
    PROVE  /\ Consistent(Updated(c, p, old), n + 1)
           /\ Updated(c, p, old) # Nil
           /\ Updated(c, p, old).obsCount = IF old = Nil THEN 1 ELSE old.obsCount + 1
<1> DEFINE B == [by : Calls, weight : {10, 20, 100}]
           w == IF IsCompanion(report[c], p) THEN 20 ELSE 10
<1>0. Updated(c, p, old) # Nil
  BY EntryUpdated, LearningAssumption
<1>1. CASE old = Nil
  <2> DEFINE s == <<[by |-> c, weight |-> 100]>>
  <2>1. Len(s) = 1 /\ s[1].weight = 100
    OBVIOUS
  <2> QED
    BY <1>0, <1>1, <2>1 DEF Updated, Consistent
<1>2. CASE old # Nil
  <2>1. old.at \in Seq(B) /\ old.obsCount \in Nat /\ old.version \in Nat
    BY <1>2 DEF Entry
  <2>2. w # 100 /\ [by |-> c, weight |-> w] \in B
    OBVIOUS
  <2> DEFINE at == Append(old.at, [by |-> c, weight |-> w])
  <2>3. Len(at) = Len(old.at) + 1 /\ Len(old.at) \in Nat
    BY <2>1, <2>2
  <2>4. \A i \in 1 .. Len(old.at) : at[i] = old.at[i]
    BY <2>1, <2>2
  <2>5. at[Len(old.at) + 1].weight = w
    BY <2>1, <2>2
  <2>6. /\ old.version = old.obsCount /\ Len(old.at) = old.obsCount
        /\ old.obsCount \in 1 .. m
        /\ \A i \in 1 .. Len(old.at) : old.at[i].weight = 100 <=> i = 1
    BY <1>2 DEF Consistent
  <2>7. \A i \in 1 .. Len(at) : at[i].weight = 100 <=> i = 1
    <3> HIDE DEF at, w
    <3> TAKE i \in 1 .. Len(at)
    <3>1. CASE i \in 1 .. Len(old.at)
      BY <3>1, <2>4, <2>6
    <3>2. CASE i = Len(old.at) + 1
      BY <3>2, <2>2, <2>5, <2>6
    <3> QED
      BY <2>3, <3>1, <3>2
  <2>8. /\ Updated(c, p, old).at = at
        /\ Updated(c, p, old).version = old.version + 1
        /\ Updated(c, p, old).obsCount = old.obsCount + 1
    BY <1>2 DEF Updated
  <2> HIDE DEF at, w
  <2> QED
    BY <1>0, <1>2, <2>1, <2>3, <2>6, <2>7, <2>8 DEF Consistent
<1> QED
  BY <1>1, <1>2

\* No step of Learn, of Redis or of a restart breaks Knowledge.
LEMMA KnowledgeNext == TypeOK /\ TypeOK' /\ Knowledge /\ [Next]_vars => Knowledge'
<1> SUFFICES ASSUME TypeOK, TypeOK', Knowledge, [Next]_vars PROVE Knowledge'
  OBVIOUS
<1> USE DEF redis, calls, history
<1>u. ASSUME UNCHANGED <<cache, applied, raced>>,
             NEW c \in Calls, pc'[c] # "set",
             \A d \in Calls \ {c} : /\ pc'[d] = pc[d] /\ index'[d] = index[d]
                                    /\ report'[d] = report[d]
                                    /\ seen'[d] = seen[d] /\ existing'[d] = existing[d]
      PROVE  Knowledge'
  BY <1>u DEF Knowledge, EntriesAreConsistent, NoUpdateLost, Knows, Point, SourcesOf
<1>1. ASSUME NEW c \in Calls, NEW r \in Reports, Learn(c, r) PROVE Knowledge'
  BY <1>1, <1>u DEF Learn, TypeOK
<1>2. ASSUME NEW c \in Calls, AddCompanion(c) PROVE Knowledge'
  <2>1. /\ pc'[c] # "set"
        /\ \A d \in Calls \ {c} : pc'[d] = pc[d] /\ index'[d] = index[d]
    BY <1>2 DEF AddCompanion, Advance, TypeOK
  <2> QED
    BY <1>2, <1>u, <2>1 DEF AddCompanion
<1>3. ASSUME NEW c \in Calls, Get(c) PROVE Knowledge'
  <2> DEFINE p == Point(c)
  <2>1. p \in Points /\ applied[p] \in Nat
    BY <1>3, RunningCall DEF Get, Running, TypeOK
  <2>2. UNCHANGED <<cache, applied, raced, index, report>>
    BY <1>3 DEF Get
  <2>3. /\ \A d \in Calls \ {c} : /\ pc'[d] = pc[d] /\ seen'[d] = seen[d]
                                 /\ existing'[d] = existing[d]
        /\ \/ existing'[c] = cache[p] /\ seen'[c] = applied[p]
           \/ existing'[c] = Nil /\ seen'[c] = 0
    BY <1>3 DEF Get, TypeOK
  <2>4. \A d \in Calls \ {c} : Knows(d)'
    BY <2>2, <2>3 DEF Knowledge, Knows, Point, SourcesOf
  <2>5. applied[p] = 0 => cache[p] = Nil
    BY <2>1 DEF Knowledge, EntriesAreConsistent, Consistent
  <2>6. Point(c)' = p
    BY <2>2 DEF Point, SourcesOf
  <2>7. cache[p] # Nil => Consistent(cache[p], applied[p])
    BY <2>1 DEF Knowledge, EntriesAreConsistent
  <2> HIDE DEF p
  <2>8. Knows(c)'
    BY <2>1, <2>2, <2>3, <2>5, <2>6, <2>7 DEF Knows, Consistent
  <2> QED
    BY <2>2, <2>4, <2>8 DEF Knowledge, EntriesAreConsistent, NoUpdateLost
<1>4. ASSUME NEW c \in Calls, Set(c) PROVE Knowledge'
  <2> DEFINE p == Point(c)
             new == Updated(c, p, existing[c])
  <2>1. /\ p \in Points /\ applied[p] \in Nat /\ seen[c] \in Nat
        /\ existing[c] \in Entry \cup {Nil} /\ pc[c] = "set"
    BY <1>4, RunningCall DEF Set, Running, TypeOK
  <2>2. /\ pc'[c] # "set" /\ UNCHANGED <<report, existing, seen>>
        /\ \A d \in Calls \ {c} : pc'[d] = pc[d] /\ index'[d] = index[d]
    BY <1>4 DEF Set, Advance, TypeOK
  <2>3. CASE UNCHANGED <<cache, applied, raced>>
    BY <2>2, <2>3, <1>u
  <2>4. CASE /\ cache' = [cache EXCEPT ![p] = new]
             /\ applied' = [applied EXCEPT ![p] = @ + 1]
             /\ raced' = IF seen[c] = applied[p] THEN raced ELSE raced \cup {p}
    <3>1. /\ Consistent(new, applied[p] + 1) /\ new # Nil
          /\ new.obsCount = IF existing[c] = Nil THEN 1 ELSE existing[c].obsCount + 1
      BY <2>1, UpdatedIsConsistent DEF Knowledge, Knows
    <3>2. /\ cache'[p] = new /\ applied'[p] = applied[p] + 1
          /\ \A q \in Points \ {p} : cache'[q] = cache[q] /\ applied'[q] = applied[q]
      BY <2>1, <2>4 DEF TypeOK
    <3>3. EntriesAreConsistent'
      BY <3>1, <3>2 DEF Knowledge, EntriesAreConsistent, Consistent
    <3>4. NoUpdateLost'
      <4>1. ASSUME p \notin raced' PROVE new.obsCount = applied[p] + 1
        <5>1. seen[c] = applied[p] /\ p \notin raced
          BY <2>4, <4>1
        <5>2. existing[c] = cache[p]
          BY <2>1, <5>1 DEF Knowledge, Knows
        <5>3. cache[p] = Nil <=> applied[p] = 0
          BY <2>1, <5>1 DEF Knowledge, NoUpdateLost
        <5> QED
          BY <2>1, <3>1, <5>1, <5>2, <5>3 DEF Knowledge, NoUpdateLost
      <4> HIDE DEF p, new
      <4>2. raced \subseteq raced'
        BY <2>4
      <4>3. applied'[p] # 0
        BY <2>1, <3>2
      <4> QED
        BY <3>1, <3>2, <4>1, <4>2, <4>3 DEF Knowledge, NoUpdateLost
    <3>5. ASSUME NEW d \in Calls \ {c} PROVE Knows(d)'
      <4>1. Point(d)' = Point(d)
        BY <2>2 DEF Point, SourcesOf
      <4>2. CASE pc[d] = "set"
        <5>1. Point(d) \in Points /\ applied[Point(d)] \in Nat /\ seen[d] \in Nat
          BY <4>2, RunningCall DEF Running, TypeOK
        <5> HIDE DEF p, new
        <5> QED
          BY <2>1, <2>2, <3>2, <4>1, <4>2, <5>1 DEF Knowledge, Knows
      <4>3. CASE pc[d] # "set"
        BY <2>2, <4>3 DEF Knows
      <4> QED
        BY <4>2, <4>3
    <3> QED
      BY <2>2, <3>3, <3>4, <3>5 DEF Knowledge, Knows
  <2> QED
    BY <1>4, <2>3, <2>4 DEF Set
<1>5. ASSUME NEW c \in Calls, Return(c) PROVE Knowledge'
  BY <1>5, <1>u DEF Return, TypeOK
<1>6. ASSUME Restart PROVE Knowledge'
  BY <1>6 DEF Restart, TypeOK, Running, Knowledge, EntriesAreConsistent, NoUpdateLost,
              Knows, Point, SourcesOf
<1>7. ASSUME UNCHANGED vars PROVE Knowledge'
  BY <1>7 DEF vars, Knowledge, EntriesAreConsistent, NoUpdateLost, Knows, Point, SourcesOf
<1> QED
  BY <1>1, <1>2, <1>3, <1>4, <1>5, <1>6, <1>7 DEF Next, Step, Finished

\* Knowledge holds in every reachable state.
LEMMA KnowledgeInvariant == Spec => []Knowledge
<1>1. Init => Knowledge
  BY DEF Init, Knowledge, EntriesAreConsistent, NoUpdateLost, Knows
<1> QED
  BY <1>1, KnowledgeNext, TypeCorrect, PTL DEF Spec

\* Outside races and failed reads, obsCount counts every write: nothing else in
\* the loops can lose an update, however many calls run.
THEOREM UpdatesAreOnlyLostToRaces == Spec => []NoUpdateLost
<1>1. Knowledge => NoUpdateLost
  BY DEF Knowledge
<1> QED
  BY <1>1, KnowledgeInvariant, PTL

\* Even under races every entry is the product of whole updates.
THEOREM EntriesStayConsistent == Spec => []EntriesAreConsistent
<1>1. Knowledge => EntriesAreConsistent
  BY DEF Knowledge
<1> QED
  BY <1>1, KnowledgeInvariant, PTL

\* docs/testing-checklist.md: "Version increment on update".  The document is
\* right of every point that no two calls raced on and no failed read hid.
UnracedVersionsIncrement ==
    [][\A p \in Points \ raced' : cache[p] # Nil /\ cache'[p] # cache[p] =>
           cache'[p].version = cache[p].version + 1]_vars

\* Versions go up by one wherever updates are not raced: the violation that
\* VersionIncrementsOnUpdate meets needs a race.
THEOREM VersionsIncrementUnlessRaced == Spec => UnracedVersionsIncrement
<1>1. TypeOK /\ Knowledge /\ [Next]_vars =>
          [\A p \in Points \ raced' : cache[p] # Nil /\ cache'[p] # cache[p] =>
               cache'[p].version = cache[p].version + 1]_vars
  <2> SUFFICES ASSUME TypeOK, Knowledge, [Next]_vars, NEW p \in Points \ raced',
                      cache[p] # Nil, cache'[p] # cache[p]
               PROVE  cache'[p].version = cache[p].version + 1
    OBVIOUS
  <2> USE DEF redis, calls, history
  <2>1. ASSUME NEW c \in Calls, Set(c) PROVE cache'[p].version = cache[p].version + 1
    <3>1. /\ p = Point(c) /\ cache'[p] = Updated(c, p, existing[c])
          /\ raced' = IF seen[c] = applied[p] THEN raced ELSE raced \cup {p}
      BY <2>1 DEF Set, TypeOK
    <3>2. seen[c] = applied[p]
      BY <3>1
    <3>3. existing[c] = cache[p]
      BY <2>1, <3>1, <3>2 DEF Set, Knowledge, Knows
    <3> QED
      BY <3>1, <3>3 DEF Updated
  <2> QED
    BY <2>1 DEF Next, Step, Learn, AddCompanion, Get, Return, Restart, Finished, vars
<1> QED
  BY <1>1, TypeCorrect, KnowledgeInvariant, PTL DEF Spec, UnracedVersionsIncrement

-----------------------------------------------------------------------------
(* What the loops of a call have done so far                               *)

\* Which sources of a call are companions by now, and which are cached.
Companioned(c, i) == \/ pc[c] = "companions" /\ i < index[c]
                     \/ pc[c] \in {"get", "set", "return", "done"}
Cached(c, i) == \/ pc[c] \in {"get", "set"} /\ i < index[c]
                \/ pc[c] \in {"return", "done"}

Progress(c) ==
    pc[c] \in Running \cup {"done"} /\ c \notin missed =>
        \A i \in 1 .. Len(SourcesOf(c)) :
            LET p == SourcesOf(c)[i]
            IN  /\ Companioned(c, i) => Companion(p) \in companions[report[c].object]
                /\ Cached(c, i) => cache[p] # Nil

\* Redis only gains entries and companions, and a call only gains failures.
LEMMA RedisGrows ==
    ASSUME TypeOK, [Next]_vars
    PROVE  /\ \A p \in Points : cache[p] # Nil => cache'[p] # Nil
           /\ \A o \in Objects : companions[o] \subseteq companions'[o]
           /\ missed \subseteq missed'
<1> USE DEF redis, calls, history
<1>1. ASSUME NEW c \in Calls, AddCompanion(c)
      PROVE  /\ \A o \in Objects : companions[o] \subseteq companions'[o]
             /\ missed \subseteq missed' /\ UNCHANGED cache
  BY <1>1 DEF AddCompanion, TypeOK
<1>2. ASSUME NEW c \in Calls, Set(c)
      PROVE  /\ \A p \in Points : cache[p] # Nil => cache'[p] # Nil
             /\ missed \subseteq missed' /\ UNCHANGED companions
  <2>1. Point(c) \in Points /\ existing[c] \in Entry \cup {Nil}
    BY <1>2, RunningCall DEF Set, Running, TypeOK
  <2>2. Updated(c, Point(c), existing[c]) # Nil
    BY <2>1, EntryUpdated, LearningAssumption
  <2> QED
    BY <1>2, <2>2 DEF Set, TypeOK
<1> QED
  BY <1>1, <1>2 DEF Next, Step, Learn, Get, Return, Restart, Finished, vars

\* No step breaks what a call's position says of the points behind it.
LEMMA ProgressNext ==
    ASSUME TypeOK, TypeOK', \A c \in Calls : Progress(c), [Next]_vars
    PROVE  \A c \in Calls : Progress(c)'
<1> USE DEF redis, calls, history
\* A call that does not move keeps what it has: Redis only grows.
<1>u. ASSUME NEW d \in Calls, report'[d] = report[d],
             pc'[d] = "dead" \/ (pc'[d] = pc[d] /\ index'[d] = index[d])
      PROVE  Progress(d)'
  <2>1. SourcesOf(d)' = SourcesOf(d)
    BY <1>u DEF SourcesOf
  <2>2. CASE pc'[d] = "dead"
    BY <2>2 DEF Progress, Running
  <2>3. CASE pc'[d] \in Running \cup {"done"} /\ pc'[d] = pc[d] /\ index'[d] = index[d]
    <3>1. /\ SourcesOf(d) \in Seq(Points) /\ report[d].object \in Objects
      BY <2>3, RunningCall
    <3>2. \A i \in 1 .. Len(SourcesOf(d)) : SourcesOf(d)[i] \in Points
      BY <3>1, LenProperties
    <3> QED
      BY <1>u, <2>1, <2>3, <3>1, <3>2, RedisGrows DEF Progress, Companioned, Cached
  <2>4. CASE pc'[d] \notin Running \cup {"done"}
    BY <2>4 DEF Progress
  <2> QED
    BY <1>u, <2>2, <2>3, <2>4
<1>1. ASSUME NEW c \in Calls, NEW r \in Reports, Learn(c, r) PROVE \A d \in Calls : Progress(d)'
  <2>1. Len(Sources(r)) \in Nat /\ (Sources(r) = <<>> \/ Len(Sources(r)) >= 1)
    BY SourcesArePoints, EmptySeq
  <2>2. /\ \A d \in Calls \ {c} : pc'[d] = pc[d] /\ index'[d] = index[d] /\ report'[d] = report[d]
        /\ report'[c] = r /\ index'[c] = 1
        /\ \/ pc'[c] = "failed"
           \/ pc'[c] = "return" /\ Sources(r) = <<>>
           \/ pc'[c] = "companions"
    BY <1>1 DEF Learn, TypeOK
  <2>3. Progress(c)'
    BY <2>1, <2>2 DEF Progress, Companioned, Cached, SourcesOf, Running
  <2> QED
    BY <1>u, <2>2, <2>3
<1>2. ASSUME NEW c \in Calls, AddCompanion(c) PROVE \A d \in Calls : Progress(d)'
  <2>1. /\ pc[c] = "companions" /\ UNCHANGED <<report, cache>>
        /\ Advance(c, "companions", "get")
    BY <1>2 DEF AddCompanion
  <2>2. /\ report[c].object \in Objects /\ index[c] \in 1 .. Len(SourcesOf(c))
        /\ Len(SourcesOf(c)) \in Nat /\ SourcesOf(c)' = SourcesOf(c)
    BY <2>1, RunningCall DEF Running, SourcesOf
  <2>3. /\ \A d \in Calls \ {c} : pc'[d] = pc[d] /\ index'[d] = index[d]
        /\ \/ /\ index[c] < Len(SourcesOf(c))
              /\ index'[c] = index[c] + 1 /\ pc'[c] = "companions"
           \/ /\ index[c] = Len(SourcesOf(c)) /\ index'[c] = 1 /\ pc'[c] = "get"
    BY <2>1, <2>2, AdvanceStep DEF Running
  <2>4. c \notin missed' => Companion(Point(c)) \in companions'[report[c].object]
    BY <1>2, <2>2 DEF AddCompanion, TypeOK
  <2>5. /\ companions[report[c].object] \subseteq companions'[report[c].object]
        /\ missed \subseteq missed'
    BY <2>2, RedisGrows
  <2>6. Progress(c)'
    BY <2>1, <2>2, <2>3, <2>4, <2>5 DEF Progress, Companioned, Cached, Point, Running
  <2> QED
    BY <1>u, <2>1, <2>3, <2>6
<1>3. ASSUME NEW c \in Calls, Get(c) PROVE \A d \in Calls : Progress(d)'
  <2>1. /\ \A d \in Calls \ {c} : pc'[d] = pc[d]
        /\ UNCHANGED <<report, index, cache, companions, missed>>
        /\ pc[c] = "get" /\ pc'[c] = "set"
    BY <1>3 DEF Get, TypeOK
  <2>2. Progress(c)'
    BY <2>1 DEF Progress, Companioned, Cached, SourcesOf, Running
  <2> QED
    BY <1>u, <2>1, <2>2
<1>4. ASSUME NEW c \in Calls, Set(c) PROVE \A d \in Calls : Progress(d)'
  <2>1. /\ pc[c] = "set" /\ UNCHANGED <<report, companions>>
        /\ Advance(c, "get", "return")
    BY <1>4 DEF Set
  <2>2. /\ index[c] \in 1 .. Len(SourcesOf(c)) /\ Len(SourcesOf(c)) \in Nat
        /\ SourcesOf(c) \in Seq(Points)
        /\ Point(c) \in Points /\ SourcesOf(c)' = SourcesOf(c)
    BY <2>1, RunningCall DEF Running, SourcesOf
  <2>3. /\ \A d \in Calls \ {c} : pc'[d] = pc[d] /\ index'[d] = index[d]
        /\ \/ /\ index[c] < Len(SourcesOf(c))
              /\ index'[c] = index[c] + 1 /\ pc'[c] = "get"
           \/ /\ index[c] = Len(SourcesOf(c)) /\ index'[c] = 1 /\ pc'[c] = "return"
    BY <2>1, <2>2, AdvanceStep DEF Running
  <2>4. Updated(c, Point(c), existing[c]) # Nil
    BY <2>2, EntryUpdated, LearningAssumption DEF TypeOK
  <2>5. c \notin missed' => cache'[Point(c)] # Nil
    BY <1>4, <2>2, <2>4 DEF Set, TypeOK
  <2>6. /\ \A i \in 1 .. Len(SourcesOf(c)) : cache[SourcesOf(c)[i]] # Nil => cache'[SourcesOf(c)[i]] # Nil
        /\ missed \subseteq missed'
    BY <2>2, LenProperties, RedisGrows
  <2>7. Progress(c)'
    BY <2>1, <2>2, <2>3, <2>5, <2>6 DEF Progress, Companioned, Cached, Point, Running
  <2> QED
    BY <1>u, <2>1, <2>3, <2>7
<1>5. ASSUME NEW c \in Calls, Return(c) PROVE \A d \in Calls : Progress(d)'
  <2>1. /\ \A d \in Calls \ {c} : pc'[d] = pc[d]
        /\ UNCHANGED <<report, index, cache, companions, missed>>
        /\ pc[c] = "return" /\ pc'[c] = "done"
    BY <1>5 DEF Return, TypeOK
  <2>2. Progress(c)'
    BY <2>1 DEF Progress, Companioned, Cached, SourcesOf, Running
  <2> QED
    BY <1>u, <2>1, <2>2
<1>6. ASSUME Restart PROVE \A d \in Calls : Progress(d)'
  BY <1>6, <1>u DEF Restart
<1>7. ASSUME UNCHANGED vars PROVE \A d \in Calls : Progress(d)'
  BY <1>7, <1>u DEF vars
<1> QED
  BY <1>1, <1>2, <1>3, <1>4, <1>5, <1>6, <1>7 DEF Next, Step, Finished

\* A call that returned without a failed write stays learned for good.
THEOREM LearningIsKept == Spec => []LearnedStaysLearned
<1>1. Init => \A c \in Calls : Progress(c)
  BY DEF Init, Progress, Running
<1>2. TypeOK /\ TypeOK' /\ (\A c \in Calls : Progress(c)) /\ [Next]_vars
          => (\A c \in Calls : Progress(c))'
  BY ProgressNext
<1>3. TypeOK /\ (\A c \in Calls : Progress(c)) => LearnedStaysLearned
  <2> SUFFICES ASSUME TypeOK, NEW c \in Calls \ missed, Progress(c), pc[c] = "done",
                      NEW p \in ToSet(SourcesOf(c))
               PROVE  cache[p] # Nil /\ Companion(p) \in companions[report[c].object]
    BY DEF LearnedStaysLearned
  <2>1. PICK i \in 1 .. Len(SourcesOf(c)) : p = SourcesOf(c)[i]
    BY RunningCall, LenProperties DEF ToSet
  <2> QED
    BY <2>1 DEF Progress, Companioned, Cached
<1> QED
  BY <1>1, <1>2, <1>3, TypeCorrect, PTL DEF Spec

\* The cells of the requests have ids that are code points, as string(rune(n))
\* assumes of them.
CellIdsAreCodePoints ==
    \A r \in Reports : \A cell \in ToSet(r.cells) :
        cell = <<cell[1], cell[2]>> /\ \A i \in 1 .. 2 : CodePoint(cell[i])

\* Then no two sources of a request share a companion.
LEMMA CompanionsDistinct ==
    ASSUME CellIdsAreCodePoints, NEW r \in Reports,
           NEW p \in ToSet(Sources(r)), NEW q \in ToSet(Sources(r)), Companion(p) = Companion(q)
    PROVE  p = q
<1>1. ASSUME NEW x \in ToSet(Sources(r))
      PROVE  /\ x = [type |-> x.type, id |-> x.id]
             /\ x.type = "CELL" => x.id \in ToSet(r.cells)
  <2>1. x \in SourceSet(r)
    BY SourcesTyped, LenProperties DEF ToSet
  <2>2. DOMAIN r.cells = 1 .. Len(r.cells)
    BY LearningAssumption, LenProperties
  <2> QED
    BY <2>1, <2>2 DEF SourceSet, Devices, ToSet
<1>2. p.type = q.type
  BY DEF Companion
<1>3. CASE p.type = "CELL"
  <2>1. KeyFromCell(p.id) = KeyFromCell(q.id)
    BY <1>2, <1>3 DEF Companion
  <2>2. p.id = q.id
    BY <1>1, <1>2, <1>3, <2>1, CellKeysDistinct DEF CellIdsAreCodePoints
  <2> QED
    BY <1>1, <1>2, <2>2
<1>4. CASE p.type # "CELL"
  BY <1>1, <1>2, <1>4 DEF Companion
<1> QED
  BY <1>3, <1>4

\* Companion sets are finite, as each SADD adds one member.
LEMMA CompanionsFinite == Spec => [](\A o \in Objects : IsFiniteSet(companions[o]))
<1> DEFINE Finite == \A o \in Objects : IsFiniteSet(companions[o])
<1>1. Init => Finite
  BY FS_EmptySet DEF Init
<1>2. TypeOK /\ Finite /\ [Next]_vars => Finite'
  <2> SUFFICES ASSUME TypeOK, Finite, [Next]_vars, NEW o \in Objects
               PROVE  IsFiniteSet(companions'[o])
    OBVIOUS
  <2> USE DEF redis, calls, history
  <2>1. ASSUME NEW c \in Calls, AddCompanion(c) PROVE IsFiniteSet(companions'[o])
    <3>1. companions'[o] = companions[o] \/ companions'[o] = companions[o] \cup {Companion(Point(c))}
      BY <2>1 DEF AddCompanion, TypeOK
    <3> QED
      BY <3>1, FS_AddElement
  <2> QED
    BY <2>1 DEF Next, Step, Learn, Get, Set, Return, Restart, Finished, vars
<1> QED
  BY <1>1, <1>2, TypeCorrect, PTL DEF Spec

\* docs/architecture.md is right of requests whose cells have ids that are code
\* points: what CompanionsAreTheirIds meets are the ids that are none.
THEOREM CompanionsOfCodePoints ==
    ASSUME CellIdsAreCodePoints
    PROVE  Spec => []CompanionsAreTheirIds
<1>1. TypeOK /\ (\A o \in Objects : IsFiniteSet(companions[o])) /\ LearnedStaysLearned
          => CompanionsAreTheirIds
  <2> SUFFICES ASSUME TypeOK, \A o \in Objects : IsFiniteSet(companions[o]), LearnedStaysLearned,
                      NEW c \in Calls \ missed, pc[c] = "done"
               PROVE  Cardinality(companions[report[c].object]) >= Cardinality(ToSet(SourcesOf(c)))
    BY DEF CompanionsAreTheirIds
  <2> DEFINE S == ToSet(SourcesOf(c))
             T == companions[report[c].object]
             f == [p \in S |-> Companion(p)]
  <2>1. report[c] \in Reports /\ IsFiniteSet(T)
    BY RunningCall
  <2>2. f \in [S -> T]
    BY DEF LearnedStaysLearned
  <2>3. \A p, q \in S : Companion(p) = Companion(q) => p = q
    BY <2>1, CompanionsDistinct DEF SourcesOf
  <2>4. f \in Injection(S, T)
    BY <2>2, <2>3 DEF Injection, IsInjective
  <2> HIDE DEF S, T, f
  <2>5. IsFiniteSet(S) /\ Cardinality(S) <= Cardinality(T)
    BY <2>1, <2>4, FS_Injection
  <2>6. Cardinality(S) \in Nat /\ Cardinality(T) \in Nat
    BY <2>1, <2>5, FS_CardinalityType
  <2> QED
    BY <2>5, <2>6 DEF S, T
<1> QED
  BY <1>1, TypeCorrect, CompanionsFinite, LearningIsKept, PTL

\* Every answer is the one its sources call for.
THEOREM AnswersFollowSources == Spec => []AnswerFollowsSources
<1>1. Init => AnswerFollowsSources
  BY DEF Init, AnswerFollowsSources
<1>2. TypeOK /\ AnswerFollowsSources /\ [Next]_vars => AnswerFollowsSources'
  <2> SUFFICES ASSUME TypeOK, AnswerFollowsSources, [Next]_vars, NEW d \in Calls, pc'[d] = "done"
               PROVE  result'[d] = IF SourcesOf(d)' = <<>> THEN "NEED_MORE_DATA"
                                                           ELSE "STATIONARY_DETECTED"
    BY DEF AnswerFollowsSources
  <2> USE DEF redis, calls, history
  <2>u. ASSUME pc[d] = "done", report'[d] = report[d], result'[d] = result[d]
        PROVE  result'[d] = IF SourcesOf(d)' = <<>> THEN "NEED_MORE_DATA"
                                                    ELSE "STATIONARY_DETECTED"
    BY <2>u DEF AnswerFollowsSources, SourcesOf
  <2>1. ASSUME NEW c \in Calls, NEW r \in Reports, Learn(c, r)
        PROVE  pc[d] = "done" /\ report'[d] = report[d] /\ result'[d] = result[d]
    BY <2>1 DEF Learn, TypeOK
  <2>2. ASSUME NEW c \in Calls, AddCompanion(c) \/ Get(c) \/ Set(c)
        PROVE  pc[d] = "done" /\ report'[d] = report[d] /\ result'[d] = result[d]
    BY <2>2 DEF AddCompanion, Get, Set, Advance, TypeOK
  <2>3. CASE Return(d)
    BY <2>3, RunningCall, ResultOfSources DEF Return, SourcesOf, Running, TypeOK
  <2>4. ASSUME NEW c \in Calls \ {d}, Return(c)
        PROVE  pc[d] = "done" /\ report'[d] = report[d] /\ result'[d] = result[d]
    BY <2>4 DEF Return, TypeOK
  <2>5. ASSUME Restart \/ UNCHANGED vars
        PROVE  pc[d] = "done" /\ report'[d] = report[d] /\ result'[d] = result[d]
    BY <2>5 DEF Restart, vars, TypeOK
  <2> QED
    BY <2>u, <2>1, <2>2, <2>3, <2>4, <2>5 DEF Next, Step, Finished
<1> QED
  BY <1>1, <1>2, TypeCorrect, PTL DEF Spec

-----------------------------------------------------------------------------
(* How often a report weighs in a position                                 *)

\* The sources of a call that are a point, those of them its second loop has
\* gone past, and the blends of the call in an entry.
Listed(c, p) == {i \in 1 .. Len(SourcesOf(c)) : SourcesOf(c)[i] = p}
Passed(c, p) == {i \in Listed(c, p) : \/ pc[c] \in {"get", "set"} /\ i < index[c]
                                     \/ pc[c] \in {"return", "done", "dead"}}
Blends(entry, c) == {i \in 1 .. Len(entry.at) : entry.at[i].by = c}

\* The calls that may have written: the others are before their second loop.
Writing(c) == pc[c] \in {"get", "set", "return", "done", "dead"} /\ report[c] \in Reports

\* In a version of a point each call was blended at most as often as its loop
\* has gone past the point: in the one that is cached, and in the one a call
\* has read and will replace it by.
Weighed(entry, p) ==
    \A c \in Calls : Blends(entry, c) # {} =>
        Writing(c) /\ Cardinality(Blends(entry, c)) <= Cardinality(Passed(c, p))

Weights ==
    /\ \A p \in Points : cache[p] # Nil => Weighed(cache[p], p)
    /\ \A c \in Calls : pc[c] = "set" /\ existing[c] # Nil => Weighed(existing[c], Point(c))

\* Sets of positions in a sequence are finite, and counting them is monotone.
LEMMA PositionSets ==
    ASSUME NEW n \in Nat, NEW S \in SUBSET (1 .. n), NEW T \in SUBSET S
    PROVE  /\ IsFiniteSet(S) /\ IsFiniteSet(T)
           /\ Cardinality(S) \in Nat /\ Cardinality(T) \in Nat
           /\ Cardinality(T) <= Cardinality(S)
<1>1. IsFiniteSet(1 .. n)
  BY FS_Interval
<1>2. IsFiniteSet(S)
  BY <1>1, FS_Subset
<1>3. IsFiniteSet(T) /\ Cardinality(T) <= Cardinality(S)
  BY <1>2, FS_Subset
<1> QED
  BY <1>2, <1>3, FS_CardinalityType

\* The blends of a call in an entry are counted by a number.
LEMMA BlendsCounted ==
    ASSUME NEW entry \in Entry, NEW c
    PROVE  /\ Blends(entry, c) \subseteq 1 .. Len(entry.at) /\ Len(entry.at) \in Nat
           /\ IsFiniteSet(Blends(entry, c)) /\ Cardinality(Blends(entry, c)) \in Nat
<1>1. Len(entry.at) \in Nat
  BY LenProperties DEF Entry
<1>2. Blends(entry, c) \subseteq 1 .. Len(entry.at)
  BY DEF Blends
<1> QED
  BY <1>1, <1>2, PositionSets

\* The blends in an updated entry: those before, and one of the updating call.
LEMMA BlendsUpdated ==
    ASSUME NEW c \in Calls, NEW p, NEW old \in Entry \cup {Nil}, NEW d \in Calls
    PROVE  LET before == IF old = Nil THEN {} ELSE Blends(old, d)
               after  == Blends(Updated(c, p, old), d)
           IN  /\ Cardinality(before) \in Nat
               /\ IF d = c THEN Cardinality(after) = Cardinality(before) + 1
                           ELSE after = before
<1> DEFINE B == [by : Calls, weight : {10, 20, 100}]
           w == IF IsCompanion(report[c], p) THEN 20 ELSE 10
<1>1. CASE old = Nil
  <2> DEFINE s == <<[by |-> c, weight |-> 100]>>
  <2>1. Len(s) = 1 /\ s[1].by = c /\ Updated(c, p, old).at = s
    BY <1>1 DEF Updated
  <2>2. Blends(Updated(c, p, old), d) = IF d = c THEN {1} ELSE {}
    BY <2>1 DEF Blends
  <2>3. Cardinality({}) = 0 /\ Cardinality({1}) = 1
    BY FS_EmptySet, FS_Singleton
  <2> QED
    BY <1>1, <2>2, <2>3
<1>2. CASE old # Nil
  <2> DEFINE n == Len(old.at)
             at == Append(old.at, [by |-> c, weight |-> w])
  <2>1. old \in Entry /\ old.at \in Seq(B)
    BY <1>2 DEF Entry
  <2>2. n \in Nat /\ Blends(old, d) \subseteq 1 .. n
        /\ IsFiniteSet(Blends(old, d)) /\ Cardinality(Blends(old, d)) \in Nat
    BY <2>1, BlendsCounted
  <2>3. w \in {10, 20, 100}
    OBVIOUS
  <2>4. /\ Updated(c, p, old).at = at
        /\ Len(at) = n + 1 /\ at[n + 1].by = c
        /\ \A i \in 1 .. n : at[i] = old.at[i]
    BY <1>2, <2>1, <2>3 DEF Updated
  <2> HIDE DEF n, at, w
  <2>5. Blends(Updated(c, p, old), d) = Blends(old, d) \cup (IF d = c THEN {n + 1} ELSE {})
    BY <2>2, <2>4 DEF Blends, n
  <2>6. n + 1 \notin Blends(old, d)
    BY <2>2
  <2>7. Cardinality(Blends(old, d) \cup {n + 1}) = Cardinality(Blends(old, d)) + 1
    BY <2>2, <2>6, FS_AddElement
  <2> QED
    BY <1>2, <2>2, <2>5, <2>7
<1> QED
  BY <1>1, <1>2

\* A call that may have written stays one, and its loop does not go back.
LEMMA PassedGrows ==
    ASSUME TypeOK, TypeOK', [Next]_vars, NEW d \in Calls, Writing(d)
    PROVE  /\ Writing(d)' /\ UNCHANGED report[d]
           /\ \A p : Passed(d, p) \subseteq Passed(d, p)'
<1> USE DEF redis, calls, history
<1>u. ASSUME report'[d] = report[d],
             \/ pc'[d] \in {"done", "dead", "return"}
             \/ pc'[d] = pc[d] /\ index'[d] = index[d]
             \/ {pc[d], pc'[d]} \subseteq {"get", "set"} /\ index[d] <= index'[d]
      PROVE  /\ Writing(d)' /\ UNCHANGED report[d]
             /\ \A p : Passed(d, p) \subseteq Passed(d, p)'
  <2>1. Writing(d)'
    BY <1>u DEF Writing
  <2>2. SourcesOf(d)' = SourcesOf(d)
    BY <1>u DEF SourcesOf
  <2>3. Len(SourcesOf(d)) \in Nat
    BY SourcesArePoints DEF SourcesOf, Writing
  <2>4. index[d] \in Nat /\ index'[d] \in Nat
    BY DEF TypeOK
  <2>5. ASSUME NEW p, NEW i \in Passed(d, p) PROVE i \in Passed(d, p)'
    <3>1. i \in Listed(d, p) /\ i \in Nat
      BY <2>3 DEF Passed, Listed
    <3>2. i \in Listed(d, p)'
      BY <2>2, <3>1 DEF Listed
    <3>3. \/ pc[d] \in {"get", "set"} /\ i < index[d]
          \/ pc[d] \in {"return", "done", "dead"}
      BY DEF Passed
    <3>4. \/ pc'[d] \in {"get", "set"} /\ i < index'[d]
          \/ pc'[d] \in {"return", "done", "dead"}
      BY <1>u, <2>4, <3>1, <3>3
    <3> QED
      BY <3>2, <3>4 DEF Passed
  <2> QED
    BY <1>u, <2>1, <2>5
<1>1. ASSUME NEW c \in Calls, NEW r \in Reports, Learn(c, r)
      PROVE  report'[d] = report[d] /\ pc'[d] = pc[d] /\ index'[d] = index[d]
  BY <1>1 DEF Learn, TypeOK, Writing
<1>2. ASSUME NEW c \in Calls, AddCompanion(c)
      PROVE  report'[d] = report[d] /\ pc'[d] = pc[d] /\ index'[d] = index[d]
  BY <1>2 DEF AddCompanion, Advance, TypeOK, Writing
<1>3. ASSUME NEW c \in Calls, Get(c)
      PROVE  /\ report'[d] = report[d] /\ index'[d] = index[d]
             /\ pc'[d] = pc[d] \/ {pc[d], pc'[d]} \subseteq {"get", "set"}
  BY <1>3 DEF Get, TypeOK
<1>4. ASSUME NEW c \in Calls, Set(c)
      PROVE  /\ report'[d] = report[d]
             /\ \/ pc'[d] = "return"
                \/ pc'[d] = pc[d] /\ index'[d] = index[d]
                \/ {pc[d], pc'[d]} \subseteq {"get", "set"} /\ index[d] <= index'[d]
  BY <1>4 DEF Set, Advance, TypeOK
<1>5. ASSUME NEW c \in Calls, Return(c)
      PROVE  report'[d] = report[d] /\ (pc'[d] = "done" \/ (pc'[d] = pc[d] /\ index'[d] = index[d]))
  BY <1>5 DEF Return, TypeOK
<1>6. ASSUME Restart
      PROVE  report'[d] = report[d] /\ (pc'[d] = "dead" \/ (pc'[d] = pc[d] /\ index'[d] = index[d]))
  BY <1>6 DEF Restart
<1>7. ASSUME UNCHANGED vars
      PROVE  report'[d] = report[d] /\ pc'[d] = pc[d] /\ index'[d] = index[d]
  BY <1>7 DEF vars
<1>8. /\ report'[d] = report[d]
      /\ \/ pc'[d] \in {"done", "dead", "return"}
         \/ pc'[d] = pc[d] /\ index'[d] = index[d]
         \/ {pc[d], pc'[d]} \subseteq {"get", "set"} /\ index[d] <= index'[d]
  <2>1. index[d] \in Nat
    BY DEF TypeOK
  <2> QED
    BY <2>1, <1>1, <1>2, <1>3, <1>4, <1>5, <1>6, <1>7 DEF Next, Step, Finished
<1> QED
  BY <1>u, <1>8

\* What bounds the blends of an entry goes on to bound them.
LEMMA WeighedStays ==
    ASSUME TypeOK, TypeOK', [Next]_vars, NEW entry \in Entry, NEW p, Weighed(entry, p)
    PROVE  Weighed(entry, p)'
<1> SUFFICES ASSUME NEW c \in Calls, Blends(entry, c) # {}
             PROVE  Writing(c)' /\ Cardinality(Blends(entry, c)) <= Cardinality(Passed(c, p)')
  BY DEF Weighed, Blends
<1>1. Writing(c) /\ Cardinality(Blends(entry, c)) <= Cardinality(Passed(c, p))
  BY DEF Weighed
<1>2. Writing(c)' /\ Passed(c, p) \subseteq Passed(c, p)'
  BY <1>1, PassedGrows
<1>3. /\ Cardinality(Passed(c, p)) <= Cardinality(Passed(c, p)')
      /\ Cardinality(Passed(c, p)) \in Nat /\ Cardinality(Passed(c, p)') \in Nat
  <2>1. Len(SourcesOf(c)') \in Nat
    BY <1>2, SourcesArePoints DEF Writing, SourcesOf
  <2>2. Passed(c, p)' \subseteq 1 .. Len(SourcesOf(c)')
    BY DEF Passed, Listed
  <2> QED
    BY <1>2, <2>1, <2>2, PositionSets
<1> QED
  BY <1>1, <1>2, <1>3, BlendsCounted

\* The entry a call writes has one more of its blends, and its loop goes past
\* one more of its sources in the same step.
LEMMA UpdatedIsWeighed ==
    ASSUME TypeOK, TypeOK', [Next]_vars, NEW c \in Calls, Set(c),
           NEW p, p = Point(c), NEW old, old = existing[c],
           old # Nil => Weighed(old, p),
           NEW entry \in Entry, entry = Updated(c, p, old)
    PROVE  Weighed(entry, p)'
<1> SUFFICES ASSUME NEW d \in Calls, Blends(entry, d) # {}
             PROVE  Writing(d)' /\ Cardinality(Blends(entry, d)) <= Cardinality(Passed(d, p)')
  BY DEF Weighed, Blends
<1> DEFINE before == IF old = Nil THEN {} ELSE Blends(old, d)
<1>0. old \in Entry \cup {Nil}
  BY DEF TypeOK
<1>1. /\ Cardinality(before) \in Nat
      /\ IF d = c THEN Cardinality(Blends(entry, d)) = Cardinality(before) + 1
                  ELSE Blends(entry, d) = before
  BY <1>0, BlendsUpdated
<1>2. pc[c] = "set" /\ Writing(c) /\ index[c] \in 1 .. Len(SourcesOf(c))
      /\ Advance(c, "get", "return") /\ UNCHANGED report
  BY RunningCall DEF Set, Writing, Running
<1>3. before # {} => Writing(d) /\ Cardinality(before) <= Cardinality(Passed(d, p))
  BY DEF Weighed
<1>4. Writing(d)
  BY <1>1, <1>2, <1>3
<1>5. Writing(d)' /\ Passed(d, p) \subseteq Passed(d, p)' /\ UNCHANGED report[d]
  BY <1>4, PassedGrows
<1>6. /\ Len(SourcesOf(d)') \in Nat /\ SourcesOf(d)' = SourcesOf(d)
      /\ Passed(d, p)' \subseteq 1 .. Len(SourcesOf(d)')
  BY <1>5, SourcesArePoints DEF Writing, SourcesOf, Passed, Listed
<1>7. /\ IsFiniteSet(Passed(d, p))
      /\ Cardinality(Passed(d, p)) <= Cardinality(Passed(d, p)')
      /\ Cardinality(Passed(d, p)) \in Nat /\ Cardinality(Passed(d, p)') \in Nat
  BY <1>5, <1>6, PositionSets
<1>8. before = {} => Cardinality(before) = 0
  BY FS_EmptySet
<1>9. CASE d = c
  <2>1. index[c] \in Listed(c, p) /\ index[c] \notin Passed(c, p)
    BY <1>2 DEF Listed, Passed, Point, TypeOK
  <2>2. \/ pc'[c] = "get" /\ index'[c] = index[c] + 1
        \/ pc'[c] = "return"
    BY <1>2, AdvanceStep DEF Running
  <2>3. index[c] \in Passed(c, p)'
    BY <1>2, <1>6, <1>9, <2>1, <2>2 DEF Listed, Passed
  <2>4. Passed(c, p) \cup {index[c]} \subseteq Passed(c, p)'
    BY <1>5, <1>9, <2>3
  <2>5. Cardinality(Passed(c, p) \cup {index[c]}) = Cardinality(Passed(c, p)) + 1
    BY <1>7, <1>9, <2>1, FS_AddElement
  <2>6. Cardinality(Passed(c, p)) + 1 <= Cardinality(Passed(c, p)')
    BY <1>6, <1>9, <2>4, <2>5, PositionSets
  <2> HIDE DEF before
  <2> QED
    BY <1>1, <1>3, <1>5, <1>7, <1>8, <1>9, <2>6
<1>10. CASE d # c
  BY <1>1, <1>3, <1>5, <1>7, <1>10
<1> QED
  BY <1>9, <1>10

\* No step of any call, and no death, breaks Weights.
LEMMA WeightsNext ==
    ASSUME TypeOK, TypeOK', Weights, [Next]_vars
    PROVE  Weights'
<1> USE DEF redis, calls, history
<1>1. ASSUME NEW p \in Points, cache'[p] # Nil PROVE Weighed(cache[p], p)'
  <2>1. CASE cache'[p] = cache[p]
    BY <1>1, <2>1, WeighedStays DEF Weights, TypeOK
  <2>2. CASE \E c \in Calls : Set(c) /\ p = Point(c) /\ cache'[p] = Updated(c, p, existing[c])
    <3>1. PICK c \in Calls : Set(c) /\ p = Point(c) /\ cache'[p] = Updated(c, p, existing[c])
      BY <2>2
    <3>2. cache'[p] \in Entry
      BY <1>1 DEF TypeOK
    <3>3. existing[c] # Nil => Weighed(existing[c], p)
      BY <3>1 DEF Weights, Set
    <3> QED
      BY <3>1, <3>2, <3>3, UpdatedIsWeighed
  <2>3. ASSUME NEW c \in Calls, Set(c)
        PROVE  cache'[p] = cache[p] \/ (p = Point(c) /\ cache'[p] = Updated(c, p, existing[c]))
    BY <2>3 DEF Set, TypeOK
  <2> QED
    BY <2>1, <2>2, <2>3 DEF Next, Step, Learn, AddCompanion, Get, Return, Restart, Finished, vars
<1>2. ASSUME NEW c \in Calls, pc'[c] = "set", existing'[c] # Nil
      PROVE  Weighed(existing[c], Point(c))'
  <2>1. /\ Point(c)' = Point(c)
        /\ \/ pc[c] = "set" /\ existing'[c] = existing[c]
           \/ pc[c] = "get" /\ existing'[c] = cache[Point(c)]
    <3>1. ASSUME NEW d \in Calls, NEW r \in Reports, Learn(d, r)
          PROVE  report'[c] = report[c] /\ index'[c] = index[c] /\ pc[c] = "set" /\ existing'[c] = existing[c]
      BY <1>2, <3>1 DEF Learn, TypeOK
    <3>2. ASSUME NEW d \in Calls, AddCompanion(d) \/ Set(d) \/ Return(d)
          PROVE  report'[c] = report[c] /\ index'[c] = index[c] /\ pc[c] = "set" /\ existing'[c] = existing[c]
      BY <1>2, <3>2 DEF AddCompanion, Set, Return, Advance, TypeOK
    <3>3. ASSUME NEW d \in Calls, Get(d)
          PROVE  /\ report'[c] = report[c] /\ index'[c] = index[c]
                 /\ \/ pc[c] = "set" /\ existing'[c] = existing[c]
                    \/ pc[c] = "get" /\ existing'[c] = cache[Point(c)]
      BY <1>2, <3>3 DEF Get, TypeOK
    <3>4. ASSUME Restart \/ UNCHANGED vars
          PROVE  report'[c] = report[c] /\ index'[c] = index[c] /\ pc[c] = "set" /\ existing'[c] = existing[c]
      BY <1>2, <3>4 DEF Restart, vars, TypeOK
    <3> QED
      BY <3>1, <3>2, <3>3, <3>4 DEF Next, Step, Finished, Point, SourcesOf
  <2>2. existing'[c] \in Entry
    BY <1>2 DEF TypeOK
  <2>3. Weighed(existing'[c], Point(c))
    <3>1. pc[c] = "get" => Point(c) \in Points
      BY RunningCall DEF Running
    <3> QED
      BY <1>2, <2>1, <3>1 DEF Weights
  <2> QED
    BY <2>1, <2>2, <2>3, WeighedStays
<1> QED
  BY <1>1, <1>2 DEF Weights

\* No position is pulled towards a report more often than the report lists the
\* point, whatever races, failed reads and deaths do to the writes.
THEOREM ReportsAreBlendedOnce == Spec => []NoReportBlendedTwice
<1>1. Init => Weights
  BY DEF Init, Weights
<1>2. TypeOK /\ TypeOK' /\ Weights /\ [Next]_vars => Weights'
  BY WeightsNext
<1>3. TypeOK /\ Weights => NoReportBlendedTwice
  <2> SUFFICES ASSUME TypeOK, Weights, NEW p \in Points, NEW c \in Calls, cache[p] # Nil,
                      Blends(cache[p], c) # {}
               PROVE  Cardinality(Blends(cache[p], c)) <= Cardinality(Listed(c, p))
    BY DEF NoReportBlendedTwice, Blends, Listed
  <2>1. Writing(c) /\ Cardinality(Blends(cache[p], c)) <= Cardinality(Passed(c, p))
    BY DEF Weights, Weighed
  <2>2. Len(SourcesOf(c)) \in Nat
    BY <2>1, SourcesArePoints DEF Writing, SourcesOf
  <2>3. Listed(c, p) \subseteq 1 .. Len(SourcesOf(c)) /\ Passed(c, p) \subseteq Listed(c, p)
    BY DEF Listed, Passed
  <2>4. /\ Cardinality(Passed(c, p)) <= Cardinality(Listed(c, p))
        /\ Cardinality(Passed(c, p)) \in Nat /\ Cardinality(Listed(c, p)) \in Nat
    BY <2>2, <2>3, PositionSets
  <2>5. Cardinality(Blends(cache[p], c)) \in Nat
    BY BlendsCounted DEF TypeOK
  <2> QED
    BY <2>1, <2>4, <2>5
<1> QED
  BY <1>1, <1>2, <1>3, TypeCorrect, PTL DEF Spec
=============================================================================
