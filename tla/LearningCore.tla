---------------------------- MODULE LearningCore ----------------------------
(****************************************************************************)
(* internal/core/learning.go over internal/cache/redis.go: concurrent calls *)
(* of Learn, each a sequence of Redis commands.  A command is one step and *)
(* may fail; a call reads the entry of a point with GET and writes it back *)
(* with SET, and nothing ties the two together.                            *)
(*                                                                          *)
(* The coordinates of an entry are kept as the reports blended into them,  *)
(* the first one first: that is all their value depends on.  An entry's    *)
(* confidence is a function of obsCount, which module Confidence computes. *)
(****************************************************************************)
EXTENDS Naturals, Sequences, FiniteSets, SequencesExt

CONSTANTS Calls,        \* the calls of Learn, a client's retry being a new one
          Reports,      \* the requests a call may carry
          Nil,          \* no entry: a nil pointer, an absent key
          MaxRestarts   \* bound: deaths of the process in the whole behaviour

Types == {"WIFI", "CELL", "BT"}

\* The sources a request lists, in the order the code goes through them.  A
\* cell is known by <<CellID, LAC>>, a WiFi or Bluetooth device by one id.
Typed(type, ids) == [i \in 1 .. Len(ids) |-> [type |-> type, id |-> ids[i]]]
Sources(report) == Typed("WIFI", report.wifi) \o Typed("CELL", report.cells)
                                              \o Typed("BT", report.bt)

Points  == UNION {ToSet(Sources(r)) : r \in Reports}
Objects == {r.object : r \in Reports}

\* A cached point.  `at` stands for its coordinates: who was blended into them
\* and with which percentage, the report that created the entry with all of it.
Entry == [version : Nat, obsCount : Nat, at : Seq([by : Calls, weight : {10, 20, 100}])]

ASSUME LearningAssumption ==
    /\ \A r \in Reports : \A ids \in {r.wifi, r.cells, r.bt} : ids \in Seq(ToSet(ids))
    /\ Nil \notin Entry
    /\ MaxRestarts \in Nat

-----------------------------------------------------------------------------
(* The keys of companions                                                  *)

\* string(rune(n)) for a uint32 n: no code point, no distinction.
Replacement == 65533
CodePoint(n) == n <= 1114111 /\ ~ (55296 <= n /\ n <= 57343)
Rune(n) == IF CodePoint(n) THEN n ELSE Replacement

KeyFromCell(cell) == <<Rune(cell[1]), Rune(cell[2])>>

Companion(p) == [type |-> p.type,
                 id |-> IF p.type = "CELL" THEN KeyFromCell(p.id) ELSE p.id]

\* Every source of the request, as written: the heuristic is not there yet.
DetectCompanions(report) == {Companion(p) : p \in ToSet(Sources(report))}

\* Mutated: the companion is looked up by the id of the cache key.
IsCompanionById(report, p) == p \in DetectCompanions(report)

IsCompanion(report, p) == Companion(p) \in DetectCompanions(report)

-----------------------------------------------------------------------------
VARIABLES
    cache,       \* Redis: the entry of each point, or Nil
    companions,  \* Redis: the companion set of each object
    pc,          \* where each call is
    report,      \* its request
    index,       \* the source its loop is at
    existing,    \* what its last GET returned
    result,      \* its answer
    restarts,    \* counts towards MaxRestarts
    applied,     \* history: how often each point was written
    seen,        \* history: applied, as the last GET of each call knew it
    raced,       \* history: the points written by a call that knew less
    missed       \* history: the calls one of whose writes to Redis failed

redis   == <<cache, companions>>
calls   == <<pc, report, index, existing, result>>
history == <<applied, seen, raced, missed>>
vars    == <<redis, calls, restarts, history>>

SourcesOf(c) == Sources(report[c])
Point(c)     == SourcesOf(c)[index[c]]

Running   == {"companions", "get", "set", "return"}
Locations == {"idle", "done", "failed", "dead"} \cup Running
Results   == {"NEED_MORE_DATA", "RANDOM_EXCLUDED", "STATIONARY_DETECTED", "LEARNED"}

\* A call that got past Learn has a request, and its loops stay inside it.
InLoop(c) ==
    /\ pc[c] \in Running \cup {"done"} => report[c] \in Reports
    /\ pc[c] \in Running \ {"return"} => index[c] <= Len(SourcesOf(c))

TypeOK ==
    /\ cache \in [Points -> Entry \cup {Nil}]
    /\ companions \in [Objects -> SUBSET {Companion(p) : p \in Points}]
    /\ pc \in [Calls -> Locations]
    /\ report \in [Calls -> Reports \cup {Nil}]
    /\ existing \in [Calls -> Entry \cup {Nil}]
    /\ result \in [Calls -> Results \cup {Nil}]
    /\ restarts \in Nat
    /\ applied \in [Points -> Nat] /\ seen \in [Calls -> Nat]
    /\ raced \subseteq Points /\ missed \subseteq Calls
    /\ index \in [Calls -> Nat \ {0}]
    /\ \A c \in Calls : InLoop(c)

Init ==
    /\ cache = [p \in Points |-> Nil]
    /\ companions = [o \in Objects |-> {}]
    /\ pc = [c \in Calls |-> "idle"]
    /\ report = [c \in Calls |-> Nil]
    /\ index = [c \in Calls |-> 1]
    /\ existing = [c \in Calls |-> Nil]
    /\ result = [c \in Calls |-> Nil]
    /\ restarts = 0
    /\ applied = [p \in Points |-> 0]
    /\ seen = [c \in Calls |-> 0]
    /\ raced = {} /\ missed = {}

\* Mutated: a loop that starts at its second source.
AdvanceSkipping(c, loop, after) ==
    IF index[c] < Len(SourcesOf(c))
    THEN index' = [index EXCEPT ![c] = @ + 1] /\ pc' = [pc EXCEPT ![c] = loop]
    ELSE /\ index' = [index EXCEPT ![c] = IF Len(SourcesOf(c)) > 1 THEN 2 ELSE 1]
         /\ pc' = [pc EXCEPT ![c] = after]

\* Mutated: the index runs on into the next loop.
AdvanceKept(c, loop, after) ==
    IF index[c] < Len(SourcesOf(c))
    THEN index' = [index EXCEPT ![c] = @ + 1] /\ pc' = [pc EXCEPT ![c] = loop]
    ELSE index' = [index EXCEPT ![c] = @ + 1] /\ pc' = [pc EXCEPT ![c] = after]

\* Mutated: the source is not advanced.
AdvanceNot(c, loop, after) ==
    IF index[c] < Len(SourcesOf(c))
    THEN index' = index /\ pc' = [pc EXCEPT ![c] = loop]
    ELSE index' = [index EXCEPT ![c] = 1] /\ pc' = [pc EXCEPT ![c] = after]

\* One source of a loop is done with: the next one, or what follows the loop.
Advance(c, loop, after) ==
    IF index[c] < Len(SourcesOf(c))
    THEN index' = [index EXCEPT ![c] = @ + 1] /\ pc' = [pc EXCEPT ![c] = loop]
    ELSE index' = [index EXCEPT ![c] = 1]     /\ pc' = [pc EXCEPT ![c] = after]

-----------------------------------------------------------------------------
\* GetCompanions: only its error is used, and only it ends the call.
Learn(c, r) ==
    /\ pc[c] = "idle"
    /\ report' = [report EXCEPT ![c] = r]
    /\ \E after \in {"failed", IF Sources(r) = <<>> THEN "return" ELSE "companions"} :
          pc' = [pc EXCEPT ![c] = after]
    /\ index' = [index EXCEPT ![c] = 1]
    /\ UNCHANGED <<redis, existing, result, restarts, history>>

\* A failed SADD is logged and the loop goes on.
AddCompanion(c) ==
    /\ pc[c] = "companions"
    /\ \/ /\ companions' = [companions EXCEPT ![report[c].object] =
                                @ \cup {Companion(Point(c))}]
          /\ UNCHANGED missed
       \/ /\ missed' = missed \cup {c}
          /\ UNCHANGED companions
    /\ Advance(c, "companions", "get")
    /\ UNCHANGED <<cache, report, existing, result, restarts, applied, seen, raced>>

\* Mutated: one entry variable for the whole call, which a miss leaves alone.
GetCarryingOver(c) ==
    /\ pc[c] = "get"
    /\ existing' = [existing EXCEPT ![c] = IF cache[Point(c)] = Nil THEN @ ELSE cache[Point(c)]]
    /\ seen' = [seen EXCEPT ![c] = applied[Point(c)]]
    /\ pc' = [pc EXCEPT ![c] = "set"]
    /\ UNCHANGED <<redis, report, index, result, restarts, applied, raced, missed>>

\* The error of GetWifi, GetCell and GetBT is dropped: a failed read looks
\* like an absent key.
Get(c) ==
    /\ pc[c] = "get"
    /\ \/ /\ existing' = [existing EXCEPT ![c] = cache[Point(c)]]
          /\ seen' = [seen EXCEPT ![c] = applied[Point(c)]]
       \/ /\ existing' = [existing EXCEPT ![c] = Nil]
          /\ seen' = [seen EXCEPT ![c] = 0]
    /\ pc' = [pc EXCEPT ![c] = "set"]
    /\ UNCHANGED <<redis, report, index, result, restarts, applied, raced, missed>>

\* Mutated: a new entry starts from zero observations.
UpdatedFromZero(c, p, old) ==
    IF old = Nil
    THEN [version |-> 1, obsCount |-> 0, at |-> <<[by |-> c, weight |-> 100]>>]
    ELSE [version  |-> old.version + 1,
          obsCount |-> old.obsCount + 1,
          at |-> Append(old.at, [by |-> c,
                                 weight |-> IF IsCompanion(report[c], p) THEN 20 ELSE 10])]

\* The entry written for a source of call c, given what its GET returned.
Updated(c, p, old) ==
    IF old = Nil
    THEN [version |-> 1, obsCount |-> 1, at |-> <<[by |-> c, weight |-> 100]>>]
    ELSE [version  |-> old.version + 1,
          obsCount |-> old.obsCount + 1,
          at |-> Append(old.at, [by |-> c,
                                 weight |-> IF IsCompanion(report[c], p) THEN 20 ELSE 10])]

\* Mutated: a SET whose error is seen is tried again.
SetRetried(c) ==
    /\ pc[c] = "set"
    /\ LET p == Point(c)
           once == Updated(c, p, existing[c])
       IN /\ \E new \in {once, Updated(c, p, once)} : cache' = [cache EXCEPT ![p] = new]
          /\ applied' = [applied EXCEPT ![p] = @ + 1]
          /\ raced' = IF seen[c] = applied[p] THEN raced ELSE raced \cup {p}
    /\ Advance(c, "get", "return")
    /\ UNCHANGED <<companions, report, existing, result, restarts, seen, missed>>

\* The error of SetWifi, SetCell and SetBT is dropped too.
Set(c) ==
    /\ pc[c] = "set"
    /\ LET p == Point(c)
       IN \/ /\ cache' = [cache EXCEPT ![p] = Updated(c, p, existing[c])]
             /\ applied' = [applied EXCEPT ![p] = @ + 1]
             /\ raced' = IF seen[c] = applied[p] THEN raced ELSE raced \cup {p}
             /\ UNCHANGED missed
          \/ /\ missed' = missed \cup {c}
             /\ UNCHANGED <<cache, applied, raced>>
    /\ Advance(c, "get", "return")
    /\ UNCHANGED <<companions, report, existing, result, restarts, seen>>

DetermineLearningResult(stationaryCount, randomCount) ==
    CASE stationaryCount = 0 /\ randomCount = 0 -> "NEED_MORE_DATA"
      [] randomCount > stationaryCount * 2      -> "RANDOM_EXCLUDED"
      [] stationaryCount > 0 /\ randomCount <= stationaryCount * 2 -> "STATIONARY_DETECTED"
      [] OTHER -> "LEARNED"

\* How many of the sources the loops count as companions, or as random.
Indices(r)    == 1 .. Len(Sources(r))
Stationary(r) == Cardinality({i \in Indices(r) : IsCompanion(r, Sources(r)[i])})
Random(r)     == Cardinality({i \in Indices(r) : ~ IsCompanion(r, Sources(r)[i])})

Return(c) ==
    /\ pc[c] = "return"
    /\ pc' = [pc EXCEPT ![c] = "done"]
    /\ result' = [result EXCEPT ![c] =
                     DetermineLearningResult(Stationary(report[c]), Random(report[c]))]
    /\ UNCHANGED <<redis, report, index, existing, restarts, history>>

\* The process dies: its calls stop where they are, Redis keeps what it has.
Restart ==
    /\ restarts < MaxRestarts
    /\ restarts' = restarts + 1
    /\ pc' = [c \in Calls |-> IF pc[c] \in Running THEN "dead" ELSE pc[c]]
    /\ UNCHANGED <<redis, report, index, existing, result, history>>

Finished == (\A c \in Calls : pc[c] \in {"done", "failed", "dead"}) /\ UNCHANGED vars

Step(c) == AddCompanion(c) \/ Get(c) \/ Set(c) \/ Return(c)

Next == \/ \E c \in Calls : (\E r \in Reports : Learn(c, r)) \/ Step(c)
        \/ Restart
        \/ Finished

Spec == Init /\ [][Next]_vars

\* Every Redis command answers or times out, so a call is never stuck.
FairSpec == Spec /\ \A c \in Calls : WF_vars(Step(c))

-----------------------------------------------------------------------------
(* Properties                                                              *)

\* A point no two calls overlapped on, and no failed GET hid, counts every
\* write: an update is lost to a race or to a dropped read error, and to
\* nothing else in the loops.
NoUpdateLost ==
    \A p \in Points \ raced :
        IF applied[p] = 0 THEN cache[p] = Nil
                          ELSE cache[p] # Nil /\ cache[p].obsCount = applied[p]

\* Even when calls race, an entry is one that a sequence of whole updates
\* produces: its counters agree with the blends of its coordinates, the first
\* of which set them and is not a blend, and none counts what was not written.
Consistent(entry, writes) ==
    /\ entry.version = entry.obsCount
    /\ Len(entry.at) = entry.obsCount
    /\ entry.obsCount \in 1 .. writes
    /\ \A i \in 1 .. Len(entry.at) : entry.at[i].weight = 100 <=> i = 1

EntriesAreConsistent ==
    \A p \in Points : cache[p] # Nil => Consistent(cache[p], applied[p])

\* No report weighs more in a position than the request lists the point.
NoReportBlendedTwice ==
    \A p \in Points, c \in Calls : cache[p] # Nil =>
        LET blends == {i \in 1 .. Len(cache[p].at) : cache[p].at[i].by = c}
        IN  blends # {} => Cardinality(blends) <=
                Cardinality({i \in 1 .. Len(SourcesOf(c)) : SourcesOf(c)[i] = p})

\* A call that returned and had no write fail has left an entry for each of
\* its sources and a companion of its object: whatever other calls and other
\* process lives did since.
LearnedStaysLearned ==
    \A c \in Calls \ missed : pc[c] = "done" =>
        \A p \in ToSet(SourcesOf(c)) :
            cache[p] # Nil /\ Companion(p) \in companions[report[c].object]

\* A call answers NEED_MORE_DATA exactly when it lists no source, and else
\* STATIONARY_DETECTED: no source is ever random, however its keys collide.
\* docs/testing-checklist.md:85-87 says otherwise, "New source returns
\* NEED_MORE_DATA", "Stationary source returns LEARNED", "Random source returns
\* RANDOM_EXCLUDED", and docs/learning-model.md:45-48 draws the last two: since
\* detectCompanions takes every source for a companion, the code does none of
\* the three, and this property refutes them for every request.
AnswerFollowsSources ==
    \A c \in Calls : pc[c] = "done" =>
        result[c] = IF SourcesOf(c) = <<>> THEN "NEED_MORE_DATA" ELSE "STATIONARY_DETECTED"

\* Every call that started ends, whatever Redis answers.
CallsEnd == \A c \in Calls : pc[c] \in Running ~> pc[c] \notin Running

\* docs/testing-checklist.md: "Version increment on update".
VersionIncrementsOnUpdate ==
    [][\A p \in Points : cache[p] # Nil /\ cache'[p] # cache[p] =>
                             cache'[p].version > cache[p].version]_vars

\* docs/architecture.md: a companion is stored as point_type:point_id, so the
\* companion set has one member for each source the calls added.
CompanionsAreTheirIds ==
    \A c \in Calls \ missed : pc[c] = "done" =>
        Cardinality(companions[report[c].object]) >= Cardinality(ToSet(SourcesOf(c)))
=============================================================================
