----------------------------- MODULE DcbDynamo -----------------------------
(***************************************************************************)
(* Conditional appends to the DynamoDB DCB log                              *)
(* (DcbEventLogStorage_DynamoDb_Runtime).  Positions are clock readings of the *)
(* writers' containers.  Each clause of a query is a read of its own, of a      *)
(* partition or of an index.  An append is one transaction that puts the events, *)
(* sets fences (per tag, or per composite partition, and event type) to its      *)
(* position, and tests that the fences it consumes are not past the writer's head. *)
(***************************************************************************)
EXTENDS DcbQuery, Functions, FiniteSetsExt

CONSTANTS
    Writers,      \* commands being decided, each in its own invocation
    Conditional,  \* writers that append with a condition
    QueryOf,      \* the query each reads and puts in its append condition
    EventsOf,     \* the events it decides
    PartitionKey, \* partitionTag, Simple or ByEventType: the key a type is filed by
    Composite,    \* partitionTag, Composite: the keys of its spec, else {}
    Width,        \* positions of one clock reading, at least one per event
    Limit,        \* items a transaction may have (100)
    Skew,         \* bound: how far a container's clock is off
    MaxRetries,   \* maxRetries of the slices
    MaxFaults     \* bound: failed reads and appends

ASSUME WritersAppend ==
    /\ QueryOf \in [Writers -> Query] /\ EventsOf \in [Writers -> Seq(Event) \ {<<>>}]
    /\ Conditional \subseteq Writers
    /\ Width \in Nat /\ \A w \in Writers : Len(EventsOf[w]) <= Width
ASSUME FiledByOneKey == Composite \subseteq Keys /\ PartitionKey \in [Types -> Keys]
ASSUME BoundsAreNaturals ==
    Limit \in Nat /\ Skew \in Nat /\ MaxRetries \in Nat /\ MaxFaults \in Nat

VARIABLES
    order,   \* which append of the log each writer's was, 0 before it is stored
    base,    \* basePosition of its append, 0 before it has one
    fence,   \* pos#<type> of each fence, 0 when absent
    ticks,   \* clock readings that became positions
    pc,      \* where each writer stands
    saw,     \* positions of the events it has read
    after,   \* its head, 0 before it has read an event
    todo,    \* clauses still to read
    since,   \* (history) appends stored when its reading began, 0 once a read broke off
    retries, \* attempts left
    faults   \* (bound) failures so far

vars == <<order, base, fence, ticks, pc, saw, after, todo, since, retries, faults>>
-----------------------------------------------------------------------------
(* The table.                                                                *)

Fence == [composite : BOOLEAN, tags : SUBSET Tag]

TagFence(t) == [composite |-> FALSE, tags |-> {t}]

\* makeCompositeFenceTag: the values of the partition's keys, whatever else there is.
EntityFence(tags) == [composite |-> TRUE, tags |-> {t \in tags : t.key \in Composite}]

PartitionOf(e) ==
    IF Composite # {} THEN EntityFence(e.tags)
    ELSE TagFence(CHOOSE t \in e.tags : t.key = PartitionKey[e.type])

\* A composite partition stands for all tags of a clause.
FencesOf(tags) ==
    IF Composite # {} /\ Cardinality(tags) > 1 THEN {EntityFence(tags)}
    ELSE {TagFence(t) : t \in tags}

\* The fences of the writers' events and conditions.
Fences ==
    {TagFence(t) : t \in UNION {e.tags : e \in UNION {Range(EventsOf[w]) : w \in Writers}}}
        \cup {PartitionOf(e) : e \in UNION {Range(EventsOf[w]) : w \in Writers}}
        \cup UNION {FencesOf(c.tags) : c \in UNION {QueryOf[w] : w \in Writers}}

IsCross(f) == ~f.composite /\ \A t \in f.tags : t.key \in CrossPartitionKeys

Stored == {w \in Writers : order[w] # 0}

\* generatePositionForBatch
Events(w) ==
    {[pos |-> base[w] + i - 1, event |-> EventsOf[w][i], by |-> w] : i \in DOMAIN EventsOf[w]}

Log == UNION {Events(w) : w \in Stored}

Positions(S) == {r.pos : r \in S}
-----------------------------------------------------------------------------
(* buildConditionalTransactItems: which fences an append tests and sets, each   *)
(* with the types concerned.                                                  *)

Written(w) == Range(EventsOf[w])

Folded(w) == {[types |-> c.types, fences |-> FencesOf(c.tags)] : c \in QueryOf[w]}

Singles(w) == UNION {c.fences : c \in {d \in Folded(w) : Cardinality(d.fences) = 1}}
Several(w) == UNION {c.fences : c \in {d \in Folded(w) : Cardinality(d.fences) > 1}}

Consumed(w, f) == UNION {c.types : c \in {d \in Folded(w) : f \in d.fences}}

Partitions(w) == {PartitionOf(e) : e \in Written(w)}

Carried(w, f) == {e.type : e \in {d \in Written(w) : ~f.composite /\ f.tags \subseteq d.tags}}

CarriedFences(w) == {TagFence(t) : t \in UNION {e.tags : e \in Written(w)}}

Produced(w, f) ==
    IF f \in Partitions(w) /\ ~IsCross(f)
    THEN {e.type : e \in {d \in Written(w) : PartitionOf(d) = f}}
    ELSE Carried(w, f)

\* What follows depends on the writer and on whether it appends first, with no head.
Updated(w, first) ==
    {f \in Singles(w) : IsCross(f) \/ f \in Partitions(w)}
        \cup IF first THEN Partitions(w) ELSE Several(w)

Checked(w, first) == IF first THEN {} ELSE Singles(w) \ Updated(w, first)

Bumped(w, first) ==
    (Partitions(w) \cup {f \in CarriedFences(w) : IsCross(f)}
        \cup IF first THEN Several(w) ELSE {}) \ Updated(w, first)

\* The types an Update tests.  A first append is the create guard: it also tests
\* the types it writes.
Guarded(w, first, f) ==
    IF first THEN Consumed(w, f) \cup Produced(w, f)
    ELSE IF Consumed(w, f) = {} THEN Produced(w, f) ELSE Consumed(w, f)

Pairs(F, Of(_)) == UNION {{f} \X Of(f) : f \in F}

\* An Update that would set nothing is left out, its test with it.
UpdatesTest ==
    [w \in Writers |-> [first \in BOOLEAN |->
        Pairs({f \in Updated(w, first) : Produced(w, f) # {}}, LAMBDA f : Guarded(w, first, f))]]

ChecksTest ==
    [w \in Writers |-> [first \in BOOLEAN |->
        Pairs(Checked(w, first), LAMBDA f : Consumed(w, f))]]

\* appendUnconditional sets the fences of the tags its events carry.
AppendSets ==
    [w \in Writers |-> [first \in BOOLEAN |->
        IF w \in Conditional
        THEN Pairs(Updated(w, first) \cup Bumped(w, first), LAMBDA f : Produced(w, f))
        ELSE Pairs(CarriedFences(w), LAMBDA f : Carried(w, f))]]

IsFirst(w) == after[w] = 0

\* (mutant) Only the fences the append sets are tested.
Mutant_Tests(w) == IF w \in Conditional THEN UpdatesTest[w][IsFirst(w)] ELSE {}

Tests(w) ==
    IF w \in Conditional THEN UpdatesTest[w][IsFirst(w)] \cup ChecksTest[w][IsFirst(w)] ELSE {}

Sets(w) == AppendSets[w][IsFirst(w)]

\* A condition without tags or a transaction of too many items is refused unsent.
Unsupported(w) ==
    \/ w \in Conditional /\ \A c \in QueryOf[w] : c.tags = {}
    \/ Len(EventsOf[w]) + Cardinality({p[1] : p \in Tests(w) \cup Sets(w)}) > Limit
-----------------------------------------------------------------------------
Init ==
    /\ order = [w \in Writers |-> 0] /\ base = [w \in Writers |-> 0]
    /\ fence = [p \in Fences \X Types |-> 0]
    /\ ticks = {}
    /\ pc = [w \in Writers |-> IF w \in Conditional THEN "read" ELSE "append"]
    /\ saw = [w \in Writers |-> {}] /\ after = [w \in Writers |-> 0]
    /\ todo = [w \in Writers |-> IF w \in Conditional THEN QueryOf[w] ELSE {}]
    /\ since = [w \in Writers |-> 0]
    /\ retries = [w \in Writers |-> IF w \in Conditional THEN MaxRetries ELSE 0]
    /\ faults = 0

Fault == faults < MaxFaults /\ faults' = faults + 1

\* (mutant) One retry too many.
Mutant_MayRetry(w) == retries[w] >= 0

MayRetry(w) == retries[w] > 0

\* The slice reads again behind its head, or gives up.
Again(w) ==
    /\ IF MayRetry(w)
       THEN /\ pc' = [pc EXCEPT ![w] = "read"] /\ retries' = [retries EXCEPT ![w] = @ - 1]
            /\ todo' = [todo EXCEPT ![w] = QueryOf[w]]
            /\ since' = [since EXCEPT ![w] = Cardinality(Stored)]
       ELSE pc' = [pc EXCEPT ![w] = "failed"] /\ UNCHANGED <<retries, todo, since>>
    /\ UNCHANGED <<order, fence, saw, after>>
-----------------------------------------------------------------------------
(* readStream: one stream for each clause, merged by position.                 *)

OfPartition(c) == \E t \in c.tags : c.tags = {t} /\ t.key \notin CrossPartitionKeys

\* One tag is a partition, or with a cross-partition key an index of its own;
\* several are looked up as a whole; none at all is a scan.
Covers(c, e) ==
    IF OfPartition(c) THEN \E t \in c.tags : PartitionOf(e) = TagFence(t)
    ELSE IF Cardinality(c.tags) > 1 THEN e.tags = c.tags
    ELSE c.tags \subseteq e.tags /\ (c.tags = {} => HasType(e, c))

Found(w, c) == {r \in Log : r.pos > after[w] /\ Covers(c, r.event)}

\* (mutant) Retries read as the first attempt does.
Mutant_Strong(w, c) == FALSE

\* EscalateOnRetry; an index or a scan is read as it is.
Strong(w, c) == retries[w] < MaxRetries /\ OfPartition(c)

\* What a read may return: a partition as it was after some append, an index
\* without any of what it has not taken over yet.
Answers(w, c) ==
    IF Strong(w, c) THEN {Found(w, c)}
    ELSE IF OfPartition(c)
    THEN {{r \in Found(w, c) : order[r.by] <= n} : n \in 0..Cardinality(Stored)}
    ELSE SUBSET Found(w, c)

\* The head moves once the merged stream has been folded.
Took(w, c, S) ==
    /\ saw' = [saw EXCEPT ![w] = @ \cup Positions(S)]
    /\ todo' = [todo EXCEPT ![w] = @ \ {c}]
    /\ IF todo[w] = {c}
       THEN /\ pc' = [pc EXCEPT ![w] = "append"]
            /\ after' = [after EXCEPT ![w] = Max(saw'[w] \cup {@})]
       ELSE UNCHANGED <<pc, after>>
    /\ UNCHANGED <<order, base, fence, ticks, retries>>

ReadClause(w, c) ==
    /\ pc[w] = "read"
    /\ \E S \in Answers(w, c) : Took(w, c, S)
    /\ UNCHANGED <<since, faults>>

\* A failing stream of several just ends (startProducer), after any of its pages.
ReadBreaksOff(w, c) ==
    /\ pc[w] = "read" /\ Cardinality(QueryOf[w]) > 1
    /\ Fault
    /\ \E S \in Answers(w, c), p \in Positions(Log) \cup {0} :
          Took(w, c, {r \in S : r.pos <= p})
    /\ since' = [since EXCEPT ![w] = 0]

\* The failing stream of a lone clause fails the attempt.
ReadFails(w) ==
    /\ pc[w] = "read" /\ Cardinality(QueryOf[w]) = 1
    /\ Fault
    /\ Again(w)
    /\ UNCHANGED <<base, ticks>>
-----------------------------------------------------------------------------
(* append.                                                                   *)

Now == Cardinality(ticks) + 1

AppendUnsupported(w) ==
    /\ pc[w] = "append" /\ Unsupported(w)
    /\ Again(w)
    /\ UNCHANGED <<base, ticks, faults>>

\* generatePosition: the container's clock, and no position is given twice.
TakePosition(w) ==
    /\ pc[w] = "append" /\ ~Unsupported(w)
    /\ \E t \in (Now - Skew .. Now + Skew) \ ticks :
          /\ t > 0
          /\ ticks' = ticks \cup {t}
          /\ base' = [base EXCEPT ![w] = Width * t + 1]
    /\ pc' = [pc EXCEPT ![w] = "commit"]
    /\ UNCHANGED <<order, fence, saw, after, todo, since, retries, faults>>

\* attribute_not_exists, or with a head also: not past it.
Passes(w) == \A p \in Tests(w) : fence[p] <= after[w]

CommitAppend(w) ==
    /\ pc[w] = "commit" /\ Passes(w)
    /\ order' = [order EXCEPT ![w] = Cardinality(Stored) + 1]
    /\ fence' = [p \in Fences \X Types |-> IF p \in Sets(w) THEN base[w] ELSE fence[p]]
    /\ pc' = [pc EXCEPT ![w] = "done"]
    /\ UNCHANGED <<base, ticks, saw, after, todo, since, retries, faults>>

Conflict(w) ==
    /\ pc[w] = "commit" /\ ~Passes(w)
    /\ Again(w)
    /\ base' = [base EXCEPT ![w] = 0]
    /\ UNCHANGED <<ticks, faults>>

AppendFails(w) ==
    /\ pc[w] = "commit"
    /\ Fault
    /\ Again(w)
    /\ base' = [base EXCEPT ![w] = 0]
    /\ UNCHANGED ticks

Step(w) ==
    \/ \E c \in todo[w] : ReadClause(w, c) \/ ReadBreaksOff(w, c)
    \/ ReadFails(w)
    \/ AppendUnsupported(w) \/ TakePosition(w)
    \/ CommitAppend(w) \/ Conflict(w) \/ AppendFails(w)

Next == \E w \in Writers : Step(w)

Spec == Init /\ [][Next]_vars
-----------------------------------------------------------------------------
TypeOK ==
    /\ order \in [Writers -> Nat] /\ base \in [Writers -> Nat]
    /\ fence \in [Fences \X Types -> Nat]
    /\ ticks \subseteq Nat
    /\ pc \in [Writers -> {"read", "append", "commit", "done", "failed"}]
    /\ saw \in [Writers -> SUBSET Nat] /\ after \in [Writers -> Nat]
    /\ todo \in [Writers -> SUBSET Clause] /\ since \in [Writers -> Nat]
    /\ retries \in [Writers -> 0..MaxRetries] /\ faults \in 0..MaxFaults

(* Fences are as the last append that set them left them.                      *)
FencesHold ==
    LET set == [w \in Stored |-> Sets(w)]
    IN  \A p \in Fences \X Types :
            LET by == {w \in Stored : p \in set[w]}
            IN  IF by = {} THEN fence[p] = 0
                ELSE \E w \in by : fence[p] = base[w] /\ \A v \in by : order[v] <= order[w]

\* The clause c of w is kept by the fences r's append sets: one of a tag read across
\* partitions, if w's own events carry it; of a partition r is filed in, if w writes to it
\* too, or has a head and no clause of several tags with this one; of a composite
\* partition only if r was appended under a condition.
IsFenced(w, c, r) ==
    \E f \in FencesOf(c.tags) :
        /\ FencesOf(c.tags) = {f} /\ c.types # {}
        /\ IF IsCross(f) THEN Carried(w, f) # {}
           ELSE /\ PartitionOf(r.event) = f
                /\ f \in Partitions(w) \/ (~IsFirst(w) /\ f \notin Several(w))
                /\ f.composite => r.by \in Conditional

\* An append between that of r and that of w, by a clock behind w's head, set one of
\* the fences back.
SetBack(w, r) ==
    \E v \in Stored :
        /\ order[r.by] < order[v] /\ order[v] < order[w]
        /\ base[v] <= after[w]
        /\ Sets(v) \cap Sets(r.by) \cap Tests(w) # {}

IsMissed(w, c, r) ==
    /\ MatchesClause(r.event, c) /\ order[r.by] < order[w]
    /\ r.pos \notin saw[w]

(* The fences do what they are for: an append that was decided without an event its   *)
(* condition asks for, stored before it, was decided by a reader already past it: the   *)
(* event's batch began at or behind the reader's head.  Whatever the clocks, lagging     *)
(* and broken off reads do, only a fence set back by a late clock lets more by.          *)
MissesOnlyBehind ==
    \A w \in Stored \cap Conditional : \A c \in QueryOf[w], r \in Log :
        IsMissed(w, c, r) /\ IsFenced(w, c, r) => base[r.by] <= after[w] \/ SetBack(w, r)

\* What v put where a clause of w reads a partition.
IsReadable(w, f, v) ==
    \E c \in QueryOf[w], e \in Written(v) :
        OfPartition(c) /\ FencesOf(c.tags) = {f} /\ PartitionOf(e) = f

(* A strong retry heals a lagging read (StateChangeSlice escalates for this): it is        *)
(* refused for an append stored since it began to read, or for one that set the fence     *)
(* without writing to the partition the fence stands for.                             *)
RefusalsHeal ==
    [][\A w \in Writers :
          Conflict(w) /\ retries[w] < MaxRetries /\ since[w] > 0 =>
              \E p \in Tests(w), v \in Stored :
                  /\ fence[p] = base[v] /\ fence[p] > after[w]
                  /\ order[v] > since[w] \/ ~IsReadable(w, p[1], v)]_vars

-----------------------------------------------------------------------------
(* Why it holds: what is true between any two steps.                           *)

\* Appends are numbered as they are stored, and a reading knows how many there were.
Numbered ==
    /\ \A w \in Writers : /\ order[w] # 0 <=> pc[w] = "done"
                          /\ order[w] <= Cardinality(Stored) /\ since[w] <= Cardinality(Stored)
    /\ \A v, w \in Stored : order[v] = order[w] => v = w

\* A writer that has read is past all it has seen.
HeadIsPastReads ==
    \A w \in Writers : pc[w] \in {"append", "commit", "done"} =>
        todo[w] = {} /\ \A pos \in saw[w] : pos <= after[w]

\* The fence an append tested was behind its head, by the append that set it last.
Fenced ==
    \A w, u \in Stored : \A p \in Tests(w) :
        p \in Sets(u) /\ order[u] < order[w] =>
            \/ base[u] <= after[w]
            \/ \E v \in Stored : /\ order[u] < order[v] /\ order[v] < order[w]
                                /\ base[v] <= after[w] /\ p \in Sets(v)

\* A strong retry has all that was stored, when it began, in the partitions it has read.
Healed ==
    \A w \in Writers : retries[w] < MaxRetries /\ since[w] > 0 =>
        \A c \in {d \in QueryOf[w] : OfPartition(d)} \ todo[w],
          v \in {u \in Stored : order[u] <= since[w]} :
            \A r \in Events(v) : Covers(c, r.event) => r.pos <= after[w] \/ r.pos \in saw[w]

IndInv == TypeOK /\ FencesHold /\ Numbered /\ HeadIsPastReads /\ Fenced /\ Healed
-----------------------------------------------------------------------------
(* Imports cannot be missed, as the comment on appendUnconditional says: what they store    *)
(* before an append that asks for it was seen, or lies behind what was seen.             *)
ImportsAreSeen ==
    \A w \in Stored \cap Conditional : \A c \in QueryOf[w], r \in Log :
        IsMissed(w, c, r) /\ r.by \notin Conditional => base[r.by] <= after[w]
=============================================================================
