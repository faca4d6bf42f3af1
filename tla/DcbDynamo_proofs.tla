-------------------------- MODULE DcbDynamo_proofs --------------------------
(***************************************************************************)
(* Proofs about the queries of the DCB event logs, and about conditional      *)
(* appends to the DynamoDB log, for any number of writers, queries, events,    *)
(* tags, partitions, clock readings, retries and failures.                   *)
(***************************************************************************)
EXTENDS DcbDynamo, FiniteSetTheorems, WellFoundedInduction, TLAPS

-----------------------------------------------------------------------------
(* Queries.                                                                  *)

\* An encoded event that carries the tags of a group is of a type that narrowing
\* keeps for the group.
LEMMA CarriersAreKept ==
    ASSUME NEW e \in Event, NEW types \in SUBSET Types, NEW group \in SUBSET Tag,
           group \subseteq Encoded(e).tags, e.type \in types
    PROVE  e.type \in NarrowEventTypes(types, group)
  <1>1. \A tag \in group : tag.key \in IndexedKeys(e.type)
    BY DEF Encoded, Event
  <1> QED  BY <1>1 DEF NarrowEventTypes

LEMMA EncodedKeepsType ==
    ASSUME NEW e \in Event
    PROVE  Encoded(e).type = e.type
  BY DEF Encoded, Event

\* A query and its broad form are both empty or both not.
LEMMA SameEmptiness ==
    ASSUME NEW types, NEW tags, NEW expanded
    PROVE  QueryFor(types, tags, expanded) = {} <=> BroadQueryFor(types, tags, expanded) = {}
  BY DEF QueryFor, BroadQueryFor

(* However a storage reads an empty type list, narrowing never loses an event *)
(* of a slice's types: no decision misses an event and no conflict goes       *)
(* undetected (narrowEventTypesForTags).                                      *)
THEOREM NarrowingLosesNothing ==
    ASSUME NEW e \in Event, NEW types \in SUBSET Types, NEW tags \in SUBSET Tag,
           NEW expanded \in BOOLEAN,
           e.type \in types,
           Matches(Encoded(e), BroadQueryFor(types, tags, expanded))
    PROVE  Matches(Encoded(e), QueryFor(types, tags, expanded))
  <1>1. CASE BroadQueryFor(types, tags, expanded) = {}
    BY <1>1, SameEmptiness DEF Matches
  <1>2. CASE BroadQueryFor(types, tags, expanded) # {}
    <2>1. PICK group \in TagGroups(tags, expanded) : group \subseteq Encoded(e).tags
      BY <1>2 DEF Matches, BroadQueryFor, MatchesClause
    <2>2. group \in SUBSET Tag
      BY <2>1 DEF TagGroups
    <2>3. e.type \in NarrowEventTypes(types, group)
      BY <2>1, <2>2, CarriersAreKept
    <2>4. MatchesClause(Encoded(e), [types |-> NarrowEventTypes(types, group), tags |-> group])
      BY <2>1, <2>3, EncodedKeepsType DEF MatchesClause, HasType
    <2> QED  BY <2>1, <2>4 DEF Matches, QueryFor
  <1> QED  BY <1>1, <1>2

(* On a storage that takes an empty type list literally, narrowing is the     *)
(* pure dead-clause removal its comment says: the query selects exactly what  *)
(* it selected before.                                                       *)
THEOREM NarrowingIsDeadClauseRemoval ==
    ASSUME EmptyTypesMatchAny = FALSE,
           NEW e \in Event, NEW types \in SUBSET Types, NEW tags \in SUBSET Tag,
           NEW expanded \in BOOLEAN
    PROVE  NarrowingChangesNothing(e, types, tags, expanded)
  <1>1. ASSUME Matches(Encoded(e), BroadQueryFor(types, tags, expanded))
        PROVE  Matches(Encoded(e), QueryFor(types, tags, expanded))
    <2>1. CASE BroadQueryFor(types, tags, expanded) = {}
      BY <2>1, SameEmptiness DEF Matches
    <2>2. CASE BroadQueryFor(types, tags, expanded) # {}
      <3>1. PICK clause \in BroadQueryFor(types, tags, expanded) :
                MatchesClause(Encoded(e), clause)
        BY <1>1, <2>2 DEF Matches
      <3>2. clause.types = types  BY <3>1 DEF BroadQueryFor
      <3>3. e.type \in types  BY <3>1, <3>2, EncodedKeepsType DEF MatchesClause, HasType
      <3> QED  BY <1>1, <3>3, NarrowingLosesNothing
    <2> QED  BY <2>1, <2>2
  <1>2. ASSUME Matches(Encoded(e), QueryFor(types, tags, expanded))
        PROVE  Matches(Encoded(e), BroadQueryFor(types, tags, expanded))
    <2>1. CASE QueryFor(types, tags, expanded) = {}
      BY <2>1, SameEmptiness DEF Matches
    <2>2. CASE QueryFor(types, tags, expanded) # {}
      <3>1. PICK group \in TagGroups(tags, expanded) :
                MatchesClause(Encoded(e),
                              [types |-> NarrowEventTypes(types, group), tags |-> group])
        BY <1>2, <2>2 DEF Matches, QueryFor
      <3>2. MatchesClause(Encoded(e), [types |-> types, tags |-> group])
        BY <3>1 DEF MatchesClause, HasType, NarrowEventTypes
      <3> QED  BY <3>1, <3>2 DEF Matches, BroadQueryFor
    <2> QED  BY <2>1, <2>2
  <1> QED  BY <1>1, <1>2 DEF NarrowingChangesNothing

-----------------------------------------------------------------------------
(* The fences an append tests and sets.                                      *)

LEMMA EventTypes ==
    ASSUME NEW w \in Writers
    PROVE  /\ EventsOf[w] \in Seq(Event) /\ Len(EventsOf[w]) \in Nat \ {0}
           /\ DOMAIN EventsOf[w] = 1 .. Len(EventsOf[w])
           /\ Written(w) \subseteq Event /\ Len(EventsOf[w]) <= Width /\ Width \in Nat
           /\ QueryOf[w] \subseteq Clause
           /\ \A i \in DOMAIN EventsOf[w] : EventsOf[w][i] \in Written(w)
           /\ \A e \in Written(w) : \E i \in DOMAIN EventsOf[w] : e = EventsOf[w][i]
  <1>1. EventsOf[w] \in Seq(Event) \ {<<>>} /\ QueryOf[w] \in Query
        /\ Len(EventsOf[w]) <= Width /\ Width \in Nat
    BY WritersAppend
  <1>2. EventsOf[w] \in Seq(Event) /\ EventsOf[w] # <<>>
    BY <1>1
  <1>3. Len(EventsOf[w]) \in Nat \ {0} /\ DOMAIN EventsOf[w] = 1 .. Len(EventsOf[w])
        /\ \A i \in DOMAIN EventsOf[w] : EventsOf[w][i] \in Event
    BY <1>2
  <1> QED  BY <1>1, <1>2, <1>3 DEF Written, Range, Query

LEMMA UpdateTests ==
    ASSUME NEW w \in Writers, NEW first \in BOOLEAN, NEW f, NEW t
    PROVE  <<f, t>> \in UpdatesTest[w][first]
               <=> f \in Updated(w, first) /\ Produced(w, f) # {} /\ t \in Guarded(w, first, f)
  <1>1. UpdatesTest[w][first]
          = UNION {{g} \X Guarded(w, first, g) : g \in {h \in Updated(w, first) : Produced(w, h) # {}}}
    BY DEF UpdatesTest, Pairs
  <1> QED  BY <1>1

LEMMA CheckTests ==
    ASSUME NEW w \in Writers, NEW first \in BOOLEAN, NEW f, NEW t
    PROVE  <<f, t>> \in ChecksTest[w][first] <=> f \in Checked(w, first) /\ t \in Consumed(w, f)
  <1>1. ChecksTest[w][first] = UNION {{g} \X Consumed(w, g) : g \in Checked(w, first)}
    BY DEF ChecksTest, Pairs
  <1> QED  BY <1>1

LEMMA ConditionalSets ==
    ASSUME NEW w \in Conditional, NEW first \in BOOLEAN, NEW f, NEW t
    PROVE  <<f, t>> \in AppendSets[w][first]
               <=> f \in Updated(w, first) \cup Bumped(w, first) /\ t \in Produced(w, f)
  <1>1. AppendSets[w][first]
          = UNION {{g} \X Produced(w, g) : g \in Updated(w, first) \cup Bumped(w, first)}
    BY WritersAppend DEF AppendSets, Pairs
  <1> QED  BY <1>1

LEMMA ImportSets ==
    ASSUME NEW w \in Writers \ Conditional, NEW first \in BOOLEAN, NEW f, NEW t
    PROVE  <<f, t>> \in AppendSets[w][first] <=> f \in CarriedFences(w) /\ t \in Carried(w, f)
  <1>1. AppendSets[w][first] = UNION {{g} \X Carried(w, g) : g \in CarriedFences(w)}
    BY DEF AppendSets, Pairs
  <1> QED  BY <1>1

\* The fences of an append, tested or set, are those of the table, with types of the log.
LEMMA FencesKnown ==
    ASSUME NEW w \in Writers
    PROVE  /\ Partitions(w) \subseteq Fences /\ CarriedFences(w) \subseteq Fences
           /\ Singles(w) \subseteq Fences /\ Several(w) \subseteq Fences
           /\ \A f : /\ Consumed(w, f) \subseteq Types /\ Carried(w, f) \subseteq Types
                     /\ Produced(w, f) \subseteq Types
                     /\ \A first \in BOOLEAN : Guarded(w, first, f) \subseteq Types
  <1>1. Partitions(w) \subseteq Fences /\ CarriedFences(w) \subseteq Fences
    BY DEF Partitions, CarriedFences, Fences, Written
  <1>2. Singles(w) \subseteq Fences /\ Several(w) \subseteq Fences
    BY DEF Singles, Several, Folded, Fences
  <1>3. ASSUME NEW f
        PROVE  /\ Consumed(w, f) \subseteq Types /\ Carried(w, f) \subseteq Types
               /\ Produced(w, f) \subseteq Types
    <2>1. Consumed(w, f) \subseteq Types
      BY EventTypes DEF Consumed, Folded, Clause
    <2>2. Carried(w, f) \subseteq Types
      BY EventTypes DEF Carried, Event
    <2>3. Produced(w, f) \subseteq Types
      BY <2>2, EventTypes DEF Produced, Event
    <2> QED  BY <2>1, <2>2, <2>3
  <1>4. \A f : \A first \in BOOLEAN : Guarded(w, first, f) \subseteq Types
    BY <1>3 DEF Guarded
  <1> QED  BY <1>1, <1>2, <1>3, <1>4

LEMMA TestsKnown ==
    ASSUME NEW w \in Writers
    PROVE  Tests(w) \subseteq Fences \X Types /\ Sets(w) \subseteq Fences \X Types
  <1> DEFINE first == IsFirst(w)
  <1>0. first \in BOOLEAN
    BY DEF IsFirst
  <1> HIDE DEF first
  <1>1. Updated(w, first) \subseteq Fences /\ Checked(w, first) \subseteq Fences
        /\ Bumped(w, first) \subseteq Fences
    BY FencesKnown DEF Updated, Checked, Bumped
  <1>2. UpdatesTest[w][first] \subseteq Fences \X Types
    <2>1. UpdatesTest[w][first]
            = UNION {{g} \X Guarded(w, first, g) : g \in {h \in Updated(w, first) : Produced(w, h) # {}}}
      BY <1>0 DEF UpdatesTest, Pairs
    <2> QED  BY <1>0, <1>1, <2>1, FencesKnown
  <1>3. ChecksTest[w][first] \subseteq Fences \X Types
    <2>1. ChecksTest[w][first] = UNION {{g} \X Consumed(w, g) : g \in Checked(w, first)}
      BY <1>0 DEF ChecksTest, Pairs
    <2> QED  BY <1>1, <2>1, FencesKnown
  <1>4. AppendSets[w][first] \subseteq Fences \X Types
    <2>1. AppendSets[w][first]
            = IF w \in Conditional
              THEN UNION {{g} \X Produced(w, g) : g \in Updated(w, first) \cup Bumped(w, first)}
              ELSE UNION {{g} \X Carried(w, g) : g \in CarriedFences(w)}
      BY <1>0 DEF AppendSets, Pairs
    <2> QED  BY <1>1, <2>1, FencesKnown
  <1> QED  BY <1>2, <1>3, <1>4 DEF Tests, Sets, first

\* The one fence of a clause: of its tag, which every event it asks for carries, or of
\* a composite partition.
LEMMA LoneFence ==
    ASSUME NEW tags, NEW f, FencesOf(tags) = {f}
    PROVE  f.composite \/ \E t \in tags : f = TagFence(t) /\ f.tags = {t}
  <1>1. CASE Composite # {} /\ Cardinality(tags) > 1
    <2>1. f = EntityFence(tags)
      BY <1>1 DEF FencesOf
    <2> QED  BY <2>1 DEF EntityFence
  <1>2. CASE ~(Composite # {} /\ Cardinality(tags) > 1)
    <2>1. {TagFence(t) : t \in tags} = {f}
      BY <1>2 DEF FencesOf
    <2>2. PICK t \in tags : f = TagFence(t)
      BY <2>1
    <2>3. f.tags = {t}
      BY <2>2 DEF TagFence
    <2> QED  BY <2>2, <2>3
  <1> QED  BY <1>1, <1>2

\* What buildConditionalTransactItems owes a clause that one fence keeps: whatever
\* event the clause asks for, its append sets, and the reader's append tests, that
\* fence for the event's type.
LEMMA FenceIsShared ==
    ASSUME NEW w \in Conditional, NEW c \in QueryOf[w], NEW u \in Writers, NEW e \in Written(u),
           NEW r, r.event = e, r.by = u, MatchesClause(e, c), IsFenced(w, c, r)
    PROVE  \E p \in Tests(w) : p \in Sets(u)
  <1>1. PICK f : /\ FencesOf(c.tags) = {f} /\ c.types # {}
                 /\ IF IsCross(f) THEN Carried(w, f) # {}
                    ELSE /\ PartitionOf(e) = f
                         /\ f \in Partitions(w) \/ (~IsFirst(w) /\ f \notin Several(w))
                         /\ f.composite => u \in Conditional
    BY DEF IsFenced
  <1> DEFINE p == <<f, e.type>>
             first == IsFirst(w)
             firstU == IsFirst(u)
  <1>2. first \in BOOLEAN /\ firstU \in BOOLEAN /\ w \in Writers
    BY WritersAppend DEF IsFirst
  <1>3. e.type \in c.types /\ c.tags \subseteq e.tags
    BY <1>1 DEF MatchesClause, HasType
  <1>4. f \in Singles(w) /\ c.types \subseteq Consumed(w, f)
    <2> DEFINE d == [types |-> c.types, fences |-> {f}]
    <2>1. d \in Folded(w) /\ d.types = c.types /\ d.fences = {f}
      BY <1>1 DEF Folded
    <2>2. Cardinality({f}) = 1
      BY FS_Singleton
    <2> HIDE DEF d
    <2>3. f \in Singles(w)
      BY <2>1, <2>2 DEF Singles
    <2>4. c.types \subseteq Consumed(w, f)
      BY <2>1 DEF Consumed
    <2> QED  BY <2>3, <2>4
  <1>5. e.type \in Consumed(w, f) /\ e.type \in Guarded(w, first, f)
    BY <1>3, <1>4 DEF Guarded
  <1>6. ASSUME ~f.composite
        PROVE  f \in CarriedFences(u) /\ e.type \in Carried(u, f)
    <2>1. PICK t \in c.tags : f = TagFence(t) /\ f.tags = {t}
      BY <1>1, <1>6, LoneFence
    <2>2. t \in e.tags
      BY <1>3, <2>1
    <2> QED  BY <1>6, <2>1, <2>2 DEF CarriedFences, Carried
  <1> HIDE DEF first, firstU
  <1>7. p \in UpdatesTest[w][first] \cup ChecksTest[w][first]
    <2>1. CASE IsCross(f)
      <3>1. f \in Updated(w, first) /\ Produced(w, f) # {}
        BY <1>1, <1>4, <2>1 DEF Updated, Produced
      <3> QED  BY <1>2, <1>5, <3>1, UpdateTests
    <2>2. CASE ~IsCross(f) /\ f \in Partitions(w)
      <3>1. f \in Updated(w, first) /\ Produced(w, f) # {}
        BY <1>4, <2>2 DEF Updated, Produced, Partitions
      <3> QED  BY <1>2, <1>5, <3>1, UpdateTests
    <2>3. CASE ~IsCross(f) /\ f \notin Partitions(w)
      <3>1. ~first /\ f \notin Several(w)
        BY <1>1, <2>3 DEF first
      <3>2. f \in Checked(w, first)
        BY <1>4, <2>3, <3>1 DEF Checked, Updated
      <3> QED  BY <1>2, <1>5, <3>2, CheckTests
    <2> QED  BY <2>1, <2>2, <2>3
  <1>8. p \in AppendSets[u][firstU]
    <2>1. CASE IsCross(f)
      <3>1. ~f.composite
        BY <2>1 DEF IsCross
      <3>2. f \in CarriedFences(u) /\ e.type \in Carried(u, f)
        BY <1>6, <3>1
      <3>3. CASE u \in Conditional
        <4>1. f \in Updated(u, firstU) \cup Bumped(u, firstU) /\ e.type \in Produced(u, f)
          BY <2>1, <3>2 DEF Bumped, Produced
        <4> QED  BY <1>2, <3>3, <4>1, ConditionalSets
      <3>4. CASE u \notin Conditional
        BY <1>2, <3>2, <3>4, ImportSets
      <3> QED  BY <3>3, <3>4
    <2>2. CASE ~IsCross(f) /\ u \in Conditional
      <3>1. f \in Partitions(u) /\ e.type \in Produced(u, f)
        BY <1>1, <2>2 DEF Partitions, Produced
      <3>2. f \in Updated(u, firstU) \cup Bumped(u, firstU)
        BY <3>1 DEF Bumped
      <3> QED  BY <1>2, <2>2, <3>1, <3>2, ConditionalSets
    <2>3. CASE ~IsCross(f) /\ u \notin Conditional
      <3>1. ~f.composite
        BY <1>1, <2>3
      <3> QED  BY <1>2, <1>6, <2>3, <3>1, ImportSets
    <2> QED  BY <2>1, <2>2, <2>3
  <1>9. p \in Tests(w)
    BY <1>7 DEF Tests, first
  <1>10. p \in Sets(u)
    BY <1>8 DEF Sets, firstU
  <1> QED  BY <1>9, <1>10

-----------------------------------------------------------------------------
(* Numbers.                                                                  *)

\* A nonempty set of naturals below a bound has its maximum.
LEMMA MaxOfBounded ==
    ASSUME NEW n \in Nat, NEW S \in SUBSET (0..n), S # {}
    PROVE  Max(S) \in S /\ \A y \in S : Max(S) >= y
  <1> DEFINE Above(x) == {y \in S : y > x}
             R == StrictSubsetOrdering(0..n)
             T == {Above(x) : x \in S}
  <1>1. IsWellFoundedOn(R, SUBSET (0..n))
    <2>1. IsFiniteSet(0..n)  BY FS_Interval
    <2> QED  BY <2>1, FS_FiniteSubsetsOfFinite, FS_StrictSubsetOrderingWellFounded
  <1>2. T \subseteq SUBSET (0..n) /\ T # {}  OBVIOUS
  <1>3. \E a \in T : \A b \in T : ~ (<<b, a>> \in R)
    <2> HIDE DEF T, R
    <2> QED  BY <1>1, <1>2, WFMin
  <1>4. PICK x \in S : \A b \in T : ~ (<<b, Above(x)>> \in R)  BY <1>3
  <1>5. \A y \in S : x >= y
    <2> SUFFICES ASSUME NEW y \in S, ~ (x >= y) PROVE FALSE  OBVIOUS
    <2>0. \A z \in S : z \in Nat  OBVIOUS
    <2>1. x \in Nat /\ y \in Nat /\ y > x  BY <2>0
    <2>2. Above(y) \subseteq Above(x) /\ y \in Above(x) /\ y \notin Above(y)
      <3> HIDE DEF T, R
      <3>1. \A z \in S : z > y => z > x  BY <2>0, <2>1
      <3>2. ~ (y > y)  BY <2>1
      <3> QED  BY <2>1, <3>1, <3>2
    <2>3. Above(y) \in SUBSET (0..n) /\ Above(x) \in SUBSET (0..n) /\ Above(y) # Above(x)
      BY <2>2
    <2>4. Above(y) \in T  OBVIOUS
    <2>5. <<Above(y), Above(x)>> \in R
      <3> HIDE DEF Above
      <3> QED  BY <2>2, <2>3 DEF StrictSubsetOrdering
    <2> QED  BY <1>4, <2>4, <2>5
  <1>6. \E z \in S : \A y \in S : z >= y  BY <1>5
  <1> QED  BY <1>6 DEF Max
-----------------------------------------------------------------------------
(* What holds between two steps.                                             *)

Finite == IsFiniteSet(Stored) /\ IsFiniteSet(ticks)

\* However many writers there are, no position is beyond some bound.
Bounded ==
    \E m \in Nat : \A w \in Writers :
        base[w] + Width <= m /\ after[w] <= m /\ \A pos \in saw[w] : pos <= m

Inv == IndInv /\ Finite /\ Bounded

LEMMA LogTypes ==
    ASSUME TypeOK
    PROVE  \A r \in Log : /\ r.by \in Stored /\ r \in Events(r.by) /\ r.event \in Written(r.by)
                          /\ r.pos \in Nat /\ base[r.by] <= r.pos /\ r.pos <= base[r.by] + Width
  <1> SUFFICES ASSUME NEW r \in Log
               PROVE  /\ r.by \in Stored /\ r \in Events(r.by) /\ r.event \in Written(r.by)
                      /\ r.pos \in Nat /\ base[r.by] <= r.pos /\ r.pos <= base[r.by] + Width
    OBVIOUS
  <1>1. PICK u \in Stored : r \in Events(u)
    BY DEF Log
  <1>2. PICK i \in DOMAIN EventsOf[u] : r = [pos |-> base[u] + i - 1, event |-> EventsOf[u][i], by |-> u]
    BY <1>1 DEF Events
  <1>3. r.by = u /\ r.event = EventsOf[u][i] /\ r.pos = base[u] + i - 1
    BY <1>2
  <1>4. u \in Writers /\ base[u] \in Nat
    BY <1>1 DEF Stored, TypeOK
  <1>5. i \in 1 .. Len(EventsOf[u]) /\ Len(EventsOf[u]) \in Nat /\ Len(EventsOf[u]) <= Width
        /\ Width \in Nat /\ EventsOf[u][i] \in Written(u)
    BY <1>2, <1>4, EventTypes
  <1>6. r.pos \in Nat /\ base[u] <= r.pos /\ r.pos <= base[u] + Width
    BY <1>3, <1>4, <1>5
  <1> QED  BY <1>1, <1>3, <1>5, <1>6

LEMMA AnswersAreLogged ==
    ASSUME NEW w \in Writers, NEW c, NEW S \in Answers(w, c)
    PROVE  S \subseteq Log /\ (Strong(w, c) => S = Found(w, c))
  BY DEF Answers, Found

\* FencesHold without its abbreviations.
LastSet ==
    \A p \in Fences \X Types :
        /\ (\A w \in Stored : p \notin Sets(w)) => fence[p] = 0
        /\ \A u \in Stored : p \in Sets(u) =>
              \E w \in Stored : /\ p \in Sets(w) /\ fence[p] = base[w]
                                /\ \A v \in Stored : p \in Sets(v) => order[v] <= order[w]

LEMMA FencesAreLastSet ==
    ASSUME FencesHold
    PROVE  LastSet
  <1> DEFINE By(p) == {w \in Stored : p \in Sets(w)}
             Holds(p) == IF By(p) = {} THEN fence[p] = 0
                         ELSE \E w \in By(p) : fence[p] = base[w] /\ \A v \in By(p) : order[v] <= order[w]
  <1>1. \A p \in Fences \X Types : Holds(p)
    BY DEF FencesHold
  <1>2. SUFFICES ASSUME NEW p \in Fences \X Types
                 PROVE  /\ (\A w \in Stored : p \notin Sets(w)) => fence[p] = 0
                        /\ \A u \in Stored : p \in Sets(u) =>
                              \E w \in Stored : /\ p \in Sets(w) /\ fence[p] = base[w]
                                                /\ \A v \in Stored : p \in Sets(v) => order[v] <= order[w]
    BY DEF LastSet
  <1>3. Holds(p)
    BY <1>1
  <1>4. ASSUME \A w \in Stored : p \notin Sets(w)
        PROVE  fence[p] = 0
    BY <1>3, <1>4
  <1>5. ASSUME NEW u \in Stored, p \in Sets(u)
        PROVE  \E w \in Stored : /\ p \in Sets(w) /\ fence[p] = base[w]
                                 /\ \A v \in Stored : p \in Sets(v) => order[v] <= order[w]
    BY <1>3, <1>5
  <1> QED  BY <1>4, <1>5

LEMMA LastSetHolds ==
    ASSUME LastSet'
    PROVE  FencesHold'
  <1> DEFINE By(p) == {w \in Stored : p \in Sets(w)}
             Holds(p) == IF By(p) = {} THEN fence[p] = 0
                         ELSE \E w \in By(p) : fence[p] = base[w] /\ \A v \in By(p) : order[v] <= order[w]
  <1>1. ASSUME NEW p \in Fences \X Types
        PROVE  Holds(p)'
    <2>1. CASE By(p)' = {}
      BY <2>1 DEF LastSet
    <2>2. CASE By(p)' # {}
      <3>1. PICK u \in Stored' : p \in Sets(u)'
        BY <2>2
      <3> QED  BY <2>2, <3>1 DEF LastSet
    <2> QED  BY <2>1, <2>2
  <1> QED  BY <1>1 DEF FencesHold

\* A step of a writer whose append is not stored, and that does not store it, leaves
\* the log, its fences and what they said to others as they are.
LEMMA LogStays ==
    ASSUME TypeOK, FencesHold, Numbered, Fenced, NEW w \in Writers, pc[w] # "done",
           UNCHANGED <<order, fence>>,
           \A v \in Writers \ {w} : base'[v] = base[v] /\ after'[v] = after[v]
    PROVE  /\ w \notin Stored /\ Stored' = Stored
           /\ \A v \in Stored : Events(v)' = Events(v)
           /\ FencesHold' /\ Fenced'
  <1>1. w \notin Stored /\ Stored' = Stored
    BY DEF Stored, Numbered
  <1>2. \A v \in Stored : /\ v \in Writers /\ v # w /\ base'[v] = base[v] /\ after'[v] = after[v]
                          /\ order'[v] = order[v]
    BY <1>1 DEF Stored
  <1>3. \A v \in Stored : Events(v)' = Events(v) /\ Tests(v)' = Tests(v) /\ Sets(v)' = Sets(v)
    BY <1>2 DEF Events, Tests, Sets, IsFirst
  <1>4. FencesHold'
    <2>1. LastSet
      BY FencesAreLastSet
    <2>2. LastSet'
      <3> SUFFICES ASSUME NEW p \in Fences \X Types
                   PROVE  /\ (\A v \in Stored : p \notin Sets(v)) => fence[p] = 0
                          /\ \A u \in Stored : p \in Sets(u) =>
                                \E x \in Stored : /\ p \in Sets(x) /\ fence[p] = base'[x]
                                                  /\ \A v \in Stored : p \in Sets(v) => order[v] <= order[x]
        BY <1>1, <1>2, <1>3 DEF LastSet
      <3> QED  BY <1>2, <2>1 DEF LastSet
    <2> QED  BY <2>2, LastSetHolds
  <1>5. Fenced'
    BY <1>1, <1>2, <1>3 DEF Fenced
  <1> QED  BY <1>1, <1>3, <1>4, <1>5
-----------------------------------------------------------------------------
(* The steps.                                                                *)

LEMMA InvHoldsInitially ==
    ASSUME Init
    PROVE  Inv
  <1>1. Stored = {} /\ IsFiniteSet(Stored) /\ Cardinality(Stored) = 0 /\ IsFiniteSet(ticks)
    BY FS_EmptySet DEF Init, Stored
  <1>2. TypeOK
    <2>1. \A w \in Writers : QueryOf[w] \subseteq Clause
      BY EventTypes
    <2> QED  BY <2>1, BoundsAreNaturals DEF Init, TypeOK
  <1>3. FencesHold
    BY <1>1 DEF Init, FencesHold
  <1>4. Numbered /\ HeadIsPastReads /\ Fenced
    BY <1>1 DEF Init, Numbered, HeadIsPastReads, Fenced
  <1>5. Healed
    BY <1>1 DEF Init, Healed
  <1>6. Bounded
    <2>1. Width \in Nat /\ \A w \in Writers : base[w] + Width <= Width /\ after[w] <= Width /\ saw[w] = {}
      BY WritersAppend DEF Init
    <2> QED  BY <2>1 DEF Bounded
  <1> QED  BY <1>1, <1>2, <1>3, <1>4, <1>5, <1>6 DEF Inv, IndInv, Finite

\* A writer reads again, or gives up.
LEMMA AgainKeepsInv ==
    ASSUME Inv, NEW w \in Writers, pc[w] \in {"read", "append", "commit"}, Again(w),
           base' = base \/ base' = [base EXCEPT ![w] = 0],
           UNCHANGED ticks, faults' \in 0..MaxFaults
    PROVE  Inv'
  <1> USE DEF Inv, IndInv, Finite
  <1>1. pc[w] # "done" /\ \A v \in Writers \ {w} : base'[v] = base[v] /\ after'[v] = after[v]
    BY DEF TypeOK, Again
  <1>2. Stored' = Stored /\ \A v \in Stored : Events(v)' = Events(v)
    BY <1>1, LogStays DEF Again
  <1>3. FencesHold' /\ Fenced'
    BY <1>1, LogStays DEF Again
  <1>4. Cardinality(Stored) \in Nat
    BY FS_CardinalityType
  <1>5. TypeOK'
    <2>1. QueryOf[w] \subseteq Clause
      BY EventTypes
    <2>2. retries' \in [Writers -> 0..MaxRetries]
      BY BoundsAreNaturals DEF TypeOK, Again, MayRetry
    <2>3. /\ pc' \in [Writers -> {"read", "append", "commit", "done", "failed"}]
          /\ todo' \in [Writers -> SUBSET Clause] /\ since' \in [Writers -> Nat]
      BY <1>4, <2>1 DEF TypeOK, Again
    <2>4. base' \in [Writers -> Nat]
      BY DEF TypeOK
    <2> QED  BY <2>2, <2>3, <2>4 DEF TypeOK, Again
  <1>6. Numbered'
    <2>1. ASSUME NEW v \in Writers
          PROVE  /\ order'[v] # 0 <=> pc'[v] = "done"
                 /\ order'[v] <= Cardinality(Stored) /\ since'[v] <= Cardinality(Stored)
      <3>1. order'[v] # 0 <=> pc'[v] = "done"
        BY DEF Again, TypeOK, Numbered
      <3>2. order'[v] <= Cardinality(Stored) /\ since'[v] <= Cardinality(Stored)
        BY <1>4 DEF Again, TypeOK, Numbered
      <3> QED  BY <3>1, <3>2
    <2>2. \A u, v \in Stored : order'[u] = order'[v] => u = v
      BY DEF Again, Numbered
    <2> QED  BY <1>2, <2>1, <2>2 DEF Numbered
  <1>7. HeadIsPastReads'
    BY DEF Again, TypeOK, HeadIsPastReads
  <1>8. Healed'
    <2> SUFFICES ASSUME NEW x \in Writers, retries'[x] < MaxRetries, since'[x] > 0,
                        NEW c \in {d \in QueryOf[x] : OfPartition(d)} \ todo'[x],
                        NEW v \in Stored, order[v] <= since'[x],
                        NEW r \in Events(v), Covers(c, r.event)
                 PROVE  r.pos <= after[x] \/ r.pos \in saw[x]
      BY <1>2 DEF Healed, Again
    <2>1. CASE x = w /\ MayRetry(w)
      BY <2>1 DEF Again, TypeOK
    <2>2. CASE ~(x = w /\ MayRetry(w))
      <3>1. retries'[x] = retries[x] /\ since'[x] = since[x] /\ todo'[x] = todo[x]
        BY <2>2 DEF Again, TypeOK
      <3> QED  BY <3>1 DEF Healed
    <2> QED  BY <2>1, <2>2
  <1>9. Bounded'
    <2>1. PICK m \in Nat : \A v \in Writers :
              base[v] + Width <= m /\ after[v] <= m /\ \A pos \in saw[v] : pos <= m
      BY DEF Bounded
    <2>2. \A v \in Writers : base'[v] \in Nat /\ base'[v] <= base[v]
      BY DEF TypeOK
    <2>3. Width \in Nat /\ \A v \in Writers : base[v] \in Nat
      BY WritersAppend DEF TypeOK
    <2>4. \A v \in Writers : base'[v] + Width <= m
      BY <2>1, <2>2, <2>3
    <2> QED  BY <2>1, <2>4 DEF Bounded, Again
  <1> QED  BY <1>2, <1>3, <1>5, <1>6, <1>7, <1>8, <1>9

\* A writer takes what a read of a clause returned, whole or broken off.
LEMMA TookKeepsInv ==
    ASSUME Inv, NEW w \in Writers, NEW c \in todo[w], pc[w] = "read",
           NEW S \in SUBSET Log, Took(w, c, S), faults' \in 0..MaxFaults,
           \/ since' = since /\ S \in Answers(w, c)
           \/ since' = [since EXCEPT ![w] = 0]
    PROVE  Inv'
  <1> USE DEF Inv, IndInv, Finite
  <1> DEFINE seen == saw[w] \cup Positions(S)
             head == Max(seen \cup {after[w]})
  <1>0. /\ saw' = [saw EXCEPT ![w] = seen] /\ todo' = [todo EXCEPT ![w] = @ \ {c}]
        /\ saw'[w] = seen /\ todo'[w] = todo[w] \ {c}
        /\ IF todo[w] = {c}
           THEN pc' = [pc EXCEPT ![w] = "append"] /\ after' = [after EXCEPT ![w] = head]
           ELSE UNCHANGED <<pc, after>>
        /\ UNCHANGED <<order, base, fence, ticks, retries>>
    BY DEF Took, TypeOK
  <1>1. PICK m \in Nat : \A v \in Writers :
            base[v] + Width <= m /\ after[v] <= m /\ \A pos \in saw[v] : pos <= m
    BY DEF Bounded
  <1>2. seen \subseteq 0..m
    <2>1. \A r \in S : r.pos \in Nat /\ r.pos <= m
      <3>1. \A r \in Log : r.pos \in Nat /\ r.by \in Writers /\ r.pos <= base[r.by] + Width
        BY LogTypes DEF Stored
      <3>2. Width \in Nat /\ \A v \in Writers : base[v] \in Nat
        BY WritersAppend DEF TypeOK
      <3>3. \A r \in Log : r.pos <= m
        BY <1>1, <3>1, <3>2
      <3> QED  BY <3>1, <3>3
    <2>2. saw[w] \subseteq Nat
      BY DEF TypeOK
    <2> QED  BY <1>1, <2>1, <2>2 DEF Positions
  <1>3. after[w] \in 0..m
    BY <1>1 DEF TypeOK
  <1>4. head \in 0..m /\ after[w] <= head /\ \A pos \in seen : pos <= head
    <2>1. head \in seen \cup {after[w]} /\ \A pos \in seen \cup {after[w]} : head >= pos
      BY <1>2, <1>3, MaxOfBounded
    <2> HIDE DEF head, seen
    <2> QED  BY <1>2, <1>3, <2>1
  <1> HIDE DEF seen, head
  <1>5. pc[w] # "done" /\ \A v \in Writers \ {w} : base'[v] = base[v] /\ after'[v] = after[v]
    BY <1>0 DEF TypeOK
  <1>6. Stored' = Stored /\ \A v \in Stored : Events(v)' = Events(v)
    BY <1>0, <1>5, LogStays
  <1>7. FencesHold' /\ Fenced'
    BY <1>0, <1>5, LogStays
  <1>8. after' \in [Writers -> Nat] /\ after[w] <= after'[w] /\ after'[w] <= m
    BY <1>0, <1>1, <1>3, <1>4 DEF TypeOK
  <1>9. TypeOK'
    <2>1. seen \in SUBSET Nat
      BY <1>1, <1>2
    <2>2. saw' \in [Writers -> SUBSET Nat]
      BY <1>0, <2>1 DEF TypeOK
    <2>3. todo' \in [Writers -> SUBSET Clause]
      BY <1>0 DEF TypeOK
    <2>4. pc' \in [Writers -> {"read", "append", "commit", "done", "failed"}]
      BY <1>0 DEF TypeOK
    <2>5. since' \in [Writers -> Nat]
      BY DEF TypeOK
    <2> QED  BY <1>0, <1>8, <2>2, <2>3, <2>4, <2>5 DEF TypeOK
  <1>10. Numbered'
    <2>1. \A v \in Writers : order[v] # 0 <=> pc'[v] = "done"
      BY <1>0 DEF TypeOK, Numbered
    <2>2. \A v \in Writers : since'[v] <= Cardinality(Stored)
      <3>1. Cardinality(Stored) \in Nat
        BY FS_CardinalityType
      <3> QED  BY <3>1 DEF TypeOK, Numbered
    <2> QED  BY <1>0, <1>6, <2>1, <2>2 DEF Numbered
  <1>11. HeadIsPastReads'
    <2> SUFFICES ASSUME NEW v \in Writers, pc'[v] \in {"append", "commit", "done"}
                 PROVE  todo'[v] = {} /\ \A pos \in saw'[v] : pos <= after'[v]
      BY DEF HeadIsPastReads
    <2>1. CASE v = w
      <3>1. todo[w] = {c} /\ after'[w] = head
        BY <1>0, <2>1 DEF TypeOK
      <3> QED  BY <1>0, <1>4, <2>1, <3>1
    <2>2. CASE v # w
      <3>1. pc'[v] = pc[v] /\ todo'[v] = todo[v] /\ saw'[v] = saw[v] /\ after'[v] = after[v]
        BY <1>0, <2>2 DEF TypeOK
      <3> QED  BY <3>1 DEF HeadIsPastReads
    <2> QED  BY <2>1, <2>2
  <1>12. Healed'
    <2> SUFFICES ASSUME NEW x \in Writers, retries[x] < MaxRetries, since'[x] > 0,
                        NEW d \in {e \in QueryOf[x] : OfPartition(e)} \ todo'[x],
                        NEW v \in Stored, order[v] <= since'[x],
                        NEW r \in Events(v), Covers(d, r.event)
                 PROVE  r.pos <= after'[x] \/ r.pos \in saw'[x]
      BY <1>0, <1>6 DEF Healed
    <2>1. CASE x # w
      <3>1. /\ since'[x] = since[x] /\ todo'[x] = todo[x] /\ saw'[x] = saw[x]
            /\ after'[x] = after[x]
        BY <1>0, <2>1 DEF TypeOK
      <3> QED  BY <3>1 DEF Healed
    <2>2. CASE x = w
      <3>1. since' = since /\ S \in Answers(w, c)
        BY <2>2 DEF TypeOK
      <3>2. r \in Log /\ r.pos \in Nat
        <4>1. r \in Log
          BY DEF Log
        <4> QED  BY <4>1, LogTypes
      <3>3. CASE d = c
        <4>1. S = Found(w, c)
          BY <2>2, <3>1, <3>3, AnswersAreLogged DEF Strong
        <4>2. CASE r.pos > after[w]
          BY <1>0, <2>2, <3>2, <3>3, <4>1, <4>2 DEF Found, Positions, seen
        <4>3. CASE ~(r.pos > after[w])
          BY <1>8, <2>2, <3>2, <4>3 DEF TypeOK
        <4> QED  BY <4>2, <4>3
      <3>4. CASE d # c
        <4>1. d \in {e \in QueryOf[w] : OfPartition(e)} \ todo[w]
          BY <1>0, <2>2, <3>4
        <4>2. r.pos <= after[w] \/ r.pos \in saw[w]
          BY <2>2, <3>1, <4>1 DEF Healed
        <4>3. after[w] \in Nat /\ after'[w] \in Nat
          BY <1>8 DEF TypeOK
        <4>4. r.pos <= after[w] => r.pos <= after'[w]
          BY <1>8, <3>2, <4>3
        <4>5. saw[w] \subseteq saw'[w]
          BY <1>0 DEF seen
        <4> QED  BY <2>2, <4>2, <4>4, <4>5
      <3> QED  BY <3>3, <3>4
    <2> QED  BY <2>1, <2>2
  <1>13. Bounded'
    <2>1. ASSUME NEW v \in Writers
          PROVE  base'[v] + Width <= m /\ after'[v] <= m /\ \A pos \in saw'[v] : pos <= m
      <3>1. CASE v = w
        <4>1. \A pos \in seen : pos <= m
          BY <1>1, <1>2
        <4>2. saw'[w] = seen /\ base'[w] = base[w]
          BY <1>0
        <4> QED  BY <1>1, <1>8, <3>1, <4>1, <4>2
      <3>2. CASE v # w
        <4>1. saw'[v] = saw[v] /\ after'[v] = after[v]
          BY <1>0, <3>2 DEF TypeOK
        <4> QED  BY <1>0, <1>1, <4>1
      <3> QED  BY <3>1, <3>2
    <2> QED  BY <2>1 DEF Bounded
  <1> QED  BY <1>0, <1>6, <1>7, <1>9, <1>10, <1>11, <1>12, <1>13

LEMMA TakePositionKeepsInv ==
    ASSUME Inv, NEW w \in Writers, TakePosition(w)
    PROVE  Inv'
  <1> USE DEF Inv, IndInv, Finite
  <1>1. PICK t \in (Now - Skew .. Now + Skew) \ ticks :
            t > 0 /\ ticks' = ticks \cup {t} /\ base' = [base EXCEPT ![w] = Width * t + 1]
    BY DEF TakePosition
  <1>2. t \in Nat
    <2>1. Now \in Nat /\ Skew \in Nat
      BY FS_CardinalityType, BoundsAreNaturals DEF Now
    <2> QED  BY <1>1, <2>1
  <1> DEFINE new == Width * t + 1
  <1>3. new \in Nat /\ Width \in Nat
    <2>1. Width \in Nat
      BY WritersAppend
    <2>2. \A a, b \in Nat : a * b \in Nat
      OBVIOUS
    <2>3. Width * t \in Nat
      BY <1>2, <2>1, <2>2
    <2> QED  BY <2>1, <2>3
  <1> HIDE DEF new
  <1>4. pc[w] # "done" /\ UNCHANGED <<order, fence, after>>
        /\ \A v \in Writers \ {w} : base'[v] = base[v] /\ after'[v] = after[v]
    BY <1>1 DEF TakePosition, TypeOK
  <1>5. Stored' = Stored /\ \A v \in Stored : Events(v)' = Events(v)
    BY <1>4, LogStays
  <1>6. FencesHold' /\ Fenced'
    BY <1>4, LogStays
  <1>7. TypeOK'
    BY <1>1, <1>2, <1>3 DEF TakePosition, TypeOK, new
  <1>8. Numbered'
    <2>1. \A v \in Writers : order[v] # 0 <=> pc'[v] = "done"
      BY DEF TakePosition, TypeOK, Numbered
    <2> QED  BY <1>5, <2>1 DEF TakePosition, Numbered
  <1>9. HeadIsPastReads' /\ Healed'
    <2>1. HeadIsPastReads'
      BY DEF TakePosition, TypeOK, HeadIsPastReads
    <2>2. Healed'
      BY <1>5 DEF TakePosition, Healed
    <2> QED  BY <2>1, <2>2
  <1>10. Bounded'
    <2>1. PICK m \in Nat : \A v \in Writers :
              base[v] + Width <= m /\ after[v] <= m /\ \A pos \in saw[v] : pos <= m
      BY DEF Bounded
    <2> DEFINE n == m + new + Width
    <2>2. n \in Nat /\ m <= n /\ new + Width <= n
      BY <1>3
    <2> HIDE DEF n
    <2>3. \A v \in Writers : /\ base[v] \in Nat /\ after[v] \in Nat /\ saw[v] \subseteq Nat
                             /\ base'[v] = base[v] \/ base'[v] = new
      BY <1>1 DEF TypeOK, new
    <2>4. \A v \in Writers : base'[v] + Width <= n
      BY <1>3, <2>1, <2>2, <2>3
    <2>5. \A v \in Writers : after[v] <= n /\ \A pos \in saw[v] : pos <= n
      BY <2>1, <2>2, <2>3
    <2> QED  BY <2>2, <2>4, <2>5 DEF Bounded, TakePosition
  <1>11. IsFiniteSet(ticks')
    BY <1>1, FS_AddElement
  <1> QED  BY <1>5, <1>6, <1>7, <1>8, <1>9, <1>10, <1>11

\* An append is stored behind all the others, and its fences are its own.
LEMMA CommitAppendKeepsInv ==
    ASSUME Inv, NEW w \in Writers, CommitAppend(w)
    PROVE  Inv'
  <1> USE DEF Inv, IndInv, Finite
  <1> DEFINE n == Cardinality(Stored) + 1
  <1>1. Cardinality(Stored) \in Nat
    BY FS_CardinalityType
  <1>2. w \notin Stored /\ pc[w] = "commit" /\ Passes(w)
    BY DEF CommitAppend, Stored, Numbered
  <1>3. Stored' = Stored \cup {w}
    <2>1. order'[w] # 0 /\ \A v \in Writers \ {w} : order'[v] = order[v]
      BY <1>1 DEF CommitAppend, TypeOK
    <2> QED  BY <2>1 DEF Stored
  <1>4. IsFiniteSet(Stored') /\ Cardinality(Stored') = n
    BY <1>2, <1>3, FS_AddElement
  <1>5. \A v \in Stored : v \in Writers /\ v # w /\ order[v] \in Nat /\ order[v] < n
    <2>1. \A v \in Stored : v \in Writers /\ order[v] \in Nat /\ order[v] <= Cardinality(Stored)
      BY DEF Stored, TypeOK, Numbered
    <2> QED  BY <1>1, <1>2, <2>1
  <1> HIDE DEF n
  <1>6. n \in Nat /\ n # 0 /\ n >= Cardinality(Stored)
    BY <1>1 DEF n
  <1>7. order'[w] = n /\ \A v \in Writers \ {w} : order'[v] = order[v]
    BY DEF CommitAppend, TypeOK, n
  <1>8. \A v \in Writers : /\ Tests(v)' = Tests(v) /\ Sets(v)' = Sets(v)
                           /\ Events(v)' = Events(v) /\ base'[v] = base[v] /\ after'[v] = after[v]
    BY DEF CommitAppend, Tests, Sets, IsFirst, Events
  <1>9. TypeOK'
    <2>1. base[w] \in Nat
      BY DEF TypeOK
    <2>2. fence' \in [Fences \X Types -> Nat]
      BY <2>1 DEF CommitAppend, TypeOK
    <2>3. order' \in [Writers -> Nat]
      BY <1>6 DEF CommitAppend, TypeOK, n
    <2> QED  BY <2>2, <2>3 DEF CommitAppend, TypeOK
  <1>10. LastSet
    BY FencesAreLastSet
  <1>11. FencesHold'
    <2> SUFFICES ASSUME NEW p \in Fences \X Types
                 PROVE  /\ (\A v \in Stored' : p \notin Sets(v)) => fence'[p] = 0
                        /\ \A u \in Stored' : p \in Sets(u) =>
                              \E x \in Stored' : /\ p \in Sets(x) /\ fence'[p] = base[x]
                                                 /\ \A v \in Stored' : p \in Sets(v) => order'[v] <= order'[x]
      <3>1. Stored' \subseteq Writers
        BY DEF Stored
      <3>2. \A p \in Fences \X Types :
              /\ (\A v \in Stored' : p \notin Sets(v)') => fence'[p] = 0
              /\ \A u \in Stored' : p \in Sets(u)' =>
                    \E x \in Stored' : /\ p \in Sets(x)' /\ fence'[p] = base'[x]
                                       /\ \A v \in Stored' : p \in Sets(v)' => order'[v] <= order'[x]
        BY <1>8, <3>1
      <3> QED  BY <3>2, LastSetHolds DEF LastSet
    <2>1. CASE p \in Sets(w)
      <3>1. fence'[p] = base[w]
        BY <2>1 DEF CommitAppend
      <3>2. \A v \in Stored' : order'[v] <= order'[w]
        BY <1>3, <1>5, <1>6, <1>7
      <3> QED  BY <1>3, <2>1, <3>1, <3>2
    <2>2. CASE p \notin Sets(w)
      <3>1. fence'[p] = fence[p]
        BY <2>2 DEF CommitAppend
      <3>2. \A v \in Stored : order'[v] = order[v]
        BY <1>5, <1>7
      <3>3. (\A v \in Stored : p \notin Sets(v)) => fence[p] = 0
        BY <1>10 DEF LastSet
      <3>4. ASSUME NEW u \in Stored', p \in Sets(u)
            PROVE  \E x \in Stored' : /\ p \in Sets(x) /\ fence'[p] = base[x]
                                      /\ \A v \in Stored' : p \in Sets(v) => order'[v] <= order'[x]
        <4>1. u \in Stored
          BY <1>3, <2>2, <3>4
        <4>2. PICK x \in Stored : /\ p \in Sets(x) /\ fence[p] = base[x]
                                  /\ \A v \in Stored : p \in Sets(v) => order[v] <= order[x]
          BY <1>10, <3>4, <4>1 DEF LastSet
        <4> QED  BY <1>3, <2>2, <3>1, <3>2, <4>2
      <3> QED  BY <1>3, <3>1, <3>3, <3>4
    <2> QED  BY <2>1, <2>2
  <1>12. Numbered'
    <2>1. ASSUME NEW v \in Writers
          PROVE  order'[v] # 0 <=> pc'[v] = "done"
      BY <1>6, <1>7 DEF CommitAppend, TypeOK, Numbered
    <2>2. ASSUME NEW v \in Writers
          PROVE  order'[v] <= n /\ since'[v] <= n
      <3>1. order[v] \in Nat /\ since[v] \in Nat /\ order[v] <= Cardinality(Stored)
            /\ since[v] <= Cardinality(Stored) /\ since'[v] = since[v]
        BY DEF TypeOK, Numbered, CommitAppend
      <3> QED  BY <1>1, <1>6, <1>7, <3>1
    <2>3. ASSUME NEW u \in Stored', NEW v \in Stored', order'[u] = order'[v]
          PROVE  u = v
      <3>1. CASE u \in Stored /\ v \in Stored
        BY <1>5, <1>7, <2>3, <3>1 DEF Numbered
      <3>2. CASE u = w \/ v = w
        BY <1>3, <1>5, <1>6, <1>7, <2>3, <3>2
      <3> QED  BY <1>3, <3>1, <3>2
    <2> QED  BY <1>4, <2>1, <2>2, <2>3 DEF Numbered
  <1>13. HeadIsPastReads'
    BY <1>2 DEF CommitAppend, TypeOK, HeadIsPastReads
  <1>14. Fenced'
    <2> SUFFICES ASSUME NEW x \in Stored', NEW u \in Stored', NEW p \in Tests(x),
                        p \in Sets(u), order'[u] < order'[x]
                 PROVE  \/ base[u] <= after[x]
                        \/ \E v \in Stored' : /\ order'[u] < order'[v] /\ order'[v] < order'[x]
                                              /\ base[v] <= after[x] /\ p \in Sets(v)
      <3>1. Stored' \subseteq Writers
        BY DEF Stored
      <3> QED  BY <1>8, <3>1 DEF Fenced
    <2>1. u \in Stored
      BY <1>3, <1>5, <1>6, <1>7
    <2>2. CASE x \in Stored
      <3>1. \/ base[u] <= after[x]
            \/ \E v \in Stored : /\ order[u] < order[v] /\ order[v] < order[x]
                                 /\ base[v] <= after[x] /\ p \in Sets(v)
        BY <1>5, <1>7, <2>1, <2>2 DEF Fenced
      <3> QED  BY <1>3, <1>5, <1>7, <2>1, <2>2, <3>1
    <2>3. CASE x = w
      <3>1. p \in Fences \X Types /\ fence[p] <= after[w]
        BY <1>2, <2>3, TestsKnown DEF Passes
      <3>2. PICK v \in Stored : /\ p \in Sets(v) /\ fence[p] = base[v]
                                /\ \A y \in Stored : p \in Sets(y) => order[y] <= order[v]
        BY <1>10, <2>1, <3>1 DEF LastSet
      <3>3. CASE v = u
        BY <2>3, <3>1, <3>2, <3>3
      <3>4. CASE v # u
        <4>1. order[u] <= order[v] /\ order[u] # order[v]
          BY <2>1, <3>2, <3>4 DEF Numbered
        <4>2. order'[u] < order'[v] /\ order'[v] < order'[w]
          BY <1>5, <1>7, <2>1, <4>1
        <4> QED  BY <1>3, <2>3, <3>1, <3>2, <4>2
      <3> QED  BY <3>3, <3>4
    <2> QED  BY <1>3, <2>2, <2>3
  <1>15. Healed'
    <2> SUFFICES ASSUME NEW x \in Writers, retries[x] < MaxRetries, since[x] > 0,
                        NEW c \in {d \in QueryOf[x] : OfPartition(d)} \ todo[x],
                        NEW v \in Stored', order'[v] <= since[x],
                        NEW r \in Events(v), Covers(c, r.event)
                 PROVE  r.pos <= after[x] \/ r.pos \in saw[x]
      <3>1. Stored' \subseteq Writers
        BY DEF Stored
      <3> QED  BY <1>8, <3>1 DEF Healed, CommitAppend
    <2>1. v # w
      <3>1. since[x] \in Nat /\ since[x] <= Cardinality(Stored)
        BY DEF TypeOK, Numbered
      <3> QED  BY <1>1, <1>7, <3>1 DEF n
    <2>2. v \in Stored /\ order[v] <= since[x]
      BY <1>3, <1>5, <1>7, <2>1
    <2> QED  BY <2>2 DEF Healed
  <1>16. Bounded'
    BY DEF Bounded, CommitAppend
  <1> QED  BY <1>4, <1>9, <1>11, <1>12, <1>13, <1>14, <1>15, <1>16 DEF CommitAppend

LEMMA StepKeepsInv ==
    ASSUME Inv, NEW w \in Writers, Step(w)
    PROVE  Inv'
  <1>1. faults \in Nat /\ faults <= MaxFaults /\ MaxFaults \in Nat
    BY BoundsAreNaturals DEF Inv, IndInv, TypeOK
  <1>2. ASSUME NEW c \in todo[w], ReadClause(w, c)
        PROVE  Inv'
    <2>1. PICK S \in Answers(w, c) : Took(w, c, S)
      BY <1>2 DEF ReadClause
    <2>2. S \in SUBSET Log
      BY AnswersAreLogged
    <2> QED  BY <1>1, <1>2, <2>1, <2>2, TookKeepsInv DEF ReadClause
  <1>3. ASSUME NEW c \in todo[w], ReadBreaksOff(w, c)
        PROVE  Inv'
    <2>1. PICK S \in Answers(w, c), p \in Positions(Log) \cup {0} : Took(w, c, {r \in S : r.pos <= p})
      BY <1>3 DEF ReadBreaksOff
    <2>2. {r \in S : r.pos <= p} \in SUBSET Log
      BY AnswersAreLogged
    <2>3. faults' \in 0..MaxFaults
      BY <1>1, <1>3 DEF ReadBreaksOff, Fault
    <2> QED  BY <1>3, <2>1, <2>2, <2>3, TookKeepsInv DEF ReadBreaksOff
  <1>4. ASSUME ReadFails(w)
        PROVE  Inv'
    BY <1>1, <1>4, AgainKeepsInv DEF ReadFails, Fault
  <1>5. ASSUME AppendUnsupported(w)
        PROVE  Inv'
    BY <1>1, <1>5, AgainKeepsInv DEF AppendUnsupported
  <1>6. ASSUME Conflict(w)
        PROVE  Inv'
    <2>1. pc[w] \in {"read", "append", "commit"} /\ Again(w) /\ ticks' = ticks
          /\ base' = [base EXCEPT ![w] = 0] /\ faults' \in 0..MaxFaults
      BY <1>1, <1>6 DEF Conflict
    <2> QED  BY <2>1, AgainKeepsInv
  <1>7. ASSUME AppendFails(w)
        PROVE  Inv'
    <2>1. pc[w] \in {"read", "append", "commit"} /\ Again(w) /\ ticks' = ticks
          /\ base' = [base EXCEPT ![w] = 0] /\ faults' \in 0..MaxFaults
      BY <1>1, <1>7 DEF AppendFails, Fault
    <2> QED  BY <2>1, AgainKeepsInv
  <1> QED  BY <1>2, <1>3, <1>4, <1>5, <1>6, <1>7, TakePositionKeepsInv, CommitAppendKeepsInv DEF Step

LEMMA InvIsInductive ==
    ASSUME Inv, [Next]_vars
    PROVE  Inv'
  <1>1. CASE Next
    BY <1>1, StepKeepsInv DEF Next
  <1>2. CASE UNCHANGED vars
    <2>1. UNCHANGED <<order, base, fence, ticks, pc, saw, after, todo, since, retries, faults>>
      BY <1>2 DEF vars
    <2>2. TypeOK' /\ FencesHold'
      <3>1. TypeOK'
        BY <2>1 DEF Inv, IndInv, TypeOK
      <3>2. LastSet
        BY FencesAreLastSet DEF Inv, IndInv
      <3>3. LastSet'
        BY <2>1, <3>2 DEF LastSet, Sets, IsFirst, Stored
      <3> QED  BY <3>1, <3>3, LastSetHolds
    <2>3. Numbered' /\ HeadIsPastReads' /\ Fenced'
      BY <2>1 DEF Inv, IndInv, Numbered, HeadIsPastReads, Fenced, Tests, Sets, IsFirst, Stored
    <2>4. Healed' /\ Finite' /\ Bounded'
      BY <2>1 DEF Inv, IndInv, Healed, Events, Stored, Finite, Bounded
    <2> QED  BY <2>2, <2>3, <2>4 DEF Inv, IndInv
  <1> QED  BY <1>1, <1>2

LEMMA InvHolds == Spec => []Inv
  <1> QED  BY InvHoldsInitially, InvIsInductive, PTL DEF Spec

(* The types of the table's attributes and of the writers' states are kept, the fences are   *)
(* as the last append that set them left them, every stored append was behind the fences it  *)
(* tested, and a strong retry has what its partitions held.                             *)
THEOREM FencesAreKept == Spec => []IndInv
  <1>1. Inv => IndInv
    BY DEF Inv
  <1> QED  BY <1>1, InvHolds, PTL

(* No append is decided without an event of its condition that a fence keeps, unless its   *)
(* reader was past that event's batch, or a late clock set the fence back between the two   *)
(* (buildConditionalTransactItems).                                                   *)
THEOREM NothingFencedIsMissed == Spec => []MissesOnlyBehind
  <1>1. ASSUME Inv
        PROVE  MissesOnlyBehind
    <2> SUFFICES ASSUME NEW w \in Stored \cap Conditional, NEW c \in QueryOf[w], NEW r \in Log,
                        IsMissed(w, c, r), IsFenced(w, c, r)
                 PROVE  base[r.by] <= after[w] \/ SetBack(w, r)
      BY DEF MissesOnlyBehind
    <2>1. r.by \in Stored /\ r.by \in Writers /\ r.event \in Written(r.by)
      BY <1>1, LogTypes DEF Inv, IndInv, Stored
    <2>2. MatchesClause(r.event, c) /\ order[r.by] < order[w]
      BY DEF IsMissed
    <2>3. PICK p \in Tests(w) : p \in Sets(r.by)
      BY <2>1, <2>2, FenceIsShared
    <2>4. \/ base[r.by] <= after[w]
          \/ \E v \in Stored : /\ order[r.by] < order[v] /\ order[v] < order[w]
                               /\ base[v] <= after[w] /\ p \in Sets(v)
      BY <1>1, <2>1, <2>2, <2>3 DEF Inv, IndInv, Fenced
    <2> QED  BY <2>3, <2>4 DEF SetBack
  <1> QED  BY <1>1, InvHolds, PTL

(* A strong retry is refused only for what was stored after it began to read, or for an     *)
(* append that set a fence without writing to the partition it stands for                *)
(* (EscalateOnRetry).                                                                 *)
THEOREM RetriesHeal == Spec => RefusalsHeal
  <1> DEFINE Excused(w) ==
                \E p \in Tests(w), v \in Stored :
                    /\ fence[p] = base[v] /\ fence[p] > after[w]
                    /\ order[v] > since[w] \/ ~IsReadable(w, p[1], v)
             Heals == \A w \in Writers :
                Conflict(w) /\ retries[w] < MaxRetries /\ since[w] > 0 => Excused(w)
  <1>1. ASSUME Inv, NEW w \in Writers, Conflict(w), retries[w] < MaxRetries, since[w] > 0
        PROVE  Excused(w)
    <2> USE <1>1 DEF Inv, IndInv
    <2>1. PICK p \in Tests(w) : ~(fence[p] <= after[w])
      BY DEF Conflict, Passes
    <2>2. p \in Fences \X Types
      BY <2>1, TestsKnown
    <2>3. fence[p] \in Nat /\ after[w] \in Nat /\ since[w] \in Nat
      BY <2>2 DEF TypeOK
    <2>4. fence[p] > after[w] /\ fence[p] # 0
      BY <2>1, <2>3
    <2>5. PICK v \in Stored : p \in Sets(v) /\ fence[p] = base[v]
      BY <2>2, <2>4, FencesAreLastSet DEF LastSet
    <2>6. ASSUME ~(order[v] > since[w]), IsReadable(w, p[1], v)
          PROVE  FALSE
      <3>1. v \in Writers /\ order[v] \in Nat /\ order[v] <= since[w] /\ base[v] \in Nat
        BY <2>3, <2>6 DEF Stored, TypeOK
      <3>2. PICK c \in QueryOf[w], e \in Written(v) :
                OfPartition(c) /\ FencesOf(c.tags) = {p[1]} /\ PartitionOf(e) = p[1]
        BY <2>6 DEF IsReadable
      <3>3. PICK t \in c.tags : c.tags = {t}
        BY <3>2 DEF OfPartition
      <3>4. FencesOf(c.tags) = {TagFence(t)}
        <4>1. Cardinality(c.tags) = 1
          BY <3>3, FS_Singleton
        <4>2. FencesOf(c.tags) = {TagFence(s) : s \in c.tags}
          BY <4>1 DEF FencesOf
        <4> QED  BY <3>3, <4>2
      <3>5. Covers(c, e)
        BY <3>2, <3>4 DEF Covers
      <3>6. PICK i \in DOMAIN EventsOf[v] : e = EventsOf[v][i]
        BY <3>1, <3>2, EventTypes
      <3> DEFINE r == [pos |-> base[v] + i - 1, event |-> EventsOf[v][i], by |-> v]
      <3>7. r \in Events(v) /\ r.event = e /\ r.pos = base[v] + i - 1
        BY <3>6 DEF Events
      <3>8. r.pos \in Nat /\ base[v] <= r.pos
        <4>1. i \in Nat /\ i >= 1
          BY <3>1, EventTypes
        <4> QED  BY <3>1, <3>7, <4>1
      <3> HIDE DEF r
      <3>9. todo[w] = {} /\ \A pos \in saw[w] : pos <= after[w]
        BY DEF Conflict, HeadIsPastReads
      <3>10. c \in {d \in QueryOf[w] : OfPartition(d)} \ todo[w]
        BY <3>2, <3>9
      <3>11. r.pos <= after[w] \/ r.pos \in saw[w]
        BY <3>1, <3>5, <3>7, <3>10 DEF Healed
      <3>12. r.pos <= after[w]
        BY <3>9, <3>11
      <3> QED  BY <2>3, <2>4, <2>5, <3>1, <3>8, <3>12
    <2> QED  BY <2>4, <2>5, <2>6
  <1>2. ASSUME Inv, [Next]_vars
        PROVE  [Heals]_vars
    BY <1>1, <1>2
  <1> HIDE DEF Heals
  <1>3. Spec => [][Heals]_vars
    BY <1>2, InvHolds, PTL DEF Spec
  <1> QED  BY <1>3 DEF RefusalsHeal, Heals
=============================================================================
