------------------------------ MODULE DcbQuery ------------------------------
(***************************************************************************)
(* Queries over a DCB event log (DcbTag.res): a query is an OR of clauses,   *)
(* a clause asks for one of some event types carrying all of some tags.     *)
(* The query of a command decides both what it is decided on and which       *)
(* events conflict with its append.                                         *)
(***************************************************************************)
EXTENDS Integers, Sequences, FiniteSets

CONSTANTS
    Types,              \* event types of the log
    Keys,               \* tag keys
    Values,             \* tag values
    TagKeys,            \* tagKeysByEventType: the keys each known type is indexed by
    CrossPartitionKeys, \* crossPartitionTagKeys
    EmptyTypesMatchAny  \* a storage reads a clause's empty type list as no constraint

ASSUME TagKeysPerType ==
    /\ DOMAIN TagKeys \subseteq Types
    /\ TagKeys \in [DOMAIN TagKeys -> SUBSET Keys]
ASSUME EmptyTypesIsBoolean == EmptyTypesMatchAny \in BOOLEAN

Tag    == [key : Keys, value : Values]
Event  == [type : Types, tags : SUBSET Tag]
Clause == [types : SUBSET Types, tags : SUBSET Tag]
Query  == SUBSET Clause

\* The in-memory log takes an empty type list literally; SQLite, Postgres and
\* DynamoDB leave the constraint out.
HasType(e, clause) == e.type \in clause.types \/ (EmptyTypesMatchAny /\ clause.types = {})

MatchesClause(e, clause) == HasType(e, clause) /\ clause.tags \subseteq e.tags

\* The empty query asks for everything.
Matches(e, q) == q = {} \/ \E clause \in q : MatchesClause(e, clause)

\* A type tagKeysByEventType does not know keeps all its tags, and stays in
\* every clause.
IndexedKeys(type) == IF type \in DOMAIN TagKeys THEN TagKeys[type] ELSE Keys

Encoded(e) == [e EXCEPT !.tags = {t \in e.tags : t.key \in IndexedKeys(e.type)}]

\* (mutant) A type that carries other tags besides is dropped.
Mutant_NarrowEventTypes(types, tags) ==
    {t \in types : {tag.key : tag \in tags} = IndexedKeys(t)}

\* narrowEventTypesForTags drops the types that cannot carry all of the tags.
NarrowEventTypes(types, tags) ==
    {t \in types : \A tag \in tags : tag.key \in IndexedKeys(t)}

\* buildQueryFromCommand's clauses: one AND clause of all the tags the command is
\* decided by, or one clause for each when the command has an array of tagged
\* values (expanded) or a tag read across partitions.
FansOut(tags, expanded) ==
    expanded \/ (Cardinality(tags) > 1 /\ \E t \in tags : t.key \in CrossPartitionKeys)

TagGroups(tags, expanded) == IF FansOut(tags, expanded) THEN {{t} : t \in tags} ELSE {tags}

QueryFor(types, tags, expanded) ==
    {[types |-> NarrowEventTypes(types, group), tags |-> group] :
        group \in TagGroups(tags, expanded)}
-----------------------------------------------------------------------------
(* The query before narrowing.                                               *)
BroadQueryFor(types, tags, expanded) ==
    {[types |-> types, tags |-> group] : group \in TagGroups(tags, expanded)}

(* narrowEventTypesForTags only drops pairings no encoded event satisfies: a  *)
(* query and its broad form select the same events of every log that          *)
(* encodeEvent wrote.                                                        *)
NarrowingChangesNothing(e, types, tags, expanded) ==
    Matches(Encoded(e), QueryFor(types, tags, expanded))
        <=> Matches(Encoded(e), BroadQueryFor(types, tags, expanded))
=============================================================================
