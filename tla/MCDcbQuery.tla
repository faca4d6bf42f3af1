----------------------------- MODULE MCDcbQuery -----------------------------
(***************************************************************************)
(* Every query a command can build over a small set of types and tags,      *)
(* against every event: one case a state.                                   *)
(***************************************************************************)
EXTENDS DcbQuery, TLC

VARIABLE case

\* "note" is a type the map does not know.
MCTagKeys == "opened" :> {"course"} @@ "enrolled" :> {"course", "student"}

Cases == [event : Event, types : SUBSET Types, tags : SUBSET Tag, expanded : BOOLEAN]

Init == case \in [event : Event, types : {{}}, tags : SUBSET Tag, expanded : {FALSE}]

\* The command's slice consumes one more type, or its schema an array field.
Consumes(type) ==
    /\ type \notin case.types
    /\ case' = [case EXCEPT !.types = @ \cup {type}]

Expands == ~case.expanded /\ case' = [case EXCEPT !.expanded = TRUE]

Next == Expands \/ \E type \in Types : Consumes(type)

Spec == Init /\ [][Next]_case

TypeOK == case \in Cases

(* Narrowing is pure dead-clause removal (narrowEventTypesForTags' comment).  *)
NarrowingIsDead ==
    NarrowingChangesNothing(case.event, case.types, case.tags, case.expanded)
=============================================================================
