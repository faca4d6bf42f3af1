------------------------- MODULE MCStateChangeSlice -------------------------
(***************************************************************************)
(* Three slices of a course boundary.  Open opens the course without reading *)
(* anything.  Trial lets a student in once it is open and does not look at   *)
(* the enrollments it makes; Enroll lets one in up to a capacity of one.  An  *)
(* enrollment carries the tags of its course and of its student, the course  *)
(* being read across partitions.                                            *)
(***************************************************************************)
EXTENDS StateChangeSlice, TLC

CONSTANTS h1, h2, c1, c2, open, enrollA, enrollB

OneHome  == [h \in Handlers |-> c1]
TwoHomes == [h \in Handlers |-> IF h = h1 THEN c1 ELSE c2]

Course     == [key |-> "course", value |-> "x"]
Student(v) == [key |-> "student", value |-> v]

MCTagKeys == "opened" :> {"course"} @@ "enrolled" :> {"course", "student"}
MCSliceOf  == open :> "Open" @@ enrollA :> "Trial" @@ enrollB :> "Enroll"
MCConsumed == "Open" :> {} @@ "Trial" :> {"opened"} @@ "Enroll" :> {"opened", "enrolled"}
MCProduced == "Open" :> {"opened"} @@ "Trial" :> {"enrolled"} @@ "Enroll" :> {"enrolled"}
OfCommands == [c \in Commands |-> MCSliceOf[c]]

StudentOf(c) == IF c = enrollA THEN "a" ELSE "b"
MCCommandTags ==
    [c \in Commands |-> IF c = open THEN {Course} ELSE {Course, Student(StudentOf(c))}]
EventOf(c) ==
    IF c = open THEN [type |-> "opened", tags |-> {Course, Student("a")}]
    ELSE [type |-> "enrolled", tags |-> {Course, Student(StudentOf(c))}]
MCEvents == {EventOf(c) : c \in Commands}

Having(evs, type) == {i \in DOMAIN evs : evs[i].type = type}

MCDecide(evs, c) ==
    IF c = open THEN <<EventOf(c)>>
    ELSE IF Having(evs, "opened") = {} THEN Rejected
    ELSE IF c = enrollB /\ Having(evs, "enrolled") # {} THEN <<>>
    ELSE <<EventOf(c)>>

\* A course opened twice has an owner who is not the enrolling caller.
MCRefuses(evs, c) == c = enrollB /\ Cardinality(Having(evs, "opened")) > 1
=============================================================================
