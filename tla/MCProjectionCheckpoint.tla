----------------------- MODULE MCProjectionCheckpoint -----------------------
(* Instances of ProjectionCheckpoint for TLC: one or two projections, the      *)
(* catch-up coming to a handler's aggregate axis and then to its DCB axis.      *)
EXTENDS ProjectionCheckpoint, TLC

CONSTANTS h1, h2

HandlerNo(h) == IF h = h1 THEN 0 ELSE 2
\* How long the logs may get.
OneAndTwo == [a \in Axes |-> IF a = "Dcb" THEN 2 ELSE 1]
Three == [a \in Axes |-> 3]
Two == [a \in Axes |-> 2]

RankDef == [s \in Slots |-> HandlerNo(s[1]) + IF s[2] = "Aggregate" THEN 0 ELSE 1]
=============================================================================
