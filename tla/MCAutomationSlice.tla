--------------------------- MODULE MCAutomationSlice ---------------------------
(* Instances of AutomationSlice for TLC: two containers of the Lambda, or two     *)
(* passes of one process.                                                        *)
EXTENDS AutomationSlice

CONSTANTS payment, reminder, c1, c2

\* What a pass finds of an item does not change.
Steady == {{"send"}, {"unencodable"}, {"gone"}, {"wait"}}
Sendable == {{"send"}}
Changing == {{"send"}, {"send", "gone"}, {"wait", "send"}, {"unencodable"}}

\* A row whose tries are spent under a lowered maxRetries, and one that was given up.
Spent == [status |-> "Failed", tries |-> MaxTries]

GivenUp == [status |-> "Abandoned", tries |-> MaxTries]

MCStoredBefore == [i \in Items |-> {NoRow, Spent, GivenUp}]
NothingStored == [i \in Items |-> {NoRow}]

OwnDict == [p \in Passes |-> p]
OneDict == [p \in Passes |-> c1]
=============================================================================
