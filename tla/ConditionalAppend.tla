------------------------- MODULE ConditionalAppend -------------------------
(***************************************************************************)
(* What a DCB event log promises the commands that append to it: a command    *)
(* reads, in parts and perhaps less than there is, and its events are stored   *)
(* together, in one step, and only while nothing it should have been decided   *)
(* on is missing from what it has read.  How positions are given out, what is  *)
(* locked and what is retried is the backend's affair.                        *)
(***************************************************************************)
CONSTANTS
    Writers,        \* commands being decided
    Conditional,    \* those that append under a condition
    EventsOf,       \* the events each decides
    Relevant(_, _)  \* Relevant(w, e): the condition of w asks for the event e

VARIABLES
    log,    \* stored events: where each is, what it is, who wrote it
    known,  \* the places of the events each writer has read
    status  \* "open", "done" or "failed"

vars == <<log, known, status>>
-----------------------------------------------------------------------------
Places == {e.at : e \in log}

Wanted(w) == {e.at : e \in {f \in log : Relevant(w, f.event)}}

Init ==
    /\ log = {}
    /\ known = [w \in Writers |-> {}]
    /\ status = [w \in Writers |-> "open"]

Read(w) ==
    /\ status[w] = "open"
    /\ \E S \in SUBSET Wanted(w) : known' = [known EXCEPT ![w] = @ \cup S]
    /\ UNCHANGED <<log, status>>

\* The entries of w, the i-th of its events at place at[i].
Entries(w, at) == {[at |-> at[i], event |-> EventsOf[w][i], by |-> w] : i \in DOMAIN EventsOf[w]}

Append(w) ==
    /\ status[w] = "open"
    /\ w \in Conditional => Wanted(w) \subseteq known[w]
    /\ \E at \in [DOMAIN EventsOf[w] -> {e.at : e \in log'} \ Places] :
          /\ \A i, j \in DOMAIN EventsOf[w] : at[i] = at[j] => i = j
          /\ log' = log \cup Entries(w, at)
    /\ status' = [status EXCEPT ![w] = "done"]
    /\ UNCHANGED known

Fail(w) ==
    /\ status[w] = "open"
    /\ status' = [status EXCEPT ![w] = "failed"]
    /\ UNCHANGED <<log, known>>

Next == \E w \in Writers : Read(w) \/ Append(w) \/ Fail(w)

Spec == Init /\ [][Next]_vars
=============================================================================
