--------------------------- MODULE InlineDispatch ---------------------------
(***************************************************************************)
(* The synchronous answer to a command (CommandTopic_Helpers.res,             *)
(* runInlineAndCollect).  A call runs the command handler in its own process  *)
(* and learns what became of its one command through two module-level         *)
(* references, acceptedResultChannel and rejectedResultChannel, which it sets *)
(* before the handler runs and clears after.  The handler's promise says only *)
(* whether the command is done with.                                          *)
(*                                                                            *)
(* The two references are set and cleared together, without an await between, *)
(* so one variable stands for both.  A Lambda container serves one call at a  *)
(* time; the local platform serves all its requests in one process.           *)
(***************************************************************************)
EXTENDS Naturals, FiniteSets

CONSTANTS
    Calls,      \* one command each: CommandGenerator publishes them one by one
    MaxRunning, \* calls a process serves at once
    MaxEvents   \* bound: events of a command

ASSUME MaxRunningPositive == MaxRunning \in Nat \ {0}
ASSUME MaxEventsIsNatural == MaxEvents \in Nat

Nobody == "nobody"
ASSUME NobodyCalls == Nobody \notin Calls

Accepted(n) == [kind |-> "Accepted", events |-> n]
RejectedFor(cause) == [kind |-> "Rejected", cause |-> cause]

Outcomes == {Accepted(n) : n \in 0 .. MaxEvents}
            \cup {RejectedFor("DomainRejection"), RejectedFor("InfrastructureFailure")}
NoOutcome == [kind |-> "None"]

VARIABLES
    channel, \* the call whose callbacks the references hold
    state,   \* [Calls -> state of the call]
    verdict, \* [Calls -> what the handler did with the command]
    heard,   \* [Calls -> what was reported to the call of its command]
    answer   \* [Calls -> what the caller was told]

inlineVars == <<channel, state, verdict, heard, answer>>

States == {"idle", "running", "handled", "answered", "threw"}
Running == {c \in Calls : state[c] \in {"running", "handled"}}
-----------------------------------------------------------------------------
InlineInit ==
    /\ channel = Nobody
    /\ state = [c \in Calls |-> "idle"]
    /\ verdict = [c \in Calls |-> NoOutcome]
    /\ heard = [c \in Calls |-> NoOutcome]
    /\ answer = [c \in Calls |-> NoOutcome]

Dispatch(c) ==
    /\ state[c] = "idle" /\ Cardinality(Running) < MaxRunning
    /\ state' = [state EXCEPT ![c] = "running"]
    /\ channel' = c
    /\ UNCHANGED <<verdict, heard, answer>>

\* (mutant) What is reported is not kept by the command's reference.
Mutant_ReportTo(c, o) == heard' = [d \in Calls |-> IF d = channel THEN o ELSE heard[d]]

\* reportAccepted and reportRejected.  A call looks up its own command only.
ReportTo(c, o) == heard' = [heard EXCEPT ![c] = IF channel = c THEN o ELSE @]

\* An aggregate that runs out of conflict retries fails without a report.
Handle(c, o) ==
    /\ state[c] = "running"
    /\ state' = [state EXCEPT ![c] = "handled"]
    /\ verdict' = [verdict EXCEPT ![c] = o]
    /\ \/ ReportTo(c, o)
       \/ o = RejectedFor("InfrastructureFailure") /\ UNCHANGED heard
    /\ UNCHANGED <<channel, answer>>

\* The handler rejects, and what would clear the references is not reached.
Throw(c) ==
    /\ state[c] = "running"
    /\ state' = [state EXCEPT ![c] = "threw"]
    /\ UNCHANGED <<channel, verdict, heard, answer>>

\* A command that was rejected for its content is done with: its result is Ok.
ResultIsError(c) == verdict[c] = RejectedFor("InfrastructureFailure")

\* (mutant) A result that is an error is not looked at.
Mutant_AnswerOf(c) == IF heard[c] # NoOutcome THEN heard[c] ELSE Accepted(0)

\* (mutant) Nothing stands in for a report that was not made.
Mutant_NoDefault(c) == heard[c]

AnswerOf(c) ==
    IF heard[c].kind = "Rejected" THEN heard[c]
    ELSE IF ResultIsError(c) THEN RejectedFor("InfrastructureFailure")
    ELSE IF heard[c] = NoOutcome THEN Accepted(0)
    ELSE heard[c]

Collect(c) ==
    /\ state[c] = "handled"
    /\ state' = [state EXCEPT ![c] = "answered"]
    /\ channel' = Nobody
    /\ answer' = [answer EXCEPT ![c] = AnswerOf(c)]
    /\ UNCHANGED <<verdict, heard>>

InlineNext ==
    \E c \in Calls :
        \/ Dispatch(c) \/ Throw(c) \/ Collect(c)
        \/ \E o \in Outcomes : Handle(c, o)

InlineSpec == InlineInit /\ [][InlineNext]_inlineVars
-----------------------------------------------------------------------------
InlineTypeOK ==
    /\ channel \in Calls \cup {Nobody}
    /\ state \in [Calls -> States]
    /\ verdict \in [Calls -> Outcomes \cup {NoOutcome}]
    /\ heard \in [Calls -> Outcomes \cup {NoOutcome}]
    /\ answer \in [Calls -> Outcomes \cup {NoOutcome}]
    /\ \A c \in Calls : answer[c] # NoOutcome <=> state[c] = "answered"

\* Nothing is reported of a command that is not decided, and of a decided one
\* what was decided or nothing.
HeardIsTrue ==
    \A c \in Calls :
        /\ heard[c] \in {NoOutcome, verdict[c]}
        /\ state[c] \in {"handled", "answered"} <=> verdict[c] # NoOutcome

\* An answer is what had been reported and the result made of it.
AnswerIsCollected == \A c \in Calls : state[c] = "answered" => answer[c] = AnswerOf(c)

(* What every reachable state satisfies (runInlineAndCollect): the references   *)
(* may be set and cleared by any other call, but what is reported, and the      *)
(* answer made of it, stays about the call's own command.                       *)
InlineIndInv == InlineTypeOK /\ HeardIsTrue /\ AnswerIsCollected

Answered == {c \in Calls : state[c] = "answered"}

(* A caller is told what the handler did with its command: rejected by the     *)
(* model, failed in the infrastructure, or accepted with that many events.     *)
AnswersAreTrue == \A c \in Answered : answer[c] = verdict[c]

(* However many calls a process serves at once, a call is never told what       *)
(* became of another one's command.  A report can get lost, and what is told   *)
(* then is that the command was accepted without events.                       *)
OnlyLossMisleads ==
    \A c \in Answered : answer[c] = verdict[c] \/ answer[c] = Accepted(0)
=============================================================================
