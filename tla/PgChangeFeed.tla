---------------------------- MODULE PgChangeFeed ----------------------------
(***************************************************************************)
(* The change feeds of the Postgres backend (PgChangeFeed.res for the DCB    *)
(* log, EventLogChangeFeed.res, the same code over the classic log): a drain  *)
(* reads the log page by page from a subscriber's checkpoint, hands each page *)
(* to its handler and saves the page's cursor.  The relay Lambda runs drains   *)
(* on a schedule (PgChangeFeedRelay_Runtime.res), so two may overlap.         *)
(***************************************************************************)
EXTENDS PgLog

CONSTANTS
    Drains,    \* concurrent drains of the one subscriber
    MaxXid,    \* bound: transactions
    MaxRows,   \* bound: rows
    MaxFaults  \* bound: aborted transactions and drains that die

ASSUME BoundsAreNaturals == MaxXid \in Nat /\ MaxRows \in Nat /\ MaxFaults \in Nat

VARIABLES
    checkpoint, \* (last_tx, last_position) of dcb_subscription
    pc,         \* where each drain stands
    cursor,     \* its cursor
    page,       \* the events it read last
    upto,       \* the cursor of the last of them
    handled,    \* rows given to the handler so far
    faults      \* (bound) faults so far

subscriber == <<checkpoint, handled>>
drain == <<pc, cursor, page, upto>>
vars == <<database, subscriber, drain, faults>>
-----------------------------------------------------------------------------
Init ==
    /\ DatabaseInit
    /\ checkpoint = NoCursor /\ handled = {} /\ faults = 0
    /\ pc = [d \in Drains |-> "idle"]
    /\ cursor = [d \in Drains |-> NoCursor]
    /\ page = [d \in Drains |-> {}]
    /\ upto = [d \in Drains |-> NoCursor]

Fault == faults < MaxFaults /\ faults' = faults + 1
-----------------------------------------------------------------------------
(* The writers: transactions that may insert rows, or none (any other write   *)
(* of the database takes an id and holds the fence as well).                  *)

Begin ==
    /\ nextXid <= MaxXid
    /\ TakeXid
    /\ UNCHANGED <<nextPos, rows, subscriber, drain, faults>>

\* (mutant) The position is the next after those the writer sees.
Mutant_Insert(x) ==
    /\ nextPos <= MaxRows
    /\ rows' = rows \cup {[tx |-> x, pos |-> Cardinality(Visible) + 1]}
    /\ nextPos' = nextPos + 1
    /\ UNCHANGED <<nextXid, running, subscriber, drain, faults>>

Insert(x) ==
    /\ nextPos <= MaxRows
    /\ rows' = rows \cup {[tx |-> x, pos |-> nextPos]}
    /\ nextPos' = nextPos + 1
    /\ UNCHANGED <<nextXid, running, subscriber, drain, faults>>

CommitWriter(x) == Commit(x) /\ UNCHANGED <<subscriber, drain, faults>>

AbortWriter(x) == Fault /\ Rollback(x) /\ UNCHANGED <<subscriber, drain>>
-----------------------------------------------------------------------------
LoadCheckpoint(d) ==
    /\ pc[d] = "idle"
    /\ cursor' = [cursor EXCEPT ![d] = checkpoint]
    /\ pc' = [pc EXCEPT ![d] = "read"]
    /\ UNCHANGED <<database, subscriber, page, upto, faults>>

ReadBatch(d) ==
    /\ pc[d] = "read"
    /\ \E S \in Pages(FencedAfter(cursor[d])) :
          \/ /\ S = {}
             /\ pc' = [pc EXCEPT ![d] = "idle"]
             /\ UNCHANGED <<page, upto>>
          \/ \E last \in S :
             /\ IsLast(last, S)
             /\ page' = [page EXCEPT ![d] = S]
             /\ upto' = [upto EXCEPT ![d] = CursorOf(last)]
             /\ pc' = [pc EXCEPT ![d] = "handle"]
    /\ UNCHANGED <<database, subscriber, cursor, faults>>

\* (mutant) The checkpoint is saved before the page is handled.
Mutant_Handle(d) ==
    /\ pc[d] = "handle"
    /\ checkpoint' = upto[d]
    /\ handled' = handled
    /\ pc' = [pc EXCEPT ![d] = "save"]
    /\ UNCHANGED <<database, cursor, page, upto, faults>>

Handle(d) ==
    /\ pc[d] = "handle"
    /\ handled' = handled \cup page[d]
    /\ pc' = [pc EXCEPT ![d] = "save"]
    /\ UNCHANGED <<database, checkpoint, cursor, page, upto, faults>>

\* The upsert takes the cursor whatever the row holds.
SaveCheckpoint(d) ==
    /\ pc[d] = "save"
    /\ checkpoint' = upto[d]
    /\ cursor' = [cursor EXCEPT ![d] = upto[d]]
    /\ pc' = [pc EXCEPT ![d] = IF FullPage(page[d]) THEN "read" ELSE "idle"]
    /\ UNCHANGED <<database, handled, page, upto, faults>>

\* The Lambda times out, a query or the handler throws: sendBatch may have sent
\* part of the page.
Dies(d) ==
    /\ pc[d] # "idle"
    /\ Fault
    /\ \E sent \in SUBSET page[d] :
          /\ pc[d] # "handle" => sent = {}
          /\ handled' = handled \cup sent
    /\ pc' = [pc EXCEPT ![d] = "idle"]
    /\ UNCHANGED <<database, checkpoint, cursor, page, upto>>

Work(d) == LoadCheckpoint(d) \/ ReadBatch(d) \/ Handle(d) \/ SaveCheckpoint(d)

Next ==
    \/ Begin
    \/ \E x \in running : Insert(x) \/ CommitWriter(x) \/ AbortWriter(x)
    \/ \E d \in Drains : Work(d) \/ Dies(d)

Spec == Init /\ [][Next]_vars

(* The schedule starts the relay again and again, and a transaction ends: its  *)
(* connection is closed at the latest when its Lambda times out.              *)
FairSpec ==
    /\ Spec
    /\ \A d \in Drains : WF_vars(Work(d))
    /\ \A x \in 1..MaxXid : WF_vars(x \in running /\ CommitWriter(x))
-----------------------------------------------------------------------------
Row == [tx : Nat, pos : Nat]

TypeOK ==
    /\ DatabaseOK /\ rows \subseteq Row
    /\ checkpoint \in Cursor /\ handled \subseteq Row
    /\ pc \in [Drains -> {"idle", "read", "handle", "save"}]
    /\ cursor \in [Drains -> Cursor] /\ upto \in [Drains -> Cursor]
    /\ page \in [Drains -> SUBSET Row]
    /\ faults \in 0..MaxFaults

(* Nothing is skipped: every event at or before the checkpoint was handled,    *)
(* also one whose transaction took its id or its position early and           *)
(* committed late, and wherever a drain died.                                 *)
NothingSkipped == UpTo(checkpoint) \subseteq handled

(* The cursor PgChangeFeed.res calls stable forever (PgLog).                  *)
CursorsAreStable == [][FencedPrefixGrows]_vars

(* Every committed event is handed to the handler in the end, through drains   *)
(* that die, overlap and set the checkpoint back.                             *)
EveryEventHandled ==
    \A p \in 1..MaxRows :
        (\E r \in Visible : r.pos = p) ~> (\E r \in handled : r.pos = p)
-----------------------------------------------------------------------------
(* The inductive part.  A settled cursor can never be overtaken; what lies      *)
(* before it is handled, or is in the page in hand.                            *)
FeedInv ==
    /\ Settled(checkpoint) /\ UpTo(checkpoint) \subseteq handled
    /\ \A d \in Drains :
        /\ pc[d] = "read" => Settled(cursor[d]) /\ UpTo(cursor[d]) \subseteq handled
        /\ pc[d] \in {"handle", "save"} =>
              Settled(upto[d]) /\ UpTo(upto[d]) \subseteq handled \cup page[d]
        /\ pc[d] = "handle" => page[d] \subseteq Fenced
        /\ pc[d] = "save" => page[d] \subseteq handled
    /\ handled \subseteq Fenced

IndInv == TypeOK /\ FeedInv
=============================================================================
