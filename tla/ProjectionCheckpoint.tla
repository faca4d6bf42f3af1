------------------------ MODULE ProjectionCheckpoint ------------------------
(***************************************************************************)
(* How the local platform keeps its SQLite read models in step with its       *)
(* event logs (ProjectionCheckpoint.res, ProjectionPending.res, the fan-out    *)
(* of LocalBus.res and LocalEventCollectorChannel.res).  While a session runs  *)
(* an append is published to the subscribed projections, and when they are     *)
(* through a hook lifts the persisted checkpoints to a low watermark.  A new   *)
(* session replays to every projection what lies between its checkpoint and    *)
(* the rows that were there when the session began.                            *)
(*                                                                             *)
(* The process is one event loop: an action is what runs between two awaits.   *)
(***************************************************************************)
EXTENDS Integers, Sequences, Functions

CONSTANTS
    Handlers,   \* projections, by collector name
    Axes,       \* of the logs: event_log ("Aggregate") and dcb_event ("Dcb")
    Rank,       \* the order in which the catch-up comes to each handler and axis
    MaxRows,    \* bound: rows of each log
    MaxBatch,   \* bound: events of one append
    MaxCrashes, \* bound: sessions that end
    MaxThrows   \* bound: handlers and publishes that throw

Slots == Handlers \X Axes
NoSlot == "none"
NoRow == -1 \* projection_checkpoint has no row

ASSUME BoundsAreNaturals ==
    /\ MaxRows \in [Axes -> Nat] /\ MaxBatch \in Nat
    /\ MaxCrashes \in Nat /\ MaxThrows \in Nat
ASSUME AxesAreTheLogs == Axes \subseteq {"Aggregate", "Dcb"}
ASSUME RankIsAnOrder ==
    /\ Rank \in [Slots -> Nat]
    /\ \A s, t \in Slots : Rank[s] = Rank[t] => s = t

VARIABLES
    \* in the database
    rows,        \* [Axes -> Nat] highest rowid
    seeded,      \* [Axes -> SUBSET Nat] rows written by appendStream, never published
    checkpoint,  \* [Slots -> Nat or NoRow]
    handled,     \* [Slots -> SUBSET Nat] events the handler took to its read model
    \* in the process
    session,     \* the handlers registered in this session
    bound,       \* [Axes -> Nat] rows when the session began
    pending,     \* [Axes -> SUBSET Nat] appended and not resolved
    unsent,      \* [Axes -> SUBSET Nat] appended and not handed to the bus
    publishing,  \* batches whose publish has not ended
    queue,       \* [Slots -> Seq(Nat)] what the bus holds for each subscriber
    subscribed,  \* slots whose drain fiber lives
    lost,        \* [Slots -> SUBSET Nat] deliveries whose done_ will never run
    phase,       \* of the catch-up
    due,         \* slots it has not come to
    slot, at,    \* the slot it is at, and the last position it delivered there
    \* observed
    skipped,     \* [Slots -> SUBSET Nat] events given up in a catch-up, with a warning
    disturbed,   \* what has put a checkpoint in doubt so far
    crashes, throws

database == <<rows, seeded, checkpoint, handled>>
log == <<rows, seeded>>
bus == <<unsent, publishing, queue, subscribed, lost>>
catchup == <<phase, due, slot, at>>
start == <<session, bound>>
observed == <<skipped, disturbed, crashes, throws>>
vars == <<database, start, pending, bus, catchup, observed>>

RowIds == UNION {1 .. MaxRows[a] : a \in Axes}
Marks == {0} \cup RowIds
Batch == [axis : Axes, from : RowIds, to : RowIds]
Positions(b) == b.from .. b.to

Present == session \X Axes
Position(s) == IF checkpoint[s] = NoRow THEN 0 ELSE checkpoint[s]
-----------------------------------------------------------------------------
\* The first pending position is lowest; the watermark lies just before it.
Mutant_IsWatermark(a, open, w) ==
    IF open = {} THEN w = rows[a]
    ELSE \E lowest \in open : w = lowest /\ \A p \in open : lowest <= p

IsWatermark(a, open, w) ==
    IF open = {} THEN w = rows[a]
    ELSE \E lowest \in open : w = lowest - 1 /\ \A p \in open : lowest <= p

\* Every row of the table that is behind goes to the watermark of its axis.
Lifted(s, w) == checkpoint[s] # NoRow /\ checkpoint[s] < w[s[2]]
-----------------------------------------------------------------------------
Init ==
    /\ rows = [a \in Axes |-> 0]
    /\ seeded = [a \in Axes |-> {}]
    /\ checkpoint = [s \in Slots |-> NoRow]
    /\ handled = [s \in Slots |-> {}]
    /\ skipped = [s \in Slots |-> {}]
    /\ session \in SUBSET Handlers /\ subscribed = Present
    /\ bound = rows
    /\ pending = [a \in Axes |-> {}]
    /\ unsent = [a \in Axes |-> {}] /\ publishing = {}
    /\ queue = [s \in Slots |-> <<>>]
    /\ lost = [s \in Slots |-> {}]
    /\ phase = "starting" /\ due = {} /\ slot = NoSlot /\ at = 0
    /\ disturbed = {} /\ crashes = 0 /\ throws = 0
-----------------------------------------------------------------------------
(* Appends.  The batch is pending from its commit on; the bulk path of the     *)
(* aggregate log is not tracked, that of the DCB log is never resolved.        *)

Insert(a, n) ==
    /\ rows[a] + n <= MaxRows[a]
    /\ rows' = [rows EXCEPT ![a] = @ + n]

\* (mutant) Positions counted from the last row, not behind it.
Mutant_New(a, n) == rows[a] .. rows[a] + n - 1

New(a, n) == rows[a] + 1 .. rows[a] + n

\* (mutant) The batch is not tracked.
Mutant_Track(a, n) == UNCHANGED pending

Track(a, n) == pending' = [pending EXCEPT ![a] = @ \cup New(a, n)]

AppendTracked(a, n) ==
    /\ Insert(a, n) /\ Track(a, n)
    /\ unsent' = [unsent EXCEPT ![a] = @ \cup New(a, n)]
    /\ publishing' = publishing \cup {[axis |-> a, from |-> rows[a] + 1, to |-> rows[a] + n]}
    /\ UNCHANGED <<seeded, checkpoint, handled, start, queue, subscribed, lost, catchup,
                   observed>>

AppendStream(a, n) ==
    /\ Insert(a, n)
    /\ seeded' = [seeded EXCEPT ![a] = @ \cup New(a, n)]
    /\ IF a = "Dcb" THEN Track(a, n) ELSE UNCHANGED pending
    /\ UNCHANGED <<checkpoint, handled, start, bus, catchup, observed>>
-----------------------------------------------------------------------------
(* The bus.  The events of a batch are published side by side: publishEvent     *)
(* puts its event into the queue of every subscriber and returns when each has  *)
(* run done_.                                                                   *)

Waiting(s) == Range(queue[s])
Owed(s) == Waiting(s) \cup lost[s]

\* (mutant) A dead drain's subscription still counts.
Mutant_Subscribers(a) == {s \in Slots : s[2] = a}

Subscribers(a) == {s \in subscribed : s[2] = a}

PublishEvent(a, p) ==
    /\ p \in unsent[a]
    /\ unsent' = [unsent EXCEPT ![a] = @ \ {p}]
    /\ queue' = [s \in Slots |-> IF s \in Subscribers(a) THEN Append(queue[s], p)
                                ELSE queue[s]]
    /\ UNCHANGED <<database, start, pending, publishing, subscribed, lost, catchup, observed>>

\* The keys of the event cannot be fetched and no subscriber gets it.  The publish
\* of an aggregate batch rejects and its hook is not run; that of a DCB batch logs
\* the error and goes on.
PublishFails(a, p) ==
    /\ throws < MaxThrows /\ throws' = throws + 1
    /\ p \in unsent[a]
    /\ unsent' = [unsent EXCEPT ![a] = @ \ {p}]
    /\ IF a = "Aggregate"
       THEN /\ publishing' = {b \in publishing : ~(b.axis = a /\ p \in Positions(b))}
            /\ UNCHANGED disturbed
       ELSE disturbed' = disturbed \cup {"withheld"} /\ UNCHANGED publishing
    /\ UNCHANGED <<database, start, pending, queue, subscribed, lost, catchup, skipped, crashes>>

Handle(s) ==
    /\ s \in subscribed /\ queue[s] # <<>>
    /\ handled' = [handled EXCEPT ![s] = @ \cup {Head(queue[s])}]
    /\ queue' = [queue EXCEPT ![s] = Tail(@)]
    /\ UNCHANGED <<log, checkpoint, start, pending, unsent, publishing, subscribed, lost,
                   catchup, observed>>

\* An earlier event of the axis has yet to reach the bus.
Outruns(s) == \E p \in unsent[s[2]] : p < Head(queue[s])

\* A rejection of the handler is a defect of the fiber that drains the queue:
\* done_ is not run, the subscription is closed and what it holds is gone.
Throws(s) ==
    /\ throws < MaxThrows /\ throws' = throws + 1
    /\ s \in subscribed /\ queue[s] # <<>>
    /\ subscribed' = subscribed \ {s}
    /\ lost' = [lost EXCEPT ![s] = @ \cup Waiting(s)]
    /\ queue' = [queue EXCEPT ![s] = <<>>]
    /\ disturbed' = IF Outruns(s) THEN disturbed \cup {"outrun"} ELSE disturbed
    /\ UNCHANGED <<database, start, pending, unsent, publishing, catchup, skipped, crashes>>

Answered(b) ==
    /\ unsent[b.axis] \cap Positions(b) = {}
    /\ \A s \in Slots : s[2] = b.axis => Owed(s) \cap Positions(b) = {}

\* The catch-up has not come to the slot, or is at it.
Awaits(s) == phase = "starting" \/ s \in due \/ s = slot

\* The slots whose missed events the catch-up has not all delivered.
Behind == {s \in Present : Awaits(s) /\ Position(s) < bound[s[2]]}

Disturbance(w) ==
    (IF \E s \in Slots \ Present : Lifted(s, w) THEN {"absent"} ELSE {})
    \cup (IF \E s \in Behind : Lifted(s, w) THEN {"overtaken"} ELSE {})

CompletePublished(b) ==
    /\ b \in publishing /\ Answered(b)
    /\ publishing' = publishing \ {b}
    /\ pending' = [pending EXCEPT ![b.axis] = @ \ Positions(b)]
    /\ \E w \in [Axes -> Marks] :
          /\ \A a \in Axes : IsWatermark(a, pending'[a], w[a])
          /\ checkpoint' = [s \in Slots |-> IF Lifted(s, w) THEN w[s[2]] ELSE checkpoint[s]]
          /\ disturbed' = disturbed \cup Disturbance(w)
    /\ UNCHANGED <<log, handled, start, unsent, queue, subscribed, lost, catchup,
                   skipped, crashes, throws>>
-----------------------------------------------------------------------------
(* The catch-up.  Reading a checkpoint and the rows behind it, and going on to  *)
(* the next slot with any, is one step: it awaits nothing but the handlers.     *)

\* (mutant) The upper bound is exclusive.
Mutant_Lagging(S) == {s \in S : Position(s) + 1 < bound[s[2]]}

Lagging(S) == {s \in S : Position(s) < bound[s[2]]}

ComeTo(S) ==
    \E s \in Lagging(S) :
        /\ \A t \in Lagging(S) : Rank[s] <= Rank[t]
        /\ phase' = "replaying" /\ slot' = s /\ at' = Position(s)
        /\ due' = {t \in S : Rank[t] > Rank[s]}
        /\ UNCHANGED checkpoint

Final(a, w) == IF w > bound[a] THEN w ELSE bound[a]

Stamp(S) ==
    /\ Lagging(S) = {}
    /\ phase' = "done" /\ slot' = NoSlot /\ at' = 0 /\ due' = {}
    /\ \E w \in [Axes -> Marks] :
          /\ \A a \in Axes : IsWatermark(a, pending[a], w[a])
          /\ checkpoint' = [s \in Slots |->
                IF s \in Present /\ Final(s[2], w[s[2]]) > checkpoint[s]
                THEN Final(s[2], w[s[2]]) ELSE checkpoint[s]]

GoOn(S) == ComeTo(S) \/ Stamp(S)

StartupCatchup ==
    /\ phase = "starting"
    /\ GoOn(Present)
    /\ UNCHANGED <<log, handled, start, pending, bus, observed>>

\* The handler takes the next missed event, or throws and the event is skipped,
\* as an unreadable row is.
DeliverMissed ==
    \/ /\ handled' = [handled EXCEPT ![slot] = @ \cup {at + 1}]
       /\ UNCHANGED <<skipped, throws>>
    \/ /\ throws < MaxThrows /\ throws' = throws + 1
       /\ skipped' = [skipped EXCEPT ![slot] = @ \cup {at + 1}]
       /\ UNCHANGED handled

Replay ==
    /\ phase = "replaying"
    /\ DeliverMissed
    /\ IF at + 1 < bound[slot[2]]
       THEN at' = at + 1 /\ UNCHANGED <<phase, due, slot, checkpoint>>
       ELSE GoOn(due)
    /\ UNCHANGED <<log, start, pending, bus, disturbed, crashes>>
-----------------------------------------------------------------------------
\* The process ends and starts again, with these or other projections.
Restart(S) ==
    /\ crashes < MaxCrashes /\ crashes' = crashes + 1
    /\ session' = S /\ subscribed' = S \X Axes
    /\ bound' = rows
    /\ pending' = [a \in Axes |-> {}]
    /\ unsent' = [a \in Axes |-> {}] /\ publishing' = {}
    /\ queue' = [s \in Slots |-> <<>>]
    /\ lost' = [s \in Slots |-> {}]
    /\ phase' = "starting" /\ due' = {} /\ slot' = NoSlot /\ at' = 0
    /\ UNCHANGED <<database, skipped, disturbed, throws>>

Next ==
    \/ \E a \in Axes, n \in 1 .. MaxBatch : AppendTracked(a, n) \/ AppendStream(a, n)
    \/ \E a \in Axes : \E p \in unsent[a] : PublishEvent(a, p) \/ PublishFails(a, p)
    \/ \E s \in Slots : Handle(s) \/ Throws(s)
    \/ \E b \in publishing : CompletePublished(b)
    \/ StartupCatchup \/ Replay
    \/ \E S \in SUBSET Handlers : Restart(S)

Spec == Init /\ [][Next]_vars

(* The event loop gets round to every promise that is settled and to every      *)
(* fiber that can run; a handler that never answers is not modelled.            *)
FairSpec ==
    /\ Spec
    /\ WF_vars(StartupCatchup) /\ WF_vars(Replay)
    /\ \A s \in Slots : WF_vars(Handle(s))
    /\ \A a \in Axes, p \in RowIds : WF_vars(PublishEvent(a, p))
    /\ \A b \in Batch : WF_vars(CompletePublished(b))
-----------------------------------------------------------------------------
TypeOK ==
    /\ rows \in [Axes -> Marks] /\ bound \in [Axes -> Marks]
    /\ seeded \in [Axes -> SUBSET RowIds] /\ pending \in [Axes -> SUBSET RowIds]
    /\ checkpoint \in [Slots -> {NoRow} \cup Marks]
    /\ handled \in [Slots -> SUBSET RowIds] /\ skipped \in [Slots -> SUBSET RowIds]
    /\ session \subseteq Handlers
    /\ unsent \in [Axes -> SUBSET RowIds] /\ publishing \subseteq Batch
    /\ queue \in [Slots -> Seq(RowIds)] /\ lost \in [Slots -> SUBSET RowIds]
    /\ subscribed \subseteq Present
    /\ phase \in {"starting", "replaying", "done"}
    /\ due \subseteq Present /\ at \in Marks
    /\ slot \in IF phase = "replaying" THEN Present ELSE {NoSlot}
    /\ disturbed \subseteq {"absent", "overtaken", "outrun", "withheld"}
    /\ crashes \in 0 .. MaxCrashes /\ throws \in 0 .. MaxThrows

\* Rows of the aggregate log's bulk path are not for the projections.
Untracked(a) == IF a = "Aggregate" THEN seeded[a] ELSE {}
Settled(s) == handled[s] \cup skipped[s] \cup Untracked(s[2])

(* The checkpoint of a projection covers only events its read model has, or     *)
(* that were given up with a warning: what ProjectionCheckpoint.res calls the   *)
(* highest position provably fully projected.                                  *)
Honest == \A s \in Slots : 1 .. checkpoint[s] \subseteq Settled(s)

(* It is so through crashes, publishes that complete out of order, bulk seeds    *)
(* and handlers that throw, unless one of four things has happened.             *)
HonestUndisturbed == disturbed = {} => Honest

(* What the watermark may be trusted for.  A position is pending as long as some     *)
(* subscriber may still have to take it.                                            *)
UnresolvedIsPending ==
    /\ \A a \in Axes : unsent[a] \subseteq pending[a] /\ pending[a] \subseteq 1 .. rows[a]
    /\ \A s \in Slots : Owed(s) \subseteq pending[s[2]] /\ Waiting(s) \cap unsent[s[2]] = {}

\* An event the slot will not get stays behind it in the log, and pending.
LostBefore(s, p) == \E l \in lost[s] : l < p

\* What a batch still in publication has brought or will bring to the slot.
Carries(s, b) ==
    \A p \in Positions(b) :
        p \in unsent[s[2]] \/ p \in Owed(s) \/ p \in handled[s] \/ LostBefore(s, p)

AllCarried(s) == \A b \in publishing : b.axis = s[2] => Carries(s, b)

\* A slot whose drain has died misses only events behind one it has lost.
Deaf(s) ==
    s \notin subscribed =>
        lost[s] # {} /\ \A p \in unsent[s[2]] : LostBefore(s, p)

\* An event of the session that is no longer pending is with the read model, or a
\* pending one before it keeps the watermark down.
Accounted(s, p) == p \in pending[s[2]] \/ p \in Settled(s) \/ LostBefore(s, p)

AllAccounted(s) == \A p \in bound[s[2]] + 1 .. rows[s[2]] : Accounted(s, p)

\* Events from before the session that the catch-up is through with.
CaughtUp(s) ==
    /\ ~Awaits(s) => 1 .. bound[s[2]] \subseteq Settled(s)
    /\ phase = "replaying" /\ s = slot => 1 .. at \subseteq Settled(s)

(* What a session knows of each of its projections.                                 *)
SlotInv(s) == AllAccounted(s) /\ AllCarried(s) /\ Deaf(s) /\ CaughtUp(s)

\* The catch-up is at an event the session found.
AtMissedEvent == phase = "replaying" => at < bound[slot[2]]

(* The inductive invariant: until something disturbs it, every event of a log is      *)
(* pending, or on its way or taken, or behind one that was lost.                     *)
IndInv ==
    /\ TypeOK /\ UnresolvedIsPending /\ AtMissedEvent
    /\ disturbed = {} => Honest /\ \A s \in Present : SlotInv(s)

(* Claimed of each of the four, and not so: a publish that completes before the  *)
(* catch-up has come to a projection, a session without a projection that has a   *)
(* checkpoint, a handler that throws on an event that came to the bus before an   *)
(* earlier one, a DCB event whose keys could not be fetched.                     *)
HonestDuringCatchup == disturbed \subseteq {"overtaken"} => Honest
HonestForAbsent == disturbed \subseteq {"absent"} => Honest
HonestDespiteThrow == disturbed \subseteq {"outrun"} => Honest
HonestDespiteFailure == disturbed \subseteq {"withheld"} => Honest

(* What a session finds in the logs reaches every projection of the session     *)
(* that had missed it, whatever the session itself appends and publishes.       *)
MissedEventsReplayed ==
    \A s \in Slots : \A p \in RowIds :
        (s \in Present /\ p <= bound[s[2]])
            ~> (p \in Settled(s) \/ s \notin Present \/ disturbed # {})

(* A publish returns, so the command whose events it publishes is answered.     *)
PublishEnds ==
    \A b \in Batch :
        b \in publishing ~> b \notin publishing

(* It does whatever else happens, unless a handler threw on one of its events or   *)
(* with one behind it in its queue: nobody waits for a projection that is gone.     *)
PublishEndsUnlessLost ==
    \A b \in Batch :
        b \in publishing
            ~> \/ b \notin publishing
               \/ \E s \in Slots : s[2] = b.axis /\ lost[s] \cap Positions(b) # {}
=============================================================================
