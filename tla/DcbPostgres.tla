---------------------------- MODULE DcbPostgres ----------------------------
(***************************************************************************)
(* Conditional appends to the Postgres DCB log: state change slices read      *)
(* behind the xmin fence (DcbEventLogStorage_Postgres_Ops.res), decide, and   *)
(* append through dcb_append (PgSchema.res), which locks the tags involved,    *)
(* checks the condition in a fresh snapshot, inserts, and commits.            *)
(*                                                                         *)
(* A decision is represented by the rows it was made on.                      *)
(***************************************************************************)
EXTENDS DcbQuery, PgLog

CONSTANTS
    Writers,     \* commands being decided, each in its own invocation
    QueryOf,     \* the query each reads and puts in its append condition
    EventsOf,    \* the events it decides
    Conditional, \* writers that append with a condition
    Hash(_),     \* hashtextextended of a tag: its lock key
    Strategy,    \* lockStrategy: "advisory" or "rows"
    Free,        \* no holder
    MaxRetries,  \* maxRetries of the slices
    MaxXid,      \* bound: ids given to unrelated transactions
    MaxFaults    \* bound: failed appends

ASSUME WritersAppend ==
    /\ QueryOf \in [Writers -> Query] /\ EventsOf \in [Writers -> Seq(Event) \ {<<>>}]
    /\ Conditional \subseteq Writers /\ Free \notin Writers
ASSUME HashIsNumber == \A t \in Tag : Hash(t) \in Nat
ASSUME StrategyKnown == Strategy \in {"advisory", "rows"}
ASSUME BoundsAreNaturals == MaxRetries \in Nat /\ MaxXid \in Nat /\ MaxFaults \in Nat

VARIABLES
    lock,    \* who holds each lock key: the advisory lock, or the dcb_scope row
    scope,   \* committed rows of dcb_scope ("rows")
    pc,      \* where each writer stands
    saw,     \* the rows its decision was made on, by cursor
    after,   \* its head: the cursor of the last row it read
    missed,  \* (history) matching committed rows its read left behind the fence
    xid,     \* the id of its transaction, 0 before it has one
    todo,    \* lock keys still to take
    retries, \* attempts left
    faults   \* (bound) failures so far

writers == <<pc, saw, after, missed, xid, todo, retries>>
vars == <<database, lock, scope, writers, faults>>
-----------------------------------------------------------------------------
\* (mutant) The tags of the written events take no lock.
Mutant_TagsOf(w) == UNION {clause.tags : clause \in QueryOf[w]}

\* Every tag of the written events and of the condition.
TagsOf(w) ==
    UNION ({EventsOf[w][i].tags : i \in DOMAIN EventsOf[w]}
           \cup IF w \in Conditional THEN {clause.tags : clause \in QueryOf[w]} ELSE {})

LockKeys(w) == {Hash(t) : t \in TagsOf(w)}

AllKeys == UNION {LockKeys(w) : w \in Writers}

Matching(w, S) == {r \in S : Matches(r.event, QueryOf[w])}

Cursors(S) == {CursorOf(r) : r \in S}

Init ==
    /\ DatabaseInit
    /\ lock = [k \in AllKeys |-> Free] /\ scope = {}
    /\ pc = [w \in Writers |-> "read"]
    /\ saw = [w \in Writers |-> {}]
    /\ after = [w \in Writers |-> NoCursor]
    /\ missed = [w \in Writers |-> {}]
    /\ xid = [w \in Writers |-> 0]
    /\ todo = [w \in Writers |-> {}]
    /\ retries = [w \in Writers |-> MaxRetries]
    /\ faults = 0

Fault == faults < MaxFaults /\ faults' = faults + 1
-----------------------------------------------------------------------------
(* readStream: page after page of the matching rows behind the fence, each     *)
(* page a statement with a snapshot of its own; then dcb_append is called.     *)

FirstStep(w) ==
    IF LockKeys(w) = {} THEN "check" ELSE IF Strategy = "rows" THEN "scope" ELSE "lock"

ReadPage(w) ==
    /\ pc[w] = "read"
    /\ \E S \in Pages(Matching(w, FencedAfter(after[w]))) :
          /\ saw' = [saw EXCEPT ![w] = @ \cup Cursors(S)]
          /\ missed' = [missed EXCEPT ![w] = Cursors(Matching(w, Visible \ Fenced))]
          /\ \/ S = {} /\ UNCHANGED after
             \/ \E last \in S :
                   IsLast(last, S) /\ after' = [after EXCEPT ![w] = CursorOf(last)]
          /\ \/ FullPage(S) /\ UNCHANGED <<pc, todo>>
             \/ /\ ~FullPage(S)
                /\ pc' = [pc EXCEPT ![w] = FirstStep(w)]
                /\ todo' = [todo EXCEPT ![w] = LockKeys(w)]
    /\ UNCHANGED <<database, lock, scope, xid, retries, faults>>
-----------------------------------------------------------------------------
(* dcb_append, step 2.  Keys are taken in sorted order.                       *)

\* (mutant) Keys are taken in any order.
Mutant_IsNext(w, k) == k \in todo[w]

IsNext(w, k) == k \in todo[w] /\ \A j \in todo[w] : k <= j

\* A transaction's first write gives it its id: the insert into dcb_event, or
\* with "rows" already the first lock.
NeedXid(w) ==
    IF xid[w] = 0 THEN TakeXid /\ xid' = [xid EXCEPT ![w] = nextXid]
    ELSE UNCHANGED <<nextXid, running, xid>>

\* INSERT INTO dcb_scope .. ON CONFLICT DO NOTHING waits for another transaction
\* that inserted the key and has not ended.
InsertScope(w, k) ==
    /\ pc[w] = "scope" /\ IsNext(w, k)
    /\ \/ k \in scope /\ UNCHANGED <<lock, nextXid, running, xid>>
       \/ k \notin scope /\ lock[k] = Free /\ lock' = [lock EXCEPT ![k] = w] /\ NeedXid(w)
    /\ IF todo[w] = {k}
       THEN /\ pc' = [pc EXCEPT ![w] = "lock"]
            /\ todo' = [todo EXCEPT ![w] = LockKeys(w)]
       ELSE todo' = [todo EXCEPT ![w] = @ \ {k}] /\ UNCHANGED pc
    /\ UNCHANGED <<nextPos, rows, scope, saw, after, missed, retries, faults>>

\* pg_advisory_xact_lock, or SELECT .. FOR UPDATE of the dcb_scope row.
AcquireLock(w, k) ==
    /\ pc[w] = "lock" /\ IsNext(w, k)
    /\ lock[k] \in {Free, w}
    /\ lock' = [lock EXCEPT ![k] = w]
    /\ IF Strategy = "rows" THEN NeedXid(w) ELSE UNCHANGED <<nextXid, running, xid>>
    /\ todo' = [todo EXCEPT ![w] = @ \ {k}]
    /\ pc' = [pc EXCEPT ![w] = IF todo[w] = {k} THEN "check" ELSE "lock"]
    /\ UNCHANGED <<nextPos, rows, scope, saw, after, missed, retries, faults>>
-----------------------------------------------------------------------------
(* dcb_append, steps 3 and 4, and the end of its transaction.                 *)

Release(w) == lock' = [k \in AllKeys |-> IF lock[k] = w THEN Free ELSE lock[k]]

\* (mutant) One retry too many.
Mutant_MayRetry(w) == retries[w] >= 0

MayRetry(w) == retries[w] > 0

\* Conflict and StorageFailure alike: while it has retries the slice reads what
\* has come after its head.
RollbackAndRetry(w) ==
    /\ Rollback(xid[w]) /\ Release(w)
    /\ xid' = [xid EXCEPT ![w] = 0]
    /\ todo' = [todo EXCEPT ![w] = {}]
    /\ IF MayRetry(w)
       THEN pc' = [pc EXCEPT ![w] = "read"] /\ retries' = [retries EXCEPT ![w] = @ - 1]
       ELSE pc' = [pc EXCEPT ![w] = "failed"] /\ UNCHANGED retries
    /\ UNCHANGED <<scope, saw, after, missed>>

\* (mutant) The check reads behind the fence, as reads do.
Mutant_Conflicting(w) == {r \in Matching(w, Fenced) : Precedes(after[w], r)}

\* The check is not fenced: it sees every committed row after the head.
Conflicting(w) == {r \in Matching(w, Visible) : Precedes(after[w], r)}

Conflict(w) ==
    /\ pc[w] = "check" /\ w \in Conditional /\ Conflicting(w) # {}
    /\ RollbackAndRetry(w)
    /\ UNCHANGED faults

CheckPasses(w) ==
    /\ pc[w] = "check" /\ (w \in Conditional => Conflicting(w) = {})
    /\ pc' = [pc EXCEPT ![w] = "insert"]
    /\ UNCHANGED <<database, lock, scope, saw, after, missed, xid, todo, retries, faults>>

\* The rows a transaction x inserts, in array order.
NewRows(w, x) ==
    {[tx |-> x, pos |-> nextPos + i - 1, event |-> EventsOf[w][i], by |-> w, saw |-> saw[w]] :
        i \in DOMAIN EventsOf[w]}

InsertEvents(w) ==
    /\ pc[w] = "insert"
    /\ NeedXid(w)
    /\ rows' = rows \cup NewRows(w, xid'[w])
    /\ nextPos' = nextPos + Len(EventsOf[w])
    /\ pc' = [pc EXCEPT ![w] = "commit"]
    /\ UNCHANGED <<lock, scope, saw, after, missed, todo, retries, faults>>

\* The locks are released once the rows are visible.
CommitAppend(w) ==
    /\ pc[w] = "commit"
    /\ Commit(xid[w]) /\ Release(w)
    /\ scope' = IF Strategy = "rows" THEN scope \cup LockKeys(w) ELSE scope
    /\ pc' = [pc EXCEPT ![w] = "done"]
    /\ xid' = [xid EXCEPT ![w] = 0]
    /\ UNCHANGED <<saw, after, missed, todo, retries, faults>>

\* The connection or the statement fails and the transaction is rolled back.
AppendFails(w) ==
    /\ pc[w] \in {"scope", "lock", "check", "insert", "commit"}
    /\ Fault
    /\ RollbackAndRetry(w)
-----------------------------------------------------------------------------
(* Any other transaction of the database takes an id and holds the fence.      *)
OtherBegins ==
    /\ nextXid <= MaxXid
    /\ TakeXid
    /\ UNCHANGED <<nextPos, rows, lock, scope, writers, faults>>

OtherEnds(x) ==
    /\ x \in running \ {xid[w] : w \in Writers}
    /\ Commit(x)
    /\ UNCHANGED <<lock, scope, writers, faults>>

Step(w) ==
    \/ ReadPage(w)
    \/ \E k \in todo[w] : InsertScope(w, k) \/ AcquireLock(w, k)
    \/ Conflict(w) \/ CheckPasses(w) \/ InsertEvents(w) \/ CommitAppend(w)

Next ==
    \/ \E w \in Writers : Step(w) \/ AppendFails(w)
    \/ OtherBegins
    \/ \E x \in running : OtherEnds(x)

Spec == Init /\ [][Next]_vars

(* A Lambda runs its invocation to the end, a waiting lock request is granted   *)
(* once the key is free, and unrelated transactions end.                       *)
FairSpec ==
    /\ Spec
    /\ \A w \in Writers : WF_vars(Step(w))
    /\ \A x \in 1..MaxXid : WF_vars(OtherEnds(x))
-----------------------------------------------------------------------------
Row == [tx : Nat, pos : Nat, event : Event, by : Writers, saw : SUBSET Cursor]

TypeOK ==
    /\ DatabaseOK /\ rows \subseteq Row
    /\ lock \in [AllKeys -> Writers \cup {Free}] /\ scope \subseteq AllKeys
    /\ pc \in [Writers ->
                 {"read", "scope", "lock", "check", "insert", "commit", "done", "failed"}]
    /\ saw \in [Writers -> SUBSET Cursor] /\ after \in [Writers -> Cursor]
    /\ missed \in [Writers -> SUBSET Cursor]
    /\ xid \in [Writers -> Nat] /\ todo \in [Writers -> SUBSET AllKeys]
    /\ retries \in [Writers -> 0..MaxRetries] /\ faults \in 0..MaxFaults

(* READ COMMITTED is race-free under the locks, as PgSchema.res says: from the  *)
(* check of a condition to the commit, nothing that matches it becomes visible  *)
(* but what the decision was made on.                                         *)
NoneSlipsIn ==
    \A w \in Conditional :
        pc[w] \in {"insert", "commit"} => Cursors(Matching(w, Visible)) = saw[w]

(* Read, decide, append is exact end to end: every event was decided on the     *)
(* matching events that precede it in the order readers see.                    *)
PastOf(r) == Cursors(Matching(r.by, {q \in rows : q.tx # r.tx /\ Precedes(q, r)}))

DecidedOnItsPast == \A r \in Visible : r.by \in Conditional => r.saw = PastOf(r)

(* A lagging read heals: an append is refused on a retry only for an event       *)
(* committed since that retry read the log.                                    *)
LagSelfHeals ==
    [][\A w \in Writers :
          Conflict(w) /\ retries[w] < MaxRetries
              => ~(Cursors(Conflicting(w)) \subseteq missed[w])]_vars

\* A writer that cannot go on before another has ended its transaction.
WaitsFor(w, v) ==
    /\ pc[w] \in {"scope", "lock"} /\ v # w
    /\ \E k \in todo[w] :
          IsNext(w, k) /\ lock[k] = v /\ (pc[w] = "scope" => k \notin scope)

(* Appends never wait for one another in a circle, though with "rows" a writer    *)
(* that has inserted a high key goes on to lock the low ones: among any writers   *)
(* there is one that waits for none of them.                                     *)
NoCircularWait ==
    \A S \in SUBSET Writers :
        S # {} /\ IsFiniteSet(S) => \E w \in S : \A v \in S : ~WaitsFor(w, v)

(* Sorted keys cannot deadlock: every append is decided.                        *)
AppendsEnd == \A w \in Writers : <>(pc[w] \in {"done", "failed"})
-----------------------------------------------------------------------------
(* The log as its callers see it.                                             *)

RelevantTo(w, e) == Matches(e, QueryOf[w])

Stored == {[at |-> CursorOf(r), event |-> r.event, by |-> r.by] : r \in Visible}

Status == [w \in Writers |-> IF pc[w] \in {"done", "failed"} THEN pc[w] ELSE "open"]

Contract == INSTANCE ConditionalAppend WITH
                log <- Stored, known <- saw, status <- Status, Relevant <- RelevantTo

(* dcb_append keeps the contract of a DCB log: the events of a command appear      *)
(* together, in one step, and only if everything its condition asks for is among   *)
(* what it has read.                                                          *)
KeepsContract == Contract!Spec
-----------------------------------------------------------------------------
(* The inductive part.                                                       *)

(* No condition or clause of a condition is without a tag.                     *)
Tagged ==
    \A w \in Conditional : QueryOf[w] # {} /\ \A clause \in QueryOf[w] : clause.tags # {}

\* The lock keys a writer has taken so far stay its own.
LocksHeld ==
    \A w \in Writers :
        /\ pc[w] = "lock" => \A k \in LockKeys(w) \ todo[w] : lock[k] = w
        /\ pc[w] \in {"check", "insert", "commit"} => \A k \in LockKeys(w) : lock[k] = w

\* Keys are taken from the lowest up; a key inserted on the way and not locked yet
\* is not in dcb_scope for anyone else.
KeysOf(w) ==
    /\ \A k \in AllKeys : lock[k] = w =>
          k \in LockKeys(w) /\ pc[w] \in {"scope", "lock", "check", "insert", "commit"}
    /\ pc[w] \in {"scope", "lock"} =>
          /\ todo[w] \subseteq LockKeys(w)
          /\ \A j \in LockKeys(w) \ todo[w], k \in todo[w] : j < k
    /\ pc[w] = "scope" =>
          /\ \A k \in LockKeys(w) \ todo[w] : k \in scope \/ lock[k] = w
          /\ \A k \in AllKeys : lock[k] = w => k \notin scope /\ k \notin todo[w]
    /\ pc[w] = "lock" =>
          /\ Strategy = "rows" => \A k \in LockKeys(w) : k \in scope \/ lock[k] = w
          /\ \A k \in todo[w] : lock[k] = w => Strategy = "rows" /\ k \notin scope

KeysInOrder == \A w \in Writers : KeysOf(w)

\* A writer's id is that of its running transaction; with advisory locks it has
\* none before it inserts.
XidsHeld ==
    \A w \in Writers :
        /\ xid[w] # 0 => xid[w] \in running /\ pc[w] \in {"scope", "lock", "check", "insert", "commit"}
        /\ xid[w] # 0 => \A v \in Writers : xid[v] = xid[w] => v = w
        /\ pc[w] = "commit" => xid[w] # 0
        /\ xid[w] # 0 => pc[w] = "commit" \/ Strategy = "rows"
        /\ pc[w] = "scope" => Strategy = "rows"

\* An uncommitted row is one of a writer about to commit.
RowsKnown ==
    \A r \in rows :
        /\ r.tx \in running => pc[r.by] = "commit" /\ xid[r.by] = r.tx
        /\ \E i \in DOMAIN EventsOf[r.by] : r.event = EventsOf[r.by][i]

\* A writer about to commit has inserted its events, all of them and no others.
BatchesHold ==
    \A w \in Writers :
        pc[w] = "commit" =>
            \E base \in 1..nextPos :
                {r \in rows : r.tx = xid[w]} =
                    {[tx |-> xid[w], pos |-> base + i - 1, event |-> EventsOf[w][i],
                      by |-> w, saw |-> saw[w]] : i \in DOMAIN EventsOf[w]}

\* What a writer has read is all that matches up to a cursor no commit can precede.
ReadsHold ==
    \A w \in Writers : Settled(after[w]) /\ saw[w] = Cursors(Matching(w, UpTo(after[w])))

\* What the check found stays so until the commit.
ChecksHold ==
    \A w \in Conditional :
        pc[w] \in {"insert", "commit"} => Matching(w, Visible) \subseteq UpTo(after[w])

\* The past of a row is fixed and committed when it is inserted.
PastsHold ==
    \A r \in rows :
        r.by \in Conditional =>
            /\ r.saw = PastOf(r)
            /\ \A q \in Matching(r.by, rows) : q.tx # r.tx /\ Precedes(q, r) => q.tx \notin running

(* The locks of the tags involved carry a condition from its check to the        *)
(* commit, and with advisory locks into the order of the log.                  *)
AppendInv ==
    /\ LocksHeld /\ KeysInOrder /\ XidsHeld /\ RowsKnown /\ BatchesHold /\ ReadsHold
    /\ Tagged => ChecksHold /\ (Strategy = "advisory" => PastsHold)

IndInv == TypeOK /\ AppendInv
=============================================================================
