----------------------------- MODULE Aggregate -----------------------------
(***************************************************************************)
(* The command handler of one aggregate instance (Aggregate_Callback.res)   *)
(* over its event log (EventLog_Operations.res and a storage adapter), fed  *)
(* by an at-least-once command queue.                                       *)
(*                                                                         *)
(* Handlers are invocations of handleCommands; each runs in a container,    *)
(* the process that owns one replay cache.  A batch is one group of         *)
(* groupTopicItemsByIdStream: commands of one aggregate id, in order.       *)
(*                                                                         *)
(* Decision.state is represented by the history it was folded from: every   *)
(* evolve factors through it, and it tells apart whatever a decide may      *)
(* tell apart.  An entry of a history is an event envelope, of which decide *)
(* is only ever given the event.                                            *)
(***************************************************************************)
EXTENDS Integers, Sequences, FiniteSets, SequencesExt

CONSTANTS
    Containers,         \* processes that run the handler
    Handlers,           \* concurrent invocations of handleCommands
    Home,               \* the container each invocation runs in
    Commands,           \* the commands sent, each with its own msgId
    Stable,             \* those whose msgId is stable (hasStableMsgId)
    Events,             \* the events decide may return
    Decide(_, _),       \* Decision.decide: a sequence of events or Rejected
    Rejected, NoEntry,
    MaxConflictRetries, \* maxConflictRetries, 3 in the code
    SnapshotInterval,   \* snapshotConfig's interval; 0 is None
    MaxBatch,           \* bound: commands in one batch
    MaxReceive,         \* the queue's maxReceiveCount, 5 in the code
    MaxFaults           \* bound: failed calls and container restarts

ASSUME HandlersHaveHomes == Home \in [Handlers -> Containers]
ASSUME StableAreCommands == Stable \subseteq Commands
ASSUME BoundsAreNaturals ==
    /\ MaxConflictRetries \in Nat /\ SnapshotInterval \in Nat
    /\ MaxBatch \in Nat /\ MaxReceive \in Nat /\ MaxFaults \in Nat
ASSUME RejectedIsNoEvents == Rejected \notin Seq(Events)

VARIABLES
    log,        \* the stored stream of this aggregate
    published,  \* positions handed to the event topic
    snapshot,   \* the persisted keep-one snapshot
    snapWrites, \* fire-and-forget snapshot writes in flight
    cache,      \* replayCache of each container, for this id
    queue,      \* commands whose message is not deleted
    received,   \* how often each was delivered
    dead,       \* commands moved to the dead letter queue
    pc,         \* where each invocation stands
    batch,      \* the commands it was handed
    base,       \* the state it decides from
    seqNr,      \* sequenceNr, the condition of its append
    causes,     \* commands known to have caused events (stable batches)
    outcomes,   \* what processCommand recorded, in order
    toAppend,   \* eventsToAppend so far
    retries,    \* retryCount
    settled,    \* references to answer Ok once the work is done
    reports,    \* outcomes reported to producers
    floor,      \* (history) ends of the accepted appends at delivery
    faults      \* (bound) failed calls and restarts so far

storage  == <<log, published, snapshot, snapWrites>>
messages == <<queue, received, dead>>
work     == <<base, seqNr, causes, outcomes, toAppend>>
vars == <<log, published, snapshot, snapWrites, cache, queue, received, dead, pc, batch,
          base, seqNr, causes, outcomes, toAppend, retries, settled, reports, floor, faults>>

----------------------------------------------------------------------------
Entry    == [event : Events, cmd : Commands]    \* an event', its causationId
History  == Seq(Entry)
Memo     == [state : History, seqNr : Nat]      \* a cache entry or a snapshot
Outcome  == [cmd : Commands, kind : {"ok", "rejected", "repeated"}, own : Nat]
Report   == [cmd : Commands, kind : {"accepted", "repeated", "rejected", "failed"},
             own : Nat, eventCount : Nat, from : Nat, upTo : Nat]

EventsOf(hist) == [i \in DOMAIN hist |-> hist[i].event]
Caused(evs, c) == [i \in DOMAIN evs |-> [event |-> evs[i], cmd |-> c]]
Causes(hist)   == {hist[i].cmd : i \in DOMAIN hist}

\* decide's type, which a constant operator cannot state: a result over its events.
Verdict(hist, c) ==
    LET result == Decide(EventsOf(hist), c)
    IN IF result \in Seq(Events) THEN result ELSE Rejected

\* The state after the events decided so far: decide on it, cache it, snapshot it.
Folded(h)  == base[h] \o toAppend[h]
Undecided(h) == Len(outcomes[h]) < Len(batch[h])

\* (mutant) Only the first command of the batch is asked about.
Mutant_AsksForRepeats(h) == batch[h][1] \in Stable

AsksForRepeats(h) == \E i \in DOMAIN batch[h] : batch[h][i] \in Stable

Init ==
    /\ log = <<>> /\ published = {} /\ snapshot = NoEntry /\ snapWrites = {}
    /\ cache = [c \in Containers |-> NoEntry]
    /\ queue = Commands /\ received = [c \in Commands |-> 0] /\ dead = {}
    /\ pc = [h \in Handlers |-> "idle"]
    /\ batch = [h \in Handlers |-> <<>>]
    /\ base = [h \in Handlers |-> <<>>]
    /\ seqNr = [h \in Handlers |-> 0]
    /\ causes = [h \in Handlers |-> {}]
    /\ outcomes = [h \in Handlers |-> <<>>]
    /\ toAppend = [h \in Handlers |-> <<>>]
    /\ retries = [h \in Handlers |-> 0]
    /\ settled = [h \in Handlers |-> {}]
    /\ reports = {} /\ floor = [h \in Handlers |-> {}] /\ faults = 0

----------------------------------------------------------------------------
(* Delivery.  A message stays in the queue until it is deleted, and may be   *)
(* delivered again while it is in work: its visibility timeout ended, or the  *)
(* same stable command was sent twice.  After maxReceiveCount deliveries the  *)
(* queue moves it to the dead letter queue.                                  *)

Batches == UNION {[1..n -> Commands] : n \in 1..MaxBatch}
Copies(b, c) == Cardinality({i \in DOMAIN b : b[i] = c})
InWork(c) == \E h \in Handlers : pc[h] # "idle" /\ Copies(batch[h], c) > 0

AcceptedEnds == {r.upTo : r \in {s \in reports : s.kind = "accepted" /\ s.own > 0}}

Deliver(h, b) ==
    /\ pc[h] = "idle"
    /\ \A i \in DOMAIN b : b[i] \in queue
    /\ \A c \in Commands : received[c] + Copies(b, c) <= MaxReceive
    /\ received' = [c \in Commands |-> received[c] + Copies(b, c)]
    /\ pc' = [pc EXCEPT ![h] = "start"]
    /\ batch' = [batch EXCEPT ![h] = b]
    /\ retries' = [retries EXCEPT ![h] = 0]
    /\ floor' = [floor EXCEPT ![h] = AcceptedEnds]
    /\ UNCHANGED <<storage, cache, queue, dead, work, settled, reports, faults>>

DeadLetter(c) ==
    /\ c \in queue /\ ~InWork(c)
    /\ received[c] = MaxReceive
    /\ queue' = queue \ {c}
    /\ dead' = dead \cup {c}
    /\ UNCHANGED <<storage, cache, received, pc, batch, work, retries, settled, reports,
                   floor, faults>>

----------------------------------------------------------------------------
(* replayProcessAppend, its read: the whole stream with its causes for a     *)
(* batch holding a stable id, else the cache, else the snapshot and the      *)
(* events after it.                                                          *)

Fresh(h) ==
    /\ outcomes' = [outcomes EXCEPT ![h] = <<>>]
    /\ toAppend' = [toAppend EXCEPT ![h] = <<>>]

ReadCauses(h) ==
    /\ pc[h] = "start" /\ AsksForRepeats(h)
    /\ base' = [base EXCEPT ![h] = log]
    /\ seqNr' = [seqNr EXCEPT ![h] = Len(log)]
    /\ causes' = [causes EXCEPT ![h] = Causes(log)]
    /\ pc' = [pc EXCEPT ![h] = "decide"]
    /\ Fresh(h)
    /\ UNCHANGED <<storage, cache, messages, batch, retries, settled, reports, floor, faults>>

ReadCached(h) ==
    LET entry == cache[Home[h]] IN
    /\ pc[h] = "start" /\ ~AsksForRepeats(h) /\ entry # NoEntry
    /\ base' = [base EXCEPT ![h] = entry.state]
    /\ seqNr' = [seqNr EXCEPT ![h] = entry.seqNr]
    /\ causes' = [causes EXCEPT ![h] = {}]
    /\ pc' = [pc EXCEPT ![h] = "decide"]
    /\ Fresh(h)
    /\ UNCHANGED <<storage, cache, messages, batch, retries, settled, reports, floor, faults>>

\* (mutant) A snapshot's events are counted from nothing.
Mutant_Seeds == {[state |-> <<>>, seqNr |-> 0]} \cup
                IF snapshot = NoEntry THEN {} ELSE {[snapshot EXCEPT !.seqNr = 0]}

\* A snapshot of another schema, undecodable or unreadable seeds nothing.
Seeds == {[state |-> <<>>, seqNr |-> 0]} \cup
         IF SnapshotInterval = 0 THEN {} ELSE {snapshot} \ {NoEntry}

ReadSnapshot(h) ==
    /\ pc[h] = "start" /\ ~AsksForRepeats(h) /\ cache[Home[h]] = NoEntry
    /\ \E seed \in Seeds :
          /\ base' = [base EXCEPT ![h] = seed.state]
          /\ seqNr' = [seqNr EXCEPT ![h] = seed.seqNr]
    /\ causes' = [causes EXCEPT ![h] = {}]
    /\ pc' = [pc EXCEPT ![h] = "replay"]
    /\ Fresh(h)
    /\ UNCHANGED <<storage, cache, messages, batch, retries, settled, reports, floor, faults>>

ReplayStream(h) ==
    LET delta == SubSeq(log, seqNr[h] + 1, Len(log)) IN
    /\ pc[h] = "replay"
    /\ base' = [base EXCEPT ![h] = @ \o delta]
    /\ seqNr' = [seqNr EXCEPT ![h] = @ + Len(delta)]
    /\ pc' = [pc EXCEPT ![h] = "decide"]
    /\ UNCHANGED <<storage, cache, messages, batch, causes, outcomes, toAppend, retries,
                   settled, reports, floor, faults>>

----------------------------------------------------------------------------
(* processCommand: one command of the batch.                                *)

Record(h, c, kind, evs) ==
    /\ outcomes' = [outcomes EXCEPT ![h] =
                      Append(@, [cmd |-> c, kind |-> kind, own |-> Len(evs)])]
    /\ toAppend' = [toAppend EXCEPT ![h] = @ \o Caused(evs, c)]

\* (mutant) The check looks at the batch before this command only.
Mutant_IsRepeat(h, c) ==
    c \in Stable /\ \E i \in DOMAIN outcomes[h] : outcomes[h][i].cmd = c

\* A stable id among the msgIds that caused events: delivered before.
IsRepeat(h, c) == c \in Stable /\ c \in causes[h]

ProcessCommand(h) ==
    LET c == batch[h][Len(outcomes[h]) + 1]
        verdict == Verdict(Folded(h), c)
    IN
    /\ pc[h] = "decide" /\ Undecided(h)
    /\ \/ /\ IsRepeat(h, c)
          /\ Record(h, c, "repeated", <<>>)
          /\ UNCHANGED causes
       \/ /\ ~IsRepeat(h, c) /\ verdict = Rejected
          /\ Record(h, c, "rejected", <<>>)
          /\ UNCHANGED causes
       \/ /\ ~IsRepeat(h, c) /\ verdict # Rejected
          /\ Record(h, c, "ok", verdict)
          /\ causes' = IF verdict = <<>> THEN causes
                       ELSE [causes EXCEPT ![h] = @ \cup {c}]
    /\ UNCHANGED <<storage, cache, messages, pc, batch, base, seqNr, retries, settled,
                   reports, floor, faults>>

----------------------------------------------------------------------------
(* reportFinalOutcomes: the report of each command and the references to     *)
(* answer Ok.  eventCount is the batch's, whatever the command contributed.  *)

\* (mutant) A failed append is reported like a stored one.
Mutant_ReportOf(h, o, ok) ==
    [cmd |-> o.cmd, kind |-> IF o.kind # "ok" THEN o.kind ELSE "accepted",
     own |-> o.own, eventCount |-> Len(toAppend[h]),
     from |-> seqNr[h], upTo |-> seqNr[h] + Len(toAppend[h])]

ReportOf(h, o, ok) ==
    [cmd |-> o.cmd,
     kind |-> IF o.kind # "ok" THEN o.kind ELSE IF ok THEN "accepted" ELSE "failed",
     own |-> o.own,
     eventCount |-> IF o.kind = "ok" /\ ok THEN Len(toAppend[h]) ELSE 0,
     from |-> seqNr[h],
     upTo |-> seqNr[h] + Len(toAppend[h])]

\* (mutant) The failed command is answered Ok like a rejected one.
Mutant_AnsweredOk(r) == TRUE

AnsweredOk(r) == r.kind # "failed"

ReportFinalOutcomes(h, ok) ==
    LET report == {ReportOf(h, outcomes[h][i], ok) : i \in DOMAIN outcomes[h]} IN
    /\ reports' = reports \cup report
    /\ settled' = [settled EXCEPT ![h] = {r.cmd : r \in {s \in report : AnsweredOk(s)}}]
    /\ pc' = [pc EXCEPT ![h] = "settle"]

Decided(h) == pc[h] = "decide" /\ ~Undecided(h)

\* No events: the state read is kept warm and the outcomes are final.
NoEvents(h) ==
    /\ Decided(h) /\ toAppend[h] = <<>>
    /\ cache' = [cache EXCEPT ![Home[h]] = [state |-> base[h], seqNr |-> seqNr[h]]]
    /\ ReportFinalOutcomes(h, TRUE)
    /\ UNCHANGED <<storage, messages, batch, work, retries, floor, faults>>

----------------------------------------------------------------------------
(* Ops.eventLog.append: the storage write, then the publish.                 *)

\* (mutant) Any state that was once the stream's passes.
Mutant_AppendCondition(h) == seqNr[h] <= Len(log)

\* The storage stores an append only at the position it was decided at.
AppendCondition(h) == seqNr[h] = Len(log)

AppendStored(h) ==
    /\ Decided(h) /\ toAppend[h] # <<>>
    /\ AppendCondition(h)
    /\ log' = log \o toAppend[h]
    /\ pc' = [pc EXCEPT ![h] = "publish"]
    /\ UNCHANGED <<published, snapshot, snapWrites, cache, messages, batch, work, retries,
                   settled, reports, floor, faults>>

Invalidate(h) == cache' = [cache EXCEPT ![Home[h]] = NoEntry]

\* (mutant) One retry too many.
Mutant_MayRetry(h) == retries[h] <= MaxConflictRetries

MayRetry(h) == retries[h] < MaxConflictRetries

\* (mutant) The last failure is neither retried nor answered.
Mutant_Exhausted(h) == retries[h] > MaxConflictRetries

Exhausted(h) == retries[h] = MaxConflictRetries

\* Another writer advanced the stream: read and decide again, or give up, which
\* answers Error for every reference and reports no outcome.
AppendConflict(h) ==
    /\ Decided(h) /\ toAppend[h] # <<>>
    /\ ~AppendCondition(h)
    /\ Invalidate(h)
    /\ \/ /\ MayRetry(h)
          /\ retries' = [retries EXCEPT ![h] = @ + 1]
          /\ pc' = [pc EXCEPT ![h] = "start"]
          /\ UNCHANGED settled
       \/ /\ Exhausted(h)
          /\ settled' = [settled EXCEPT ![h] = {}]
          /\ pc' = [pc EXCEPT ![h] = "settle"]
          /\ UNCHANGED retries
    /\ UNCHANGED <<storage, messages, batch, work, reports, floor, faults>>

Fault == faults < MaxFaults /\ faults' = faults + 1

\* The storage call fails for good with nothing written.
AppendFails(h) ==
    /\ Decided(h) /\ toAppend[h] # <<>>
    /\ Fault
    /\ Invalidate(h)
    /\ ReportFinalOutcomes(h, FALSE)
    /\ UNCHANGED <<storage, messages, batch, work, retries, floor>>

\* The write is stored and its answer lost.  storageRetrySchedule repeats a
\* transient failure, so the handler meets its own events as a conflict; any
\* other failure ends the append as a StorageFailure.
AppendAnswerLost(h) ==
    /\ Decided(h) /\ toAppend[h] # <<>>
    /\ AppendCondition(h)
    /\ Fault
    /\ log' = log \o toAppend[h]
    /\ \/ UNCHANGED <<cache, reports, settled, pc>>
       \/ Invalidate(h) /\ ReportFinalOutcomes(h, FALSE)
    /\ UNCHANGED <<published, snapshot, snapWrites, messages, batch, work, retries,
                   floor>>

Appended(h) == seqNr[h] + 1 .. seqNr[h] + Len(toAppend[h])

CrossesInterval(old, new) ==
    SnapshotInterval > 0 /\ new \div SnapshotInterval > old \div SnapshotInterval

\* (mutant) The state read, under the number of events after the append.
Mutant_PostAppend(h) == [state |-> base[h], seqNr |-> seqNr[h] + Len(toAppend[h])]

\* The fold after decide is what a replay after the append would return.
PostAppend(h) == [state |-> Folded(h), seqNr |-> seqNr[h] + Len(toAppend[h])]

\* The publish succeeds: cache the folded state and fire a snapshot write.
Publish(h) ==
    LET memo == PostAppend(h) IN
    /\ pc[h] = "publish"
    /\ published' = published \cup Appended(h)
    /\ cache' = [cache EXCEPT ![Home[h]] = memo]
    /\ snapWrites' = snapWrites \cup
                     IF CrossesInterval(seqNr[h], memo.seqNr) THEN {memo} ELSE {}
    /\ ReportFinalOutcomes(h, TRUE)
    /\ UNCHANGED <<log, snapshot, messages, batch, work, retries, floor, faults>>

\* Some of the parallel publishes fail: the append is a StorageFailure.
PublishFails(h) ==
    /\ pc[h] = "publish"
    /\ Fault
    /\ \E some \in SUBSET Appended(h) :
          some # Appended(h) /\ published' = published \cup some
    /\ Invalidate(h)
    /\ ReportFinalOutcomes(h, FALSE)
    /\ UNCHANGED <<log, snapshot, snapWrites, messages, batch, work, retries, floor>>

----------------------------------------------------------------------------
(* handleQueueEvent: the messages of the references answered Ok are deleted. *)

EndWork(h) ==
    /\ pc' = [pc EXCEPT ![h] = "idle"]
    /\ batch' = [batch EXCEPT ![h] = <<>>]
    /\ base' = [base EXCEPT ![h] = <<>>]
    /\ seqNr' = [seqNr EXCEPT ![h] = 0]
    /\ causes' = [causes EXCEPT ![h] = {}]
    /\ outcomes' = [outcomes EXCEPT ![h] = <<>>]
    /\ toAppend' = [toAppend EXCEPT ![h] = <<>>]
    /\ retries' = [retries EXCEPT ![h] = 0]
    /\ settled' = [settled EXCEPT ![h] = {}]
    /\ floor' = [floor EXCEPT ![h] = {}]

Settle(h) ==
    /\ pc[h] = "settle"
    /\ queue' = queue \ settled[h]
    /\ EndWork(h)
    /\ UNCHANGED <<storage, cache, received, dead, reports, faults>>

\* A failed delete is logged: the messages come again.
SettleFails(h) ==
    /\ pc[h] = "settle"
    /\ Fault
    /\ EndWork(h)
    /\ UNCHANGED <<storage, cache, messages, reports>>

----------------------------------------------------------------------------
(* What happens beside the handlers.                                         *)

\* A fire-and-forget snapshot write lands, whatever is stored, or is lost.
SnapshotLands(memo) ==
    /\ snapshot' = memo
    /\ snapWrites' = snapWrites \ {memo}
    /\ UNCHANGED <<log, published, cache, messages, pc, batch, work, retries, settled,
                   reports, floor, faults>>

SnapshotWriteLost(memo) ==
    /\ snapWrites' = snapWrites \ {memo}
    /\ UNCHANGED <<log, published, snapshot, cache, messages, pc, batch, work, retries,
                   settled, reports, floor, faults>>

\* Lru drops the entry: its TTL ended or another id took its place.
Evict(c) ==
    /\ cache[c] # NoEntry
    /\ cache' = [cache EXCEPT ![c] = NoEntry]
    /\ UNCHANGED <<storage, messages, pc, batch, work, retries, settled, reports, floor, faults>>

\* A container goes away with everything it held in memory.
Restart(c) ==
    LET lost == {h \in Handlers : Home[h] = c}
        Reset(f, zero) == [h \in Handlers |-> IF h \in lost THEN zero ELSE f[h]]
    IN
    /\ Fault
    /\ cache' = [cache EXCEPT ![c] = NoEntry]
    /\ pc' = Reset(pc, "idle")
    /\ batch' = Reset(batch, <<>>)
    /\ base' = Reset(base, <<>>)
    /\ seqNr' = Reset(seqNr, 0)
    /\ causes' = Reset(causes, {})
    /\ outcomes' = Reset(outcomes, <<>>)
    /\ toAppend' = Reset(toAppend, <<>>)
    /\ retries' = Reset(retries, 0)
    /\ settled' = Reset(settled, {})
    /\ floor' = Reset(floor, {})
    /\ UNCHANGED <<storage, messages, reports>>

----------------------------------------------------------------------------
Work(h) ==
    \/ ReadCauses(h) \/ ReadCached(h) \/ ReadSnapshot(h) \/ ReplayStream(h)
    \/ ProcessCommand(h) \/ NoEvents(h)
    \/ AppendStored(h) \/ AppendConflict(h) \/ AppendFails(h) \/ AppendAnswerLost(h)
    \/ Publish(h) \/ PublishFails(h) \/ Settle(h) \/ SettleFails(h)

Next ==
    \/ \E h \in Handlers : Work(h) \/ \E b \in Batches : Deliver(h, b)
    \/ \E memo \in snapWrites : SnapshotLands(memo) \/ SnapshotWriteLost(memo)
    \/ \E c \in Containers : Evict(c) \/ Restart(c)
    \/ \E c \in Commands : DeadLetter(c)

Spec == Init /\ [][Next]_vars

\* A running invocation goes on, and the queue delivers what it still holds.
FairSpec ==
    /\ Spec
    /\ \A h \in Handlers : WF_vars(Work(h))
    /\ \A c \in Commands : SF_vars(\E h \in Handlers, b \in Batches :
                                    Deliver(h, b) /\ Copies(b, c) > 0)
                          /\ WF_vars(DeadLetter(c))
----------------------------------------------------------------------------
(* Properties.                                                               *)

TypeOK ==
    /\ log \in History /\ published \subseteq Nat
    /\ snapshot \in Memo \cup {NoEntry} /\ snapWrites \subseteq Memo
    /\ cache \in [Containers -> Memo \cup {NoEntry}]
    /\ queue \subseteq Commands /\ dead \subseteq Commands
    /\ received \in [Commands -> 0..MaxReceive]
    /\ pc \in [Handlers -> {"idle", "start", "replay", "decide", "publish", "settle"}]
    /\ batch \in [Handlers -> Seq(Commands)]
    /\ base \in [Handlers -> History] /\ seqNr \in [Handlers -> Nat]
    /\ causes \in [Handlers -> SUBSET Commands]
    /\ outcomes \in [Handlers -> Seq(Outcome)]
    /\ toAppend \in [Handlers -> History]
    /\ retries \in [Handlers -> 0..MaxConflictRetries]
    /\ settled \in [Handlers -> SUBSET Commands]
    /\ reports \subseteq Report /\ floor \in [Handlers -> SUBSET Nat]
    /\ faults \in 0..MaxFaults

\* Entry i of the stream belongs to a run j..k of one command's events that is
\* what decide returns on exactly the entries before it.
Justified(hist, i) ==
    \E j \in 1..i, k \in i..Len(hist) :
        /\ \A m \in j..k : hist[m].cmd = hist[i].cmd
        /\ Verdict(SubSeq(hist, 1, j - 1), hist[i].cmd) = EventsOf(SubSeq(hist, j, k))

(* Every stored event was decided on exactly the history stored before it:   *)
(* whatever the cache, the snapshot, the conflict retries and concurrent      *)
(* invocations did, the stream is that of a serial execution.                *)
DecidedOnItsPast == \A i \in DOMAIN log : Justified(log, i)

Memos == ({cache[c] : c \in Containers} \cup {snapshot} \cup snapWrites) \ {NoEntry}

OldState(memo) == IsPrefix(memo.state, log) /\ memo.seqNr = Len(memo.state)

(* A cache entry and a snapshot, stored or in flight, are a prefix of the     *)
(* stream with its length: one that landed late or came back from before a    *)
(* conflict is old, never wrong.                                             *)
MemosArePrefixes == \A memo \in Memos : OldState(memo)

Positions(hist, c) == {i \in DOMAIN hist : hist[i].cmd = c}

DecidedOnce(hist, c) ==
    Positions(hist, c) # {} =>
        \E j \in Positions(hist, c) :
            LET evs == Verdict(SubSeq(hist, 1, j - 1), c) IN
            /\ evs # Rejected
            /\ Positions(hist, c) = j..(j + Len(evs) - 1)
            /\ evs = EventsOf(SubSeq(hist, j, j + Len(evs) - 1))

(* However often a command with a stable id is delivered, and although its    *)
(* append may be stored with the answer lost, its events are those of one     *)
(* decision (processCommand's repeat check over coldReadCauses).             *)
StableDecidedOnce == \A c \in Stable : DecidedOnce(log, c)

(* A command reported accepted has every event it produced in the stream, at  *)
(* the positions its append wrote, and handed to the event topic.             *)
AcceptedIsDurable ==
    \A r \in reports :
        r.kind = "accepted" =>
            LET own == {i \in r.from + 1 .. r.upTo : i \in DOMAIN log /\ log[i].cmd = r.cmd}
            IN Cardinality(own) >= r.own /\ own \subseteq published

(* A message is deleted only once its command has an outcome: accepted, found *)
(* to be a repeat, or rejected.  Exhausted retries, a failed append, a failed *)
(* publish and a restart leave it for the next delivery.                      *)
DeletedHasOutcome ==
    \A c \in Commands \ (queue \cup dead) : \E r \in reports : r.cmd = c /\ r.kind # "failed"


(* What each invocation holds while it works, on which the three properties   *)
(* above rest: it decides from a prefix of the stream and knows its length,   *)
(* its own events are justified by that prefix, an asking one knows every     *)
(* stable command that caused events, and what it publishes is stored.       *)
WorkOnPrefix(h) ==
    pc[h] \in {"replay", "decide", "publish"} =>
        IsPrefix(base[h], log) /\ seqNr[h] = Len(base[h])

ReplayFresh(h) == pc[h] = "replay" => toAppend[h] = <<>> /\ ~AsksForRepeats(h)

FoldJustified(h) ==
    pc[h] = "decide" =>
        \A i \in Len(base[h]) + 1 .. Len(Folded(h)) : Justified(Folded(h), i)

StableFold(h) ==
    pc[h] = "decide" =>
        IF AsksForRepeats(h)
        THEN \A c \in Stable : /\ DecidedOnce(Folded(h), c)
                               /\ Positions(Folded(h), c) # {} => c \in causes[h]
        ELSE \A i \in DOMAIN toAppend[h] : toAppend[h][i].cmd \notin Stable

PublishStored(h) == pc[h] = "publish" => IsPrefix(Folded(h), log)

HandlerInv(h) ==
    /\ WorkOnPrefix(h) /\ ReplayFresh(h) /\ FoldJustified(h)
    /\ StableFold(h) /\ PublishStored(h)

WorkInv == \A h \in Handlers : HandlerInv(h)

(* The inductive invariant: types, and what every invocation knows while it     *)
(* works (replayProcessAppend).                                               *)
IndInv == TypeOK /\ WorkInv

(* Every invocation ends, whatever conflicts and failures it meets.           *)
HandlingEnds == \A h \in Handlers : pc[h] # "idle" ~> pc[h] = "idle"

(* Every command sent is in the end answered and its message deleted, or      *)
(* moved to the dead letter queue.                                           *)
EveryCommandSettled == \A c \in Commands : <>(c \notin queue)

----------------------------------------------------------------------------
(* What comments and docs say of the program and the code does not do.        *)

(* resetCache's comment: the cache is a pure read optimization.  Then a       *)
(* rejection, like any decision, sees every event whose acceptance was        *)
(* reported before its command was delivered.                                *)
RejectionSeesAccepted ==
    [][\A h \in Handlers :
          (\E i \in DOMAIN outcomes[h] : outcomes[h][i].kind = "rejected")
          /\ pc[h] = "decide" /\ pc'[h] = "settle"
          => \A n \in floor[h] : seqNr[h] >= n]_vars

(* aggregate.md: a decide that returns Ok([]) reports Accepted with           *)
(* eventCount 0.                                                             *)
NoOpReportsZero ==
    \A r \in reports : r.kind = "accepted" /\ r.own = 0 => r.eventCount = 0
=============================================================================
