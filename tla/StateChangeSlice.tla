-------------------------- MODULE StateChangeSlice --------------------------
(***************************************************************************)
(* The command handler of the state change slices (StateChangeSlice_         *)
(* Callback.res) over a DCB event log that keeps its contract: a read        *)
(* returns the matching events up to some point, to the end when it is       *)
(* strongly consistent, and a conditional append is refused exactly when a   *)
(* matching event lies after the position it names.  The adapters' own       *)
(* modules say how far each storage keeps that contract.                     *)
(*                                                                         *)
(* Decision.state is represented by the positions of the events folded into it. *)
(***************************************************************************)
EXTENDS DcbQuery, FiniteSetsExt

CONSTANTS
    Slices, Commands, Containers,
    Handlers,       \* concurrent invocations of handleSingleCommand
    Home,           \* the container each runs in
    SliceOf,        \* the slice handling each command
    Consumed,       \* decoder.eventTypes of each slice
    Produced,       \* producedEventTypes of each slice
    Stable,         \* commands whose msgId is stable (hasStableMsgId)
    CommandTags,    \* the tags a command is decided by
    Expanded,       \* commands with an array of tagged values
    Events,         \* the events decide may return
    Decide(_, _),   \* Decision.decide: a sequence of events or Rejected
    Refuses(_, _),  \* ownershipRefusal, from the owners read with the model
    Rejected, NoEntry,
    ReadConsistency, \* Spec.readConsistency
    MaxRetries,     \* maxRetries, 3 in the code
    MaxReceive,     \* the queue's maxReceiveCount
    MaxFaults       \* bound: failed calls and container restarts

ASSUME SlicesHandleCommands ==
    /\ SliceOf \in [Commands -> Slices] /\ Home \in [Handlers -> Containers]
    /\ Consumed \in [Slices -> SUBSET Types] /\ Produced \in [Slices -> SUBSET Types]
    /\ CommandTags \in [Commands -> SUBSET Tag] /\ Events \subseteq Event
    /\ Stable \subseteq Commands /\ Expanded \subseteq Commands
ASSUME RejectedIsNoEvents == Rejected \notin Seq({Encoded(e) : e \in Events})
ASSUME BoundsAreNaturals == MaxRetries \in Nat /\ MaxReceive \in Nat /\ MaxFaults \in Nat

VARIABLES
    log,       \* the stored events, in the order of their positions
    published, \* positions handed to the event topic
    cache,     \* projectionCache of each container, by slice and query
    queue,     \* commands whose message is not deleted
    received,  \* how often each was delivered
    dead,      \* commands moved to the dead letter queue
    pc,        \* where each invocation stands
    cmd,       \* the command it handles
    model,     \* state: positions of the consumed events folded so far
    head,      \* headPosition, 0 for None
    repeated,  \* the read met an event this command caused
    decided,   \* the events to append
    retries,   \* attempts left
    reports,   \* outcomes reported to producers
    readEnd,   \* (history) length of the log at the last read or append
    faults     \* (bound) failed calls and restarts so far

storage  == <<log, published>>
messages == <<queue, received, dead>>
vars == <<log, published, cache, queue, received, dead, pc, cmd, model, head, repeated,
          decided, retries, reports, readEnd, faults>>
-----------------------------------------------------------------------------
Stored  == {Encoded(e) : e \in Events}
Entry   == [event : Stored, cmd : Commands]  \* cmd is the event's causationId
Memo    == [model : SUBSET Nat, head : Nat]
Report  == [cmd : Commands, kind : {"accepted", "rejected", "refused", "failed"},
            from : Nat, count : Nat]

\* A command with a stable id also reads its own slice's events.
QueryTypes(c) ==
    Consumed[SliceOf[c]] \cup IF c \in Stable THEN Produced[SliceOf[c]] ELSE {}

Queries == [c \in Commands |-> QueryFor(QueryTypes(c), CommandTags[c], c \in Expanded)]

\* The events a command's query selects, and those of them its slice decodes.
Selects == [c \in Commands |-> {e \in Stored : Matches(e, Queries[c])}]
Decodes == [c \in Commands |-> {e \in Selects[c] : e.type \in Consumed[SliceOf[c]]}]

\* The cache of a slice is keyed by the query: the commands that share an entry.
CacheKey == [c \in Commands |->
                {d \in Commands : SliceOf[d] = SliceOf[c] /\ Queries[d] = Queries[c]}]
CacheKeys == {CacheKey[c] : c \in Commands}

\* What a decision on everything up to position n of a history folds.
ModelAt(hist, c, n) == {i \in 1..n : hist[i].event \in Decodes[c]}

EventsAt(hist, positions) == [i \in positions |-> hist[i].event]

\* decide's result, which the log takes encoded.
Verdict(evs, c) ==
    LET result == Decide(evs, c)
    IN IF result \in Seq(Events) THEN [i \in DOMAIN result |-> Encoded(result[i])]
       ELSE Rejected

Caused(evs, c) == [i \in DOMAIN evs |-> [event |-> evs[i], cmd |-> c]]

Init ==
    /\ log = <<>> /\ published = {}
    /\ cache = [c \in Containers |-> [k \in CacheKeys |-> NoEntry]]
    /\ queue = Commands /\ received = [c \in Commands |-> 0] /\ dead = {}
    /\ pc = [h \in Handlers |-> "idle"]
    /\ cmd = [h \in Handlers |-> NoEntry]
    /\ model = [h \in Handlers |-> {}]
    /\ head = [h \in Handlers |-> 0]
    /\ repeated = [h \in Handlers |-> FALSE]
    /\ decided = [h \in Handlers |-> <<>>]
    /\ retries = [h \in Handlers |-> 0]
    /\ reports = {} /\ readEnd = [h \in Handlers |-> 0] /\ faults = 0

Fault == faults < MaxFaults /\ faults' = faults + 1
-----------------------------------------------------------------------------
(* Delivery: a message is delivered again until it is deleted, also while an   *)
(* earlier delivery is still in work, and at last dead-lettered.              *)

InWork(c) == \E h \in Handlers : pc[h] # "idle" /\ cmd[h] = c

\* The fold is seeded from the cache, which a command that asks for a repeat
\* bypasses: a cached head lies past the events its first delivery left.
Seed(h, c) ==
    LET entry == cache[Home[h]][CacheKey[c]]
        hit == c \notin Stable /\ entry # NoEntry
    IN
    /\ model' = [model EXCEPT ![h] = IF hit THEN entry.model ELSE {}]
    /\ head' = [head EXCEPT ![h] = IF hit THEN entry.head ELSE 0]

Deliver(h, c) ==
    /\ pc[h] = "idle"
    /\ c \in queue /\ received[c] < MaxReceive
    /\ received' = [received EXCEPT ![c] = @ + 1]
    /\ pc' = [pc EXCEPT ![h] = "read"]
    /\ cmd' = [cmd EXCEPT ![h] = c]
    /\ retries' = [retries EXCEPT ![h] = MaxRetries]
    /\ Seed(h, c)
    /\ UNCHANGED <<storage, cache, queue, dead, repeated, decided, reports, readEnd, faults>>

DeadLetter(c) ==
    /\ c \in queue /\ ~InWork(c)
    /\ received[c] = MaxReceive
    /\ queue' = queue \ {c}
    /\ dead' = dead \cup {c}
    /\ UNCHANGED <<storage, cache, received, pc, cmd, model, head, repeated, decided, retries,
                   reports, readEnd, faults>>

-----------------------------------------------------------------------------
(* attempt: the read and its fold.                                           *)

\* (mutant) Strong on the first attempt, eventual on the retries.
Mutant_StrongConsistency(h) == retries[h] = MaxRetries

StrongConsistency(h) ==
    \/ ReadConsistency = "AlwaysStrong"
    \/ ReadConsistency = "EscalateOnRetry" /\ retries[h] < MaxRetries

Matching(c, from, upTo) == {i \in from..upTo : log[i].event \in Selects[c]}

\* (mutant) Only the events the slice decodes move the head.
Mutant_NewHead(h, found) ==
    Max({head[h]} \cup {i \in found : log[i].event \in Decodes[cmd[h]]})

\* Every event read moves the head, decoded or not; an empty read keeps it.
NewHead(h, found) == Max({head[h]} \cup found)

\* Only the decoded events reach evolve.
Fold(h, found) == model[h] \cup {i \in found : log[i].event \in Decodes[cmd[h]]}

\* (mutant) Only an event the slice decodes is asked for its cause.
Mutant_IsRepeat(c, found) ==
    c \in Stable /\ \E i \in found : log[i].cmd = c /\ log[i].event \in Decodes[c]

IsRepeat(c, found) == c \in Stable /\ \E i \in found : log[i].cmd = c

\* An eventual read may miss any of the latest events.
Read(h) ==
    /\ pc[h] = "read"
    /\ \E end \in 0..Len(log) :
          LET found == Matching(cmd[h], head[h] + 1, end) IN
          /\ StrongConsistency(h) => end = Len(log)
          /\ model' = [model EXCEPT ![h] = Fold(h, found)]
          /\ head' = [head EXCEPT ![h] = NewHead(h, found)]
          /\ repeated' = [repeated EXCEPT ![h] = IsRepeat(cmd[h], found)]
    /\ readEnd' = [readEnd EXCEPT ![h] = Len(log)]
    /\ pc' = [pc EXCEPT ![h] = "decide"]
    /\ UNCHANGED <<storage, cache, messages, cmd, decided, retries, reports, faults>>

-----------------------------------------------------------------------------
(* The decision.  The outcome is reported before the message is deleted.      *)

CachePut(h, memo) ==
    cache' = IF cmd[h] \in Stable THEN cache
             ELSE [cache EXCEPT ![Home[h]][CacheKey[cmd[h]]] = memo]

CacheInvalidate(h) == CachePut(h, NoEntry)

\* (mutant) The state is cached under the end of the log.
Mutant_Snapshot(h) == [model |-> model[h], head |-> Len(log)]

Snapshot(h) == [model |-> model[h], head |-> head[h]]

Reporting(h, kind, from, count) ==
    reports' = reports \cup {[cmd |-> cmd[h], kind |-> kind, from |-> from, count |-> count]}

Answer(h, answer) == pc' = [pc EXCEPT ![h] = answer]

\* The command left events before: accepted, nothing new.
DropRepeat(h) ==
    /\ pc[h] = "decide" /\ repeated[h]
    /\ Reporting(h, "accepted", 0, 0)
    /\ Answer(h, "answered")
    /\ UNCHANGED <<storage, cache, messages, cmd, model, head, repeated, decided, retries,
                   readEnd, faults>>

\* decide ends the command without an append: the state read is kept warm.
Conclude(h) ==
    LET c == cmd[h]
        evs == EventsAt(log, model[h])
        verdict == Verdict(evs, c)
    IN
    /\ pc[h] = "decide" /\ ~repeated[h]
    /\ \/ Refuses(evs, c) /\ Reporting(h, "refused", 0, 0)
       \/ ~Refuses(evs, c) /\ verdict = Rejected /\ Reporting(h, "rejected", 0, 0)
       \/ ~Refuses(evs, c) /\ verdict = <<>> /\ Reporting(h, "accepted", 0, 0)
    /\ CachePut(h, Snapshot(h))
    /\ Answer(h, "answered")
    /\ UNCHANGED <<storage, messages, cmd, model, head, repeated, decided, retries, readEnd,
                   faults>>

Produce(h) ==
    LET evs == EventsAt(log, model[h])
        verdict == Verdict(evs, cmd[h])
    IN
    /\ pc[h] = "decide" /\ ~repeated[h] /\ ~Refuses(evs, cmd[h])
    /\ verdict \notin {Rejected, <<>>}
    /\ decided' = [decided EXCEPT ![h] = verdict]
    /\ pc' = [pc EXCEPT ![h] = "append"]
    /\ UNCHANGED <<storage, cache, messages, cmd, model, head, repeated, retries, reports,
                   readEnd, faults>>

\* A personal field could not be sealed: nothing is stored.
SealFails(h) ==
    /\ pc[h] = "append" /\ Fault
    /\ CachePut(h, Snapshot(h))
    /\ Reporting(h, "failed", 0, 0)
    /\ Answer(h, "failed")
    /\ UNCHANGED <<storage, messages, cmd, model, head, repeated, decided, retries, readEnd>>

-----------------------------------------------------------------------------
(* The conditional append and its retries.                                   *)

\* (mutant) The event right after the head does not conflict.
Mutant_AppendCondition(h) == Matching(cmd[h], head[h] + 2, Len(log)) = {}

AppendCondition(h) == Matching(cmd[h], head[h] + 1, Len(log)) = {}

StoredBy(h) == log' = log \o Caused(decided[h], cmd[h])

AppendStored(h) ==
    /\ pc[h] = "append" /\ AppendCondition(h)
    /\ StoredBy(h)
    /\ readEnd' = [readEnd EXCEPT ![h] = Len(log)]
    /\ pc' = [pc EXCEPT ![h] = "publish"]
    /\ UNCHANGED <<published, cache, messages, cmd, model, head, repeated, decided, retries,
                   reports, faults>>

\* Some publishes may fail, which is only logged.  The cache keeps the state
\* decided on: the next delta read finds the events just appended.
Publish(h) ==
    LET stored == readEnd[h] + 1 .. readEnd[h] + Len(decided[h]) IN
    /\ pc[h] = "publish"
    /\ \E some \in SUBSET stored :
          /\ published' = published \cup some
          /\ IF some = stored THEN UNCHANGED faults ELSE Fault
    /\ CachePut(h, Snapshot(h))
    /\ Reporting(h, "accepted", readEnd[h], Len(decided[h]))
    /\ Answer(h, "answered")
    /\ UNCHANGED <<log, messages, cmd, model, head, repeated, decided, retries, readEnd>>

\* (mutant) One retry too many.
Mutant_MayRetry(h) == retries[h] >= 0

MayRetry(h) == retries[h] > 0

\* (mutant) The exhausted command is answered Ok, its outcome being reported.
Mutant_Exhausted(h) ==
    /\ ~MayRetry(h)
    /\ CacheInvalidate(h)
    /\ Reporting(h, "failed", 0, 0)
    /\ Answer(h, "answered")
    /\ UNCHANGED retries

\* (mutant) The last refused append is reported like a stored one.
Mutant_AcceptsExhausted(h) ==
    /\ ~MayRetry(h)
    /\ CacheInvalidate(h)
    /\ Reporting(h, "accepted", readEnd[h], Len(decided[h]))
    /\ Answer(h, "answered")
    /\ UNCHANGED retries

Exhausted(h) ==
    /\ ~MayRetry(h)
    /\ CacheInvalidate(h)
    /\ Reporting(h, "failed", 0, 0)
    /\ Answer(h, "failed")
    /\ UNCHANGED retries

\* (mutant) A retry costs nothing.
Mutant_Retry(h) ==
    /\ MayRetry(h)
    /\ pc' = [pc EXCEPT ![h] = "read"]
    /\ UNCHANGED <<cache, reports, retries>>

\* The state just read seeds the next attempt, which reads only what came after.
Retry(h) ==
    /\ MayRetry(h)
    /\ retries' = [retries EXCEPT ![h] = @ - 1]
    /\ pc' = [pc EXCEPT ![h] = "read"]
    /\ UNCHANGED <<cache, reports>>

AppendRefused(h) ==
    /\ pc[h] = "append" /\ ~AppendCondition(h)
    /\ Retry(h) \/ Exhausted(h)
    /\ UNCHANGED <<storage, messages, cmd, model, head, repeated, decided, readEnd, faults>>

\* A storage failure, with nothing stored or with the answer of a write lost.
AppendFails(h) ==
    /\ pc[h] = "append" /\ Fault
    /\ UNCHANGED log \/ (AppendCondition(h) /\ StoredBy(h))
    /\ Retry(h) \/ Exhausted(h)
    /\ UNCHANGED <<published, messages, cmd, model, head, repeated, decided, readEnd>>

-----------------------------------------------------------------------------
(* handleCommands' results: Ok deletes the message, Error leaves it.          *)

EndWork(h) ==
    /\ pc' = [pc EXCEPT ![h] = "idle"]
    /\ cmd' = [cmd EXCEPT ![h] = NoEntry]
    /\ model' = [model EXCEPT ![h] = {}]
    /\ head' = [head EXCEPT ![h] = 0]
    /\ repeated' = [repeated EXCEPT ![h] = FALSE]
    /\ decided' = [decided EXCEPT ![h] = <<>>]
    /\ retries' = [retries EXCEPT ![h] = 0]
    /\ readEnd' = [readEnd EXCEPT ![h] = 0]

Settle(h) ==
    /\ \/ pc[h] = "answered" /\ queue' = queue \ {cmd[h]} /\ UNCHANGED faults
       \/ pc[h] = "failed" /\ UNCHANGED <<queue, faults>>
       \/ pc[h] = "answered" /\ UNCHANGED queue /\ Fault  \* the delete failed
    /\ EndWork(h)
    /\ UNCHANGED <<storage, cache, received, dead, reports>>

\* The read throws: the invocation ends with no results at all.
ReadFails(h) ==
    /\ pc[h] = "read" /\ Fault
    /\ EndWork(h)
    /\ UNCHANGED <<storage, cache, messages, reports>>

Evict(c, key) ==
    /\ cache[c][key] # NoEntry
    /\ cache' = [cache EXCEPT ![c][key] = NoEntry]
    /\ UNCHANGED <<storage, messages, pc, cmd, model, head, repeated, decided, retries,
                   reports, readEnd, faults>>

\* A container goes away with everything it held in memory.
Restart(c) ==
    LET Reset(f, zero) == [h \in Handlers |-> IF Home[h] = c THEN zero ELSE f[h]] IN
    /\ Fault
    /\ cache' = [cache EXCEPT ![c] = [k \in CacheKeys |-> NoEntry]]
    /\ pc' = Reset(pc, "idle") /\ cmd' = Reset(cmd, NoEntry)
    /\ model' = Reset(model, {}) /\ head' = Reset(head, 0)
    /\ repeated' = Reset(repeated, FALSE) /\ decided' = Reset(decided, <<>>)
    /\ retries' = Reset(retries, 0) /\ readEnd' = Reset(readEnd, 0)
    /\ UNCHANGED <<storage, messages, reports>>

-----------------------------------------------------------------------------
Work(h) ==
    \/ Read(h) \/ ReadFails(h) \/ DropRepeat(h) \/ Conclude(h) \/ Produce(h) \/ SealFails(h)
    \/ AppendStored(h) \/ Publish(h) \/ AppendRefused(h) \/ AppendFails(h) \/ Settle(h)

Next ==
    \/ \E h \in Handlers : Work(h) \/ \E c \in Commands : Deliver(h, c)
    \/ \E c \in Containers : Restart(c) \/ \E key \in CacheKeys : Evict(c, key)
    \/ \E c \in Commands : DeadLetter(c)

Spec == Init /\ [][Next]_vars

FairSpec ==
    /\ Spec
    /\ \A h \in Handlers : WF_vars(Work(h))
    /\ \A c \in Commands : SF_vars(\E h \in Handlers : Deliver(h, c)) /\ WF_vars(DeadLetter(c))
-----------------------------------------------------------------------------
TypeOK ==
    /\ log \in Seq(Entry) /\ published \subseteq Nat
    /\ cache \in [Containers -> [CacheKeys -> Memo \cup {NoEntry}]]
    /\ queue \subseteq Commands /\ dead \subseteq Commands
    /\ received \in [Commands -> 0..MaxReceive]
    /\ pc \in [Handlers -> {"idle", "read", "decide", "append", "publish", "answered", "failed"}]
    /\ cmd \in [Handlers -> Commands \cup {NoEntry}]
    /\ \A h \in Handlers : pc[h] # "idle" => cmd[h] \in Commands
    /\ model \in [Handlers -> SUBSET Nat] /\ head \in [Handlers -> Nat]
    /\ repeated \in [Handlers -> BOOLEAN]
    /\ decided \in [Handlers -> Seq(Stored)]
    /\ retries \in [Handlers -> 0..MaxRetries]
    /\ reports \subseteq Report /\ readEnd \in [Handlers -> Nat]
    /\ faults \in 0..MaxFaults

\* What a command is decided on by everything before position n.
DecisionAt(hist, c, n) == Verdict(EventsAt(hist, ModelAt(hist, c, n - 1)), c)

\* Entry i belongs to a run j..k of one command's events that is what decide
\* returns on every matching event before it.
Justified(hist, i) ==
    LET c == hist[i].cmd IN
    \E j \in 1..i, k \in i..Len(hist) :
        /\ \A m \in j..k : hist[m].cmd = c
        /\ DecisionAt(hist, c, j) = [m \in 1..(k - j + 1) |-> hist[j + m - 1].event]

(* Every stored event was decided on exactly the events its command's query   *)
(* selects among those stored before it, whatever the read consistency, the   *)
(* caches, the retries and the other slices' appends: the log is serial.      *)
DecidedOnItsPast == \A i \in DOMAIN log : Justified(log, i)

OldState(c, memo) == memo.head <= Len(log) /\ memo.model = ModelAt(log, c, memo.head)

(* A cache entry is the state at its head: the delta read after it finds       *)
(* every matching event the entry lacks, those of its own append included.    *)
CacheIsOldState ==
    \A ct \in Containers, c \in Commands :
        LET entry == cache[ct][CacheKey[c]] IN entry # NoEntry => OldState(c, entry)

Positions(hist, c) == {i \in DOMAIN hist : hist[i].cmd = c}

DecidedOnce(hist, c) ==
    Positions(hist, c) # {} =>
        \E j \in Positions(hist, c) :
            LET verdict == DecisionAt(hist, c, j) IN
            /\ verdict # Rejected
            /\ Positions(hist, c) = j..(j + Len(verdict) - 1)

(* A command with a stable id takes effect once, however often it is delivered *)
(* and whatever its append's answer was, when its query selects its own events *)
(* (queryEventTypesWithOwn).                                                  *)
StableDecidedOnce ==
    \A c \in Stable :
        (\A i \in Positions(log, c) : log[i].event \in Selects[c]) => DecidedOnce(log, c)

(* A command reported accepted with events has them in the log, at the        *)
(* positions its append wrote.                                               *)
AcceptedIsStored ==
    \A r \in reports : r.kind = "accepted" =>
        \A i \in r.from + 1 .. r.from + r.count : i \in DOMAIN log /\ log[i].cmd = r.cmd

(* A message is deleted only once its command has an outcome of the model's:  *)
(* a lost seal, an exhausted retry and a restart leave it for redelivery.     *)
DeletedHasOutcome ==
    \A c \in Commands \ (queue \cup dead) : \E r \in reports : r.cmd = c /\ r.kind # "failed"

(* EscalateOnRetry: a retry is refused only for an event stored since it read, *)
(* never for one the replica still lacked.                                    *)
LagSelfHeals ==
    \A h \in Handlers :
        /\ ReadConsistency = "EscalateOnRetry" /\ retries[h] < MaxRetries
        /\ pc[h] = "append" /\ readEnd[h] = Len(log)
        => AppendCondition(h)

(* What each invocation holds while it works, on which the properties above   *)
(* rest: the state at its head, a decision on that state, no event of its own *)
(* among those it went on after, everything up to a strong read's end, and    *)
(* what it publishes in the log.                                             *)
DecidesOnOldState(h) ==
    /\ pc[h] \in {"read", "decide", "append", "publish"} => OldState(cmd[h], Snapshot(h))
    /\ pc[h] = "append" => decided[h] = Verdict(EventsAt(log, model[h]), cmd[h])

OwnUnseen(h) ==
    /\ cmd[h] \in Stable
    /\ pc[h] \in {"read", "append"} \/ (pc[h] = "decide" /\ ~repeated[h])
    => \A i \in 1..head[h] : log[i].cmd = cmd[h] => log[i].event \notin Selects[cmd[h]]

StrongReadIsFull(h) ==
    pc[h] \in {"decide", "append"} =>
        /\ readEnd[h] <= Len(log)
        /\ ReadConsistency = "EscalateOnRetry" /\ retries[h] < MaxRetries
           => Matching(cmd[h], head[h] + 1, readEnd[h]) = {}

PublishStored(h) ==
    pc[h] = "publish" =>
        \A i \in readEnd[h] + 1 .. readEnd[h] + Len(decided[h]) :
            i \in DOMAIN log /\ log[i].cmd = cmd[h]

HandlerInv(h) ==
    DecidesOnOldState(h) /\ OwnUnseen(h) /\ StrongReadIsFull(h) /\ PublishStored(h)

WorkInv == \A h \in Handlers : HandlerInv(h)

(* The inductive invariant: types, and what every invocation holds while it      *)
(* works (handleCommand).                                                     *)
IndInv == TypeOK /\ WorkInv

(* Every invocation ends, whatever conflicts and failures it meets.           *)
HandlingEnds == \A h \in Handlers : pc[h] # "idle" ~> pc[h] = "idle"

(* Every command is in the end answered and deleted, or dead-lettered.        *)
EveryCommandSettled == \A c \in Commands : <>(c \notin queue)
-----------------------------------------------------------------------------
(* What a comment says of the program and the code does not do.              *)

(* attempt's comment on strongConsistency: correctness is the same in every   *)
(* mode, a stale read can only cost a rejected append and a retry.  Then a     *)
(* rejection is decided on everything that was stored when the slice read.    *)
RejectionSeesStored ==
    [][\A h \in Handlers :
          Conclude(h) /\ Verdict(EventsAt(log, model[h]), cmd[h]) = Rejected
          => model[h] = ModelAt(log, cmd[h], readEnd[h])]_vars
=============================================================================
