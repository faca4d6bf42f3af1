-------------------------- MODULE Aggregate_proofs --------------------------
(***************************************************************************)
(* Proofs about the aggregate handler, for any number of containers,        *)
(* invocations, commands, deliveries, conflict retries and failures.        *)
(***************************************************************************)
EXTENDS Aggregate, SequenceTheorems, FiniteSetTheorems, TLAPS

----------------------------------------------------------------------------
(* Histories and their prefixes.  A cached, snapshotted or replayed state is   *)
(* a prefix of a log that only grows; the condition of an append is about the   *)
(* length of one.                                                            *)

\* A prefix, element by element.
LEMMA PrefixPointwise ==
    ASSUME NEW S, NEW s \in Seq(S), NEW t \in Seq(S)
    PROVE  IsPrefix(s, t) <=> Len(s) <= Len(t) /\ \A i \in 1..Len(s) : s[i] = t[i]
  BY DEF IsPrefix

\* A history is a prefix of itself.
LEMMA PrefixOfItself ==
    ASSUME NEW S, NEW s \in Seq(S)
    PROVE  IsPrefix(s, s)
  BY DEF IsPrefix

\* A history is a prefix of whatever is appended to it.
LEMMA PrefixOfConcat ==
    ASSUME NEW S, NEW s \in Seq(S), NEW t \in Seq(S)
    PROVE  IsPrefix(s, s \o t)
  <1>1. s \o t \in Seq(S)  OBVIOUS
  <1>2. Len(s) <= Len(s \o t) /\ \A i \in 1..Len(s) : s[i] = (s \o t)[i]  OBVIOUS
  <1> QED  BY <1>1, <1>2, PrefixPointwise

\* Appending to a history keeps its prefixes.
LEMMA PrefixTransitive ==
    ASSUME NEW S, NEW r \in Seq(S), NEW s \in Seq(S), NEW t \in Seq(S),
           IsPrefix(r, s), IsPrefix(s, t)
    PROVE  IsPrefix(r, t)
  <1>1. Len(r) <= Len(s) /\ \A i \in 1..Len(r) : r[i] = s[i]  BY PrefixPointwise
  <1>2. Len(s) <= Len(t) /\ \A i \in 1..Len(s) : s[i] = t[i]  BY PrefixPointwise
  <1>3. Len(r) <= Len(t) /\ \A i \in 1..Len(r) : r[i] = t[i]  BY <1>1, <1>2
  <1> QED  BY <1>3, PrefixPointwise

\* The prefix of a history with the length of the history is the history:
\* what the condition of an append relies on.
LEMMA FullPrefixIsEqual ==
    ASSUME NEW S, NEW s \in Seq(S), NEW t \in Seq(S), IsPrefix(s, t), Len(s) = Len(t)
    PROVE  s = t
  <1>1. \A i \in 1..Len(s) : s[i] = t[i]  BY PrefixPointwise
  <1> QED  BY <1>1, SeqEqual

\* A prefix has the parts of the history.
LEMMA PrefixParts ==
    ASSUME NEW S, NEW s \in Seq(S), NEW t \in Seq(S), IsPrefix(s, t),
           NEW j \in 1..(Len(s) + 1), NEW k \in 0..Len(s)
    PROVE  SubSeq(s, j, k) = SubSeq(t, j, k)
  <1>1. Len(s) <= Len(t) /\ \A i \in 1..Len(s) : s[i] = t[i]  BY PrefixPointwise
  <1> QED  BY <1>1

\* A prefix followed by what the history holds after it is the history.
LEMMA PrefixPlusRest ==
    ASSUME NEW S, NEW s \in Seq(S), NEW t \in Seq(S), IsPrefix(s, t)
    PROVE  s \o SubSeq(t, Len(s) + 1, Len(t)) = t
  <1> DEFINE rest == SubSeq(t, Len(s) + 1, Len(t))
  <1>1. Len(s) <= Len(t) /\ \A i \in 1..Len(s) : s[i] = t[i]  BY PrefixPointwise
  <1>2. rest \in Seq(S) /\ Len(rest) = Len(t) - Len(s)
        /\ \A i \in 1..Len(rest) : rest[i] = t[Len(s) + i]
    BY <1>1
  <1>3. s \o rest \in Seq(S) /\ Len(s \o rest) = Len(t)  BY <1>1, <1>2
  <1>4. \A i \in 1..Len(t) : (s \o rest)[i] = t[i]  BY <1>1, <1>2
  <1> QED  BY <1>3, <1>4, SeqEqual

\* Concatenation is associative.
LEMMA ConcatAssociates ==
    ASSUME NEW S, NEW r \in Seq(S), NEW s \in Seq(S), NEW t \in Seq(S)
    PROVE  r \o (s \o t) = (r \o s) \o t
  <1> DEFINE one == r \o (s \o t)
             two == (r \o s) \o t
  <1>1. s \o t \in Seq(S) /\ r \o s \in Seq(S)  OBVIOUS
  <1>2. one \in Seq(S) /\ Len(one) = Len(r) + (Len(s) + Len(t))  BY <1>1
  <1>3. two \in Seq(S) /\ Len(two) = Len(one)  BY <1>1, <1>2
  <1>4. ASSUME NEW i \in 1..Len(one) PROVE one[i] = two[i]
    <2>1. CASE i <= Len(r)  BY <1>1, <1>2, <2>1
    <2>2. CASE Len(r) < i /\ i <= Len(r) + Len(s)
      <3>1. one[i] = (s \o t)[i - Len(r)]  BY <1>1, <1>2, <2>2
      <3>2. two[i] = (r \o s)[i]  BY <1>1, <1>2, <2>2
      <3> QED  BY <3>1, <3>2, <2>2
    <2>3. CASE Len(r) + Len(s) < i
      <3>1. one[i] = (s \o t)[i - Len(r)]  BY <1>1, <1>2, <2>3
      <3>2. two[i] = t[i - Len(r \o s)]  BY <1>1, <1>2, <2>3
      <3> QED  BY <3>1, <3>2, <1>2, <2>3
    <2> QED  BY <1>2, <2>1, <2>2, <2>3
  <1> QED  BY <1>2, <1>3, <1>4, SeqEqual

----------------------------------------------------------------------------
(* Types.                                                                    *)

\* A batch of the queue is a sequence of commands, and a command has a number
\* of copies in it.
LEMMA BatchType ==
    ASSUME NEW b \in Batches
    PROVE  b \in Seq(Commands) /\ \A c \in Commands : Copies(b, c) \in Nat
  <1>1. PICK n \in 1..MaxBatch : b \in [1..n -> Commands]  BY DEF Batches
  <1>2. n \in Nat  BY <1>1, BoundsAreNaturals
  <1>3. b \in Seq(Commands)  BY <1>1, <1>2
  <1>4. ASSUME NEW c \in Commands PROVE Copies(b, c) \in Nat
    <2>1. IsFiniteSet(1..n)  BY <1>2, FS_Interval
    <2>2. {i \in DOMAIN b : b[i] = c} \subseteq 1..n  BY <1>1
    <2> QED  BY <2>1, <2>2, FS_Subset, FS_CardinalityType DEF Copies
  <1> QED  BY <1>3, <1>4

\* A verdict is a sequence of events or a rejection.
LEMMA VerdictType ==
    ASSUME NEW hist, NEW c
    PROVE  Verdict(hist, c) \in Seq(Events) \cup {Rejected}
  BY DEF Verdict

\* The events of a decision, as entries of the history.
LEMMA CausedType ==
    ASSUME NEW c \in Commands, NEW evs \in Seq(Events)
    PROVE  /\ Caused(evs, c) \in History /\ Len(Caused(evs, c)) = Len(evs)
           /\ \A i \in 1..Len(evs) : Caused(evs, c)[i] = [event |-> evs[i], cmd |-> c]
  <1>1. Len(evs) \in Nat /\ DOMAIN evs = 1..Len(evs)
        /\ \A i \in 1..Len(evs) : evs[i] \in Events
    OBVIOUS
  <1>2. Caused(evs, c) = [i \in 1..Len(evs) |-> [event |-> evs[i], cmd |-> c]]
    BY <1>1 DEF Caused
  <1>3. \A i \in 1..Len(evs) : [event |-> evs[i], cmd |-> c] \in Entry
    BY <1>1 DEF Entry
  <1>4. Caused(evs, c) \in [1..Len(evs) -> Entry]  BY <1>2, <1>3
  <1>5. Caused(evs, c) \in Seq(Entry) /\ Len(Caused(evs, c)) = Len(evs)
    BY <1>1, <1>4
  <1> QED  BY <1>2, <1>5 DEF History

ReportsTyped ==
    /\ reports' \subseteq Report
    /\ settled' \in [Handlers -> SUBSET Commands]
    /\ pc' \in [Handlers -> {"idle", "start", "replay", "decide", "publish", "settle"}]

\* What reportFinalOutcomes reports and answers.
LEMMA ReportsType ==
    ASSUME TypeOK, NEW h \in Handlers, NEW ok \in BOOLEAN, ReportFinalOutcomes(h, ok)
    PROVE  ReportsTyped
  <1> DEFINE report == {ReportOf(h, outcomes[h][i], ok) : i \in DOMAIN outcomes[h]}
  <1>1. ASSUME NEW i \in DOMAIN outcomes[h]
        PROVE  ReportOf(h, outcomes[h][i], ok) \in Report
    <2>1. outcomes[h][i] \in Outcome  BY <1>1 DEF TypeOK
    <2>2. Len(toAppend[h]) \in Nat /\ seqNr[h] \in Nat  BY DEF TypeOK, History
    <2> QED  BY <2>1, <2>2 DEF ReportOf, Report, Outcome
  <1>2. report \subseteq Report  BY <1>1
  <1>3. {r.cmd : r \in {s \in report : AnsweredOk(s)}} \subseteq Commands
    BY <1>2 DEF Report
  <1> QED  BY <1>2, <1>3 DEF ReportFinalOutcomes, ReportsTyped, TypeOK

\* A dropped cache entry.
LEMMA InvalidateType ==
    ASSUME TypeOK, NEW h \in Handlers, Invalidate(h)
    PROVE  cache' \in [Containers -> Memo \cup {NoEntry}]
  BY DEF Invalidate, TypeOK

\* The stream after an append of a handler's events.
LEMMA AppendedType ==
    ASSUME TypeOK, NEW h \in Handlers
    PROVE  log \o toAppend[h] \in History /\ Folded(h) \in History
  <1>1. log \in Seq(Entry) /\ base[h] \in Seq(Entry) /\ toAppend[h] \in Seq(Entry)
    BY DEF TypeOK, History
  <1> QED  BY <1>1 DEF Folded, History

\* TypeOK is inductive.
LEMMA TypeStep ==
    ASSUME TypeOK, [Next]_vars
    PROVE  TypeOK'
  <1> USE BoundsAreNaturals, HandlersHaveHomes
  <1>1. ASSUME NEW h \in Handlers, NEW b \in Batches, Deliver(h, b) PROVE TypeOK'
    <2>1. b \in Seq(Commands) /\ \A c \in Commands : Copies(b, c) \in Nat  BY BatchType
    <2>2. received' \in [Commands -> 0..MaxReceive]  BY <1>1, <2>1 DEF Deliver, TypeOK
    <2>3. AcceptedEnds \subseteq Nat  BY DEF AcceptedEnds, TypeOK, Report
    <2> QED  BY <1>1, <2>1, <2>2, <2>3 DEF Deliver, TypeOK, storage, work
  <1>2. ASSUME NEW h \in Handlers, ReadCauses(h) PROVE TypeOK'
    <2>1. Causes(log) \subseteq Commands
      <3>1. log \in Seq(Entry)  BY DEF TypeOK, History
      <3>2. \A i \in DOMAIN log : log[i] \in Entry  BY <3>1
      <3> QED  BY <3>2 DEF Causes, Entry
    <2>2. Len(log) \in Nat  BY DEF TypeOK, History
    <2> QED  BY <1>2, <2>1, <2>2 DEF ReadCauses, Fresh, TypeOK, storage, messages, History
  <1>3. ASSUME NEW h \in Handlers, ReadCached(h) PROVE TypeOK'
    <2>1. cache[Home[h]] \in Memo  BY <1>3 DEF ReadCached, TypeOK
    <2> QED  BY <1>3, <2>1 DEF ReadCached, Fresh, TypeOK, storage, messages, History, Memo
  <1>4. ASSUME NEW h \in Handlers, ReadSnapshot(h) PROVE TypeOK'
    <2>1. <<>> \in History /\ 0 \in Nat  BY DEF History
    <2>2. [state |-> <<>>, seqNr |-> 0] \in Memo  BY <2>1 DEF Memo
    <2>3. Seeds \subseteq Memo  BY <2>2 DEF Seeds, TypeOK
    <2> QED  BY <1>4, <2>1, <2>3 DEF ReadSnapshot, Fresh, TypeOK, storage, messages, Memo
  <1>5. ASSUME NEW h \in Handlers, ReplayStream(h) PROVE TypeOK'
    <2> DEFINE delta == SubSeq(log, seqNr[h] + 1, Len(log))
    <2>1. log \in Seq(Entry) /\ seqNr[h] \in Nat /\ base[h] \in Seq(Entry)
      BY DEF TypeOK, History
    <2>2. delta \in History /\ Len(delta) \in Nat  BY <2>1 DEF History
    <2>3. base[h] \o delta \in History  BY <2>1, <2>2 DEF History
    <2>4. seqNr[h] + Len(delta) \in Nat  BY <2>1, <2>2
    <2>5. base' = [base EXCEPT ![h] = @ \o delta] /\ seqNr' = [seqNr EXCEPT ![h] = @ + Len(delta)]
      BY <1>5 DEF ReplayStream
    <2> HIDE DEF delta
    <2>6. base' \in [Handlers -> History] /\ seqNr' \in [Handlers -> Nat]
      BY <2>3, <2>4, <2>5 DEF TypeOK
    <2> QED  BY <1>5, <2>6 DEF ReplayStream, TypeOK, storage, messages
  <1>6. ASSUME NEW h \in Handlers, ProcessCommand(h) PROVE TypeOK'
    <2> DEFINE c == batch[h][Len(outcomes[h]) + 1]
               verdict == Verdict(Folded(h), c)
    <2>1. c \in Commands
      <3>1. batch[h] \in Seq(Commands) /\ outcomes[h] \in Seq(Outcome)  BY DEF TypeOK
      <3>2. Len(outcomes[h]) < Len(batch[h])  BY <1>6 DEF ProcessCommand, Undecided
      <3>3. Len(outcomes[h]) + 1 \in DOMAIN batch[h]  BY <3>1, <3>2
      <3> QED  BY <3>1, <3>3
    <2>2. ASSUME NEW kind \in {"ok", "rejected", "repeated"}, NEW evs \in Seq(Events),
                 Record(h, c, kind, evs)
          PROVE  outcomes' \in [Handlers -> Seq(Outcome)] /\ toAppend' \in [Handlers -> History]
      <3>1. [cmd |-> c, kind |-> kind, own |-> Len(evs)] \in Outcome
        BY <2>1 DEF Outcome
      <3>2. Caused(evs, c) \in Seq(Entry)  BY <2>1, CausedType DEF History
      <3>3. toAppend[h] \o Caused(evs, c) \in History  BY <3>2 DEF TypeOK, History
      <3> QED  BY <2>2, <3>1, <3>3 DEF Record, TypeOK
    <2>3. <<>> \in Seq(Events) /\ verdict \in Seq(Events) \cup {Rejected}  BY VerdictType
    <2>4. outcomes' \in [Handlers -> Seq(Outcome)] /\ toAppend' \in [Handlers -> History]
      BY <1>6, <2>2, <2>3 DEF ProcessCommand
    <2>5. causes' \in [Handlers -> SUBSET Commands]
      <3>1. causes' = causes \/ causes' = [causes EXCEPT ![h] = @ \cup {c}]
        BY <1>6 DEF ProcessCommand
      <3>2. causes \in [Handlers -> SUBSET Commands]  BY DEF TypeOK
      <3> HIDE DEF c
      <3> QED  BY <2>1, <3>1, <3>2
    <2> QED  BY <1>6, <2>4, <2>5 DEF ProcessCommand, TypeOK, storage, messages
  <1>7. ASSUME NEW h \in Handlers, NoEvents(h) PROVE TypeOK'
    <2>1. [state |-> base[h], seqNr |-> seqNr[h]] \in Memo  BY DEF TypeOK, Memo
    <2>2. cache' \in [Containers -> Memo \cup {NoEntry}]  BY <1>7, <2>1 DEF NoEvents, TypeOK
    <2>3. ReportsTyped  BY <1>7, ReportsType DEF NoEvents
    <2> QED
      BY <1>7, <2>2, <2>3 DEF NoEvents, ReportsTyped, TypeOK, storage, messages, work
  <1>8. ASSUME NEW h \in Handlers, AppendStored(h) PROVE TypeOK'
    <2>1. log' \in History  BY <1>8, AppendedType DEF AppendStored, TypeOK
    <2> QED  BY <1>8, <2>1 DEF AppendStored, TypeOK, messages, work
  <1>9. ASSUME NEW h \in Handlers, AppendConflict(h) PROVE TypeOK'
    <2>1. cache' \in [Containers -> Memo \cup {NoEntry}]  BY <1>9, InvalidateType DEF AppendConflict
    <2>2. /\ retries' \in [Handlers -> 0..MaxConflictRetries]
          /\ settled' \in [Handlers -> SUBSET Commands]
      <3>1. retries[h] \in 0..MaxConflictRetries /\ retries \in [Handlers -> 0..MaxConflictRetries]
            /\ settled \in [Handlers -> SUBSET Commands]
        BY DEF TypeOK
      <3>2. CASE retries[h] < MaxConflictRetries /\ UNCHANGED settled
                 /\ retries' = [retries EXCEPT ![h] = @ + 1]
        <4>1. retries[h] + 1 \in 0..MaxConflictRetries  BY <3>1, <3>2
        <4> QED  BY <3>1, <3>2, <4>1
      <3>3. CASE settled' = [settled EXCEPT ![h] = {}] /\ UNCHANGED retries
        BY <3>1, <3>3
      <3> QED  BY <1>9, <3>2, <3>3 DEF AppendConflict, MayRetry
    <2>3. pc' \in [Handlers -> {"idle", "start", "replay", "decide", "publish", "settle"}]
      BY <1>9 DEF AppendConflict, TypeOK
    <2> QED  BY <1>9, <2>1, <2>2, <2>3 DEF AppendConflict, TypeOK, storage, messages, work
  <1>10. ASSUME NEW h \in Handlers, AppendFails(h) PROVE TypeOK'
    <2>1. cache' \in [Containers -> Memo \cup {NoEntry}]  BY <1>10, InvalidateType DEF AppendFails
    <2>2. faults' \in 0..MaxFaults  BY <1>10 DEF AppendFails, Fault, TypeOK
    <2>3. ReportsTyped  BY <1>10, ReportsType DEF AppendFails
    <2> QED  BY <1>10, <2>1, <2>2, <2>3 DEF AppendFails, ReportsTyped, TypeOK, storage, messages, work
  <1>11. ASSUME NEW h \in Handlers, AppendAnswerLost(h) PROVE TypeOK'
    <2>1. log' \in History  BY <1>11, AppendedType DEF AppendAnswerLost, TypeOK
    <2>2. cache' \in [Containers -> Memo \cup {NoEntry}]
      BY <1>11, InvalidateType DEF AppendAnswerLost, TypeOK
    <2>3. ReportsTyped  BY <1>11, ReportsType DEF AppendAnswerLost, TypeOK, ReportsTyped
    <2>4. faults' \in 0..MaxFaults  BY <1>11 DEF AppendAnswerLost, Fault, TypeOK
    <2> QED
      BY <1>11, <2>1, <2>2, <2>3, <2>4 DEF AppendAnswerLost, ReportsTyped, TypeOK, messages, work
  <1>12. ASSUME NEW h \in Handlers, Publish(h) PROVE TypeOK'
    <2>1. PostAppend(h) \in Memo /\ Appended(h) \subseteq Nat
      <3>1. seqNr[h] \in Nat /\ Len(toAppend[h]) \in Nat  BY DEF TypeOK, History
      <3> QED  BY <3>1, AppendedType DEF PostAppend, Appended, Memo
    <2>2. /\ cache' \in [Containers -> Memo \cup {NoEntry}]
          /\ snapWrites' \subseteq Memo /\ published' \subseteq Nat
      BY <1>12, <2>1 DEF Publish, TypeOK
    <2>3. ReportsTyped  BY <1>12, ReportsType DEF Publish
    <2> QED  BY <1>12, <2>2, <2>3 DEF Publish, ReportsTyped, TypeOK, messages, work
  <1>13. ASSUME NEW h \in Handlers, PublishFails(h) PROVE TypeOK'
    <2>1. Appended(h) \subseteq Nat  BY DEF Appended, TypeOK, History
    <2>2. published' \subseteq Nat  BY <1>13, <2>1 DEF PublishFails, TypeOK
    <2>3. cache' \in [Containers -> Memo \cup {NoEntry}]  BY <1>13, InvalidateType DEF PublishFails
    <2>4. ReportsTyped  BY <1>13, ReportsType DEF PublishFails
    <2>5. faults' \in 0..MaxFaults  BY <1>13 DEF PublishFails, Fault, TypeOK
    <2> QED
      BY <1>13, <2>2, <2>3, <2>4, <2>5 DEF PublishFails, ReportsTyped, TypeOK, messages, work
  <1>14. ASSUME NEW h \in Handlers, Settle(h) \/ SettleFails(h) PROVE TypeOK'
    <2>1. EndWork(h)  BY <1>14 DEF Settle, SettleFails
    <2>2. <<>> \in History  BY DEF History
    <2>3. /\ pc' \in [Handlers -> {"idle", "start", "replay", "decide", "publish", "settle"}]
          /\ batch' \in [Handlers -> Seq(Commands)] /\ base' \in [Handlers -> History]
          /\ seqNr' \in [Handlers -> Nat] /\ causes' \in [Handlers -> SUBSET Commands]
      BY <2>1, <2>2 DEF EndWork, TypeOK
    <2>4. /\ outcomes' \in [Handlers -> Seq(Outcome)] /\ toAppend' \in [Handlers -> History]
          /\ retries' \in [Handlers -> 0..MaxConflictRetries]
          /\ settled' \in [Handlers -> SUBSET Commands] /\ floor' \in [Handlers -> SUBSET Nat]
      BY <2>1, <2>2 DEF EndWork, TypeOK
    <2>5. queue' \subseteq Commands /\ faults' \in 0..MaxFaults
      BY <1>14 DEF Settle, SettleFails, Fault, TypeOK, messages
    <2> QED
      BY <1>14, <2>3, <2>4, <2>5 DEF Settle, SettleFails, TypeOK, storage, messages
  <1>15. ASSUME NEW memo \in snapWrites, SnapshotLands(memo) \/ SnapshotWriteLost(memo)
         PROVE  TypeOK'
    BY <1>15 DEF SnapshotLands, SnapshotWriteLost, TypeOK, messages, work
  <1>16. ASSUME NEW c \in Containers, Evict(c) PROVE TypeOK'
    BY <1>16 DEF Evict, TypeOK, storage, messages, work
  <1>17. ASSUME NEW c \in Containers, Restart(c) PROVE TypeOK'
    BY <1>17 DEF Restart, Fault, TypeOK, storage, messages, History
  <1>18. ASSUME NEW c \in Commands, DeadLetter(c) PROVE TypeOK'
    BY <1>18 DEF DeadLetter, TypeOK, storage, work
  <1>19. CASE UNCHANGED vars
    BY <1>19 DEF vars, TypeOK
  <1> QED
    BY <1>1, <1>2, <1>3, <1>4, <1>5, <1>6, <1>7, <1>8, <1>9, <1>10, <1>11, <1>12, <1>13,
       <1>14, <1>15, <1>16, <1>17, <1>18, <1>19 DEF Next, Work

\* Every variable keeps its type.
THEOREM TypeCorrect == Spec => []TypeOK
  <1>1. Init => TypeOK
    <2> SUFFICES ASSUME Init PROVE TypeOK  OBVIOUS
    <2>1. <<>> \in History /\ <<>> \in Seq(Commands) /\ <<>> \in Seq(Outcome)  BY DEF History
    <2>2. 0 \in 0..MaxReceive /\ 0 \in 0..MaxConflictRetries /\ 0 \in 0..MaxFaults
      BY BoundsAreNaturals
    <2> QED  BY <2>1, <2>2 DEF Init, TypeOK
  <1>2. TypeOK /\ [Next]_vars => TypeOK'  BY TypeStep
  <1> QED  BY <1>1, <1>2, PTL DEF Spec

----------------------------------------------------------------------------
(* What makes a history a serial execution, and a command decided once.      *)

\* An entry justified in a history stays justified when the history grows.
LEMMA JustifiedStays ==
    ASSUME NEW s \in History, NEW t \in History, IsPrefix(s, t),
           NEW i \in DOMAIN s, Justified(s, i)
    PROVE  Justified(t, i)
  <1>1. s \in Seq(Entry) /\ t \in Seq(Entry)  BY DEF History
  <1>2. PICK j \in 1..i, k \in i..Len(s) :
            /\ \A m \in j..k : s[m].cmd = s[i].cmd
            /\ Verdict(SubSeq(s, 1, j - 1), s[i].cmd) = EventsOf(SubSeq(s, j, k))
    BY DEF Justified
  <1>3. /\ Len(s) \in Nat /\ Len(t) \in Nat /\ Len(s) <= Len(t) /\ DOMAIN s = 1..Len(s)
        /\ \A m \in 1..Len(s) : s[m] = t[m]
    BY <1>1, PrefixPointwise
  <1>4. /\ i \in 1..Len(s) /\ j \in 1..i /\ k \in i..Len(t)
        /\ \A m \in j..k : m \in 1..Len(s)
    BY <1>2, <1>3
  <1>5. SubSeq(t, 1, j - 1) = SubSeq(s, 1, j - 1)
    <2>1. 1 \in 1..(Len(s) + 1) /\ j - 1 \in 0..Len(s)  BY <1>3, <1>4
    <2> QED  BY <2>1, <1>1, PrefixParts
  <1>6. SubSeq(t, j, k) = SubSeq(s, j, k)
    <2>1. j \in 1..(Len(s) + 1) /\ k \in 0..Len(s)  BY <1>2, <1>3, <1>4
    <2> QED  BY <2>1, <1>1, PrefixParts
  <1>7. t[i] = s[i] /\ \A m \in j..k : t[m].cmd = t[i].cmd  BY <1>2, <1>3, <1>4
  <1> QED  BY <1>2, <1>4, <1>5, <1>6, <1>7 DEF Justified

\* The history a decision leaves: where its events are, and what precedes them.
LEMMA AfterDecision ==
    ASSUME NEW s \in History, NEW c \in Commands, NEW evs \in Seq(Events)
    PROVE  LET t == s \o Caused(evs, c) IN
           /\ t \in History /\ IsPrefix(s, t) /\ Len(t) = Len(s) + Len(evs)
           /\ SubSeq(t, 1, Len(s)) = s
           /\ \A i \in Len(s) + 1 .. Len(t) : t[i].cmd = c
           /\ EventsOf(SubSeq(t, Len(s) + 1, Len(t))) = evs
  <1> DEFINE new == Caused(evs, c)
             t == s \o new
             part == SubSeq(t, Len(s) + 1, Len(t))
  <1>1. s \in Seq(Entry) /\ new \in Seq(Entry) /\ Len(new) = Len(evs)
        /\ \A i \in 1..Len(evs) : new[i] = [event |-> evs[i], cmd |-> c]
    BY CausedType DEF History
  <1> HIDE DEF new
  <1>2. t \in Seq(Entry) /\ Len(t) = Len(s) + Len(evs) /\ Len(s) \in Nat /\ Len(evs) \in Nat
    BY <1>1
  <1>3. IsPrefix(s, t)  BY <1>1, PrefixOfConcat
  <1>4. SubSeq(t, 1, Len(s)) = s
    <2>1. SubSeq(t, 1, Len(s)) = SubSeq(s, 1, Len(s))
      BY <1>1, <1>2, <1>3, PrefixParts
    <2>2. SubSeq(s, 1, Len(s)) = s  BY <1>1
    <2> QED  BY <2>1, <2>2
  <1>5. \A i \in Len(s) + 1 .. Len(t) :
            i - Len(s) \in 1..Len(evs) /\ t[i] = new[i - Len(s)]
    BY <1>1, <1>2
  <1>6. \A i \in Len(s) + 1 .. Len(t) : t[i].cmd = c
    <2>1. TAKE i \in Len(s) + 1 .. Len(t)
    <2>2. t[i] = new[i - Len(s)] /\ i - Len(s) \in 1..Len(evs)  BY <1>5, <2>1
    <2>3. new[i - Len(s)] = [event |-> evs[i - Len(s)], cmd |-> c]  BY <1>1, <2>2
    <2> QED  BY <2>2, <2>3
  <1>7. part \in Seq(Entry) /\ Len(part) = Len(evs)
        /\ \A i \in 1..Len(evs) : part[i] = [event |-> evs[i], cmd |-> c]
    <2>1. part \in Seq(Entry) /\ Len(part) = Len(evs)
          /\ \A i \in 1..Len(evs) : part[i] = t[Len(s) + i]
      BY <1>2
    <2>2. \A i \in 1..Len(evs) : t[Len(s) + i] = new[i]  BY <1>1, <1>2
    <2> QED  BY <2>1, <2>2, <1>1
  <1> HIDE DEF part
  <1>8. EventsOf(part) = evs
    <2>1. DOMAIN part = 1..Len(evs) /\ DOMAIN evs = 1..Len(evs)  BY <1>7
    <2>2. EventsOf(part) = [i \in 1..Len(evs) |-> evs[i]]  BY <2>1, <1>7 DEF EventsOf
    <2>3. evs = [i \in 1..Len(evs) |-> evs[i]]  BY <2>1
    <2> QED  BY <2>2, <2>3
  <1>9. t \in History  BY <1>2 DEF History
  <1> QED  BY <1>2, <1>3, <1>4, <1>6, <1>8, <1>9 DEF new, part

\* The events of a decision are justified by the state it was taken on.
LEMMA DecisionJustified ==
    ASSUME NEW s \in History, NEW c \in Commands, NEW evs \in Seq(Events),
           Verdict(s, c) = evs,
           NEW i \in Len(s) + 1 .. Len(s \o Caused(evs, c))
    PROVE  Justified(s \o Caused(evs, c), i)
  <1> DEFINE t == s \o Caused(evs, c)
  <1>1. Len(s) \in Nat /\ Len(t) \in Nat
    <2>1. s \in Seq(Entry) /\ t \in Seq(Entry)  BY AfterDecision DEF History
    <2> HIDE DEF t
    <2> QED  BY <2>1
  <1>2. /\ SubSeq(t, 1, Len(s)) = s
        /\ \A m \in Len(s) + 1 .. Len(t) : t[m].cmd = c
        /\ EventsOf(SubSeq(t, Len(s) + 1, Len(t))) = evs
    BY AfterDecision
  <1> HIDE DEF t
  <1>3. Len(s) + 1 \in 1..i /\ Len(t) \in i..Len(t)
    <2>1. i \in Len(s) + 1 .. Len(t)  BY DEF t
    <2> QED  BY <1>1, <2>1
  <1>4. t[i].cmd = c  BY <1>2 DEF t
  <1>5. Verdict(SubSeq(t, 1, (Len(s) + 1) - 1), t[i].cmd) = EventsOf(SubSeq(t, Len(s) + 1, Len(t)))
    <2>1. (Len(s) + 1) - 1 = Len(s)  BY <1>1
    <2> QED  BY <2>1, <1>2, <1>4
  <1>6. \A m \in Len(s) + 1 .. Len(t) : t[m].cmd = t[i].cmd  BY <1>2, <1>4
  <1>7. Justified(t, i)  BY <1>3, <1>5, <1>6 DEF Justified
  <1> QED  BY <1>7 DEF t

\* Entries of other commands leave a command's decision where it was.
LEMMA OnceStays ==
    ASSUME NEW s \in History, NEW t \in History, NEW c,
           DecidedOnce(s, c), \A i \in DOMAIN t : t[i].cmd # c
    PROVE  Positions(s \o t, c) = Positions(s, c) /\ DecidedOnce(s \o t, c)
  <1> DEFINE u == s \o t
  <1>1. s \in Seq(Entry) /\ t \in Seq(Entry) /\ u \in Seq(Entry)  BY DEF History
  <1>2. IsPrefix(s, u)  BY <1>1, PrefixOfConcat
  <1>3. /\ Len(s) \in Nat /\ Len(t) \in Nat /\ Len(u) = Len(s) + Len(t)
        /\ DOMAIN s = 1..Len(s) /\ DOMAIN t = 1..Len(t) /\ DOMAIN u = 1..Len(u)
        /\ \A i \in 1..Len(s) : u[i] = s[i]
        /\ \A i \in Len(s) + 1 .. Len(u) : i - Len(s) \in 1..Len(t) /\ u[i] = t[i - Len(s)]
    BY <1>1
  <1> HIDE DEF u
  <1>4. \A i \in Len(s) + 1 .. Len(u) : u[i].cmd # c  BY <1>3
  <1>5. Positions(u, c) = Positions(s, c)  BY <1>3, <1>4 DEF Positions
  <1>6. ASSUME Positions(s, c) # {} PROVE DecidedOnce(u, c)
    <2> DEFINE Evs(j) == Verdict(SubSeq(s, 1, j - 1), c)
               last(j) == j + Len(Evs(j)) - 1
    <2>1. PICK j \in Positions(s, c) :
              /\ Evs(j) # Rejected
              /\ Positions(s, c) = j..last(j)
              /\ Evs(j) = EventsOf(SubSeq(s, j, last(j)))
      BY <1>6 DEF DecidedOnce
    <2>2. Evs(j) \in Seq(Events)  BY <2>1, VerdictType
    <2>3. j \in 1..Len(s) /\ last(j) \in 1..Len(s)
      <3>1. Positions(s, c) \subseteq 1..Len(s)  BY <1>3 DEF Positions
      <3>2. j \in 1..Len(s) /\ Len(Evs(j)) \in Nat  BY <2>1, <2>2, <3>1
      <3> HIDE DEF Evs
      <3>3. last(j) \in Int /\ j \in j..last(j)  BY <2>1, <3>2
      <3>4. last(j) \in j..last(j)  BY <3>2, <3>3
      <3> QED  BY <2>1, <3>1, <3>2, <3>4
    <2>4. SubSeq(u, 1, j - 1) = SubSeq(s, 1, j - 1)
      <3>1. 1 \in 1..(Len(s) + 1) /\ j - 1 \in 0..Len(s)  BY <1>3, <2>3
      <3> QED  BY <3>1, <1>1, <1>2, PrefixParts
    <2>5. SubSeq(u, j, last(j)) = SubSeq(s, j, last(j))
      <3> HIDE DEF last
      <3>1. j \in 1..(Len(s) + 1) /\ last(j) \in 0..Len(s)  BY <1>3, <2>3
      <3> QED  BY <3>1, <1>1, <1>2, PrefixParts
    <2> QED  BY <1>5, <2>1, <2>4, <2>5 DEF DecidedOnce
  <1>7. ASSUME Positions(s, c) = {} PROVE DecidedOnce(u, c)  BY <1>5, <1>7 DEF DecidedOnce
  <1> QED  BY <1>5, <1>6, <1>7 DEF u

\* The first decision of a command that caused no event yet.
LEMMA OnceDecided ==
    ASSUME NEW s \in History, NEW c \in Commands, NEW evs \in Seq(Events),
           Verdict(s, c) = evs, evs # Rejected, Positions(s, c) = {}
    PROVE  LET t == s \o Caused(evs, c) IN
           /\ Positions(t, c) = Len(s) + 1 .. Len(t)
           /\ DecidedOnce(t, c)
  <1> DEFINE t == s \o Caused(evs, c)
  <1>1. /\ t \in Seq(Entry) /\ IsPrefix(s, t) /\ Len(t) = Len(s) + Len(evs)
        /\ SubSeq(t, 1, Len(s)) = s
        /\ \A i \in Len(s) + 1 .. Len(t) : t[i].cmd = c
        /\ EventsOf(SubSeq(t, Len(s) + 1, Len(t))) = evs
    BY AfterDecision DEF History
  <1>2. s \in Seq(Entry) /\ Len(s) \in Nat /\ Len(evs) \in Nat  BY DEF History
  <1> HIDE DEF t
  <1>3. \A i \in 1..Len(s) : t[i] = s[i] /\ s[i].cmd # c
    <2>1. \A i \in 1..Len(s) : t[i] = s[i]  BY <1>1, <1>2, PrefixPointwise
    <2>2. DOMAIN s = 1..Len(s)  BY <1>2
    <2> QED  BY <2>1, <2>2 DEF Positions
  <1>4. Positions(t, c) = Len(s) + 1 .. Len(t)
    <2>1. DOMAIN t = 1..Len(t)  BY <1>1
    <2> QED  BY <2>1, <1>1, <1>2, <1>3 DEF Positions
  <1>5. ASSUME Positions(t, c) # {} PROVE DecidedOnce(t, c)
    <2> DEFINE j == Len(s) + 1
    <2>1. j \in Positions(t, c)  BY <1>4, <1>5, <1>2, <1>1
    <2>2. j - 1 = Len(s) /\ j + Len(evs) - 1 = Len(t)  BY <1>1, <1>2
    <2>3. Verdict(SubSeq(t, 1, j - 1), c) = evs  BY <2>2, <1>1
    <2>4. Positions(t, c) = j..(j + Len(evs) - 1)  BY <1>4, <2>2
    <2>5. evs = EventsOf(SubSeq(t, j, j + Len(evs) - 1))  BY <2>2, <1>1
    <2> HIDE DEF j
    <2> QED  BY <2>1, <2>3, <2>4, <2>5 DEF DecidedOnce
  <1>6. DecidedOnce(t, c)  BY <1>5 DEF DecidedOnce
  <1> QED  BY <1>4, <1>6 DEF t

----------------------------------------------------------------------------
(* The invariant: the properties and what each invocation holds.             *)

SafeInv ==
    /\ TypeOK /\ DecidedOnItsPast /\ MemosArePrefixes /\ StableDecidedOnce /\ WorkInv

\* An invocation another one's step leaves alone, and one past or before its work.
Untouched(k) ==
    /\ pc'[k] = pc[k] /\ batch'[k] = batch[k] /\ base'[k] = base[k] /\ seqNr'[k] = seqNr[k]
    /\ causes'[k] = causes[k] /\ toAppend'[k] = toAppend[k]

Resting(k) == pc'[k] \in {"idle", "start", "settle"}

\* What an invocation holds stays true when the stream grows under it.
LEMMA HandlerStays ==
    ASSUME TypeOK, TypeOK', IsPrefix(log, log'), NEW k \in Handlers, HandlerInv(k),
           Untouched(k) \/ Resting(k)
    PROVE  HandlerInv(k)'
  <1>1. CASE Resting(k)
    BY <1>1 DEF Resting, HandlerInv, WorkOnPrefix, ReplayFresh, FoldJustified, StableFold, PublishStored
  <1>2. CASE Untouched(k)
    <2>1. /\ log \in Seq(Entry) /\ log' \in Seq(Entry)
          /\ base[k] \in Seq(Entry) /\ Folded(k) \in Seq(Entry)
      BY AppendedType DEF TypeOK, History
    <2>2. Folded(k)' = Folded(k)  BY <1>2 DEF Untouched, Folded
    <2>3. WorkOnPrefix(k)'
      <3>1. IsPrefix(base[k], log) => IsPrefix(base[k], log')  BY <2>1, PrefixTransitive
      <3> QED  BY <1>2, <3>1 DEF HandlerInv, WorkOnPrefix, Untouched
    <2>4. PublishStored(k)'
      <3>1. IsPrefix(Folded(k), log) => IsPrefix(Folded(k), log')  BY <2>1, PrefixTransitive
      <3> QED  BY <1>2, <2>2, <3>1 DEF HandlerInv, PublishStored, Untouched
    <2>5. ReplayFresh(k)' /\ FoldJustified(k)'
      BY <1>2, <2>2 DEF HandlerInv, ReplayFresh, FoldJustified, AsksForRepeats, Untouched
    <2>6. StableFold(k)'
      BY <1>2, <2>2 DEF HandlerInv, StableFold, AsksForRepeats, Untouched
    <2> QED  BY <2>3, <2>4, <2>5, <2>6 DEF HandlerInv
  <1> QED  BY <1>1, <1>2

\* A memo stays an old state of a stream that grows.
LEMMA MemosStay ==
    ASSUME TypeOK, TypeOK', MemosArePrefixes, IsPrefix(log, log'),
           \A memo \in Memos' : memo \in Memos \/ OldState(memo)'
    PROVE  MemosArePrefixes'
  <1>1. ASSUME NEW memo \in Memos PROVE OldState(memo)'
    <2>1. memo \in Memo  BY DEF Memos, TypeOK
    <2>2. memo.state \in Seq(Entry) /\ log \in Seq(Entry) /\ log' \in Seq(Entry)
      BY <2>1 DEF Memo, TypeOK, History
    <2>3. OldState(memo)  BY DEF MemosArePrefixes
    <2>4. IsPrefix(memo.state, log')  BY <2>2, <2>3, PrefixTransitive DEF OldState
    <2> QED  BY <2>3, <2>4 DEF OldState
  <1> QED  BY <1>1 DEF MemosArePrefixes

\* What a step has to establish for the invariant.
LEMMA Preserved ==
    ASSUME SafeInv, TypeOK', IsPrefix(log, log'),
           log' = log \/ (DecidedOnItsPast' /\ StableDecidedOnce'),
           \A memo \in Memos' : memo \in Memos \/ OldState(memo)',
           \A k \in Handlers : Untouched(k) \/ Resting(k) \/ HandlerInv(k)'
    PROVE  SafeInv'
  <1>1. WorkInv'  BY HandlerStays DEF SafeInv, WorkInv
  <1>2. MemosArePrefixes'  BY MemosStay DEF SafeInv
  <1>3. DecidedOnItsPast' /\ StableDecidedOnce'
    BY DEF SafeInv, DecidedOnItsPast, StableDecidedOnce
  <1> QED  BY <1>1, <1>2, <1>3 DEF SafeInv

LEMMA SameLog ==
    ASSUME TypeOK
    PROVE  log \in Seq(Entry) /\ IsPrefix(log, log)
  BY PrefixOfItself DEF TypeOK, History

\* A step that reads keeps every memo.
LEMMA SameMemos ==
    ASSUME UNCHANGED <<storage, cache>>
    PROVE  Memos' = Memos /\ log' = log
  BY DEF Memos, storage

\* A step that drops a cache entry adds no memo.
LEMMA FewerMemos ==
    ASSUME TypeOK, NEW h \in Handlers, Invalidate(h), UNCHANGED <<snapshot, snapWrites>>
    PROVE  Memos' \subseteq Memos
  BY DEF Memos, Invalidate, TypeOK

\* An append that passes its condition stores what was decided on the whole stream.
LEMMA AppendSafe ==
    ASSUME SafeInv, NEW h \in Handlers, Decided(h), AppendCondition(h),
           log' = log \o toAppend[h]
    PROVE  /\ log' = Folded(h) /\ IsPrefix(log, log')
           /\ DecidedOnItsPast' /\ StableDecidedOnce'
  <1>1. /\ log \in Seq(Entry) /\ base[h] \in Seq(Entry) /\ toAppend[h] \in Seq(Entry)
        /\ Folded(h) \in Seq(Entry) /\ log \in History /\ toAppend[h] \in History
        /\ Folded(h) \in History
    BY AppendedType DEF SafeInv, TypeOK, History
  <1>2. HandlerInv(h) /\ pc[h] = "decide"  BY DEF SafeInv, WorkInv, Decided
  <1>3. base[h] = log
    <2>1. IsPrefix(base[h], log) /\ Len(base[h]) = Len(log)
      BY <1>2 DEF HandlerInv, WorkOnPrefix, AppendCondition
    <2> QED  BY <1>1, <2>1, FullPrefixIsEqual
  <1>4. log' = Folded(h)  BY <1>3 DEF Folded
  <1>5. IsPrefix(log, log')  BY <1>1, PrefixOfConcat
  <1>6. DecidedOnItsPast'
    <2>1. ASSUME NEW i \in DOMAIN log' PROVE Justified(log', i)
      <3>1. CASE i \in DOMAIN log
        <4>1. Justified(log, i)  BY <3>1 DEF SafeInv, DecidedOnItsPast
        <4> QED  BY <1>1, <1>4, <1>5, <3>1, <4>1, JustifiedStays
      <3>2. CASE i \notin DOMAIN log
        <4>1. i \in Len(log) + 1 .. Len(Folded(h))
          <5>1. i \in 1..Len(Folded(h)) /\ i \notin 1..Len(log)
            <6>1. log' \in Seq(Entry)  BY <1>1, <1>4
            <6> QED  BY <6>1, <1>1, <1>4, <2>1, <3>2
          <5>2. Len(log) \in Nat /\ Len(Folded(h)) \in Nat  BY <1>1
          <5> QED  BY <5>1, <5>2
        <4>2. Justified(Folded(h), i)
          BY <1>2, <1>3, <4>1 DEF HandlerInv, FoldJustified
        <4> QED  BY <1>4, <4>2
      <3> QED  BY <3>1, <3>2
    <2> QED  BY <2>1 DEF DecidedOnItsPast, Justified
  <1>7. StableDecidedOnce'
    <2>1. ASSUME NEW c \in Stable PROVE DecidedOnce(log', c)
      <3>1. CASE AsksForRepeats(h)
        BY <1>2, <1>4, <3>1 DEF HandlerInv, StableFold
      <3>2. CASE ~AsksForRepeats(h)
        <4>1. \A i \in DOMAIN toAppend[h] : toAppend[h][i].cmd # c
          BY <1>2, <3>2 DEF HandlerInv, StableFold
        <4>2. DecidedOnce(log, c)  BY DEF SafeInv, StableDecidedOnce
        <4> QED  BY <1>1, <4>1, <4>2, OnceStays
      <3> QED  BY <3>1, <3>2
    <2> QED  BY <2>1 DEF StableDecidedOnce, DecidedOnce, Positions
  <1> QED  BY <1>4, <1>5, <1>6, <1>7

LEMMA ReadCausesSafe ==
    ASSUME SafeInv, NEW h \in Handlers, ReadCauses(h)
    PROVE  HandlerInv(h)'
  <1>1. log \in Seq(Entry)  BY DEF SafeInv, TypeOK, History
  <1>2. /\ pc'[h] = "decide" /\ base'[h] = log /\ seqNr'[h] = Len(log) /\ toAppend'[h] = <<>>
        /\ causes'[h] = Causes(log) /\ batch' = batch /\ log' = log /\ AsksForRepeats(h)
    BY DEF ReadCauses, Fresh, SafeInv, TypeOK, storage
  <1>3. Folded(h)' = log  BY <1>1, <1>2 DEF Folded
  <1>4. WorkOnPrefix(h)'  BY <1>1, <1>2, PrefixOfItself DEF WorkOnPrefix
  <1>5. FoldJustified(h)'
    <2>1. Len(log) \in Nat  BY <1>1
    <2>2. Len(base[h])' + 1 .. Len(Folded(h)') = {}  BY <1>2, <1>3, <2>1
    <2> QED  BY <2>2 DEF FoldJustified
  <1>6. StableFold(h)'
    <2>1. AsksForRepeats(h)'  BY <1>2 DEF AsksForRepeats
    <2>2. \A c \in Stable : DecidedOnce(log, c)  BY DEF SafeInv, StableDecidedOnce
    <2>3. \A c \in Stable : Positions(log, c) # {} => c \in Causes(log)
      BY DEF Positions, Causes
    <2> QED  BY <1>2, <1>3, <2>1, <2>2, <2>3 DEF StableFold
  <1> QED  BY <1>2, <1>4, <1>5, <1>6 DEF HandlerInv, ReplayFresh, PublishStored

\* A read of the cache or of the rest of the stream: decide starts on a prefix.
LEMMA PlainReadSafe ==
    ASSUME SafeInv, NEW h \in Handlers, log' = log, pc'[h] = "decide",
           ~AsksForRepeats(h), batch' = batch, toAppend'[h] = <<>>,
           base'[h] \in History, IsPrefix(base'[h], log), seqNr'[h] = Len(base'[h])
    PROVE  HandlerInv(h)'
  <1>1. base'[h] \in Seq(Entry)  BY DEF History
  <1>2. Folded(h)' = base'[h]  BY <1>1 DEF Folded
  <1>3. FoldJustified(h)'
    <2>1. Len(base'[h]) \in Nat  BY <1>1
    <2>2. Len(base[h])' + 1 .. Len(Folded(h)') = {}  BY <1>2, <2>1
    <2> QED  BY <2>2 DEF FoldJustified
  <1>4. ~AsksForRepeats(h)'  BY DEF AsksForRepeats
  <1>5. StableFold(h)'  BY <1>4 DEF StableFold
  <1> QED  BY <1>3, <1>5 DEF HandlerInv, WorkOnPrefix, ReplayFresh, PublishStored

LEMMA ReplaySafe ==
    ASSUME SafeInv, NEW h \in Handlers, ReplayStream(h)
    PROVE  HandlerInv(h)'
  <1> DEFINE delta == SubSeq(log, seqNr[h] + 1, Len(log))
  <1>1. log \in Seq(Entry) /\ base[h] \in Seq(Entry) /\ log \in History
    BY DEF SafeInv, TypeOK, History
  <1>2. IsPrefix(base[h], log) /\ seqNr[h] = Len(base[h]) /\ toAppend[h] = <<>>
        /\ ~AsksForRepeats(h)
    BY DEF SafeInv, WorkInv, HandlerInv, WorkOnPrefix, ReplayFresh, ReplayStream
  <1>3. base[h] \o delta = log /\ seqNr[h] + Len(delta) = Len(log)
    <2>1. base[h] \o delta = log  BY <1>1, <1>2, PrefixPlusRest
    <2>2. delta \in Seq(Entry) /\ seqNr[h] \in Nat /\ Len(delta) \in Nat  BY <1>1, <1>2
    <2> HIDE DEF delta
    <2>3. Len(base[h] \o delta) = Len(base[h]) + Len(delta)  BY <1>1, <2>2
    <2> QED  BY <1>2, <2>1, <2>3
  <1>4. base' = [base EXCEPT ![h] = @ \o delta] /\ seqNr' = [seqNr EXCEPT ![h] = @ + Len(delta)]
    BY DEF ReplayStream
  <1> HIDE DEF delta
  <1>5. base'[h] = log /\ seqNr'[h] = Len(log)  BY <1>3, <1>4 DEF SafeInv, TypeOK
  <1>6. pc'[h] = "decide" /\ batch' = batch /\ toAppend' = toAppend /\ log' = log
    BY DEF ReplayStream, SafeInv, TypeOK, storage
  <1> QED  BY <1>1, <1>2, <1>5, <1>6, PrefixOfItself, PlainReadSafe

\* processCommand: the fold before it, a decision on that fold, the fold after it.
LEMMA ProcessSafe ==
    ASSUME SafeInv, NEW h \in Handlers, ProcessCommand(h)
    PROVE  HandlerInv(h)'
  <1> DEFINE c == batch[h][Len(outcomes[h]) + 1]
             verdict == Verdict(Folded(h), c)
  <1>1. c \in Commands /\ \E i \in DOMAIN batch[h] : batch[h][i] = c
    <2>1. batch[h] \in Seq(Commands) /\ outcomes[h] \in Seq(Outcome)
      BY DEF SafeInv, TypeOK
    <2>2. Len(outcomes[h]) < Len(batch[h])  BY DEF ProcessCommand, Undecided
    <2>3. Len(outcomes[h]) + 1 \in DOMAIN batch[h]  BY <2>1, <2>2
    <2> QED  BY <2>1, <2>3
  <1>2. /\ log' = log /\ pc' = pc /\ batch' = batch /\ base' = base /\ seqNr' = seqNr
        /\ pc[h] = "decide"
    BY DEF ProcessCommand, storage
  <1>3. HandlerInv(h)  BY DEF SafeInv, WorkInv
  <1>4. /\ base[h] \in Seq(Entry) /\ toAppend[h] \in Seq(Entry)
        /\ Folded(h) \in Seq(Entry) /\ Folded(h) \in History
    BY AppendedType DEF SafeInv, TypeOK, History
  <1> HIDE DEF c
  <1>5. CASE toAppend'[h] = toAppend[h] /\ causes' = causes
    <2>1. Folded(h)' = Folded(h)  BY <1>2, <1>5 DEF Folded
    <2>2. WorkOnPrefix(h)' /\ ReplayFresh(h)' /\ PublishStored(h)'
      BY <1>2, <1>3 DEF HandlerInv, WorkOnPrefix, ReplayFresh, PublishStored
    <2>3. FoldJustified(h)'
      BY <1>2, <1>3, <2>1 DEF HandlerInv, FoldJustified
    <2>4. StableFold(h)'
      BY <1>2, <1>3, <1>5, <2>1 DEF HandlerInv, StableFold, AsksForRepeats
    <2> QED  BY <2>2, <2>3, <2>4 DEF HandlerInv
  <1>6. ASSUME ~IsRepeat(h, c), verdict # Rejected, verdict # <<>>,
               toAppend'[h] = toAppend[h] \o Caused(verdict, c),
               causes'[h] = causes[h] \cup {c}
        PROVE  HandlerInv(h)'
    <2>1. verdict \in Seq(Events)  BY <1>6, VerdictType
    <2> HIDE DEF verdict
    <2>2. Caused(verdict, c) \in Seq(Entry) /\ Caused(verdict, c) \in History
      BY <1>1, <2>1, CausedType DEF History
    <2>3. Folded(h)' = Folded(h) \o Caused(verdict, c)
      <3>1. Folded(h)' = base[h] \o (toAppend[h] \o Caused(verdict, c))
        BY <1>2, <1>6 DEF Folded
      <3>2. \A q, r, s \in Seq(Entry) : q \o (r \o s) = (q \o r) \o s
        BY ConcatAssociates
      <3>3. base[h] \o (toAppend[h] \o Caused(verdict, c))
              = (base[h] \o toAppend[h]) \o Caused(verdict, c)
        BY <1>4, <2>2, <3>2, Zenon
      <3> QED  BY <3>1, <3>3 DEF Folded
    <2> DEFINE t == Folded(h) \o Caused(verdict, c)
    <2>4. t \in History /\ IsPrefix(Folded(h), t) /\ Len(t) = Len(Folded(h)) + Len(verdict)
      BY <1>1, <1>4, <2>1, AfterDecision
    <2>5. WorkOnPrefix(h)' /\ ReplayFresh(h)' /\ PublishStored(h)'
      BY <1>2, <1>3 DEF HandlerInv, WorkOnPrefix, ReplayFresh, PublishStored
    <2>6. FoldJustified(h)'
      <3>1. ASSUME NEW i \in Len(base[h]) + 1 .. Len(t) PROVE Justified(t, i)
        <4>1. Len(base[h]) \in Nat /\ Len(Folded(h)) \in Nat /\ DOMAIN Folded(h) = 1..Len(Folded(h))
          BY <1>4
        <4>2. CASE i \in 1..Len(Folded(h))
          <5>1. i \in Len(base[h]) + 1 .. Len(Folded(h))
            <6>1. Len(t) \in Nat  BY <2>1, <2>4, <4>1
            <6> HIDE DEF t
            <6> QED  BY <3>1, <4>1, <4>2, <6>1
          <5>2. Justified(Folded(h), i)  BY <1>2, <1>3, <5>1 DEF HandlerInv, FoldJustified
          <5> QED  BY <1>4, <2>4, <4>1, <4>2, <5>2, JustifiedStays
        <4>3. CASE i \notin 1..Len(Folded(h))
          <5>1. i \in Len(Folded(h)) + 1 .. Len(t)
            <6>1. Len(t) \in Nat  BY <2>1, <2>4, <4>1
            <6> HIDE DEF t
            <6> QED  BY <3>1, <4>1, <4>3, <6>1
          <5>2. Verdict(Folded(h), c) = verdict  BY DEF verdict
          <5> QED  BY <1>1, <1>4, <2>1, <5>1, <5>2, DecisionJustified
        <4> QED  BY <4>2, <4>3
      <3>2. Folded(h)' = t /\ base'[h] = base[h]  BY <1>2, <2>3
      <3> HIDE DEF t
      <3> QED  BY <3>1, <3>2 DEF FoldJustified
    <2>7. StableFold(h)'
      <3>1. AsksForRepeats(h)' = AsksForRepeats(h)  BY <1>2 DEF AsksForRepeats
      <3>2. CASE AsksForRepeats(h)
        <4>1. ASSUME NEW d \in Stable
              PROVE  DecidedOnce(t, d) /\ (Positions(t, d) # {} => d \in causes'[h])
          <5>1. DecidedOnce(Folded(h), d) /\ (Positions(Folded(h), d) # {} => d \in causes[h])
            BY <1>2, <1>3, <3>2 DEF HandlerInv, StableFold
          <5>2. CASE d = c
            <6>1. Positions(Folded(h), c) = {}  BY <1>6, <5>1, <5>2 DEF IsRepeat
            <6>2. Verdict(Folded(h), c) = verdict /\ verdict # Rejected
              BY <1>6 DEF verdict
            <6>3. DecidedOnce(t, c)  BY <1>1, <1>4, <2>1, <6>1, <6>2, OnceDecided
            <6> QED  BY <1>6, <5>2, <6>3
          <5>3. CASE d # c
            <6>1. \A i \in DOMAIN Caused(verdict, c) : Caused(verdict, c)[i].cmd # d
              <7>1. DOMAIN Caused(verdict, c) = DOMAIN verdict  BY DEF Caused
              <7> QED  BY <5>3, <7>1 DEF Caused
            <6>2. Positions(t, d) = Positions(Folded(h), d) /\ DecidedOnce(t, d)
              BY <1>4, <2>2, <5>1, <6>1, OnceStays
            <6> QED  BY <1>6, <5>1, <6>2
          <5> QED  BY <5>2, <5>3
        <4>2. Folded(h)' = t  BY <2>3
        <4> HIDE DEF t
        <4> QED  BY <3>1, <3>2, <4>1, <4>2 DEF StableFold
      <3>3. CASE ~AsksForRepeats(h)
        <4>1. c \notin Stable  BY <1>1, <3>3 DEF AsksForRepeats
        <4>2. \A i \in DOMAIN toAppend[h] : toAppend[h][i].cmd \notin Stable
          BY <1>2, <1>3, <3>3 DEF HandlerInv, StableFold
        <4>3. \A i \in 1..Len(verdict) : Caused(verdict, c)[i].cmd = c
          <5>1. \A i \in 1..Len(verdict) :
                    Caused(verdict, c)[i] = [event |-> verdict[i], cmd |-> c]
            BY <1>1, <2>1, CausedType
          <5>2. TAKE i \in 1..Len(verdict)
          <5>3. Caused(verdict, c)[i] = [event |-> verdict[i], cmd |-> c]  BY <5>1, <5>2
          <5> QED  BY <5>3
        <4> DEFINE new == Caused(verdict, c)
        <4>4. Len(new) = Len(verdict) /\ new \in Seq(Entry)  BY <1>1, <2>1, <2>2, CausedType
        <4> HIDE DEF new
        <4>5. \A i \in DOMAIN (toAppend[h] \o new) :
                  \/ i \in DOMAIN toAppend[h] /\ (toAppend[h] \o new)[i] = toAppend[h][i]
                  \/ \E k \in 1..Len(new) : (toAppend[h] \o new)[i] = new[k]
          <5>1. TAKE i \in DOMAIN (toAppend[h] \o new)
          <5>2. i \in 1..(Len(toAppend[h]) + Len(new))  BY <1>4, <4>4, <5>1
          <5>3. CASE i \in 1..Len(toAppend[h])  BY <1>4, <4>4, <5>2, <5>3
          <5>4. CASE i \notin 1..Len(toAppend[h])
            <6>1. i - Len(toAppend[h]) \in 1..Len(new)  BY <1>4, <4>4, <5>2, <5>4
            <6>2. (toAppend[h] \o new)[i] = new[i - Len(toAppend[h])]
              BY <1>4, <4>4, <5>2, <5>4
            <6> QED  BY <6>1, <6>2
          <5> QED  BY <5>3, <5>4
        <4>6. \A i \in DOMAIN (toAppend[h] \o new) : (toAppend[h] \o new)[i].cmd \notin Stable
          BY <4>1, <4>2, <4>3, <4>4, <4>5 DEF new
        <4>7. toAppend'[h] = toAppend[h] \o new  BY <1>6 DEF new
        <4> QED  BY <3>1, <3>3, <4>6, <4>7 DEF StableFold
      <3> QED  BY <3>2, <3>3
    <2> QED  BY <2>5, <2>6, <2>7 DEF HandlerInv
  <1>7. toAppend[h] \o Caused(<<>>, c) = toAppend[h]
    <2>1. Caused(<<>>, c) = <<>>
      <3>1. <<>> \in Seq(Events)  OBVIOUS
      <3>2. Caused(<<>>, c) \in Seq(Entry) /\ Len(Caused(<<>>, c)) = 0
        BY <1>1, <3>1, CausedType DEF History
      <3> QED  BY <3>2
    <2> QED  BY <1>4, <2>1
  <1>8. ASSUME NEW kind, NEW evs, Record(h, c, kind, evs)
        PROVE  toAppend'[h] = toAppend[h] \o Caused(evs, c)
    BY <1>8 DEF Record, SafeInv, TypeOK
  <1>9. \/ toAppend'[h] = toAppend[h] /\ causes' = causes
        \/ /\ ~IsRepeat(h, c) /\ verdict # Rejected /\ verdict # <<>>
           /\ toAppend'[h] = toAppend[h] \o Caused(verdict, c)
           /\ causes'[h] = causes[h] \cup {c}
    <2>1. CASE Record(h, c, "repeated", <<>>) /\ UNCHANGED causes
      BY <1>7, <1>8, <2>1
    <2>2. CASE Record(h, c, "rejected", <<>>) /\ UNCHANGED causes
      BY <1>7, <1>8, <2>2
    <2>3. CASE /\ ~IsRepeat(h, c) /\ verdict # Rejected /\ Record(h, c, "ok", verdict)
               /\ causes' = IF verdict = <<>> THEN causes
                            ELSE [causes EXCEPT ![h] = @ \cup {c}]
      <3>1. toAppend'[h] = toAppend[h] \o Caused(verdict, c)  BY <1>8, <2>3
      <3> HIDE DEF verdict
      <3>2. CASE verdict = <<>>  BY <1>7, <2>3, <3>1, <3>2
      <3>3. CASE verdict # <<>>  BY <2>3, <3>1, <3>3 DEF SafeInv, TypeOK
      <3> QED  BY <3>2, <3>3
    <2> QED  BY <2>1, <2>2, <2>3 DEF ProcessCommand, c
  <1> QED  BY <1>5, <1>6, <1>9

\* A step of invocation h leaves the others untouched.
Others(h) == \A k \in Handlers \ {h} : Untouched(k)

\* The actions that replace what invocation h holds touch only h.
LEMMA OthersUntouched ==
    ASSUME TypeOK, NEW h \in Handlers,
           \/ ReadCauses(h) \/ ReadCached(h) \/ ReadSnapshot(h) \/ ReplayStream(h)
           \/ ProcessCommand(h) \/ NoEvents(h)
           \/ AppendStored(h) \/ AppendConflict(h) \/ AppendFails(h) \/ AppendAnswerLost(h)
           \/ Publish(h) \/ PublishFails(h) \/ Settle(h) \/ SettleFails(h)
           \/ \E b \in Batches : Deliver(h, b)
    PROVE  Others(h)
  <1>1. CASE ReadCauses(h) \/ ReadCached(h)
    BY <1>1 DEF ReadCauses, ReadCached, Fresh, Others, Untouched, TypeOK
  <1>2. CASE ReadSnapshot(h) \/ ReplayStream(h)
    BY <1>2 DEF ReadSnapshot, ReplayStream, Fresh, Others, Untouched, TypeOK
  <1>3. CASE ProcessCommand(h)
    <2>1. ASSUME NEW kind, NEW evs, Record(h, batch[h][Len(outcomes[h]) + 1], kind, evs)
          PROVE  \A k \in Handlers \ {h} : toAppend'[k] = toAppend[k]
      BY <2>1 DEF Record, TypeOK
    <2>2. \A k \in Handlers \ {h} : toAppend'[k] = toAppend[k]
      BY <1>3, <2>1 DEF ProcessCommand
    <2>3. \A k \in Handlers \ {h} : causes'[k] = causes[k]
      BY <1>3 DEF ProcessCommand, TypeOK
    <2> QED  BY <1>3, <2>2, <2>3 DEF ProcessCommand, Others, Untouched
  <1>4. CASE NoEvents(h) \/ AppendStored(h) \/ AppendConflict(h)
    BY <1>4 DEF NoEvents, AppendStored, AppendConflict, ReportFinalOutcomes, Others, Untouched,
       TypeOK, work
  <1>5. CASE AppendFails(h) \/ AppendAnswerLost(h) \/ Publish(h) \/ PublishFails(h)
    BY <1>5 DEF AppendFails, AppendAnswerLost, Publish, PublishFails, ReportFinalOutcomes,
       Others, Untouched, TypeOK, work
  <1>6. CASE Settle(h) \/ SettleFails(h)
    BY <1>6 DEF Settle, SettleFails, EndWork, Others, Untouched, TypeOK
  <1>7. CASE \E b \in Batches : Deliver(h, b)
    BY <1>7 DEF Deliver, Others, Untouched, TypeOK, work
  <1> QED  BY <1>1, <1>2, <1>3, <1>4, <1>5, <1>6, <1>7

\* The invariant is inductive.
LEMMA SafeStep ==
    ASSUME SafeInv, [Next]_vars
    PROVE  SafeInv'
  <1>0. TypeOK /\ TypeOK' /\ IsPrefix(log, log)  BY TypeStep, SameLog DEF SafeInv
  <1>a. ASSUME NEW h \in Handlers, Others(h), Untouched(h) \/ Resting(h) \/ HandlerInv(h)',
               log' = log, Memos' \subseteq Memos
        PROVE  SafeInv'
    BY <1>0, <1>a, Preserved DEF Others
  <1>1. ASSUME NEW h \in Handlers, NEW b \in Batches, Deliver(h, b) PROVE SafeInv'
    <2>1. Memos' = Memos /\ log' = log  BY <1>1, SameMemos DEF Deliver
    <2>2. Resting(h)  BY <1>1 DEF Deliver, Resting, SafeInv, TypeOK
    <2> QED  BY <1>0, <1>a, <1>1, <2>1, <2>2, OthersUntouched
  <1>2. ASSUME NEW h \in Handlers, ReadCauses(h) PROVE SafeInv'
    <2>1. Memos' = Memos /\ log' = log  BY <1>2, SameMemos DEF ReadCauses
    <2> QED  BY <1>0, <1>a, <1>2, <2>1, ReadCausesSafe, OthersUntouched
  <1>3. ASSUME NEW h \in Handlers, ReadCached(h) PROVE SafeInv'
    <2>1. Memos' = Memos /\ log' = log  BY <1>3, SameMemos DEF ReadCached
    <2>2. cache[Home[h]] \in Memos /\ cache[Home[h]] \in Memo
      BY <1>0, <1>3, HandlersHaveHomes DEF ReadCached, Memos, TypeOK
    <2>3. OldState(cache[Home[h]])  BY <2>2 DEF SafeInv, MemosArePrefixes
    <2>4. /\ base'[h] = cache[Home[h]].state /\ seqNr'[h] = cache[Home[h]].seqNr
          /\ pc'[h] = "decide" /\ batch' = batch /\ toAppend'[h] = <<>> /\ ~AsksForRepeats(h)
      BY <1>0, <1>3 DEF ReadCached, Fresh, TypeOK
    <2>5. HandlerInv(h)'
      <3>1. base'[h] \in History  BY <2>2, <2>4 DEF Memo
      <3> QED  BY <2>1, <2>3, <2>4, <3>1, PlainReadSafe DEF OldState
    <2> QED  BY <1>0, <1>a, <1>3, <2>1, <2>5, OthersUntouched
  <1>4. ASSUME NEW h \in Handlers, ReadSnapshot(h) PROVE SafeInv'
    <2>1. Memos' = Memos /\ log' = log  BY <1>4, SameMemos DEF ReadSnapshot
    <2>2. PICK seed \in Seeds : base'[h] = seed.state /\ seqNr'[h] = seed.seqNr
      BY <1>0, <1>4 DEF ReadSnapshot, TypeOK
    <2>3. OldState(seed)
      <3>1. CASE seed \in Memos  BY <3>1 DEF SafeInv, MemosArePrefixes
      <3>2. CASE seed = [state |-> <<>>, seqNr |-> 0]
        <4>1. log \in Seq(Entry)  BY <1>0 DEF TypeOK, History
        <4>2. <<>> \o log = log /\ IsPrefix(<<>>, <<>> \o log)
          <5>1. <<>> \in Seq(Entry)  OBVIOUS
          <5>2. <<>> \o log = log  BY <4>1
          <5>3. IsPrefix(<<>>, <<>> \o log)  BY <4>1, <5>1, PrefixOfConcat
          <5> QED  BY <5>2, <5>3
        <4> QED  BY <3>2, <4>2 DEF OldState
      <3>3. seed \in Memos \/ seed = [state |-> <<>>, seqNr |-> 0]
        BY <2>2 DEF Seeds, Memos
      <3> QED  BY <3>1, <3>2, <3>3
    <2>4. /\ pc'[h] = "replay" /\ batch' = batch /\ toAppend'[h] = <<>> /\ ~AsksForRepeats(h)
      BY <1>0, <1>4 DEF ReadSnapshot, Fresh, TypeOK
    <2>5. HandlerInv(h)'
      BY <2>1, <2>2, <2>3, <2>4 DEF HandlerInv, WorkOnPrefix, ReplayFresh, FoldJustified, StableFold,
         PublishStored, AsksForRepeats, OldState
    <2> QED  BY <1>0, <1>a, <1>4, <2>1, <2>5, OthersUntouched
  <1>5. ASSUME NEW h \in Handlers, ReplayStream(h) PROVE SafeInv'
    <2>1. Memos' = Memos /\ log' = log  BY <1>5, SameMemos DEF ReplayStream
    <2> QED  BY <1>0, <1>a, <1>5, <2>1, ReplaySafe, OthersUntouched
  <1>6. ASSUME NEW h \in Handlers, ProcessCommand(h) PROVE SafeInv'
    <2>1. Memos' = Memos /\ log' = log  BY <1>6, SameMemos DEF ProcessCommand
    <2> QED  BY <1>0, <1>a, <1>6, <2>1, ProcessSafe, OthersUntouched
  <1>7. ASSUME NEW h \in Handlers, NoEvents(h) PROVE SafeInv'
    <2>0. PICK memo : memo = [state |-> base[h], seqNr |-> seqNr[h]]  OBVIOUS
    <2>1. pc'[h] = "settle" /\ log' = log
      BY <1>0, <1>7 DEF NoEvents, ReportFinalOutcomes, TypeOK, storage
    <2>2. OldState(memo)'
      <3>1. IsPrefix(base[h], log) /\ seqNr[h] = Len(base[h])
        BY <1>7 DEF NoEvents, Decided, SafeInv, WorkInv, HandlerInv, WorkOnPrefix
      <3> QED  BY <2>0, <2>1, <3>1 DEF OldState
    <2>3. Memos' \subseteq Memos \cup {memo}  BY <1>0, <1>7, <2>0 DEF NoEvents, Memos, TypeOK, storage
    <2> QED  BY <1>0, <1>7, <2>1, <2>2, <2>3, OthersUntouched, Preserved DEF Others, Resting
  <1>8. ASSUME NEW h \in Handlers, AppendStored(h) PROVE SafeInv'
    <2>1. /\ log' = Folded(h) /\ IsPrefix(log, log') /\ DecidedOnItsPast' /\ StableDecidedOnce'
      BY <1>8, AppendSafe DEF AppendStored
    <2>2. Memos' = Memos  BY <1>8 DEF AppendStored, Memos
    <2>3. HandlerInv(h)'
      <3>1. /\ pc'[h] = "publish" /\ Folded(h)' = Folded(h) /\ base' = base /\ seqNr' = seqNr
            /\ pc[h] = "decide"
        BY <1>0, <1>8 DEF AppendStored, Decided, Folded, work, TypeOK
      <3>2. /\ Folded(h) \in Seq(Entry) /\ base[h] \in Seq(Entry) /\ toAppend[h] \in Seq(Entry)
        BY <1>0, AppendedType DEF TypeOK, History
      <3>3. IsPrefix(base[h], Folded(h)) /\ IsPrefix(Folded(h), Folded(h))
        BY <3>2, PrefixOfConcat, PrefixOfItself DEF Folded
      <3>4. seqNr[h] = Len(base[h])
        BY <3>1 DEF SafeInv, WorkInv, HandlerInv, WorkOnPrefix
      <3> QED
        BY <2>1, <3>1, <3>3, <3>4 DEF HandlerInv, WorkOnPrefix, ReplayFresh, FoldJustified,
           StableFold, PublishStored
    <2> QED  BY <1>0, <1>8, <2>1, <2>2, <2>3, OthersUntouched, Preserved DEF Others
  <1>9. ASSUME NEW h \in Handlers, AppendConflict(h) PROVE SafeInv'
    <2>1. log' = log /\ Resting(h)
      BY <1>0, <1>9 DEF AppendConflict, Resting, TypeOK, storage
    <2>2. Memos' \subseteq Memos  BY <1>0, <1>9, FewerMemos DEF AppendConflict, storage
    <2> QED  BY <1>0, <1>a, <1>9, <2>1, <2>2, OthersUntouched
  <1>10. ASSUME NEW h \in Handlers, AppendFails(h) PROVE SafeInv'
    <2>1. log' = log /\ Resting(h)
      BY <1>0, <1>10 DEF AppendFails, ReportFinalOutcomes, Resting, TypeOK, storage
    <2>2. Memos' \subseteq Memos  BY <1>0, <1>10, FewerMemos DEF AppendFails, storage
    <2> QED  BY <1>0, <1>a, <1>10, <2>1, <2>2, OthersUntouched
  <1>11. ASSUME NEW h \in Handlers, AppendAnswerLost(h) PROVE SafeInv'
    <2>1. IsPrefix(log, log') /\ DecidedOnItsPast' /\ StableDecidedOnce'
      BY <1>11, AppendSafe DEF AppendAnswerLost
    <2>2. Memos' \subseteq Memos
      <3>1. UNCHANGED <<snapshot, snapWrites>>  BY <1>11 DEF AppendAnswerLost
      <3>2. CASE UNCHANGED cache  BY <3>1, <3>2 DEF Memos
      <3>3. CASE Invalidate(h)  BY <1>0, <3>1, <3>3, FewerMemos
      <3> QED  BY <1>11, <3>2, <3>3 DEF AppendAnswerLost
    <2>3. Untouched(h) \/ Resting(h)
      BY <1>0, <1>11 DEF AppendAnswerLost, ReportFinalOutcomes, Untouched, Resting, TypeOK, work
    <2> QED  BY <1>0, <1>11, <2>1, <2>2, <2>3, OthersUntouched, Preserved DEF Others
  <1>12. ASSUME NEW h \in Handlers, Publish(h) PROVE SafeInv'
    <2>0. PICK memo : memo = PostAppend(h)  OBVIOUS
    <2>1. pc'[h] = "settle" /\ log' = log
      BY <1>0, <1>12 DEF Publish, ReportFinalOutcomes, TypeOK
    <2>2. OldState(memo)'
      <3>1. base[h] \in Seq(Entry) /\ toAppend[h] \in Seq(Entry)  BY <1>0 DEF TypeOK, History
      <3>2. IsPrefix(Folded(h), log) /\ seqNr[h] = Len(base[h])
        BY <1>12 DEF Publish, SafeInv, WorkInv, HandlerInv, PublishStored, WorkOnPrefix
      <3>3. Len(Folded(h)) = seqNr[h] + Len(toAppend[h])  BY <3>1, <3>2 DEF Folded
      <3> QED  BY <2>0, <2>1, <3>2, <3>3 DEF OldState, PostAppend
    <2>3. Memos' \subseteq Memos \cup {memo}  BY <1>0, <1>12, <2>0 DEF Publish, Memos, TypeOK
    <2> QED  BY <1>0, <1>12, <2>1, <2>2, <2>3, OthersUntouched, Preserved DEF Others, Resting
  <1>13. ASSUME NEW h \in Handlers, PublishFails(h) PROVE SafeInv'
    <2>1. log' = log /\ Resting(h)
      BY <1>0, <1>13 DEF PublishFails, ReportFinalOutcomes, Resting, TypeOK
    <2>2. Memos' \subseteq Memos  BY <1>0, <1>13, FewerMemos DEF PublishFails
    <2> QED  BY <1>0, <1>a, <1>13, <2>1, <2>2, OthersUntouched
  <1>14. ASSUME NEW h \in Handlers, Settle(h) \/ SettleFails(h) PROVE SafeInv'
    <2>1. Memos' = Memos /\ log' = log  BY <1>14, SameMemos DEF Settle, SettleFails
    <2>2. Resting(h)  BY <1>0, <1>14 DEF Settle, SettleFails, EndWork, Resting, TypeOK
    <2> QED  BY <1>0, <1>a, <1>14, <2>1, <2>2, OthersUntouched
  <1>15. ASSUME NEW memo \in snapWrites, SnapshotLands(memo) \/ SnapshotWriteLost(memo)
         PROVE  SafeInv'
    <2>1. Memos' \subseteq Memos /\ log' = log
      BY <1>15 DEF SnapshotLands, SnapshotWriteLost, Memos
    <2>2. \A k \in Handlers : Untouched(k)
      BY <1>15 DEF SnapshotLands, SnapshotWriteLost, Untouched, work
    <2> QED  BY <1>0, <2>1, <2>2, Preserved
  <1>16. ASSUME NEW c \in Containers, Evict(c) \/ Restart(c) PROVE SafeInv'
    <2>1. Memos' \subseteq Memos /\ log' = log
      <3>1. cache' = [cache EXCEPT ![c] = NoEntry] /\ UNCHANGED storage
        BY <1>16 DEF Evict, Restart
      <3> QED  BY <1>0, <3>1 DEF Memos, storage, TypeOK
    <2>2. \A k \in Handlers : Untouched(k) \/ Resting(k)
      <3>1. CASE Evict(c)  BY <3>1 DEF Evict, Untouched, work
      <3>2. CASE Restart(c)  BY <1>0, <3>2 DEF Restart, Untouched, Resting, TypeOK
      <3> QED  BY <1>16, <3>1, <3>2
    <2> QED  BY <1>0, <2>1, <2>2, Preserved
  <1>17. ASSUME NEW c \in Commands, DeadLetter(c) PROVE SafeInv'
    <2>1. Memos' = Memos /\ log' = log  BY <1>17, SameMemos DEF DeadLetter
    <2>2. \A k \in Handlers : Untouched(k)  BY <1>17 DEF DeadLetter, Untouched, work
    <2> QED  BY <1>0, <2>1, <2>2, Preserved
  <1>18. CASE UNCHANGED vars
    <2>1. Memos' = Memos /\ log' = log  BY <1>18, SameMemos DEF vars, storage
    <2>2. \A k \in Handlers : Untouched(k)  BY <1>18 DEF vars, Untouched
    <2> QED  BY <1>0, <2>1, <2>2, Preserved
  <1> QED
    BY <1>1, <1>2, <1>3, <1>4, <1>5, <1>6, <1>7, <1>8, <1>9, <1>10, <1>11, <1>12, <1>13,
       <1>14, <1>15, <1>16, <1>17, <1>18 DEF Next, Work

LEMMA SafeAlways == Spec => []SafeInv
  <1>1. Init => SafeInv
    <2> SUFFICES ASSUME Init PROVE SafeInv  OBVIOUS
    <2>1. <<>> \in History /\ <<>> \in Seq(Commands) /\ <<>> \in Seq(Outcome)  BY DEF History
    <2>2. 0 \in 0..MaxReceive /\ 0 \in 0..MaxConflictRetries /\ 0 \in 0..MaxFaults
      BY BoundsAreNaturals
    <2>3. TypeOK  BY <2>1, <2>2 DEF Init, TypeOK
    <2>4. log = <<>> /\ Memos = {}  BY DEF Init, Memos
    <2>5. DecidedOnItsPast /\ MemosArePrefixes /\ StableDecidedOnce
      BY <2>4 DEF DecidedOnItsPast, MemosArePrefixes, StableDecidedOnce, DecidedOnce, Positions
    <2>6. WorkInv
      BY DEF Init, WorkInv, HandlerInv, WorkOnPrefix, ReplayFresh, FoldJustified, StableFold,
         PublishStored
    <2> QED  BY <2>3, <2>5, <2>6 DEF SafeInv
  <1>2. SafeInv /\ [Next]_vars => SafeInv'  BY SafeStep
  <1> QED  BY <1>1, <1>2, PTL DEF Spec

\* The stream of an aggregate is that of a serial execution of its commands:
\* stale caches, late snapshots, conflicts, retries, lost answers, redeliveries and
\* restarts never make replayProcessAppend store what decide did not return on
\* exactly the events before it.
THEOREM StreamIsSerial == Spec => []DecidedOnItsPast
  <1>1. SafeInv => DecidedOnItsPast  BY DEF SafeInv
  <1> QED  BY <1>1, SafeAlways, PTL

\* replayCache and the snapshot store, its writes in flight included, hold old
\* states of the stream with their sequence numbers.
THEOREM MemosAreOldStates == Spec => []MemosArePrefixes
  <1>1. SafeInv => MemosArePrefixes  BY DEF SafeInv
  <1> QED  BY <1>1, SafeAlways, PTL

\* A command with a stable id is decided at most once with effect, however often it
\* is delivered, in one batch or in several.
THEOREM StableCommandsOnce == Spec => []StableDecidedOnce
  <1>1. SafeInv => StableDecidedOnce  BY DEF SafeInv
  <1> QED  BY <1>1, SafeAlways, PTL

\* The types of the handler's state, and what every invocation knows while it works.
THEOREM WorkIsSound == Spec => []IndInv
  <1>1. SafeInv => IndInv  BY DEF SafeInv, IndInv
  <1> QED  BY <1>1, SafeAlways, PTL

----------------------------------------------------------------------------
(* What is reported accepted, and what may be deleted.                       *)

\* The entries of a command among those between two positions.
OwnIn(hist, from, upTo, c) == {i \in from + 1 .. upTo : i \in DOMAIN hist /\ hist[i].cmd = c}

\* What an invocation has recorded of a command is among the events it decided.
Credits(h) ==
    /\ pc[h] = "replay" => outcomes[h] = <<>>
    /\ pc[h] \in {"decide", "publish"} =>
          \A i \in DOMAIN outcomes[h] :
              outcomes[h][i].kind = "ok" =>
                  Cardinality(OwnIn(Folded(h), Len(base[h]), Len(Folded(h)), outcomes[h][i].cmd))
                      >= outcomes[h][i].own

\* The events of an accepted report are in the stream and published.
Kept(r) ==
    r.kind = "accepted" =>
        /\ r.upTo <= Len(log) /\ r.from + 1 .. r.upTo \subseteq published
        /\ Cardinality(OwnIn(log, r.from, r.upTo, r.cmd)) >= r.own

CreditInv == (\A h \in Handlers : Credits(h)) /\ (\A r \in reports : Kept(r))

\* The commands a producer has had an answer for, other than that they failed.
Answered == {r.cmd : r \in {s \in reports : s.kind # "failed"}}

DeleteInv ==
    /\ \A h \in Handlers : settled[h] \subseteq Answered
    /\ Commands \ (queue \cup dead) \subseteq Answered

\* A count of entries does not change when the history grows behind them.
LEMMA OwnStays ==
    ASSUME NEW s \in History, NEW t \in History, IsPrefix(s, t),
           NEW from \in Nat, NEW upTo \in Nat, upTo <= Len(s), NEW c
    PROVE  OwnIn(t, from, upTo, c) = OwnIn(s, from, upTo, c)
  <1>1. s \in Seq(Entry) /\ t \in Seq(Entry)
    BY DEF History
  <1>2. /\ Len(s) <= Len(t) /\ \A i \in 1 .. Len(s) : s[i] = t[i]
        /\ DOMAIN s = 1 .. Len(s) /\ DOMAIN t = 1 .. Len(t) /\ Len(s) \in Nat /\ Len(t) \in Nat
    BY <1>1, PrefixPointwise
  <1>3. \A i \in from + 1 .. upTo : i \in 1 .. Len(s) /\ i \in 1 .. Len(t)
    BY <1>2
  <1> QED  BY <1>2, <1>3 DEF OwnIn

\* A decision adds its events to the count of its command, and takes nothing from
\* that of another.
LEMMA OwnGrows ==
    ASSUME NEW s \in History, NEW c \in Commands, NEW evs \in Seq(Events),
           NEW n \in Nat, n <= Len(s)
    PROVE  LET t == s \o Caused(evs, c) IN
           /\ Cardinality(OwnIn(t, n, Len(t), c)) >= Len(evs)
           /\ \A d \in Commands :
                 Cardinality(OwnIn(t, n, Len(t), d)) >= Cardinality(OwnIn(s, n, Len(s), d))
  <1> DEFINE t == s \o Caused(evs, c)
  <1>1. /\ t \in History /\ IsPrefix(s, t) /\ Len(t) = Len(s) + Len(evs)
        /\ \A i \in Len(s) + 1 .. Len(t) : t[i].cmd = c
    BY AfterDecision
  <1>2. /\ s \in Seq(Entry) /\ t \in Seq(Entry) /\ Len(s) \in Nat /\ Len(t) \in Nat
        /\ Len(evs) \in Nat /\ DOMAIN s = 1 .. Len(s) /\ DOMAIN t = 1 .. Len(t)
    BY <1>1 DEF History
  <1>3. \A i \in 1 .. Len(s) : s[i] = t[i]
    BY <1>1, <1>2, PrefixPointwise
  <1> HIDE DEF t
  <1>4. IsFiniteSet(n + 1 .. Len(t))
    BY <1>2, FS_Interval
  <1>5. ASSUME NEW d PROVE OwnIn(t, n, Len(t), d) \in SUBSET (n + 1 .. Len(t))
    BY DEF OwnIn
  <1>6. ASSUME NEW d PROVE IsFiniteSet(OwnIn(t, n, Len(t), d))
    BY <1>4, <1>5, FS_Subset
  <1>7. Cardinality(OwnIn(t, n, Len(t), c)) >= Len(evs)
    <2>1. Len(s) + 1 .. Len(t) \in SUBSET OwnIn(t, n, Len(t), c)
      BY <1>1, <1>2 DEF OwnIn
    <2>2. Cardinality(Len(s) + 1 .. Len(t)) = Len(evs)
      <3>1. Len(s) + 1 \in Int /\ Len(t) \in Int
        BY <1>2
      <3>2. Cardinality(Len(s) + 1 .. Len(t))
              = IF Len(s) + 1 > Len(t) THEN 0 ELSE Len(t) - (Len(s) + 1) + 1
        BY <3>1, FS_Interval
      <3> QED  BY <1>1, <1>2, <3>2
    <2>3. Cardinality(Len(s) + 1 .. Len(t)) <= Cardinality(OwnIn(t, n, Len(t), c))
      BY <1>6, <2>1, FS_Subset
    <2>4. Cardinality(OwnIn(t, n, Len(t), c)) \in Nat
      BY <1>6, FS_CardinalityType
    <2> QED  BY <1>2, <2>2, <2>3, <2>4
  <1>8. ASSUME NEW d \in Commands
        PROVE  Cardinality(OwnIn(t, n, Len(t), d)) >= Cardinality(OwnIn(s, n, Len(s), d))
    <2>1. OwnIn(s, n, Len(s), d) \in SUBSET OwnIn(t, n, Len(t), d)
      BY <1>1, <1>2, <1>3 DEF OwnIn
    <2>2. /\ IsFiniteSet(OwnIn(s, n, Len(s), d))
          /\ Cardinality(OwnIn(s, n, Len(s), d)) <= Cardinality(OwnIn(t, n, Len(t), d))
      BY <1>6, <2>1, FS_Subset
    <2>3. /\ Cardinality(OwnIn(t, n, Len(t), d)) \in Nat
          /\ Cardinality(OwnIn(s, n, Len(s), d)) \in Nat
      BY <1>6, <2>2, FS_CardinalityType
    <2> QED  BY <2>2, <2>3
  <1> QED  BY <1>7, <1>8 DEF t

\* The step of one invocation leaves what the others recorded and answered.
LEMMA OthersReported ==
    ASSUME TypeOK, NEW h \in Handlers,
           \/ ReadCauses(h) \/ ReadCached(h) \/ ReadSnapshot(h) \/ ReplayStream(h)
           \/ ProcessCommand(h) \/ NoEvents(h)
           \/ AppendStored(h) \/ AppendConflict(h) \/ AppendFails(h) \/ AppendAnswerLost(h)
           \/ Publish(h) \/ PublishFails(h) \/ Settle(h) \/ SettleFails(h)
           \/ \E b \in Batches : Deliver(h, b)
    PROVE  \A k \in Handlers \ {h} : outcomes'[k] = outcomes[k] /\ settled'[k] = settled[k]
  <1>1. CASE ReadCauses(h) \/ ReadCached(h) \/ ReadSnapshot(h) \/ ReplayStream(h)
    BY <1>1 DEF ReadCauses, ReadCached, ReadSnapshot, ReplayStream, Fresh, TypeOK
  <1>2. CASE ProcessCommand(h)
    <2>1. ASSUME NEW kind, NEW evs, Record(h, batch[h][Len(outcomes[h]) + 1], kind, evs)
          PROVE  \A k \in Handlers \ {h} : outcomes'[k] = outcomes[k]
      BY <2>1 DEF Record, TypeOK
    <2>2. \A k \in Handlers \ {h} : outcomes'[k] = outcomes[k]
      BY <1>2, <2>1 DEF ProcessCommand
    <2> QED  BY <1>2, <2>2 DEF ProcessCommand
  <1>3. CASE NoEvents(h) \/ AppendStored(h) \/ AppendConflict(h)
    BY <1>3 DEF NoEvents, AppendStored, AppendConflict, ReportFinalOutcomes, TypeOK, work
  <1>4. CASE AppendFails(h) \/ AppendAnswerLost(h) \/ Publish(h) \/ PublishFails(h)
    BY <1>4 DEF AppendFails, AppendAnswerLost, Publish, PublishFails, ReportFinalOutcomes,
       TypeOK, work
  <1>5. CASE Settle(h) \/ SettleFails(h)
    BY <1>5 DEF Settle, SettleFails, EndWork, TypeOK
  <1>6. CASE \E b \in Batches : Deliver(h, b)
    BY <1>6 DEF Deliver, work
  <1> QED  BY <1>1, <1>2, <1>3, <1>4, <1>5, <1>6

\* Reports that were kept stay so, and so does what an invocation left alone holds.
LEMMA CreditsPreserved ==
    ASSUME TypeOK, TypeOK', CreditInv, IsPrefix(log, log'), published \subseteq published',
           \A r \in reports' : r \in reports \/ Kept(r)',
           \A k \in Handlers : \/ Untouched(k) /\ outcomes'[k] = outcomes[k]
                               \/ Resting(k) \/ Credits(k)'
    PROVE  CreditInv'
  <1>1. ASSUME NEW r \in reports PROVE Kept(r)'
    <2> SUFFICES ASSUME r.kind = "accepted" PROVE Kept(r)'
      BY DEF Kept
    <2>1. r.from \in Nat /\ r.upTo \in Nat
      BY DEF TypeOK, Report
    <2>2. /\ r.upTo <= Len(log) /\ r.from + 1 .. r.upTo \subseteq published
          /\ Cardinality(OwnIn(log, r.from, r.upTo, r.cmd)) >= r.own
      BY DEF CreditInv, Kept
    <2>3. /\ log \in History /\ log' \in History /\ Len(log) \in Nat /\ Len(log') \in Nat
          /\ Len(log) <= Len(log')
      <3>1. log \in History /\ log' \in History
        BY DEF TypeOK
      <3>2. log \in Seq(Entry) /\ log' \in Seq(Entry)
        BY <3>1 DEF History
      <3> QED  BY <3>1, <3>2, PrefixPointwise
    <2>4. OwnIn(log', r.from, r.upTo, r.cmd) = OwnIn(log, r.from, r.upTo, r.cmd)
      BY <2>1, <2>2, <2>3, OwnStays
    <2> QED  BY <2>1, <2>2, <2>3, <2>4 DEF Kept
  <1>2. ASSUME NEW k \in Handlers PROVE Credits(k)'
    <2>1. CASE Untouched(k) /\ outcomes'[k] = outcomes[k]
      <3>1. Credits(k) /\ Folded(k)' = Folded(k)
        BY <2>1 DEF CreditInv, Untouched, Folded
      <3> QED  BY <2>1, <3>1 DEF Credits, Untouched
    <2>2. CASE Resting(k)
      BY <2>2 DEF Resting, Credits
    <2> QED  BY <2>1, <2>2
  <1> QED  BY <1>1, <1>2 DEF CreditInv

\* A handler reports what it published.
LEMMA PublishedIsKept ==
    ASSUME SafeInv, CreditInv, NEW h \in Handlers, Publish(h), TypeOK'
    PROVE  \A r \in reports' : r \in reports \/ Kept(r)'
  <1>1. /\ pc[h] = "publish" /\ log' = log /\ published' = published \cup Appended(h)
        /\ reports' = reports \cup {ReportOf(h, outcomes[h][i], TRUE) : i \in DOMAIN outcomes[h]}
    BY DEF Publish, ReportFinalOutcomes
  <1>2. /\ base[h] \in Seq(Entry) /\ toAppend[h] \in Seq(Entry) /\ log \in Seq(Entry)
        /\ log \in History /\ Folded(h) \in History /\ Folded(h) \in Seq(Entry)
    BY AppendedType DEF SafeInv, TypeOK, History
  <1>3. IsPrefix(Folded(h), log) /\ seqNr[h] = Len(base[h])
    BY <1>1 DEF SafeInv, WorkInv, HandlerInv, PublishStored, WorkOnPrefix
  <1>4. /\ Len(Folded(h)) = seqNr[h] + Len(toAppend[h]) /\ Len(Folded(h)) <= Len(log)
        /\ seqNr[h] \in Nat /\ Len(Folded(h)) \in Nat
    <2>1. /\ Len(Folded(h)) = Len(base[h]) + Len(toAppend[h])
          /\ Len(base[h]) \in Nat /\ Len(toAppend[h]) \in Nat
      BY <1>2 DEF Folded
    <2>2. Len(Folded(h)) <= Len(log)
      BY <1>2, <1>3, PrefixPointwise
    <2>3. Len(Folded(h)) \in Nat
      BY <1>2
    <2>4. seqNr[h] \in Nat
      BY <1>3, <2>1
    <2>5. Len(Folded(h)) = seqNr[h] + Len(toAppend[h])
      BY <1>3, <2>1
    <2> QED  BY <2>2, <2>3, <2>4, <2>5
  <1>5. ASSUME NEW i \in DOMAIN outcomes[h], NEW r, r = ReportOf(h, outcomes[h][i], TRUE)
        PROVE  Kept(r)'
    <2> SUFFICES ASSUME r.kind = "accepted" PROVE Kept(r)'
      BY DEF Kept
    <2>1. /\ r.cmd = outcomes[h][i].cmd /\ r.own = outcomes[h][i].own
          /\ outcomes[h][i].kind \in {"ok", "accepted"}
          /\ r.from = seqNr[h] /\ r.upTo = seqNr[h] + Len(toAppend[h])
      BY <1>5 DEF ReportOf
    <2>2. outcomes[h][i] \in Outcome
      BY DEF SafeInv, TypeOK
    <2>3. outcomes[h][i].kind = "ok"
      BY <2>1, <2>2 DEF Outcome
    <2>4. Cardinality(OwnIn(Folded(h), seqNr[h], Len(Folded(h)), r.cmd)) >= r.own
      BY <1>1, <1>3, <2>1, <2>3 DEF CreditInv, Credits
    <2>5. OwnIn(log, seqNr[h], Len(Folded(h)), r.cmd)
            = OwnIn(Folded(h), seqNr[h], Len(Folded(h)), r.cmd)
      <3>1. /\ Folded(h) \in History /\ log \in History /\ IsPrefix(Folded(h), log)
            /\ seqNr[h] \in Nat
        BY <1>2, <1>3, <1>4
      <3>2. Len(Folded(h)) \in Nat /\ Len(Folded(h)) <= Len(Folded(h))
        BY <1>4
      <3>3. \A s, t \in History, from, upTo \in Nat :
                IsPrefix(s, t) /\ upTo <= Len(s)
                    => OwnIn(t, from, upTo, r.cmd) = OwnIn(s, from, upTo, r.cmd)
        BY OwnStays
      <3> QED  BY <3>1, <3>2, <3>3
    <2>6. r.from + 1 .. r.upTo \subseteq published'
      BY <1>1, <2>1 DEF Appended
    <2> QED  BY <1>1, <1>4, <2>1, <2>4, <2>5, <2>6 DEF Kept
  <1> QED  BY <1>1, <1>5

\* Nor does it report anything it did not: a batch without events has none to keep.
LEMMA NothingIsKept ==
    ASSUME SafeInv, CreditInv, NEW h \in Handlers, NoEvents(h), TypeOK'
    PROVE  \A r \in reports' : r \in reports \/ Kept(r)'
  <1>1. /\ pc[h] = "decide" /\ log' = log /\ published' = published /\ toAppend[h] = <<>>
        /\ reports' = reports \cup {ReportOf(h, outcomes[h][i], TRUE) : i \in DOMAIN outcomes[h]}
    BY DEF NoEvents, ReportFinalOutcomes, Decided, storage
  <1>2. base[h] \in Seq(Entry) /\ log \in Seq(Entry) /\ toAppend[h] \in Seq(Entry)
    BY DEF SafeInv, TypeOK, History
  <1>3. IsPrefix(base[h], log) /\ seqNr[h] = Len(base[h])
    BY <1>1 DEF SafeInv, WorkInv, HandlerInv, WorkOnPrefix
  <1>4. /\ Len(toAppend[h]) = 0 /\ Len(base[h]) <= Len(log) /\ Len(base[h]) \in Nat
        /\ Len(Folded(h)) = Len(base[h]) /\ Len(log) \in Nat
    BY <1>1, <1>2, <1>3, PrefixPointwise DEF Folded
  <1>5. ASSUME NEW i \in DOMAIN outcomes[h], NEW r, r = ReportOf(h, outcomes[h][i], TRUE)
        PROVE  Kept(r)'
    <2> SUFFICES ASSUME r.kind = "accepted" PROVE Kept(r)'
      BY DEF Kept
    <2>1. /\ r.cmd = outcomes[h][i].cmd /\ r.own = outcomes[h][i].own
          /\ outcomes[h][i].kind \in {"ok", "accepted"}
          /\ r.from = seqNr[h] /\ r.upTo = seqNr[h] + Len(toAppend[h])
      BY <1>5 DEF ReportOf
    <2>2. outcomes[h][i] \in Outcome
      BY DEF SafeInv, TypeOK
    <2>3. outcomes[h][i].kind = "ok"
      BY <2>1, <2>2 DEF Outcome
    <2>4. Cardinality(OwnIn(Folded(h), Len(base[h]), Len(Folded(h)), r.cmd)) >= r.own
      BY <1>1, <2>1, <2>3 DEF CreditInv, Credits
    <2>5. /\ r.from + 1 .. r.upTo = {} /\ OwnIn(log, r.from, r.upTo, r.cmd) = {}
          /\ OwnIn(Folded(h), Len(base[h]), Len(Folded(h)), r.cmd) = {}
          /\ r.upTo <= Len(log)
      BY <1>3, <1>4, <2>1 DEF OwnIn
    <2> QED  BY <1>1, <2>4, <2>5 DEF Kept
  <1> QED  BY <1>1, <1>5

\* A failed append or publish is not reported accepted.
LEMMA FailureIsNotAccepted ==
    ASSUME NEW h \in Handlers, TypeOK, ReportFinalOutcomes(h, FALSE)
    PROVE  \A r \in reports' : r \in reports \/ Kept(r)'
  <1>1. ASSUME NEW i \in DOMAIN outcomes[h], NEW r, r = ReportOf(h, outcomes[h][i], FALSE)
        PROVE  r.kind # "accepted"
    <2>1. outcomes[h][i] \in Outcome
      BY DEF TypeOK
    <2> QED  BY <1>1, <2>1 DEF ReportOf, Outcome
  <1>2. reports' = reports \cup {ReportOf(h, outcomes[h][i], FALSE) : i \in DOMAIN outcomes[h]}
    BY DEF ReportFinalOutcomes
  <1> QED  BY <1>1, <1>2 DEF Kept

\* What a decision returned is recorded with the events that were added.
LEMMA ProcessCredits ==
    ASSUME SafeInv, CreditInv, NEW h \in Handlers, ProcessCommand(h), TypeOK'
    PROVE  Credits(h)'
  <1> DEFINE c == batch[h][Len(outcomes[h]) + 1]
             verdict == Verdict(Folded(h), c)
  <1>1. /\ pc[h] = "decide" /\ pc' = pc /\ base' = base
        /\ Len(outcomes[h]) < Len(batch[h]) /\ batch[h] \in Seq(Commands)
        /\ outcomes[h] \in Seq(Outcome) /\ base[h] \in Seq(Entry) /\ toAppend[h] \in Seq(Entry)
        /\ Folded(h) \in History
    BY AppendedType DEF ProcessCommand, Undecided, SafeInv, TypeOK, History
  <1>2. c \in Commands
    <2>1. Len(outcomes[h]) + 1 \in DOMAIN batch[h]
      BY <1>1
    <2> QED  BY <1>1, <2>1
  <1>3. \E kind \in {"ok", "rejected", "repeated"}, evs \in Seq(Events) : Record(h, c, kind, evs)
    <2>1. <<>> \in Seq(Events) /\ verdict \in Seq(Events) \cup {Rejected}
      BY VerdictType
    <2>2. \/ Record(h, c, "repeated", <<>>) \/ Record(h, c, "rejected", <<>>)
          \/ verdict # Rejected /\ Record(h, c, "ok", verdict)
      BY DEF ProcessCommand
    <2> HIDE DEF verdict, c
    <2> QED  BY <2>1, <2>2
  <1> HIDE DEF c
  <1>4. PICK kind \in {"ok", "rejected", "repeated"}, evs \in Seq(Events) : Record(h, c, kind, evs)
    BY <1>3
  <1> DEFINE t == Folded(h) \o Caused(evs, c)
             new == [cmd |-> c, kind |-> kind, own |-> Len(evs)]
  <1>5. Folded(h)' = t
    <2>1. toAppend'[h] = toAppend[h] \o Caused(evs, c)
      BY <1>4 DEF Record, SafeInv, TypeOK
    <2>2. Caused(evs, c) \in Seq(Entry)
      BY <1>2, CausedType DEF History
    <2>3. base[h] \o (toAppend[h] \o Caused(evs, c)) = (base[h] \o toAppend[h]) \o Caused(evs, c)
      <3>1. \A q, r, s \in Seq(Entry) : q \o (r \o s) = (q \o r) \o s
        BY ConcatAssociates
      <3> QED  BY <1>1, <2>2, <3>1
    <2>4. Folded(h)' = base[h] \o toAppend'[h]
      BY <1>1 DEF Folded
    <2> QED  BY <2>1, <2>3, <2>4 DEF Folded
  <1>6. outcomes'[h] = Append(outcomes[h], new) /\ new \in Outcome
    BY <1>2, <1>4 DEF Record, SafeInv, TypeOK, Outcome
  <1>7. Len(base[h]) \in Nat /\ Len(base[h]) <= Len(Folded(h)) /\ base'[h] = base[h]
    <2>1. \A q, r \in Seq(Entry) : Len(q) \in Nat /\ Len(q) <= Len(q \o r)
      OBVIOUS
    <2> QED  BY <1>1, <2>1 DEF Folded
  <1>8. /\ Cardinality(OwnIn(t, Len(base[h]), Len(t), c)) >= Len(evs)
        /\ \A d \in Commands :
              Cardinality(OwnIn(t, Len(base[h]), Len(t), d))
                >= Cardinality(OwnIn(Folded(h), Len(base[h]), Len(Folded(h)), d))
    BY <1>1, <1>2, <1>7, OwnGrows
  <1>9. ASSUME NEW d \in Commands
        PROVE  /\ Cardinality(OwnIn(t, Len(base[h]), Len(t), d)) \in Nat
               /\ Cardinality(OwnIn(Folded(h), Len(base[h]), Len(Folded(h)), d)) \in Nat
    <2>1. t \in History /\ Len(t) \in Nat /\ Len(Folded(h)) \in Nat
      <3>1. t \in History
        BY <1>1, <1>2, AfterDecision
      <3>2. t \in Seq(Entry) /\ Folded(h) \in Seq(Entry)
        BY <1>1, <3>1 DEF History
      <3> QED  BY <3>1, <3>2
    <2>2. /\ IsFiniteSet(Len(base[h]) + 1 .. Len(t))
          /\ IsFiniteSet(Len(base[h]) + 1 .. Len(Folded(h)))
      <3>1. Len(base[h]) + 1 \in Int /\ Len(t) \in Int /\ Len(Folded(h)) \in Int
        BY <1>7, <2>1
      <3> HIDE DEF t
      <3> QED  BY <3>1, FS_Interval
    <2>3. /\ OwnIn(t, Len(base[h]), Len(t), d) \in SUBSET (Len(base[h]) + 1 .. Len(t))
          /\ OwnIn(Folded(h), Len(base[h]), Len(Folded(h)), d)
                \in SUBSET (Len(base[h]) + 1 .. Len(Folded(h)))
      BY DEF OwnIn
    <2> QED  BY <2>2, <2>3, FS_Subset, FS_CardinalityType
  <1> HIDE DEF t
  <1>10. ASSUME NEW i \in DOMAIN outcomes'[h], outcomes'[h][i].kind = "ok"
         PROVE  Cardinality(OwnIn(t, Len(base[h]), Len(t), outcomes'[h][i].cmd))
                  >= outcomes'[h][i].own
    <2>1. CASE i \in DOMAIN outcomes[h]
      <3>1. outcomes'[h][i] = outcomes[h][i] /\ outcomes[h][i] \in Outcome
        BY <1>1, <1>6, <2>1
      <3>2. Cardinality(OwnIn(Folded(h), Len(base[h]), Len(Folded(h)), outcomes[h][i].cmd))
              >= outcomes[h][i].own
        BY <1>1, <1>10, <2>1, <3>1 DEF CreditInv, Credits
      <3>3. outcomes[h][i].cmd \in Commands /\ outcomes[h][i].own \in Nat
        BY <3>1 DEF Outcome
      <3> QED  BY <1>8, <1>9, <3>1, <3>2, <3>3
    <2>2. CASE i \notin DOMAIN outcomes[h]
      <3>1. outcomes'[h][i] = new
        BY <1>1, <1>6, <2>2
      <3> QED  BY <1>8, <3>1
    <2> QED  BY <2>1, <2>2
  <1> QED  BY <1>1, <1>5, <1>7, <1>10 DEF Credits

LEMMA CreditStep ==
    ASSUME SafeInv, CreditInv, [Next]_vars
    PROVE  CreditInv'
  <1>0. TypeOK /\ TypeOK' /\ IsPrefix(log, log)
    BY TypeStep, SameLog DEF SafeInv
  <1>a. ASSUME NEW h \in Handlers, Others(h), IsPrefix(log, log'), published \subseteq published',
               \A k \in Handlers \ {h} : outcomes'[k] = outcomes[k],
               \A r \in reports' : r \in reports \/ Kept(r)',
               (Untouched(h) /\ outcomes'[h] = outcomes[h]) \/ Resting(h) \/ Credits(h)'
        PROVE  CreditInv'
    BY <1>0, <1>a, CreditsPreserved DEF Others
  <1>1. ASSUME NEW h \in Handlers, NEW b \in Batches, Deliver(h, b) PROVE CreditInv'
    <2>1. log' = log /\ published' = published /\ reports' = reports /\ Resting(h)
      BY <1>0, <1>1 DEF Deliver, storage, Resting, TypeOK
    <2> QED  BY <1>0, <1>a, <1>1, <2>1, OthersUntouched, OthersReported
  <1>2. ASSUME NEW h \in Handlers, ReadCauses(h) \/ ReadCached(h) \/ ReadSnapshot(h)
        PROVE  CreditInv'
    <2>1. log' = log /\ published' = published /\ reports' = reports /\ outcomes'[h] = <<>>
      BY <1>0, <1>2 DEF ReadCauses, ReadCached, ReadSnapshot, Fresh, storage, TypeOK
    <2>2. Credits(h)'
      BY <2>1 DEF Credits
    <2> QED  BY <1>0, <1>a, <1>2, <2>1, <2>2, OthersUntouched, OthersReported
  <1>3. ASSUME NEW h \in Handlers, ReplayStream(h) PROVE CreditInv'
    <2>1. log' = log /\ published' = published /\ reports' = reports /\ outcomes'[h] = <<>>
      BY <1>0, <1>3 DEF ReplayStream, storage, CreditInv, Credits
    <2>2. Credits(h)'
      BY <2>1 DEF Credits
    <2> QED  BY <1>0, <1>a, <1>3, <2>1, <2>2, OthersUntouched, OthersReported
  <1>4. ASSUME NEW h \in Handlers, ProcessCommand(h) PROVE CreditInv'
    <2>1. log' = log /\ published' = published /\ reports' = reports
      BY <1>4 DEF ProcessCommand, storage
    <2> QED  BY <1>0, <1>a, <1>4, <2>1, ProcessCredits, OthersUntouched, OthersReported
  <1>5. ASSUME NEW h \in Handlers, NoEvents(h) PROVE CreditInv'
    <2>1. log' = log /\ published' = published /\ Resting(h)
      BY <1>0, <1>5 DEF NoEvents, ReportFinalOutcomes, storage, Resting, TypeOK
    <2> QED  BY <1>0, <1>a, <1>5, <2>1, NothingIsKept, OthersUntouched, OthersReported
  <1>6. ASSUME NEW h \in Handlers, AppendStored(h) PROVE CreditInv'
    <2>1. IsPrefix(log, log')
      BY <1>6, AppendSafe DEF AppendStored
    <2>2. /\ published' = published /\ reports' = reports /\ outcomes' = outcomes
          /\ base' = base /\ toAppend' = toAppend /\ pc[h] = "decide" /\ pc'[h] = "publish"
      BY <1>0, <1>6 DEF AppendStored, Decided, work, TypeOK
    <2>3. Credits(h)'
      BY <2>2 DEF CreditInv, Credits, Folded
    <2> QED  BY <1>0, <1>a, <1>6, <2>1, <2>2, <2>3, OthersUntouched, OthersReported
  <1>7. ASSUME NEW h \in Handlers, AppendConflict(h) PROVE CreditInv'
    <2>1. log' = log /\ published' = published /\ reports' = reports /\ Resting(h)
      BY <1>0, <1>7 DEF AppendConflict, storage, Resting, TypeOK
    <2> QED  BY <1>0, <1>a, <1>7, <2>1, OthersUntouched, OthersReported
  <1>8. ASSUME NEW h \in Handlers, AppendFails(h) PROVE CreditInv'
    <2>1. log' = log /\ published' = published /\ Resting(h) /\ ReportFinalOutcomes(h, FALSE)
      BY <1>0, <1>8 DEF AppendFails, ReportFinalOutcomes, storage, Resting, TypeOK
    <2> QED
      BY <1>0, <1>a, <1>8, <2>1, FailureIsNotAccepted, OthersUntouched, OthersReported
  <1>9. ASSUME NEW h \in Handlers, AppendAnswerLost(h) PROVE CreditInv'
    <2>1. IsPrefix(log, log') /\ published' = published
      BY <1>9, AppendSafe DEF AppendAnswerLost
    <2>2. CASE UNCHANGED <<cache, reports, settled, pc>>
      <3>1. reports' = reports /\ Untouched(h) /\ outcomes'[h] = outcomes[h]
        BY <1>9, <2>2 DEF AppendAnswerLost, Untouched, work
      <3> QED  BY <1>0, <1>a, <1>9, <2>1, <3>1, OthersUntouched, OthersReported
    <2>3. CASE Invalidate(h) /\ ReportFinalOutcomes(h, FALSE)
      <3>1. Resting(h)
        BY <1>0, <2>3 DEF ReportFinalOutcomes, Resting, TypeOK
      <3> QED
        BY <1>0, <1>a, <1>9, <2>1, <2>3, <3>1, FailureIsNotAccepted, OthersUntouched,
           OthersReported
    <2> QED  BY <1>9, <2>2, <2>3 DEF AppendAnswerLost
  <1>10. ASSUME NEW h \in Handlers, Publish(h) PROVE CreditInv'
    <2>1. log' = log /\ published \subseteq published' /\ Resting(h)
      BY <1>0, <1>10 DEF Publish, ReportFinalOutcomes, Resting, TypeOK
    <2> QED  BY <1>0, <1>a, <1>10, <2>1, PublishedIsKept, OthersUntouched, OthersReported
  <1>11. ASSUME NEW h \in Handlers, PublishFails(h) PROVE CreditInv'
    <2>1. /\ log' = log /\ published \subseteq published' /\ Resting(h)
          /\ ReportFinalOutcomes(h, FALSE)
      BY <1>0, <1>11 DEF PublishFails, ReportFinalOutcomes, Resting, TypeOK
    <2> QED
      BY <1>0, <1>a, <1>11, <2>1, FailureIsNotAccepted, OthersUntouched, OthersReported
  <1>12. ASSUME NEW h \in Handlers, Settle(h) \/ SettleFails(h) PROVE CreditInv'
    <2>1. log' = log /\ published' = published /\ reports' = reports /\ Resting(h)
      BY <1>0, <1>12 DEF Settle, SettleFails, EndWork, storage, Resting, TypeOK
    <2> QED  BY <1>0, <1>a, <1>12, <2>1, OthersUntouched, OthersReported
  <1>13. ASSUME NEW memo \in snapWrites, SnapshotLands(memo) \/ SnapshotWriteLost(memo)
         PROVE  CreditInv'
    <2>1. /\ log' = log /\ published' = published /\ reports' = reports
          /\ \A k \in Handlers : Untouched(k) /\ outcomes'[k] = outcomes[k]
      BY <1>13 DEF SnapshotLands, SnapshotWriteLost, Untouched, work
    <2> QED  BY <1>0, <2>1, CreditsPreserved
  <1>14. ASSUME NEW c \in Containers, Evict(c) \/ Restart(c) PROVE CreditInv'
    <2>1. log' = log /\ published' = published /\ reports' = reports
      BY <1>14 DEF Evict, Restart, storage
    <2>2. \A k \in Handlers : (Untouched(k) /\ outcomes'[k] = outcomes[k]) \/ Resting(k)
      <3>1. CASE Evict(c)
        BY <3>1 DEF Evict, Untouched, work
      <3>2. CASE Restart(c)
        BY <1>0, <3>2 DEF Restart, Untouched, Resting, TypeOK
      <3> QED  BY <1>14, <3>1, <3>2
    <2> QED  BY <1>0, <2>1, <2>2, CreditsPreserved
  <1>15. ASSUME NEW c \in Commands, DeadLetter(c) PROVE CreditInv'
    <2>1. /\ log' = log /\ published' = published /\ reports' = reports
          /\ \A k \in Handlers : Untouched(k) /\ outcomes'[k] = outcomes[k]
      BY <1>15 DEF DeadLetter, Untouched, storage, work
    <2> QED  BY <1>0, <2>1, CreditsPreserved
  <1>16. CASE UNCHANGED vars
    <2>1. /\ log' = log /\ published' = published /\ reports' = reports
          /\ \A k \in Handlers : Untouched(k) /\ outcomes'[k] = outcomes[k]
      BY <1>16 DEF vars, Untouched
    <2> QED  BY <1>0, <2>1, CreditsPreserved
  <1> QED
    BY <1>1, <1>2, <1>3, <1>4, <1>5, <1>6, <1>7, <1>8, <1>9, <1>10, <1>11, <1>12, <1>13,
       <1>14, <1>15, <1>16 DEF Next, Work

\* What an invocation may answer Ok has just been reported.
LEMMA AnsweredNow ==
    ASSUME TypeOK, DeleteInv, NEW h \in Handlers, NEW ok, ReportFinalOutcomes(h, ok)
    PROVE  reports \subseteq reports' /\ \A k \in Handlers : settled'[k] \subseteq Answered'
  <1> DEFINE report == {ReportOf(h, outcomes[h][i], ok) : i \in DOMAIN outcomes[h]}
  <1>1. /\ reports' = reports \cup report
        /\ settled' = [settled EXCEPT ![h] = {r.cmd : r \in {s \in report : AnsweredOk(s)}}]
    BY DEF ReportFinalOutcomes
  <1> HIDE DEF report
  <1>2. Answered \subseteq Answered'
    BY <1>1 DEF Answered
  <1>3. {r.cmd : r \in {s \in report : AnsweredOk(s)}} \subseteq Answered'
    BY <1>1 DEF Answered, AnsweredOk
  <1>4. \A k \in Handlers : k # h => settled'[k] = settled[k]
    BY <1>1 DEF TypeOK
  <1>5. settled'[h] = {r.cmd : r \in {s \in report : AnsweredOk(s)}}
    BY <1>1 DEF TypeOK
  <1> QED  BY <1>1, <1>2, <1>3, <1>4, <1>5 DEF DeleteInv

LEMMA DeleteStep ==
    ASSUME TypeOK, DeleteInv, [Next]_vars
    PROVE  DeleteInv'
  <1>a. ASSUME reports \subseteq reports', \A k \in Handlers : settled'[k] \subseteq Answered',
               \A c \in Commands : c \in queue \cup dead /\ c \notin queue' \cup dead'
                                      => c \in Answered
        PROVE  DeleteInv'
    <2>1. Answered \subseteq Answered'
      BY <1>a DEF Answered
    <2> QED  BY <1>a, <2>1 DEF DeleteInv
  <1>b. ASSUME reports \subseteq reports',
               \A k \in Handlers : settled'[k] \subseteq settled[k]
        PROVE  reports \subseteq reports' /\ \A k \in Handlers : settled'[k] \subseteq Answered'
    <2>1. Answered \subseteq Answered'
      BY <1>b DEF Answered
    <2> QED  BY <1>b, <2>1 DEF DeleteInv
  <1>1. ASSUME NEW h \in Handlers, NEW b \in Batches, Deliver(h, b) PROVE DeleteInv'
    BY <1>1, <1>a, <1>b DEF Deliver
  <1>2. ASSUME NEW h \in Handlers,
               ReadCauses(h) \/ ReadCached(h) \/ ReadSnapshot(h) \/ ReplayStream(h)
                   \/ ProcessCommand(h) \/ AppendStored(h)
        PROVE  DeleteInv'
    BY <1>2, <1>a, <1>b
    DEF ReadCauses, ReadCached, ReadSnapshot, ReplayStream, ProcessCommand, AppendStored, messages
  <1>3. ASSUME NEW h \in Handlers,
               NoEvents(h) \/ AppendFails(h) \/ Publish(h) \/ PublishFails(h)
        PROVE  DeleteInv'
    <2>1. UNCHANGED messages /\ \E ok \in BOOLEAN : ReportFinalOutcomes(h, ok)
      BY <1>3 DEF NoEvents, AppendFails, Publish, PublishFails
    <2> QED  BY <1>a, <2>1, AnsweredNow DEF messages
  <1>4. ASSUME NEW h \in Handlers, AppendAnswerLost(h) PROVE DeleteInv'
    <2>1. UNCHANGED messages
      BY <1>4 DEF AppendAnswerLost
    <2>2. CASE UNCHANGED <<cache, reports, settled, pc>>
      BY <1>a, <1>b, <2>1, <2>2 DEF messages
    <2>3. CASE ReportFinalOutcomes(h, FALSE)
      BY <1>a, <2>1, <2>3, AnsweredNow DEF messages
    <2> QED  BY <1>4, <2>2, <2>3 DEF AppendAnswerLost
  <1>5. ASSUME NEW h \in Handlers, AppendConflict(h) PROVE DeleteInv'
    <2>1. /\ UNCHANGED <<messages, reports>>
          /\ \A k \in Handlers : settled'[k] \subseteq settled[k]
      BY <1>5 DEF AppendConflict, TypeOK
    <2> QED  BY <1>a, <1>b, <2>1 DEF messages
  <1>6. ASSUME NEW h \in Handlers, Settle(h) PROVE DeleteInv'
    <2>1. /\ queue' = queue \ settled[h] /\ UNCHANGED <<dead, reports>>
          /\ \A k \in Handlers : settled'[k] \subseteq settled[k]
      BY <1>6 DEF Settle, EndWork, TypeOK
    <2>2. settled[h] \subseteq Answered
      BY DEF DeleteInv
    <2> QED  BY <1>a, <1>b, <2>1, <2>2
  <1>7. ASSUME NEW h \in Handlers, SettleFails(h) PROVE DeleteInv'
    <2>1. /\ UNCHANGED <<messages, reports>>
          /\ \A k \in Handlers : settled'[k] \subseteq settled[k]
      BY <1>7 DEF SettleFails, EndWork, TypeOK
    <2> QED  BY <1>a, <1>b, <2>1 DEF messages
  <1>8. ASSUME NEW memo \in snapWrites, SnapshotLands(memo) \/ SnapshotWriteLost(memo)
        PROVE  DeleteInv'
    BY <1>8, <1>a, <1>b DEF SnapshotLands, SnapshotWriteLost, messages
  <1>9. ASSUME NEW c \in Containers, Evict(c) \/ Restart(c) PROVE DeleteInv'
    <2>1. /\ UNCHANGED <<messages, reports>>
          /\ \A k \in Handlers : settled'[k] \subseteq settled[k]
      BY <1>9 DEF Evict, Restart, TypeOK
    <2> QED  BY <1>a, <1>b, <2>1 DEF messages
  <1>10. ASSUME NEW c \in Commands, DeadLetter(c) PROVE DeleteInv'
    BY <1>10, <1>a, <1>b DEF DeadLetter
  <1>11. CASE UNCHANGED vars
    BY <1>11, <1>a, <1>b DEF vars
  <1> QED
    BY <1>1, <1>2, <1>3, <1>4, <1>5, <1>6, <1>7, <1>8, <1>9, <1>10, <1>11 DEF Next, Work

LEMMA CreditAlways == Spec => [](SafeInv /\ CreditInv)
  <1>1. Init => CreditInv
    <2> SUFFICES ASSUME Init PROVE CreditInv
      OBVIOUS
    <2>1. reports = {} /\ \A h \in Handlers : pc[h] = "idle"
      BY DEF Init
    <2> QED  BY <2>1 DEF CreditInv, Credits
  <1>2. SafeInv /\ CreditInv /\ [Next]_vars => CreditInv'
    BY CreditStep
  <1> QED  BY <1>1, <1>2, SafeAlways, PTL DEF Spec

LEMMA DeleteAlways == Spec => [](TypeOK /\ DeleteInv)
  <1>1. Init => DeleteInv
    BY DEF Init, DeleteInv
  <1>2. TypeOK /\ DeleteInv /\ [Next]_vars => DeleteInv'
    BY DeleteStep
  <1> QED  BY <1>1, <1>2, TypeCorrect, PTL DEF Spec

\* A command a producer is told is accepted has its events in the stream, at the
\* positions of the append, and published: conflicts, retries, batches of several
\* commands and lost answers take none of them away (reportFinalOutcomes).
THEOREM AcceptedStays == Spec => []AcceptedIsDurable
  <1>1. SafeInv /\ CreditInv => AcceptedIsDurable
    <2> SUFFICES ASSUME CreditInv, NEW r \in reports, r.kind = "accepted"
                 PROVE  /\ Cardinality(OwnIn(log, r.from, r.upTo, r.cmd)) >= r.own
                        /\ OwnIn(log, r.from, r.upTo, r.cmd) \subseteq published
      BY DEF AcceptedIsDurable, OwnIn
    <2>1. Kept(r)
      BY DEF CreditInv
    <2> QED  BY <2>1 DEF Kept, OwnIn
  <1> QED  BY <1>1, CreditAlways, PTL

\* Messages are deleted only of commands that were accepted, repeats or rejected:
\* no failure or restart between the work and the delete loses a command
\* (handleQueueEvent).
THEOREM DeletedWasAnswered == Spec => []DeletedHasOutcome
  <1>1. TypeOK /\ DeleteInv => DeletedHasOutcome
    BY DEF DeleteInv, DeletedHasOutcome, Answered
  <1> QED  BY <1>1, DeleteAlways, PTL
=============================================================================
