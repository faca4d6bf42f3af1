----------------------- MODULE StateChangeSlice_proofs -----------------------
(***************************************************************************)
(* Proofs about the state change slices' command handler, for any number of *)
(* slices, commands, containers, invocations, deliveries, retries and       *)
(* failures, any decide and any read consistency, and about the calls that  *)
(* wait for what a handler decided, for any number of them in a process.    *)
(***************************************************************************)
EXTENDS StateChangeSlice, InlineDispatch, FiniteSetTheorems, WellFoundedInduction, TLAPS

-----------------------------------------------------------------------------
(* Helpers.                                                                  *)

\* A nonempty set of naturals below a bound has its maximum.
LEMMA MaxOfBounded ==
    ASSUME NEW n \in Nat, NEW S \in SUBSET (0..n), S # {}
    PROVE  Max(S) \in S /\ \A y \in S : Max(S) >= y
  <1> DEFINE Above(x) == {y \in S : y > x}
             R == StrictSubsetOrdering(0..n)
             T == {Above(x) : x \in S}
  <1>1. IsWellFoundedOn(R, SUBSET (0..n))
    <2>1. IsFiniteSet(0..n)  BY FS_Interval
    <2> QED  BY <2>1, FS_FiniteSubsetsOfFinite, FS_StrictSubsetOrderingWellFounded
  <1>2. T \subseteq SUBSET (0..n) /\ T # {}  OBVIOUS
  <1>3. \E a \in T : \A b \in T : ~ (<<b, a>> \in R)
    <2> HIDE DEF T, R
    <2> QED  BY <1>1, <1>2, WFMin
  <1>4. PICK x \in S : \A b \in T : ~ (<<b, Above(x)>> \in R)  BY <1>3
  <1>5. \A y \in S : x >= y
    <2> SUFFICES ASSUME NEW y \in S, ~ (x >= y) PROVE FALSE  OBVIOUS
    <2>0. \A z \in S : z \in Nat  OBVIOUS
    <2>1. x \in Nat /\ y \in Nat /\ y > x  BY <2>0
    <2>2. Above(y) \subseteq Above(x) /\ y \in Above(x) /\ y \notin Above(y)
      <3> HIDE DEF T, R
      <3>1. \A z \in S : z > y => z > x  BY <2>0, <2>1
      <3>2. ~ (y > y)  BY <2>1
      <3> QED  BY <2>1, <3>1, <3>2
    <2>3. Above(y) \in SUBSET (0..n) /\ Above(x) \in SUBSET (0..n) /\ Above(y) # Above(x)
      BY <2>2
    <2>4. Above(y) \in T  OBVIOUS
    <2>5. <<Above(y), Above(x)>> \in R
      <3> HIDE DEF Above
      <3> QED  BY <2>2, <2>3 DEF StrictSubsetOrdering
    <2> QED  BY <1>4, <2>4, <2>5
  <1>6. \E z \in S : \A y \in S : z >= y  BY <1>5
  <1> QED  BY <1>6 DEF Max

\* The head after a read: no position read lies past it, and it is not past the
\* read's end unless it was before.
LEMMA NewHeadBounds ==
    ASSUME TypeOK, NEW h \in Handlers, NEW end \in Nat, head[h] <= Len(log), end <= Len(log),
           NEW found \in SUBSET (head[h] + 1 .. end)
    PROVE  /\ NewHead(h, found) \in {head[h]} \cup found
           /\ NewHead(h, found) \in Nat
           /\ head[h] <= NewHead(h, found) /\ NewHead(h, found) <= Len(log)
           /\ \A i \in found : i <= NewHead(h, found)
  <1>1. head[h] \in Nat /\ Len(log) \in Nat  BY DEF TypeOK
  <1>2. {head[h]} \cup found \in SUBSET (0..Len(log)) /\ {head[h]} \cup found # {}
    <2>1. \A i \in found : i \in head[h] + 1 .. end  OBVIOUS
    <2>2. \A i \in found : i \in 0..Len(log)  BY <1>1, <2>1
    <2>3. head[h] \in 0..Len(log)  BY <1>1
    <2> QED  BY <2>2, <2>3
  <1>3. /\ NewHead(h, found) \in {head[h]} \cup found
        /\ \A i \in {head[h]} \cup found : NewHead(h, found) >= i
    BY <1>1, <1>2, MaxOfBounded DEF NewHead
  <1> QED  BY <1>1, <1>2, <1>3

LEMMA VerdictType ==
    ASSUME NEW evs, NEW c
    PROVE  Verdict(evs, c) \in Seq(Stored) \cup {Rejected}
  <1> DEFINE result == Decide(evs, c)
  <1>1. CASE result \in Seq(Events)
    <2>1. \A i \in 1..Len(result) : Encoded(result[i]) \in Stored  BY <1>1 DEF Stored
    <2>2. DOMAIN result = 1..Len(result) /\ Len(result) \in Nat  BY <1>1
    <2>3. [i \in DOMAIN result |-> Encoded(result[i])] \in Seq(Stored)
      <3> HIDE DEF result
      <3> QED  BY <2>1, <2>2
    <2> QED  BY <1>1, <2>3 DEF Verdict
  <1>2. CASE result \notin Seq(Events)  BY <1>2 DEF Verdict
  <1> QED  BY <1>1, <1>2

\* The decided events, as entries of the log.
LEMMA CausedType ==
    ASSUME NEW c \in Commands, NEW evs \in Seq(Stored)
    PROVE  /\ Caused(evs, c) \in Seq(Entry) /\ Len(Caused(evs, c)) = Len(evs)
           /\ \A i \in 1..Len(evs) : /\ Caused(evs, c)[i].event = evs[i]
                                     /\ Caused(evs, c)[i].cmd = c
  <1>1. Len(evs) \in Nat /\ DOMAIN evs = 1..Len(evs) /\ \A i \in 1..Len(evs) : evs[i] \in Stored
    OBVIOUS
  <1>2. Caused(evs, c) = [i \in 1..Len(evs) |-> [event |-> evs[i], cmd |-> c]]
    BY <1>1 DEF Caused
  <1>3. \A i \in 1..Len(evs) : [event |-> evs[i], cmd |-> c] \in Entry
    BY <1>1 DEF Entry
  <1>4. Caused(evs, c) \in Seq(Entry) /\ Len(Caused(evs, c)) = Len(evs)
    BY <1>1, <1>2, <1>3
  <1> QED  BY <1>2, <1>4

\* A slice decodes only what its query selects, and commands that share a cache
\* entry decode the same events.
LEMMA DecodesSelected ==
    ASSUME NEW c \in Commands
    PROVE  Decodes[c] \subseteq Selects[c]
  BY DEF Decodes

LEMMA SharedKey ==
    ASSUME NEW c \in Commands, NEW d \in Commands, CacheKey[c] = CacheKey[d]
    PROVE  Decodes[c] = Decodes[d] /\ CacheKey[c] \in CacheKeys
  <1>1. c \in CacheKey[c]  BY DEF CacheKey
  <1>2. SliceOf[c] = SliceOf[d] /\ Queries[c] = Queries[d]  BY <1>1 DEF CacheKey
  <1>3. Selects[c] = Selects[d]  BY <1>2 DEF Selects
  <1> QED  BY <1>2, <1>3 DEF Decodes, CacheKeys

-----------------------------------------------------------------------------
(* Types.                                                                    *)

\* Cache, answer and report of an invocation, which several actions write.
LEMMA CachePutType ==
    ASSUME TypeOK, NEW h \in Handlers, NEW memo \in Memo \cup {NoEntry}, CachePut(h, memo)
    PROVE  cache' \in [Containers -> [CacheKeys -> Memo \cup {NoEntry}]]
  BY DEF CachePut, TypeOK

LEMMA SnapshotType ==
    ASSUME TypeOK, NEW h \in Handlers
    PROVE  Snapshot(h) \in Memo
  BY DEF Snapshot, Memo, TypeOK

LEMMA ReportingType ==
    ASSUME TypeOK, NEW h \in Handlers, pc[h] # "idle",
           NEW kind \in {"accepted", "rejected", "refused", "failed"},
           NEW from \in Nat, NEW count \in Nat, Reporting(h, kind, from, count)
    PROVE  reports' \subseteq Report
  BY DEF Reporting, Report, TypeOK

LEMMA StoredByType ==
    ASSUME TypeOK, NEW h \in Handlers, pc[h] # "idle", StoredBy(h)
    PROVE  log' \in Seq(Entry)
  <1>1. cmd[h] \in Commands /\ decided[h] \in Seq(Stored) /\ log \in Seq(Entry)  BY DEF TypeOK
  <1>2. Caused(decided[h], cmd[h]) \in Seq(Entry)  BY <1>1, CausedType
  <1> QED  BY <1>1, <1>2 DEF StoredBy

LEMMA EndWorkType ==
    ASSUME TypeOK, NEW h \in Handlers, EndWork(h)
    PROVE  /\ pc' \in [Handlers -> {"idle", "read", "decide", "append", "publish", "answered",
                                    "failed"}]
           /\ cmd' \in [Handlers -> Commands \cup {NoEntry}]
           /\ \A k \in Handlers : pc'[k] # "idle" => cmd'[k] \in Commands
           /\ model' \in [Handlers -> SUBSET Nat] /\ head' \in [Handlers -> Nat]
           /\ repeated' \in [Handlers -> BOOLEAN] /\ decided' \in [Handlers -> Seq(Stored)]
           /\ retries' \in [Handlers -> 0..MaxRetries] /\ readEnd' \in [Handlers -> Nat]
  <1>1. <<>> \in Seq(Stored) /\ 0 \in 0..MaxRetries  BY BoundsAreNaturals
  <1> QED  BY <1>1 DEF EndWork, TypeOK

\* A retry or the end of the retries.
LEMMA RetryType ==
    ASSUME TypeOK, NEW h \in Handlers, pc[h] = "append", Retry(h) \/ Exhausted(h)
    PROVE  /\ pc' \in [Handlers -> {"idle", "read", "decide", "append", "publish", "answered",
                                    "failed"}]
           /\ \A k \in Handlers : pc'[k] # "idle" => pc[k] # "idle"
           /\ retries' \in [Handlers -> 0..MaxRetries] /\ reports' \subseteq Report
           /\ cache' \in [Containers -> [CacheKeys -> Memo \cup {NoEntry}]]
  <1>1. CASE Retry(h)
    <2>1. retries[h] \in 0..MaxRetries /\ MaxRetries \in Nat  BY BoundsAreNaturals DEF TypeOK
    <2>2. retries[h] - 1 \in 0..MaxRetries  BY <1>1, <2>1 DEF Retry, MayRetry
    <2> QED  BY <1>1, <2>2 DEF Retry, TypeOK
  <1>2. CASE Exhausted(h)
    <2>1. cache' \in [Containers -> [CacheKeys -> Memo \cup {NoEntry}]]
      BY <1>2, CachePutType DEF Exhausted, CacheInvalidate
    <2>2. reports' \subseteq Report  BY <1>2, ReportingType DEF Exhausted
    <2> QED  BY <1>2, <2>1, <2>2 DEF Exhausted, Answer, TypeOK
  <1> QED  BY <1>1, <1>2

\* TypeOK is inductive.
LEMMA TypeStep ==
    ASSUME TypeOK, [Next]_vars
    PROVE  TypeOK'
  <1> USE BoundsAreNaturals, SlicesHandleCommands
  <1>1. ASSUME NEW h \in Handlers, NEW c \in Commands, Deliver(h, c) PROVE TypeOK'
    <2>1. /\ cache[Home[h]][CacheKey[c]] \in Memo \cup {NoEntry}
      <3>1. CacheKey[c] \in CacheKeys  BY SharedKey
      <3> QED  BY <3>1 DEF TypeOK
    <2>2. model' \in [Handlers -> SUBSET Nat] /\ head' \in [Handlers -> Nat]
      BY <1>1, <2>1 DEF Deliver, Seed, TypeOK, Memo
    <2>3. received' \in [Commands -> 0..MaxReceive]
      <3>1. received[c] \in 0..MaxReceive /\ received[c] < MaxReceive
        BY <1>1 DEF Deliver, TypeOK
      <3>2. received[c] + 1 \in 0..MaxReceive  BY <3>1
      <3> QED  BY <1>1, <3>2 DEF Deliver, TypeOK
    <2>4. /\ pc' \in [Handlers -> {"idle", "read", "decide", "append", "publish", "answered",
                                   "failed"}]
          /\ cmd' \in [Handlers -> Commands \cup {NoEntry}]
          /\ \A k \in Handlers : pc'[k] # "idle" => cmd'[k] \in Commands
          /\ retries' \in [Handlers -> 0..MaxRetries]
      BY <1>1 DEF Deliver, TypeOK
    <2> QED  BY <1>1, <2>2, <2>3, <2>4 DEF Deliver, TypeOK, storage
  <1>2. ASSUME NEW h \in Handlers, Read(h) PROVE TypeOK'
    <2>1. PICK end \in 0..Len(log) :
              LET found == Matching(cmd[h], head[h] + 1, end) IN
              /\ model' = [model EXCEPT ![h] = Fold(h, found)]
              /\ head' = [head EXCEPT ![h] = NewHead(h, found)]
              /\ repeated' = [repeated EXCEPT ![h] = IsRepeat(cmd[h], found)]
      BY <1>2 DEF Read
    <2> DEFINE found == Matching(cmd[h], head[h] + 1, end)
    <2>2. head[h] \in Nat /\ Len(log) \in Nat  BY DEF TypeOK
    <2>3. found \in SUBSET (head[h] + 1 .. end)  BY DEF Matching
    <2>4. NewHead(h, found) \in Nat
      <3>1. PICK n \in Nat : n = head[h] + Len(log)  BY <2>2
      <3>2. {head[h]} \cup found \in SUBSET (0..n)  BY <2>1, <2>2, <2>3, <3>1
      <3>3. {head[h]} \cup found # {}  OBVIOUS
      <3>4. NewHead(h, found) \in {head[h]} \cup found
        BY <3>1, <3>2, <3>3, MaxOfBounded DEF NewHead
      <3> QED  BY <3>2, <3>4
    <2>5. Fold(h, found) \in SUBSET Nat  BY <2>1, <2>2, <2>3 DEF Fold, TypeOK
    <2>6. IsRepeat(cmd[h], found) \in BOOLEAN  BY DEF IsRepeat
    <2> HIDE DEF found
    <2>7. /\ model' = [model EXCEPT ![h] = Fold(h, found)]
          /\ head' = [head EXCEPT ![h] = NewHead(h, found)]
          /\ repeated' = [repeated EXCEPT ![h] = IsRepeat(cmd[h], found)]
      BY <2>1 DEF found
    <2> QED  BY <1>2, <2>2, <2>4, <2>5, <2>6, <2>7 DEF Read, TypeOK, storage, messages
  <1>3. ASSUME NEW h \in Handlers, DropRepeat(h) PROVE TypeOK'
    <2>1. reports' \subseteq Report  BY <1>3, ReportingType DEF DropRepeat
    <2> QED  BY <1>3, <2>1 DEF DropRepeat, Answer, TypeOK, storage, messages
  <1>4. ASSUME NEW h \in Handlers, Conclude(h) PROVE TypeOK'
    <2>1. pc[h] = "decide"  BY <1>4 DEF Conclude
    <2>2. \E kind \in {"accepted", "rejected", "refused", "failed"} : Reporting(h, kind, 0, 0)
      BY <1>4 DEF Conclude
    <2>3. reports' \subseteq Report  BY <2>1, <2>2, ReportingType
    <2>4. cache' \in [Containers -> [CacheKeys -> Memo \cup {NoEntry}]]
      BY <1>4, SnapshotType, CachePutType DEF Conclude
    <2> QED  BY <1>4, <2>1, <2>3, <2>4 DEF Conclude, Answer, TypeOK, storage, messages
  <1>5. ASSUME NEW h \in Handlers, Produce(h) PROVE TypeOK'
    <2>1. Verdict(EventsAt(log, model[h]), cmd[h]) \in Seq(Stored)
      BY <1>5, VerdictType DEF Produce
    <2> QED  BY <1>5, <2>1 DEF Produce, TypeOK, storage, messages
  <1>6. ASSUME NEW h \in Handlers, SealFails(h) PROVE TypeOK'
    <2>1. reports' \subseteq Report  BY <1>6, ReportingType DEF SealFails
    <2>2. cache' \in [Containers -> [CacheKeys -> Memo \cup {NoEntry}]]
      BY <1>6, SnapshotType, CachePutType DEF SealFails
    <2> QED  BY <1>6, <2>1, <2>2 DEF SealFails, Answer, Fault, TypeOK, storage, messages
  <1>7. ASSUME NEW h \in Handlers, AppendStored(h) PROVE TypeOK'
    <2>1. log' \in Seq(Entry)  BY <1>7, StoredByType DEF AppendStored
    <2>2. Len(log) \in Nat  BY DEF TypeOK
    <2> QED  BY <1>7, <2>1, <2>2 DEF AppendStored, TypeOK, messages
  <1>8. ASSUME NEW h \in Handlers, Publish(h) PROVE TypeOK'
    <2>1. readEnd[h] \in Nat /\ Len(decided[h]) \in Nat  BY DEF TypeOK
    <2>2. reports' \subseteq Report  BY <1>8, <2>1, ReportingType DEF Publish
    <2>3. cache' \in [Containers -> [CacheKeys -> Memo \cup {NoEntry}]]
      BY <1>8, SnapshotType, CachePutType DEF Publish
    <2>4. published' \subseteq Nat /\ faults' \in 0..MaxFaults
      BY <1>8, <2>1 DEF Publish, Fault, TypeOK
    <2> QED  BY <1>8, <2>2, <2>3, <2>4 DEF Publish, Answer, TypeOK, messages
  <1>9. ASSUME NEW h \in Handlers, AppendRefused(h) PROVE TypeOK'
    <2>1. pc[h] = "append" /\ (Retry(h) \/ Exhausted(h))  BY <1>9 DEF AppendRefused
    <2> QED  BY <1>9, <2>1, RetryType DEF AppendRefused, TypeOK, storage, messages
  <1>10. ASSUME NEW h \in Handlers, AppendFails(h) PROVE TypeOK'
    <2>1. pc[h] = "append" /\ (Retry(h) \/ Exhausted(h))  BY <1>10 DEF AppendFails
    <2>2. log' \in Seq(Entry)
      <3>1. CASE UNCHANGED log  BY <3>1 DEF TypeOK
      <3>2. CASE StoredBy(h)  BY <2>1, <3>2, StoredByType
      <3> QED  BY <1>10, <3>1, <3>2 DEF AppendFails
    <2>3. /\ pc' \in [Handlers -> {"idle", "read", "decide", "append", "publish", "answered",
                                   "failed"}]
          /\ \A k \in Handlers : pc'[k] # "idle" => pc[k] # "idle"
          /\ retries' \in [Handlers -> 0..MaxRetries] /\ reports' \subseteq Report
          /\ cache' \in [Containers -> [CacheKeys -> Memo \cup {NoEntry}]]
      BY <2>1, RetryType
    <2>4. faults' \in 0..MaxFaults  BY <1>10 DEF AppendFails, Fault, TypeOK
    <2>5. UNCHANGED <<published, messages, cmd, model, head, repeated, decided, readEnd>>
      BY <1>10 DEF AppendFails
    <2> QED  BY <2>2, <2>3, <2>4, <2>5 DEF TypeOK, messages
  <1>11. ASSUME NEW h \in Handlers, Settle(h) PROVE TypeOK'
    <2>1. queue' \subseteq Commands /\ faults' \in 0..MaxFaults
      BY <1>11 DEF Settle, Fault, TypeOK
    <2> QED  BY <1>11, <2>1, EndWorkType DEF Settle, TypeOK, storage
  <1>12. ASSUME NEW h \in Handlers, ReadFails(h) PROVE TypeOK'
    <2>1. faults' \in 0..MaxFaults  BY <1>12 DEF ReadFails, Fault, TypeOK
    <2> QED  BY <1>12, <2>1, EndWorkType DEF ReadFails, TypeOK, storage, messages
  <1>13. ASSUME NEW c \in Containers, NEW key \in CacheKeys, Evict(c, key) PROVE TypeOK'
    BY <1>13 DEF Evict, TypeOK, storage, messages
  <1>14. ASSUME NEW c \in Containers, Restart(c) PROVE TypeOK'
    <2>1. <<>> \in Seq(Stored) /\ 0 \in 0..MaxRetries  OBVIOUS
    <2>2. faults' \in 0..MaxFaults  BY <1>14 DEF Restart, Fault, TypeOK
    <2>3. cache' \in [Containers -> [CacheKeys -> Memo \cup {NoEntry}]]
      BY <1>14 DEF Restart, TypeOK
    <2>4. /\ pc' \in [Handlers -> {"idle", "read", "decide", "append", "publish", "answered",
                                   "failed"}]
          /\ cmd' \in [Handlers -> Commands \cup {NoEntry}]
          /\ \A k \in Handlers : pc'[k] # "idle" => cmd'[k] \in Commands
      BY <1>14 DEF Restart, TypeOK
    <2>5. /\ model' \in [Handlers -> SUBSET Nat] /\ head' \in [Handlers -> Nat]
          /\ repeated' \in [Handlers -> BOOLEAN] /\ decided' \in [Handlers -> Seq(Stored)]
          /\ retries' \in [Handlers -> 0..MaxRetries] /\ readEnd' \in [Handlers -> Nat]
      BY <1>14, <2>1 DEF Restart, TypeOK
    <2> QED  BY <1>14, <2>2, <2>3, <2>4, <2>5 DEF Restart, TypeOK, storage, messages
  <1>15. ASSUME NEW c \in Commands, DeadLetter(c) PROVE TypeOK'
    BY <1>15 DEF DeadLetter, TypeOK, storage
  <1>16. CASE UNCHANGED vars
    BY <1>16 DEF vars, TypeOK
  <1> QED
    BY <1>1, <1>2, <1>3, <1>4, <1>5, <1>6, <1>7, <1>8, <1>9, <1>10, <1>11, <1>12, <1>13,
       <1>14, <1>15, <1>16 DEF Next, Work

LEMMA TypeInit == Init => TypeOK
  <1> SUFFICES ASSUME Init PROVE TypeOK  OBVIOUS
  <1>1. <<>> \in Seq(Entry) /\ <<>> \in Seq(Stored)  OBVIOUS
  <1>2. 0 \in 0..MaxReceive /\ 0 \in 0..MaxRetries /\ 0 \in 0..MaxFaults
    BY BoundsAreNaturals
  <1> QED  BY <1>1, <1>2 DEF Init, TypeOK

\* Every variable of the handler, its caches, its queue and the log keeps its type.
THEOREM TypeCorrect == Spec => []TypeOK
  <1>1. TypeOK /\ [Next]_vars => TypeOK'  BY TypeStep
  <1> QED  BY <1>1, TypeInit, PTL DEF Spec

-----------------------------------------------------------------------------
(* The log only grows, and what was decided on it stays decided.             *)

Extends(s, t) == Len(s) <= Len(t) /\ \A i \in 1..Len(s) : t[i] = s[i]

LEMMA ModelStays ==
    ASSUME NEW s \in Seq(Entry), NEW t \in Seq(Entry), Extends(s, t),
           NEW c \in Commands, NEW n \in Nat, n <= Len(s)
    PROVE  ModelAt(t, c, n) = ModelAt(s, c, n)
  <1>1. \A i \in 1..n : t[i] = s[i]  BY DEF Extends
  <1> QED  BY <1>1 DEF ModelAt

LEMMA EventsStay ==
    ASSUME NEW s \in Seq(Entry), NEW t \in Seq(Entry), Extends(s, t),
           NEW m \in SUBSET (1..Len(s))
    PROVE  EventsAt(t, m) = EventsAt(s, m)
  <1>1. \A i \in m : t[i] = s[i]  BY DEF Extends
  <1> QED  BY <1>1 DEF EventsAt

LEMMA DecisionStays ==
    ASSUME NEW s \in Seq(Entry), NEW t \in Seq(Entry), Extends(s, t),
           NEW c \in Commands, NEW j \in 1..(Len(s) + 1)
    PROVE  DecisionAt(t, c, j) = DecisionAt(s, c, j)
  <1>1. j - 1 \in Nat /\ j - 1 <= Len(s)  OBVIOUS
  <1>2. ModelAt(t, c, j - 1) = ModelAt(s, c, j - 1)  BY <1>1, ModelStays
  <1>3. ModelAt(s, c, j - 1) \in SUBSET (1..Len(s))
    <2>1. \A i \in 1..(j - 1) : i \in 1..Len(s)  BY <1>1
    <2> QED  BY <2>1 DEF ModelAt
  <1>4. EventsAt(t, ModelAt(s, c, j - 1)) = EventsAt(s, ModelAt(s, c, j - 1))
    BY <1>3, EventsStay
  <1> QED  BY <1>2, <1>4 DEF DecisionAt

LEMMA JustifiedStays ==
    ASSUME NEW s \in Seq(Entry), NEW t \in Seq(Entry), Extends(s, t),
           NEW i \in 1..Len(s), Justified(s, i)
    PROVE  Justified(t, i)
  <1> DEFINE c == s[i].cmd
  <1>1. c \in Commands
    <2>1. s[i] \in Entry  OBVIOUS
    <2> QED  BY <2>1 DEF Entry
  <1>2. t[i] = s[i]  BY DEF Extends
  <1>3. PICK j \in 1..i, k \in i..Len(s) :
            /\ \A m \in j..k : s[m].cmd = c
            /\ DecisionAt(s, c, j) = [m \in 1..(k - j + 1) |-> s[j + m - 1].event]
    BY DEF Justified
  <1>4. \A m \in j..k : t[m] = s[m]  BY DEF Extends
  <1>5. \A m \in 1..(k - j + 1) : t[j + m - 1] = s[j + m - 1]
    <2>1. TAKE m \in 1..(k - j + 1)
    <2>2. j + m - 1 \in j..k  OBVIOUS
    <2> QED  BY <1>4, <2>2
  <1>6. [m \in 1..(k - j + 1) |-> s[j + m - 1].event]
        = [m \in 1..(k - j + 1) |-> t[j + m - 1].event]
    BY <1>5
  <1>7. DecisionAt(t, c, j) = DecisionAt(s, c, j)
    <2>1. j \in 1..(Len(s) + 1)  OBVIOUS
    <2> HIDE DEF c
    <2> QED  BY <1>1, <2>1, DecisionStays
  <1>8. k \in i..Len(t)  BY DEF Extends
  <1>9. t[i].cmd = c  BY <1>2
  <1> HIDE DEF c
  <1>10. \A m \in j..k : t[m].cmd = c  BY <1>3, <1>4
  <1>11. DecisionAt(t, c, j) = [m \in 1..(k - j + 1) |-> t[j + m - 1].event]
    BY <1>3, <1>6, <1>7
  <1> QED  BY <1>8, <1>9, <1>10, <1>11 DEF Justified

LEMMA OnceStays ==
    ASSUME NEW s \in Seq(Entry), NEW t \in Seq(Entry), Extends(s, t), NEW c \in Commands,
           Positions(t, c) = Positions(s, c), DecidedOnce(s, c)
    PROVE  DecidedOnce(t, c)
  <1>1. SUFFICES ASSUME Positions(t, c) # {} PROVE DecidedOnce(t, c)  BY DEF DecidedOnce
  <1>2. PICK j \in Positions(s, c) :
            /\ DecisionAt(s, c, j) # Rejected
            /\ Positions(s, c) = j..(j + Len(DecisionAt(s, c, j)) - 1)
    BY <1>1 DEF DecidedOnce
  <1>3. j \in 1..(Len(s) + 1)  BY DEF Positions
  <1>4. DecisionAt(t, c, j) = DecisionAt(s, c, j)  BY <1>3, DecisionStays
  <1> QED  BY <1>2, <1>4 DEF DecidedOnce

-----------------------------------------------------------------------------
(* A conditional append that is not refused.                                  *)

SafeInv ==
    /\ TypeOK /\ DecidedOnItsPast /\ CacheIsOldState /\ StableDecidedOnce
    /\ AcceptedIsStored /\ WorkInv

\* The state an invocation appends on is that of the whole log.
LEMMA ModelIsCurrent ==
    ASSUME SafeInv, NEW h \in Handlers, pc[h] = "append", AppendCondition(h)
    PROVE  /\ cmd[h] \in Commands /\ decided[h] \in Seq(Stored)
           /\ model[h] = ModelAt(log, cmd[h], Len(log))
           /\ decided[h] = DecisionAt(log, cmd[h], Len(log) + 1)
           /\ \A i \in head[h] + 1 .. Len(log) : log[i].event \notin Selects[cmd[h]]
  <1>1. cmd[h] \in Commands /\ Len(log) \in Nat /\ head[h] \in Nat /\ decided[h] \in Seq(Stored)
    BY DEF SafeInv, TypeOK
  <1>2. /\ head[h] <= Len(log) /\ model[h] = ModelAt(log, cmd[h], head[h])
        /\ decided[h] = Verdict(EventsAt(log, model[h]), cmd[h])
    BY DEF SafeInv, WorkInv, HandlerInv, DecidesOnOldState, OldState, Snapshot
  <1>3. \A i \in head[h] + 1 .. Len(log) : log[i].event \notin Selects[cmd[h]]
    BY DEF AppendCondition, Matching
  <1>4. \A i \in head[h] + 1 .. Len(log) : log[i].event \notin Decodes[cmd[h]]
    BY <1>1, <1>3, DecodesSelected
  <1>5. ModelAt(log, cmd[h], Len(log)) = ModelAt(log, cmd[h], head[h])
    <2>1. \A i \in 1..Len(log) : i \in 1..head[h] \/ i \in head[h] + 1 .. Len(log)  BY <1>1
    <2>2. \A i \in 1..head[h] : i \in 1..Len(log)  BY <1>1, <1>2
    <2> QED  BY <1>4, <2>1, <2>2 DEF ModelAt
  <1>6. (Len(log) + 1) - 1 = Len(log)  BY <1>1
  <1> QED  BY <1>1, <1>2, <1>3, <1>5, <1>6 DEF DecisionAt

\* What the append makes of the log.
LEMMA AppendedLog ==
    ASSUME TypeOK, NEW h \in Handlers, pc[h] = "append", StoredBy(h)
    PROVE  /\ log' \in Seq(Entry) /\ Extends(log, log')
           /\ Len(log') = Len(log) + Len(decided[h])
           /\ \A i \in 1..Len(decided[h]) : /\ log'[Len(log) + i].event = decided[h][i]
                                            /\ log'[Len(log) + i].cmd = cmd[h]
  <1>1. log \in Seq(Entry) /\ cmd[h] \in Commands /\ decided[h] \in Seq(Stored)
    BY DEF TypeOK
  <1> DEFINE new == Caused(decided[h], cmd[h])
  <1>2. /\ new \in Seq(Entry) /\ Len(new) = Len(decided[h])
        /\ \A i \in 1..Len(decided[h]) : /\ new[i].event = decided[h][i]
                                         /\ new[i].cmd = cmd[h]
    BY <1>1, CausedType
  <1>3. log' = log \o new  BY DEF StoredBy
  <1> HIDE DEF new
  <1>4. log' \in Seq(Entry) /\ Len(log') = Len(log) + Len(new)
    <2>0. log \in Seq(Entry) /\ new \in Seq(Entry)  BY <1>1, <1>2
    <2>1. log \o new \in Seq(Entry) /\ Len(log \o new) = Len(log) + Len(new)
      BY ONLY <2>0
    <2> QED  BY <1>3, <2>1
  <1>5. \A i \in 1..Len(log) : log'[i] = log[i]  BY <1>1, <1>2, <1>3
  <1>6. \A i \in 1..Len(new) : log'[Len(log) + i] = new[i]  BY <1>1, <1>2, <1>3
  <1>7. Len(log) <= Len(log')
    <2>1. Len(log) \in Nat /\ Len(new) \in Nat  BY <1>1, <1>2
    <2> QED  BY <1>4, <2>1
  <1> QED  BY <1>2, <1>4, <1>5, <1>6, <1>7 DEF Extends

LEMMA AppendJustified ==
    ASSUME SafeInv, NEW h \in Handlers, pc[h] = "append", AppendCondition(h), StoredBy(h)
    PROVE  DecidedOnItsPast'
  <1> DEFINE c == cmd[h]
             n == Len(log)
             d == Len(decided[h])
  <1>1. /\ log' \in Seq(Entry) /\ Extends(log, log') /\ Len(log') = n + d
        /\ \A i \in 1..d : log'[n + i].event = decided[h][i] /\ log'[n + i].cmd = c
    BY AppendedLog DEF SafeInv
  <1>2. log \in Seq(Entry) /\ n \in Nat /\ d \in Nat /\ decided[h] \in Seq(Stored)
    BY DEF SafeInv, TypeOK
  <1>3. c \in Commands /\ decided[h] = DecisionAt(log, c, n + 1)  BY ModelIsCurrent
  <1>4. DecisionAt(log', c, n + 1) = decided[h]
    <2>1. n + 1 \in 1..(Len(log) + 1)  BY <1>2
    <2> QED  BY <1>1, <1>2, <1>3, <2>1, DecisionStays
  <1> HIDE DEF c, n, d
  <1>5. ASSUME NEW i \in 1..n PROVE Justified(log', i)
    <2>1. i \in 1..Len(log) /\ Justified(log, i)
      BY <1>2 DEF n, SafeInv, DecidedOnItsPast
    <2> QED  BY <1>1, <1>2, <2>1, JustifiedStays
  <1>6. ASSUME NEW i \in n + 1 .. n + d PROVE Justified(log', i)
    <2> DEFINE j == n + 1
               k == n + d
    <2>1. j \in 1..i /\ k \in i..Len(log')  BY <1>1, <1>2
    <2>2. \A m \in j..k : log'[m].cmd = c
      <3>1. TAKE m \in j..k
      <3>2. m - n \in 1..d /\ n + (m - n) = m  BY <1>2
      <3> QED  BY <1>1, <3>2
    <2>3. log'[i].cmd = c  BY <1>2, <2>2
    <2>4. [m \in 1..(k - j + 1) |-> log'[j + m - 1].event] = decided[h]
      <3>1. k - j + 1 = d  BY <1>2
      <3>2. \A m \in 1..d : j + m - 1 = n + m  BY <1>2
      <3>3. \A m \in 1..d : log'[j + m - 1].event = decided[h][m]  BY <1>1, <3>2
      <3>4. decided[h] = [m \in 1..d |-> decided[h][m]]  BY <1>2 DEF d
      <3> HIDE DEF j, k
      <3> QED  BY <3>1, <3>3, <3>4
    <2>5. DecisionAt(log', c, j) = [m \in 1..(k - j + 1) |-> log'[j + m - 1].event]
      BY <1>4, <2>4
    <2> HIDE DEF j, k
    <2> QED  BY <2>1, <2>2, <2>3, <2>5 DEF Justified
  <1>7. DOMAIN log' = 1..(n + d)  BY <1>1
  <1>8. \A i \in 1..(n + d) : i \in 1..n \/ i \in n + 1 .. n + d  BY <1>2
  <1> QED  BY <1>5, <1>6, <1>7, <1>8 DEF DecidedOnItsPast

LEMMA AppendOnce ==
    ASSUME SafeInv, NEW h \in Handlers, pc[h] = "append", AppendCondition(h), StoredBy(h)
    PROVE  StableDecidedOnce'
  <1> DEFINE n == Len(log)
             d == Len(decided[h])
  <1>1. /\ log' \in Seq(Entry) /\ Extends(log, log') /\ Len(log') = n + d
        /\ \A i \in 1..d : log'[n + i].event = decided[h][i] /\ log'[n + i].cmd = cmd[h]
    BY AppendedLog DEF SafeInv
  <1>2. /\ log \in Seq(Entry) /\ n \in Nat /\ d \in Nat /\ decided[h] \in Seq(Stored)
        /\ head[h] \in Nat /\ \A i \in 1..n : log'[i] = log[i]
    BY <1>1 DEF SafeInv, TypeOK, Extends
  <1>3. /\ cmd[h] \in Commands /\ decided[h] = DecisionAt(log, cmd[h], n + 1)
        /\ \A i \in head[h] + 1 .. n : log[i].event \notin Selects[cmd[h]]
    BY ModelIsCurrent
  <1>4. DecisionAt(log', cmd[h], n + 1) = decided[h]
    <2>1. n + 1 \in 1..(Len(log) + 1)  BY <1>2
    <2> QED  BY <1>1, <1>2, <1>3, <2>1, DecisionStays
  <1>5. DOMAIN log' = 1..(n + d) /\ DOMAIN log = 1..n  BY <1>1, <1>2
  <1> HIDE DEF n, d
  <1>6. SUFFICES ASSUME NEW c \in Stable,
                        \A i \in Positions(log', c) : log'[i].event \in Selects[c]
                 PROVE  DecidedOnce(log', c)
    BY DEF StableDecidedOnce
  <1>7. c \in Commands  BY SlicesHandleCommands
  <1>8. Positions(log, c) = {i \in Positions(log', c) : i <= n}
    BY <1>2, <1>5 DEF Positions
  <1>9. \A i \in Positions(log, c) : log[i].event \in Selects[c]
    <2>1. \A i \in Positions(log, c) : log'[i] = log[i] /\ i \in Positions(log', c)
      BY <1>2, <1>5, <1>8 DEF Positions
    <2> QED  BY <1>6, <2>1
  <1>10. CASE c # cmd[h]
    <2>1. \A i \in n + 1 .. n + d : log'[i].cmd = cmd[h]
      <3>1. TAKE i \in n + 1 .. n + d
      <3>2. i - n \in 1..d /\ n + (i - n) = i  BY <1>2
      <3> QED  BY <1>1, <3>2
    <2>2. Positions(log', c) = Positions(log, c)
      <3>1. \A i \in Positions(log', c) : i <= n
        BY <1>2, <1>5, <1>10, <2>1 DEF Positions
      <3> QED  BY <1>8, <3>1
    <2>3. DecidedOnce(log, c)  BY <1>9 DEF SafeInv, StableDecidedOnce
    <2> QED  BY <1>1, <1>2, <1>7, <2>2, <2>3, OnceStays
  <1>11. CASE c = cmd[h]
    <2>1. \A i \in 1..head[h] : log[i].cmd = c => log[i].event \notin Selects[c]
      BY <1>11 DEF SafeInv, WorkInv, HandlerInv, OwnUnseen
    <2>2. Positions(log, c) = {}
      <3>1. \A i \in 1..n : i \in 1..head[h] \/ i \in head[h] + 1 .. n  BY <1>2
      <3> QED  BY <1>3, <1>5, <1>9, <1>11, <2>1, <3>1 DEF Positions
    <2>3. Positions(log', c) = n + 1 .. n + d
      <3>1. \A i \in n + 1 .. n + d : i \in 1..(n + d) /\ log'[i].cmd = c
        <4>1. TAKE i \in n + 1 .. n + d
        <4>2. i - n \in 1..d /\ n + (i - n) = i /\ i \in 1..(n + d)  BY <1>2
        <4> QED  BY <1>1, <1>11, <4>2
      <3>2. \A i \in Positions(log', c) : i \in n + 1 .. n + d
        <4>1. \A i \in 1..n : i \notin Positions(log', c)
          BY <1>2, <1>5, <2>2 DEF Positions
        <4> QED  BY <1>2, <1>5, <4>1 DEF Positions
      <3>3. \A i \in n + 1 .. n + d : i \in Positions(log', c)
        BY <1>5, <3>1 DEF Positions
      <3> QED  BY <3>2, <3>3
    <2>4. SUFFICES ASSUME Positions(log', c) # {} PROVE DecidedOnce(log', c)
      BY DEF DecidedOnce
    <2>5. n + 1 \in Positions(log', c)  BY <1>2, <2>3, <2>4
    <2>6. DecisionAt(log', c, n + 1) # Rejected
      <3>1. Rejected \notin Seq(Stored)  BY RejectedIsNoEvents DEF Stored
      <3> QED  BY <1>2, <1>4, <1>11, <3>1
    <2>7. n + 1 .. n + d = (n + 1)..((n + 1) + Len(DecisionAt(log', c, n + 1)) - 1)
      <3>1. Len(DecisionAt(log', c, n + 1)) = d  BY <1>4, <1>11 DEF d
      <3>2. (n + 1) + d - 1 = n + d  BY <1>2
      <3> QED  BY <3>1, <3>2
    <2> QED  BY <2>3, <2>5, <2>6, <2>7 DEF DecidedOnce
  <1> QED  BY <1>10, <1>11

-----------------------------------------------------------------------------
(* What the other steps keep.                                                *)

Untouched(h) ==
    /\ pc'[h] = pc[h] /\ cmd'[h] = cmd[h] /\ model'[h] = model[h] /\ head'[h] = head[h]
    /\ repeated'[h] = repeated[h] /\ decided'[h] = decided[h]
    /\ retries'[h] = retries[h] /\ readEnd'[h] = readEnd[h]

Rests(h) == pc'[h] \in {"idle", "answered", "failed"}

\* The state an invocation holds stays the state at its head.
LEMMA StateStays ==
    ASSUME TypeOK, TypeOK', Extends(log, log'), NEW h \in Handlers, pc[h] # "idle",
           OldState(cmd[h], Snapshot(h)),
           cmd'[h] = cmd[h], model'[h] = model[h], head'[h] = head[h]
    PROVE  /\ OldState(cmd[h], Snapshot(h))'
           /\ EventsAt(log, model[h])' = EventsAt(log, model[h])
           /\ \A i \in 1..head[h] : i \in 1..Len(log) /\ log'[i] = log[i]
  <1>1. /\ log \in Seq(Entry) /\ log' \in Seq(Entry) /\ cmd[h] \in Commands /\ head[h] \in Nat
        /\ Len(log) \in Nat /\ Len(log') \in Nat
    BY DEF TypeOK
  <1>2. head[h] <= Len(log) /\ model[h] = ModelAt(log, cmd[h], head[h])
    BY DEF OldState, Snapshot
  <1>3. ModelAt(log', cmd[h], head[h]) = ModelAt(log, cmd[h], head[h])
    BY <1>1, <1>2, ModelStays
  <1>4. head[h] <= Len(log')  BY <1>1, <1>2 DEF Extends
  <1>5. \A i \in 1..head[h] : i \in 1..Len(log)  BY <1>1, <1>2
  <1>6. model[h] \in SUBSET (1..Len(log))  BY <1>2, <1>5 DEF ModelAt
  <1>7. EventsAt(log', model[h]) = EventsAt(log, model[h])  BY <1>1, <1>6, EventsStay
  <1> QED  BY <1>2, <1>3, <1>4, <1>5, <1>7 DEF OldState, Snapshot, Extends

LEMMA HandlerStays ==
    ASSUME TypeOK, TypeOK', Extends(log, log'), NEW h \in Handlers, HandlerInv(h), Untouched(h)
    PROVE  HandlerInv(h)'
  <1>1. /\ log \in Seq(Entry) /\ head[h] \in Nat /\ readEnd[h] \in Nat
        /\ Len(log) \in Nat /\ Len(log') \in Nat /\ Len(log) <= Len(log')
        /\ \A i \in 1..Len(log) : log'[i] = log[i]
    BY DEF TypeOK, Extends
  <1>2. ASSUME pc[h] \in {"read", "decide", "append", "publish"}
        PROVE  /\ OldState(cmd[h], Snapshot(h))'
               /\ EventsAt(log, model[h])' = EventsAt(log, model[h])
               /\ \A i \in 1..head[h] : i \in 1..Len(log) /\ log'[i] = log[i]
    <2>1. OldState(cmd[h], Snapshot(h))  BY <1>2 DEF HandlerInv, DecidesOnOldState
    <2> QED  BY <1>2, <2>1, StateStays DEF Untouched
  <1>3. DecidesOnOldState(h)'
    <2>1. pc'[h] \in {"read", "decide", "append", "publish"} => OldState(cmd[h], Snapshot(h))'
      BY <1>2 DEF Untouched
    <2>2. pc'[h] = "append" =>
             decided'[h] = Verdict(EventsAt(log', model'[h]), cmd'[h])
      <3> SUFFICES ASSUME pc[h] = "append"
                   PROVE  decided[h] = Verdict(EventsAt(log', model'[h]), cmd[h])
        BY DEF Untouched
      <3>1. EventsAt(log', model'[h]) = EventsAt(log, model[h])  BY <1>2
      <3>2. decided[h] = Verdict(EventsAt(log, model[h]), cmd[h])
        BY DEF HandlerInv, DecidesOnOldState
      <3> QED  BY <3>1, <3>2
    <2> QED  BY <2>1, <2>2 DEF DecidesOnOldState
  <1>4. OwnUnseen(h)'
    <2> SUFFICES ASSUME cmd[h] \in Stable,
                        pc[h] \in {"read", "append"} \/ (pc[h] = "decide" /\ ~repeated[h]),
                        NEW i \in 1..head[h], log'[i].cmd = cmd[h]
                 PROVE  log'[i].event \notin Selects[cmd[h]]
      BY DEF OwnUnseen, Untouched
    <2>1. log'[i] = log[i]  BY <1>2
    <2> QED  BY <2>1 DEF HandlerInv, OwnUnseen
  <1>5. StrongReadIsFull(h)'
    <2> SUFFICES ASSUME pc[h] \in {"decide", "append"}
                 PROVE  /\ readEnd[h] <= Len(log')
                        /\ ReadConsistency = "EscalateOnRetry" /\ retries[h] < MaxRetries
                           => \A i \in head[h] + 1 .. readEnd[h] :
                                 log'[i].event \notin Selects[cmd[h]]
      BY DEF StrongReadIsFull, Untouched, Matching
    <2>1. readEnd[h] <= Len(log)  BY DEF HandlerInv, StrongReadIsFull
    <2>2. \A i \in head[h] + 1 .. readEnd[h] : i \in 1..Len(log)  BY <1>1, <2>1
    <2>3. ReadConsistency = "EscalateOnRetry" /\ retries[h] < MaxRetries =>
             \A i \in head[h] + 1 .. readEnd[h] : log[i].event \notin Selects[cmd[h]]
      BY DEF HandlerInv, StrongReadIsFull, Matching
    <2> QED  BY <1>1, <2>1, <2>2, <2>3
  <1>6. PublishStored(h)'
    <2> SUFFICES ASSUME pc[h] = "publish",
                        NEW i \in readEnd[h] + 1 .. readEnd[h] + Len(decided[h])
                 PROVE  i \in DOMAIN log' /\ log'[i].cmd = cmd[h]
      BY DEF PublishStored, Untouched
    <2>1. i \in DOMAIN log /\ log[i].cmd = cmd[h]  BY DEF HandlerInv, PublishStored
    <2>2. DOMAIN log = 1..Len(log) /\ DOMAIN log' = 1..Len(log')  BY DEF TypeOK
    <2> QED  BY <1>1, <2>1, <2>2
  <1> QED  BY <1>3, <1>4, <1>5, <1>6 DEF HandlerInv

LEMMA RestingInv ==
    ASSUME NEW h \in Handlers, Rests(h)
    PROVE  HandlerInv(h)'
  BY DEF Rests, HandlerInv, DecidesOnOldState, OwnUnseen, StrongReadIsFull, PublishStored

\* A cache keeps an entry, loses it, or gains the state at some head.
CacheStays ==
    \A ct \in Containers, c \in Commands :
        \/ cache'[ct][CacheKey[c]] = cache[ct][CacheKey[c]]
        \/ cache'[ct][CacheKey[c]] = NoEntry
        \/ /\ cache'[ct][CacheKey[c]].head <= Len(log)
           /\ cache'[ct][CacheKey[c]].model = ModelAt(log, c, cache'[ct][CacheKey[c]].head)

LEMMA CachesKept ==
    ASSUME SafeInv, TypeOK', Extends(log, log'), CacheStays
    PROVE  CacheIsOldState'
  <1> SUFFICES ASSUME NEW ct \in Containers, NEW c \in Commands,
                      cache'[ct][CacheKey[c]] # NoEntry
               PROVE  /\ cache'[ct][CacheKey[c]].head <= Len(log')
                      /\ cache'[ct][CacheKey[c]].model
                         = ModelAt(log', c, cache'[ct][CacheKey[c]].head)
    BY DEF CacheIsOldState, OldState
  <1>1. /\ cache'[ct][CacheKey[c]].head <= Len(log)
        /\ cache'[ct][CacheKey[c]].model = ModelAt(log, c, cache'[ct][CacheKey[c]].head)
    BY DEF CacheStays, SafeInv, CacheIsOldState, OldState
  <1>2. cache'[ct][CacheKey[c]] \in Memo
    <2>1. CacheKey[c] \in CacheKeys  BY SharedKey
    <2> QED  BY <2>1 DEF TypeOK
  <1>3. PICK memo \in Memo : memo = cache'[ct][CacheKey[c]]  BY <1>2
  <1>4. memo.head \in Nat  BY <1>3 DEF Memo
  <1>5. log \in Seq(Entry) /\ log' \in Seq(Entry) /\ Len(log) \in Nat /\ Len(log') \in Nat
    BY DEF SafeInv, TypeOK
  <1>6. ModelAt(log', c, memo.head) = ModelAt(log, c, memo.head)
    BY <1>1, <1>3, <1>4, <1>5, ModelStays
  <1>7. memo.head <= Len(log')  BY <1>1, <1>3, <1>4, <1>5 DEF Extends
  <1> QED  BY <1>1, <1>3, <1>6, <1>7

\* The state an invocation holds may be cached under its command's key.
LEMMA PutKeeps ==
    ASSUME SafeInv, NEW h \in Handlers, pc[h] \in {"decide", "append", "publish"},
           CachePut(h, Snapshot(h)) \/ CacheInvalidate(h)
    PROVE  CacheStays
  <1>1. cmd[h] \in Commands /\ Home[h] \in Containers
    BY SlicesHandleCommands DEF SafeInv, TypeOK
  <1>2. head[h] <= Len(log) /\ model[h] = ModelAt(log, cmd[h], head[h])
    BY DEF SafeInv, WorkInv, HandlerInv, DecidesOnOldState, OldState, Snapshot
  <1> SUFFICES ASSUME NEW ct \in Containers, NEW c \in Commands,
                      cache'[ct][CacheKey[c]] # cache[ct][CacheKey[c]],
                      cache'[ct][CacheKey[c]] # NoEntry
               PROVE  /\ cache'[ct][CacheKey[c]].head <= Len(log)
                      /\ cache'[ct][CacheKey[c]].model
                         = ModelAt(log, c, cache'[ct][CacheKey[c]].head)
    BY DEF CacheStays
  <1>3. cache \in [Containers -> [CacheKeys -> Memo \cup {NoEntry}]] /\ CacheKey[c] \in CacheKeys
        /\ CacheKey[cmd[h]] \in CacheKeys
    BY <1>1, SharedKey DEF SafeInv, TypeOK
  <1>4. CachePut(h, Snapshot(h))  BY <1>3 DEF CacheInvalidate, CachePut
  <1>5. cache'[ct][CacheKey[c]] = Snapshot(h) /\ CacheKey[c] = CacheKey[cmd[h]]
    BY <1>3, <1>4 DEF CachePut
  <1>6. Decodes[c] = Decodes[cmd[h]]  BY <1>1, <1>5, SharedKey
  <1>7. ModelAt(log, c, head[h]) = ModelAt(log, cmd[h], head[h])  BY <1>6 DEF ModelAt
  <1> QED  BY <1>2, <1>5, <1>7 DEF Snapshot

\* Reports of no stored events, and those of before, stay true.
LEMMA ReportsKept ==
    ASSUME SafeInv, TypeOK', Extends(log, log'),
           \A r \in reports' : r \in reports \/ r.kind # "accepted" \/ (r.from = 0 /\ r.count = 0)
    PROVE  AcceptedIsStored'
  <1> SUFFICES ASSUME NEW r \in reports', r.kind = "accepted",
                      NEW i \in r.from + 1 .. r.from + r.count
               PROVE  i \in DOMAIN log' /\ log'[i].cmd = r.cmd
    BY DEF AcceptedIsStored
  <1>1. r \in reports
    <2>1. r.from = 0 /\ r.count = 0 => FALSE  OBVIOUS
    <2> QED  BY <2>1
  <1>2. i \in DOMAIN log /\ log[i].cmd = r.cmd  BY <1>1 DEF SafeInv, AcceptedIsStored
  <1>3. DOMAIN log = 1..Len(log) /\ DOMAIN log' = 1..Len(log') /\ Len(log) \in Nat /\ Len(log') \in Nat
    BY DEF SafeInv, TypeOK
  <1> QED  BY <1>2, <1>3 DEF Extends

LEMMA LogSame ==
    ASSUME SafeInv, log' = log
    PROVE  Extends(log, log') /\ DecidedOnItsPast' /\ StableDecidedOnce'
  <1>1. Len(log) \in Nat  BY DEF SafeInv, TypeOK
  <1>2. Extends(log, log')  BY <1>1 DEF Extends
  <1>3. DecidedOnItsPast'  BY DEF SafeInv, DecidedOnItsPast
  <1>4. StableDecidedOnce'  BY DEF SafeInv, StableDecidedOnce
  <1> QED  BY <1>2, <1>3, <1>4

\* What a step has to show.
LEMMA Preserved ==
    ASSUME SafeInv, TypeOK', Extends(log, log'), CacheStays,
           \A h \in Handlers : Untouched(h) \/ Rests(h) \/ HandlerInv(h)',
           DecidedOnItsPast', StableDecidedOnce', AcceptedIsStored'
    PROVE  SafeInv'
  <1>1. WorkInv'
    <2> SUFFICES ASSUME NEW h \in Handlers PROVE HandlerInv(h)'  BY DEF WorkInv
    <2>1. CASE Untouched(h)  BY <2>1, HandlerStays DEF SafeInv, WorkInv
    <2>2. CASE Rests(h)  BY <2>2, RestingInv
    <2> QED  BY <2>1, <2>2
  <1> QED  BY <1>1, CachesKept DEF SafeInv

-----------------------------------------------------------------------------
(* The steps of one invocation.                                              *)

\* The state after a read is that at the new head.
LEMMA ReadState ==
    ASSUME SafeInv, NEW h \in Handlers, pc[h] = "read", NEW end \in 0..Len(log),
           NEW found, found = Matching(cmd[h], head[h] + 1, end)
    PROVE  /\ NewHead(h, found) \in Nat /\ NewHead(h, found) <= Len(log)
           /\ head[h] <= NewHead(h, found)
           /\ Fold(h, found) = ModelAt(log, cmd[h], NewHead(h, found))
           /\ \A i \in head[h] + 1 .. NewHead(h, found) :
                 log[i].event \in Selects[cmd[h]] => i \in found
           /\ \A i \in NewHead(h, found) + 1 .. end : log[i].event \notin Selects[cmd[h]]
  <1>1. TypeOK /\ cmd[h] \in Commands /\ head[h] \in Nat /\ Len(log) \in Nat /\ end \in Nat
        /\ end <= Len(log)
    BY DEF SafeInv, TypeOK
  <1>2. head[h] <= Len(log) /\ model[h] = ModelAt(log, cmd[h], head[h])
    BY DEF SafeInv, WorkInv, HandlerInv, DecidesOnOldState, OldState, Snapshot
  <1>3. found \in SUBSET (head[h] + 1 .. end)  BY DEF Matching
  <1>4. PICK n : n = NewHead(h, found)  OBVIOUS
  <1>5. /\ n \in {head[h]} \cup found /\ n \in Nat /\ head[h] <= n /\ n <= Len(log)
        /\ \A i \in found : i <= n
    BY <1>1, <1>2, <1>3, <1>4, NewHeadBounds
  <1>6. \A i \in found : i \in head[h] + 1 .. end /\ log[i].event \in Selects[cmd[h]]
    BY DEF Matching
  <1>7. \A i \in head[h] + 1 .. end : log[i].event \in Selects[cmd[h]] => i \in found
    BY DEF Matching
  <1>8. n = head[h] \/ n <= end  BY <1>1, <1>5, <1>6
  <1>9. \A i \in head[h] + 1 .. n : i \in head[h] + 1 .. end  BY <1>1, <1>5, <1>8
  <1>10. \A i \in n + 1 .. end : log[i].event \notin Selects[cmd[h]]
    <2> SUFFICES ASSUME NEW i \in n + 1 .. end, log[i].event \in Selects[cmd[h]] PROVE FALSE
      OBVIOUS
    <2>1. i \in head[h] + 1 .. end /\ i > n  BY <1>1, <1>5
    <2>2. i \in found  BY <1>7, <2>1
    <2> QED  BY <1>5, <2>1, <2>2
  <1>11. Fold(h, found) = ModelAt(log, cmd[h], n)
    <2>1. ASSUME NEW i \in Fold(h, found) PROVE i \in ModelAt(log, cmd[h], n)
      <3>1. CASE i \in model[h]
        <4>1. i \in 1..head[h] /\ log[i].event \in Decodes[cmd[h]]  BY <1>2, <3>1 DEF ModelAt
        <4>2. i \in 1..n  BY <1>1, <1>5, <4>1
        <4> QED  BY <4>1, <4>2 DEF ModelAt
      <3>2. CASE i \in found /\ log[i].event \in Decodes[cmd[h]]
        <4>1. i \in head[h] + 1 .. end /\ i <= n  BY <1>5, <1>6, <3>2
        <4>2. i \in 1..n  BY <1>1, <1>5, <4>1
        <4> QED  BY <3>2, <4>2 DEF ModelAt
      <3> QED  BY <2>1, <3>1, <3>2 DEF Fold
    <2>2. ASSUME NEW i \in ModelAt(log, cmd[h], n) PROVE i \in Fold(h, found)
      <3>1. i \in 1..n /\ log[i].event \in Decodes[cmd[h]]  BY <2>2 DEF ModelAt
      <3>2. CASE i <= head[h]
        <4>1. i \in 1..head[h]  BY <1>1, <3>1, <3>2
        <4> QED  BY <1>2, <3>1, <4>1 DEF ModelAt, Fold
      <3>3. CASE ~ (i <= head[h])
        <4>1. i \in head[h] + 1 .. n  BY <1>1, <1>5, <3>1, <3>3
        <4>2. log[i].event \in Selects[cmd[h]]  BY <1>1, <3>1, DecodesSelected
        <4>3. i \in found  BY <1>7, <1>9, <4>1, <4>2
        <4> QED  BY <3>1, <4>3 DEF Fold
      <3> QED  BY <3>2, <3>3
    <2> QED  BY <2>1, <2>2
  <1> QED  BY <1>4, <1>5, <1>7, <1>9, <1>10, <1>11

LEMMA ReadInv ==
    ASSUME SafeInv, TypeOK', NEW h \in Handlers, Read(h)
    PROVE  HandlerInv(h)'
  <1>1. PICK end \in 0..Len(log) :
            LET found == Matching(cmd[h], head[h] + 1, end) IN
            /\ StrongConsistency(h) => end = Len(log)
            /\ model' = [model EXCEPT ![h] = Fold(h, found)]
            /\ head' = [head EXCEPT ![h] = NewHead(h, found)]
            /\ repeated' = [repeated EXCEPT ![h] = IsRepeat(cmd[h], found)]
    BY DEF Read
  <1>2. PICK found : found = Matching(cmd[h], head[h] + 1, end)  OBVIOUS
  <1>3. /\ pc[h] = "read" /\ pc'[h] = "decide" /\ log' = log /\ cmd' = cmd /\ decided' = decided
        /\ retries' = retries /\ readEnd'[h] = Len(log)
    BY DEF Read, SafeInv, TypeOK, storage
  <1>4. /\ model'[h] = Fold(h, found) /\ head'[h] = NewHead(h, found)
        /\ repeated'[h] = IsRepeat(cmd[h], found)
    BY <1>1, <1>2 DEF SafeInv, TypeOK
  <1>5. /\ NewHead(h, found) \in Nat /\ NewHead(h, found) <= Len(log)
        /\ head[h] <= NewHead(h, found)
        /\ Fold(h, found) = ModelAt(log, cmd[h], NewHead(h, found))
        /\ \A i \in head[h] + 1 .. NewHead(h, found) :
              log[i].event \in Selects[cmd[h]] => i \in found
        /\ \A i \in NewHead(h, found) + 1 .. end : log[i].event \notin Selects[cmd[h]]
    BY <1>2, <1>3, ReadState
  <1>6. head[h] \in Nat /\ Len(log) \in Nat  BY DEF SafeInv, TypeOK
  <1>7. DecidesOnOldState(h)'
    BY <1>3, <1>4, <1>5 DEF DecidesOnOldState, OldState, Snapshot
  <1>8. OwnUnseen(h)'
    <2> SUFFICES ASSUME cmd[h] \in Stable, ~ IsRepeat(cmd[h], found),
                        NEW i \in 1..NewHead(h, found), log[i].cmd = cmd[h]
                 PROVE  log[i].event \notin Selects[cmd[h]]
      BY <1>3, <1>4 DEF OwnUnseen
    <2>1. \A j \in 1..head[h] : log[j].cmd = cmd[h] => log[j].event \notin Selects[cmd[h]]
      BY <1>3 DEF SafeInv, WorkInv, HandlerInv, OwnUnseen
    <2>2. i \in 1..head[h] \/ i \in head[h] + 1 .. NewHead(h, found)  BY <1>5, <1>6
    <2>3. i \notin found  BY DEF IsRepeat
    <2> QED  BY <1>5, <2>1, <2>2, <2>3
  <1>9. StrongReadIsFull(h)'
    <2>1. ReadConsistency = "EscalateOnRetry" /\ retries[h] < MaxRetries => end = Len(log)
      BY <1>1 DEF StrongConsistency
    <2>2. readEnd'[h] <= Len(log')  BY <1>3, <1>6
    <2>3. ReadConsistency = "EscalateOnRetry" /\ retries[h] < MaxRetries =>
             \A i \in NewHead(h, found) + 1 .. Len(log) : log[i].event \notin Selects[cmd[h]]
      BY <1>5, <2>1
    <2> QED  BY <1>3, <1>4, <2>2, <2>3 DEF StrongReadIsFull, Matching
  <1>10. PublishStored(h)'  BY <1>3 DEF PublishStored
  <1> QED  BY <1>7, <1>8, <1>9, <1>10 DEF HandlerInv

LEMMA DeliverInv ==
    ASSUME SafeInv, NEW h \in Handlers, NEW c \in Commands, Deliver(h, c)
    PROVE  HandlerInv(h)'
  <1> DEFINE entry == cache[Home[h]][CacheKey[c]]
  <1>1. /\ pc'[h] = "read" /\ cmd'[h] = c /\ log' = log
    BY DEF Deliver, SafeInv, TypeOK, storage
  <1>2. c \in Stable \/ entry = NoEntry => model'[h] = {} /\ head'[h] = 0
    BY DEF Deliver, Seed, SafeInv, TypeOK
  <1>3. c \notin Stable /\ entry # NoEntry => model'[h] = entry.model /\ head'[h] = entry.head
    BY DEF Deliver, Seed, SafeInv, TypeOK
  <1>4. head'[h] <= Len(log) /\ model'[h] = ModelAt(log, c, head'[h])
    <2>1. CASE c \in Stable \/ entry = NoEntry
      <3>1. Len(log) \in Nat  BY DEF SafeInv, TypeOK
      <3>2. ModelAt(log, c, 0) = {}  BY DEF ModelAt
      <3>3. model'[h] = {} /\ head'[h] = 0  BY <1>2, <2>1
      <3> HIDE DEF entry
      <3>4. model'[h] = ModelAt(log, c, head'[h])  BY <3>2, <3>3
      <3> QED  BY <3>1, <3>3, <3>4
    <2>2. CASE c \notin Stable /\ entry # NoEntry
      <3>1. Home[h] \in Containers  BY SlicesHandleCommands
      <3>2. OldState(c, entry)  BY <2>2, <3>1 DEF SafeInv, CacheIsOldState
      <3> QED  BY <1>3, <2>2, <3>2 DEF OldState
    <2> QED  BY <2>1, <2>2
  <1>5. DecidesOnOldState(h)'  BY <1>1, <1>4 DEF DecidesOnOldState, OldState, Snapshot
  <1>6. OwnUnseen(h)'
    <2>1. c \in Stable => \A i \in 1..head'[h] : FALSE  BY <1>2
    <2> QED  BY <1>1, <2>1 DEF OwnUnseen
  <1> QED  BY <1>1, <1>5, <1>6 DEF HandlerInv, StrongReadIsFull, PublishStored

LEMMA ProduceInv ==
    ASSUME SafeInv, NEW h \in Handlers, Produce(h)
    PROVE  HandlerInv(h)'
  <1>1. /\ pc[h] = "decide" /\ ~repeated[h] /\ pc'[h] = "append" /\ log' = log /\ cmd' = cmd
        /\ model' = model /\ head' = head /\ repeated' = repeated /\ retries' = retries
        /\ readEnd' = readEnd
        /\ decided'[h] = Verdict(EventsAt(log, model[h]), cmd[h])
    BY DEF Produce, SafeInv, TypeOK, storage
  <1>2. HandlerInv(h)  BY DEF SafeInv, WorkInv
  <1>3. DecidesOnOldState(h)'
    BY <1>1, <1>2 DEF HandlerInv, DecidesOnOldState, OldState, Snapshot
  <1>4. OwnUnseen(h)'  BY <1>1, <1>2 DEF HandlerInv, OwnUnseen
  <1>5. StrongReadIsFull(h)'  BY <1>1, <1>2 DEF HandlerInv, StrongReadIsFull, Matching
  <1> QED  BY <1>1, <1>3, <1>4, <1>5 DEF HandlerInv, PublishStored

\* A retry starts from the state just read, even when a lost answer hid an append.
LEMMA RetryInv ==
    ASSUME SafeInv, TypeOK', Extends(log, log'), NEW h \in Handlers, pc[h] = "append", Retry(h),
           UNCHANGED <<cmd, model, head>>
    PROVE  HandlerInv(h)'
  <1>1. pc'[h] = "read"  BY DEF Retry, SafeInv, TypeOK
  <1>2. HandlerInv(h)  BY DEF SafeInv, WorkInv
  <1>3. OldState(cmd[h], Snapshot(h))  BY <1>2 DEF HandlerInv, DecidesOnOldState
  <1>4. /\ OldState(cmd[h], Snapshot(h))'
        /\ \A i \in 1..head[h] : i \in 1..Len(log) /\ log'[i] = log[i]
    BY <1>3, StateStays DEF SafeInv
  <1>5. OwnUnseen(h)'
    <2> SUFFICES ASSUME cmd[h] \in Stable, NEW i \in 1..head[h], log'[i].cmd = cmd[h]
                 PROVE  log'[i].event \notin Selects[cmd[h]]
      BY DEF OwnUnseen
    <2>1. log'[i] = log[i]  BY <1>4
    <2> QED  BY <1>2, <2>1 DEF HandlerInv, OwnUnseen
  <1> QED  BY <1>1, <1>4, <1>5 DEF HandlerInv, DecidesOnOldState, StrongReadIsFull, PublishStored

\* A retry or the end of the retries keeps what the step after it needs.
LEMMA RetryKeeps ==
    ASSUME SafeInv, TypeOK', Extends(log, log'), NEW h \in Handlers, pc[h] = "append",
           Retry(h) \/ Exhausted(h), UNCHANGED <<cmd, model, head, repeated, decided, readEnd>>
    PROVE  /\ CacheStays /\ AcceptedIsStored'
           /\ \A k \in Handlers : Untouched(k) \/ Rests(k) \/ HandlerInv(k)'
  <1>1. CacheStays
    <2>1. CASE Retry(h)  BY <2>1 DEF Retry, CacheStays
    <2>2. CASE Exhausted(h)  BY <2>2, PutKeeps DEF Exhausted
    <2> QED  BY <2>1, <2>2
  <1>2. AcceptedIsStored'
    <2>1. \A r \in reports' : r \in reports \/ r.kind # "accepted"
      <3>1. CASE Retry(h)  BY <3>1 DEF Retry
      <3>2. CASE Exhausted(h)  BY <3>2 DEF Exhausted, Reporting
      <3> QED  BY <3>1, <3>2
    <2> QED  BY <2>1, ReportsKept
  <1>3. ASSUME NEW k \in Handlers, k # h PROVE Untouched(k)
    BY <1>3 DEF Retry, Exhausted, Answer, Untouched, SafeInv, TypeOK
  <1>4. Rests(h) \/ HandlerInv(h)'
    <2>1. CASE Retry(h)  BY <2>1, RetryInv
    <2>2. CASE Exhausted(h)  BY <2>2 DEF Exhausted, Answer, Rests, SafeInv, TypeOK
    <2> QED  BY <2>1, <2>2
  <1> QED  BY <1>1, <1>2, <1>3, <1>4

-----------------------------------------------------------------------------
(* Every step keeps the safety invariant.                                    *)

LEMMA SafeStep ==
    ASSUME SafeInv, [Next]_vars
    PROVE  SafeInv'
  <1>0. TypeOK /\ TypeOK'  BY TypeStep DEF SafeInv
  \* Steps of one invocation that leave the log alone and put it to rest.
  <1>1. ASSUME NEW h \in Handlers, log' = log, CacheStays, Rests(h),
               \A k \in Handlers \ {h} : Untouched(k),
               \A r \in reports' : r \in reports \/ r.kind # "accepted"
                                                \/ (r.from = 0 /\ r.count = 0)
        PROVE  SafeInv'
    <2>1. Extends(log, log') /\ DecidedOnItsPast' /\ StableDecidedOnce'  BY <1>1, LogSame
    <2>2. AcceptedIsStored'  BY <1>0, <1>1, <2>1, ReportsKept
    <2> QED  BY <1>0, <1>1, <2>1, <2>2, Preserved
  \* Steps of one invocation that touch neither log, nor caches, nor reports.
  <1>2. ASSUME NEW h \in Handlers, UNCHANGED <<log, cache, reports>>, HandlerInv(h)',
               \A k \in Handlers \ {h} : Untouched(k)
        PROVE  SafeInv'
    <2>1. Extends(log, log') /\ DecidedOnItsPast' /\ StableDecidedOnce'  BY <1>2, LogSame
    <2>2. AcceptedIsStored'  BY <1>0, <1>2, <2>1, ReportsKept
    <2>3. CacheStays  BY <1>2 DEF CacheStays
    <2> QED  BY <1>0, <1>2, <2>1, <2>2, <2>3, Preserved
  <1>3. ASSUME NEW h \in Handlers, NEW c \in Commands, Deliver(h, c) PROVE SafeInv'
    <2>1. HandlerInv(h)'  BY <1>3, DeliverInv
    <2>2. \A k \in Handlers \ {h} : Untouched(k)
      BY <1>0, <1>3 DEF Deliver, Seed, Untouched, TypeOK
    <2> QED  BY <1>2, <1>3, <2>1, <2>2 DEF Deliver, storage
  <1>4. ASSUME NEW h \in Handlers, Read(h) PROVE SafeInv'
    <2>1. HandlerInv(h)'  BY <1>0, <1>4, ReadInv
    <2>2. \A k \in Handlers \ {h} : Untouched(k)
      BY <1>0, <1>4 DEF Read, Untouched, TypeOK
    <2> QED  BY <1>2, <1>4, <2>1, <2>2 DEF Read, storage
  <1>5. ASSUME NEW h \in Handlers, DropRepeat(h) PROVE SafeInv'
    <2>1. CacheStays  BY <1>5 DEF DropRepeat, CacheStays
    <2>2. Rests(h) /\ \A k \in Handlers \ {h} : Untouched(k)
      BY <1>0, <1>5 DEF DropRepeat, Answer, Rests, Untouched, TypeOK
    <2>3. \A r \in reports' : r \in reports \/ (r.from = 0 /\ r.count = 0)
      BY <1>5 DEF DropRepeat, Reporting
    <2> QED  BY <1>1, <1>5, <2>1, <2>2, <2>3 DEF DropRepeat, storage
  <1>6. ASSUME NEW h \in Handlers, Conclude(h) PROVE SafeInv'
    <2>1. CacheStays  BY <1>6, PutKeeps DEF Conclude
    <2>2. Rests(h) /\ \A k \in Handlers \ {h} : Untouched(k)
      BY <1>0, <1>6 DEF Conclude, Answer, Rests, Untouched, TypeOK
    <2>3. \A r \in reports' : r \in reports \/ (r.from = 0 /\ r.count = 0)
      BY <1>6 DEF Conclude, Reporting
    <2> QED  BY <1>1, <1>6, <2>1, <2>2, <2>3 DEF Conclude, storage
  <1>7. ASSUME NEW h \in Handlers, Produce(h) PROVE SafeInv'
    <2>1. HandlerInv(h)'  BY <1>7, ProduceInv
    <2>2. \A k \in Handlers \ {h} : Untouched(k)
      BY <1>0, <1>7 DEF Produce, Untouched, TypeOK
    <2> QED  BY <1>2, <1>7, <2>1, <2>2 DEF Produce, storage
  <1>8. ASSUME NEW h \in Handlers, SealFails(h) PROVE SafeInv'
    <2>1. CacheStays  BY <1>8, PutKeeps DEF SealFails
    <2>2. Rests(h) /\ \A k \in Handlers \ {h} : Untouched(k)
      BY <1>0, <1>8 DEF SealFails, Answer, Rests, Untouched, TypeOK
    <2>3. \A r \in reports' : r \in reports \/ r.kind # "accepted"
      BY <1>8 DEF SealFails, Reporting
    <2> QED  BY <1>1, <1>8, <2>1, <2>2, <2>3 DEF SealFails, storage
  <1>9. ASSUME NEW h \in Handlers, AppendStored(h) PROVE SafeInv'
    <2>1. pc[h] = "append" /\ AppendCondition(h) /\ StoredBy(h)  BY <1>9 DEF AppendStored
    <2>2. /\ Extends(log, log') /\ Len(log') = Len(log) + Len(decided[h])
          /\ \A i \in 1..Len(decided[h]) : log'[Len(log) + i].cmd = cmd[h]
      BY <1>0, <2>1, AppendedLog
    <2>3. DecidedOnItsPast' /\ StableDecidedOnce'
      BY <2>1, AppendJustified, AppendOnce
    <2>4. AcceptedIsStored'  BY <1>0, <1>9, <2>2, ReportsKept DEF AppendStored
    <2>5. CacheStays  BY <1>9 DEF AppendStored, CacheStays
    <2>6. \A k \in Handlers \ {h} : Untouched(k)
      BY <1>0, <1>9 DEF AppendStored, Untouched, TypeOK
    <2>7. HandlerInv(h)'
      <3>1. /\ pc'[h] = "publish" /\ readEnd'[h] = Len(log) /\ decided' = decided /\ cmd' = cmd
            /\ model' = model /\ head' = head
        BY <1>0, <1>9 DEF AppendStored, TypeOK
      <3>2. OldState(cmd[h], Snapshot(h))'
        <4>1. OldState(cmd[h], Snapshot(h))
          BY <2>1 DEF SafeInv, WorkInv, HandlerInv, DecidesOnOldState
        <4> QED  BY <1>0, <2>1, <2>2, <3>1, <4>1, StateStays
      <3>3. PublishStored(h)'
        <4>1. Len(log) \in Nat /\ Len(decided[h]) \in Nat /\ DOMAIN log' = 1..Len(log')
          BY <1>0 DEF TypeOK
        <4> SUFFICES ASSUME NEW i \in Len(log) + 1 .. Len(log) + Len(decided[h])
                     PROVE  i \in DOMAIN log' /\ log'[i].cmd = cmd[h]
          BY <3>1 DEF PublishStored
        <4>2. i - Len(log) \in 1..Len(decided[h]) /\ Len(log) + (i - Len(log)) = i
              /\ i \in 1..(Len(log) + Len(decided[h]))
          BY <4>1
        <4> QED  BY <2>2, <4>1, <4>2
      <3> QED
        BY <3>1, <3>2, <3>3 DEF HandlerInv, DecidesOnOldState, OwnUnseen, StrongReadIsFull
    <2> QED  BY <1>0, <2>2, <2>3, <2>4, <2>5, <2>6, <2>7, Preserved
  <1>10. ASSUME NEW h \in Handlers, Publish(h) PROVE SafeInv'
    <2>1. CacheStays  BY <1>10, PutKeeps DEF Publish
    <2>2. Rests(h) /\ \A k \in Handlers \ {h} : Untouched(k)
      BY <1>0, <1>10 DEF Publish, Answer, Rests, Untouched, TypeOK
    <2>3. log' = log /\ pc[h] = "publish"  BY <1>10 DEF Publish
    <2>4. Extends(log, log') /\ DecidedOnItsPast' /\ StableDecidedOnce'  BY <2>3, LogSame
    <2>5. AcceptedIsStored'
      <3> SUFFICES ASSUME NEW r \in reports', r.kind = "accepted",
                          NEW i \in r.from + 1 .. r.from + r.count
                   PROVE  i \in DOMAIN log /\ log[i].cmd = r.cmd
        BY <2>3 DEF AcceptedIsStored
      <3>1. CASE r \in reports  BY <3>1 DEF SafeInv, AcceptedIsStored
      <3>2. CASE r \notin reports
        <4>1. r = [cmd |-> cmd[h], kind |-> "accepted", from |-> readEnd[h],
                   count |-> Len(decided[h])]
          BY <1>10, <3>2 DEF Publish, Reporting
        <4>2. PublishStored(h)  BY DEF SafeInv, WorkInv, HandlerInv
        <4> QED  BY <2>3, <4>1, <4>2 DEF PublishStored
      <3> QED  BY <3>1, <3>2
    <2> QED  BY <1>0, <2>1, <2>2, <2>4, <2>5, Preserved
  <1>11. ASSUME NEW h \in Handlers, AppendRefused(h) PROVE SafeInv'
    <2>1. /\ pc[h] = "append" /\ (Retry(h) \/ Exhausted(h)) /\ log' = log
          /\ UNCHANGED <<cmd, model, head, repeated, decided, readEnd>>
      BY <1>11 DEF AppendRefused, storage
    <2>2. Extends(log, log') /\ DecidedOnItsPast' /\ StableDecidedOnce'  BY <2>1, LogSame
    <2>3. /\ CacheStays /\ AcceptedIsStored'
          /\ \A k \in Handlers : Untouched(k) \/ Rests(k) \/ HandlerInv(k)'
      BY <1>0, <2>1, <2>2, RetryKeeps
    <2> QED  BY <1>0, <2>2, <2>3, Preserved
  <1>12. ASSUME NEW h \in Handlers, AppendFails(h) PROVE SafeInv'
    <2>1. /\ pc[h] = "append" /\ (Retry(h) \/ Exhausted(h))
          /\ UNCHANGED <<cmd, model, head, repeated, decided, readEnd>>
          /\ log' = log \/ (AppendCondition(h) /\ StoredBy(h))
      BY <1>12 DEF AppendFails
    <2>2. Extends(log, log') /\ DecidedOnItsPast' /\ StableDecidedOnce'
      <3>1. CASE log' = log  BY <3>1, LogSame
      <3>2. CASE AppendCondition(h) /\ StoredBy(h)
        BY <1>0, <2>1, <3>2, AppendedLog, AppendJustified, AppendOnce
      <3> QED  BY <2>1, <3>1, <3>2
    <2>3. /\ CacheStays /\ AcceptedIsStored'
          /\ \A k \in Handlers : Untouched(k) \/ Rests(k) \/ HandlerInv(k)'
      BY <1>0, <2>1, <2>2, RetryKeeps
    <2> QED  BY <1>0, <2>2, <2>3, Preserved
  <1>13. ASSUME NEW h \in Handlers, Settle(h) PROVE SafeInv'
    <2>1. CacheStays  BY <1>13 DEF Settle, CacheStays
    <2>2. Rests(h) /\ \A k \in Handlers \ {h} : Untouched(k)
      BY <1>0, <1>13 DEF Settle, EndWork, Rests, Untouched, TypeOK
    <2> QED  BY <1>1, <1>13, <2>1, <2>2 DEF Settle, storage
  <1>14. ASSUME NEW h \in Handlers, ReadFails(h) PROVE SafeInv'
    <2>1. CacheStays  BY <1>14 DEF ReadFails, CacheStays
    <2>2. Rests(h) /\ \A k \in Handlers \ {h} : Untouched(k)
      BY <1>0, <1>14 DEF ReadFails, EndWork, Rests, Untouched, TypeOK
    <2> QED  BY <1>1, <1>14, <2>1, <2>2 DEF ReadFails, storage
  \* Steps of no invocation that leave the log and the reports alone.
  <1>15. ASSUME UNCHANGED <<log, reports>>, CacheStays,
                \A k \in Handlers : Untouched(k) \/ Rests(k)
         PROVE  SafeInv'
    <2>1. Extends(log, log') /\ DecidedOnItsPast' /\ StableDecidedOnce'  BY <1>15, LogSame
    <2>2. AcceptedIsStored'  BY <1>0, <1>15, <2>1, ReportsKept
    <2> QED  BY <1>0, <1>15, <2>1, <2>2, Preserved
  <1>16. ASSUME NEW ct \in Containers, NEW key \in CacheKeys, Evict(ct, key) PROVE SafeInv'
    <2>1. CacheStays
      <3> SUFFICES ASSUME NEW d \in Containers, NEW c \in Commands
                   PROVE  cache'[d][CacheKey[c]] \in {cache[d][CacheKey[c]], NoEntry}
        BY DEF CacheStays
      <3>1. CacheKey[c] \in CacheKeys  BY SharedKey
      <3> QED  BY <1>0, <1>16, <3>1 DEF Evict, TypeOK
    <2>2. \A k \in Handlers : Untouched(k)  BY <1>16 DEF Evict, Untouched
    <2> QED  BY <1>15, <1>16, <2>1, <2>2 DEF Evict, storage
  <1>17. ASSUME NEW ct \in Containers, Restart(ct) PROVE SafeInv'
    <2>1. CacheStays
      <3> SUFFICES ASSUME NEW d \in Containers, NEW c \in Commands
                   PROVE  cache'[d][CacheKey[c]] \in {cache[d][CacheKey[c]], NoEntry}
        BY DEF CacheStays
      <3>1. CacheKey[c] \in CacheKeys  BY SharedKey
      <3> QED  BY <1>0, <1>17, <3>1 DEF Restart, TypeOK
    <2>2. \A k \in Handlers : Untouched(k) \/ Rests(k)
      BY <1>0, <1>17 DEF Restart, Untouched, Rests, TypeOK
    <2> QED  BY <1>15, <1>17, <2>1, <2>2 DEF Restart, storage
  <1>18. ASSUME NEW c \in Commands, DeadLetter(c) PROVE SafeInv'
    <2>1. CacheStays /\ \A k \in Handlers : Untouched(k)
      BY <1>18 DEF DeadLetter, CacheStays, Untouched
    <2> QED  BY <1>15, <1>18, <2>1 DEF DeadLetter, storage
  <1>19. CASE UNCHANGED vars
    <2>1. CacheStays /\ \A k \in Handlers : Untouched(k)
      BY <1>19 DEF vars, storage, messages, CacheStays, Untouched
    <2> QED  BY <1>15, <1>19, <2>1 DEF vars, storage
  <1> QED
    BY <1>3, <1>4, <1>5, <1>6, <1>7, <1>8, <1>9, <1>10, <1>11, <1>12, <1>13, <1>14, <1>16,
       <1>17, <1>18, <1>19 DEF Next, Work

LEMMA SafeInit == Init => SafeInv
  <1> SUFFICES ASSUME Init PROVE SafeInv  OBVIOUS
  <1>1. TypeOK  BY TypeInit
  <1>2. log = <<>> /\ DOMAIN log = {}  BY DEF Init
  <1>3. DecidedOnItsPast  BY <1>2 DEF DecidedOnItsPast
  <1>4. CacheIsOldState
    <2>1. \A c \in Commands : CacheKey[c] \in CacheKeys  BY SharedKey
    <2> QED  BY <2>1 DEF Init, CacheIsOldState
  <1>5. StableDecidedOnce  BY <1>2 DEF StableDecidedOnce, DecidedOnce, Positions
  <1>6. AcceptedIsStored  BY DEF Init, AcceptedIsStored
  <1>7. WorkInv
    BY DEF Init, WorkInv, HandlerInv, DecidesOnOldState, OwnUnseen, StrongReadIsFull,
           PublishStored
  <1> QED  BY <1>1, <1>3, <1>4, <1>5, <1>6, <1>7 DEF SafeInv

LEMMA SafeAlways == Spec => []SafeInv
  <1>1. SafeInv /\ [Next]_vars => SafeInv'  BY SafeStep
  <1> QED  BY <1>1, SafeInit, PTL DEF Spec

\* The log is serial: every stored event was decided on exactly the events its
\* command's query selects among those before it.
THEOREM LogIsSerial == Spec => []DecidedOnItsPast
  <1>1. SafeInv => DecidedOnItsPast  BY DEF SafeInv
  <1> QED  BY <1>1, SafeAlways, PTL

\* A cached state is the state at the position it is cached under.
THEOREM CachesAreOldStates == Spec => []CacheIsOldState
  <1>1. SafeInv => CacheIsOldState  BY DEF SafeInv
  <1> QED  BY <1>1, SafeAlways, PTL

\* A command with a stable id takes effect at most once.
THEOREM StableCommandsOnce == Spec => []StableDecidedOnce
  <1>1. SafeInv => StableDecidedOnce  BY DEF SafeInv
  <1> QED  BY <1>1, SafeAlways, PTL

\* What is reported accepted is in the log.
THEOREM AcceptedStored == Spec => []AcceptedIsStored
  <1>1. SafeInv => AcceptedIsStored  BY DEF SafeInv
  <1> QED  BY <1>1, SafeAlways, PTL

\* The strengthening: types, and what each invocation holds while it works.
THEOREM WorkIsSound == Spec => []IndInv
  <1>1. SafeInv => IndInv  BY DEF SafeInv, IndInv
  <1> QED  BY <1>1, SafeAlways, PTL

\* With escalation a retry is refused only for an event stored since its read.
THEOREM LagHeals == Spec => []LagSelfHeals
  <1>1. SafeInv => LagSelfHeals
    BY DEF SafeInv, WorkInv, HandlerInv, StrongReadIsFull, LagSelfHeals, AppendCondition
  <1> QED  BY <1>1, SafeAlways, PTL

-----------------------------------------------------------------------------
(* The call that waits for what the handler decides (InlineDispatch), however   *)
(* many of them a process serves at once.                                       *)

LEMMA InlineOutcomesAre ==
  /\ \A o \in Outcomes : o # NoOutcome
  /\ Accepted(0) \in Outcomes /\ RejectedFor("InfrastructureFailure") \in Outcomes
  /\ NoOutcome.kind # "Rejected"
BY MaxEventsIsNatural DEF Outcomes, NoOutcome, Accepted, RejectedFor

\* An answer is an outcome, whatever was heard.
LEMMA InlineAnswerIsOutcome ==
  ASSUME InlineTypeOK, NEW c \in Calls
  PROVE  AnswerOf(c) \in Outcomes
BY InlineOutcomesAre DEF AnswerOf, InlineTypeOK

LEMMA InlineInvInit == InlineInit => InlineIndInv
BY InlineOutcomesAre
   DEF InlineInit, InlineIndInv, InlineTypeOK, HeardIsTrue, AnswerIsCollected, States

LEMMA InlineInvStep ==
  ASSUME InlineIndInv, [InlineNext]_inlineVars
  PROVE  InlineIndInv'
<1> USE DEF InlineIndInv
<1>1. CASE UNCHANGED inlineVars
  BY <1>1 DEF inlineVars, InlineTypeOK, HeardIsTrue, AnswerIsCollected, AnswerOf, ResultIsError
<1>2. ASSUME NEW c \in Calls, Dispatch(c)
      PROVE  InlineIndInv'
  <2>1. InlineTypeOK'
    BY <1>2 DEF Dispatch, InlineTypeOK, States
  <2>2. HeardIsTrue'
    BY <1>2 DEF Dispatch, InlineTypeOK, HeardIsTrue
  <2>3. AnswerIsCollected'
    BY <1>2 DEF Dispatch, InlineTypeOK, AnswerIsCollected, AnswerOf, ResultIsError
  <2> QED
    BY <2>1, <2>2, <2>3
<1>3. ASSUME NEW c \in Calls, Throw(c)
      PROVE  InlineIndInv'
  <2>1. InlineTypeOK'
    BY <1>3 DEF Throw, InlineTypeOK, States
  <2>2. HeardIsTrue'
    BY <1>3 DEF Throw, InlineTypeOK, HeardIsTrue
  <2>3. AnswerIsCollected'
    BY <1>3 DEF Throw, InlineTypeOK, AnswerIsCollected, AnswerOf, ResultIsError
  <2> QED
    BY <2>1, <2>2, <2>3
<1>4. ASSUME NEW c \in Calls, NEW o \in Outcomes, Handle(c, o)
      PROVE  InlineIndInv'
  <2>0. /\ state' = [state EXCEPT ![c] = "handled"] /\ state[c] = "running"
        /\ verdict' = [verdict EXCEPT ![c] = o]
        /\ \/ heard' = heard
           \/ heard' = [heard EXCEPT ![c] = o]
        /\ UNCHANGED <<channel, answer>>
    BY <1>4 DEF Handle, ReportTo, InlineTypeOK
  <2>1. InlineTypeOK'
    BY <2>0 DEF InlineTypeOK, States
  <2>2. heard[c] = NoOutcome
    BY <2>0 DEF HeardIsTrue
  <2>3. HeardIsTrue'
    BY <2>0, <2>2, InlineOutcomesAre DEF InlineTypeOK, HeardIsTrue
  <2>4. AnswerIsCollected'
    <3> SUFFICES ASSUME NEW d \in Calls, state'[d] = "answered"
                 PROVE  answer'[d] = AnswerOf(d)'
      BY DEF AnswerIsCollected
    <3>1. d # c /\ state[d] = "answered"
      BY <2>0 DEF InlineTypeOK
    <3>2. heard'[d] = heard[d] /\ verdict'[d] = verdict[d] /\ answer'[d] = answer[d]
      BY <2>0, <3>1 DEF InlineTypeOK
    <3> QED
      BY <3>1, <3>2 DEF AnswerIsCollected, AnswerOf, ResultIsError
  <2> QED
    BY <2>1, <2>3, <2>4
<1>5. ASSUME NEW c \in Calls, Collect(c)
      PROVE  InlineIndInv'
  <2>1. AnswerOf(c) \in Outcomes
    BY InlineAnswerIsOutcome
  <2>2. InlineTypeOK'
    BY <1>5, <2>1, InlineOutcomesAre DEF Collect, InlineTypeOK, States
  <2>3. HeardIsTrue'
    BY <1>5 DEF Collect, InlineTypeOK, HeardIsTrue
  <2>4. AnswerIsCollected'
    <3> SUFFICES ASSUME NEW d \in Calls, state'[d] = "answered"
                 PROVE  answer'[d] = AnswerOf(d)'
      BY DEF AnswerIsCollected
    <3>1. AnswerOf(d)' = AnswerOf(d)
      BY <1>5 DEF Collect, AnswerOf, ResultIsError
    <3>2. CASE d = c
      BY <1>5, <3>1, <3>2 DEF Collect, InlineTypeOK
    <3>3. CASE d # c
      <4>1. state[d] = "answered" /\ answer'[d] = answer[d]
        BY <1>5, <3>3 DEF Collect, InlineTypeOK
      <4> QED
        BY <3>1, <4>1 DEF AnswerIsCollected
    <3> QED
      BY <3>2, <3>3
  <2> QED
    BY <2>2, <2>3, <2>4
<1> QED
  BY <1>1, <1>2, <1>3, <1>4, <1>5 DEF InlineNext

(* What is heard of a command, and the answer to its caller, is about that      *)
(* command, in every reachable state.                                           *)
THEOREM InlineInvHolds == InlineSpec => []InlineIndInv
BY InlineInvInit, InlineInvStep, PTL DEF InlineSpec

(* A synchronous caller (runInlineAndCollect) is told what the handler did with *)
(* its own command, or, where the report got lost, that the command was         *)
(* accepted without events: however many calls overlap and set, clear or leave  *)
(* behind the references they share.                                            *)
THEOREM OnlyLossMisleadsHolds == InlineSpec => []OnlyLossMisleads
<1>1. InlineIndInv => OnlyLossMisleads
  <2> SUFFICES ASSUME InlineIndInv, NEW c \in Calls, state[c] = "answered"
               PROVE  answer[c] = verdict[c] \/ answer[c] = Accepted(0)
    BY DEF OnlyLossMisleads, Answered
  <2>1. answer[c] = AnswerOf(c) /\ heard[c] \in {NoOutcome, verdict[c]}
    BY DEF InlineIndInv, AnswerIsCollected, HeardIsTrue
  <2> QED
    BY <2>1, InlineOutcomesAre DEF AnswerOf, ResultIsError
<1> QED
  BY <1>1, InlineInvHolds, PTL
=============================================================================
