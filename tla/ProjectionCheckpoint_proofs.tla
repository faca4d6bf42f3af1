--------------------- MODULE ProjectionCheckpoint_proofs ---------------------
(***************************************************************************)
(* Proofs about the checkpoints of the local projections, for any number of  *)
(* projections, rows, sessions and failures.                                 *)
(***************************************************************************)
EXTENDS ProjectionCheckpoint, TLAPS

-----------------------------------------------------------------------------
(* Types.                                                                    *)

LEMMA SlotAxis ==
    ASSUME NEW s \in Slots
    PROVE  s[1] \in Handlers /\ s[2] \in Axes /\ s = <<s[1], s[2]>>
  BY DEF Slots

LEMMA RowIdsAreNaturals ==
    /\ RowIds \subseteq Nat \ {0} /\ Marks \subseteq Nat
    /\ \A n \in RowIds, m \in Nat : 1 <= m /\ m <= n => m \in RowIds
    /\ \A a \in Axes : \A n \in Nat : 1 <= n /\ n <= MaxRows[a] => n \in RowIds
  BY BoundsAreNaturals DEF RowIds, Marks

LEMMA BelowMark ==
    ASSUME NEW m \in Marks, NEW k \in Nat, k < m
    PROVE  m \in RowIds /\ m \in Nat /\ k + 1 \in RowIds
  <1>1. m \in RowIds /\ m \in Nat
    BY RowIdsAreNaturals DEF Marks
  <1> QED  BY <1>1, RowIdsAreNaturals

LEMMA PositionType ==
    ASSUME TypeOK, NEW s \in Slots
    PROVE  Position(s) \in Marks /\ Position(s) \in Nat
  BY RowIdsAreNaturals DEF TypeOK, Position, Marks, NoRow

\* The rows a batch gets.
LEMMA NewRows ==
    ASSUME TypeOK, NEW a \in Axes, NEW n \in 1 .. MaxBatch, Insert(a, n)
    PROVE  /\ rows[a] \in Nat /\ n \in Nat /\ New(a, n) \subseteq RowIds
           /\ rows[a] + 1 \in RowIds /\ rows[a] + n \in RowIds
           /\ rows' \in [Axes -> Marks] /\ rows'[a] = rows[a] + n
           /\ \A c \in Axes : c # a => rows'[c] = rows[c]
           /\ \A p \in New(a, n) : rows[a] < p /\ p <= rows'[a]
           /\ \A p \in Nat : rows[a] < p /\ p <= rows'[a] => p \in New(a, n)
  <1>1. rows[a] \in Nat /\ n \in Nat /\ n >= 1 /\ rows \in [Axes -> Marks]
        /\ MaxRows[a] \in Nat
    <2>1. rows \in [Axes -> Marks] /\ Marks \subseteq Nat
      BY RowIdsAreNaturals DEF TypeOK
    <2>2. MaxRows[a] \in Nat
      BY BoundsAreNaturals
    <2>3. rows[a] \in Nat
      BY <2>1
    <2>4. n \in Nat /\ n >= 1
      BY BoundsAreNaturals
    <2> QED  BY <2>1, <2>2, <2>3, <2>4
  <1>2. rows[a] + n <= MaxRows[a] /\ rows' = [rows EXCEPT ![a] = @ + n]
    BY DEF Insert
  <1>3. rows[a] + 1 \in RowIds /\ rows[a] + n \in RowIds /\ New(a, n) \subseteq RowIds
    BY <1>1, <1>2, RowIdsAreNaturals DEF New
  <1>4. rows' \in [Axes -> Marks] /\ rows'[a] = rows[a] + n
    BY <1>1, <1>2, <1>3 DEF Marks
  <1> QED  BY <1>1, <1>2, <1>3, <1>4 DEF New

\* The slots the catch-up comes to, and what it leaves of the checkpoints.
LEMMA GoOnType ==
    ASSUME TypeOK, NEW S \in SUBSET Present, GoOn(S)
    PROVE  /\ phase' \in {"replaying", "done"} /\ due' \subseteq Present /\ at' \in Marks
           /\ slot' \in IF phase' = "replaying" THEN Present ELSE {NoSlot}
           /\ checkpoint' \in [Slots -> {NoRow} \cup Marks]
           /\ phase' = "replaying" => at' < bound[slot'[2]]
  <1>1. Present \subseteq Slots
    BY DEF TypeOK, Present, Slots
  <1>2. CASE ComeTo(S)
    BY <1>1, <1>2, PositionType DEF ComeTo, Lagging, TypeOK
  <1>3. CASE Stamp(S)
    <2>1. PICK w \in [Axes -> Marks] :
              checkpoint' = [s \in Slots |->
                IF s \in Present /\ Final(s[2], w[s[2]]) > checkpoint[s]
                THEN Final(s[2], w[s[2]]) ELSE checkpoint[s]]
      BY <1>3 DEF Stamp
    <2>2. \A s \in Slots : Final(s[2], w[s[2]]) \in Marks
      BY SlotAxis DEF Final, TypeOK
    <2> QED  BY <1>3, <2>1, <2>2 DEF Stamp, TypeOK, Marks
  <1> QED  BY <1>2, <1>3 DEF GoOn

TypeInv == TypeOK /\ AtMissedEvent

LEMMA TypeStep ==
    ASSUME TypeInv, [Next]_vars
    PROVE  TypeInv'
  <1> USE DEF TypeInv
  <1>0. RowIds \subseteq Nat \ {0} /\ Marks \subseteq Nat
    BY RowIdsAreNaturals
  <1>1. ASSUME NEW a \in Axes, NEW n \in 1 .. MaxBatch, AppendTracked(a, n) PROVE TypeInv'
    <2>1. Insert(a, n) /\ Track(a, n)
      BY <1>1 DEF AppendTracked
    <2>2. [axis |-> a, from |-> rows[a] + 1, to |-> rows[a] + n] \in Batch
      BY <2>1, NewRows DEF Batch
    <2>3. pending' \in [Axes -> SUBSET RowIds] /\ unsent' \in [Axes -> SUBSET RowIds]
      BY <1>1, <2>1, NewRows DEF AppendTracked, Track, TypeOK
    <2> QED
      BY <1>1, <2>1, <2>2, <2>3, NewRows
      DEF AppendTracked, TypeOK, AtMissedEvent, start, catchup, observed, Present
  <1>2. ASSUME NEW a \in Axes, NEW n \in 1 .. MaxBatch, AppendStream(a, n) PROVE TypeInv'
    <2>1. Insert(a, n) /\ New(a, n) \subseteq RowIds
      BY <1>2, NewRows DEF AppendStream
    <2>2. pending' \in [Axes -> SUBSET RowIds] /\ seeded' \in [Axes -> SUBSET RowIds]
      BY <1>2, <2>1 DEF AppendStream, Track, TypeOK
    <2> QED
      BY <1>2, <2>1, <2>2, NewRows
      DEF AppendStream, TypeOK, AtMissedEvent, start, bus, catchup, observed, Present
  <1>3. ASSUME NEW a \in Axes, NEW p \in unsent[a], PublishEvent(a, p) PROVE TypeInv'
    <2>1. p \in RowIds
      BY <1>3 DEF TypeOK
    <2>2. queue' \in [Slots -> Seq(RowIds)]
      BY <1>3, <2>1 DEF PublishEvent, TypeOK
    <2> QED
      BY <1>3, <2>2
      DEF PublishEvent, TypeOK, AtMissedEvent, database, start, catchup, observed, Present
  <1>4. ASSUME NEW a \in Axes, NEW p \in unsent[a], PublishFails(a, p) PROVE TypeInv'
    <2>1. throws' \in 0 .. MaxThrows
      BY <1>4, BoundsAreNaturals DEF PublishFails, TypeOK
    <2>2. unsent' \in [Axes -> SUBSET RowIds]
      BY <1>4 DEF PublishFails, TypeOK
    <2>3. publishing' \subseteq Batch
          /\ disturbed' \subseteq {"absent", "overtaken", "outrun", "withheld"}
      BY <1>4 DEF PublishFails, TypeOK
    <2> QED
      BY <1>4, <2>1, <2>2, <2>3
      DEF PublishFails, TypeOK, AtMissedEvent, database, start, catchup, Present
  <1>5. ASSUME NEW s \in Slots, Handle(s) PROVE TypeInv'
    <2>1. queue[s] \in Seq(RowIds) /\ queue[s] # <<>>
      BY <1>5 DEF Handle, TypeOK
    <2>2. Head(queue[s]) \in RowIds /\ Tail(queue[s]) \in Seq(RowIds)
      BY <2>1
    <2> QED
      BY <1>5, <2>2 DEF Handle, TypeOK, AtMissedEvent, log, start, catchup, observed, Present
  <1>6. ASSUME NEW s \in Slots, Throws(s) PROVE TypeInv'
    <2>1. Waiting(s) \subseteq RowIds
      BY DEF Waiting, Range, TypeOK
    <2>2. <<>> \in Seq(RowIds)
      OBVIOUS
    <2> QED
      BY <1>6, <2>1, <2>2, BoundsAreNaturals
      DEF Throws, TypeOK, AtMissedEvent, database, start, catchup, Present
  <1>7. ASSUME NEW b \in publishing, CompletePublished(b) PROVE TypeInv'
    <2>1. PICK w \in [Axes -> Marks] :
             /\ checkpoint' = [s \in Slots |-> IF Lifted(s, w) THEN w[s[2]] ELSE checkpoint[s]]
             /\ disturbed' = disturbed \cup Disturbance(w)
      BY <1>7 DEF CompletePublished
    <2>2. checkpoint' \in [Slots -> {NoRow} \cup Marks]
      BY <2>1, SlotAxis DEF TypeOK
    <2>3. disturbed' \subseteq {"absent", "overtaken", "outrun", "withheld"}
      BY <2>1 DEF Disturbance, TypeOK
    <2>4. pending' \in [Axes -> SUBSET RowIds]
      BY <1>7 DEF CompletePublished, TypeOK
    <2> QED
      BY <1>7, <2>2, <2>3, <2>4
      DEF CompletePublished, TypeOK, AtMissedEvent, log, start, catchup, Present
  <1>8. ASSUME StartupCatchup PROVE TypeInv'
    <2>1. GoOn(Present)
      BY <1>8 DEF StartupCatchup
    <2> QED
      BY <1>8, <2>1, GoOnType
      DEF StartupCatchup, TypeOK, AtMissedEvent, log, start, bus, observed, Present
  <1>9. ASSUME Replay PROVE TypeInv'
    <2>1. /\ slot \in Present /\ slot \in Slots /\ slot[2] \in Axes
          /\ at \in Nat /\ at < bound[slot[2]] /\ bound[slot[2]] \in Marks
      BY <1>9, <1>0, SlotAxis DEF Replay, TypeOK, AtMissedEvent, Present, Slots
    <2>2. at + 1 \in RowIds
      BY <2>1, BelowMark
    <2>3. /\ handled' \in [Slots -> SUBSET RowIds] /\ skipped' \in [Slots -> SUBSET RowIds]
          /\ throws' \in 0 .. MaxThrows
      <3>1. CASE /\ handled' = [handled EXCEPT ![slot] = @ \cup {at + 1}]
                 /\ UNCHANGED <<skipped, throws>>
        BY <2>1, <2>2, <3>1 DEF TypeOK
      <3>2. CASE /\ throws < MaxThrows /\ throws' = throws + 1
                 /\ skipped' = [skipped EXCEPT ![slot] = @ \cup {at + 1}]
                 /\ UNCHANGED handled
        BY <2>1, <2>2, <3>2, BoundsAreNaturals DEF TypeOK
      <3> QED  BY <1>9, <3>1, <3>2 DEF Replay, DeliverMissed
    <2>4. CASE at + 1 < bound[slot[2]]
      BY <1>9, <2>2, <2>3, <2>4
      DEF Replay, TypeOK, AtMissedEvent, log, start, bus, Present, Marks
    <2>5. CASE ~(at + 1 < bound[slot[2]])
      <3>1. GoOn(due) /\ due \in SUBSET Present
        BY <1>9, <2>5 DEF Replay, TypeOK
      <3> QED
        BY <1>9, <2>3, <3>1, GoOnType
        DEF Replay, TypeOK, AtMissedEvent, log, start, bus, Present
    <2> QED  BY <2>4, <2>5
  <1>10. ASSUME NEW S \in SUBSET Handlers, Restart(S) PROVE TypeInv'
    <2>1. <<>> \in Seq(RowIds) /\ 0 \in Marks
      BY DEF Marks
    <2> QED
      BY <1>10, <2>1, BoundsAreNaturals DEF Restart, TypeOK, AtMissedEvent, database, Present, Slots
  <1>11. CASE UNCHANGED vars
    BY <1>11
    DEF vars, database, start, bus, catchup, observed, TypeOK, AtMissedEvent, Present
  <1> QED
    BY <1>1, <1>2, <1>3, <1>4, <1>5, <1>6, <1>7, <1>8, <1>9, <1>10, <1>11 DEF Next

LEMMA InitType == Init => TypeInv
  <1>1. <<>> \in Seq(RowIds) /\ 0 \in Marks
    BY DEF Marks
  <1> QED
    BY <1>1, BoundsAreNaturals DEF Init, TypeInv, TypeOK, AtMissedEvent, Present, Slots

(* Every variable keeps its type.                                            *)
THEOREM TypeCorrect == Spec => []TypeOK
  <1>1. TypeInv /\ [Next]_vars => TypeInv'
    BY TypeStep
  <1>2. TypeInv => TypeOK
    BY DEF TypeInv
  <1> QED  BY InitType, <1>1, <1>2, PTL DEF Spec
-----------------------------------------------------------------------------
(* What a step may count on.                                                 *)

LEMMA QueueGrows ==
    ASSUME NEW q \in Seq(RowIds), NEW p \in RowIds
    PROVE  Range(Append(q, p)) = Range(q) \cup {p}
  <1>1. /\ DOMAIN q = 1 .. Len(q) /\ Len(q) \in Nat
        /\ DOMAIN Append(q, p) = 1 .. Len(q) + 1
    OBVIOUS
  <1>2. \A i \in 1 .. Len(q) : Append(q, p)[i] = q[i]
    OBVIOUS
  <1>3. Append(q, p)[Len(q) + 1] = p
    OBVIOUS
  <1>4. \A i \in 1 .. Len(q) + 1 : i \in 1 .. Len(q) \/ i = Len(q) + 1
    BY <1>1
  <1> QED  BY <1>1, <1>2, <1>3, <1>4 DEF Range

LEMMA QueueShrinks ==
    ASSUME NEW q \in Seq(RowIds), q # <<>>
    PROVE  /\ Head(q) \in Range(q) /\ Range(Tail(q)) \subseteq Range(q)
           /\ Range(q) \subseteq Range(Tail(q)) \cup {Head(q)}
  <1>1. Head(q) = q[1] /\ 1 \in DOMAIN q /\ DOMAIN q = 1 .. Len(q) /\ Len(q) \in Nat
    OBVIOUS
  <1>2. /\ DOMAIN Tail(q) = 1 .. Len(q) - 1
        /\ \A i \in 1 .. Len(q) - 1 : Tail(q)[i] = q[i + 1]
    OBVIOUS
  <1>3. \A i \in DOMAIN q : i = 1 \/ (i - 1 \in 1 .. Len(q) - 1 /\ Tail(q)[i - 1] = q[i])
    BY <1>1, <1>2
  <1> QED  BY <1>1, <1>2, <1>3 DEF Range

\* Below the watermark nothing is pending, so nothing is lost there either.
LEMMA WatermarkIsLow ==
    ASSUME NEW r \in Nat, NEW open \in SUBSET (1 .. r), NEW w \in Nat,
           IF open = {} THEN w = r
           ELSE \E lowest \in open : w = lowest - 1 /\ \A p \in open : lowest <= p
    PROVE  w <= r /\ \A p \in 1 .. w : p \notin open /\ ~ \E l \in open : l < p
  OBVIOUS

LEMMA SlotFacts ==
    ASSUME IndInv, NEW s \in Slots
    PROVE  /\ s[2] \in Axes /\ rows[s[2]] \in Nat /\ bound[s[2]] \in Nat
           /\ pending[s[2]] \subseteq 1 .. rows[s[2]] /\ unsent[s[2]] \subseteq pending[s[2]]
           /\ Waiting(s) \subseteq pending[s[2]] /\ lost[s] \subseteq pending[s[2]]
           /\ Waiting(s) \cap unsent[s[2]] = {}
           /\ rows[s[2]] \in Marks /\ pending[s[2]] \subseteq Nat
           /\ checkpoint[s] \in Int
  <1>1. s[2] \in Axes
    BY SlotAxis
  <1>2. rows[s[2]] \in Marks /\ bound[s[2]] \in Marks
    BY <1>1 DEF IndInv, TypeOK
  <1>3. checkpoint[s] \in Int
    <2>1. checkpoint[s] \in {NoRow} \cup Marks
      BY DEF IndInv, TypeOK
    <2>2. NoRow \in Int
      BY DEF NoRow
    <2>3. Marks \subseteq Int
      BY RowIdsAreNaturals
    <2> QED  BY <2>1, <2>2, <2>3
  <1>4. rows[s[2]] \in Nat /\ bound[s[2]] \in Nat
    BY <1>2, RowIdsAreNaturals
  <1> QED
    BY <1>1, <1>2, <1>3, <1>4 DEF IndInv, UnresolvedIsPending, Owed

LEMMA PresentSlots ==
    ASSUME TypeOK
    PROVE  Present \subseteq Slots
  BY DEF TypeOK, Present, Slots

\* What has to be shown of a step besides the types.
Claims ==
    /\ UnresolvedIsPending
    /\ disturbed = {} => Honest /\ \A s \in Present : SlotInv(s)

LEMMA AppendTrackedStep ==
    ASSUME IndInv, NEW a \in Axes, NEW n \in 1 .. MaxBatch, AppendTracked(a, n)
    PROVE  Claims'
  <1> DEFINE new == New(a, n)
  <1>1. TypeOK /\ Insert(a, n)
    BY DEF IndInv, AppendTracked
  <1>2. /\ rows[a] \in Nat /\ n \in Nat /\ rows'[a] = rows[a] + n
        /\ \A c \in Axes : c # a => rows'[c] = rows[c]
        /\ \A p \in new : p \in Nat /\ rows[a] < p /\ p <= rows'[a]
        /\ \A p \in Nat : rows[a] < p /\ p <= rows'[a] => p \in new
    BY <1>1, NewRows DEF New
  <1>3. /\ pending' = [pending EXCEPT ![a] = @ \cup new]
        /\ unsent' = [unsent EXCEPT ![a] = @ \cup new]
        /\ publishing' = publishing
                         \cup {[axis |-> a, from |-> rows[a] + 1, to |-> rows[a] + n]}
        /\ UNCHANGED <<seeded, checkpoint, handled, session, bound, queue, subscribed, lost,
                       phase, due, slot, at, skipped, disturbed>>
    BY DEF AppendTracked, Track, start, catchup, observed
  <1>4. pending \in [Axes -> SUBSET RowIds] /\ unsent \in [Axes -> SUBSET RowIds]
    BY <1>1 DEF TypeOK
  <1> HIDE DEF new
  <1>5. UnresolvedIsPending'
    <2>1. ASSUME NEW c \in Axes
          PROVE  unsent'[c] \subseteq pending'[c] /\ pending'[c] \subseteq 1 .. rows'[c]
      <3>1. unsent[c] \subseteq pending[c] /\ pending[c] \subseteq 1 .. rows[c]
        BY DEF IndInv, UnresolvedIsPending
      <3> QED  BY <1>2, <1>3, <1>4, <3>1
    <2>2. ASSUME NEW s \in Slots
          PROVE  Owed(s)' \subseteq pending'[s[2]] /\ Waiting(s)' \cap unsent'[s[2]] = {}
      <3>1. Owed(s)' = Owed(s) /\ Waiting(s)' = Waiting(s)
        BY <1>3 DEF Owed, Waiting
      <3> QED
        BY <1>2, <1>3, <1>4, <3>1, SlotFacts DEF Owed
    <2> QED  BY <2>1, <2>2 DEF UnresolvedIsPending
  <1>6. ASSUME disturbed' = {} PROVE Honest' /\ \A s \in Present' : SlotInv(s)'
    <2>1. Honest /\ \A s \in Present : SlotInv(s)
      BY <1>3, <1>6 DEF IndInv
    <2>2. Present' = Present /\ \A s \in Slots : Settled(s)' = Settled(s)
      BY <1>3 DEF Present, Settled, Untracked
    <2>3. Honest'
      BY <1>3, <2>1, <2>2 DEF Honest
    <2>4. ASSUME NEW s \in Present PROVE SlotInv(s)'
      <3>1. s \in Slots /\ SlotInv(s)
        BY <1>1, <2>1, PresentSlots
      <3>2. AllAccounted(s)'
        <4> SUFFICES ASSUME NEW p \in bound[s[2]] + 1 .. rows'[s[2]] PROVE Accounted(s, p)'
          BY <1>3 DEF AllAccounted
        <4>1. CASE p <= rows[s[2]]
          <5>1. Accounted(s, p)
            BY <3>1, <4>1, SlotFacts DEF SlotInv, AllAccounted
          <5> QED
            BY <1>3, <1>4, <2>2, <3>1, <5>1, SlotFacts DEF Accounted, LostBefore
        <4>2. CASE ~(p <= rows[s[2]])
          <5>1. s[2] = a /\ p \in new
            BY <1>2, <3>1, <4>2, SlotFacts
          <5> QED  BY <1>3, <1>4, <5>1 DEF Accounted
        <4> QED  BY <4>1, <4>2
      <3>3. AllCarried(s)'
        <4> SUFFICES ASSUME NEW b \in publishing', b.axis = s[2] PROVE Carries(s, b)'
          BY DEF AllCarried
        <4>1. CASE b \in publishing
          <5>1. Carries(s, b)
            BY <3>1, <4>1 DEF SlotInv, AllCarried
          <5> QED
            BY <1>3, <1>4, <3>1, <5>1, SlotFacts DEF Carries, LostBefore, Owed, Waiting
        <4>2. CASE b = [axis |-> a, from |-> rows[a] + 1, to |-> rows[a] + n]
          <5>1. Positions(b) = new /\ s[2] = a
            BY <4>2 DEF Positions, new, New
          <5> QED  BY <1>3, <1>4, <5>1 DEF Carries
        <4> QED  BY <1>3, <4>1, <4>2
      <3>4. Deaf(s)'
        <4> SUFFICES ASSUME s \notin subscribed
                     PROVE  lost[s] # {} /\ \A p \in unsent'[s[2]] : LostBefore(s, p)
          BY <1>3 DEF Deaf, LostBefore
        <4>1. lost[s] # {} /\ \A p \in unsent[s[2]] : LostBefore(s, p)
          BY <3>1 DEF SlotInv, Deaf
        <4>2. ASSUME NEW p \in new, s[2] = a PROVE LostBefore(s, p)
          BY <1>2, <3>1, <4>1, <4>2, SlotFacts DEF LostBefore
        <4> QED  BY <1>3, <1>4, <3>1, <4>1, <4>2, SlotFacts
      <3>5. CaughtUp(s)'
        BY <1>3, <2>2, <3>1 DEF SlotInv, CaughtUp, Awaits
      <3> QED  BY <3>2, <3>3, <3>4, <3>5 DEF SlotInv
    <2> QED  BY <2>2, <2>3, <2>4
  <1> QED  BY <1>5, <1>6 DEF Claims

LEMMA AppendStreamStep ==
    ASSUME IndInv, NEW a \in Axes, NEW n \in 1 .. MaxBatch, AppendStream(a, n)
    PROVE  Claims'
  <1> DEFINE new == New(a, n)
  <1>1. TypeOK /\ Insert(a, n)
    BY DEF IndInv, AppendStream
  <1>2. /\ rows[a] \in Nat /\ n \in Nat /\ rows'[a] = rows[a] + n
        /\ \A c \in Axes : c # a => rows'[c] = rows[c]
        /\ \A p \in new : p \in Nat /\ rows[a] < p /\ p <= rows'[a]
        /\ \A p \in Nat : rows[a] < p /\ p <= rows'[a] => p \in new
    BY <1>1, NewRows DEF New
  <1>3. /\ seeded' = [seeded EXCEPT ![a] = @ \cup new]
        /\ pending' = IF a = "Dcb" THEN [pending EXCEPT ![a] = @ \cup new] ELSE pending
        /\ UNCHANGED <<checkpoint, handled, session, bound, unsent, publishing, queue,
                       subscribed, lost, phase, due, slot, at, skipped, disturbed>>
    BY DEF AppendStream, Track, start, bus, catchup, observed
  <1>4. pending \in [Axes -> SUBSET RowIds] /\ seeded \in [Axes -> SUBSET RowIds]
    BY <1>1 DEF TypeOK
  <1> HIDE DEF new
  <1>5. \A c \in Axes : pending[c] \subseteq pending'[c] /\ pending'[c] \subseteq pending[c] \cup new
                        /\ seeded[c] \subseteq seeded'[c]
                        /\ (c # a => pending'[c] = pending[c])
    BY <1>3, <1>4
  <1>6. UnresolvedIsPending'
    <2>1. ASSUME NEW c \in Axes
          PROVE  unsent'[c] \subseteq pending'[c] /\ pending'[c] \subseteq 1 .. rows'[c]
      <3>1. unsent[c] \subseteq pending[c] /\ pending[c] \subseteq 1 .. rows[c]
        BY DEF IndInv, UnresolvedIsPending
      <3> QED  BY <1>2, <1>3, <1>5, <3>1
    <2>2. ASSUME NEW s \in Slots
          PROVE  Owed(s)' \subseteq pending'[s[2]] /\ Waiting(s)' \cap unsent'[s[2]] = {}
      <3>1. Owed(s)' = Owed(s) /\ Waiting(s)' = Waiting(s)
        BY <1>3 DEF Owed, Waiting
      <3> QED
        BY <1>3, <1>5, <3>1, SlotFacts DEF Owed
    <2> QED  BY <2>1, <2>2 DEF UnresolvedIsPending
  <1>7. ASSUME disturbed' = {} PROVE Honest' /\ \A s \in Present' : SlotInv(s)'
    <2>1. Honest /\ \A s \in Present : SlotInv(s)
      BY <1>3, <1>7 DEF IndInv
    <2>2. Present' = Present /\ \A s \in Slots : Settled(s) \subseteq Settled(s)'
      BY <1>3, <1>5, SlotAxis DEF Present, Settled, Untracked
    <2>3. Honest'
      BY <1>3, <2>1, <2>2 DEF Honest
    <2>4. ASSUME NEW s \in Present PROVE SlotInv(s)'
      <3>1. s \in Slots /\ SlotInv(s)
        BY <1>1, <2>1, PresentSlots
      <3>2. AllAccounted(s)'
        <4> SUFFICES ASSUME NEW p \in bound[s[2]] + 1 .. rows'[s[2]] PROVE Accounted(s, p)'
          BY <1>3 DEF AllAccounted
        <4>1. CASE p <= rows[s[2]]
          <5>1. Accounted(s, p)
            BY <3>1, <4>1, SlotFacts DEF SlotInv, AllAccounted
          <5> QED
            BY <1>3, <1>5, <2>2, <3>1, <5>1, SlotFacts DEF Accounted, LostBefore
        <4>2. CASE ~(p <= rows[s[2]])
          <5>1. s[2] = a /\ p \in new
            BY <1>2, <3>1, <4>2, SlotFacts
          <5>2. CASE a = "Dcb"
            BY <1>3, <1>4, <5>1, <5>2 DEF Accounted
          <5>3. CASE a = "Aggregate"
            BY <1>3, <1>4, <5>1, <5>3 DEF Accounted, Settled, Untracked
          <5> QED  BY <5>2, <5>3, AxesAreTheLogs
        <4> QED  BY <4>1, <4>2
      <3>3. AllCarried(s)' /\ Deaf(s)'
        BY <1>3, <3>1
        DEF SlotInv, AllCarried, Carries, Deaf, LostBefore, Owed, Waiting
      <3>4. CaughtUp(s)'
        BY <1>3, <2>2, <3>1 DEF SlotInv, CaughtUp, Awaits
      <3> QED  BY <3>2, <3>3, <3>4 DEF SlotInv
    <2> QED  BY <2>2, <2>3, <2>4
  <1> QED  BY <1>6, <1>7 DEF Claims

\* What the disturbed-free part needs when a step leaves the logs, the pending
\* positions and the catch-up alone, and what is settled or lost only grows.
LEMMA AccountsKept ==
    ASSUME UNCHANGED <<rows, bound, pending>>, NEW s \in Slots,
           Settled(s) \subseteq Settled(s)', lost[s] \subseteq lost'[s],
           AllAccounted(s)
    PROVE  AllAccounted(s)'
  BY DEF AllAccounted, Accounted, LostBefore

LEMMA CaughtUpKept ==
    ASSUME UNCHANGED <<bound, phase, due, slot, at>>, NEW s \in Slots,
           Settled(s) \subseteq Settled(s)', CaughtUp(s)
    PROVE  CaughtUp(s)'
  BY DEF CaughtUp, Awaits

LEMMA HonestKept ==
    ASSUME UNCHANGED checkpoint, \A s \in Slots : Settled(s) \subseteq Settled(s)', Honest
    PROVE  Honest'
  BY DEF Honest

LEMMA PublishEventStep ==
    ASSUME IndInv, NEW a \in Axes, NEW p \in unsent[a], PublishEvent(a, p)
    PROVE  Claims'
  <1>1. TypeOK /\ p \in RowIds /\ p \in pending[a]
    BY DEF IndInv, TypeOK, UnresolvedIsPending
  <1>2. /\ unsent' = [unsent EXCEPT ![a] = @ \ {p}]
        /\ queue' = [s \in Slots |-> IF s \in Subscribers(a) THEN Append(queue[s], p)
                                    ELSE queue[s]]
        /\ UNCHANGED <<rows, seeded, checkpoint, handled, session, bound, pending, publishing,
                       subscribed, lost, phase, due, slot, at, skipped, disturbed>>
    BY DEF PublishEvent, database, start, catchup, observed
  <1>3. ASSUME NEW s \in Slots
        PROVE  /\ unsent'[s[2]] = IF s[2] = a THEN unsent[a] \ {p} ELSE unsent[s[2]]
               /\ Waiting(s)' = IF s \in Subscribers(a) THEN Waiting(s) \cup {p}
                                ELSE Waiting(s)
    BY <1>1, <1>2, SlotAxis, QueueGrows DEF Waiting, TypeOK
  <1>4. UnresolvedIsPending'
    <2>1. ASSUME NEW c \in Axes
          PROVE  unsent'[c] \subseteq pending'[c] /\ pending'[c] \subseteq 1 .. rows'[c]
      BY <1>1, <1>2 DEF IndInv, TypeOK, UnresolvedIsPending
    <2>2. ASSUME NEW s \in Slots
          PROVE  Owed(s)' \subseteq pending'[s[2]] /\ Waiting(s)' \cap unsent'[s[2]] = {}
      BY <1>1, <1>2, <1>3, SlotFacts DEF Owed, Subscribers
    <2> QED  BY <2>1, <2>2 DEF UnresolvedIsPending
  <1>5. ASSUME disturbed' = {} PROVE Honest' /\ \A s \in Present' : SlotInv(s)'
    <2>1. Honest /\ \A s \in Present : SlotInv(s)
      BY <1>2, <1>5 DEF IndInv
    <2>2. Present' = Present /\ \A s \in Slots : Settled(s)' = Settled(s)
      BY <1>2 DEF Present, Settled, Untracked
    <2>3. Honest'
      BY <1>2, <2>1, <2>2, HonestKept
    <2>4. ASSUME NEW s \in Present PROVE SlotInv(s)'
      <3>1. s \in Slots /\ SlotInv(s)
        BY <1>1, <2>1, PresentSlots
      <3>2. AllAccounted(s)' /\ CaughtUp(s)'
        BY <1>2, <2>2, <3>1, AccountsKept, CaughtUpKept DEF SlotInv
      <3>3. Deaf(s)'
        BY <1>2, <1>3, <3>1 DEF SlotInv, Deaf, LostBefore
      <3>4. AllCarried(s)'
        <4> SUFFICES ASSUME NEW b \in publishing, b.axis = s[2], NEW q \in Positions(b)
                     PROVE  \/ q \in unsent'[s[2]] \/ q \in Owed(s)' \/ q \in handled[s]
                            \/ LostBefore(s, q)
          BY <1>2 DEF AllCarried, Carries, LostBefore
        <4>1. q \in unsent[s[2]] \/ q \in Owed(s) \/ q \in handled[s] \/ LostBefore(s, q)
          BY <3>1 DEF SlotInv, AllCarried, Carries
        <4>2. Owed(s) \subseteq Owed(s)'
          BY <1>2, <1>3, <3>1 DEF Owed
        <4>3. ASSUME q \in unsent[s[2]], q \notin unsent'[s[2]]
              PROVE  q \in Owed(s)' \/ LostBefore(s, q)
          <5>1. q = p /\ s[2] = a
            BY <1>3, <3>1, <4>3
          <5>2. CASE s \in subscribed
            BY <1>3, <3>1, <5>1, <5>2 DEF Owed, Subscribers
          <5>3. CASE s \notin subscribed
            BY <3>1, <4>3, <5>3 DEF SlotInv, Deaf
          <5> QED  BY <5>2, <5>3
        <4> QED  BY <4>1, <4>2, <4>3
      <3> QED  BY <3>2, <3>3, <3>4 DEF SlotInv
    <2> QED  BY <2>2, <2>3, <2>4
  <1> QED  BY <1>4, <1>5 DEF Claims

LEMMA PublishFailsStep ==
    ASSUME IndInv, NEW a \in Axes, NEW p \in unsent[a], PublishFails(a, p)
    PROVE  Claims'
  <1>1. /\ unsent' = [unsent EXCEPT ![a] = @ \ {p}]
        /\ UNCHANGED <<rows, seeded, checkpoint, handled, session, bound, pending, queue,
                       subscribed, lost, phase, due, slot, at, skipped>>
    BY DEF PublishFails, database, start, catchup
  <1>2. \A c \in Axes : unsent'[c] = IF c = a THEN unsent[a] \ {p} ELSE unsent[c]
    BY <1>1 DEF IndInv, TypeOK
  <1>3. \A s \in Slots : Owed(s)' = Owed(s) /\ Waiting(s)' = Waiting(s)
    BY <1>1 DEF Owed, Waiting
  <1>4. UnresolvedIsPending'
    BY <1>1, <1>2, <1>3, SlotAxis DEF IndInv, UnresolvedIsPending
  <1>5. ASSUME disturbed' = {} PROVE Honest' /\ \A s \in Present' : SlotInv(s)'
    <2>1. /\ disturbed = {}
          /\ publishing' = {b \in publishing : ~(b.axis = a /\ p \in Positions(b))}
      BY <1>5 DEF PublishFails
    <2>2. Honest /\ \A s \in Present : SlotInv(s)
      BY <2>1 DEF IndInv
    <2>3. Present' = Present /\ \A s \in Slots : Settled(s)' = Settled(s)
      BY <1>1 DEF Present, Settled, Untracked
    <2>4. Honest'
      BY <1>1, <2>2, <2>3, HonestKept
    <2>5. ASSUME NEW s \in Present PROVE SlotInv(s)'
      <3>1. s \in Slots /\ SlotInv(s)
        BY <2>2, PresentSlots DEF IndInv
      <3>2. AllAccounted(s)' /\ CaughtUp(s)'
        BY <1>1, <2>3, <3>1, AccountsKept, CaughtUpKept DEF SlotInv
      <3>3. Deaf(s)'
        BY <1>1, <1>2, <3>1, SlotAxis DEF SlotInv, Deaf, LostBefore
      <3>4. AllCarried(s)'
        BY <1>1, <1>2, <1>3, <2>1, <3>1, SlotAxis
        DEF SlotInv, AllCarried, Carries, LostBefore, Positions
      <3> QED  BY <3>2, <3>3, <3>4 DEF SlotInv
    <2> QED  BY <2>3, <2>4, <2>5
  <1> QED  BY <1>4, <1>5 DEF Claims

LEMMA HandleStep ==
    ASSUME IndInv, NEW r \in Slots, Handle(r)
    PROVE  Claims'
  <1>1. /\ handled' = [handled EXCEPT ![r] = @ \cup {Head(queue[r])}]
        /\ queue' = [queue EXCEPT ![r] = Tail(@)]
        /\ UNCHANGED <<rows, seeded, checkpoint, session, bound, pending, unsent, publishing,
                       subscribed, lost, phase, due, slot, at, skipped, disturbed>>
    BY DEF Handle, log, start, catchup, observed
  <1>2. TypeOK /\ queue[r] \in Seq(RowIds) /\ queue[r] # <<>>
    BY DEF IndInv, TypeOK, Handle
  <1>3. ASSUME NEW s \in Slots
        PROVE  /\ Waiting(s)' \subseteq Waiting(s) /\ Settled(s) \subseteq Settled(s)'
               /\ handled[s] \subseteq handled'[s]
               /\ Waiting(s) \subseteq Waiting(s)' \cup handled'[s]
    <2>1. CASE s = r
      BY <1>1, <1>2, <2>1, QueueShrinks DEF Waiting, Settled, Untracked, TypeOK
    <2>2. CASE s # r
      BY <1>1, <1>2, <2>2 DEF Waiting, Settled, Untracked, TypeOK
    <2> QED  BY <2>1, <2>2
  <1>4. \A s \in Slots : Owed(s)' \subseteq Owed(s) /\ Owed(s) \subseteq Owed(s)' \cup handled'[s]
    BY <1>1, <1>3 DEF Owed
  <1>5. UnresolvedIsPending'
    BY <1>1, <1>3, <1>4 DEF IndInv, UnresolvedIsPending
  <1>6. ASSUME disturbed' = {} PROVE Honest' /\ \A s \in Present' : SlotInv(s)'
    <2>1. Honest /\ \A s \in Present : SlotInv(s)
      BY <1>1, <1>6 DEF IndInv
    <2>2. Present' = Present
      BY <1>1 DEF Present
    <2>3. Honest'
      BY <1>1, <1>3, <2>1, HonestKept
    <2>4. ASSUME NEW s \in Present PROVE SlotInv(s)'
      <3>1. s \in Slots /\ SlotInv(s)
        BY <1>2, <2>1, PresentSlots
      <3>2. AllAccounted(s)' /\ CaughtUp(s)'
        BY <1>1, <1>3, <3>1, AccountsKept, CaughtUpKept DEF SlotInv
      <3>3. Deaf(s)'
        BY <1>1, <3>1 DEF SlotInv, Deaf, LostBefore
      <3>4. AllCarried(s)'
        BY <1>1, <1>3, <1>4, <3>1 DEF SlotInv, AllCarried, Carries, LostBefore
      <3> QED  BY <3>2, <3>3, <3>4 DEF SlotInv
    <2> QED  BY <2>2, <2>3, <2>4
  <1> QED  BY <1>5, <1>6 DEF Claims

LEMMA ThrowsStep ==
    ASSUME IndInv, NEW r \in Slots, Throws(r)
    PROVE  Claims'
  <1>1. /\ subscribed' = subscribed \ {r}
        /\ lost' = [lost EXCEPT ![r] = @ \cup Waiting(r)]
        /\ queue' = [queue EXCEPT ![r] = <<>>]
        /\ disturbed' = IF Outruns(r) THEN disturbed \cup {"outrun"} ELSE disturbed
        /\ UNCHANGED <<rows, seeded, checkpoint, handled, session, bound, pending, unsent,
                       publishing, phase, due, slot, at, skipped>>
    BY DEF Throws, database, start, catchup
  <1>2. TypeOK /\ queue[r] \in Seq(RowIds) /\ queue[r] # <<>>
    BY DEF IndInv, TypeOK, Throws
  <1>3. ASSUME NEW s \in Slots
        PROVE  Waiting(s)' \subseteq Waiting(s) /\ Owed(s)' = Owed(s) /\ lost[s] \subseteq lost'[s]
    <2>1. CASE s = r
      <3>1. Waiting(s)' = {}
        BY <1>1, <1>2, <2>1 DEF Waiting, Range, TypeOK
      <3>2. lost'[s] = lost[s] \cup Waiting(s)
        BY <1>1, <1>2, <2>1 DEF TypeOK
      <3> QED  BY <3>1, <3>2 DEF Owed
    <2>2. CASE s # r
      BY <1>1, <1>2, <2>2 DEF Waiting, Owed, TypeOK
    <2> QED  BY <2>1, <2>2
  <1>4. UnresolvedIsPending'
    BY <1>1, <1>3 DEF IndInv, UnresolvedIsPending
  <1>5. ASSUME disturbed' = {} PROVE Honest' /\ \A s \in Present' : SlotInv(s)'
    <2>1. disturbed = {} /\ ~Outruns(r)
      BY <1>1, <1>5
    <2>2. Honest /\ \A s \in Present : SlotInv(s)
      BY <2>1 DEF IndInv
    <2>3. Present' = Present /\ \A s \in Slots : Settled(s)' = Settled(s)
      BY <1>1 DEF Present, Settled, Untracked
    <2>4. Honest'
      BY <1>1, <2>2, <2>3, HonestKept
    <2>5. ASSUME NEW s \in Present PROVE SlotInv(s)'
      <3>1. s \in Slots /\ SlotInv(s)
        BY <1>2, <2>2, PresentSlots
      <3>2. AllAccounted(s)' /\ CaughtUp(s)'
        BY <1>1, <1>3, <2>3, <3>1, AccountsKept, CaughtUpKept DEF SlotInv
      <3>3. Deaf(s)'
        <4>1. CASE s = r
          <5>1. Head(queue[r]) \in Waiting(r)
            BY <1>2, QueueShrinks DEF Waiting
          <5>2. Head(queue[r]) \in lost'[r]
            BY <1>1, <1>2, <5>1 DEF TypeOK
          <5>3. \A p \in unsent[r[2]] : p \in Nat /\ p # Head(queue[r]) /\ ~(p < Head(queue[r]))
            BY <2>1, <5>1, SlotFacts DEF Outruns
          <5>4. Head(queue[r]) \in Nat
            BY <5>1, SlotFacts
          <5> QED  BY <1>1, <4>1, <5>2, <5>3, <5>4 DEF Deaf, LostBefore
        <4>2. CASE s # r
          BY <1>1, <1>3, <3>1, <4>2 DEF SlotInv, Deaf, LostBefore
        <4> QED  BY <4>1, <4>2
      <3>4. AllCarried(s)'
        BY <1>1, <1>3, <3>1 DEF SlotInv, AllCarried, Carries, LostBefore
      <3> QED  BY <3>2, <3>3, <3>4 DEF SlotInv
    <2> QED  BY <2>3, <2>4, <2>5
  <1> QED  BY <1>4, <1>5 DEF Claims

LEMMA RestartStep ==
    ASSUME IndInv, NEW S \in SUBSET Handlers, Restart(S)
    PROVE  Claims'
  <1>1. /\ session' = S /\ subscribed' = S \X Axes /\ bound' = rows
        /\ pending' = [a \in Axes |-> {}]
        /\ unsent' = [a \in Axes |-> {}] /\ publishing' = {}
        /\ queue' = [s \in Slots |-> <<>>] /\ lost' = [s \in Slots |-> {}]
        /\ phase' = "starting"
        /\ UNCHANGED <<rows, seeded, checkpoint, handled, skipped, disturbed>>
    BY DEF Restart, database
  <1>2. \A s \in Slots : Owed(s)' = {} /\ Waiting(s)' = {}
    BY <1>1 DEF Owed, Waiting, Range
  <1>3. UnresolvedIsPending'
    BY <1>1, <1>2, SlotAxis DEF UnresolvedIsPending
  <1>4. ASSUME disturbed' = {} PROVE Honest' /\ \A s \in Present' : SlotInv(s)'
    <2>1. Honest'
      BY <1>1, <1>4, HonestKept DEF IndInv, Settled, Untracked
    <2>2. ASSUME NEW s \in Present' PROVE SlotInv(s)'
      <3>1. s \in Slots /\ s \in subscribed'
        BY <1>1, <2>2 DEF Present, Slots
      <3>2. AllAccounted(s)'
        BY <1>1, <3>1, SlotFacts DEF AllAccounted
      <3> QED
        BY <1>1, <3>1, <3>2 DEF SlotInv, AllCarried, Deaf, CaughtUp, Awaits
    <2> QED  BY <2>1, <2>2
  <1> QED  BY <1>3, <1>4 DEF Claims

LEMMA CompletePublishedStep ==
    ASSUME IndInv, NEW b \in publishing, CompletePublished(b), TypeOK'
    PROVE  Claims'
  <1>1. PICK w \in [Axes -> Marks] :
           /\ \A a \in Axes : IsWatermark(a, pending'[a], w[a])
           /\ checkpoint' = [s \in Slots |-> IF Lifted(s, w) THEN w[s[2]] ELSE checkpoint[s]]
           /\ disturbed' = disturbed \cup Disturbance(w)
    BY DEF CompletePublished
  <1>2. /\ Answered(b)
        /\ publishing' = publishing \ {b}
        /\ pending' = [pending EXCEPT ![b.axis] = @ \ Positions(b)]
        /\ UNCHANGED <<rows, seeded, handled, session, bound, unsent, queue, subscribed, lost,
                       phase, due, slot, at, skipped>>
    BY DEF CompletePublished, log, start, catchup
  <1>3. TypeOK /\ b \in Batch
    BY DEF IndInv, TypeOK
  <1>4. \A a \in Axes : pending'[a] = IF a = b.axis THEN pending[a] \ Positions(b) ELSE pending[a]
    BY <1>2, <1>3 DEF TypeOK
  <1>5. \A s \in Slots : Owed(s)' = Owed(s) /\ Waiting(s)' = Waiting(s)
    BY <1>2 DEF Owed, Waiting
  <1>6. UnresolvedIsPending'
    <2>1. \A a \in Axes : unsent'[a] \subseteq pending'[a] /\ pending'[a] \subseteq 1 .. rows'[a]
      BY <1>2, <1>4 DEF IndInv, UnresolvedIsPending, Answered
    <2>2. ASSUME NEW s \in Slots
          PROVE  Owed(s)' \subseteq pending'[s[2]] /\ Waiting(s)' \cap unsent'[s[2]] = {}
      BY <1>2, <1>4, <1>5, SlotAxis DEF IndInv, UnresolvedIsPending, Answered
    <2> QED  BY <2>1, <2>2 DEF UnresolvedIsPending
  <1>7. ASSUME disturbed' = {} PROVE Honest' /\ \A s \in Present' : SlotInv(s)'
    <2>1. disturbed = {} /\ Disturbance(w) = {}
      BY <1>1, <1>7
    <2>2. Honest /\ \A s \in Present : SlotInv(s)
      BY <2>1 DEF IndInv
    <2>3. Present' = Present /\ \A s \in Slots : Settled(s)' = Settled(s)
      BY <1>2 DEF Present, Settled, Untracked
    <2>4. ASSUME NEW s \in Present PROVE SlotInv(s)'
      <3>1. s \in Slots /\ SlotInv(s)
        BY <1>3, <2>2, PresentSlots
      <3>2. AllAccounted(s)'
        <4> SUFFICES ASSUME NEW p \in bound[s[2]] + 1 .. rows[s[2]] PROVE Accounted(s, p)'
          BY <1>2 DEF AllAccounted
        <4>1. p \in pending[s[2]] \/ p \in Settled(s) \/ LostBefore(s, p)
          BY <3>1 DEF SlotInv, AllAccounted, Accounted
        <4>2. ASSUME p \in pending[s[2]], p \notin pending'[s[2]]
              PROVE  p \in Settled(s) \/ LostBefore(s, p)
          <5>1. b.axis = s[2] /\ p \in Positions(b)
            BY <1>4, <3>1, <4>2, SlotAxis
          <5>2. p \notin unsent[s[2]] /\ p \notin Owed(s)
            BY <1>2, <3>1, <5>1 DEF Answered
          <5>3. p \in handled[s] \/ LostBefore(s, p)
            BY <3>1, <5>1, <5>2 DEF SlotInv, AllCarried, Carries
          <5> QED  BY <5>3 DEF Settled
        <4> QED  BY <1>2, <2>3, <3>1, <4>1, <4>2 DEF Accounted, LostBefore
      <3>3. CaughtUp(s)'
        BY <1>2, <2>3, <3>1, CaughtUpKept DEF SlotInv
      <3>4. AllCarried(s)' /\ Deaf(s)'
        BY <1>2, <1>5, <3>1 DEF SlotInv, AllCarried, Carries, Deaf, LostBefore
      <3> QED  BY <3>2, <3>3, <3>4 DEF SlotInv
    <2>5. Honest'
      <3> SUFFICES ASSUME NEW s \in Slots, NEW p \in 1 .. checkpoint'[s] PROVE p \in Settled(s)
        BY <2>3 DEF Honest
      <3>1. CASE ~Lifted(s, w)
        <4>1. checkpoint'[s] = checkpoint[s]
          BY <1>1, <3>1
        <4> QED  BY <2>2, <4>1 DEF Honest
      <3>2. CASE Lifted(s, w)
        <4>1. checkpoint'[s] = w[s[2]] /\ s \in Present /\ s \notin Behind
          BY <1>1, <2>1, <3>2 DEF Disturbance
        <4>2. s[2] \in Axes /\ w[s[2]] \in Nat /\ rows[s[2]] \in Nat /\ p \in Nat
          <5>1. s[2] \in Axes /\ rows[s[2]] \in Nat
            BY SlotFacts
          <5>2. w[s[2]] \in Nat
            BY <5>1, RowIdsAreNaturals
          <5>3. p \in 1 .. w[s[2]]
            BY <4>1
          <5> QED  BY <5>1, <5>2, <5>3
        <4>3. pending'[s[2]] \subseteq 1 .. rows[s[2]] /\ lost'[s] \subseteq pending'[s[2]]
          BY <1>2, <1>6, <4>2 DEF UnresolvedIsPending, Owed
        <4>4. IF pending'[s[2]] = {} THEN w[s[2]] = rows[s[2]]
              ELSE \E lowest \in pending'[s[2]] :
                      w[s[2]] = lowest - 1 /\ \A q \in pending'[s[2]] : lowest <= q
          BY <1>1, <1>2, <4>2 DEF IsWatermark
        <4>5. w[s[2]] <= rows[s[2]] /\ p \notin pending'[s[2]] /\ ~LostBefore(s, p)'
          BY <4>1, <4>2, <4>3, <4>4, WatermarkIsLow DEF LostBefore
        <4>6. CASE p <= bound[s[2]]
          <5>1. CASE Awaits(s)
            <6>1. ~(Position(s) < bound[s[2]])
              BY <4>1, <5>1 DEF Behind
            <6>2. checkpoint[s] # NoRow
              BY <3>2 DEF Lifted
            <6>3. p \in 1 .. checkpoint[s]
              BY <4>6, <6>1, <6>2, SlotFacts DEF Position
            <6> QED  BY <2>2, <6>3 DEF Honest
          <5>2. CASE ~Awaits(s)
            BY <2>2, <4>1, <4>6, <5>2, SlotFacts DEF SlotInv, CaughtUp
          <5> QED  BY <5>1, <5>2
        <4>7. CASE ~(p <= bound[s[2]])
          <5>1. AllAccounted(s)'
            BY <2>3, <2>4, <4>1 DEF SlotInv
          <5>2. p \in bound[s[2]] + 1 .. rows[s[2]]
            BY <4>1, <4>2, <4>5, <4>7, SlotFacts
          <5>3. Accounted(s, p)'
            BY <1>2, <5>1, <5>2 DEF AllAccounted
          <5> QED  BY <2>3, <4>5, <5>3 DEF Accounted
        <4> QED  BY <4>6, <4>7
      <3> QED  BY <3>1, <3>2
    <2> QED  BY <2>3, <2>4, <2>5
  <1> QED  BY <1>6, <1>7 DEF Claims

\* The catch-up goes on to the slots of S, the others being through with theirs.
LEMMA GoOnHonest ==
    ASSUME IndInv, disturbed = {}, NEW S \in SUBSET Present, GoOn(S),
           UNCHANGED <<rows, seeded, session, bound, pending, lost>>,
           \A s \in Slots : Settled(s) \subseteq Settled(s)',
           \A s \in Present \ S : 1 .. bound[s[2]] \subseteq Settled(s)'
    PROVE  Honest' /\ \A s \in Present : CaughtUp(s)'
  <1>1. TypeOK /\ Honest /\ \A s \in Present : SlotInv(s)
    BY DEF IndInv
  <1>2. Present \subseteq Slots
    BY <1>1, PresentSlots
  <1>3. ASSUME NEW s \in Slots PROVE 1 .. Position(s) \subseteq Settled(s)'
    BY <1>1 DEF Honest, Position
  <1>4. ASSUME NEW s \in Present, s \notin Lagging(S)
        PROVE  1 .. bound[s[2]] \subseteq Settled(s)'
    <2>1. CASE s \in S
      <3>1. ~(Position(s) < bound[s[2]])
        BY <1>4, <2>1 DEF Lagging
      <3> QED  BY <1>1, <1>2, <1>3, <3>1, SlotFacts, PositionType
    <2> QED  BY <2>1
  <1>5. CASE ComeTo(S)
    <2>1. PICK s \in Lagging(S) :
             /\ \A t \in Lagging(S) : Rank[s] <= Rank[t]
             /\ phase' = "replaying" /\ slot' = s /\ at' = Position(s)
             /\ due' = {t \in S : Rank[t] > Rank[s]}
             /\ UNCHANGED checkpoint
      BY <1>5 DEF ComeTo
    <2>2. Honest'
      BY <1>1, <2>1, HonestKept
    <2>3. ASSUME NEW t \in Present PROVE CaughtUp(t)'
      <3>1. ASSUME ~Awaits(t)' PROVE 1 .. bound[t[2]] \subseteq Settled(t)'
        <4>1. t \notin due' /\ t # s
          BY <2>1, <3>1 DEF Awaits
        <4>2. s \in Slots /\ t \in Slots /\ Rank[s] \in Nat /\ Rank[t] \in Nat
          BY <1>2, <2>1, RankIsAnOrder DEF Lagging
        <4>3. t \notin Lagging(S)
          BY <2>1, <4>1, <4>2, RankIsAnOrder DEF Lagging
        <4> QED  BY <1>4, <4>3
      <3>2. ASSUME t = s PROVE 1 .. at' \subseteq Settled(t)'
        BY <1>2, <1>3, <2>1, <3>2 DEF Lagging
      <3> QED  BY <2>1, <3>1, <3>2 DEF CaughtUp
    <2> QED  BY <2>2, <2>3
  <1>6. CASE Stamp(S)
    <2>1. PICK w \in [Axes -> Marks] :
             /\ \A a \in Axes : IsWatermark(a, pending[a], w[a])
             /\ checkpoint' = [s \in Slots |->
                   IF s \in Present /\ Final(s[2], w[s[2]]) > checkpoint[s]
                   THEN Final(s[2], w[s[2]]) ELSE checkpoint[s]]
      BY <1>6 DEF Stamp
    <2>2. phase' = "done" /\ Lagging(S) = {}
      BY <1>6 DEF Stamp
    <2>3. ASSUME NEW s \in Present PROVE 1 .. bound[s[2]] \subseteq Settled(s)'
      BY <1>4, <2>2
    <2>4. ASSUME NEW s \in Slots, NEW p \in 1 .. checkpoint'[s] PROVE p \in Settled(s)'
      <3>1. CASE checkpoint'[s] = checkpoint[s]
        BY <1>1, <3>1 DEF Honest
      <3>2. CASE checkpoint'[s] = Final(s[2], w[s[2]]) /\ s \in Present
        <4>1. w[s[2]] \in Nat /\ rows[s[2]] \in Nat /\ bound[s[2]] \in Nat /\ s[2] \in Axes
          BY SlotFacts, RowIdsAreNaturals
        <4>2. CASE p <= bound[s[2]]
          BY <2>3, <3>2, <4>1, <4>2
        <4>3. CASE ~(p <= bound[s[2]])
          <5>1. p \in 1 .. w[s[2]]
            BY <3>2, <4>1, <4>3 DEF Final
          <5>2. w[s[2]] <= rows[s[2]] /\ p \notin pending[s[2]] /\ ~LostBefore(s, p)
            <6>1. pending[s[2]] \in SUBSET (1 .. rows[s[2]]) /\ lost[s] \subseteq pending[s[2]]
              BY SlotFacts
            <6>2. IF pending[s[2]] = {} THEN w[s[2]] = rows[s[2]]
                  ELSE \E lowest \in pending[s[2]] :
                          w[s[2]] = lowest - 1 /\ \A q \in pending[s[2]] : lowest <= q
              BY <2>1, <4>1 DEF IsWatermark
            <6>3. /\ w[s[2]] <= rows[s[2]]
                  /\ \A q \in 1 .. w[s[2]] :
                        q \notin pending[s[2]] /\ ~ \E l \in pending[s[2]] : l < q
              BY <4>1, <6>1, <6>2, WatermarkIsLow
            <6> QED  BY <5>1, <6>1, <6>3 DEF LostBefore
          <5>3. Accounted(s, p)
            BY <1>1, <3>2, <4>1, <4>3, <5>1, <5>2 DEF SlotInv, AllAccounted
          <5> QED  BY <5>2, <5>3 DEF Accounted
        <4> QED  BY <4>2, <4>3
      <3> QED  BY <2>1, <3>1, <3>2
    <2>5. Honest'
      BY <2>4 DEF Honest
    <2> QED  BY <2>2, <2>3, <2>5 DEF CaughtUp
  <1> QED  BY <1>5, <1>6 DEF GoOn

LEMMA StartupCatchupStep ==
    ASSUME IndInv, StartupCatchup
    PROVE  Claims'
  <1>1. /\ phase = "starting" /\ GoOn(Present)
        /\ UNCHANGED <<rows, seeded, handled, session, bound, pending, unsent, publishing,
                       queue, subscribed, lost, skipped, disturbed>>
    BY DEF StartupCatchup, log, start, bus, observed
  <1>2. UnresolvedIsPending'
    BY <1>1 DEF IndInv, UnresolvedIsPending, Owed, Waiting
  <1>3. ASSUME disturbed' = {} PROVE Honest' /\ \A s \in Present' : SlotInv(s)'
    <2>1. disturbed = {} /\ Present' = Present /\ \A s \in Slots : Settled(s)' = Settled(s)
      BY <1>1, <1>3 DEF Present, Settled, Untracked
    <2>2. Honest' /\ \A s \in Present : CaughtUp(s)'
      BY <1>1, <2>1, GoOnHonest
    <2>3. ASSUME NEW s \in Present PROVE SlotInv(s)'
      <3>1. s \in Slots /\ SlotInv(s)
        BY <2>1, PresentSlots DEF IndInv
      <3>2. AllAccounted(s)'
        BY <1>1, <2>1, <3>1, AccountsKept DEF SlotInv
      <3>3. AllCarried(s)' /\ Deaf(s)'
        BY <1>1, <3>1 DEF SlotInv, AllCarried, Carries, Deaf, LostBefore, Owed, Waiting
      <3> QED  BY <2>2, <3>2, <3>3 DEF SlotInv
    <2> QED  BY <2>1, <2>2, <2>3
  <1> QED  BY <1>2, <1>3 DEF Claims

LEMMA ReplayStep ==
    ASSUME IndInv, Replay
    PROVE  Claims'
  <1>1. /\ phase = "replaying" /\ DeliverMissed
        /\ UNCHANGED <<rows, seeded, session, bound, pending, unsent, publishing,
                       queue, subscribed, lost, disturbed>>
    BY DEF Replay, log, start, bus
  <1>2. /\ TypeOK /\ slot \in Present /\ slot \in Slots /\ at \in Nat
        /\ at < bound[slot[2]] /\ bound[slot[2]] \in Nat
    <2>1. TypeOK /\ AtMissedEvent /\ slot \in Present /\ at \in Marks
      BY <1>1 DEF IndInv, TypeOK
    <2> QED  BY <1>1, <2>1, PresentSlots, RowIdsAreNaturals, SlotFacts DEF AtMissedEvent
  <1>3. ASSUME NEW s \in Slots
        PROVE  /\ Settled(s) \subseteq Settled(s)' /\ handled[s] \subseteq handled'[s]
               /\ s = slot => at + 1 \in Settled(s)'
    <2>1. handled \in [Slots -> SUBSET RowIds] /\ skipped \in [Slots -> SUBSET RowIds]
          /\ seeded' = seeded
      BY <1>1, <1>2 DEF TypeOK
    <2>2. CASE handled' = [handled EXCEPT ![slot] = @ \cup {at + 1}] /\ skipped' = skipped
      <3>1. handled'[s] = IF s = slot THEN handled[s] \cup {at + 1} ELSE handled[s]
        BY <2>1, <2>2
      <3> QED  BY <2>1, <2>2, <3>1 DEF Settled, Untracked
    <2>3. CASE skipped' = [skipped EXCEPT ![slot] = @ \cup {at + 1}] /\ handled' = handled
      <3>1. skipped'[s] = IF s = slot THEN skipped[s] \cup {at + 1} ELSE skipped[s]
        BY <2>1, <2>3
      <3> QED  BY <2>1, <2>3, <3>1 DEF Settled, Untracked
    <2> QED  BY <1>1, <2>2, <2>3 DEF DeliverMissed
  <1>4. UnresolvedIsPending'
    BY <1>1 DEF IndInv, UnresolvedIsPending, Owed, Waiting
  <1>5. ASSUME disturbed' = {} PROVE Honest' /\ \A s \in Present' : SlotInv(s)'
    <2>1. disturbed = {} /\ Present' = Present
      BY <1>1, <1>5 DEF Present
    <2>2. Honest /\ \A s \in Present : SlotInv(s)
      BY <2>1 DEF IndInv
    <2>3. ASSUME NEW s \in Slots, s = slot PROVE 1 .. at + 1 \subseteq Settled(s)'
      <3>1. 1 .. at \subseteq Settled(s)
        BY <1>1, <1>2, <2>2, <2>3 DEF SlotInv, CaughtUp
      <3>2. \A p \in 1 .. at + 1 : p \in 1 .. at \/ p = at + 1
        BY <1>2
      <3> QED  BY <1>3, <2>3, <3>1, <3>2
    <2>4. Honest' /\ \A s \in Present : CaughtUp(s)'
      <3>1. CASE at + 1 < bound[slot[2]]
        <4>1. at' = at + 1 /\ UNCHANGED <<phase, due, slot, checkpoint>>
          BY <3>1 DEF Replay
        <4>2. Honest'
          BY <1>3, <2>2, <4>1, HonestKept
        <4>3. ASSUME NEW s \in Present PROVE CaughtUp(s)'
          <5>1. CaughtUp(s) /\ s \in Slots
            BY <1>2, <2>2, PresentSlots DEF SlotInv
          <5> QED
            BY <1>1, <1>3, <2>3, <4>1, <5>1 DEF CaughtUp, Awaits
        <4> QED  BY <4>2, <4>3
      <3>2. CASE ~(at + 1 < bound[slot[2]])
        <4>1. GoOn(due) /\ due \subseteq Present
          BY <1>2, <3>2 DEF Replay, TypeOK
        <4>2. ASSUME NEW s \in Present \ due PROVE 1 .. bound[s[2]] \subseteq Settled(s)'
          <5>1. CASE s = slot
            <6>1. bound[slot[2]] = at + 1
              BY <1>2, <3>2
            <6> QED  BY <1>2, <2>3, <5>1, <6>1
          <5>2. CASE s # slot
            <6>1. ~Awaits(s) /\ CaughtUp(s) /\ s \in Slots
              BY <1>1, <1>2, <2>2, <5>2, PresentSlots DEF Awaits, SlotInv
            <6> QED  BY <1>3, <6>1 DEF CaughtUp
          <5> QED  BY <5>1, <5>2
        <4> QED  BY <1>1, <1>3, <2>1, <4>1, <4>2, GoOnHonest
      <3> QED  BY <3>1, <3>2
    <2>5. ASSUME NEW s \in Present PROVE SlotInv(s)'
      <3>1. s \in Slots /\ SlotInv(s)
        BY <1>2, <2>2, PresentSlots
      <3>2. AllAccounted(s)'
        BY <1>1, <1>3, <3>1, AccountsKept DEF SlotInv
      <3>3. AllCarried(s)' /\ Deaf(s)'
        BY <1>1, <1>3, <3>1 DEF SlotInv, AllCarried, Carries, Deaf, LostBefore, Owed, Waiting
      <3> QED  BY <2>4, <3>2, <3>3 DEF SlotInv
    <2> QED  BY <2>1, <2>4, <2>5
  <1> QED  BY <1>4, <1>5 DEF Claims

LEMMA IndStep ==
    ASSUME IndInv, [Next]_vars
    PROVE  IndInv'
  <1>1. TypeInv'
    BY TypeStep DEF IndInv, TypeInv
  <1>2. CASE UNCHANGED vars
    <2>1. Present' = Present
          /\ \A s \in Slots : /\ Settled(s)' = Settled(s) /\ Owed(s)' = Owed(s)
                              /\ Waiting(s)' = Waiting(s)
      BY <1>2 DEF vars, database, start, bus, catchup, observed, Present, Settled, Untracked,
                  Owed, Waiting
    <2>2. UNCHANGED <<rows, checkpoint, bound, pending, unsent, publishing, subscribed, lost,
                      handled, phase, due, slot, at, disturbed>>
      BY <1>2 DEF vars, database, start, bus, catchup, observed
    <2>3. UnresolvedIsPending'
      BY <2>1, <2>2 DEF IndInv, UnresolvedIsPending
    <2>4. ASSUME disturbed' = {} PROVE Honest' /\ \A s \in Present' : SlotInv(s)'
      <3>1. Honest'
        BY <2>1, <2>2, <2>4, HonestKept DEF IndInv
      <3>2. ASSUME NEW s \in Present PROVE SlotInv(s)'
        <4>1. s \in Slots /\ SlotInv(s)
          BY <2>2, <2>4, PresentSlots DEF IndInv
        <4>2. AllAccounted(s)' /\ CaughtUp(s)'
          BY <2>1, <2>2, <4>1, AccountsKept, CaughtUpKept DEF SlotInv
        <4>3. AllCarried(s)' /\ Deaf(s)'
          BY <2>1, <2>2, <4>1 DEF SlotInv, AllCarried, Carries, Deaf, LostBefore
        <4> QED  BY <4>2, <4>3 DEF SlotInv
      <3> QED  BY <2>1, <3>1, <3>2
    <2> QED  BY <1>1, <2>3, <2>4 DEF IndInv, TypeInv
  <1>3. CASE Next
    <2>1. Claims'
      BY <1>1, <1>3, AppendTrackedStep, AppendStreamStep, PublishEventStep, PublishFailsStep,
         HandleStep, ThrowsStep, CompletePublishedStep, StartupCatchupStep, ReplayStep,
         RestartStep
      DEF Next, TypeInv
    <2> QED  BY <1>1, <2>1 DEF Claims, IndInv, TypeInv
  <1> QED  BY <1>2, <1>3

LEMMA InitInd == Init => IndInv
  <1> SUFFICES ASSUME Init PROVE IndInv
    OBVIOUS
  <1>1. TypeInv
    BY InitType
  <1>2. \A s \in Slots : Owed(s) = {} /\ Waiting(s) = {}
    BY DEF Init, Owed, Waiting, Range
  <1>3. UnresolvedIsPending
    BY <1>2, SlotAxis DEF Init, UnresolvedIsPending
  <1>4. Honest
    BY DEF Init, Honest, NoRow
  <1>5. ASSUME NEW s \in Present PROVE SlotInv(s)
    <2>1. s \in Slots /\ s[2] \in Axes
      BY <1>1, PresentSlots, SlotAxis DEF TypeInv
    <2> QED
      BY <2>1 DEF Init, SlotInv, AllAccounted, AllCarried, Deaf, CaughtUp, Awaits
  <1> QED  BY <1>1, <1>3, <1>4, <1>5 DEF IndInv, TypeInv

(* The inductive invariant of a session: until something disturbs it, every    *)
(* event of a log is pending, on its way, taken, or behind a lost one, which   *)
(* is pending; and the catch-up has delivered what lies behind it.             *)
THEOREM SessionAccounts == Spec => []IndInv
  <1>1. IndInv /\ [Next]_vars => IndInv'
    BY IndStep
  <1> QED  BY InitInd, <1>1, PTL DEF Spec

(* The checkpoint of a projection covers only events its read model has taken   *)
(* or given up with a warning, through ended sessions, publishes that complete  *)
(* in any order, bulk appends and handlers that throw, unless one of the four   *)
(* disturbances has happened (ProjectionCheckpoint.res, ProjectionPending.res). *)
THEOREM CheckpointsAreHonest == Spec => []HonestUndisturbed
  <1>1. IndInv => HonestUndisturbed
    BY DEF IndInv, HonestUndisturbed
  <1> QED  BY SessionAccounts, <1>1, PTL
=============================================================================
