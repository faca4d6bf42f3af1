------------------------ MODULE PgChangeFeed_proofs ------------------------
(***************************************************************************)
(* Proofs about the Postgres change feed: a reader's cursor is stable and no *)
(* event is skipped, for any number of drains, transactions and faults.      *)
(***************************************************************************)
EXTENDS PgChangeFeed, TLAPS

-----------------------------------------------------------------------------
(* The log as readers see it: what any step of its transactions leaves of a     *)
(* reader's cursor, and of the fenced rows.                                    *)

(* What a step does to the database: ids only grow, and only the rows of   *)
(* running and new transactions come and go.                                  *)
DatabaseStep ==
    /\ nextXid <= nextXid'
    /\ \A x \in running' \ running : x = nextXid
    /\ \A r \in rows' \ rows : r.tx \in running \cup {nextXid}
    /\ \A r \in rows \ rows' : r.tx \in running

(* The fenced rows only grow, and only at their end.                          *)
LEMMA FencedRowsStay ==
    ASSUME DatabaseOK, DatabaseStep
    PROVE  FencedPrefixGrows
<1>1. nextXid \in Int /\ running \subseteq Int /\ \A x \in running : x < nextXid
  BY DEF DatabaseOK
<1>2. \A r \in rows : r.tx \in Int /\ r.tx < nextXid
  BY DEF DatabaseOK
<1>3. Fenced \subseteq Fenced'
  <2>1. SUFFICES ASSUME NEW r \in Fenced PROVE r \in Fenced'
    OBVIOUS
  <2>2. r \in rows /\ r.tx \notin running /\ \A x \in running : r.tx < x
    BY DEF Fenced, Visible
  <2>3. r \in rows'
    BY <2>2 DEF DatabaseStep
  <2>4. \A x \in running' : r.tx < x
    BY <1>1, <1>2, <2>2 DEF DatabaseStep
  <2>5. r.tx \notin running'
    BY <1>2, <2>2, <2>4
  <2>6. QED
    BY <2>3, <2>4, <2>5 DEF Fenced, Visible
<1>4. ASSUME NEW r \in Fenced, NEW q \in Fenced' \ Fenced PROVE Precedes(r, q)
  <2>1. r \in rows /\ \A x \in running : r.tx < x
    BY DEF Fenced, Visible
  <2>2. q \in rows' /\ q \notin Fenced
    BY DEF Fenced, Visible
  <2>3. CASE q.tx \in running
    BY <2>1, <2>3 DEF Precedes
  <2>4. CASE q.tx = nextXid
    BY <1>2, <2>1, <2>4 DEF Precedes
  <2>5. CASE q.tx \notin running \cup {nextXid}
    <3>1. q \in rows
      BY <2>2, <2>5 DEF DatabaseStep
    <3>2. PICK x \in running : ~(q.tx < x)
      BY <2>2, <2>5, <3>1 DEF Fenced, Visible
    <3>3. r.tx < x /\ r.tx \in Int /\ q.tx \in Int /\ x \in Int
      BY <1>1, <1>2, <2>1, <3>1
    <3>4. QED
      BY <3>2, <3>3 DEF Precedes
  <2>6. QED
    BY <2>3, <2>4, <2>5
<1>5. QED
  BY <1>3, <1>4 DEF FencedPrefixGrows

(* A settled cursor stays settled, and the rows before it stay what they are.  *)
LEMMA SettledStays ==
    ASSUME DatabaseOK, DatabaseStep, nextXid' \in Nat, NEW c \in Cursor, Settled(c)
    PROVE  Settled(c)' /\ UpTo(c)' = UpTo(c)
<1>1. nextXid \in Int /\ running \subseteq Int /\ c.tx \in Int /\ c.pos \in Int
  BY DEF DatabaseOK, Cursor
<1>2. Settled(c)'
  <2>1. c.tx < nextXid /\ \A x \in running : c.tx < x
    BY DEF Settled
  <2>2. nextXid <= nextXid' /\ \A x \in running' : x \in running \/ x = nextXid
    BY DEF DatabaseStep
  <2>3. c.tx < nextXid'
    BY <1>1, <2>1, <2>2
  <2>4. \A x \in running' : c.tx < x
    BY <2>1, <2>2
  <2>5. QED
    BY <2>3, <2>4 DEF Settled
<1>3. ASSUME NEW r \in UpTo(c)' PROVE r \in UpTo(c)
  <2>1. r \in rows' /\ ~Precedes(c, r)
    BY DEF UpTo, Precedes
  <2>2. r \in rows
    BY <2>1, <1>1 DEF DatabaseStep, Settled, Precedes
  <2>3. QED
    BY <2>1, <2>2 DEF UpTo
<1>4. ASSUME NEW r \in UpTo(c) PROVE r \in UpTo(c)'
  <2>1. r \in rows /\ ~Precedes(c, r)
    BY DEF UpTo
  <2>2. r.tx \in Int
    BY <2>1 DEF DatabaseOK
  <2>3. r.tx \notin running
    BY <1>1, <2>1, <2>2 DEF Settled, Precedes
  <2>4. r \in rows'
    BY <2>1, <2>3 DEF DatabaseStep
  <2>5. QED
    BY <2>1, <2>4 DEF UpTo, Precedes
<1>5. QED
  BY <1>2, <1>3, <1>4
(* The last row of a page of T gives a settled cursor, which all of T up to it   *)
(* has been read behind.                                                      *)
LEMMA PageEndsSettled ==
    ASSUME DatabaseOK, NEW c \in Cursor, NEW T \in SUBSET FencedAfter(c), NEW S \in Pages(T),
           NEW last \in S, IsLast(last, S)
    PROVE  /\ CursorOf(last) \in Cursor
           /\ Settled(CursorOf(last))
           /\ UpTo(CursorOf(last)) \subseteq UpTo(c) \cup S \cup (FencedAfter(c) \ T)
           /\ UpTo(c) \subseteq UpTo(CursorOf(last))
           /\ S \subseteq Fenced /\ S \subseteq UpTo(CursorOf(last))
<1>1. S \subseteq T /\ \A r \in S, q \in T \ S : Precedes(r, q)
  BY DEF Pages, IsPage
<1>2. T \subseteq Fenced /\ Fenced \subseteq rows
  BY DEF FencedAfter, Fenced, Visible
<1>3. \A r \in rows : r.tx \in Nat /\ r.pos \in Nat /\ r.tx < nextXid
  BY DEF DatabaseOK
<1>4. last \in Fenced /\ last \in rows
  BY <1>1, <1>2
<1>5. CursorOf(last) \in Cursor /\ CursorOf(last).tx = last.tx /\ CursorOf(last).pos = last.pos
  BY <1>3, <1>4 DEF CursorOf, Cursor
<1>6. Settled(CursorOf(last))
  BY <1>3, <1>4, <1>5 DEF Settled, Fenced
<1>7. ASSUME NEW r \in UpTo(CursorOf(last)), r \notin UpTo(c)
      PROVE  r \in S \/ r \in FencedAfter(c) \ T
  <2>1. r \in rows /\ ~Precedes(CursorOf(last), r) /\ Precedes(c, r)
    BY <1>7 DEF UpTo
  <2>2. r.tx \in Int /\ last.tx \in Int /\ r.tx <= last.tx
    BY <2>1, <1>3, <1>4, <1>5 DEF Precedes
  <2>3. running \subseteq Int /\ \A x \in running : r.tx < x
    BY <2>2, <1>4 DEF Fenced, DatabaseOK
  <2>4. r \in FencedAfter(c)
    BY <2>1, <2>2, <2>3 DEF FencedAfter, Fenced, Visible
  <2>5. ~Precedes(last, r)
    BY <2>1, <1>5 DEF Precedes
  <2>6. QED
    BY <2>4, <2>5, <1>1
<1>8. ASSUME NEW r \in UpTo(c) PROVE r \in UpTo(CursorOf(last))
  <2>1. r \in rows /\ ~Precedes(c, r) /\ Precedes(c, last)
    BY <1>1 DEF UpTo, FencedAfter
  <2>2. r.tx \in Int /\ r.pos \in Int /\ c.tx \in Int /\ c.pos \in Int
        /\ last.tx \in Int /\ last.pos \in Int
    BY <2>1, <1>3, <1>4 DEF Cursor
  <2>3. ~Precedes(CursorOf(last), r)
    BY <2>1, <2>2, <1>5 DEF Precedes
  <2>4. QED
    BY <2>1, <2>3 DEF UpTo
<1>9. ASSUME NEW r \in S PROVE r \in UpTo(CursorOf(last))
  <2>1. r \in rows /\ (r = last \/ Precedes(r, last))
    BY <1>1, <1>2 DEF IsLast
  <2>2. r.tx \in Int /\ r.pos \in Int /\ last.tx \in Int /\ last.pos \in Int
    BY <2>1, <1>3, <1>4
  <2>3. ~Precedes(CursorOf(last), r)
    BY <2>1, <2>2, <1>5 DEF Precedes
  <2>4. QED
    BY <2>1, <2>3 DEF UpTo
<1>10. QED
  BY <1>1, <1>2, <1>5, <1>6, <1>7, <1>8, <1>9
-----------------------------------------------------------------------------
LEMMA StepsOnDatabase ==
    ASSUME TypeOK, [Next]_vars
    PROVE  DatabaseStep
<1>1. nextXid \in Nat
  BY DEF TypeOK, DatabaseOK
<1>2. CASE Begin
  BY <1>1, <1>2 DEF Begin, TakeXid, DatabaseStep
<1>3. ASSUME NEW x \in running, Insert(x) PROVE DatabaseStep
  BY <1>1, <1>3 DEF Insert, DatabaseStep
<1>4. ASSUME NEW x \in running, CommitWriter(x) PROVE DatabaseStep
  BY <1>1, <1>4 DEF CommitWriter, Commit, EndXid, DatabaseStep
<1>5. ASSUME NEW x \in running, AbortWriter(x) PROVE DatabaseStep
  BY <1>1, <1>5 DEF AbortWriter, Rollback, EndXid, DatabaseStep
<1>6. ASSUME NEW d \in Drains, Work(d) \/ Dies(d) PROVE DatabaseStep
  BY <1>1, <1>6 DEF Work, LoadCheckpoint, ReadBatch, Handle, SaveCheckpoint, Dies,
     database, DatabaseStep
<1>7. CASE UNCHANGED vars
  BY <1>1, <1>7 DEF vars, database, DatabaseStep
<1>8. QED
  BY <1>2, <1>3, <1>4, <1>5, <1>6, <1>7 DEF Next

-----------------------------------------------------------------------------
LEMMA InitType == Init => TypeOK
BY BoundsAreNaturals DEF Init, DatabaseInit, TypeOK, DatabaseOK, NoCursor, Cursor, Row

LEMMA StepType ==
    ASSUME TypeOK, [Next]_vars
    PROVE  TypeOK'
<1> USE DEF TypeOK
<1>1. ASSUME NEW r \in rows PROVE r \in Row /\ r.tx \in 1..(nextXid - 1) /\ r.pos \in 1..(nextPos - 1)
  BY <1>1 DEF DatabaseOK
<1>2. CASE Begin
  BY <1>2 DEF Begin, TakeXid, DatabaseOK, subscriber, drain
<1>3. ASSUME NEW x \in running, Insert(x) PROVE TypeOK'
  <2>1. x \in 1..(nextXid - 1) /\ nextPos \in Nat \ {0}
    BY DEF DatabaseOK
  <2>2. PICK r0 : r0 = [tx |-> x, pos |-> nextPos]
    OBVIOUS
  <2>3. r0 \in Row /\ r0.tx = x /\ r0.pos = nextPos
    BY <2>1, <2>2 DEF Row
  <2>4. rows' = rows \cup {r0} /\ nextPos' = nextPos + 1
    BY <1>3, <2>2 DEF Insert
  <2>5. \A r \in rows' : r.tx \in 1..(nextXid - 1) /\ r.pos \in 1..nextPos
    BY <2>1, <2>3, <2>4 DEF DatabaseOK
  <2>6. \A r, q \in rows' : r.pos = q.pos => r = q
    <3>1. \A r \in rows : r.pos # r0.pos
      BY <2>1, <2>3 DEF DatabaseOK
    <3>2. QED
      BY <3>1, <2>4 DEF DatabaseOK
  <2>7. DatabaseOK'
    BY <1>3, <2>1, <2>4, <2>5, <2>6 DEF Insert, DatabaseOK
  <2>8. QED
    BY <1>3, <2>3, <2>4, <2>7 DEF Insert, subscriber, drain
<1>4. ASSUME NEW x \in running, CommitWriter(x) PROVE TypeOK'
  BY <1>4 DEF CommitWriter, Commit, EndXid, DatabaseOK, subscriber, drain
<1>5. ASSUME NEW x \in running, AbortWriter(x) PROVE TypeOK'
  BY <1>5, BoundsAreNaturals DEF AbortWriter, Fault, Rollback, EndXid, DatabaseOK, subscriber, drain
<1>6. ASSUME NEW d \in Drains, LoadCheckpoint(d) PROVE TypeOK'
  BY <1>6 DEF LoadCheckpoint, DatabaseOK, database, subscriber
<1>7. ASSUME NEW d \in Drains, ReadBatch(d) PROVE TypeOK'
  <2>1. UNCHANGED <<database, subscriber, cursor, faults>>
    BY <1>7 DEF ReadBatch
  <2>2. PICK S \in Pages(FencedAfter(cursor[d])) :
          \/ S = {} /\ pc' = [pc EXCEPT ![d] = "idle"] /\ UNCHANGED <<page, upto>>
          \/ \E last \in S :
               /\ IsLast(last, S)
               /\ page' = [page EXCEPT ![d] = S]
               /\ upto' = [upto EXCEPT ![d] = CursorOf(last)]
               /\ pc' = [pc EXCEPT ![d] = "handle"]
    BY <1>7 DEF ReadBatch
  <2>3. cursor[d] \in Cursor
    OBVIOUS
  <2>4. S \subseteq rows
    BY DEF Pages, FencedAfter, Fenced, Visible
  <2>5. S \in SUBSET Row
    BY <2>4, <1>1
  <2>6. \A last \in S : IsLast(last, S) => CursorOf(last) \in Cursor
    <3>1. FencedAfter(cursor[d]) \in SUBSET FencedAfter(cursor[d])
      OBVIOUS
    <3>2. QED
      BY <2>3, <3>1, PageEndsSettled
  <2>7. pc' \in [Drains -> {"idle", "read", "handle", "save"}]
        /\ page' \in [Drains -> SUBSET Row] /\ upto' \in [Drains -> Cursor]
    BY <2>2, <2>5, <2>6
  <2>8. QED
    BY <2>1, <2>7 DEF DatabaseOK, database, subscriber
<1>8. ASSUME NEW d \in Drains, Handle(d) PROVE TypeOK'
  BY <1>8 DEF Handle, DatabaseOK, database
<1>9. ASSUME NEW d \in Drains, SaveCheckpoint(d) PROVE TypeOK'
  BY <1>9 DEF SaveCheckpoint, DatabaseOK, database
<1>10. ASSUME NEW d \in Drains, Dies(d) PROVE TypeOK'
  BY <1>10, BoundsAreNaturals DEF Dies, Fault, DatabaseOK, database
<1>11. CASE UNCHANGED vars
  BY <1>11 DEF vars, database, subscriber, drain, DatabaseOK
<1>12. QED
  BY <1>2, <1>3, <1>4, <1>5, <1>6, <1>7, <1>8, <1>9, <1>10, <1>11 DEF Next, Work

(* Every variable of the feed and of the database keeps its type, and a        *)
(* position belongs to one row (PgSchema.res, IDENTITY).                      *)
THEOREM TypeCorrect == Spec => []TypeOK
<1>1. TypeOK /\ [Next]_vars => TypeOK'
  BY StepType
<1>2. QED
  BY InitType, <1>1, PTL DEF Spec
-----------------------------------------------------------------------------
LEMMA InitFeed == Init => FeedInv
<1> SUFFICES ASSUME Init PROVE FeedInv
  OBVIOUS
<1>1. rows = {} /\ running = {} /\ nextXid = 1 /\ checkpoint.tx = 0
  BY DEF Init, DatabaseInit, NoCursor
<1>2. UpTo(checkpoint) = {}
  BY <1>1 DEF UpTo
<1>3. Settled(checkpoint)
  BY <1>1 DEF Settled
<1>4. QED
  BY <1>2, <1>3 DEF Init, FeedInv

(* What a step leaves of the invariant whatever it is: settled cursors and     *)
(* fenced rows stay.                                                         *)
LEMMA StepFeed ==
    ASSUME TypeOK, TypeOK', FeedInv, [Next]_vars
    PROVE  FeedInv'
<1> USE DEF TypeOK
<1>1. DatabaseStep /\ DatabaseOK /\ nextXid' \in Nat
  BY StepsOnDatabase DEF DatabaseOK
<1>2. Fenced \subseteq Fenced'
  BY <1>1, FencedRowsStay DEF FencedPrefixGrows
<1>3. ASSUME NEW c \in Cursor, Settled(c) PROVE Settled(c)' /\ UpTo(c)' \subseteq UpTo(c)
  BY <1>1, <1>3, SettledStays
<1>4. handled \subseteq handled' /\ handled' \subseteq Fenced'
  <2>1. handled \subseteq Fenced
    BY DEF FeedInv
  <2>2. ASSUME NEW d \in Drains, Handle(d) PROVE handled \subseteq handled' /\ handled' \subseteq Fenced'
    <3>1. page[d] \subseteq Fenced /\ handled' = handled \cup page[d]
      BY <2>2 DEF Handle, FeedInv
    <3>2. QED
      BY <2>1, <3>1, <1>2
  <2>3. ASSUME NEW d \in Drains, Dies(d) PROVE handled \subseteq handled' /\ handled' \subseteq Fenced'
    <3>1. PICK sent \in SUBSET page[d] :
             (pc[d] # "handle" => sent = {}) /\ handled' = handled \cup sent
      BY <2>3 DEF Dies
    <3>2. sent \subseteq Fenced
      BY <3>1 DEF FeedInv
    <3>3. QED
      BY <2>1, <3>1, <3>2, <1>2
  <2>4. CASE handled' = handled
    BY <2>1, <2>4, <1>2
  <2>5. QED
    BY <2>2, <2>3, <2>4 DEF Next, Begin, Insert, CommitWriter, AbortWriter, Work, LoadCheckpoint,
       ReadBatch, SaveCheckpoint, vars, subscriber
<1>5. Settled(checkpoint)' /\ UpTo(checkpoint)' \subseteq handled'
  <2>1. CASE checkpoint' = checkpoint
    <3>1. checkpoint \in Cursor /\ Settled(checkpoint) /\ UpTo(checkpoint) \subseteq handled
      BY DEF FeedInv
    <3>2. PICK c \in Cursor : c = checkpoint
      BY <3>1
    <3>3. Settled(c)' /\ UpTo(c)' \subseteq UpTo(c)
      BY <3>1, <3>2, <1>3
    <3>4. c = checkpoint'
      BY <2>1, <3>2
    <3>5. Settled(checkpoint)' /\ UpTo(checkpoint)' \subseteq UpTo(c)
      BY <3>3, <3>4 DEF Settled, UpTo
    <3>6. QED
      BY <3>1, <3>2, <3>5, <1>4
  <2>2. ASSUME NEW d \in Drains, SaveCheckpoint(d)
        PROVE Settled(checkpoint)' /\ UpTo(checkpoint)' \subseteq handled'
    <3>1. PICK c \in Cursor : c = upto[d]
      OBVIOUS
    <3>2. Settled(c) /\ UpTo(c) \subseteq handled /\ checkpoint' = c
      BY <2>2, <3>1 DEF SaveCheckpoint, FeedInv
    <3>3. Settled(c)' /\ UpTo(c)' \subseteq UpTo(c)
      BY <3>2, <1>3
    <3>4. Settled(checkpoint)' /\ UpTo(checkpoint)' \subseteq UpTo(c)
      BY <3>2, <3>3 DEF Settled, UpTo
    <3>5. QED
      BY <3>2, <3>4, <1>4
  <2>3. QED
    BY <2>1, <2>2 DEF Next, Begin, Insert, CommitWriter, AbortWriter, Work, LoadCheckpoint,
       ReadBatch, Handle, Dies, vars, subscriber
<1>6. ASSUME NEW d \in Drains, pc'[d] = "read"
      PROVE  Settled(cursor[d])' /\ UpTo(cursor[d])' \subseteq handled'
  <2>1. PICK c \in Cursor : c = cursor'[d]
    OBVIOUS
  <2>2. Settled(c) /\ UpTo(c) \subseteq handled
    <3>1. CASE pc[d] = "read" /\ cursor'[d] = cursor[d]
      BY <3>1, <2>1 DEF FeedInv
    <3>2. CASE LoadCheckpoint(d)
      BY <3>2, <2>1 DEF LoadCheckpoint, FeedInv
    <3>3. CASE SaveCheckpoint(d)
      BY <3>3, <2>1 DEF SaveCheckpoint, FeedInv
    <3>4. ASSUME NEW e \in Drains, Work(e) \/ Dies(e), e # d PROVE pc'[d] = pc[d] /\ cursor'[d] = cursor[d]
      BY <3>4 DEF Work, LoadCheckpoint, ReadBatch, Handle, SaveCheckpoint, Dies
    <3>5. CASE ReadBatch(d) \/ Handle(d) \/ Dies(d)
      BY <3>5, <1>6 DEF ReadBatch, Handle, Dies
    <3>6. QED
      BY <3>1, <3>2, <3>3, <3>4, <3>5, <1>6 DEF Next, Begin, Insert, CommitWriter, AbortWriter,
         Work, vars, drain
  <2>3. Settled(c)' /\ UpTo(c)' \subseteq UpTo(c)
    BY <2>2, <1>3
  <2>4. Settled(cursor[d])' /\ UpTo(cursor[d])' \subseteq UpTo(c)
    BY <2>1, <2>3 DEF Settled, UpTo
  <2>5. QED
    BY <2>2, <2>4, <1>4
<1>7. ASSUME NEW d \in Drains, pc'[d] \in {"handle", "save"}
      PROVE  /\ Settled(upto[d])' /\ UpTo(upto[d])' \subseteq handled' \cup page'[d]
             /\ pc'[d] = "handle" => page'[d] \subseteq Fenced'
             /\ pc'[d] = "save" => page'[d] \subseteq handled'
  <2>1. PICK c \in Cursor : c = upto'[d]
    OBVIOUS
  <2>2. /\ Settled(c) /\ UpTo(c) \subseteq handled \cup page'[d]
        /\ pc'[d] = "handle" => page'[d] \subseteq Fenced
        /\ pc'[d] = "save" => page'[d] \subseteq handled'
    <3>1. CASE pc'[d] = pc[d] /\ upto'[d] = upto[d] /\ page'[d] = page[d]
      <4>1. Settled(upto[d]) /\ UpTo(upto[d]) \subseteq handled \cup page[d]
            /\ (pc[d] = "handle" => page[d] \subseteq Fenced)
            /\ (pc[d] = "save" => page[d] \subseteq handled)
        BY <3>1, <1>7 DEF FeedInv
      <4>2. QED
        BY <3>1, <4>1, <2>1, <1>4
    <3>2. CASE Handle(d)
      <4>1. Settled(upto[d]) /\ UpTo(upto[d]) \subseteq handled \cup page[d]
        BY <3>2 DEF Handle, FeedInv
      <4>2. pc'[d] = "save" /\ upto'[d] = upto[d] /\ page'[d] = page[d] /\ page[d] \subseteq handled'
        BY <3>2 DEF Handle
      <4>3. QED
        BY <4>1, <4>2, <2>1
    <3>3. CASE ReadBatch(d)
      <4>1. pc[d] = "read" /\ Settled(cursor[d]) /\ UpTo(cursor[d]) \subseteq handled
        BY <3>3 DEF ReadBatch, FeedInv
      <4>2. PICK S \in Pages(FencedAfter(cursor[d])) : \E last \in S :
               /\ IsLast(last, S)
               /\ page' = [page EXCEPT ![d] = S]
               /\ upto' = [upto EXCEPT ![d] = CursorOf(last)]
               /\ pc' = [pc EXCEPT ![d] = "handle"]
        BY <3>3, <1>7 DEF ReadBatch
      <4> PICK last \in S :
               /\ IsLast(last, S)
               /\ page' = [page EXCEPT ![d] = S]
               /\ upto' = [upto EXCEPT ![d] = CursorOf(last)]
               /\ pc' = [pc EXCEPT ![d] = "handle"]
        BY <4>2
      <4>3. page'[d] = S /\ c = CursorOf(last) /\ pc'[d] = "handle"
        BY <2>1
      <4>4. Settled(CursorOf(last)) /\ S \subseteq Fenced
            /\ UpTo(CursorOf(last)) \subseteq UpTo(cursor[d]) \cup S
        <5>1. FencedAfter(cursor[d]) \in SUBSET FencedAfter(cursor[d]) /\ cursor[d] \in Cursor
          OBVIOUS
        <5>2. QED
          BY <5>1, <1>1, PageEndsSettled
      <4>5. QED
        BY <4>1, <4>3, <4>4
    <3>4. ASSUME NEW e \in Drains, Work(e) \/ Dies(e), e # d
          PROVE pc'[d] = pc[d] /\ upto'[d] = upto[d] /\ page'[d] = page[d]
      BY <3>4 DEF Work, LoadCheckpoint, ReadBatch, Handle, SaveCheckpoint, Dies
    <3>5. CASE LoadCheckpoint(d) \/ SaveCheckpoint(d) \/ Dies(d)
      BY <3>5, <1>7 DEF LoadCheckpoint, SaveCheckpoint, Dies
    <3>6. QED
      BY <3>1, <3>2, <3>3, <3>4, <3>5 DEF Next, Begin, Insert, CommitWriter, AbortWriter,
         Work, vars, drain
  <2>3. Settled(c)' /\ UpTo(c)' \subseteq UpTo(c)
    BY <2>2, <1>3
  <2>4. Settled(upto[d])' /\ UpTo(upto[d])' \subseteq UpTo(c)
    BY <2>1, <2>3 DEF Settled, UpTo
  <2>5. QED
    BY <2>2, <2>4, <1>2, <1>4
<1>8. QED
  BY <1>4, <1>5, <1>6, <1>7 DEF FeedInv

LEMMA FeedAlways == Spec => [](TypeOK /\ FeedInv)
<1>1. Init => TypeOK /\ FeedInv
  BY InitType, InitFeed
<1>2. TypeOK /\ FeedInv /\ [Next]_vars => (TypeOK /\ FeedInv)'
  BY StepType, StepFeed
<1>3. QED
  BY <1>1, <1>2, PTL DEF Spec

(* The inductive part: cursors below every transaction that may still commit   *)
(* are never overtaken, and what lies before them is handled or in hand.       *)
THEOREM FeedIsSettled == Spec => []IndInv
BY FeedAlways, PTL DEF IndInv

(* Nothing a subscriber's checkpoint has passed was skipped, however late a     *)
(* transaction commits and wherever drains die or overlap                     *)
(* (PgChangeFeed.res, drain).                                                *)
THEOREM NoEventSkipped == Spec => []NothingSkipped
<1>1. FeedInv => NothingSkipped
  BY DEF FeedInv, NothingSkipped
<1>2. QED
  BY <1>1, FeedAlways, PTL

(* A cursor read behind the xmin fence is stable: rows become readable only     *)
(* behind all those readable before (PgChangeFeed.res, readBatch).             *)
THEOREM ReadersCursorsStable == Spec => CursorsAreStable
<1>1. TypeOK /\ [Next]_vars => [FencedPrefixGrows]_vars
  BY StepsOnDatabase, FencedRowsStay DEF TypeOK
<1>2. QED
  BY <1>1, TypeCorrect, PTL DEF Spec, CursorsAreStable
=============================================================================
