------------------------- MODULE DcbPostgres_proofs -------------------------
(***************************************************************************)
(* Proofs about conditional appends to the Postgres DCB log, for any writers, *)
(* queries, events, hash of the tags, lock strategy, faults and retries.      *)
(***************************************************************************)
EXTENDS DcbPostgres, FiniteSetTheorems, TLAPS

-----------------------------------------------------------------------------
(* The log as readers see it: what any step of its transactions leaves of a     *)
(* reader's cursor (as for the feeds, whose module has other variables).       *)

(* What a step does to the database: ids only grow, and only the rows of   *)
(* running and new transactions come and go.                                  *)
DatabaseStep ==
    /\ nextXid <= nextXid'
    /\ \A x \in running' \ running : x = nextXid
    /\ \A r \in rows' \ rows : r.tx \in running \cup {nextXid}
    /\ \A r \in rows \ rows' : r.tx \in running

(* A settled cursor stays settled, and the rows before it stay what they are.  *)
LEMMA SettledStays ==
    ASSUME DatabaseOK, DatabaseStep, nextXid' \in Nat, NEW c \in Cursor, Settled(c)
    PROVE  Settled(c)' /\ UpTo(c)' = UpTo(c)
<1>1. nextXid \in Int /\ running \subseteq Int /\ c.tx \in Int /\ c.pos \in Int
  BY DEF DatabaseOK, Cursor
<1>2. Settled(c)'
  <2>1. c.tx < nextXid /\ \A x \in running : c.tx < x
    BY DEF Settled
  <2>2. nextXid <= nextXid' /\ \A x \in running' : x \in running \/ x = nextXid
    BY DEF DatabaseStep
  <2>3. c.tx < nextXid'
    BY <1>1, <2>1, <2>2
  <2>4. \A x \in running' : c.tx < x
    BY <2>1, <2>2
  <2>5. QED
    BY <2>3, <2>4 DEF Settled
<1>3. ASSUME NEW r \in UpTo(c)' PROVE r \in UpTo(c)
  <2>1. r \in rows' /\ ~Precedes(c, r)
    BY DEF UpTo, Precedes
  <2>2. r \in rows
    BY <2>1, <1>1 DEF DatabaseStep, Settled, Precedes
  <2>3. QED
    BY <2>1, <2>2 DEF UpTo
<1>4. ASSUME NEW r \in UpTo(c) PROVE r \in UpTo(c)'
  <2>1. r \in rows /\ ~Precedes(c, r)
    BY DEF UpTo
  <2>2. r.tx \in Int
    BY <2>1 DEF DatabaseOK
  <2>3. r.tx \notin running
    BY <1>1, <2>1, <2>2 DEF Settled, Precedes
  <2>4. r \in rows'
    BY <2>1, <2>3 DEF DatabaseStep
  <2>5. QED
    BY <2>1, <2>4 DEF UpTo, Precedes
<1>5. QED
  BY <1>2, <1>3, <1>4
(* The last row of a page of T gives a settled cursor, which all of T up to it   *)
(* has been read behind.                                                      *)
LEMMA PageEndsSettled ==
    ASSUME DatabaseOK, NEW c \in Cursor, NEW T \in SUBSET FencedAfter(c), NEW S \in Pages(T),
           NEW last \in S, IsLast(last, S)
    PROVE  /\ CursorOf(last) \in Cursor
           /\ Settled(CursorOf(last))
           /\ UpTo(CursorOf(last)) \subseteq UpTo(c) \cup S \cup (FencedAfter(c) \ T)
           /\ UpTo(c) \subseteq UpTo(CursorOf(last))
           /\ S \subseteq Fenced /\ S \subseteq UpTo(CursorOf(last))
<1>1. S \subseteq T /\ \A r \in S, q \in T \ S : Precedes(r, q)
  BY DEF Pages, IsPage
<1>2. T \subseteq Fenced /\ Fenced \subseteq rows
  BY DEF FencedAfter, Fenced, Visible
<1>3. \A r \in rows : r.tx \in Nat /\ r.pos \in Nat /\ r.tx < nextXid
  BY DEF DatabaseOK
<1>4. last \in Fenced /\ last \in rows
  BY <1>1, <1>2
<1>5. CursorOf(last) \in Cursor /\ CursorOf(last).tx = last.tx /\ CursorOf(last).pos = last.pos
  BY <1>3, <1>4 DEF CursorOf, Cursor
<1>6. Settled(CursorOf(last))
  BY <1>3, <1>4, <1>5 DEF Settled, Fenced
<1>7. ASSUME NEW r \in UpTo(CursorOf(last)), r \notin UpTo(c)
      PROVE  r \in S \/ r \in FencedAfter(c) \ T
  <2>1. r \in rows /\ ~Precedes(CursorOf(last), r) /\ Precedes(c, r)
    BY <1>7 DEF UpTo
  <2>2. r.tx \in Int /\ last.tx \in Int /\ r.tx <= last.tx
    BY <2>1, <1>3, <1>4, <1>5 DEF Precedes
  <2>3. running \subseteq Int /\ \A x \in running : r.tx < x
    BY <2>2, <1>4 DEF Fenced, DatabaseOK
  <2>4. r \in FencedAfter(c)
    BY <2>1, <2>2, <2>3 DEF FencedAfter, Fenced, Visible
  <2>5. ~Precedes(last, r)
    BY <2>1, <1>5 DEF Precedes
  <2>6. QED
    BY <2>4, <2>5, <1>1
<1>8. ASSUME NEW r \in UpTo(c) PROVE r \in UpTo(CursorOf(last))
  <2>1. r \in rows /\ ~Precedes(c, r) /\ Precedes(c, last)
    BY <1>1 DEF UpTo, FencedAfter
  <2>2. r.tx \in Int /\ r.pos \in Int /\ c.tx \in Int /\ c.pos \in Int
        /\ last.tx \in Int /\ last.pos \in Int
    BY <2>1, <1>3, <1>4 DEF Cursor
  <2>3. ~Precedes(CursorOf(last), r)
    BY <2>1, <2>2, <1>5 DEF Precedes
  <2>4. QED
    BY <2>1, <2>3 DEF UpTo
<1>9. ASSUME NEW r \in S PROVE r \in UpTo(CursorOf(last))
  <2>1. r \in rows /\ (r = last \/ Precedes(r, last))
    BY <1>1, <1>2 DEF IsLast
  <2>2. r.tx \in Int /\ r.pos \in Int /\ last.tx \in Int /\ last.pos \in Int
    BY <2>1, <1>3, <1>4
  <2>3. ~Precedes(CursorOf(last), r)
    BY <2>1, <2>2, <1>5 DEF Precedes
  <2>4. QED
    BY <2>1, <2>3 DEF UpTo
<1>10. QED
  BY <1>1, <1>2, <1>5, <1>6, <1>7, <1>8, <1>9
-----------------------------------------------------------------------------
(* Helpers.                                                                  *)

\* The id a writer's transaction has after a write.
LEMMA WritersXid ==
    ASSUME DatabaseOK, XidsHeld, xid \in [Writers -> Nat], NEW w \in Writers, NeedXid(w)
    PROVE  /\ nextXid' \in Nat \ {0} /\ nextXid <= nextXid'
           /\ running' \subseteq 1..(nextXid' - 1)
           /\ running \subseteq running' /\ running' \subseteq running \cup {nextXid}
           /\ xid'[w] \in running' /\ xid'[w] \in Nat \ {0}
           /\ xid'[w] = (IF xid[w] = 0 THEN nextXid ELSE xid[w])
           /\ xid' \in [Writers -> Nat]
           /\ \A v \in Writers : v # w => xid'[v] = xid[v]
<1>1. nextXid \in Nat \ {0} /\ running \subseteq 1..(nextXid - 1)
  BY DEF DatabaseOK
<1>2. CASE xid[w] = 0
  <2>1. nextXid' = nextXid + 1 /\ running' = running \cup {nextXid}
        /\ xid' = [xid EXCEPT ![w] = nextXid]
    BY <1>2 DEF NeedXid, TakeXid
  <2>2. running' \subseteq 1..nextXid
    BY <1>1, <2>1
  <2>3. QED
    BY <1>1, <1>2, <2>1, <2>2
<1>3. CASE xid[w] # 0
  <2>1. UNCHANGED <<nextXid, running, xid>>
    BY <1>3 DEF NeedXid
  <2>2. xid[w] \in running
    BY <1>3 DEF XidsHeld
  <2>3. QED
    BY <1>1, <1>3, <2>1, <2>2
<1>4. QED
  BY <1>2, <1>3

\* What a rollback takes away: rows of a running transaction.
LEMMA RolledBack ==
    ASSUME DatabaseOK, XidsHeld, NEW w \in Writers, RollbackAndRetry(w)
    PROVE  /\ UNCHANGED <<nextXid, nextPos>> /\ running' = running \ {xid[w]}
           /\ rows' = {r \in rows : r.tx # xid[w]}
           /\ \A r \in rows \ rows' : r.tx = xid[w] /\ xid[w] \in running
<1>1. UNCHANGED <<nextXid, nextPos>> /\ running' = running \ {xid[w]}
      /\ rows' = {r \in rows : r.tx # xid[w]}
  BY DEF RollbackAndRetry, Rollback, EndXid
<1>2. \A r \in rows : r.tx # 0
  BY DEF DatabaseOK
<1>3. QED
  BY <1>1, <1>2 DEF XidsHeld

LEMMA InsertedRow ==
    ASSUME NEW w \in Writers, NEW x, NEW r \in NewRows(w, x)
    PROVE  /\ r.tx = x /\ r.by = w /\ r.saw = saw[w]
           /\ \E i \in DOMAIN EventsOf[w] : r.pos = nextPos + i - 1 /\ r.event = EventsOf[w][i]
BY DEF NewRows

LEMMA StepsOnDatabase ==
    ASSUME TypeOK, XidsHeld, [Next]_vars
    PROVE  DatabaseStep
<1>1. nextXid \in Nat \ {0} /\ DatabaseOK /\ xid \in [Writers -> Nat]
  BY DEF TypeOK, DatabaseOK
<1>2. ASSUME NEW w \in Writers, NeedXid(w), rows' = rows PROVE DatabaseStep
  BY <1>1, <1>2, WritersXid DEF DatabaseStep
<1>3. ASSUME UNCHANGED <<nextXid, running, rows>> PROVE DatabaseStep
  BY <1>1, <1>3 DEF DatabaseStep
<1>4. ASSUME NEW w \in Writers, RollbackAndRetry(w) PROVE DatabaseStep
  BY <1>1, <1>4, RolledBack DEF DatabaseStep
<1>5. ASSUME NEW w \in Writers, ReadPage(w) \/ CheckPasses(w) PROVE DatabaseStep
  BY <1>3, <1>5 DEF ReadPage, CheckPasses, database
<1>6. ASSUME NEW w \in Writers, NEW k \in todo[w], InsertScope(w, k) \/ AcquireLock(w, k)
      PROVE  DatabaseStep
  BY <1>2, <1>3, <1>6 DEF InsertScope, AcquireLock
<1>7. ASSUME NEW w \in Writers, Conflict(w) \/ AppendFails(w) PROVE DatabaseStep
  BY <1>4, <1>7 DEF Conflict, AppendFails
<1>8. ASSUME NEW w \in Writers, InsertEvents(w) PROVE DatabaseStep
  <2>1. NeedXid(w) /\ rows' = rows \cup NewRows(w, xid'[w])
    BY <1>8 DEF InsertEvents
  <2>2. \A r \in rows' \ rows : r.tx = xid'[w]
    BY <2>1, InsertedRow
  <2>3. xid'[w] \in running \cup {nextXid}
    BY <1>1, <2>1, WritersXid
  <2>4. QED
    BY <1>1, <2>1, <2>2, <2>3, WritersXid DEF DatabaseStep
<1>9. ASSUME NEW w \in Writers, CommitAppend(w) PROVE DatabaseStep
  BY <1>1, <1>9 DEF CommitAppend, Commit, EndXid, DatabaseStep
<1>10. CASE OtherBegins
  BY <1>1, <1>10 DEF OtherBegins, TakeXid, DatabaseStep
<1>11. ASSUME NEW x \in running, OtherEnds(x) PROVE DatabaseStep
  BY <1>1, <1>11 DEF OtherEnds, Commit, EndXid, DatabaseStep
<1>12. CASE UNCHANGED vars
  BY <1>3, <1>12 DEF vars, database
<1>13. QED
  BY <1>5, <1>6, <1>7, <1>8, <1>9, <1>10, <1>11, <1>12 DEF Next, Step
-----------------------------------------------------------------------------
(* Types.                                                                    *)

LEMMA WriterTypes ==
    /\ QueryOf \in [Writers -> Query] /\ EventsOf \in [Writers -> Seq(Event) \ {<<>>}]
    /\ Conditional \subseteq Writers /\ Free \notin Writers
    /\ \A w \in Writers : LockKeys(w) \subseteq AllKeys
BY WritersAppend DEF AllKeys

LEMMA DecidedEvents ==
    ASSUME NEW w \in Writers
    PROVE  /\ Len(EventsOf[w]) \in Nat /\ DOMAIN EventsOf[w] = 1..Len(EventsOf[w])
           /\ \A i \in DOMAIN EventsOf[w] : EventsOf[w][i] \in Event
<1>1. EventsOf[w] \in Seq(Event)
  BY WriterTypes
<1>2. QED
  BY <1>1

LEMMA CursorsType ==
    ASSUME rows \subseteq Row, NEW w, NEW S \in SUBSET rows
    PROVE  Cursors(Matching(w, S)) \in SUBSET Cursor /\ Cursors(S) \in SUBSET Cursor
<1>1. \A r \in S : CursorOf(r) \in Cursor
  BY DEF CursorOf, Cursor, Row
<1>2. QED
  BY <1>1 DEF Cursors, Matching

LEMMA InitType == Init => TypeOK /\ XidsHeld
<1>1. NoCursor \in Cursor
  BY DEF NoCursor, Cursor
<1>2. SUFFICES ASSUME Init PROVE TypeOK /\ XidsHeld
  OBVIOUS
<1>3. DatabaseOK
  BY <1>2 DEF Init, DatabaseInit, DatabaseOK
<1>4. TypeOK
  BY <1>1, <1>2, <1>3, BoundsAreNaturals DEF Init, DatabaseInit, TypeOK
<1>5. XidsHeld
  BY <1>2 DEF Init, XidsHeld
<1>6. QED
  BY <1>4, <1>5

LEMMA RetryType ==
    ASSUME TypeOK, XidsHeld, NEW w \in Writers, RollbackAndRetry(w), faults' \in 0..MaxFaults
    PROVE  TypeOK'
<1>1. DatabaseOK' /\ rows' \subseteq Row
  BY RolledBack DEF TypeOK, DatabaseOK
<1>2. lock' \in [AllKeys -> Writers \cup {Free}] /\ scope' \subseteq AllKeys
  BY DEF RollbackAndRetry, Release, TypeOK
<1>3. /\ saw' \in [Writers -> SUBSET Cursor] /\ after' \in [Writers -> Cursor]
      /\ missed' \in [Writers -> SUBSET Cursor]
      /\ xid' \in [Writers -> Nat] /\ todo' \in [Writers -> SUBSET AllKeys]
  BY DEF RollbackAndRetry, TypeOK
<1>4. /\ pc' \in [Writers ->
                 {"read", "scope", "lock", "check", "insert", "commit", "done", "failed"}]
      /\ retries' \in [Writers -> 0..MaxRetries]
  BY BoundsAreNaturals DEF RollbackAndRetry, MayRetry, TypeOK
<1>5. QED
  BY <1>1, <1>2, <1>3, <1>4 DEF TypeOK

LEMMA StepType ==
    ASSUME TypeOK, XidsHeld, [Next]_vars
    PROVE  TypeOK'
<1> USE DEF TypeOK
<1>1. DatabaseOK /\ rows \subseteq Row /\ xid \in [Writers -> Nat]
  OBVIOUS
<1>2. nextXid \in Nat \ {0} /\ nextPos \in Nat \ {0} /\ running \subseteq 1..(nextXid - 1)
  BY DEF DatabaseOK
<1>3. ASSUME UNCHANGED database PROVE DatabaseOK'
  BY <1>3 DEF DatabaseOK, database
<1>4. ASSUME NEW w \in Writers, NeedXid(w), UNCHANGED <<rows, nextPos>>
      PROVE  DatabaseOK' /\ xid' \in [Writers -> Nat]
  <2>1. nextXid' \in Nat \ {0} /\ nextXid <= nextXid' /\ running' \subseteq 1..(nextXid' - 1)
        /\ xid' \in [Writers -> Nat]
    BY <1>1, <1>4, WritersXid
  <2>2. \A r \in rows : r.tx \in 1..(nextXid' - 1)
    BY <1>2, <2>1 DEF DatabaseOK
  <2>3. QED
    BY <1>4, <2>1, <2>2 DEF DatabaseOK
<1>5. ASSUME NEW w \in Writers, ReadPage(w) PROVE TypeOK'
  <2>1. UNCHANGED <<database, lock, scope, xid, retries, faults>>
    BY <1>5 DEF ReadPage
  <2>2. PICK S \in Pages(Matching(w, FencedAfter(after[w]))) :
          /\ saw' = [saw EXCEPT ![w] = @ \cup Cursors(S)]
          /\ missed' = [missed EXCEPT ![w] = Cursors(Matching(w, Visible \ Fenced))]
          /\ \/ S = {} /\ UNCHANGED after
             \/ \E last \in S :
                   IsLast(last, S) /\ after' = [after EXCEPT ![w] = CursorOf(last)]
          /\ \/ FullPage(S) /\ UNCHANGED <<pc, todo>>
             \/ /\ ~FullPage(S)
                /\ pc' = [pc EXCEPT ![w] = FirstStep(w)]
                /\ todo' = [todo EXCEPT ![w] = LockKeys(w)]
    BY <1>5 DEF ReadPage
  <2>3. S \in SUBSET rows /\ Visible \ Fenced \in SUBSET rows
    BY DEF Pages, Matching, FencedAfter, Fenced, Visible
  <2>4. Cursors(S) \in SUBSET Cursor /\ Cursors(Matching(w, Visible \ Fenced)) \in SUBSET Cursor
    BY <1>1, <2>3, CursorsType
  <2>5. saw' \in [Writers -> SUBSET Cursor] /\ missed' \in [Writers -> SUBSET Cursor]
    BY <2>2, <2>4
  <2>6. \A r \in S : CursorOf(r) \in Cursor
    BY <2>4 DEF Cursors
  <2>7. after' \in [Writers -> Cursor]
    BY <2>2, <2>6
  <2>8. FirstStep(w) \in {"check", "scope", "lock"}
    BY DEF FirstStep
  <2>9. pc' \in [Writers ->
                 {"read", "scope", "lock", "check", "insert", "commit", "done", "failed"}]
    BY <2>2, <2>8
  <2>10. LockKeys(w) \in SUBSET AllKeys
    BY WriterTypes
  <2>11. todo' \in [Writers -> SUBSET AllKeys]
    BY <2>2, <2>10
  <2>12. QED
    BY <1>3, <2>1, <2>5, <2>7, <2>9, <2>11 DEF database
<1>6. ASSUME NEW w \in Writers, NEW k \in todo[w], InsertScope(w, k) PROVE TypeOK'
  <2>1. DatabaseOK' /\ xid' \in [Writers -> Nat]
    BY <1>1, <1>3, <1>4, <1>6 DEF InsertScope, database
  <2>2. pc' \in [Writers ->
                 {"read", "scope", "lock", "check", "insert", "commit", "done", "failed"}]
        /\ todo' \in [Writers -> SUBSET AllKeys]
    <3>1. LockKeys(w) \in SUBSET AllKeys /\ todo[w] \ {k} \in SUBSET AllKeys
      BY WriterTypes
    <3>2. QED
      BY <1>6, <3>1 DEF InsertScope
  <2>3. lock' \in [AllKeys -> Writers \cup {Free}]
    BY <1>6 DEF InsertScope
  <2>4. QED
    BY <1>6, <2>1, <2>2, <2>3 DEF InsertScope
<1>7. ASSUME NEW w \in Writers, NEW k \in todo[w], AcquireLock(w, k) PROVE TypeOK'
  <2>1. DatabaseOK' /\ xid' \in [Writers -> Nat]
    BY <1>1, <1>3, <1>4, <1>7 DEF AcquireLock, database
  <2>2. pc' \in [Writers ->
                 {"read", "scope", "lock", "check", "insert", "commit", "done", "failed"}]
        /\ todo' \in [Writers -> SUBSET AllKeys]
    BY <1>7 DEF AcquireLock
  <2>3. lock' \in [AllKeys -> Writers \cup {Free}]
    BY <1>7 DEF AcquireLock
  <2>4. QED
    BY <1>7, <2>1, <2>2, <2>3 DEF AcquireLock
<1>8. ASSUME NEW w \in Writers, CheckPasses(w) PROVE TypeOK'
  BY <1>3, <1>8 DEF CheckPasses, database
<1>9. ASSUME NEW w \in Writers, Conflict(w) \/ AppendFails(w) PROVE TypeOK'
  <2>1. RollbackAndRetry(w) /\ faults' \in 0..MaxFaults
    BY <1>9, BoundsAreNaturals DEF Conflict, AppendFails, Fault
  <2>2. QED
    BY <2>1, RetryType
<1>10. ASSUME NEW w \in Writers, InsertEvents(w) PROVE TypeOK'
  <2>1. NeedXid(w) /\ rows' = rows \cup NewRows(w, xid'[w]) /\ nextPos' = nextPos + Len(EventsOf[w])
    BY <1>10 DEF InsertEvents
  <2>2. nextXid' \in Nat \ {0} /\ nextXid <= nextXid' /\ running' \subseteq 1..(nextXid' - 1)
        /\ xid' \in [Writers -> Nat] /\ xid'[w] \in 1..(nextXid' - 1)
    BY <1>1, <2>1, WritersXid
  <2>3. nextPos' \in Nat \ {0} /\ nextPos <= nextPos'
    BY <1>2, <2>1, DecidedEvents
  <2>4. ASSUME NEW r \in NewRows(w, xid'[w])
        PROVE  r \in Row /\ r.tx = xid'[w] /\ r.pos \in nextPos..(nextPos' - 1)
    <3>1. PICK i \in DOMAIN EventsOf[w] :
            r = [tx |-> xid'[w], pos |-> nextPos + i - 1, event |-> EventsOf[w][i],
                 by |-> w, saw |-> saw[w]]
      BY DEF NewRows
    <3>2. i \in 1..Len(EventsOf[w]) /\ Len(EventsOf[w]) \in Nat /\ EventsOf[w][i] \in Event
      BY DecidedEvents
    <3>3. nextPos + i - 1 \in nextPos..(nextPos' - 1)
      BY <1>2, <2>1, <3>2
    <3>4. xid'[w] \in Nat /\ nextPos + i - 1 \in Nat /\ saw[w] \in SUBSET Cursor
      BY <1>2, <2>2, <3>2
    <3>5. QED
      BY <3>1, <3>2, <3>3, <3>4 DEF Row
  <2>5. \A r, q \in NewRows(w, xid'[w]) : r.pos = q.pos => r = q
    BY <1>2, DecidedEvents DEF NewRows
  <2>6. \A r \in rows : r.tx \in 1..(nextXid - 1) /\ r.pos \in 1..(nextPos - 1)
    BY DEF DatabaseOK
  <2>7. \A r \in rows' : r.tx \in 1..(nextXid' - 1) /\ r.pos \in 1..(nextPos' - 1)
    <3>1. ASSUME NEW r \in rows PROVE r.tx \in 1..(nextXid' - 1) /\ r.pos \in 1..(nextPos' - 1)
      <4>1. r.tx \in 1..(nextXid - 1) /\ r.pos \in 1..(nextPos - 1)
        BY <2>6
      <4>2. QED
        BY <1>2, <2>2, <2>3, <4>1
    <3>2. ASSUME NEW r \in NewRows(w, xid'[w])
          PROVE  r.tx \in 1..(nextXid' - 1) /\ r.pos \in 1..(nextPos' - 1)
      <4>1. r.tx = xid'[w] /\ r.pos \in nextPos..(nextPos' - 1)
        BY <2>4
      <4>2. QED
        BY <1>2, <2>2, <2>3, <4>1
    <3>3. QED
      BY <2>1, <3>1, <3>2
  <2>8. \A r, q \in rows' : r.pos = q.pos => r = q
    <3>1. \A r \in rows, q \in NewRows(w, xid'[w]) : r.pos # q.pos
      BY <1>2, <2>3, <2>4, <2>6
    <3>2. QED
      BY <2>1, <2>5, <3>1 DEF DatabaseOK
  <2>9. DatabaseOK'
    BY <2>2, <2>3, <2>7, <2>8 DEF DatabaseOK
  <2>10. rows' \subseteq Row
    BY <2>1, <2>4
  <2>11. QED
    BY <1>10, <2>2, <2>9, <2>10 DEF InsertEvents
<1>11. ASSUME NEW w \in Writers, CommitAppend(w) PROVE TypeOK'
  <2>1. DatabaseOK' /\ rows' = rows
    BY <1>11 DEF CommitAppend, Commit, EndXid, DatabaseOK
  <2>2. lock' \in [AllKeys -> Writers \cup {Free}] /\ scope' \subseteq AllKeys
    BY <1>11, WriterTypes DEF CommitAppend, Release
  <2>3. QED
    BY <1>11, <2>1, <2>2 DEF CommitAppend
<1>12. CASE OtherBegins
  <2>1. DatabaseOK'
    BY <1>2, <1>12 DEF OtherBegins, TakeXid, DatabaseOK
  <2>2. QED
    BY <1>12, <2>1 DEF OtherBegins, writers
<1>13. ASSUME NEW x \in running, OtherEnds(x) PROVE TypeOK'
  <2>1. DatabaseOK' /\ rows' = rows
    BY <1>13 DEF OtherEnds, Commit, EndXid, DatabaseOK
  <2>2. QED
    BY <1>13, <2>1 DEF OtherEnds, writers
<1>14. CASE UNCHANGED vars
  BY <1>3, <1>14 DEF vars, database, writers
<1>15. QED
  BY <1>5, <1>6, <1>7, <1>8, <1>9, <1>10, <1>11, <1>12, <1>13, <1>14 DEF Next, Step

LEMMA XidStep ==
    ASSUME TypeOK, XidsHeld, [Next]_vars
    PROVE  XidsHeld'
<1>1. DatabaseOK /\ xid \in [Writers -> Nat] /\ pc \in [Writers ->
                 {"read", "scope", "lock", "check", "insert", "commit", "done", "failed"}]
  BY DEF TypeOK
<1>2. nextXid \in Nat \ {0} /\ running \subseteq 1..(nextXid - 1) /\ nextXid \notin running
  BY <1>1 DEF DatabaseOK
<1>3. ASSUME NEW w \in Writers, ReadPage(w) PROVE XidsHeld'
  <2>1. UNCHANGED <<nextXid, running, xid>> /\ pc[w] = "read"
        /\ \E p \in {"read", "check", "scope", "lock"} :
              pc' = [pc EXCEPT ![w] = p] /\ (p = "scope" => Strategy = "rows")
    BY <1>1, <1>3 DEF ReadPage, FirstStep, database
  <2>2. QED
    BY <1>1, <2>1 DEF XidsHeld
<1>4. ASSUME NEW w \in Writers, pc[w] \in {"scope", "lock", "insert"}, NeedXid(w),
             NEW p \in {"scope", "lock", "check", "commit"}, pc' = [pc EXCEPT ![w] = p],
             p = "commit" \/ Strategy = "rows"
      PROVE  XidsHeld'
  <2>1. xid' \in [Writers -> Nat] /\ xid'[w] \in running' /\ running \subseteq running'
        /\ xid'[w] # 0 /\ \A v \in Writers : v # w => xid'[v] = xid[v]
    BY <1>1, <1>4, WritersXid
  <2>2. \A v \in Writers : xid'[v] = xid'[w] => v = w
    BY <1>1, <1>2, <1>4, <2>1, WritersXid DEF XidsHeld
  <2>3. \A v \in Writers : v # w => pc'[v] = pc[v]
    BY <1>1, <1>4
  <2>4. pc'[w] = p
    BY <1>1, <1>4
  <2>5. \A v \in Writers : xid'[v] # 0 =>
            xid'[v] \in running' /\ pc'[v] \in {"scope", "lock", "check", "insert", "commit"}
    BY <2>1, <2>3, <2>4 DEF XidsHeld
  <2>6. \A v, u \in Writers : xid'[v] # 0 /\ xid'[u] = xid'[v] => u = v
    BY <2>1, <2>2 DEF XidsHeld
  <2>7. \A v \in Writers : /\ pc'[v] = "commit" => xid'[v] # 0
                           /\ xid'[v] # 0 => pc'[v] = "commit" \/ Strategy = "rows"
                           /\ pc'[v] = "scope" => Strategy = "rows"
    BY <1>4, <2>1, <2>3, <2>4 DEF XidsHeld
  <2>8. QED
    BY <2>5, <2>6, <2>7 DEF XidsHeld
<1>5. ASSUME NEW w \in Writers, NEW k \in todo[w], InsertScope(w, k) PROVE XidsHeld'
  <2>1. PICK p \in {"scope", "lock"} : pc' = [pc EXCEPT ![w] = p]
    BY <1>1, <1>5 DEF InsertScope
  <2>2. pc[w] = "scope" /\ Strategy = "rows"
    BY <1>5 DEF InsertScope, XidsHeld
  <2>3. CASE UNCHANGED <<nextXid, running, xid>>
    BY <1>1, <2>1, <2>2, <2>3 DEF XidsHeld
  <2>4. CASE NeedXid(w)
    BY <1>4, <2>1, <2>2, <2>4
  <2>5. QED
    BY <1>5, <2>3, <2>4 DEF InsertScope
<1>6. ASSUME NEW w \in Writers, NEW k \in todo[w], AcquireLock(w, k) PROVE XidsHeld'
  <2>1. PICK p \in {"check", "lock"} : pc' = [pc EXCEPT ![w] = p]
    BY <1>1, <1>6 DEF AcquireLock
  <2>2. pc[w] = "lock"
    BY <1>6 DEF AcquireLock
  <2>3. CASE UNCHANGED <<nextXid, running, xid>>
    BY <1>1, <2>1, <2>2, <2>3 DEF XidsHeld
  <2>4. CASE Strategy = "rows" /\ NeedXid(w)
    BY <1>4, <2>1, <2>2, <2>4
  <2>5. QED
    BY <1>6, <2>3, <2>4 DEF AcquireLock
<1>7. ASSUME NEW w \in Writers, CheckPasses(w) PROVE XidsHeld'
  BY <1>1, <1>7 DEF XidsHeld, CheckPasses, database
<1>8. ASSUME NEW w \in Writers, Conflict(w) \/ AppendFails(w) PROVE XidsHeld'
  <2>1. RollbackAndRetry(w)
    BY <1>8 DEF Conflict, AppendFails
  <2>2. running' = running \ {xid[w]} /\ xid' = [xid EXCEPT ![w] = 0]
        /\ \E p \in {"read", "failed"} : pc' = [pc EXCEPT ![w] = p]
    BY <2>1 DEF RollbackAndRetry, Rollback, EndXid
  <2>3. QED
    BY <1>1, <2>2 DEF XidsHeld
<1>9. ASSUME NEW w \in Writers, InsertEvents(w) PROVE XidsHeld'
  BY <1>4, <1>9 DEF InsertEvents
<1>10. ASSUME NEW w \in Writers, CommitAppend(w) PROVE XidsHeld'
  <2>1. running' = running \ {xid[w]} /\ xid' = [xid EXCEPT ![w] = 0]
        /\ pc' = [pc EXCEPT ![w] = "done"]
    BY <1>10 DEF CommitAppend, Commit, EndXid
  <2>2. QED
    BY <1>1, <2>1 DEF XidsHeld
<1>11. CASE OtherBegins
  BY <1>1, <1>2, <1>11 DEF XidsHeld, OtherBegins, TakeXid, writers
<1>12. ASSUME NEW x \in running, OtherEnds(x) PROVE XidsHeld'
  BY <1>1, <1>12 DEF XidsHeld, OtherEnds, Commit, EndXid, writers
<1>13. CASE UNCHANGED vars
  BY <1>13 DEF XidsHeld, vars, database, writers
<1>14. QED
  BY <1>3, <1>5, <1>6, <1>7, <1>8, <1>9, <1>10, <1>11, <1>12, <1>13 DEF Next, Step

(* Every variable keeps its type, and no two rows have one position           *)
(* (PgSchema.res, IDENTITY and transaction ids).                              *)
THEOREM TypeCorrect == Spec => []TypeOK
<1>1. TypeOK /\ XidsHeld /\ [Next]_vars => TypeOK' /\ XidsHeld'
  BY StepType, XidStep
<1>2. QED
  BY InitType, <1>1, PTL DEF Spec
-----------------------------------------------------------------------------
(* Locks and rows.                                                           *)

\* A writer that takes or gives up keys leaves those of the others alone.
LEMMA LocksStep ==
    ASSUME TypeOK, LocksHeld, [Next]_vars
    PROVE  LocksHeld'
<1>1. /\ lock \in [AllKeys -> Writers \cup {Free}]
      /\ pc \in [Writers -> {"read", "scope", "lock", "check", "insert", "commit", "done", "failed"}]
      /\ todo \in [Writers -> SUBSET AllKeys]
  BY DEF TypeOK
<1>2. Free \notin Writers /\ \A w \in Writers : LockKeys(w) \subseteq AllKeys
  BY WriterTypes
<1>3. ASSUME NEW w \in Writers, ReadPage(w) PROVE LocksHeld'
  <2>1. lock' = lock /\ pc[w] = "read"
    BY <1>3 DEF ReadPage
  <2>2. \/ UNCHANGED <<pc, todo>>
        \/ pc' = [pc EXCEPT ![w] = FirstStep(w)] /\ todo' = [todo EXCEPT ![w] = LockKeys(w)]
    BY <1>3 DEF ReadPage
  <2>3. FirstStep(w) \in {"scope", "lock"} \/ (FirstStep(w) = "check" /\ LockKeys(w) = {})
    BY DEF FirstStep
  <2>4. QED
    BY <1>1, <2>1, <2>2, <2>3 DEF LocksHeld
<1>4. ASSUME NEW w \in Writers, NEW k \in todo[w], InsertScope(w, k) PROVE LocksHeld'
  <2>1. pc[w] = "scope" /\ k \in AllKeys
        /\ (lock' = lock \/ (lock[k] = Free /\ lock' = [lock EXCEPT ![k] = w]))
    BY <1>1, <1>4 DEF InsertScope
  <2>2. \/ pc' = [pc EXCEPT ![w] = "lock"] /\ todo' = [todo EXCEPT ![w] = LockKeys(w)]
        \/ pc' = pc /\ todo' = [todo EXCEPT ![w] = @ \ {k}]
    BY <1>4 DEF InsertScope
  <2>3. \A v \in Writers, j \in AllKeys : lock[j] = v => lock'[j] = v
    BY <1>1, <1>2, <2>1
  <2>4. QED
    BY <1>1, <1>2, <2>1, <2>2, <2>3 DEF LocksHeld
<1>5. ASSUME NEW w \in Writers, NEW k \in todo[w], AcquireLock(w, k) PROVE LocksHeld'
  <2>1. pc[w] = "lock" /\ k \in AllKeys
        /\ lock[k] \in {Free, w} /\ lock' = [lock EXCEPT ![k] = w]
        /\ todo' = [todo EXCEPT ![w] = @ \ {k}]
        /\ pc' = [pc EXCEPT ![w] = IF todo[w] = {k} THEN "check" ELSE "lock"]
    BY <1>1, <1>5 DEF AcquireLock
  <2>2. lock'[k] = w /\ \A v \in Writers, j \in AllKeys : lock[j] = v => lock'[j] = v
    BY <1>1, <1>2, <2>1
  <2>3. \A j \in LockKeys(w) \ todo'[w] : lock'[j] = w
    BY <1>1, <1>2, <2>1, <2>2 DEF LocksHeld
  <2>4. pc'[w] = "check" => todo'[w] = {}
    BY <1>1, <2>1
  <2>5. \A v \in Writers : v # w => pc'[v] = pc[v] /\ todo'[v] = todo[v]
    BY <1>1, <2>1
  <2>6. pc'[w] \in {"check", "lock"}
    BY <1>1, <2>1
  <2>7. QED
    BY <1>2, <2>2, <2>3, <2>4, <2>5, <2>6 DEF LocksHeld
<1>6. ASSUME NEW w \in Writers, Release(w), NEW p \in {"read", "failed", "done"},
             pc' = [pc EXCEPT ![w] = p], \A v \in Writers : v # w => todo'[v] = todo[v]
      PROVE  LocksHeld'
  <2>1. \A v \in Writers, j \in AllKeys : v # w /\ lock[j] = v => lock'[j] = v
    BY <1>6 DEF Release
  <2>2. pc'[w] = p /\ \A v \in Writers : v # w => pc'[v] = pc[v]
    BY <1>1, <1>6
  <2>3. QED
    BY <1>2, <1>6, <2>1, <2>2 DEF LocksHeld
<1>7. ASSUME NEW w \in Writers, Conflict(w) \/ AppendFails(w) PROVE LocksHeld'
  <2>1. RollbackAndRetry(w)
    BY <1>7 DEF Conflict, AppendFails
  <2>2. /\ Release(w) /\ todo' = [todo EXCEPT ![w] = {}]
        /\ \E p \in {"read", "failed"} : pc' = [pc EXCEPT ![w] = p]
    BY <2>1 DEF RollbackAndRetry
  <2>3. QED
    BY <1>1, <1>6, <2>2
<1>8. ASSUME NEW w \in Writers, CommitAppend(w) PROVE LocksHeld'
  BY <1>6, <1>8 DEF CommitAppend
<1>9. ASSUME NEW w \in Writers, CheckPasses(w) \/ InsertEvents(w) PROVE LocksHeld'
  BY <1>1, <1>9 DEF CheckPasses, InsertEvents, LocksHeld
<1>10. CASE OtherBegins \/ (\E x \in running : OtherEnds(x)) \/ UNCHANGED vars
  BY <1>10 DEF OtherBegins, OtherEnds, vars, writers, LocksHeld
<1>11. QED
  BY <1>3, <1>4, <1>5, <1>7, <1>8, <1>9, <1>10 DEF Next, Step

\* Lock keys are numbers.
LEMMA KeysAreNumbers == AllKeys \subseteq Nat
<1>1. SUFFICES ASSUME NEW w \in Writers, NEW t \in TagsOf(w) PROVE Hash(t) \in Nat
  BY DEF AllKeys, LockKeys
<1>2. \A i \in DOMAIN EventsOf[w] : EventsOf[w][i].tags \subseteq Tag
  BY DecidedEvents DEF Event
<1>3. \A clause \in QueryOf[w] : clause.tags \subseteq Tag
  BY WriterTypes DEF Query, Clause
<1>4. t \in Tag
  BY <1>1, <1>2, <1>3 DEF TagsOf
<1>5. QED
  BY <1>4, HashIsNumber

\* What a writer does with its own keys leaves the order of the others' alone.
LEMMA KeysOfOthers ==
    ASSUME NEW v \in Writers, KeysOf(v), pc'[v] = pc[v], todo'[v] = todo[v],
           \A k \in AllKeys : lock'[k] = v <=> lock[k] = v,
           scope \subseteq scope', \A k \in scope' \ scope : lock[k] # v
    PROVE  KeysOf(v)'
<1>1. LockKeys(v) \subseteq AllKeys /\ LockKeys(v)' = LockKeys(v) /\ AllKeys' = AllKeys
  BY WriterTypes DEF LockKeys, AllKeys, TagsOf
<1>2. QED
  BY <1>1 DEF KeysOf

LEMMA KeysStep ==
    ASSUME TypeOK, LocksHeld, XidsHeld, KeysInOrder, [Next]_vars
    PROVE  KeysInOrder'
<1>1. /\ lock \in [AllKeys -> Writers \cup {Free}] /\ scope \subseteq AllKeys
      /\ pc \in [Writers -> {"read", "scope", "lock", "check", "insert", "commit", "done", "failed"}]
      /\ todo \in [Writers -> SUBSET AllKeys]
  BY DEF TypeOK
<1>2. /\ Free \notin Writers /\ AllKeys \subseteq Nat
      /\ \A w \in Writers : LockKeys(w) \subseteq AllKeys /\ KeysOf(w)
  BY WriterTypes, KeysAreNumbers DEF KeysInOrder
<1>3. \A w : LockKeys(w)' = LockKeys(w) /\ AllKeys' = AllKeys
  BY DEF LockKeys, AllKeys, TagsOf
<1>4. ASSUME NEW w \in Writers, KeysOf(w)',
             \A v \in Writers \ {w} : pc'[v] = pc[v] /\ todo'[v] = todo[v],
             \A v \in Writers \ {w}, k \in AllKeys : lock'[k] = v <=> lock[k] = v,
             scope' = scope
      PROVE  KeysInOrder'
  <2>1. \A v \in Writers \ {w} : KeysOf(v)'
    BY <1>2, <1>4, KeysOfOthers
  <2>2. QED
    BY <1>4, <2>1 DEF KeysInOrder
<1>5. ASSUME NEW w \in Writers, ReadPage(w) PROVE KeysInOrder'
  <2>1. UNCHANGED <<lock, scope>> /\ pc[w] = "read"
    BY <1>5 DEF ReadPage
  <2>2. \/ UNCHANGED <<pc, todo>>
        \/ pc' = [pc EXCEPT ![w] = FirstStep(w)] /\ todo' = [todo EXCEPT ![w] = LockKeys(w)]
    BY <1>5 DEF ReadPage
  <2>3. /\ FirstStep(w) \in {"scope", "lock", "check"}
        /\ FirstStep(w) = "lock" => Strategy # "rows"
    BY DEF FirstStep
  <2>4. \A k \in AllKeys : lock[k] # w
    BY <1>2, <2>1 DEF KeysOf
  <2>5. KeysOf(w)'
    <3>1. CASE UNCHANGED <<pc, todo>>
      BY <1>2, <1>3, <2>1, <3>1 DEF KeysOf
    <3>2. CASE pc' = [pc EXCEPT ![w] = FirstStep(w)] /\ todo' = [todo EXCEPT ![w] = LockKeys(w)]
      <4>1. pc'[w] = FirstStep(w) /\ todo'[w] = LockKeys(w)
        BY <1>1, <3>2
      <4>2. /\ \A k \in AllKeys : lock'[k] # w
            /\ \A j : j \notin LockKeys(w) \ todo'[w]
            /\ todo'[w] \subseteq AllKeys
        BY <1>2, <2>1, <2>4, <4>1
      <4>3. pc'[w] \in {"scope", "lock", "check"} /\ (pc'[w] = "lock" => Strategy # "rows")
        BY <2>3, <4>1
      <4>4. LockKeys(w)' = LockKeys(w) /\ AllKeys' = AllKeys
        BY <1>3
      <4>5. QED
        BY <4>1, <4>2, <4>3, <4>4 DEF KeysOf
    <3>3. QED
      BY <2>2, <3>1, <3>2
  <2>6. QED
    BY <1>1, <1>4, <2>1, <2>2, <2>5
<1>6. ASSUME NEW w \in Writers, NEW k \in todo[w], InsertScope(w, k) PROVE KeysInOrder'
  <2>1. /\ pc[w] = "scope" /\ IsNext(w, k) /\ k \in AllKeys /\ scope' = scope
        /\ \/ k \in scope /\ lock' = lock
           \/ k \notin scope /\ lock[k] = Free /\ lock' = [lock EXCEPT ![k] = w]
    BY <1>1, <1>6 DEF InsertScope
  <2>2. \/ pc' = [pc EXCEPT ![w] = "lock"] /\ todo' = [todo EXCEPT ![w] = LockKeys(w)]
           /\ todo[w] = {k}
        \/ pc' = pc /\ todo' = [todo EXCEPT ![w] = @ \ {k}]
    BY <1>6 DEF InsertScope
  <2>3. /\ \A v \in Writers \ {w}, j \in AllKeys : lock'[j] = v <=> lock[j] = v
        /\ \A j \in AllKeys : lock'[j] = w <=> lock[j] = w \/ (j = k /\ k \notin scope)
    BY <1>1, <1>2, <2>1 DEF KeysOf
  <2>4. /\ todo[w] \subseteq LockKeys(w) /\ k \in LockKeys(w)
        /\ \A j \in LockKeys(w) \ todo[w], i \in todo[w] : j < i
        /\ \A i \in LockKeys(w) \ todo[w] : i \in scope \/ lock[i] = w
        /\ \A i \in AllKeys : lock[i] = w => i \in LockKeys(w) /\ i \notin scope /\ i \notin todo[w]
    BY <1>2, <2>1 DEF KeysOf
  <2>5. \A i \in todo[w] \ {k} : k < i
    BY <1>1, <1>2, <2>1 DEF IsNext
  <2>6. KeysOf(w)'
    <3>1. CASE /\ pc' = [pc EXCEPT ![w] = "lock"] /\ todo' = [todo EXCEPT ![w] = LockKeys(w)]
               /\ todo[w] = {k}
      <4>1. pc'[w] = "lock" /\ todo'[w] = LockKeys(w) /\ Strategy = "rows"
        BY <1>1, <2>1, <3>1 DEF XidsHeld
      <4>2. \A i \in LockKeys(w) : i \in scope \/ lock'[i] = w
        BY <1>2, <2>3, <2>4, <3>1
      <4>3. \A i \in AllKeys : lock'[i] = w => i \in LockKeys(w) /\ i \notin scope
        BY <2>3, <2>4
      <4>4. LockKeys(w)' = LockKeys(w) /\ AllKeys' = AllKeys /\ LockKeys(w) \subseteq AllKeys
        BY <1>2, <1>3
      <4>5. \A j : j \notin LockKeys(w) \ todo'[w]
        BY <4>1
      <4>6. QED
        BY <2>1, <4>1, <4>2, <4>3, <4>4, <4>5 DEF KeysOf
    <3>2. CASE pc' = pc /\ todo' = [todo EXCEPT ![w] = @ \ {k}]
      <4>1. pc'[w] = "scope" /\ todo'[w] = todo[w] \ {k}
        BY <1>1, <2>1, <3>2
      <4>2. \A j \in LockKeys(w) \ todo'[w], i \in todo'[w] : j < i
        BY <2>4, <2>5, <4>1
      <4>3. \A i \in LockKeys(w) \ todo'[w] : i \in scope \/ lock'[i] = w
        BY <1>2, <2>3, <2>4, <4>1
      <4>4. \A i \in AllKeys : lock'[i] = w => i \in LockKeys(w) /\ i \notin scope /\ i \notin todo'[w]
        BY <2>3, <2>4, <4>1
      <4>5. todo'[w] \subseteq LockKeys(w)
        BY <2>4, <4>1
      <4>6. QED
        BY <1>2, <1>3, <2>1, <4>1, <4>2, <4>3, <4>4, <4>5 DEF KeysOf
    <3>3. QED
      BY <2>2, <3>1, <3>2
  <2>7. QED
    BY <1>1, <1>4, <2>1, <2>2, <2>3, <2>6
<1>7. ASSUME NEW w \in Writers, NEW k \in todo[w], AcquireLock(w, k) PROVE KeysInOrder'
  <2>1. /\ pc[w] = "lock" /\ IsNext(w, k) /\ k \in AllKeys /\ scope' = scope
        /\ lock[k] \in {Free, w} /\ lock' = [lock EXCEPT ![k] = w]
        /\ todo' = [todo EXCEPT ![w] = @ \ {k}]
        /\ pc' = [pc EXCEPT ![w] = IF todo[w] = {k} THEN "check" ELSE "lock"]
    BY <1>1, <1>7 DEF AcquireLock
  <2>2. /\ \A v \in Writers \ {w}, j \in AllKeys : lock'[j] = v <=> lock[j] = v
        /\ \A j \in AllKeys : lock'[j] = w <=> lock[j] = w \/ j = k
    BY <1>1, <1>2, <2>1
  <2>3. /\ todo[w] \subseteq LockKeys(w) /\ k \in LockKeys(w)
        /\ \A j \in LockKeys(w) \ todo[w], i \in todo[w] : j < i
        /\ Strategy = "rows" => \A i \in LockKeys(w) : i \in scope \/ lock[i] = w
        /\ \A i \in todo[w] : lock[i] = w => Strategy = "rows" /\ i \notin scope
        /\ \A i \in AllKeys : lock[i] = w => i \in LockKeys(w)
    BY <1>2, <2>1 DEF KeysOf
  <2>4. \A i \in todo[w] \ {k} : k < i
    BY <1>1, <1>2, <2>1 DEF IsNext
  <2>5. pc'[w] \in {"lock", "check"} /\ todo'[w] = todo[w] \ {k}
    BY <1>1, <2>1
  <2>6. \A j \in LockKeys(w) \ todo'[w], i \in todo'[w] : j < i
    BY <2>3, <2>4, <2>5
  <2>7. \A i \in todo'[w] : lock'[i] = w => Strategy = "rows" /\ i \notin scope
    BY <1>1, <2>2, <2>3, <2>5
  <2>8. Strategy = "rows" => \A i \in LockKeys(w) : i \in scope \/ lock'[i] = w
    BY <1>2, <2>2, <2>3
  <2>9. \A i \in AllKeys : lock'[i] = w => i \in LockKeys(w)
    BY <2>2, <2>3
  <2>10. KeysOf(w)'
    BY <1>3, <2>1, <2>3, <2>5, <2>6, <2>7, <2>8, <2>9 DEF KeysOf
  <2>11. QED
    BY <1>1, <1>4, <2>1, <2>2, <2>10
<1>8. ASSUME NEW w \in Writers, Release(w), NEW p \in {"read", "failed", "done"},
             pc' = [pc EXCEPT ![w] = p], \A v \in Writers : v # w => todo'[v] = todo[v],
             scope \subseteq scope', \A k \in scope' \ scope : lock[k] = w
      PROVE  KeysInOrder'
  <2>1. /\ \A k \in AllKeys : lock'[k] # w
        /\ \A v \in Writers \ {w}, k \in AllKeys : lock'[k] = v <=> lock[k] = v
    BY <1>2, <1>8 DEF Release
  <2>2. pc'[w] = p /\ \A v \in Writers : v # w => pc'[v] = pc[v]
    BY <1>1, <1>8
  <2>3. KeysOf(w)'
    BY <1>3, <2>1, <2>2 DEF KeysOf
  <2>4. ASSUME NEW v \in Writers \ {w} PROVE KeysOf(v)'
    BY <1>2, <1>8, <2>1, <2>2, <2>4, KeysOfOthers
  <2>5. QED
    BY <2>3, <2>4 DEF KeysInOrder
<1>9. ASSUME NEW w \in Writers, Conflict(w) \/ AppendFails(w) PROVE KeysInOrder'
  <2>1. RollbackAndRetry(w)
    BY <1>9 DEF Conflict, AppendFails
  <2>2. /\ Release(w) /\ todo' = [todo EXCEPT ![w] = {}] /\ scope' = scope
        /\ \E p \in {"read", "failed"} : pc' = [pc EXCEPT ![w] = p]
    BY <2>1 DEF RollbackAndRetry
  <2>3. QED
    BY <1>1, <1>8, <2>2
<1>10. ASSUME NEW w \in Writers, CommitAppend(w) PROVE KeysInOrder'
  <2>1. /\ pc[w] = "commit" /\ Release(w) /\ pc' = [pc EXCEPT ![w] = "done"] /\ todo' = todo
        /\ scope' \in {scope, scope \cup LockKeys(w)}
    BY <1>10 DEF CommitAppend
  <2>2. \A k \in LockKeys(w) : lock[k] = w
    BY <2>1 DEF LocksHeld
  <2>3. QED
    BY <1>8, <2>1, <2>2
<1>11. ASSUME NEW w \in Writers, CheckPasses(w) \/ InsertEvents(w) PROVE KeysInOrder'
  <2>1. /\ UNCHANGED <<lock, scope, todo>> /\ pc[w] \in {"check", "insert"}
        /\ \E p \in {"insert", "commit"} : pc' = [pc EXCEPT ![w] = p]
    BY <1>11 DEF CheckPasses, InsertEvents
  <2>2. pc'[w] \in {"insert", "commit"} /\ \A v \in Writers \ {w} : pc'[v] = pc[v]
    BY <1>1, <2>1
  <2>3. KeysOf(w)'
    BY <1>2, <1>3, <2>1, <2>2 DEF KeysOf
  <2>4. QED
    BY <1>4, <2>1, <2>2, <2>3
<1>12. CASE OtherBegins \/ (\E x \in running : OtherEnds(x)) \/ UNCHANGED vars
  BY <1>3, <1>12 DEF OtherBegins, OtherEnds, vars, writers, KeysInOrder, KeysOf
<1>13. QED
  BY <1>5, <1>6, <1>7, <1>9, <1>10, <1>11, <1>12 DEF Next, Step

\* A step changes what is visible only by committing a writer.
LEMMA VisibleStays ==
    ASSUME TypeOK, XidsHeld, RowsKnown, [Next]_vars, ~ \E w \in Writers : CommitAppend(w)
    PROVE  Visible' = Visible
<1>1. /\ DatabaseOK /\ xid \in [Writers -> Nat] /\ nextXid \in Nat
      /\ \A r \in rows : r.tx < nextXid /\ r.tx # nextXid /\ r.by \in Writers
  BY DEF TypeOK, DatabaseOK, Row
<1>2. ASSUME NEW w \in Writers, NeedXid(w), rows' = rows PROVE Visible' = Visible
  <2>1. running \subseteq running' /\ running' \subseteq running \cup {nextXid}
    BY <1>1, <1>2, WritersXid
  <2>2. QED
    BY <1>1, <1>2, <2>1 DEF Visible
<1>3. ASSUME UNCHANGED <<rows, running>> PROVE Visible' = Visible
  BY <1>3 DEF Visible
<1>4. ASSUME NEW w \in Writers, ReadPage(w) \/ CheckPasses(w) PROVE Visible' = Visible
  BY <1>3, <1>4 DEF ReadPage, CheckPasses, database
<1>5. ASSUME NEW w \in Writers, NEW k \in todo[w], InsertScope(w, k) \/ AcquireLock(w, k)
      PROVE  Visible' = Visible
  BY <1>2, <1>3, <1>5 DEF InsertScope, AcquireLock
<1>6. ASSUME NEW w \in Writers, Conflict(w) \/ AppendFails(w) PROVE Visible' = Visible
  <2>1. RollbackAndRetry(w)
    BY <1>6 DEF Conflict, AppendFails
  <2>2. running' = running \ {xid[w]} /\ rows' = {r \in rows : r.tx # xid[w]}
        /\ \A r \in rows \ rows' : r.tx = xid[w] /\ xid[w] \in running
    BY <1>1, <2>1, RolledBack
  <2>3. QED
    BY <2>2 DEF Visible
<1>7. ASSUME NEW w \in Writers, InsertEvents(w) PROVE Visible' = Visible
  <2>1. NeedXid(w) /\ rows' = rows \cup NewRows(w, xid'[w])
    BY <1>7 DEF InsertEvents
  <2>2. running \subseteq running' /\ running' \subseteq running \cup {nextXid}
        /\ xid'[w] \in running'
    BY <1>1, <2>1, WritersXid
  <2>3. \A r \in NewRows(w, xid'[w]) : r.tx = xid'[w]
    BY InsertedRow
  <2>4. QED
    BY <1>1, <2>1, <2>2, <2>3 DEF Visible
<1>8. CASE OtherBegins
  BY <1>1, <1>8 DEF OtherBegins, TakeXid, Visible
<1>9. ASSUME NEW x \in running, OtherEnds(x) PROVE Visible' = Visible
  <2>1. rows' = rows /\ running' = running \ {x} /\ \A w \in Writers : xid[w] # x
    BY <1>9 DEF OtherEnds, Commit, EndXid
  <2>2. \A r \in rows : r.tx # x
    BY <1>1, <2>1 DEF RowsKnown
  <2>3. QED
    BY <2>1, <2>2 DEF Visible
<1>10. CASE UNCHANGED vars
  BY <1>3, <1>10 DEF vars, database
<1>11. QED
  BY <1>4, <1>5, <1>6, <1>7, <1>8, <1>9, <1>10 DEF Next, Step

\* An uncommitted row stays with its writer.
LEMMA RowsStep ==
    ASSUME TypeOK, XidsHeld, RowsKnown, [Next]_vars
    PROVE  RowsKnown'
<1>1. /\ DatabaseOK /\ xid \in [Writers -> Nat] /\ nextXid \in Nat
      /\ pc \in [Writers -> {"read", "scope", "lock", "check", "insert", "commit", "done", "failed"}]
      /\ \A r \in rows : r.tx < nextXid /\ r.tx # nextXid /\ r.by \in Writers
  BY DEF TypeOK, DatabaseOK, Row
<1>2. ASSUME NEW w \in Writers, NeedXid(w), rows' = rows, pc[w] # "commit",
             \A v \in Writers : v # w => pc'[v] = pc[v]
      PROVE  RowsKnown'
  <2>1. running' \subseteq running \cup {nextXid} /\ \A v \in Writers : v # w => xid'[v] = xid[v]
    BY <1>1, <1>2, WritersXid
  <2>2. \A r \in rows : r.tx \in running => r.by # w
    BY <1>2 DEF RowsKnown
  <2>3. QED
    BY <1>1, <1>2, <2>1, <2>2 DEF RowsKnown
<1>3. ASSUME NEW w \in Writers, pc[w] # "commit", \A v \in Writers : v # w => pc'[v] = pc[v],
             UNCHANGED <<rows, running, xid>>
      PROVE  RowsKnown'
  BY <1>1, <1>3 DEF RowsKnown
<1>4. ASSUME NEW w \in Writers, ReadPage(w) \/ CheckPasses(w) PROVE RowsKnown'
  BY <1>1, <1>3, <1>4 DEF ReadPage, CheckPasses, database
<1>5. ASSUME NEW w \in Writers, NEW k \in todo[w], InsertScope(w, k) \/ AcquireLock(w, k)
      PROVE  RowsKnown'
  <2>1. pc[w] # "commit" /\ rows' = rows /\ \A v \in Writers : v # w => pc'[v] = pc[v]
    BY <1>1, <1>5 DEF InsertScope, AcquireLock
  <2>2. NeedXid(w) \/ UNCHANGED <<running, xid>>
    BY <1>5 DEF InsertScope, AcquireLock
  <2>3. QED
    BY <1>2, <1>3, <2>1, <2>2
<1>6. ASSUME NEW w \in Writers, NEW p \in {"read", "failed", "done"},
             running' = running \ {xid[w]}, rows' \subseteq rows,
             xid' = [xid EXCEPT ![w] = 0], pc' = [pc EXCEPT ![w] = p]
      PROVE  RowsKnown'
  <2>1. \A v \in Writers : v # w => pc'[v] = pc[v] /\ xid'[v] = xid[v]
    BY <1>1, <1>6
  <2>2. \A r \in rows' : r.tx \in running' => r.by # w
    BY <1>6 DEF RowsKnown
  <2>3. QED
    BY <1>1, <1>6, <2>1, <2>2 DEF RowsKnown
<1>7. ASSUME NEW w \in Writers, Conflict(w) \/ AppendFails(w) PROVE RowsKnown'
  <2>1. RollbackAndRetry(w)
    BY <1>7 DEF Conflict, AppendFails
  <2>2. running' = running \ {xid[w]} /\ rows' \subseteq rows /\ xid' = [xid EXCEPT ![w] = 0]
        /\ \E p \in {"read", "failed"} : pc' = [pc EXCEPT ![w] = p]
    BY <2>1 DEF RollbackAndRetry, Rollback, EndXid
  <2>3. QED
    BY <1>6, <2>2
<1>8. ASSUME NEW w \in Writers, CommitAppend(w) PROVE RowsKnown'
  BY <1>6, <1>8 DEF CommitAppend, Commit, EndXid
<1>9. ASSUME NEW w \in Writers, InsertEvents(w) PROVE RowsKnown'
  <2>1. NeedXid(w) /\ rows' = rows \cup NewRows(w, xid'[w]) /\ pc[w] = "insert"
        /\ pc' = [pc EXCEPT ![w] = "commit"]
    BY <1>9 DEF InsertEvents
  <2>2. running' \subseteq running \cup {nextXid} /\ \A v \in Writers : v # w => xid'[v] = xid[v]
    BY <1>1, <2>1, WritersXid
  <2>3. \A r \in rows : r.tx \in running => r.by # w
    BY <2>1 DEF RowsKnown
  <2>4. \A r \in NewRows(w, xid'[w]) : /\ r.tx = xid'[w] /\ r.by = w
                                       /\ \E i \in DOMAIN EventsOf[w] : r.event = EventsOf[w][i]
    BY InsertedRow
  <2>5. pc'[w] = "commit" /\ \A v \in Writers : v # w => pc'[v] = pc[v]
    BY <1>1, <2>1
  <2>6. \A r \in rows : /\ r.tx \in running' => pc'[r.by] = "commit" /\ xid'[r.by] = r.tx
                        /\ \E i \in DOMAIN EventsOf[r.by] : r.event = EventsOf[r.by][i]
    BY <1>1, <2>2, <2>3, <2>5 DEF RowsKnown
  <2>7. \A r \in NewRows(w, xid'[w]) :
            /\ r.tx \in running' => pc'[r.by] = "commit" /\ xid'[r.by] = r.tx
            /\ \E i \in DOMAIN EventsOf[r.by] : r.event = EventsOf[r.by][i]
    BY <2>4, <2>5
  <2>8. QED
    BY <2>1, <2>6, <2>7 DEF RowsKnown
<1>10. CASE OtherBegins
  BY <1>1, <1>10 DEF OtherBegins, TakeXid, writers, RowsKnown
<1>11. ASSUME NEW x \in running, OtherEnds(x) PROVE RowsKnown'
  BY <1>1, <1>11 DEF OtherEnds, Commit, EndXid, writers, RowsKnown
<1>12. CASE UNCHANGED vars
  BY <1>12 DEF vars, database, writers, RowsKnown
<1>13. QED
  BY <1>4, <1>5, <1>7, <1>8, <1>9, <1>10, <1>11, <1>12 DEF Next, Step
\* What a writer has inserted stays whole until it commits.
LEMMA BatchesStep ==
    ASSUME TypeOK, XidsHeld, XidsHeld', RowsKnown, BatchesHold, [Next]_vars
    PROVE  BatchesHold'
<1>1. /\ DatabaseOK /\ xid \in [Writers -> Nat] /\ saw \in [Writers -> SUBSET Cursor]
      /\ pc \in [Writers -> {"read", "scope", "lock", "check", "insert", "commit", "done", "failed"}]
      /\ nextPos \in Nat \ {0}
  BY DEF TypeOK, DatabaseOK
<1>2. ASSUME NEW v \in Writers, pc[v] = "commit", xid'[v] = xid[v], saw'[v] = saw[v],
             {r \in rows' : r.tx = xid[v]} = {r \in rows : r.tx = xid[v]},
             nextPos' \in Nat, nextPos <= nextPos'
      PROVE  \E base \in 1..nextPos' :
                {r \in rows' : r.tx = xid'[v]} =
                    {[tx |-> xid'[v], pos |-> base + i - 1, event |-> EventsOf[v][i],
                      by |-> v, saw |-> saw'[v]] : i \in DOMAIN EventsOf[v]}
  <2>1. PICK base \in 1..nextPos :
                {r \in rows : r.tx = xid[v]} =
                    {[tx |-> xid[v], pos |-> base + i - 1, event |-> EventsOf[v][i],
                      by |-> v, saw |-> saw[v]] : i \in DOMAIN EventsOf[v]}
    BY <1>2 DEF BatchesHold
  <2>2. base \in 1..nextPos'
    BY <1>1, <1>2
  <2>3. QED
    BY <1>2, <2>1, <2>2
<1>3. ASSUME NEW w \in Writers, UNCHANGED <<saw, nextPos>>, pc'[w] # "commit",
             \A v \in Writers : v # w =>
                 /\ pc'[v] = pc[v] /\ xid'[v] = xid[v]
                 /\ pc[v] = "commit" =>
                        {r \in rows' : r.tx = xid[v]} = {r \in rows : r.tx = xid[v]}
      PROVE  BatchesHold'
  BY <1>1, <1>2, <1>3 DEF BatchesHold
<1>4. ASSUME UNCHANGED <<pc, xid, saw, nextPos, rows>> PROVE BatchesHold'
  BY <1>4 DEF BatchesHold
<1>5. ASSUME NEW w \in Writers, ReadPage(w) PROVE BatchesHold'
  <2>1. pc[w] = "read" /\ UNCHANGED <<rows, nextPos, xid>>
        /\ \A v \in Writers : v # w => pc'[v] = pc[v] /\ saw'[v] = saw[v]
    BY <1>1, <1>5 DEF ReadPage, database
  <2>2. pc'[w] # "commit"
    BY <1>1, <1>5 DEF ReadPage, FirstStep
  <2>3. QED
    BY <1>1, <1>2, <2>1, <2>2 DEF BatchesHold
<1>6. ASSUME NEW w \in Writers, NEW k \in todo[w], InsertScope(w, k) \/ AcquireLock(w, k)
      PROVE  BatchesHold'
  <2>1. UNCHANGED <<saw, nextPos, rows>> /\ pc'[w] # "commit"
        /\ \A v \in Writers : v # w => pc'[v] = pc[v]
    BY <1>1, <1>6 DEF InsertScope, AcquireLock
  <2>2. NeedXid(w) \/ xid' = xid
    BY <1>6 DEF InsertScope, AcquireLock
  <2>3. \A v \in Writers : v # w => xid'[v] = xid[v]
    BY <1>1, <2>2, WritersXid
  <2>4. QED
    BY <1>3, <2>1, <2>3
<1>7. ASSUME NEW w \in Writers, CheckPasses(w) PROVE BatchesHold'
  <2>1. UNCHANGED <<saw, nextPos, rows, xid>> /\ pc'[w] # "commit"
        /\ \A v \in Writers : v # w => pc'[v] = pc[v]
    BY <1>1, <1>7 DEF CheckPasses, database
  <2>2. QED
    BY <1>3, <2>1
<1>8. ASSUME NEW w \in Writers, Conflict(w) \/ AppendFails(w) PROVE BatchesHold'
  <2>1. RollbackAndRetry(w)
    BY <1>8 DEF Conflict, AppendFails
  <2>2. /\ UNCHANGED <<saw, nextPos>> /\ rows' = {r \in rows : r.tx # xid[w]}
        /\ xid' = [xid EXCEPT ![w] = 0]
        /\ \E p \in {"read", "failed"} : pc' = [pc EXCEPT ![w] = p]
    BY <1>1, <2>1, RolledBack DEF RollbackAndRetry
  <2>3. \A v \in Writers : v # w /\ pc[v] = "commit" => xid[v] # xid[w]
    BY DEF XidsHeld
  <2>4. QED
    BY <1>1, <1>3, <2>2, <2>3
<1>9. ASSUME NEW w \in Writers, CommitAppend(w) PROVE BatchesHold'
  <2>1. UNCHANGED <<saw, nextPos, rows>> /\ xid' = [xid EXCEPT ![w] = 0]
        /\ pc' = [pc EXCEPT ![w] = "done"]
    BY <1>9 DEF CommitAppend, Commit, EndXid
  <2>2. QED
    BY <1>1, <1>3, <2>1
<1>10. ASSUME NEW w \in Writers, InsertEvents(w) PROVE BatchesHold'
  <2>1. /\ NeedXid(w) /\ rows' = rows \cup NewRows(w, xid'[w]) /\ saw' = saw
        /\ nextPos' = nextPos + Len(EventsOf[w]) /\ pc[w] = "insert"
        /\ pc' = [pc EXCEPT ![w] = "commit"]
    BY <1>10 DEF InsertEvents
  <2>2. nextPos' \in Nat /\ nextPos <= nextPos'
    BY <1>1, <2>1, DecidedEvents
  <2>3. xid'[w] # 0 /\ \A v \in Writers : v # w => xid'[v] = xid[v]
    BY <1>1, <2>1, WritersXid
  <2>4. \A r \in NewRows(w, xid'[w]) : r.tx = xid'[w]
    BY InsertedRow
  <2>5. \A r \in rows : r.tx # xid'[w]
    <3>1. \A r \in rows : r.tx \in running => r.by # w /\ xid[r.by] = r.tx /\ r.by \in Writers
      BY <2>1 DEF RowsKnown, TypeOK, Row
    <3>2. \A r \in rows : r.tx \in 1..(nextXid - 1) /\ nextXid \in Nat
      BY <1>1 DEF DatabaseOK
    <3>3. xid'[w] = nextXid \/ xid'[w] = xid[w]
      BY <1>1, <2>1, WritersXid
    <3>4. xid[w] # 0 => xid[w] \in running
      BY DEF XidsHeld
    <3>5. \A v \in Writers : v # w => xid'[v] # xid'[w]
      BY <2>3 DEF XidsHeld
    <3>6. SUFFICES ASSUME NEW r \in rows, r.tx = xid'[w] PROVE FALSE
      OBVIOUS
    <3>7. r.tx # nextXid
      BY <3>2
    <3>8. r.tx = xid[w] /\ r.tx \in running
      BY <2>3, <3>3, <3>4, <3>6, <3>7
    <3>9. r.by # w /\ xid'[r.by] = xid'[w] /\ r.by \in Writers
      BY <2>3, <3>1, <3>6, <3>8
    <3>10. QED
      BY <3>5, <3>9
  <2>6. {r \in rows' : r.tx = xid'[w]} = NewRows(w, xid'[w])
    BY <2>1, <2>4, <2>5
  <2>7. nextPos \in 1..nextPos'
    BY <1>1, <2>2
  <2>8. \E base \in 1..nextPos' :
                {r \in rows' : r.tx = xid'[w]} =
                    {[tx |-> xid'[w], pos |-> base + i - 1, event |-> EventsOf[w][i],
                      by |-> w, saw |-> saw'[w]] : i \in DOMAIN EventsOf[w]}
    BY <2>1, <2>6, <2>7 DEF NewRows
  <2>9. \A v \in Writers : v # w /\ pc[v] = "commit" =>
            {r \in rows' : r.tx = xid[v]} = {r \in rows : r.tx = xid[v]}
    BY <2>1, <2>3, <2>4 DEF XidsHeld
  <2>10. ASSUME NEW v \in Writers, v # w, pc'[v] = "commit"
         PROVE  \E base \in 1..nextPos' :
                {r \in rows' : r.tx = xid'[v]} =
                    {[tx |-> xid'[v], pos |-> base + i - 1, event |-> EventsOf[v][i],
                      by |-> v, saw |-> saw'[v]] : i \in DOMAIN EventsOf[v]}
    <3>1. pc[v] = "commit" /\ xid'[v] = xid[v] /\ saw'[v] = saw[v]
      BY <1>1, <2>1, <2>3, <2>10
    <3>2. QED
      BY <1>2, <2>2, <2>9, <2>10, <3>1
  <2>11. QED
    BY <2>8, <2>10 DEF BatchesHold
<1>11. CASE OtherBegins
  BY <1>4, <1>11 DEF OtherBegins, TakeXid, writers
<1>12. ASSUME NEW x \in running, OtherEnds(x) PROVE BatchesHold'
  BY <1>4, <1>12 DEF OtherEnds, Commit, EndXid, writers
<1>13. CASE UNCHANGED vars
  BY <1>4, <1>13 DEF vars, database, writers
<1>14. QED
  BY <1>5, <1>6, <1>7, <1>8, <1>9, <1>10, <1>11, <1>12, <1>13 DEF Next, Step
-----------------------------------------------------------------------------
(* Reads.                                                                    *)

LEMMA CursorStays ==
    ASSUME TypeOK, TypeOK', XidsHeld, [Next]_vars
    PROVE  \A c \in Cursor : Settled(c) => Settled(c)' /\ UpTo(c)' = UpTo(c)
<1>1. DatabaseOK /\ nextXid' \in Nat
  BY DEF TypeOK, DatabaseOK
<1>2. DatabaseStep
  BY StepsOnDatabase
<1>3. QED
  BY <1>1, <1>2, SettledStays

\* Before any read nothing has been read.
LEMMA FromTheStart ==
    ASSUME DatabaseOK
    PROVE  Settled(NoCursor) /\ UpTo(NoCursor) = {}
<1>1. nextXid \in Nat \ {0} /\ running \subseteq 1..(nextXid - 1)
      /\ \A r \in rows : r.tx \in 1..(nextXid - 1)
  BY DEF DatabaseOK
<1>2. NoCursor.tx = 0
  BY DEF NoCursor
<1>3. Settled(NoCursor)
  BY <1>1, <1>2 DEF Settled
<1>4. \A r \in rows : Precedes(NoCursor, r)
  BY <1>1, <1>2 DEF Precedes
<1>5. QED
  BY <1>3, <1>4 DEF UpTo

\* What lies up to a settled cursor is committed.
LEMMA SettledIsVisible ==
    ASSUME TypeOK, NEW c \in Cursor, Settled(c)
    PROVE  UpTo(c) \subseteq Visible
<1>1. \A r \in rows : r.tx \in Int
  BY DEF TypeOK, Row
<1>2. running \subseteq Int /\ c.tx \in Int
  BY DEF TypeOK, DatabaseOK, Cursor
<1>3. QED
  BY <1>1, <1>2 DEF UpTo, Visible, Settled, Precedes

LEMMA ReadsStep ==
    ASSUME TypeOK, TypeOK', XidsHeld, ReadsHold, [Next]_vars
    PROVE  ReadsHold'
<1>1. /\ saw \in [Writers -> SUBSET Cursor] /\ after \in [Writers -> Cursor]
      /\ \A c \in Cursor : Settled(c) => Settled(c)' /\ UpTo(c)' = UpTo(c)
  BY CursorStays DEF TypeOK
<1>2. ASSUME NEW v \in Writers, after'[v] = after[v], saw'[v] = saw[v]
      PROVE  (Settled(after[v]) /\ saw[v] = Cursors(Matching(v, UpTo(after[v]))))'
  <2>1. PICK c \in Cursor : c = after[v]
    BY <1>1
  <2>2. Settled(c) /\ saw[v] = Cursors(Matching(v, UpTo(c)))
    BY <2>1 DEF ReadsHold
  <2>3. Settled(c)' /\ UpTo(c)' = UpTo(c)
    BY <1>1, <2>2
  <2>4. Settled(after[v])' /\ UpTo(after[v])' = UpTo(c)
    BY <1>2, <2>1, <2>3 DEF Settled, UpTo
  <2>5. Matching(v, UpTo(after[v]))' = Matching(v, UpTo(c))
    BY <2>4 DEF Matching
  <2>6. Cursors(Matching(v, UpTo(after[v])))' = Cursors(Matching(v, UpTo(c)))
    BY <2>5 DEF Cursors
  <2>7. QED
    BY <1>2, <2>2, <2>4, <2>6
<1>3. ASSUME UNCHANGED <<saw, after>> PROVE ReadsHold'
  BY <1>2, <1>3 DEF ReadsHold
<1>4. ASSUME NEW w \in Writers, Conflict(w) \/ AppendFails(w) PROVE ReadsHold'
  BY <1>3, <1>4 DEF Conflict, AppendFails, RollbackAndRetry
<1>5. ASSUME NEW w \in Writers, ReadPage(w) PROVE ReadsHold'
  <2>1. UNCHANGED <<nextXid, running, rows>>
    BY <1>5 DEF ReadPage, database
  <2>2. PICK S \in Pages(Matching(w, FencedAfter(after[w]))) :
          /\ saw' = [saw EXCEPT ![w] = @ \cup Cursors(S)]
          /\ \/ S = {} /\ UNCHANGED after
             \/ \E last \in S :
                   IsLast(last, S) /\ after' = [after EXCEPT ![w] = CursorOf(last)]
    BY <1>5 DEF ReadPage
  <2>3. \A v \in Writers : v # w => after'[v] = after[v] /\ saw'[v] = saw[v]
    BY <1>1, <2>2
  <2>4. CASE S = {}
    <3>1. Cursors(S) = {}
      BY <2>4 DEF Cursors
    <3>2. after'[w] = after[w] /\ saw'[w] = saw[w]
      BY <1>1, <2>2, <2>4, <3>1
    <3>3. QED
      BY <1>2, <2>3, <3>2 DEF ReadsHold
  <2>5. CASE S # {}
    <3>1. PICK last \in S : IsLast(last, S) /\ after' = [after EXCEPT ![w] = CursorOf(last)]
      BY <2>2, <2>5
    <3>2. PICK c \in Cursor : c = after[w]
      BY <1>1
    <3>3. PICK T \in SUBSET FencedAfter(c) : T = Matching(w, FencedAfter(c))
      BY DEF Matching
    <3>4. S \in Pages(T)
      BY <2>2, <3>2, <3>3
    <3>5. DatabaseOK
      BY DEF TypeOK
    <3>6. /\ CursorOf(last) \in Cursor /\ Settled(CursorOf(last))
          /\ UpTo(CursorOf(last)) \subseteq UpTo(c) \cup S \cup (FencedAfter(c) \ T)
          /\ UpTo(c) \subseteq UpTo(CursorOf(last)) /\ S \subseteq UpTo(CursorOf(last))
      BY <3>1, <3>4, <3>5, PageEndsSettled
    <3>7. S \subseteq T
      BY <3>4 DEF Pages
    <3>8. Matching(w, UpTo(CursorOf(last))) = Matching(w, UpTo(c)) \cup S
      BY <3>3, <3>6, <3>7 DEF Matching
    <3>9. saw'[w] = Cursors(Matching(w, UpTo(CursorOf(last))))
      <4>1. saw'[w] = saw[w] \cup Cursors(S)
        BY <1>1, <2>2
      <4>2. saw[w] = Cursors(Matching(w, UpTo(c)))
        BY <3>2 DEF ReadsHold
      <4>3. Cursors(Matching(w, UpTo(c)) \cup S) = Cursors(Matching(w, UpTo(c))) \cup Cursors(S)
        BY DEF Cursors
      <4>4. QED
        BY <3>8, <4>1, <4>2, <4>3
    <3>10. after'[w] = CursorOf(last)
      BY <1>1, <3>1
    <3>11. Settled(after[w])' /\ UpTo(after[w])' = UpTo(CursorOf(last))
      BY <2>1, <3>6, <3>10 DEF Settled, UpTo
    <3>12. Matching(w, UpTo(after[w]))' = Matching(w, UpTo(CursorOf(last)))
      BY <3>11 DEF Matching
    <3>13. (saw[w] = Cursors(Matching(w, UpTo(after[w]))))'
      BY <3>9, <3>12 DEF Cursors
    <3>14. QED
      BY <1>2, <2>3, <3>11, <3>13 DEF ReadsHold
  <2>6. QED
    BY <2>4, <2>5
<1>6. ASSUME NEW w \in Writers, NEW k \in todo[w], InsertScope(w, k) \/ AcquireLock(w, k)
      PROVE  ReadsHold'
  BY <1>3, <1>6 DEF InsertScope, AcquireLock
<1>7. ASSUME NEW w \in Writers, CheckPasses(w) \/ InsertEvents(w) \/ CommitAppend(w)
      PROVE  ReadsHold'
  BY <1>3, <1>7 DEF CheckPasses, InsertEvents, CommitAppend
<1>8. CASE OtherBegins \/ (\E x \in running : OtherEnds(x)) \/ UNCHANGED vars
  BY <1>3, <1>8 DEF OtherBegins, OtherEnds, vars, writers
<1>9. QED
  BY <1>4, <1>5, <1>6, <1>7, <1>8 DEF Next, Step
-----------------------------------------------------------------------------
(* Conditions.                                                               *)

\* A writer about to commit an event that matches a condition holds a lock key of
\* the writer whose condition it is.
LEMMA MatchesShareKey ==
    ASSUME TypeOK, RowsKnown, Tagged, NEW w \in Conditional, NEW r \in rows,
           Matches(r.event, QueryOf[w])
    PROVE  \E k \in LockKeys(w) : k \in LockKeys(r.by)
<1>1. w \in Writers /\ r.by \in Writers
  BY WriterTypes DEF TypeOK, Row
<1>2. PICK clause \in QueryOf[w] : MatchesClause(r.event, clause)
  BY DEF Matches, Tagged
<1>3. PICK t \in clause.tags : t \in r.event.tags
  BY <1>2 DEF MatchesClause, Tagged
<1>4. PICK i \in DOMAIN EventsOf[r.by] : r.event = EventsOf[r.by][i]
  BY DEF RowsKnown
<1>5. t \in TagsOf(w)
  BY <1>2, <1>3 DEF TagsOf
<1>6. t \in TagsOf(r.by)
  BY <1>3, <1>4 DEF TagsOf
<1>7. QED
  BY <1>5, <1>6 DEF LockKeys

\* From the check to the commit no other writer holds an uncommitted event that
\* matches.
LEMMA NoRival ==
    ASSUME TypeOK, LocksHeld, XidsHeld, RowsKnown, Tagged, NEW w \in Conditional,
           pc[w] \in {"insert", "commit"}, NEW r \in Matching(w, rows), r.tx \in running
    PROVE  r.by = w /\ pc[w] = "commit" /\ xid[w] = r.tx
<1>1. r \in rows /\ Matches(r.event, QueryOf[w])
  BY DEF Matching
<1>2. pc[r.by] = "commit" /\ xid[r.by] = r.tx
  BY <1>1 DEF RowsKnown
<1>3. PICK k \in LockKeys(w) : k \in LockKeys(r.by)
  BY <1>1, MatchesShareKey
<1>4. w \in Writers /\ r.by \in Writers
  BY <1>1, WriterTypes DEF TypeOK, Row
<1>5. lock[k] = w /\ lock[k] = r.by
  BY <1>2, <1>3, <1>4 DEF LocksHeld
<1>6. QED
  BY <1>2, <1>5

LEMMA ChecksStep ==
    ASSUME TypeOK, TypeOK', LocksHeld, XidsHeld, RowsKnown, ReadsHold, ChecksHold, Tagged,
           [Next]_vars
    PROVE  ChecksHold'
<1>1. SUFFICES ASSUME NEW w \in Conditional, pc'[w] \in {"insert", "commit"}
               PROVE  (Matching(w, Visible) \subseteq UpTo(after[w]))'
  BY DEF ChecksHold
<1>2. /\ w \in Writers /\ after \in [Writers -> Cursor]
      /\ pc \in [Writers -> {"read", "scope", "lock", "check", "insert", "commit", "done", "failed"}]
      /\ DatabaseOK
  BY WriterTypes DEF TypeOK
<1>3. CASE pc[w] \notin {"insert", "commit"}
  <2>1. CheckPasses(w)
    <3>1. \/ \E v \in Writers : Step(v) \/ AppendFails(v)
          \/ OtherBegins \/ (\E x \in running : OtherEnds(x)) \/ UNCHANGED vars
      BY DEF Next
    <3>2. ~ (OtherBegins \/ (\E x \in running : OtherEnds(x)) \/ UNCHANGED vars)
      BY <1>1, <1>3 DEF OtherBegins, OtherEnds, vars, writers
    <3>3. PICK v \in Writers : Step(v) \/ AppendFails(v)
      BY <3>1, <3>2
    <3>4. CASE ReadPage(v)
      BY <1>1, <1>2, <1>3, <3>4 DEF ReadPage, FirstStep
    <3>5. CASE \E k \in todo[v] : InsertScope(v, k) \/ AcquireLock(v, k)
      BY <1>1, <1>2, <1>3, <3>5 DEF InsertScope, AcquireLock
    <3>6. CASE Conflict(v) \/ AppendFails(v)
      BY <1>1, <1>2, <1>3, <3>6 DEF Conflict, AppendFails, RollbackAndRetry
    <3>7. CASE InsertEvents(v) \/ CommitAppend(v)
      BY <1>1, <1>2, <1>3, <3>7 DEF InsertEvents, CommitAppend
    <3>8. CASE CheckPasses(v)
      BY <1>1, <1>2, <1>3, <3>8 DEF CheckPasses
    <3>9. QED
      BY <3>3, <3>4, <3>5, <3>6, <3>7, <3>8 DEF Step
  <2>2. Conflicting(w) = {} /\ UNCHANGED <<running, rows, after>>
    BY <1>1, <2>1 DEF CheckPasses, database
  <2>3. \A r \in Matching(w, Visible) : r \in rows /\ ~ Precedes(after[w], r)
    BY <2>2 DEF Conflicting, Matching, Visible
  <2>4. Matching(w, Visible) \subseteq UpTo(after[w])
    BY <2>3 DEF UpTo
  <2>5. Matching(w, Visible)' = Matching(w, Visible) /\ UpTo(after[w])' = UpTo(after[w])
    BY <2>2 DEF Matching, Visible, UpTo
  <2>6. QED
    BY <2>4, <2>5
<1>4. CASE pc[w] \in {"insert", "commit"}
  <2>1. after'[w] = after[w]
    <3>1. ASSUME NEW v \in Writers, Conflict(v) \/ AppendFails(v) PROVE after'[w] = after[w]
      BY <3>1 DEF Conflict, AppendFails, RollbackAndRetry
    <3>2. ASSUME NEW v \in Writers, ReadPage(v) PROVE after'[w] = after[w]
      BY <1>2, <1>4, <3>2 DEF ReadPage
    <3>3. ASSUME NEW v \in Writers, NEW k \in todo[v], InsertScope(v, k) \/ AcquireLock(v, k)
          PROVE  after'[w] = after[w]
      BY <3>3 DEF InsertScope, AcquireLock
    <3>4. ASSUME NEW v \in Writers, CheckPasses(v) \/ InsertEvents(v) \/ CommitAppend(v)
          PROVE  after'[w] = after[w]
      BY <3>4 DEF CheckPasses, InsertEvents, CommitAppend
    <3>5. CASE OtherBegins \/ (\E x \in running : OtherEnds(x)) \/ UNCHANGED vars
      BY <3>5 DEF OtherBegins, OtherEnds, vars, writers
    <3>6. QED
      BY <3>1, <3>2, <3>3, <3>4, <3>5 DEF Next, Step
  <2>2. PICK c \in Cursor : c = after[w]
    BY <1>2
  <2>3. Settled(c) /\ Matching(w, Visible) \subseteq UpTo(c)
    BY <1>2, <1>4, <2>2 DEF ReadsHold, ChecksHold
  <2>4. UpTo(after[w])' = UpTo(c)
    <3>1. UpTo(c)' = UpTo(c)
      BY <2>3, CursorStays
    <3>2. QED
      BY <2>1, <2>2, <3>1 DEF UpTo
  <2>5. CASE ~ \E v \in Writers : CommitAppend(v)
    <3>1. Matching(w, Visible)' = Matching(w, Visible)
      BY <2>5, VisibleStays DEF Matching
    <3>2. QED
      BY <2>3, <2>4, <3>1
  <2>6. ASSUME NEW v \in Writers, CommitAppend(v)
        PROVE  Matching(w, Visible)' \subseteq Matching(w, Visible)
    <3>1. rows' = rows /\ running' = running \ {xid[v]} /\ pc' = [pc EXCEPT ![v] = "done"]
      BY <2>6 DEF CommitAppend, Commit, EndXid
    <3>2. v # w
      BY <1>1, <1>2, <3>1
    <3>3. ASSUME NEW r \in Matching(w, rows), r.tx \notin running' PROVE r.tx \notin running
      <4>1. SUFFICES ASSUME r.tx \in running PROVE FALSE
        OBVIOUS
      <4>2. xid[w] = r.tx /\ r.tx = xid[v] /\ pc[w] = "commit"
        BY <1>4, <3>1, <3>3, <4>1, NoRival
      <4>3. QED
        BY <1>2, <3>2, <4>2 DEF XidsHeld
    <3>4. QED
      BY <3>1, <3>3 DEF Matching, Visible
  <2>7. QED
    BY <2>3, <2>4, <2>5, <2>6
<1>5. QED
  BY <1>3, <1>4
-----------------------------------------------------------------------------
(* The order of the log, with advisory locks.                                *)

LEMMA Inserted ==
    ASSUME TypeOK, XidsHeld, [Next]_vars, Strategy = "advisory", NEW r \in rows' \ rows
    PROVE  \E w \in Writers : pc[w] = "insert" /\ r \in NewRows(w, nextXid)
<1>1. ASSUME NEW w \in Writers, InsertEvents(w)
      PROVE  pc[w] = "insert" /\ rows' = rows \cup NewRows(w, nextXid)
  <2>1. pc[w] = "insert" /\ NeedXid(w) /\ rows' = rows \cup NewRows(w, xid'[w])
    BY <1>1 DEF InsertEvents
  <2>2. xid[w] = 0
    BY <2>1 DEF XidsHeld
  <2>3. xid'[w] = nextXid
    BY <2>1, <2>2, WritersXid DEF TypeOK
  <2>4. QED
    BY <2>1, <2>3
<1>2. ASSUME NEW w \in Writers, ReadPage(w) \/ CheckPasses(w) \/ CommitAppend(w) PROVE FALSE
  BY <1>2 DEF ReadPage, CheckPasses, CommitAppend, Commit, database
<1>3. ASSUME NEW w \in Writers, Conflict(w) \/ AppendFails(w) PROVE FALSE
  BY <1>3 DEF Conflict, AppendFails, RollbackAndRetry, Rollback
<1>4. ASSUME NEW w \in Writers, NEW k \in todo[w], InsertScope(w, k) \/ AcquireLock(w, k)
      PROVE  FALSE
  BY <1>4 DEF InsertScope, AcquireLock
<1>5. CASE OtherBegins \/ (\E x \in running : OtherEnds(x)) \/ UNCHANGED vars
  BY <1>5 DEF OtherBegins, OtherEnds, Commit, vars, database
<1>6. QED
  BY <1>1, <1>2, <1>3, <1>4, <1>5 DEF Next, Step

LEMMA PastsStep ==
    ASSUME TypeOK, LocksHeld, XidsHeld, RowsKnown, ReadsHold, ChecksHold, PastsHold, Tagged,
           Strategy = "advisory", [Next]_vars
    PROVE  PastsHold'
<1>1. /\ nextXid \in Nat /\ DatabaseStep /\ after \in [Writers -> Cursor]
      /\ \A r \in rows : r.tx \in Nat /\ r.tx < nextXid /\ r.by \in Writers
  BY StepsOnDatabase DEF TypeOK, DatabaseOK, Row
<1>2. \A q \in rows' \ rows : q.tx = nextXid
  BY Inserted, InsertedRow
<1>3. ASSUME NEW r \in rows, r.by \in Conditional
      PROVE  (/\ r.saw = PastOf(r)
              /\ \A q \in Matching(r.by, rows) : q.tx # r.tx /\ Precedes(q, r) => q.tx \notin running)'
  <2>1. /\ r.saw = PastOf(r)
        /\ \A q \in Matching(r.by, rows) : q.tx # r.tx /\ Precedes(q, r) => q.tx \notin running
    BY <1>3 DEF PastsHold
  <2>2. \A q \in rows' : Precedes(q, r) => q \in rows
    BY <1>1, <1>2 DEF Precedes
  <2>3. \A q \in Matching(r.by, rows) : q.tx # r.tx /\ Precedes(q, r) => q \in rows'
    BY <1>1, <2>1 DEF DatabaseStep, Matching
  <2>4. \A q \in Matching(r.by, rows') :
            q.tx # r.tx /\ Precedes(q, r) => q.tx \notin running'
    <3>1. SUFFICES ASSUME NEW q \in Matching(r.by, rows'), q.tx # r.tx, Precedes(q, r)
                   PROVE  q.tx \notin running'
      OBVIOUS
    <3>2. q \in rows /\ q \in Matching(r.by, rows)
      BY <2>2, <3>1 DEF Matching
    <3>3. q.tx \notin running /\ q.tx # nextXid
      BY <1>1, <2>1, <3>1, <3>2
    <3>4. QED
      BY <1>1, <3>3 DEF DatabaseStep
  <2>5. Matching(r.by, {q \in rows' : q.tx # r.tx /\ Precedes(q, r)})
            = Matching(r.by, {q \in rows : q.tx # r.tx /\ Precedes(q, r)})
    BY <2>2, <2>3 DEF Matching
  <2>6. r.saw = PastOf(r)'
    BY <2>1, <2>5 DEF PastOf, Precedes, Matching, Cursors
  <2>7. QED
    BY <2>4, <2>6 DEF Matching, Precedes
<1>4. ASSUME NEW r \in rows' \ rows, r.by \in Conditional
      PROVE  (/\ r.saw = PastOf(r)
              /\ \A q \in Matching(r.by, rows) : q.tx # r.tx /\ Precedes(q, r) => q.tx \notin running)'
  <2>1. PICK w \in Writers : pc[w] = "insert" /\ r \in NewRows(w, nextXid)
    BY Inserted
  <2>2. r.tx = nextXid /\ r.by = w /\ r.saw = saw[w] /\ w \in Conditional
    BY <1>4, <2>1, InsertedRow
  <2>3. \A q \in rows' : q.tx # r.tx => q \in rows /\ Precedes(q, r)
    BY <1>1, <1>2, <2>2 DEF Precedes
  <2>4. \A q \in Matching(w, rows) : q.tx \notin running
    BY <2>1, <2>2, NoRival
  <2>5. PICK c \in Cursor : c = after[w]
    BY <1>1
  <2>6. Matching(w, rows) = Matching(w, UpTo(c))
    <3>1. Matching(w, rows) = Matching(w, Visible)
      BY <2>4 DEF Matching, Visible
    <3>2. Matching(w, Visible) \subseteq UpTo(c)
      BY <2>1, <2>2, <2>5 DEF ChecksHold
    <3>3. UpTo(c) \subseteq rows
      BY DEF UpTo
    <3>4. QED
      BY <3>1, <3>2, <3>3 DEF Matching
  <2>7. r.saw = Cursors(Matching(w, rows))
    BY <2>2, <2>5, <2>6 DEF ReadsHold
  <2>8. \A q \in Matching(w, rows) : q \in rows' /\ q.tx # r.tx
    BY <1>1, <2>2, <2>4 DEF Matching, DatabaseStep
  <2>9. Matching(w, {q \in rows' : q.tx # r.tx /\ Precedes(q, r)}) = Matching(w, rows)
    BY <2>3, <2>8 DEF Matching
  <2>10. r.saw = PastOf(r)'
    BY <2>2, <2>7, <2>9 DEF PastOf, Precedes, Matching, Cursors
  <2>11. \A q \in Matching(w, rows') : q.tx # r.tx => q.tx \notin running'
    <3>1. SUFFICES ASSUME NEW q \in Matching(w, rows'), q.tx # r.tx PROVE q.tx \notin running'
      OBVIOUS
    <3>2. q \in Matching(w, rows)
      BY <2>3, <3>1 DEF Matching
    <3>3. q.tx \notin running /\ q.tx # nextXid
      BY <2>2, <2>4, <3>1, <3>2
    <3>4. QED
      BY <1>1, <3>3 DEF DatabaseStep
  <2>12. QED
    BY <2>2, <2>10, <2>11 DEF Matching
<1>5. QED
  BY <1>3, <1>4 DEF PastsHold
-----------------------------------------------------------------------------
(* The invariant and what follows from it.                                   *)

LEMMA InitAppend == Init => AppendInv
<1>1. SUFFICES ASSUME Init PROVE AppendInv
  OBVIOUS
<1>2. DatabaseOK /\ XidsHeld
  BY <1>1, InitType DEF TypeOK
<1>3. rows = {} /\ \A w \in Writers : pc[w] = "read" /\ after[w] = NoCursor /\ saw[w] = {}
  BY <1>1 DEF Init, DatabaseInit
<1>4. ReadsHold
  <2>1. Settled(NoCursor) /\ UpTo(NoCursor) = {}
    BY <1>2, FromTheStart
  <2>2. \A w \in Writers : Cursors(Matching(w, UpTo(NoCursor))) = {}
    BY <2>1 DEF Cursors, Matching
  <2>3. QED
    BY <1>3, <2>1, <2>2 DEF ReadsHold
<1>5. LocksHeld /\ RowsKnown /\ BatchesHold /\ ChecksHold /\ PastsHold
  BY <1>3, WriterTypes DEF LocksHeld, RowsKnown, BatchesHold, ChecksHold, PastsHold
<1>6. KeysInOrder
  <2>1. \A k \in AllKeys : lock[k] = Free
    BY <1>1 DEF Init
  <2>2. QED
    BY <1>3, <2>1, WriterTypes DEF KeysInOrder, KeysOf
<1>7. QED
  BY <1>2, <1>4, <1>5, <1>6 DEF AppendInv

LEMMA StepAppend ==
    ASSUME TypeOK, AppendInv, [Next]_vars
    PROVE  TypeOK' /\ AppendInv'
<1>1. LocksHeld /\ KeysInOrder /\ XidsHeld /\ RowsKnown /\ BatchesHold /\ ReadsHold
      /\ (Tagged => ChecksHold /\ (Strategy = "advisory" => PastsHold))
  BY DEF AppendInv
<1>2. TypeOK'
  BY <1>1, StepType
<1>3. LocksHeld' /\ KeysInOrder' /\ XidsHeld' /\ RowsKnown' /\ BatchesHold' /\ ReadsHold'
  BY <1>1, <1>2, LocksStep, KeysStep, XidStep, RowsStep, BatchesStep, ReadsStep
<1>4. ASSUME Tagged PROVE ChecksHold'
  BY <1>1, <1>2, <1>4, ChecksStep
<1>5. ASSUME Tagged, Strategy = "advisory" PROVE PastsHold'
  BY <1>1, <1>5, PastsStep
<1>6. Tagged' <=> Tagged
  BY DEF Tagged
<1>7. QED
  BY <1>2, <1>3, <1>4, <1>5, <1>6 DEF AppendInv

(* Locks, transaction ids and reads stay as AppendInv has them, under either     *)
(* lock strategy.                                                            *)
THEOREM AppendInvariant == Spec => []IndInv
<1>1. TypeOK /\ AppendInv /\ [Next]_vars => TypeOK' /\ AppendInv'
  BY StepAppend
<1>2. QED
  BY InitType, InitAppend, <1>1, PTL DEF Spec, IndInv

LEMMA NoneSlips == TypeOK /\ AppendInv => (Tagged => NoneSlipsIn)
<1>1. SUFFICES ASSUME TypeOK, AppendInv, Tagged, NEW w \in Conditional,
                      pc[w] \in {"insert", "commit"}
               PROVE  Cursors(Matching(w, Visible)) = saw[w]
  BY DEF NoneSlipsIn
<1>2. w \in Writers /\ after[w] \in Cursor
  BY <1>1, WriterTypes DEF TypeOK
<1>3. Settled(after[w]) /\ saw[w] = Cursors(Matching(w, UpTo(after[w])))
  BY <1>1, <1>2 DEF AppendInv, ReadsHold
<1>4. Matching(w, Visible) \subseteq UpTo(after[w])
  BY <1>1 DEF AppendInv, ChecksHold
<1>5. UpTo(after[w]) \subseteq Visible
  BY <1>1, <1>2, <1>3, SettledIsVisible
<1>6. Matching(w, Visible) = Matching(w, UpTo(after[w]))
  BY <1>4, <1>5 DEF Matching
<1>7. QED
  BY <1>3, <1>6

(* From the check of a condition to the commit nothing that matches it becomes   *)
(* visible but what the decision was made on (PgSchema.res, dcb_append), under   *)
(* either lock strategy, when every clause of a condition has a tag.            *)
THEOREM NothingSlipsIn == Spec => [](Tagged => NoneSlipsIn)
<1>1. TypeOK /\ AppendInv => (Tagged => NoneSlipsIn)
  BY NoneSlips
<1>2. QED
  BY <1>1, TypeCorrect, AppendInvariant, PTL DEF IndInv

(* With advisory locks, read, decide and append is exact: the events that        *)
(* precede an event in the order readers see and match its condition are those    *)
(* it was decided on.                                                         *)
THEOREM LogOrderIsDecisionOrder ==
    Spec => [](Tagged /\ Strategy = "advisory" => DecidedOnItsPast)
<1>1. AppendInv => (Tagged /\ Strategy = "advisory" => DecidedOnItsPast)
  BY DEF AppendInv, PastsHold, DecidedOnItsPast, Visible
<1>2. QED
  BY <1>1, AppendInvariant, PTL DEF IndInv
-----------------------------------------------------------------------------
(* Who waits for whom.                                                        *)

\* A finite set has a member that a strict order puts nothing above.
LEMMA Greatest ==
    ASSUME NEW S, IsFiniteSet(S), S # {}, NEW R,
           \A x \in S : <<x, x>> \notin R,
           \A x, y, z \in S : <<x, y>> \in R /\ <<y, z>> \in R => <<x, z>> \in R
    PROVE  \E w \in S : \A v \in S : <<w, v>> \notin R
<1> DEFINE Above(x) == {y \in S : <<x, y>> \in R}
           all == {Above(x) : x \in S}
<1>1. IsWellFoundedOn(StrictSubsetOrdering(S), SUBSET S)
  BY FS_StrictSubsetOrderingWellFounded, FS_FiniteSubsetsOfFinite
<1>2. all \subseteq SUBSET S /\ all # {}
  <2>1. \A x : Above(x) \in SUBSET S
    OBVIOUS
  <2>2. PICK x \in S : TRUE
    OBVIOUS
  <2>3. Above(x) \in all
    BY <2>2
  <2> HIDE DEF Above
  <2>4. QED
    BY <2>1, <2>3
<1>3. PICK T \in all : \A U \in all : <<U, T>> \notin StrictSubsetOrdering(S)
  <2> HIDE DEF all
  <2>1. QED
    BY <1>1, <1>2, WFMin
<1>4. PICK w \in S : T = Above(w)
  BY <1>3
<1>5. ASSUME NEW v \in S, <<w, v>> \in R PROVE FALSE
  <2>1. Above(v) \subseteq Above(w) /\ v \in Above(w) /\ v \notin Above(v)
    BY <1>4, <1>5
  <2>2. <<Above(v), Above(w)>> \in StrictSubsetOrdering(S)
    BY <2>1 DEF StrictSubsetOrdering
  <2>3. Above(v) \in all
    OBVIOUS
  <2>4. QED
    BY <1>3, <1>4, <2>2, <2>3
<1>6. QED
  BY <1>5

\* The key a writer asks for next.
NextKey(w) == CHOOSE k \in todo[w] : IsNext(w, k)

\* Behind a writer that still inserts keys come those that lock them, and behind
\* any writer those further up.
Ahead(v, w) ==
    \/ pc[w] = "scope" /\ pc[v] = "lock"
    \/ pc[w] = pc[v] /\ NextKey(w) < NextKey(v)

LEMMA NextKeyIs ==
    ASSUME TypeOK, NEW w \in Writers, NEW k \in todo[w], IsNext(w, k)
    PROVE  NextKey(w) = k /\ k \in Nat /\ k \in AllKeys
<1>1. todo[w] \subseteq AllKeys /\ AllKeys \subseteq Nat
  BY KeysAreNumbers DEF TypeOK
<1>2. NextKey(w) \in todo[w] /\ IsNext(w, NextKey(w))
  BY DEF NextKey
<1>3. k <= NextKey(w) /\ NextKey(w) <= k
  BY <1>2 DEF IsNext
<1>4. k \in AllKeys /\ k \in Nat /\ NextKey(w) \in Nat
  BY <1>1, <1>2
<1>5. QED
  BY <1>3, <1>4

(* A writer that waits is behind the one it waits for, if that one waits too.     *)
LEMMA WaitsAhead ==
    ASSUME TypeOK, XidsHeld, KeysInOrder, NEW w \in Writers, NEW v \in Writers, NEW u \in Writers,
           WaitsFor(w, v), WaitsFor(v, u)
    PROVE  Ahead(v, w)
<1>1. PICK k \in todo[w] :
         IsNext(w, k) /\ lock[k] = v /\ (pc[w] = "scope" => k \notin scope)
  BY DEF WaitsFor
<1>2. PICK j \in todo[v] : IsNext(v, j)
  BY DEF WaitsFor
<1>3. pc[w] \in {"scope", "lock"} /\ pc[v] \in {"scope", "lock"} /\ v # w
  BY DEF WaitsFor
<1>4. NextKey(w) = k /\ NextKey(v) = j /\ k \in AllKeys
  BY <1>1, <1>2, NextKeyIs
<1>5. KeysOf(w) /\ KeysOf(v) /\ k \in LockKeys(w) /\ k \in LockKeys(v)
  BY <1>1, <1>3, <1>4 DEF KeysInOrder, KeysOf
<1>6. k \notin todo[v] => k < j
  BY <1>2, <1>3, <1>5 DEF KeysOf
<1>7. CASE pc[v] = "scope"
  <2>1. k \notin todo[v] /\ k \notin scope
    BY <1>1, <1>4, <1>5, <1>7 DEF KeysOf
  <2>2. pc[w] = "scope"
    <3>1. pc[w] = "lock" /\ Strategy = "rows" => k \in scope
      BY <1>1, <1>3, <1>5 DEF KeysOf
    <3>2. pc[w] = "lock" => Strategy = "rows"
      BY <1>7 DEF XidsHeld
    <3>3. QED
      BY <1>3, <2>1, <3>1, <3>2
  <2>3. QED
    BY <1>4, <1>6, <1>7, <2>1, <2>2 DEF Ahead
<1>8. CASE pc[v] = "lock" /\ pc[w] = "lock"
  <2>1. k \notin todo[v]
    <3>1. k \in todo[v] => Strategy = "rows" /\ k \notin scope
      BY <1>1, <1>5, <1>8 DEF KeysOf
    <3>2. Strategy = "rows" => k \in scope
      BY <1>1, <1>3, <1>5, <1>8 DEF KeysOf
    <3>3. QED
      BY <3>1, <3>2
  <2>2. QED
    BY <1>4, <1>6, <1>8, <2>1 DEF Ahead
<1>9. CASE pc[v] = "lock" /\ pc[w] = "scope"
  BY <1>9 DEF Ahead
<1>10. QED
  BY <1>3, <1>7, <1>8, <1>9

LEMMA NoCircle ==
    ASSUME TypeOK, XidsHeld, KeysInOrder, NEW S \in SUBSET Writers, S # {}, IsFiniteSet(S)
    PROVE  \E w \in S : \A v \in S : ~WaitsFor(w, v)
<1>1. SUFFICES ASSUME \A w \in S : \E v \in S : WaitsFor(w, v)
               PROVE  FALSE
  OBVIOUS
<1> DEFINE R == {p \in S \X S : Ahead(p[2], p[1])}
<1>2. \A w \in S : pc[w] \in {"scope", "lock"} /\ NextKey(w) \in Nat
  <2>1. SUFFICES ASSUME NEW w \in S PROVE pc[w] \in {"scope", "lock"} /\ NextKey(w) \in Nat
    OBVIOUS
  <2>2. pc[w] \in {"scope", "lock"} /\ \E k \in todo[w] : IsNext(w, k)
    BY <1>1 DEF WaitsFor
  <2>3. QED
    BY <2>2, NextKeyIs
<1>3. \A x \in S : <<x, x>> \notin R
  BY <1>2 DEF Ahead
<1>4. \A x, y, z \in S : <<x, y>> \in R /\ <<y, z>> \in R => <<x, z>> \in R
  BY <1>2 DEF Ahead
<1>5. \A w \in S : \E v \in S : <<w, v>> \in R
  BY <1>1, WaitsAhead
<1> HIDE DEF R
<1>6. \E w \in S : \A v \in S : <<w, v>> \notin R
  BY <1>3, <1>4, Greatest, Zenon
<1>7. QED
  BY <1>5, <1>6

(* Appends never wait for one another in a circle, under either lock strategy,   *)
(* for any tags, hash and number of writers: keys are taken in sorted order      *)
(* (PgSchema.res, dcb_append, step 2).                                          *)
THEOREM LocksAreOrdered == Spec => []NoCircularWait
<1>1. TypeOK /\ AppendInv => NoCircularWait
  BY NoCircle DEF AppendInv, NoCircularWait
<1>2. QED
  BY <1>1, AppendInvariant, PTL DEF IndInv
-----------------------------------------------------------------------------
(* The contract of a DCB log.                                                 *)

LEMMA InitContract == Init => Contract!Init
<1>1. SUFFICES ASSUME Init PROVE Contract!Init
  OBVIOUS
<1>2. Stored = {}
  BY <1>1 DEF Init, DatabaseInit, Stored, Visible
<1>3. saw = [w \in Writers |-> {}] /\ pc = [w \in Writers |-> "read"]
  BY <1>1 DEF Init
<1>4. Status = [w \in Writers |-> "open"]
  BY <1>3 DEF Status
<1>5. QED
  BY <1>2, <1>3, <1>4 DEF Contract!Init

\* The places of the stored events a writer asks for are the cursors of their rows.
LEMMA WantedAre ==
    ASSUME NEW w \in Writers
    PROVE  Contract!Wanted(w) = Cursors(Matching(w, Visible))
<1>1. ASSUME NEW c \in Contract!Wanted(w) PROVE c \in Cursors(Matching(w, Visible))
  <2>1. PICK e \in Stored : RelevantTo(w, e.event) /\ c = e.at
    BY <1>1 DEF Contract!Wanted
  <2>2. PICK r \in Visible : e = [at |-> CursorOf(r), event |-> r.event, by |-> r.by]
    BY <2>1 DEF Stored
  <2>3. QED
    BY <2>1, <2>2 DEF RelevantTo, Cursors, Matching
<1>2. ASSUME NEW c \in Cursors(Matching(w, Visible)) PROVE c \in Contract!Wanted(w)
  <2>1. PICK r \in Visible : Matches(r.event, QueryOf[w]) /\ c = CursorOf(r)
    BY <1>2 DEF Cursors, Matching
  <2>2. PICK e \in Stored : e = [at |-> CursorOf(r), event |-> r.event, by |-> r.by]
    BY <2>1 DEF Stored
  <2>3. QED
    BY <2>1, <2>2 DEF Contract!Wanted, RelevantTo
<1>3. QED
  BY <1>1, <1>2

\* What keeps the visible rows, the reads and the ends of the writers stutters.
LEMMA Stutters ==
    ASSUME UNCHANGED <<Visible, saw>>,
           \A w \in Writers : pc'[w] = pc[w] \/ {pc[w], pc'[w]} \cap {"done", "failed"} = {}
    PROVE  UNCHANGED Contract!vars
<1>1. Stored' = Stored
  BY DEF Stored
<1>2. \A w \in Writers : (IF pc[w] \in {"done", "failed"} THEN pc[w] ELSE "open")'
                        = (IF pc[w] \in {"done", "failed"} THEN pc[w] ELSE "open")
  OBVIOUS
<1>3. Status' = Status
  BY <1>2 DEF Status
<1>4. QED
  BY <1>1, <1>3 DEF Contract!vars

LEMMA ReadsAreReads ==
    ASSUME TypeOK, NEW w \in Writers, ReadPage(w)
    PROVE  Contract!Read(w)
<1>1. PICK S \in Pages(Matching(w, FencedAfter(after[w]))) :
          saw' = [saw EXCEPT ![w] = @ \cup Cursors(S)]
  BY DEF ReadPage
<1>2. S \subseteq Matching(w, Visible)
  BY DEF Pages, Matching, FencedAfter, Fenced
<1>3. Cursors(S) \subseteq Contract!Wanted(w)
  BY <1>2, WantedAre DEF Cursors
<1>4. \E T \in SUBSET Contract!Wanted(w) : saw' = [saw EXCEPT ![w] = @ \cup T]
  BY <1>1, <1>3
<1>5. pc[w] = "read" /\ Stored' = Stored
  BY DEF ReadPage, database, Stored, Visible
<1>6. pc \in [Writers -> {"read", "scope", "lock", "check", "insert", "commit", "done", "failed"}]
      /\ \E p \in {"read", "check", "scope", "lock"} : pc' = [pc EXCEPT ![w] = p]
  BY DEF TypeOK, ReadPage, FirstStep
<1>7. \A v \in Writers : (IF pc[v] \in {"done", "failed"} THEN pc[v] ELSE "open")'
                        = (IF pc[v] \in {"done", "failed"} THEN pc[v] ELSE "open")
  BY <1>5, <1>6
<1>8. Status' = Status /\ Status[w] = "open"
  BY <1>5, <1>7 DEF Status
<1>9. QED
  BY <1>4, <1>5, <1>8 DEF Contract!Read

LEMMA CommitsAppend ==
    ASSUME TypeOK, AppendInv, Tagged, NEW w \in Writers, CommitAppend(w)
    PROVE  Contract!Append(w)
<1>1. /\ pc[w] = "commit" /\ saw' = saw /\ rows' = rows /\ running' = running \ {xid[w]}
      /\ pc' = [pc EXCEPT ![w] = "done"]
  BY DEF CommitAppend, Commit, EndXid
<1>2. xid[w] \in running
  BY <1>1 DEF AppendInv, XidsHeld
<1>3. PICK base \in 1..nextPos :
          {r \in rows : r.tx = xid[w]} =
              {[tx |-> xid[w], pos |-> base + i - 1, event |-> EventsOf[w][i],
                by |-> w, saw |-> saw[w]] : i \in DOMAIN EventsOf[w]}
  BY <1>1 DEF AppendInv, BatchesHold
<1> DEFINE at == [i \in DOMAIN EventsOf[w] |-> [tx |-> xid[w], pos |-> base + i - 1]]
           own == {r \in rows : r.tx = xid[w]}
<1>4. base \in Nat /\ \A i \in DOMAIN EventsOf[w] : i \in Nat
  BY DecidedEvents DEF TypeOK, DatabaseOK
<1>5. Visible' = Visible \cup own
  BY <1>1, <1>2 DEF Visible
<1>6. Contract!Entries(w, at) = {[at |-> CursorOf(r), event |-> r.event, by |-> r.by] : r \in own}
  <2> DEFINE row(i) == [tx |-> xid[w], pos |-> base + i - 1, event |-> EventsOf[w][i],
                        by |-> w, saw |-> saw[w]]
             entry(r) == [at |-> CursorOf(r), event |-> r.event, by |-> r.by]
  <2>1. own = {row(i) : i \in DOMAIN EventsOf[w]}
    BY <1>3
  <2>2. \A i \in DOMAIN EventsOf[w] :
            entry(row(i)) = [at |-> at[i], event |-> EventsOf[w][i], by |-> w]
    BY DEF CursorOf
  <2> HIDE DEF row, entry, at
  <2>3. Contract!Entries(w, at) = {entry(row(i)) : i \in DOMAIN EventsOf[w]}
    BY <2>2 DEF Contract!Entries
  <2>4. {entry(row(i)) : i \in DOMAIN EventsOf[w]} = {entry(r) : r \in own}
    BY <2>1
  <2>5. QED
    BY <2>3, <2>4 DEF entry
<1>7. Stored' = Stored \cup Contract!Entries(w, at)
  BY <1>5, <1>6 DEF Stored
<1>8. \A i, j \in DOMAIN EventsOf[w] : at[i] = at[j] => i = j
  BY <1>4
<1>9. at \in [DOMAIN EventsOf[w] -> {e.at : e \in Stored'} \ Contract!Places]
  <2>1. SUFFICES ASSUME NEW i \in DOMAIN EventsOf[w]
                 PROVE  at[i] \in {e.at : e \in Stored'} /\ at[i] \notin Contract!Places
    OBVIOUS
  <2>2. [at |-> at[i], event |-> EventsOf[w][i], by |-> w] \in Stored'
    BY <1>7 DEF Contract!Entries
  <2>3. \A e \in Stored : e.at.tx # xid[w]
    BY <1>2 DEF Stored, Visible, CursorOf
  <2>4. QED
    BY <2>2, <2>3 DEF Contract!Places
<1>10. w \in Conditional => Contract!Wanted(w) \subseteq saw[w]
  BY <1>1, NoneSlips, WantedAre DEF NoneSlipsIn
<1>11. pc \in [Writers -> {"read", "scope", "lock", "check", "insert", "commit", "done", "failed"}]
  BY DEF TypeOK
<1>12. Status[w] = "open" /\ Status' = [Status EXCEPT ![w] = "done"]
  BY <1>1, <1>11 DEF Status
<1>13. QED
  BY <1>1, <1>7, <1>8, <1>9, <1>10, <1>12 DEF Contract!Append

LEMMA StepContract ==
    ASSUME TypeOK, TypeOK', AppendInv, Tagged, [Next]_vars
    PROVE  [Contract!Next]_Contract!vars
<1>1. /\ XidsHeld /\ RowsKnown
      /\ pc \in [Writers -> {"read", "scope", "lock", "check", "insert", "commit", "done", "failed"}]
      /\ pc' \in [Writers -> {"read", "scope", "lock", "check", "insert", "commit", "done", "failed"}]
  BY DEF AppendInv, TypeOK
<1>2. ASSUME NEW w \in Writers, ReadPage(w) PROVE Contract!Next
  BY <1>2, ReadsAreReads DEF Contract!Next
<1>3. ASSUME NEW w \in Writers, CommitAppend(w) PROVE Contract!Next
  BY <1>3, CommitsAppend DEF Contract!Next
<1>4. ASSUME ~ \E w \in Writers : CommitAppend(w) PROVE Visible' = Visible
  BY <1>1, <1>4, VisibleStays
<1>5. ASSUME NEW w \in Writers, NEW p \in {"scope", "lock", "check", "insert", "commit", "read"},
             NEW q \in {"scope", "lock", "check", "insert", "commit", "read"},
             pc[w] = p, pc' = [pc EXCEPT ![w] = q], Visible' = Visible, saw' = saw
      PROVE  UNCHANGED Contract!vars
  <2>1. \A v \in Writers : pc'[v] = pc[v] \/ {pc[v], pc'[v]} \cap {"done", "failed"} = {}
    BY <1>1, <1>5
  <2>2. QED
    BY <1>5, <2>1, Stutters
<1>6. ASSUME NEW w \in Writers, Conflict(w) \/ AppendFails(w)
      PROVE  [Contract!Next]_Contract!vars
  <2>1. RollbackAndRetry(w) /\ pc[w] \in {"scope", "lock", "check", "insert", "commit"}
    BY <1>6 DEF Conflict, AppendFails
  <2>2. saw' = saw /\ (pc' = [pc EXCEPT ![w] = "read"] \/ pc' = [pc EXCEPT ![w] = "failed"])
    BY <2>1 DEF RollbackAndRetry
  <2>3. ~ \E v \in Writers : CommitAppend(v)
    BY <1>1, <2>1, <2>2 DEF CommitAppend
  <2>4. Visible' = Visible
    BY <1>4, <2>3
  <2>5. CASE pc' = [pc EXCEPT ![w] = "read"]
    BY <1>5, <2>1, <2>2, <2>4, <2>5
  <2>6. CASE pc' = [pc EXCEPT ![w] = "failed"]
    <3>1. Status[w] = "open" /\ Status' = [Status EXCEPT ![w] = "failed"]
      BY <1>1, <2>1, <2>6 DEF Status
    <3>2. Stored' = Stored
      BY <2>4 DEF Stored
    <3>3. QED
      BY <2>2, <3>1, <3>2 DEF Contract!Fail, Contract!Next
  <2>7. QED
    BY <2>2, <2>5, <2>6
<1>7. ASSUME NEW w \in Writers, NEW k \in todo[w], InsertScope(w, k) \/ AcquireLock(w, k)
      PROVE  UNCHANGED Contract!vars
  <2>1. /\ saw' = saw /\ pc[w] \in {"scope", "lock"}
        /\ \E q \in {"scope", "lock", "check"} : pc' = [pc EXCEPT ![w] = q]
    BY <1>1, <1>7 DEF InsertScope, AcquireLock
  <2>2. ~ \E v \in Writers : CommitAppend(v)
    BY <1>1, <2>1 DEF CommitAppend
  <2>3. QED
    BY <1>4, <1>5, <2>1, <2>2
<1>8. ASSUME NEW w \in Writers, CheckPasses(w) \/ InsertEvents(w)
      PROVE  UNCHANGED Contract!vars
  <2>1. /\ saw' = saw /\ pc[w] \in {"check", "insert"}
        /\ \E q \in {"insert", "commit"} : pc' = [pc EXCEPT ![w] = q]
    BY <1>8 DEF CheckPasses, InsertEvents
  <2>2. ~ \E v \in Writers : CommitAppend(v)
    BY <1>1, <2>1 DEF CommitAppend
  <2>3. QED
    BY <1>4, <1>5, <2>1, <2>2
<1>9. CASE OtherBegins \/ (\E x \in running : OtherEnds(x)) \/ UNCHANGED vars
  <2>1. saw' = saw /\ pc' = pc
    BY <1>9 DEF OtherBegins, OtherEnds, vars, writers
  <2>2. ~ \E v \in Writers : CommitAppend(v)
    BY <1>1, <2>1 DEF CommitAppend
  <2>3. QED
    BY <1>4, <2>1, <2>2, Stutters
<1>10. QED
  BY <1>2, <1>3, <1>6, <1>7, <1>8, <1>9 DEF Next, Step

(* The Postgres log keeps the contract of a DCB log (ConditionalAppend): when     *)
(* every clause of a condition has a tag, dcb_append stores the events of a        *)
(* command together, and only if its command has read all its condition asks for,  *)
(* under either lock strategy.                                                 *)
THEOREM ImplementsContract ==
    ASSUME Tagged
    PROVE  Spec => KeepsContract
<1>1. Init => Contract!Init
  BY InitContract
<1>2. TypeOK /\ TypeOK' /\ AppendInv /\ [Next]_vars => [Contract!Next]_Contract!vars
  BY StepContract
<1>3. QED
  BY <1>1, <1>2, TypeCorrect, AppendInvariant, PTL DEF IndInv, Spec, KeepsContract, Contract!Spec
=============================================================================
