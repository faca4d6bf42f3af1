------------------------------- MODULE PgLog -------------------------------
(***************************************************************************)
(* The event tables of the Postgres backend (dcb_event and event_log of      *)
(* PgSchema.res) as concurrent transactions see them.  A row carries the id  *)
(* of the transaction that inserted it and a position from a sequence, both   *)
(* taken before the commit that makes it visible.  Readers page through the   *)
(* rows in (transaction_id, position) order, behind the xmin fence.          *)
(***************************************************************************)
EXTENDS Integers, FiniteSets

CONSTANT PageSize \* rows per page: pageSize of readStream, limit of drain

ASSUME PageSizePositive == PageSize \in Nat \ {0}

VARIABLES
    nextXid, \* the next transaction id
    running, \* ids of the transactions in progress
    nextPos, \* the next value of the IDENTITY sequence
    rows     \* inserted rows, those of running transactions included

database == <<nextXid, running, nextPos, rows>>
-----------------------------------------------------------------------------
Cursor   == [tx : Nat, pos : Nat]
NoCursor == [tx |-> 0, pos |-> 0]

CursorOf(r) == [tx |-> r.tx, pos |-> r.pos]

\* (mutant) The cursor leaves out the position.
Mutant_Precedes(a, b) == a.tx < b.tx

\* ORDER BY transaction_id, position
Precedes(a, b) == a.tx < b.tx \/ (a.tx = b.tx /\ a.pos < b.pos)

\* READ COMMITTED: what a statement's snapshot sees of the other transactions.
\* The rows of an aborted transaction are gone.
Visible == {r \in rows : r.tx \notin running}

\* (mutant) A reader that takes every committed row.
Mutant_Fenced == Visible

\* transaction_id < pg_snapshot_xmin(pg_current_snapshot())
Fenced == {r \in Visible : \A x \in running : r.tx < x}

FencedAfter(cursor) == {r \in Fenced : Precedes(cursor, r)}

\* S is the first page of the rows T: the PageSize first of them, or all.
IsPage(S, T) ==
    /\ \A r \in S, q \in T \ S : Precedes(r, q)
    /\ IF S = T THEN Cardinality(S) <= PageSize ELSE Cardinality(S) = PageSize

\* The pages T may begin with (there is exactly one).
Pages(T) == {S \in SUBSET T : IsPage(S, T)}

\* A page's cursor is that of its last row.
IsLast(r, S) == r \in S /\ \A q \in S : q = r \/ Precedes(q, r)

FullPage(S) == Cardinality(S) = PageSize
\* The rows at or before a cursor.
UpTo(c) == {r \in rows : ~Precedes(c, r)}

\* A cursor below every transaction that may still commit.
Settled(c) == c.tx < nextXid /\ \A x \in running : c.tx < x
-----------------------------------------------------------------------------
DatabaseInit == nextXid = 1 /\ running = {} /\ nextPos = 1 /\ rows = {}

\* A transaction gets its id at its first write (pg_current_xact_id).
TakeXid == nextXid' = nextXid + 1 /\ running' = running \cup {nextXid}

EndXid(x) == running' = running \ {x} /\ UNCHANGED <<nextXid, nextPos>>

Commit(x) == EndXid(x) /\ rows' = rows

Rollback(x) == EndXid(x) /\ rows' = {r \in rows : r.tx # x}
-----------------------------------------------------------------------------
DatabaseOK ==
    /\ nextXid \in Nat \ {0} /\ nextPos \in Nat \ {0}
    /\ running \subseteq 1..(nextXid - 1)
    /\ \A r \in rows : r.tx \in 1..(nextXid - 1) /\ r.pos \in 1..(nextPos - 1)
    /\ \A r, q \in rows : r.pos = q.pos => r = q

(* What PgChangeFeed.res promises of the cursor a reader is given: it is       *)
(* stable.  Rows only become readable behind all the rows readable before,    *)
(* however late their transaction commits.                                   *)
FencedPrefixGrows ==
    /\ Fenced \subseteq Fenced'
    /\ \A r \in Fenced, q \in Fenced' \ Fenced : Precedes(r, q)
=============================================================================
