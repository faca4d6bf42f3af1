------------------------- MODULE ViewProjection_proofs --------------------------
(* What merging the actions of a row does, for every view.                       *)
EXTENDS ViewProjection, Integers, SequenceTheorems, WellFoundedInduction, TLAPS

Rows == States \cup {NoRow}

OnRow(id) == {a \in Actions : a.id = id}

-----------------------------------------------------------------------------
(* Induction over a set of numbers, and the recursion it allows.           *)

NatLess == {ss \in Nat \X Nat : ss[1] < ss[2]}

LEMMA NatLessIsWellFounded == IsWellFoundedOn(NatLess, Nat)
BY NatLessThanWellFounded DEF OpToRel, NatLess

LEMMA SetInduction ==
  ASSUME NEW S \in SUBSET Nat, 0 \in S, \A n \in S : n + 1 \in S
  PROVE  S = Nat
<1> SUFFICES ASSUME Nat \ S # {} PROVE FALSE
  OBVIOUS
<1>1. PICK x \in Nat \ S : \A y \in Nat \ S : <<y, x>> \notin NatLess
  BY NatLessIsWellFounded, WFMin
<1>2. x # 0 /\ x - 1 \in Nat /\ x - 1 < x
  BY <1>1
<1>3. x - 1 \in S
  BY <1>1, <1>2 DEF NatLess
<1> QED
  BY <1>1, <1>2, <1>3

(* The same up to a bound.                                                 *)
LEMMA BoundedInduction ==
  ASSUME NEW n \in Nat, NEW S \in SUBSET (0 .. n),
         0 \in S, \A k \in 0 .. n - 1 : k \in S => k + 1 \in S
  PROVE  S = 0 .. n
<1> DEFINE U == {k \in Nat : k <= n => k \in S}
<1>1. 0 \in U
  OBVIOUS
<1>2. \A k \in U : k + 1 \in U
  OBVIOUS
<1>3. U = Nat
  <2> HIDE DEF U
  <2>1. U \in SUBSET Nat
    BY DEF U
  <2> QED
    BY <1>1, <1>2, <2>1, SetInduction
<1>4. ASSUME NEW k \in 0 .. n
      PROVE  k \in S
  <2>1. k \in U
    BY <1>3
  <2> QED
    BY <2>1
<1> QED
  BY <1>4

Steps(T, n) == [1 .. n -> [T -> T]]

Iterates(f, T, base, n, step) ==
  /\ f \in [0 .. n -> T] /\ f[0] = base
  /\ \A k \in 1 .. n : f[k] = step[k][f[k - 1]]

LEMMA Recursion ==
  ASSUME NEW T, NEW base \in T, NEW n \in Nat, NEW step \in Steps(T, n)
  PROVE  \E f : Iterates(f, T, base, n, step)
<1> USE DEF Steps
<1> DEFINE Defines(f, m) == /\ f \in [0 .. m -> T] /\ f[0] = base
                            /\ \A k \in 1 .. m : f[k] = step[k][f[k - 1]]
           S == {m \in 0 .. n : \E f : Defines(f, m)}
<1>1. 0 \in S
  <2> DEFINE g == [k \in 0 .. 0 |-> base]
  <2>1. Defines(g, 0)
    OBVIOUS
  <2>2. 0 \in 0 .. n
    OBVIOUS
  <2> HIDE DEF g, Defines
  <2> QED
    BY <2>1, <2>2
<1>2. ASSUME NEW m \in 0 .. n - 1, m \in S
      PROVE  m + 1 \in S
  <2>1. PICK f : Defines(f, m)
    BY <1>2
  <2> DEFINE g == [k \in 0 .. m + 1 |-> IF k = m + 1 THEN step[m + 1][f[m]] ELSE f[k]]
  <2>2. step[m + 1][f[m]] \in T
    BY <2>1
  <2>3. g \in [0 .. m + 1 -> T] /\ g[0] = base /\ g[m + 1] = step[m + 1][f[m]]
    BY <2>1, <2>2
  <2>4. \A k \in 0 .. m : g[k] = f[k]
    OBVIOUS
  <2>5. ASSUME NEW k \in 1 .. m + 1
        PROVE  g[k] = step[k][g[k - 1]]
    <3>1. g[k - 1] = f[k - 1]
      BY <2>4
    <3>2. CASE k = m + 1
      BY <3>1, <3>2, <2>3
    <3>3. CASE k \in 1 .. m
      BY <3>1, <3>3, <2>1, <2>4
    <3> QED
      BY <3>2, <3>3
  <2> HIDE DEF g
  <2>6. Defines(g, m + 1)
    BY <2>3, <2>5
  <2> QED
    BY <2>6
<1>3. S = 0 .. n
  <2> HIDE DEF S
  <2>1. S \in SUBSET (0 .. n)
    BY DEF S
  <2> QED
    BY <1>1, <1>2, <2>1, BoundedInduction
<1>4. n \in S
  BY <1>3
<1>5. PICK f : Defines(f, n)
  BY <1>4
<1> QED
  BY <1>5 DEF Iterates

-----------------------------------------------------------------------------
LEMMA ChangesAre ==
  ASSUME NEW c \in Changes
  PROVE  DOMAIN c \subseteq Fields /\ \A f \in DOMAIN c : c[f] \in Values
BY DEF Changes

LEMMA ChangedIsState ==
  ASSUME NEW state \in States, NEW c \in Changes
  PROVE  Changed(state, c) \in States
BY ChangesAre DEF Changed, States

LEMMA ThenIsChange ==
  ASSUME NEW c \in Changes, NEW d \in Changes
  PROVE  Then(c, d) \in Changes
<1> DEFINE fs == DOMAIN c \cup DOMAIN d
<1>1. fs \in SUBSET Fields
  BY ChangesAre
<1>2. Then(c, d) \in [fs -> Values]
  BY ChangesAre DEF Then
<1> QED
  BY <1>1, <1>2 DEF Changes

(* Two changes one after the other are their chain at once.                *)
LEMMA ChainIsBoth ==
  ASSUME NEW state \in States, NEW c \in Changes, NEW d \in Changes
  PROVE  Changed(Changed(state, c), d) = Changed(state, Then(c, d))
BY ChangesAre DEF Changed, Then, States

LEMMA NoRowIsNoState == NoRow \notin States
BY ProjectionAssumption

LEMMA AppliedIsRow ==
  ASSUME NEW a \in Actions, NEW row \in Rows
  PROVE  Applied(a, row) \in Rows
<1> USE DEF Actions, Rows, Kinds
<1>1. CASE a.kind \in {"Create", "Set", "Delete"}
  BY <1>1 DEF Applied, Accepts, Stored
<1>2. CASE a.kind \in {"Update", "UpdateWithDefault"}
  <2>1. CASE row = NoRow
    BY <1>2, <2>1 DEF Applied, Accepts, Stored
  <2>2. CASE row \in States
    BY <1>2, <2>2, ChangedIsState, NoRowIsNoState DEF Applied, Accepts, Stored
  <2> QED
    BY <2>1, <2>2
<1> QED
  BY <1>1, <1>2

(* What a change leaves, and what a default does.                          *)
LEMMA AppliedUpdate ==
  ASSUME NEW a \in Actions, NEW row \in Rows
  PROVE  /\ a.kind = "Update" =>
              Applied(a, row) = IF row = NoRow THEN NoRow ELSE Changed(row, a.change)
         /\ a.kind = "UpdateWithDefault" =>
              Applied(a, row) = IF row = NoRow THEN a.state ELSE Changed(row, a.change)
         /\ a.kind = "Set" => Applied(a, row) = a.state
         /\ a.kind = "Create" /\ row = NoRow => Applied(a, row) = a.state
         /\ a.kind = "Delete" => Applied(a, row) = NoRow
BY DEF Applied, Accepts, Stored

(* Merging two actions on a row loses nothing (mergeActions): whatever row *)
(* it finds, the merged action leaves what the two leave one after the     *)
(* other, unless one of them creates a row that is there.  Optimized is a  *)
(* fold of this step.                                                      *)
THEOREM MergeKeepsEffect ==
  ASSUME NEW last \in Actions, NEW next \in Actions, last.id = next.id,
         NEW row \in Rows,
         Merge(last, next) # NotMerged,
         last.kind = "Create" => row = NoRow,
         next.kind = "Create" => Applied(last, row) = NoRow
  PROVE  Applied(Merge(last, next), row) = Applied(next, Applied(last, row))
<1> DEFINE merged == Merge(last, next)
           chain == Then(last.change, next.change)
           mid == Applied(last, row)
<1>1. /\ last.change \in Changes /\ next.change \in Changes
      /\ last.kind \in Kinds /\ next.kind \in Kinds
      /\ last.state \in Rows /\ next.state \in Rows
      /\ mid \in Rows
  BY AppliedIsRow DEF Actions, Rows
<1>2. CASE next.kind \in {"Set", "Delete"}
  <2>1. merged = next
    BY <1>2, <1>1 DEF Merge, Kinds
  <2> QED
    BY <2>1, <1>2, <1>1, AppliedUpdate
<1>3. CASE next.kind = "Create"
  <2>1. CASE last.kind = "Create"
    BY <2>1, <1>3, <1>1, AppliedUpdate, NoRowIsNoState DEF Actions
  <2>2. CASE last.kind = "UpdateWithDefault"
    BY <2>2, <1>3, <1>1, AppliedUpdate, NoRowIsNoState, ChangedIsState DEF Actions, Rows
  <2>3. CASE last.kind = "Delete"
    <3>1. merged = Set(next.id, next.state)
      BY <2>3, <1>3 DEF Merge
    <3>2. Applied(merged, row) = next.state
      BY <3>1 DEF Applied, Accepts, Stored, Set
    <3> QED
      BY <3>2, <2>3, <1>3, <1>1, AppliedUpdate
  <2>4. CASE last.kind \in {"Set", "Update"}
    BY <2>4, <1>3 DEF Merge
  <2> QED
    BY <2>1, <2>2, <2>3, <2>4, <1>1 DEF Kinds
<1>4. CASE next.kind \in {"Update", "UpdateWithDefault"}
  <2>1. CASE last.kind = "Create"
    <3>1. merged = Create(last.id, Changed(last.state, next.change))
      BY <2>1, <1>4 DEF Merge
    <3>2. Applied(merged, row) = Changed(last.state, next.change)
      BY <3>1, <2>1 DEF Applied, Accepts, Stored, Create
    <3>3. mid = last.state /\ mid # NoRow
      BY <2>1, <1>1, AppliedUpdate, NoRowIsNoState DEF Actions
    <3> QED
      BY <3>2, <3>3, <1>4, <1>1, AppliedUpdate
  <2>2. CASE last.kind = "Update"
    <3>1. merged = [next EXCEPT !.change = chain]
      BY <2>2, <1>4 DEF Merge
    <3>2. merged \in Actions /\ merged.kind = next.kind /\ merged.state = next.state
          /\ merged.change = chain
      BY <3>1, <1>1, ThenIsChange DEF Actions
    <3>3. CASE row = NoRow
      <4>1. mid = NoRow
        BY <3>3, <2>2, AppliedUpdate, <1>1
      <4> QED
        BY <4>1, <3>2, <3>3, <1>4, <1>1, AppliedUpdate
    <3>4. CASE row \in States
      <4>1. mid = Changed(row, last.change) /\ mid \in States
        BY <3>4, <2>2, AppliedUpdate, <1>1, NoRowIsNoState, ChangedIsState
      <4>2. Applied(next, mid) = Changed(mid, next.change)
        BY <4>1, <1>4, <1>1, AppliedUpdate, NoRowIsNoState
      <4>3. Applied(merged, row) = Changed(row, chain)
        BY <3>2, <3>4, <1>4, AppliedUpdate, NoRowIsNoState
      <4> QED
        BY <4>1, <4>2, <4>3, <3>4, <1>1, ChainIsBoth
    <3> QED
      BY <3>3, <3>4 DEF Rows
  <2>3. CASE last.kind = "UpdateWithDefault"
    <3>0. last.state \in States
      BY <2>3 DEF Actions
    <3>1. merged = [last EXCEPT !.state = Changed(last.state, next.change), !.change = chain]
      BY <2>3, <1>4 DEF Merge
    <3>2. merged \in Actions /\ merged.kind = last.kind
          /\ merged.state = Changed(last.state, next.change) /\ merged.change = chain
      <4>1. Changed(last.state, next.change) \in States /\ chain \in Changes
        BY <3>0, <1>1, ThenIsChange, ChangedIsState
      <4>2. last \in [kind : Kinds, id : Ids, state : Rows, change : Changes]
        BY DEF Actions, Rows
      <4> HIDE DEF merged, chain
      <4>3. /\ merged.kind = last.kind /\ merged.state = Changed(last.state, next.change)
            /\ merged.change = chain
        BY <3>1, <4>2
      <4>4. merged \in [kind : Kinds, id : Ids, state : Rows, change : Changes]
        BY <3>1, <4>1, <4>2 DEF Rows
      <4> QED
        BY <4>1, <4>3, <4>4 DEF Actions, Rows
    <3>3. CASE row = NoRow
      <4>1. mid = last.state /\ mid # NoRow
        BY <3>0, <3>3, <2>3, AppliedUpdate, NoRowIsNoState
      <4> QED
        BY <4>1, <3>2, <3>3, <2>3, <1>4, <1>1, AppliedUpdate
    <3>4. CASE row \in States
      <4>1. mid = Changed(row, last.change) /\ mid \in States
        BY <3>4, <2>3, AppliedUpdate, <1>1, NoRowIsNoState, ChangedIsState
      <4>2. Applied(next, mid) = Changed(mid, next.change)
        BY <4>1, <1>4, <1>1, AppliedUpdate, NoRowIsNoState
      <4>3. Applied(merged, row) = Changed(row, chain)
        BY <3>2, <3>4, <2>3, AppliedUpdate, NoRowIsNoState
      <4> QED
        BY <4>1, <4>2, <4>3, <3>4, <1>1, ChainIsBoth
    <3> QED
      BY <3>3, <3>4 DEF Rows
  <2>4. CASE last.kind \in {"Set", "Delete"}
    BY <2>4, <1>4 DEF Merge
  <2> QED
    BY <2>1, <2>2, <2>3, <2>4, <1>1 DEF Kinds
<1> QED
  BY <1>1, <1>2, <1>3, <1>4 DEF Kinds

-----------------------------------------------------------------------------
(* A row after the first actions of a sequence.                            *)

RowStep(action, id, row) == IF action.id = id THEN Applied(action, row) ELSE row

LEMMA RowStepIsRow ==
  ASSUME NEW a \in Actions, NEW id, NEW row \in Rows
  PROVE  RowStep(a, id, row) \in Rows
BY AppliedIsRow DEF RowStep

LEMMA RowAfterIs ==
  ASSUME NEW actions \in Seq(Actions), NEW id, NEW row \in Rows
  PROVE  /\ RowAfter(actions, id, row) \in [0 .. Len(actions) -> Rows]
         /\ RowAfter(actions, id, row)[0] = row
         /\ \A n \in 1 .. Len(actions) :
              RowAfter(actions, id, row)[n] =
                RowStep(actions[n], id, RowAfter(actions, id, row)[n - 1])
<1> DEFINE N == Len(actions)
           step == [n \in 1 .. N |-> [r \in Rows |-> RowStep(actions[n], id, r)]]
           IsAfter(f) == f = [n \in 0 .. N |-> IF n = 0 THEN row
                                              ELSE IF actions[n].id = id
                                                   THEN Applied(actions[n], f[n - 1])
                                                   ELSE f[n - 1]]
<1>1. N \in Nat /\ \A n \in 1 .. N : actions[n] \in Actions
  OBVIOUS
<1>2. step \in Steps(Rows, N)
  BY <1>1, RowStepIsRow DEF Steps
<1>3. PICK f : Iterates(f, Rows, row, N, step)
  <2> HIDE DEF N, step
  <2> QED
    BY <1>1, <1>2, Recursion
<1>4. \A n \in 1 .. N : f[n] = RowStep(actions[n], id, f[n - 1])
  <2> TAKE n \in 1 .. N
  <2>1. n - 1 \in 0 .. N
    BY <1>1
  <2> QED
    BY <2>1, <1>3 DEF Iterates
<1>5. IsAfter(f)
  BY <1>1, <1>3, <1>4 DEF RowStep, Iterates
<1>6. RowAfter(actions, id, row) = CHOOSE g : IsAfter(g)
  BY DEF RowAfter
<1>7. IsAfter(RowAfter(actions, id, row))
  <2> HIDE DEF IsAfter
  <2> QED
    BY <1>5, <1>6
<1> DEFINE g == RowAfter(actions, id, row)
<1> HIDE DEF g, N
<1>8. /\ DOMAIN g = 0 .. N /\ g[0] = row
      /\ \A n \in 1 .. N : g[n] = RowStep(actions[n], id, g[n - 1])
  BY <1>1, <1>7 DEF g, RowStep
<1>9. \A n \in 0 .. N : g[n] \in Rows
  <2> DEFINE S == {n \in 0 .. N : g[n] \in Rows}
  <2>1. 0 \in S
    BY <1>1, <1>8
  <2>2. ASSUME NEW n \in 0 .. N - 1, n \in S
        PROVE  n + 1 \in S
    <3>1. n + 1 \in 1 .. N /\ (n + 1) - 1 = n
      BY <1>1
    <3> QED
      BY <1>1, <1>8, <2>2, <3>1, RowStepIsRow
  <2>3. S = 0 .. N
    <3> HIDE DEF S
    <3>1. S \in SUBSET (0 .. N)
      BY DEF S
    <3> QED
      BY <1>1, <2>1, <2>2, <3>1, BoundedInduction
  <2> QED
    BY <2>3
<1>10. g = [n \in 0 .. N |-> g[n]]
  BY <1>7 DEF g, N
<1> QED
  BY <1>8, <1>9, <1>10 DEF g, N

LEMMA NoActions ==
  ASSUME NEW id, NEW row \in Rows
  PROVE  ApplyAll(<<>>, id, row) = row
<1>1. <<>> \in Seq(Actions) /\ Len(<<>>) = 0
  OBVIOUS
<1> DEFINE after == RowAfter(<<>>, id, row)
<1>2. after[0] = row
  <2>1. \A actions \in Seq(Actions) : RowAfter(actions, id, row)[0] = row
    BY RowAfterIs
  <2> QED
    BY <1>1, <2>1
<1> HIDE DEF after
<1>3. after[Len(<<>>)] = row
  BY <1>1, <1>2
<1> QED
  BY <1>3 DEF ApplyAll, after

(* The first m actions of more are those that follow i others.             *)
Agree(actions, i, more, m) ==
  /\ i + m <= Len(actions) /\ m <= Len(more)
  /\ \A k \in 1 .. m : actions[i + k] = more[k]

(* Where two sequences agree, so do the rows, from wherever the first is   *)
(* cut.                                                                    *)
LEMMA RowAfterCut ==
  ASSUME NEW actions \in Seq(Actions), NEW more \in Seq(Actions), NEW id, NEW row \in Rows,
         NEW i \in Nat, NEW m \in Nat, Agree(actions, i, more, m)
  PROVE  \A k \in 0 .. m :
           RowAfter(more, id, RowAfter(actions, id, row)[i])[k] = RowAfter(actions, id, row)[i + k]
<1> DEFINE a == RowAfter(actions, id, row)
           b == RowAfter(more, id, a[i])
           S == {k \in 0 .. m : b[k] = a[i + k]}
<1> USE DEF Agree
<1>1. i \in 0 .. Len(actions) /\ Len(actions) \in Nat /\ Len(more) \in Nat
  OBVIOUS
<1>2. /\ a \in [0 .. Len(actions) -> Rows] /\ a[i] \in Rows
      /\ \A n \in 1 .. Len(actions) : a[n] = RowStep(actions[n], id, a[n - 1])
  <2>1. a \in [0 .. Len(actions) -> Rows]
    BY RowAfterIs
  <2>2. \A n \in 1 .. Len(actions) : a[n] = RowStep(actions[n], id, a[n - 1])
    BY RowAfterIs
  <2> HIDE DEF a
  <2> QED
    BY <1>1, <2>1, <2>2
<1>3. /\ b[0] = a[i]
      /\ \A n \in 1 .. Len(more) : b[n] = RowStep(more[n], id, b[n - 1])
  <2> HIDE DEF a
  <2>1. b[0] = a[i]
    BY <1>2, RowAfterIs
  <2>2. \A n \in 1 .. Len(more) : b[n] = RowStep(more[n], id, b[n - 1])
    BY <1>2, RowAfterIs
  <2> QED
    BY <2>1, <2>2
<1> HIDE DEF a, b
<1>4. 0 \in S
  BY <1>3
<1>5. ASSUME NEW k \in 0 .. m - 1, k \in S
      PROVE  k + 1 \in S
  <2>1. /\ k + 1 \in 1 .. m /\ k + 1 \in 1 .. Len(more) /\ (k + 1) - 1 = k
        /\ i + (k + 1) \in 1 .. Len(actions) /\ (i + (k + 1)) - 1 = i + k
    BY <1>1
  <2>2. b[k + 1] = RowStep(more[k + 1], id, b[k])
    BY <1>3, <2>1
  <2>3. a[i + (k + 1)] = RowStep(actions[i + (k + 1)], id, a[i + k])
    BY <1>2, <2>1
  <2>4. b[k] = a[i + k] /\ more[k + 1] = actions[i + (k + 1)]
    BY <1>5, <2>1
  <2>5. b[k + 1] = a[i + (k + 1)]
    BY <2>2, <2>3, <2>4
  <2> QED
    BY <2>1, <2>5
<1>6. S = 0 .. m
  <2> HIDE DEF S
  <2>1. S \in SUBSET (0 .. m)
    BY DEF S
  <2> QED
    BY <1>4, <1>5, <2>1, BoundedInduction
<1> QED
  BY <1>6 DEF a, b

LEMMA RowAfterPrefix ==
  ASSUME NEW actions \in Seq(Actions), NEW more \in Seq(Actions), NEW id, NEW row \in Rows,
         NEW m \in Nat, Agree(actions, 0, more, m)
  PROVE  \A k \in 0 .. m : RowAfter(more, id, row)[k] = RowAfter(actions, id, row)[k]
<1>1. RowAfter(actions, id, row)[0] = row
  BY RowAfterIs
<1>2. \A k \in 0 .. m : RowAfter(more, id, RowAfter(actions, id, row)[0])[k]
                          = RowAfter(actions, id, row)[0 + k]
  BY RowAfterCut
<1>3. \A k \in 0 .. m : 0 + k = k
  OBVIOUS
<1> QED
  BY <1>1, <1>2, <1>3

(* One action more.                                                        *)
LEMMA ApplyAllAppend ==
  ASSUME NEW actions \in Seq(Actions), NEW a \in Actions, NEW id, NEW row \in Rows
  PROVE  /\ RowAfter(Append(actions, a), id, row)[Len(actions)] = ApplyAll(actions, id, row)
         /\ ApplyAll(Append(actions, a), id, row) = RowStep(a, id, ApplyAll(actions, id, row))
<1> DEFINE more == Append(actions, a)
           n == Len(actions)
<1>1. more \in Seq(Actions) /\ Len(more) = n + 1 /\ n \in Nat /\ more[n + 1] = a
      /\ Agree(actions, 0, more, n)
  BY DEF Agree
<1> HIDE DEF more, n
<1>2. RowAfter(more, id, row)[n] = RowAfter(actions, id, row)[n]
  BY <1>1, RowAfterPrefix DEF n
<1>3. RowAfter(more, id, row)[n + 1] = RowStep(more[n + 1], id, RowAfter(more, id, row)[n])
  BY <1>1, RowAfterIs
<1> QED
  BY <1>1, <1>2, <1>3 DEF ApplyAll, more, n

-----------------------------------------------------------------------------
(* Merging a batch.                                                        *)

LEMMA MergeIsAction ==
  ASSUME NEW id, NEW last \in OnRow(id), NEW next \in OnRow(id),
         Merge(last, next) # NotMerged
  PROVE  /\ Merge(last, next) \in OnRow(id)
         /\ Merge(last, next).kind = "Create" => last.kind = "Create"
<1> DEFINE merged == Merge(last, next)
           chain == Then(last.change, next.change)
<1>1. /\ last.change \in Changes /\ next.change \in Changes
      /\ last.kind \in Kinds /\ next.kind \in Kinds /\ last.id = id /\ next.id = id
      /\ last \in Actions /\ next \in Actions /\ id \in Ids
  BY DEF Actions, OnRow
<1>2. chain \in Changes
  BY <1>1, ThenIsChange
<1>3. <<>> \in Changes
  <2>1. <<>> = [f \in {} |-> NoRow]
    OBVIOUS
  <2>2. <<>> \in [{} -> Values] /\ {} \in SUBSET Fields
    BY <2>1
  <2> QED
    BY <2>2 DEF Changes
<1>4. CASE merged \in {last, next}
  <2>1. CASE next.kind # "Create"
    BY <1>4, <1>1, <2>1
  <2>2. CASE next.kind = "Create" /\ last.kind # "Create"
    <3>1. merged \in {last, Set(next.id, next.state)}
      BY <2>2 DEF Merge
    <3>2. merged # next
      BY <2>2, <3>1 DEF Set
    <3> QED
      BY <1>1, <1>4, <2>2, <3>2
  <2> QED
    BY <1>4, <1>1, <2>1, <2>2
<1>5. CASE last.kind = "Create" /\ next.kind \in {"Update", "UpdateWithDefault"}
  <2>1. merged = Create(last.id, Changed(last.state, next.change))
    BY <1>5 DEF Merge
  <2>2. Changed(last.state, next.change) \in States
    BY <1>1, <1>5, ChangedIsState DEF Actions
  <2> QED
    BY <1>1, <1>3, <1>5, <2>1, <2>2 DEF Create, Actions, OnRow, Kinds
<1>6. CASE last.kind = "Update" /\ next.kind \in {"Update", "UpdateWithDefault"}
  <2>1. merged = [next EXCEPT !.change = chain]
    BY <1>6 DEF Merge
  <2> HIDE DEF merged, chain
  <2> QED
    BY <1>1, <1>2, <1>6, <2>1 DEF Actions, OnRow, merged
<1>7. CASE last.kind = "UpdateWithDefault" /\ next.kind \in {"Update", "UpdateWithDefault"}
  <2> DEFINE state == Changed(last.state, next.change)
  <2>1. merged = [last EXCEPT !.state = state, !.change = chain]
    BY <1>7 DEF Merge
  <2>2. state \in States
    BY <1>1, <1>7, ChangedIsState DEF Actions
  <2> HIDE DEF state, chain
  <2>3. merged \in OnRow(id) /\ merged.kind = last.kind
    <3> HIDE DEF merged
    <3> QED
      BY <1>1, <1>2, <1>7, <2>1, <2>2 DEF Actions, OnRow
  <2> QED
    BY <1>7, <2>3
<1>8. CASE last.kind = "Delete" /\ next.kind = "Create"
  <2>1. merged = Set(next.id, next.state)
    BY <1>8 DEF Merge
  <2> QED
    BY <1>1, <1>3, <1>8, <2>1 DEF Set, Actions, OnRow, Kinds
<1>9. \/ merged \in {last, next}
      \/ last.kind = "Create" /\ next.kind \in {"Update", "UpdateWithDefault"}
      \/ last.kind = "Update" /\ next.kind \in {"Update", "UpdateWithDefault"}
      \/ last.kind = "UpdateWithDefault" /\ next.kind \in {"Update", "UpdateWithDefault"}
      \/ last.kind = "Delete" /\ next.kind = "Create"
  BY DEF Merge
<1> QED
  BY <1>4, <1>5, <1>6, <1>7, <1>8, <1>9

LEMMA NotMergedIsNoAction == NotMerged \notin Actions
BY DEF NotMerged, Actions, Kinds

LEMMA FrontAndLast ==
  ASSUME NEW T, NEW done \in Seq(T), done # <<>>
  PROVE  /\ Front(done) \in Seq(T) /\ Len(Front(done)) = Len(done) - 1
         /\ Last(done) \in T /\ Len(done) - 1 \in Nat /\ Last(done) = done[Len(done)]
         /\ \A k \in 1 .. Len(done) - 1 : Front(done)[k] = done[k]
<1>1. Len(done) \in Nat /\ Len(done) # 0 /\ Len(done) - 1 \in Nat
  OBVIOUS
<1>2. \A k \in 1 .. Len(done) - 1 : k \in 1 .. Len(done)
  BY <1>1
<1>3. /\ SubSeq(done, 1, Len(done) - 1) \in Seq(T)
      /\ Len(SubSeq(done, 1, Len(done) - 1)) = Len(done) - 1
      /\ \A k \in 1 .. Len(done) - 1 : SubSeq(done, 1, Len(done) - 1)[k] = done[k]
  <2> DEFINE m == Len(done) - 1
             front == SubSeq(done, 1, m)
  <2>1. m \in Int /\ 1 \in Int /\ \A k \in 1 .. m : done[k] \in T
    BY <1>1, <1>2
  <2> HIDE DEF m
  <2>2. /\ front \in Seq(T) /\ Len(front) = (IF 1 <= m THEN m - 1 + 1 ELSE 0)
        /\ \A k \in 1 .. m - 1 + 1 : front[k] = done[1 + k - 1]
    BY <2>1, SubSeqProperties
  <2> HIDE DEF front
  <2>3. m - 1 + 1 = m /\ m \in Nat /\ \A k \in 1 .. m : 1 + k - 1 = k
    BY <1>1 DEF m
  <2>4. Len(front) = m /\ \A k \in 1 .. m : front[k] = done[k]
    BY <2>2, <2>3
  <2> QED
    BY <2>2, <2>4 DEF m, front
<1> QED
  BY <1>1, <1>3 DEF Front, Last

LEMMA OptimizeIs ==
  ASSUME NEW id, NEW done \in Seq(OnRow(id)), NEW next \in OnRow(id)
  PROVE  /\ Optimize(done, next) \in Seq(OnRow(id))
         /\ Optimize(done, next) # <<>>
         /\ \/ Optimize(done, next) = Append(done, next)
            \/ /\ done # <<>> /\ Merge(Last(done), next) # NotMerged
               /\ Merge(Last(done), next) \in OnRow(id)
               /\ Optimize(done, next) = Append(Front(done), Merge(Last(done), next))
<1>1. CASE done = <<>> \/ Merge(Last(done), next) = NotMerged
  BY <1>1 DEF Optimize
<1>2. CASE done # <<>> /\ Merge(Last(done), next) # NotMerged
  <2>1. Front(done) \in Seq(OnRow(id)) /\ Last(done) \in OnRow(id)
    BY <1>2, FrontAndLast
  <2>2. Merge(Last(done), next) \in OnRow(id)
    BY <1>2, <2>1, MergeIsAction
  <2> QED
    BY <1>2, <2>1, <2>2 DEF Optimize
<1> QED
  BY <1>1, <1>2

LEMMA OptimizedAfterIs ==
  ASSUME NEW actions \in Seq(Actions), NEW id
  PROVE  /\ OptimizedAfter(actions, id) \in [0 .. Len(actions) -> Seq(OnRow(id))]
         /\ OptimizedAfter(actions, id)[0] = <<>>
         /\ \A n \in 1 .. Len(actions) :
              OptimizedAfter(actions, id)[n] =
                IF actions[n].id = id THEN Optimize(OptimizedAfter(actions, id)[n - 1], actions[n])
                                      ELSE OptimizedAfter(actions, id)[n - 1]
<1> DEFINE N == Len(actions)
           T == Seq(OnRow(id))
           Next1(n, d) == IF actions[n].id = id THEN Optimize(d, actions[n]) ELSE d
           step == [n \in 1 .. N |-> [d \in T |-> Next1(n, d)]]
           IsAfter(f) == f = [n \in 0 .. N |-> IF n = 0 THEN <<>>
                                              ELSE IF actions[n].id = id
                                                   THEN Optimize(f[n - 1], actions[n])
                                                   ELSE f[n - 1]]
<1>1. N \in Nat /\ (\A n \in 1 .. N : actions[n] \in Actions) /\ <<>> \in T
  OBVIOUS
<1>2. \A n \in 1 .. N : \A d \in T : Next1(n, d) \in T
  BY <1>1, OptimizeIs DEF OnRow
<1>3. step \in Steps(T, N)
  <2> HIDE DEF Next1, T, N
  <2> QED
    BY <1>2 DEF Steps
<1>4. PICK f : Iterates(f, T, <<>>, N, step)
  <2> HIDE DEF N, step, T
  <2> QED
    BY <1>1, <1>3, Recursion
<1>5. \A n \in 1 .. N : f[n] = Next1(n, f[n - 1])
  <2> TAKE n \in 1 .. N
  <2>1. n - 1 \in 0 .. N
    BY <1>1
  <2> HIDE DEF Next1, T
  <2> QED
    BY <2>1, <1>4 DEF Iterates
<1>6. IsAfter(f)
  BY <1>1, <1>4, <1>5 DEF Iterates
<1>7. OptimizedAfter(actions, id) = CHOOSE g : IsAfter(g)
  BY DEF OptimizedAfter
<1>8. IsAfter(OptimizedAfter(actions, id))
  <2> HIDE DEF IsAfter
  <2> QED
    BY <1>6, <1>7
<1> DEFINE g == OptimizedAfter(actions, id)
<1>9. g = [n \in 0 .. N |-> g[n]]
  BY <1>8
<1> HIDE DEF g, N
<1>10. /\ DOMAIN g = 0 .. N /\ g[0] = <<>>
       /\ \A n \in 1 .. N : g[n] = Next1(n, g[n - 1])
  BY <1>1, <1>8 DEF g
<1> HIDE DEF Next1, T
<1>11. \A n \in 0 .. N : g[n] \in T
  <2> DEFINE S == {n \in 0 .. N : g[n] \in T}
  <2>1. 0 \in S
    BY <1>1, <1>10
  <2>2. ASSUME NEW n \in 0 .. N - 1, n \in S
        PROVE  n + 1 \in S
    <3>1. n + 1 \in 1 .. N /\ (n + 1) - 1 = n
      BY <1>1
    <3> QED
      BY <1>1, <1>2, <1>10, <2>2, <3>1
  <2>3. S = 0 .. N
    <3> HIDE DEF S
    <3>1. S \in SUBSET (0 .. N)
      BY DEF S
    <3> QED
      BY <1>1, <2>1, <2>2, <3>1, BoundedInduction
  <2> QED
    BY <2>3
<1> QED
  BY <1>9, <1>10, <1>11 DEF g, N, T, Next1

LEMMA OnRowIsAction ==
  ASSUME NEW id, NEW done \in Seq(OnRow(id))
  PROVE  done \in Seq(Actions)
BY DEF OnRow

(* The row before the last action, and after it.                           *)
LEMMA ApplyLast ==
  ASSUME NEW id, NEW done \in Seq(OnRow(id)), done # <<>>, NEW row \in Rows
  PROVE  /\ ApplyAll(Front(done), id, row) = RowAfter(done, id, row)[Len(done) - 1]
         /\ ApplyAll(done, id, row) = Applied(Last(done), ApplyAll(Front(done), id, row))
         /\ ApplyAll(Front(done), id, row) \in Rows
<1> DEFINE front == Front(done)
           n == Len(front)
<1>1. /\ front \in Seq(Actions) /\ done \in Seq(Actions) /\ n = Len(done) - 1 /\ n \in Nat
      /\ Last(done) = done[n + 1] /\ Last(done) \in OnRow(id)
      /\ n + 1 \in 1 .. Len(done) /\ Len(done) = n + 1 /\ (n + 1) - 1 = n
      /\ \A k \in 1 .. n : front[k] = done[k]
  BY FrontAndLast, OnRowIsAction
<1> HIDE DEF front, n
<1>2. Agree(front, 0, done, n)
  BY <1>1 DEF Agree, n
<1>3. RowAfter(done, id, row)[n] = RowAfter(front, id, row)[n]
  BY <1>1, <1>2, RowAfterPrefix
<1>4. RowAfter(done, id, row)[n + 1] = RowStep(done[n + 1], id, RowAfter(done, id, row)[n])
  BY <1>1, RowAfterIs
<1>5. RowAfter(front, id, row)[n] \in Rows
  <2>1. RowAfter(front, id, row) \in [0 .. Len(front) -> Rows]
    BY <1>1, RowAfterIs
  <2> QED
    BY <2>1, <1>1 DEF n
<1>6. RowStep(done[n + 1], id, RowAfter(done, id, row)[n]) = Applied(done[n + 1], RowAfter(done, id, row)[n])
  BY <1>1 DEF RowStep, OnRow
<1> QED
  BY <1>1, <1>3, <1>4, <1>5, <1>6 DEF ApplyAll, front, n

(* What the merged actions so far leave, and what a create among them,     *)
(* which is the last one, finds.                                           *)
Faithful(done, id, row, after) ==
  /\ ApplyAll(done, id, row) = after
  /\ done # <<>> /\ Last(done).kind = "Create" => ApplyAll(Front(done), id, row) = NoRow

LEMMA OptimizeIsFaithful ==
  ASSUME NEW id, NEW done \in Seq(OnRow(id)), NEW next \in OnRow(id),
         NEW row \in Rows, NEW after \in Rows, Faithful(done, id, row, after),
         next.kind = "Create" => after = NoRow
  PROVE  Faithful(Optimize(done, next), id, row, Applied(next, after))
<1> DEFINE merged == Merge(Last(done), next)
           front == Front(done)
<1>1. done \in Seq(Actions) /\ next \in Actions /\ next.id = id
  BY OnRowIsAction DEF OnRow
<1>2. ASSUME NEW d \in Seq(OnRow(id)), NEW a \in OnRow(id)
      PROVE  /\ Append(d, a) # <<>> /\ Last(Append(d, a)) = a /\ Front(Append(d, a)) = d
             /\ ApplyAll(Append(d, a), id, row) = Applied(a, ApplyAll(d, id, row))
  <2> DEFINE e == Append(d, a)
  <2>1. /\ e \in Seq(OnRow(id)) /\ e # <<>> /\ Len(e) = Len(d) + 1 /\ Len(d) \in Nat
        /\ e[Len(d) + 1] = a /\ \A k \in 1 .. Len(d) : e[k] = d[k]
    OBVIOUS
  <2> HIDE DEF e
  <2>2. Last(e) = a
    BY <2>1 DEF Last
  <2>3. Front(e) = d
    <3>1. /\ Front(e) \in Seq(OnRow(id)) /\ Len(Front(e)) = Len(e) - 1
          /\ \A k \in 1 .. Len(e) - 1 : Front(e)[k] = e[k]
      BY <2>1, FrontAndLast
    <3>2. Len(e) - 1 = Len(d)
      BY <2>1
    <3>3. Len(Front(e)) = Len(d) /\ \A k \in 1 .. Len(d) : Front(e)[k] = d[k]
      BY <2>1, <3>1, <3>2
    <3> HIDE DEF e
    <3> QED
      BY <3>1, <3>3, SeqEqual
  <2>4. ApplyAll(e, id, row) = Applied(Last(e), ApplyAll(Front(e), id, row))
    BY <2>1, ApplyLast
  <2> QED
    BY <2>1, <2>2, <2>3, <2>4 DEF e
<1>3. CASE Optimize(done, next) = Append(done, next)
  BY <1>2, <1>3 DEF Faithful
<1>4. CASE /\ done # <<>> /\ merged # NotMerged /\ merged \in OnRow(id)
           /\ Optimize(done, next) = Append(front, merged)
  <2> DEFINE before == ApplyAll(front, id, row)
             last == Last(done)
  <2>1. /\ front \in Seq(OnRow(id)) /\ last \in OnRow(id) /\ before \in Rows
        /\ ApplyAll(done, id, row) = Applied(last, before)
    BY <1>4, FrontAndLast, ApplyLast
  <2>2. /\ after = Applied(last, before)
        /\ last.kind = "Create" => before = NoRow
    BY <1>4, <2>1 DEF Faithful
  <2>3. last \in Actions /\ last.id = id
    BY <2>1 DEF OnRow
  <2>4. merged.kind = "Create" => last.kind = "Create"
    BY <1>4, <2>1, MergeIsAction
  <2> HIDE DEF before, last
  <2>5. Applied(merged, before) = Applied(next, after)
    BY <1>1, <1>4, <2>1, <2>2, <2>3, MergeKeepsEffect DEF last
  <2>6. /\ Append(front, merged) # <<>> /\ Last(Append(front, merged)) = merged
        /\ Front(Append(front, merged)) = front
        /\ ApplyAll(Append(front, merged), id, row) = Applied(merged, before)
    BY <1>2, <1>4, <2>1 DEF before
  <2> QED
    BY <1>4, <2>2, <2>4, <2>5, <2>6 DEF Faithful, before
<1> QED
  BY <1>3, <1>4, OptimizeIs

(* Merging the actions of a batch on a row (optimizeSourced) changes       *)
(* nothing, whatever the batch and the row it finds, unless an action      *)
(* creates a row that is there.                                            *)
THEOREM OptimizedKeepsEffect ==
  ASSUME NEW actions \in Seq(Actions), NEW id, NEW row \in Rows,
         ~ CreatesOverRow(actions, id, row)
  PROVE  ApplyAll(Optimized(actions, id), id, row) = ApplyAll(actions, id, row)
<1> DEFINE N == Len(actions)
           done == OptimizedAfter(actions, id)
           after == RowAfter(actions, id, row)
           S == {n \in 0 .. N : Faithful(done[n], id, row, after[n])}
<1>1. N \in Nat /\ \A n \in 1 .. N : actions[n] \in Actions
  OBVIOUS
<1>2. /\ done \in [0 .. N -> Seq(OnRow(id))] /\ done[0] = <<>>
      /\ \A n \in 1 .. N : done[n] = IF actions[n].id = id THEN Optimize(done[n - 1], actions[n])
                                                           ELSE done[n - 1]
  BY OptimizedAfterIs
<1>3. after \in [0 .. N -> Rows]
  BY RowAfterIs
<1>4. after[0] = row
  BY RowAfterIs
<1>5. \A n \in 1 .. N : after[n] = RowStep(actions[n], id, after[n - 1])
  BY RowAfterIs
<1>6. \A n \in 1 .. N : actions[n].id = id /\ actions[n].kind = "Create" => after[n - 1] = NoRow
  BY DEF CreatesOverRow
<1> HIDE DEF N, done, after
<1>7. 0 \in S
  <2>1. ApplyAll(<<>>, id, row) = row
    BY NoActions
  <2> QED
    BY <1>1, <1>2, <1>4, <2>1 DEF Faithful
<1>8. ASSUME NEW n \in 0 .. N - 1, n \in S
      PROVE  n + 1 \in S
  <2>1. /\ n + 1 \in 1 .. N /\ (n + 1) - 1 = n /\ n \in 0 .. N /\ n + 1 \in 0 .. N
    BY <1>1
  <2>2. /\ done[n] \in Seq(OnRow(id)) /\ after[n] \in Rows
        /\ Faithful(done[n], id, row, after[n]) /\ actions[n + 1] \in Actions
    BY <1>1, <1>2, <1>3, <1>8, <2>1
  <2>3. /\ done[n + 1] = IF actions[n + 1].id = id THEN Optimize(done[n], actions[n + 1])
                                                   ELSE done[n]
        /\ after[n + 1] = RowStep(actions[n + 1], id, after[n])
    BY <1>2, <1>5, <2>1
  <2>4. CASE actions[n + 1].id = id
    <3>1. actions[n + 1] \in OnRow(id)
      BY <2>2, <2>4 DEF OnRow
    <3>2. actions[n + 1].kind = "Create" => after[n] = NoRow
      BY <1>6, <2>1, <2>4
    <3>3. Faithful(Optimize(done[n], actions[n + 1]), id, row, Applied(actions[n + 1], after[n]))
      BY <2>2, <3>1, <3>2, OptimizeIsFaithful
    <3> QED
      BY <2>1, <2>3, <2>4, <3>3 DEF RowStep
  <2>5. CASE actions[n + 1].id # id
    BY <2>1, <2>2, <2>3, <2>5 DEF RowStep
  <2> QED
    BY <2>4, <2>5
<1>9. S = 0 .. N
  <2> HIDE DEF S
  <2>1. S \in SUBSET (0 .. N)
    BY DEF S
  <2> QED
    BY <1>1, <1>7, <1>8, <2>1, BoundedInduction
<1>10. Faithful(done[N], id, row, after[N])
  BY <1>1, <1>9
<1> QED
  BY <1>10 DEF Faithful, Optimized, ApplyAll, N, done, after

-----------------------------------------------------------------------------
(* What the variables hold.                                                *)

InHand == [busy : {TRUE}, upto : Nat, todo : [Lanes -> Seq(Actions)],
           seen : [Lanes -> Rows \cup {Unread}], ok : [Lanes -> BOOLEAN]]

Types ==
  /\ view \in Views
  /\ rows \in [Ids -> Rows]
  /\ from \in [Sources -> Nat]
  /\ batch \in [Sources -> InHand \cup {Idle}]

LEMMA ViewsAre ==
  ASSUME NEW v \in Views
  PROVE  /\ v.log \in [Sources -> Seq(Actions)]
         /\ v.merges \in BOOLEAN
BY ProjectionAssumption DEF ViewOK

LEMMA CutsAreActions ==
  ASSUME NEW actions \in Seq(Actions), NEW i \in Nat, NEW j \in Nat, j <= Len(actions)
  PROVE  /\ SubSeq(actions, i + 1, j) \in Seq(Actions)
         /\ Len(SubSeq(actions, i + 1, j)) = IF i < j THEN j - i ELSE 0
         /\ \A k \in 1 .. j - i : SubSeq(actions, i + 1, j)[k] = actions[i + k]
<1> DEFINE m == i + 1
           cut == SubSeq(actions, m, j)
<1>1. m \in Int /\ j \in Int /\ \A k \in m .. j : actions[k] \in Actions
  OBVIOUS
<1> HIDE DEF m
<1>2. /\ cut \in Seq(Actions) /\ Len(cut) = (IF m <= j THEN j - m + 1 ELSE 0)
      /\ \A k \in 1 .. j - m + 1 : cut[k] = actions[m + k - 1]
  BY <1>1, SubSeqProperties
<1> HIDE DEF cut
<1>3. j - m + 1 = j - i /\ (m <= j <=> i < j) /\ \A k \in 1 .. j - i : m + k - 1 = i + k
  BY DEF m
<1>4. Len(cut) = (IF i < j THEN j - i ELSE 0) /\ \A k \in 1 .. j - i : cut[k] = actions[i + k]
  BY <1>2, <1>3
<1> QED
  BY <1>2, <1>4 DEF cut, m

LEMMA OptimizedIs ==
  ASSUME NEW actions \in Seq(Actions), NEW id
  PROVE  Optimized(actions, id) \in Seq(OnRow(id)) /\ Optimized(actions, id) \in Seq(Actions)
<1>1. OptimizedAfter(actions, id) \in [0 .. Len(actions) -> Seq(OnRow(id))]
  BY OptimizedAfterIs
<1>2. Len(actions) \in 0 .. Len(actions)
  OBVIOUS
<1> QED
  BY <1>1, <1>2, OnRowIsAction DEF Optimized

(* An action that is accepted leaves a row.                                *)
LEMMA StoredIsRow ==
  ASSUME NEW a \in Actions, NEW row \in Rows, Accepts(a, row)
  PROVE  Stored(a, row) \in Rows
BY AppliedIsRow DEF Applied

LEMMA WorkingIs ==
  ASSUME Types, NEW s \in Sources, NEW lane, Working(s, lane)
  PROVE  /\ lane \in Lanes /\ batch[s] \in InHand
         /\ Head(batch[s].todo[lane]) \in Actions /\ Head(batch[s].todo[lane]).id \in Ids
         /\ Tail(batch[s].todo[lane]) \in Seq(Actions)
<1>1. batch[s] \in InHand
  BY DEF Types, Working, Idle
<1>2. lane \in Lanes /\ batch[s].todo[lane] \in Seq(Actions) /\ batch[s].todo[lane] # <<>>
  BY <1>1 DEF Working, InHand
<1> QED
  BY <1>1, <1>2, HeadTailProperties DEF Actions

LEMMA DoneKeepsTypes ==
  ASSUME Types, NEW s \in Sources, NEW lane, Working(s, lane), NEW ok \in BOOLEAN,
         Done(s, lane, ok)
  PROVE  batch' \in [Sources -> InHand \cup {Idle}]
<1>1. /\ lane \in Lanes /\ batch[s] \in InHand
      /\ Tail(batch[s].todo[lane]) \in Seq(Actions)
  BY WorkingIs
<1> DEFINE b == [batch[s] EXCEPT !.todo[lane] = Tail(@), !.seen[lane] = Unread, !.ok[lane] = ok]
<1>2. b \in InHand
  BY <1>1 DEF InHand
<1>3. batch' = [batch EXCEPT ![s] = b]
  BY <1>1 DEF Done, Types
<1> HIDE DEF b
<1> QED
  BY <1>2, <1>3 DEF Types

LEMMA BaseIsRow ==
  ASSUME Types, NEW s \in Sources, NEW lane, Working(s, lane), Base(s, lane) # Unread
  PROVE  Base(s, lane) \in Rows
<1>1. /\ lane \in Lanes /\ batch[s] \in InHand /\ Head(batch[s].todo[lane]).id \in Ids
  BY WorkingIs
<1>2. batch[s].seen[lane] \in Rows \cup {Unread} /\ rows[Head(batch[s].todo[lane]).id] \in Rows
  BY <1>1 DEF InHand, Types
<1> QED
  BY <1>2 DEF Base

LEMMA TypesInit == Init => Types
BY DEF Init, Types, Rows

LEMMA TypesStep ==
  ASSUME Types, [Next]_vars
  PROVE  Types'
<1>1. CASE UNCHANGED vars
  BY <1>1 DEF vars, Types, InHand, Lanes
<1>2. ASSUME NEW s \in Sources, Step(s)
      PROVE  Types'
  <2>0. view' = view /\ Lanes' = Lanes /\ InHand' = InHand
    <3>1. view' = view
      BY <1>2 DEF Step, Take, LoadRow, SaveRow, StorageFails, Ack, Throw, Crash
    <3> QED
      BY <3>1 DEF Lanes, InHand
  <2>1. ASSUME NEW upto \in 1 .. Len(view.log[s]), Take(s, upto)
        PROVE  Types'
    <3> DEFINE actions == SubSeq(view.log[s], from[s] + 1, upto)
               todo == [l \in Lanes |-> IF view.merges THEN Optimized(actions, l) ELSE actions]
               b == [busy |-> TRUE, upto |-> upto, todo |-> todo,
                     seen |-> [l \in Lanes |-> Unread], ok |-> [l \in Lanes |-> TRUE]]
    <3>1. view.log[s] \in Seq(Actions) /\ from[s] \in Nat /\ upto \in Nat /\ upto <= Len(view.log[s])
      BY ViewsAre DEF Types
    <3>2. actions \in Seq(Actions)
      BY <3>1, CutsAreActions
    <3> HIDE DEF actions
    <3>3. todo \in [Lanes -> Seq(Actions)]
      BY <3>2, OptimizedIs
    <3> HIDE DEF todo
    <3>4. b \in InHand
      BY <3>1, <3>3 DEF InHand
    <3>5. batch' = [batch EXCEPT ![s] = b] /\ UNCHANGED <<rows, from>>
      BY <2>1 DEF Take, b, todo, actions
    <3> HIDE DEF b
    <3> QED
      BY <2>0, <3>4, <3>5 DEF Types
  <2>2. ASSUME NEW lane \in Lanes, LoadRow(s, lane)
        PROVE  Types'
    <3> DEFINE row == rows[Head(batch[s].todo[lane]).id]
               b == [batch[s] EXCEPT !.seen[lane] = row]
    <3>1. Working(s, lane)
      BY <2>2 DEF LoadRow
    <3>2. row \in Rows /\ batch[s] \in InHand
      BY <3>1, WorkingIs DEF Types
    <3>3. batch' = [batch EXCEPT ![s] = b]
      BY <2>2, <3>2 DEF LoadRow, Types
    <3> HIDE DEF row
    <3>4. b \in InHand
      BY <3>2 DEF InHand
    <3>5. UNCHANGED <<rows, from>>
      BY <2>2 DEF LoadRow
    <3> HIDE DEF b
    <3> QED
      BY <2>0, <3>3, <3>4, <3>5 DEF Types
  <2>3. ASSUME NEW lane \in Lanes, SaveRow(s, lane)
        PROVE  Types'
    <3>1. Working(s, lane) /\ Base(s, lane) # Unread
      BY <2>3 DEF SaveRow
    <3>2. CanSave(s, lane) \in BOOLEAN /\ Done(s, lane, CanSave(s, lane)) /\ from' = from
      BY <2>3 DEF SaveRow, CanSave, Accepts
    <3>3. batch' \in [Sources -> InHand \cup {Idle}]
      BY <3>1, <3>2, DoneKeepsTypes
    <3>4. CanSave(s, lane) => Stored(Head(batch[s].todo[lane]), Base(s, lane)) \in Rows
      BY <3>1, WorkingIs, BaseIsRow, StoredIsRow DEF CanSave
    <3>5. rows' \in [Ids -> Rows]
      BY <2>3, <3>4 DEF SaveRow, Types
    <3> QED
      BY <2>0, <3>2, <3>3, <3>5 DEF Types
  <2>4. ASSUME NEW lane \in Lanes, StorageFails(s, lane)
        PROVE  Types'
    <3>1. Working(s, lane) /\ Done(s, lane, FALSE) /\ from' = from
      BY <2>4 DEF StorageFails
    <3>2. batch' \in [Sources -> InHand \cup {Idle}]
      BY <3>1, DoneKeepsTypes
    <3>3. Base(s, lane) # Unread /\ CanSave(s, lane)
            => Stored(Head(batch[s].todo[lane]), Base(s, lane)) \in Rows
      BY <3>1, WorkingIs, BaseIsRow, StoredIsRow DEF CanSave
    <3>4. rows' \in [Ids -> Rows]
      BY <2>4, <3>3 DEF StorageFails, Types
    <3> QED
      BY <2>0, <3>1, <3>2, <3>4 DEF Types
  <2>5. CASE Ack(s)
    <3>1. from' \in [Sources -> Nat]
      <4>1. batch[s] \in InHand
        BY <2>5 DEF Ack, Worked, Types, Idle
      <4>2. batch[s].upto \in Nat
        BY <4>1 DEF InHand
      <4> QED
        BY <2>5, <4>2 DEF Ack, Types
    <3> QED
      BY <2>0, <2>5, <3>1 DEF Ack, Types
  <2>6. CASE Throw(s) \/ Crash(s)
    BY <2>0, <2>6 DEF Throw, Crash, Types
  <2> QED
    BY <1>2, <2>1, <2>2, <2>3, <2>4, <2>5, <2>6 DEF Step
<1> QED
  BY <1>1, <1>2 DEF Next

LEMMA AlwaysTypes == Spec => []Types
BY TypesInit, TypesStep, PTL DEF Spec

(* Whatever was projected so far and whatever is still to come of a        *)
(* source, merging it changes nothing, unless it creates a row that is     *)
(* there.                                                                  *)
THEOREM MergingAgreesHolds == Spec => []MergingAgrees
<1>1. ASSUME Types
      PROVE  MergingAgrees
  <2> SUFFICES ASSUME NEW s \in Sources, NEW id \in Ids, NEW upto \in 1 .. Len(view.log[s])
               PROVE  LET actions == SubSeq(view.log[s], from[s] + 1, upto)
                      IN  \/ ApplyAll(Optimized(actions, id), id, rows[id])
                               = ApplyAll(actions, id, rows[id])
                          \/ CreatesOverRow(actions, id, rows[id])
    BY DEF MergingAgrees
  <2>1. view.log[s] \in Seq(Actions) /\ from[s] \in Nat /\ upto \in Nat /\ upto <= Len(view.log[s])
    BY <1>1, ViewsAre DEF Types
  <2>2. SubSeq(view.log[s], from[s] + 1, upto) \in Seq(Actions)
    BY <2>1, CutsAreActions
  <2>3. rows[id] \in Rows
    BY <1>1 DEF Types
  <2> QED
    BY <2>2, <2>3, OptimizedKeepsEffect
<1> QED
  BY <1>1, AlwaysTypes, PTL

-----------------------------------------------------------------------------
(* Where a row stands that one source writes.  The actions of the source's *)
(* events are applied in order, but begin again at what was acknowledged   *)
(* after a batch is broken off, with the row as it was left: the row is    *)
(* then ahead of what is being applied.                                    *)

\* The row after the first n events, each happening once.
At(actions, id, n) == RowAfter(actions, id, NoRow)[n]

\* What the actions number i + 1 to j do, or do not do, to the row.
NoneOn(actions, id, i, j) == \A k \in i + 1 .. j : actions[k].id # id

NoReset(actions, id, i, j) ==
  \A k \in i + 1 .. j : actions[k].id = id => actions[k].kind \notin {"Set", "Delete"}

Unwritten(actions, id, i, j, f) ==
  \A k \in i + 1 .. j : actions[k].id = id /\ Updates(actions[k]) => f \notin DOMAIN actions[k].change

(* The row that was once at g and is again at i: what is not reset before  *)
(* g is in it already, and so are the fields that nothing will write again.*)
Near(actions, id, i, g, row) ==
  NoReset(actions, id, i, g) =>
    /\ At(actions, id, g) = NoRow => row = NoRow
    /\ row = NoRow => At(actions, id, i) = NoRow
    /\ row # NoRow =>
         \A f \in Fields : Unwritten(actions, id, i, g, f) => row[f] = At(actions, id, g)[f]

NearSome(actions, id, i, row) == \E g \in i .. Len(actions) : Near(actions, id, i, g, row)

(* An action that stands for the actions number i + 1 to j on a row.       *)
Represents(a, actions, id, i, j) ==
  LET before == At(actions, id, i)
      after == At(actions, id, j)
  IN  /\ a.kind = "Create" => before = NoRow
      /\ a.kind \in {"Create", "Set"} => after = a.state
      /\ a.kind = "Delete" => after = NoRow
      /\ a.kind = "Update" => before # NoRow
      /\ a.kind = "UpdateWithDefault" /\ before = NoRow => a.state = after
      /\ a.kind \notin {"Set", "Delete"} => NoReset(actions, id, i, j)
      /\ Updates(a) =>
           /\ after # NoRow
           /\ \A f \in Fields : f \in DOMAIN a.change <=> ~ Unwritten(actions, id, i, j, f)
           /\ \A f \in DOMAIN a.change : a.change[f] = after[f]

(* What is left of a batch stands for the actions number i + 1 to j, cut   *)
(* somewhere; an action that creates is the last one.                      *)
CutAt(cut, todo, actions, id, i, j) ==
  /\ cut \in [0 .. Len(todo) -> i .. j] /\ cut[0] = i /\ cut[Len(todo)] = j
  /\ \A m, n \in 0 .. Len(todo) : m <= n => cut[m] <= cut[n]
  /\ \A n \in 1 .. Len(todo) : Represents(todo[n], actions, id, cut[n - 1], cut[n])

Covers(todo, actions, id, i, j) ==
  /\ todo = <<>> => NoneOn(actions, id, i, j)
  /\ todo # <<>> => \E cut \in [0 .. Len(todo) -> i .. j] : CutAt(cut, todo, actions, id, i, j)
  /\ \A n \in 1 .. Len(todo) - 1 : todo[n].kind # "Create"

(* What is left of a batch that is not merged.                             *)
IsRest(todo, actions, i, j) == Len(todo) = j - i /\ Agree(actions, i, todo, j - i)

(* A row only source s writes, and one that a source writes.               *)
OnlyFrom(s, id) ==
  \A t \in Sources \ {s} : NoneOn(view.log[t], id, 0, Len(view.log[t]))

Writes(s, id) == ~ NoneOn(view.log[s], id, 0, Len(view.log[s]))

OwnRow(id) == \E s \in Sources : OnlyFrom(s, id)

(* What is left of a batch is about rows its source writes.                *)
Lined(s) ==
  LET todo == batch[s].todo
  IN  batch[s].busy => \A lane \in Lanes : \A n \in 1 .. Len(todo[lane]) :
        Writes(s, todo[lane][n].id) /\ (view.merges => todo[lane][n].id = lane)

\* What was loaded of a row of the source's own is what is there.
Loaded(s) ==
  batch[s].busy => \A lane \in Lanes :
    LET id == Head(batch[s].todo[lane]).id
    IN  batch[s].todo[lane] # <<>> /\ OnlyFrom(s, id)
          => batch[s].seen[lane] \in {Unread, rows[id]}

Holds(s) ==
  /\ from[s] <= Len(view.log[s])
  /\ batch[s].busy => from[s] <= batch[s].upto /\ batch[s].upto <= Len(view.log[s])
  /\ Lined(s)
  /\ Loaded(s)

(* Each row of its own the storage has not failed on stands where the      *)
(* batch does.                                                             *)
RowStands(s, id) ==
  LET actions == view.log[s]
      b == batch[s]
  IN  /\ ~ b.busy => NearSome(actions, id, from[s], rows[id])
      /\ b.busy /\ ~ view.merges =>
           \E i \in from[s] .. b.upto :
             IsRest(b.todo[Everything], actions, i, b.upto) /\ NearSome(actions, id, i, rows[id])
      /\ b.busy /\ view.merges =>
           \E i \in from[s] .. b.upto :
             /\ NearSome(actions, id, i, rows[id])
             /\ b.todo[id] # <<>> \/ b.ok[id] => Covers(b.todo[id], actions, id, i, b.upto)

Stands(s) == \A id \in Ids \ failed : OnlyFrom(s, id) => RowStands(s, id)

LEMMA AtIs ==
  ASSUME NEW actions \in Seq(Actions), NEW id
  PROVE  /\ At(actions, id, 0) = NoRow
         /\ \A n \in 0 .. Len(actions) : At(actions, id, n) \in Rows
         /\ \A n \in 1 .. Len(actions) :
              At(actions, id, n) = RowStep(actions[n], id, At(actions, id, n - 1))
<1>1. NoRow \in Rows
  BY DEF Rows
<1>2. RowAfter(actions, id, NoRow) \in [0 .. Len(actions) -> Rows]
  BY <1>1, RowAfterIs
<1>3. RowAfter(actions, id, NoRow)[0] = NoRow
  BY <1>1, RowAfterIs
<1>4. \A n \in 1 .. Len(actions) : RowAfter(actions, id, NoRow)[n]
                                    = RowStep(actions[n], id, RowAfter(actions, id, NoRow)[n - 1])
  BY <1>1, RowAfterIs
<1> QED
  BY <1>2, <1>3, <1>4 DEF At

(* Intervals of a sequence, put together and cut.                          *)
LEMMA Intervals ==
  ASSUME NEW actions, NEW id, NEW i \in Int, NEW j \in Int, NEW k \in Int, i <= j, j <= k
  PROVE  /\ NoReset(actions, id, i, k) <=> NoReset(actions, id, i, j) /\ NoReset(actions, id, j, k)
         /\ NoneOn(actions, id, i, k) <=> NoneOn(actions, id, i, j) /\ NoneOn(actions, id, j, k)
         /\ \A f : Unwritten(actions, id, i, k, f)
                    <=> Unwritten(actions, id, i, j, f) /\ Unwritten(actions, id, j, k, f)
<1>1. \A n : n \in i + 1 .. k <=> n \in i + 1 .. j \/ n \in j + 1 .. k
  OBVIOUS
<1>2. NoReset(actions, id, i, k) <=> NoReset(actions, id, i, j) /\ NoReset(actions, id, j, k)
  BY <1>1 DEF NoReset
<1>3. NoneOn(actions, id, i, k) <=> NoneOn(actions, id, i, j) /\ NoneOn(actions, id, j, k)
  BY <1>1 DEF NoneOn
<1>4. \A f : Unwritten(actions, id, i, k, f)
             <=> Unwritten(actions, id, i, j, f) /\ Unwritten(actions, id, j, k, f)
  BY <1>1 DEF Unwritten
<1> QED
  BY <1>2, <1>3, <1>4

LEMMA EmptyInterval ==
  ASSUME NEW actions, NEW id, NEW i \in Int
  PROVE  /\ NoReset(actions, id, i, i) /\ NoneOn(actions, id, i, i)
         /\ \A f : Unwritten(actions, id, i, i, f)
BY DEF NoReset, NoneOn, Unwritten

LEMMA NoneOnChanges ==
  ASSUME NEW actions, NEW id, NEW i, NEW j, NoneOn(actions, id, i, j)
  PROVE  NoReset(actions, id, i, j) /\ \A f : Unwritten(actions, id, i, j, f)
BY DEF NoReset, NoneOn, Unwritten

(* An action of an orderly sequence stands for itself.                     *)
LEMMA OneRepresents ==
  ASSUME NEW actions \in Seq(Actions), IsOrderly(actions), NEW id,
         NEW n \in 1 .. Len(actions), actions[n].id = id
  PROVE  Represents(actions[n], actions, id, n - 1, n)
<1> DEFINE a == actions[n]
           before == At(actions, id, n - 1)
           after == At(actions, id, n)
<1>1. a \in Actions /\ n - 1 \in 0 .. Len(actions)
  OBVIOUS
<1>2. before \in Rows /\ after = Applied(a, before)
  BY <1>1, AtIs DEF RowStep
<1>3. Accepts(a, before)
  BY DEF IsOrderly, At
<1>4. a.kind = "UpdateWithDefault" => Changed(a.state, a.change) = a.state
  BY DEF IsOrderly
<1>5. \A k : k \in (n - 1) + 1 .. n <=> k = n
  OBVIOUS
<1>6. a.kind \notin {"Set", "Delete"} => NoReset(actions, id, n - 1, n)
  BY <1>5 DEF NoReset
<1>7. \A f : Unwritten(actions, id, n - 1, n, f) <=> (Updates(a) => f \notin DOMAIN a.change)
  BY <1>5 DEF Unwritten
<1> HIDE DEF a, before, after
<1>8. a.kind = "Create" => before = NoRow /\ after = a.state
  BY <1>2, <1>3 DEF Accepts, Applied, Stored
<1>9. a.kind = "Update" => before # NoRow
  BY <1>3 DEF Accepts
<1>10. /\ a.kind = "Set" => after = a.state
       /\ a.kind = "Delete" => after = NoRow
       /\ a.kind = "UpdateWithDefault" /\ before = NoRow => after = a.state
  BY <1>1, <1>2, AppliedUpdate DEF a
<1>11. ASSUME Updates(a)
       PROVE  after # NoRow /\ \A f \in DOMAIN a.change : a.change[f] = after[f]
  <2>1. a.change \in Changes /\ (a.kind = "UpdateWithDefault" => a.state \in States)
    BY <1>1 DEF Actions, a
  <2>2. CASE before = NoRow
    <3>1. a.kind = "UpdateWithDefault" /\ after = a.state /\ a.state \in States
      BY <1>9, <1>10, <1>11, <2>1, <2>2 DEF Updates
    <3>2. \A f \in DOMAIN a.change : Changed(a.state, a.change)[f] = a.change[f]
      BY <2>1, ChangesAre DEF Changed
    <3> QED
      BY <1>4, <3>1, <3>2, NoRowIsNoState DEF a
  <2>3. CASE before # NoRow
    <3>1. after = Changed(before, a.change) /\ before \in States
      BY <1>1, <1>2, <1>11, <2>3, AppliedUpdate DEF Updates, Rows, a
    <3>2. \A f \in DOMAIN a.change : Changed(before, a.change)[f] = a.change[f]
      BY <2>1, ChangesAre DEF Changed
    <3> QED
      BY <2>1, <3>1, <3>2, ChangedIsState, NoRowIsNoState
  <2> QED
    BY <2>2, <2>3
<1>12. ASSUME Updates(a)
       PROVE  \A f \in Fields : f \in DOMAIN a.change <=> ~ Unwritten(actions, id, n - 1, n, f)
  BY <1>7, <1>12
<1> QED
  BY <1>6, <1>8, <1>9, <1>10, <1>11, <1>12 DEF Represents, a, before, after

(* A row that is not reset stays, and so do the fields nothing writes.     *)
LEMMA RowPersists ==
  ASSUME NEW actions \in Seq(Actions), IsOrderly(actions), NEW id,
         NEW i \in Nat, NEW j \in Nat, i <= j, j <= Len(actions),
         NoReset(actions, id, i, j), At(actions, id, i) # NoRow
  PROVE  /\ At(actions, id, j) # NoRow
         /\ \A f \in Fields : Unwritten(actions, id, i, j, f)
                                => At(actions, id, j)[f] = At(actions, id, i)[f]
<1> DEFINE Kept(k) == /\ At(actions, id, i + k) # NoRow
                      /\ \A f \in Fields : Unwritten(actions, id, i, i + k, f)
                                   => At(actions, id, i + k)[f] = At(actions, id, i)[f]
           S == {k \in 0 .. j - i : Kept(k)}
<1>1. 0 \in S
  <2>1. i + 0 = i /\ 0 \in 0 .. j - i
    OBVIOUS
  <2> QED
    BY <2>1
<1>2. ASSUME NEW k \in 0 .. (j - i) - 1, k \in S
      PROVE  k + 1 \in S
  <2> DEFINE n == i + (k + 1)
             a == actions[n]
             before == At(actions, id, i + k)
             after == At(actions, id, n)
  <2>1. /\ n \in 1 .. Len(actions) /\ n - 1 = i + k /\ n \in i + 1 .. j /\ i + k \in 0 .. Len(actions)
        /\ k + 1 \in 0 .. j - i /\ i <= i + k /\ i + k <= n /\ n \in Int /\ i + k \in Int
    OBVIOUS
  <2> HIDE DEF n
  <2>2. a \in Actions /\ before \in Rows /\ after = RowStep(a, id, before)
    <3>1. after = RowStep(a, id, At(actions, id, n - 1))
      BY <2>1, AtIs
    <3>2. before \in Rows
      BY <2>1, AtIs
    <3>3. a \in Actions
      BY <2>1
    <3> QED
      BY <2>1, <3>1, <3>2, <3>3
  <2>3. a.id = id => a.kind \notin {"Set", "Delete"}
    BY <2>1 DEF NoReset
  <2>4. Kept(k)
    BY <1>2
  <2>5. \A f : Unwritten(actions, id, i, n, f)
               => /\ Unwritten(actions, id, i, i + k, f)
                  /\ a.id = id /\ Updates(a) => f \notin DOMAIN a.change
    <3>1. n \in i + 1 .. n
      BY <2>1
    <3> QED
      BY <2>1, <3>1, Intervals DEF Unwritten
  <2>6. before # NoRow /\ \A f \in Fields : Unwritten(actions, id, i, n, f) => before[f] = At(actions, id, i)[f]
    BY <2>4, <2>5
  <2>7. after # NoRow /\ \A f \in Fields : Unwritten(actions, id, i, n, f) => after[f] = before[f]
    <3>1. CASE a.id # id
      BY <2>2, <2>6, <3>1 DEF RowStep
    <3>2. CASE a.id = id
      <4>1. a.kind # "Create"
        <5>1. Represents(a, actions, id, i + k, n)
          BY <2>1, <3>2, OneRepresents
        <5> QED
          BY <2>6, <5>1 DEF Represents
      <4>2. Updates(a)
        BY <2>2, <2>3, <3>2, <4>1 DEF Updates, Actions, Kinds
      <4>3. before \in States /\ a.change \in Changes
        BY <2>2, <2>6 DEF Rows, Actions
      <4> HIDE DEF a, before, after
      <4>4. after = Changed(before, a.change)
        BY <2>2, <2>6, <3>2, <4>2, AppliedUpdate DEF RowStep, Updates
      <4>5. after \in States
        BY <4>3, <4>4, ChangedIsState
      <4>6. \A f \in Fields : f \notin DOMAIN a.change => after[f] = before[f]
        BY <4>4 DEF Changed
      <4> QED
        BY <2>5, <3>2, <4>2, <4>5, <4>6, NoRowIsNoState
    <3> QED
      BY <3>1, <3>2
  <2>8. Kept(k + 1)
    <3> HIDE DEF after, before
    <3> QED
      BY <2>6, <2>7 DEF n, after
  <2> QED
    BY <2>1, <2>8
<1>3. S = 0 .. j - i
  <2> HIDE DEF S
  <2>1. S \in SUBSET (0 .. j - i) /\ j - i \in Nat
    BY DEF S
  <2> QED
    BY <1>1, <1>2, <2>1, BoundedInduction
<1>4. j - i \in 0 .. j - i /\ i + (j - i) = j
  OBVIOUS
<1>5. Kept(j - i)
  BY <1>3, <1>4
<1> QED
  BY <1>4, <1>5

LEMMA NoneOnStays ==
  ASSUME NEW actions \in Seq(Actions), NEW id,
         NEW i \in Nat, NEW j \in Nat, i <= j, j <= Len(actions), NoneOn(actions, id, i, j)
  PROVE  At(actions, id, j) = At(actions, id, i)
<1> DEFINE S == {k \in 0 .. j - i : At(actions, id, i + k) = At(actions, id, i)}
<1>1. 0 \in S
  <2>1. i + 0 = i /\ 0 \in 0 .. j - i
    OBVIOUS
  <2> QED
    BY <2>1
<1>2. ASSUME NEW k \in 0 .. (j - i) - 1, k \in S
      PROVE  k + 1 \in S
  <2> DEFINE n == i + (k + 1)
  <2>1. /\ n \in 1 .. Len(actions) /\ n - 1 = i + k /\ n \in i + 1 .. j /\ k + 1 \in 0 .. j - i
    OBVIOUS
  <2> HIDE DEF n
  <2>2. At(actions, id, n) = RowStep(actions[n], id, At(actions, id, n - 1))
    BY <2>1, AtIs
  <2>3. At(actions, id, n) = At(actions, id, i + k)
    BY <2>1, <2>2 DEF NoneOn, RowStep
  <2>4. At(actions, id, n) = At(actions, id, i)
    BY <1>2, <2>3
  <2> QED
    BY <2>1, <2>4 DEF n
<1>3. S = 0 .. j - i
  <2> HIDE DEF S
  <2>1. S \in SUBSET (0 .. j - i) /\ j - i \in Nat
    BY DEF S
  <2> QED
    BY <1>1, <1>2, <2>1, BoundedInduction
<1>4. j - i \in 0 .. j - i /\ i + (j - i) = j
  OBVIOUS
<1>5. At(actions, id, i + (j - i)) = At(actions, id, i)
  BY <1>3, <1>4
<1> QED
  BY <1>4, <1>5

(* The row of each position is near itself.                                *)
LEMMA NearOwn ==
  ASSUME NEW actions \in Seq(Actions), IsOrderly(actions), NEW id,
         NEW j \in Nat, NEW g \in Nat, j <= g, g <= Len(actions)
  PROVE  Near(actions, id, j, g, At(actions, id, j))
BY RowPersists DEF Near

(* A row that is not ahead is what the events made of it.                  *)
LEMMA NearEnd ==
  ASSUME NEW actions \in Seq(Actions), NEW id, NEW g \in Nat, g <= Len(actions),
         NEW row \in Rows, Near(actions, id, g, g, row)
  PROVE  row = At(actions, id, g)
<1>1. /\ At(actions, id, g) = NoRow <=> row = NoRow
      /\ row # NoRow => \A f \in Fields : row[f] = At(actions, id, g)[f]
  <2>1. NoReset(actions, id, g, g) /\ \A f : Unwritten(actions, id, g, g, f)
    <3>1. g \in Int
      OBVIOUS
    <3> QED
      BY <3>1, EmptyInterval
  <2> QED
    BY <2>1 DEF Near
<1>2. At(actions, id, g) \in Rows
  <2>1. g \in 0 .. Len(actions)
    OBVIOUS
  <2> QED
    BY <2>1, AtIs
<1> QED
  BY <1>1, <1>2 DEF Rows, States

(* A batch that is broken off begins again.                                *)
LEMMA NearRestart ==
  ASSUME NEW actions \in Seq(Actions), IsOrderly(actions), NEW id,
         NEW i \in Nat, NEW j \in Nat, NEW g \in Nat, i <= j, j <= g, g <= Len(actions),
         NEW row, Near(actions, id, j, g, row)
  PROVE  Near(actions, id, i, g, row)
<1> SUFFICES ASSUME NoReset(actions, id, i, g)
             PROVE  /\ At(actions, id, g) = NoRow => row = NoRow
                    /\ row = NoRow => At(actions, id, i) = NoRow
                    /\ row # NoRow => \A f \in Fields :
                         Unwritten(actions, id, i, g, f) => row[f] = At(actions, id, g)[f]
  BY DEF Near
<1>1. /\ NoReset(actions, id, i, j) /\ NoReset(actions, id, j, g)
      /\ \A f : Unwritten(actions, id, i, g, f) => Unwritten(actions, id, j, g, f)
  <2>1. i \in Int /\ j \in Int /\ g \in Int
    OBVIOUS
  <2> QED
    BY <2>1, Intervals
<1>2. row = NoRow => At(actions, id, i) = NoRow
  BY <1>1, RowPersists DEF Near
<1> QED
  BY <1>1, <1>2 DEF Near

(* Events that are not about the row.                                      *)
LEMMA NearSkip ==
  ASSUME NEW actions \in Seq(Actions), NEW id,
         NEW i \in Nat, NEW j \in Nat, i <= j, j <= Len(actions), NoneOn(actions, id, i, j),
         NEW row, NearSome(actions, id, i, row)
  PROVE  NearSome(actions, id, j, row)
<1>1. PICK g \in i .. Len(actions) : Near(actions, id, i, g, row)
  BY DEF NearSome
<1>2. At(actions, id, j) = At(actions, id, i)
  BY NoneOnStays
<1>3. CASE j <= g
  <2>1. /\ NoReset(actions, id, j, g) => NoReset(actions, id, i, g)
        /\ \A f : Unwritten(actions, id, j, g, f) => Unwritten(actions, id, i, g, f)
    <3>1. i \in Int /\ j \in Int /\ g \in Int
      BY <1>1
    <3>2. NoReset(actions, id, i, j) /\ \A f : Unwritten(actions, id, i, j, f)
      BY NoneOnChanges
    <3> QED
      BY <1>3, <3>1, <3>2, Intervals
  <2>2. Near(actions, id, j, g, row)
    BY <1>1, <1>2, <2>1 DEF Near
  <2>3. g \in j .. Len(actions)
    BY <1>1, <1>3
  <2> QED
    BY <2>2, <2>3 DEF NearSome
<1>4. CASE g < j
  <2>0. g \in Nat /\ i <= g /\ g <= j
    BY <1>1, <1>4
  <2>1. NoneOn(actions, id, i, g) /\ NoneOn(actions, id, g, j)
    <3>1. i \in Int /\ j \in Int /\ g \in Int
      BY <2>0
    <3> QED
      BY <2>0, <3>1, Intervals
  <2>2. /\ NoReset(actions, id, i, g) /\ At(actions, id, g) = At(actions, id, j)
        /\ \A f : Unwritten(actions, id, i, g, f)
    BY <2>0, <2>1, NoneOnChanges, NoneOnStays
  <2>3. Near(actions, id, j, j, row)
    BY <1>1, <1>2, <2>2, EmptyInterval DEF Near
  <2>4. j \in j .. Len(actions)
    OBVIOUS
  <2> QED
    BY <2>3, <2>4 DEF NearSome
<1> QED
  BY <1>1, <1>3, <1>4

(* A creation that finds the row, of which the row holds the end already.  *)
LEMMA NearRefused ==
  ASSUME NEW actions \in Seq(Actions), IsOrderly(actions), NEW id,
         NEW n \in 1 .. Len(actions), actions[n].id = id, actions[n].kind = "Create",
         NEW row \in Rows, row # NoRow, NearSome(actions, id, n - 1, row)
  PROVE  NearSome(actions, id, n, row)
<1>1. PICK g \in n - 1 .. Len(actions) : Near(actions, id, n - 1, g, row)
  BY DEF NearSome
<1>2. At(actions, id, n - 1) = NoRow
  BY OneRepresents DEF Represents
<1>3. g # n - 1
  BY <1>1, <1>2, NearEnd
<1>4. \A k : k \in (n - 1) + 1 .. n <=> k = n
  OBVIOUS
<1>5. NoReset(actions, id, n - 1, n) /\ \A f : Unwritten(actions, id, n - 1, n, f)
  BY <1>4 DEF NoReset, Unwritten, Updates
<1>6. g \in n .. Len(actions) /\ n - 1 \in Int /\ n \in Int /\ g \in Int /\ n - 1 <= n /\ n <= g
  BY <1>1, <1>3
<1>7. /\ NoReset(actions, id, n, g) => NoReset(actions, id, n - 1, g)
      /\ \A f : Unwritten(actions, id, n, g, f) => Unwritten(actions, id, n - 1, g, f)
  BY <1>5, <1>6, Intervals
<1>8. Near(actions, id, n, g, row)
  BY <1>1, <1>7 DEF Near
<1> QED
  BY <1>6, <1>8 DEF NearSome

(* What stands for some actions brings the row past them.                  *)
LEMMA NearApplied ==
  ASSUME NEW actions \in Seq(Actions), IsOrderly(actions), NEW id, NEW a \in Actions,
         NEW i \in Nat, NEW j \in Nat, i <= j, j <= Len(actions),
         Represents(a, actions, id, i, j),
         NEW row \in Rows, NearSome(actions, id, i, row), a.kind = "Create" => row = NoRow
  PROVE  NearSome(actions, id, j, Applied(a, row))
<1>1. PICK g \in i .. Len(actions) : Near(actions, id, i, g, row)
  BY DEF NearSome
<1>2. a.kind \in Kinds /\ a.change \in Changes /\ (a.kind = "UpdateWithDefault" => a.state \in States)
  BY DEF Actions
<1>3. PICK h \in j .. Len(actions) : /\ g <= h /\ (h = j \/ h = g)
                                      /\ h \in Nat /\ g \in Nat
  <2>1. CASE g <= j
    BY <1>1, <2>1
  <2>2. CASE j < g
    BY <1>1, <2>2
  <2> QED
    BY <1>1, <2>1, <2>2
<1>4. CASE Applied(a, row) = At(actions, id, j)
  BY <1>3, <1>4, NearOwn DEF NearSome
<1>5. CASE a.kind \in {"Create", "Set", "Delete"}
  <2>1. Applied(a, row) = At(actions, id, j)
    BY <1>5, AppliedUpdate DEF Represents
  <2> QED
    BY <1>4, <2>1
<1>6. CASE Updates(a) /\ ~ NoReset(actions, id, j, h)
  BY <1>3, <1>6 DEF Near, NearSome
<1>7. CASE Updates(a) /\ NoReset(actions, id, j, h)
  <2>0. i \in Int /\ j \in Int /\ g \in Int /\ h \in Int /\ i <= g /\ j <= h /\ i <= h
    BY <1>1, <1>3
  <2>1. NoReset(actions, id, i, j) /\ At(actions, id, j) # NoRow
    BY <1>7 DEF Represents, Updates
  <2>2. NoReset(actions, id, i, h)
    BY <1>7, <2>0, <2>1, Intervals
  <2>3. NoReset(actions, id, i, g) /\ NoReset(actions, id, g, h)
    BY <1>3, <2>0, <2>2, Intervals
  <2>4. CASE row = NoRow
    <3>1. At(actions, id, i) = NoRow
      BY <1>1, <2>3, <2>4 DEF Near
    <3>2. a.kind = "UpdateWithDefault" /\ a.state = At(actions, id, j)
      BY <1>7, <3>1 DEF Represents, Updates
    <3> QED
      BY <1>4, <2>4, <3>2, AppliedUpdate
  <2>5. CASE row # NoRow
    <3> DEFINE new == Changed(row, a.change)
    <3>1. row \in States /\ Applied(a, row) = new /\ new # NoRow
      BY <1>2, <1>7, <2>5, AppliedUpdate, ChangedIsState, NoRowIsNoState DEF Rows, Updates
    <3>2. /\ At(actions, id, g) # NoRow
          /\ \A f \in Fields : Unwritten(actions, id, i, g, f) => row[f] = At(actions, id, g)[f]
      BY <1>1, <2>3, <2>5 DEF Near
    <3>3. At(actions, id, h) # NoRow
      BY <1>3, <2>1, <3>2
    <3>4. ASSUME NEW f \in Fields, Unwritten(actions, id, j, h, f)
          PROVE  new[f] = At(actions, id, h)[f]
      <4>1. CASE f \in DOMAIN a.change
        <5>1. new[f] = At(actions, id, j)[f]
          BY <1>2, <1>7, <4>1, ChangesAre DEF Changed, Represents
        <5>2. At(actions, id, h)[f] = At(actions, id, j)[f]
          BY <1>3, <1>7, <2>0, <2>1, <3>4, RowPersists
        <5> QED
          BY <5>1, <5>2
      <4>2. CASE f \notin DOMAIN a.change
        <5>1. Unwritten(actions, id, i, j, f)
          BY <1>7, <4>2 DEF Represents
        <5>2. Unwritten(actions, id, i, h, f)
          BY <2>0, <3>4, <5>1, Intervals
        <5>3. Unwritten(actions, id, i, g, f) /\ Unwritten(actions, id, g, h, f)
          BY <1>3, <2>0, <5>2, Intervals
        <5>4. new[f] = row[f]
          BY <4>2 DEF Changed
        <5>5. At(actions, id, h)[f] = At(actions, id, g)[f]
          BY <1>3, <2>0, <2>3, <3>2, <5>3, RowPersists
        <5> QED
          BY <3>2, <5>3, <5>4, <5>5
      <4> QED
        BY <4>1, <4>2
    <3> HIDE DEF new
    <3>5. Near(actions, id, j, h, new)
      BY <3>1, <3>3, <3>4 DEF Near
    <3> QED
      BY <1>3, <3>1, <3>5 DEF NearSome
  <2> QED
    BY <2>4, <2>5
<1> QED
  BY <1>2, <1>5, <1>6, <1>7 DEF Kinds, Updates

LEMMA RepresentsMore ==
  ASSUME NEW actions \in Seq(Actions), NEW id, NEW a,
         NEW i \in Nat, NEW j \in Nat, NEW k \in Nat, NEW l \in Nat,
         i <= j, j <= k, k <= l, l <= Len(actions),
         NoneOn(actions, id, i, j), Represents(a, actions, id, j, k), NoneOn(actions, id, k, l)
  PROVE  Represents(a, actions, id, i, l)
<1>1. At(actions, id, i) = At(actions, id, j) /\ At(actions, id, k) = At(actions, id, l)
  BY NoneOnStays
<1>2. i \in Int /\ j \in Int /\ k \in Int /\ l \in Int /\ j <= l
  OBVIOUS
<1>3. /\ NoReset(actions, id, j, k) => NoReset(actions, id, i, l)
      /\ \A f : Unwritten(actions, id, j, k, f) <=> Unwritten(actions, id, i, l, f)
  <2>1. /\ NoReset(actions, id, i, j) /\ NoReset(actions, id, k, l)
        /\ \A f : Unwritten(actions, id, i, j, f) /\ Unwritten(actions, id, k, l, f)
    BY NoneOnChanges
  <2>2. /\ NoReset(actions, id, j, k) => NoReset(actions, id, j, l)
        /\ \A f : Unwritten(actions, id, j, k, f) <=> Unwritten(actions, id, j, l, f)
    BY <1>2, <2>1, Intervals
  <2>3. /\ NoReset(actions, id, j, l) => NoReset(actions, id, i, l)
        /\ \A f : Unwritten(actions, id, j, l, f) <=> Unwritten(actions, id, i, l, f)
    BY <1>2, <2>1, Intervals
  <2> QED
    BY <2>2, <2>3
<1> QED
  BY <1>1, <1>3 DEF Represents

(* What two actions stand for, their merger does.                          *)
LEMMA MergeRepresents ==
  ASSUME NEW actions \in Seq(Actions), IsOrderly(actions), NEW id,
         NEW last \in Actions, NEW next \in Actions,
         NEW i \in Nat, NEW j \in Nat, NEW k \in Nat, i <= j, j <= k, k <= Len(actions),
         Represents(last, actions, id, i, j), Represents(next, actions, id, j, k),
         Merge(last, next) # NotMerged
  PROVE  Represents(Merge(last, next), actions, id, i, k)
<1> DEFINE merged == Merge(last, next)
           chain == Then(last.change, next.change)
           si == At(actions, id, i)
           sj == At(actions, id, j)
           sk == At(actions, id, k)
<1>1. /\ last.kind \in Kinds /\ next.kind \in Kinds
      /\ last.change \in Changes /\ next.change \in Changes
      /\ last.kind \in {"Create", "Set", "UpdateWithDefault"} => last.state \in States
      /\ next.kind \in {"Create", "Set", "UpdateWithDefault"} => next.state \in States
  BY DEF Actions
<1>2. i \in Int /\ j \in Int /\ k \in Int /\ i <= k
  OBVIOUS
<1>3. sj \in Rows /\ sk \in Rows
  <2>1. j \in 0 .. Len(actions) /\ k \in 0 .. Len(actions)
    OBVIOUS
  <2> QED
    BY <2>1, AtIs
<1>4. /\ NoReset(actions, id, i, k) <=> NoReset(actions, id, i, j) /\ NoReset(actions, id, j, k)
      /\ \A f : Unwritten(actions, id, i, k, f)
                 <=> Unwritten(actions, id, i, j, f) /\ Unwritten(actions, id, j, k, f)
  BY <1>2, Intervals
\* What the second one leaves of a row.
<1>5. ASSUME Updates(next), sj # NoRow
      PROVE  sk \in States /\ sk = Changed(sj, next.change)
  <2>1. /\ sk \in States /\ sj \in States /\ NoReset(actions, id, j, k)
        /\ \A f \in Fields : f \in DOMAIN next.change <=> ~ Unwritten(actions, id, j, k, f)
        /\ \A f \in DOMAIN next.change : next.change[f] = sk[f]
    BY <1>3, <1>5 DEF Represents, Rows, Updates
  <2>2. \A f \in Fields : f \notin DOMAIN next.change => sk[f] = sj[f]
    BY <1>5, <2>1, RowPersists
  <2> HIDE DEF sj, sk
  <2>3. Changed(sj, next.change) \in States
    BY <1>1, <2>1, ChangedIsState
  <2>4. \A f \in Fields : Changed(sj, next.change)[f] = sk[f]
    BY <2>1, <2>2 DEF Changed
  <2> QED
    BY <2>1, <2>3, <2>4 DEF States
\* The chain of the two changes.
<1>6. ASSUME Updates(last), Updates(next)
      PROVE  /\ NoReset(actions, id, i, k) /\ sk # NoRow
             /\ \A f \in Fields : f \in DOMAIN chain <=> ~ Unwritten(actions, id, i, k, f)
             /\ \A f \in DOMAIN chain : chain[f] = sk[f]
  <2>1. /\ NoReset(actions, id, i, j) /\ sj # NoRow
        /\ \A f \in Fields : f \in DOMAIN last.change <=> ~ Unwritten(actions, id, i, j, f)
        /\ \A f \in DOMAIN last.change : last.change[f] = sj[f]
    BY <1>6 DEF Represents, Updates
  <2>2. /\ NoReset(actions, id, j, k) /\ sk # NoRow
        /\ \A f \in Fields : f \in DOMAIN next.change <=> ~ Unwritten(actions, id, j, k, f)
        /\ \A f \in DOMAIN next.change : next.change[f] = sk[f]
    BY <1>6 DEF Represents, Updates
  <2>3. DOMAIN chain = DOMAIN last.change \cup DOMAIN next.change
    BY DEF Then
  <2>4. ASSUME NEW f \in DOMAIN chain
        PROVE  chain[f] = sk[f]
    <3>1. CASE f \in DOMAIN next.change
      BY <2>2, <3>1 DEF Then
    <3>2. CASE f \notin DOMAIN next.change
      <4>1. f \in DOMAIN last.change /\ f \in Fields /\ chain[f] = last.change[f]
        BY <1>1, <2>3, <2>4, <3>2, ChangesAre DEF Then
      <4>2. Unwritten(actions, id, j, k, f)
        BY <2>2, <3>2, <4>1
      <4>3. sk[f] = sj[f]
        BY <2>1, <2>2, <4>1, <4>2, RowPersists
      <4> QED
        BY <2>1, <4>1, <4>3
    <3> QED
      BY <3>1, <3>2
  <2> HIDE DEF chain, sk
  <2> QED
    BY <1>4, <2>1, <2>2, <2>3, <2>4
<1>7. CASE next.kind \in {"Set", "Delete"}
  <2>1. merged = next
    BY <1>1, <1>7 DEF Merge, Kinds
  <2> QED
    BY <1>7, <2>1 DEF Represents, Updates
<1>8. CASE next.kind = "Create"
  <2>1. sj = NoRow
    BY <1>8 DEF Represents
  <2>2. last.kind # "Create" /\ ~ Updates(last)
    BY <1>1, <2>1, NoRowIsNoState DEF Represents
  <2>3. merged = Set(next.id, next.state)
    BY <1>8, <2>2 DEF Merge, Updates
  <2> QED
    BY <1>8, <2>3 DEF Represents, Updates, Set
<1>9. CASE Updates(next) /\ last.kind = "Create"
  <2>1. merged = Create(last.id, Changed(last.state, next.change))
    BY <1>9 DEF Merge, Updates
  <2>2. si = NoRow /\ sj = last.state /\ sj # NoRow /\ NoReset(actions, id, i, j)
        /\ NoReset(actions, id, j, k)
    BY <1>1, <1>9, NoRowIsNoState DEF Represents, Updates
  <2>3. sk = Changed(last.state, next.change)
    BY <1>5, <1>9, <2>2
  <2> QED
    BY <1>4, <2>1, <2>2, <2>3 DEF Represents, Updates, Create
<1>10. CASE Updates(next) /\ last.kind = "Update"
  <2>1. merged = [next EXCEPT !.change = chain]
    BY <1>10 DEF Merge, Updates
  <2>2. merged.kind = next.kind /\ merged.state = next.state /\ merged.change = chain
    BY <2>1 DEF Actions
  <2>3. si # NoRow
    BY <1>10 DEF Represents
  <2>4. Updates(last)
    BY <1>10 DEF Updates
  <2> HIDE DEF chain, merged
  <2> QED
    BY <1>6, <1>10, <2>2, <2>3, <2>4 DEF Represents, Updates, merged
<1>11. CASE Updates(next) /\ last.kind = "UpdateWithDefault"
  <2> DEFINE state == Changed(last.state, next.change)
  <2>1. merged = [last EXCEPT !.state = state, !.change = chain]
    BY <1>11 DEF Merge, Updates
  <2>2. merged.kind = last.kind /\ merged.state = state /\ merged.change = chain
    <3> HIDE DEF state, chain, merged
    <3> QED
      BY <2>1 DEF Actions
  <2>3. Updates(last)
    BY <1>11 DEF Updates
  <2>4. si = NoRow => state = sk
    <3> SUFFICES ASSUME si = NoRow PROVE state = sk
      OBVIOUS
    <3>1. last.state = sj /\ sj # NoRow
      BY <1>11, <2>3 DEF Represents
    <3> QED
      BY <1>5, <1>11, <3>1
  <2> HIDE DEF chain, merged, state
  <2> QED
    BY <1>6, <1>11, <2>2, <2>3, <2>4 DEF Represents, Updates, merged
<1>12. CASE Updates(next) /\ last.kind \in {"Set", "Delete"}
  BY <1>12 DEF Merge, Updates
<1> QED
  BY <1>1, <1>7, <1>8, <1>9, <1>10, <1>11, <1>12 DEF Kinds, Updates

LEMMA CutAtIs ==
  ASSUME NEW todo, NEW actions, NEW id, NEW i \in Nat, NEW j \in Nat, Len(todo) \in Nat,
         NEW cut, CutAt(cut, todo, actions, id, i, j)
  PROVE  /\ cut[0] = i /\ cut[Len(todo)] = j
         /\ \A n \in 0 .. Len(todo) : cut[n] \in Nat /\ i <= cut[n] /\ cut[n] <= j
         /\ \A m, n \in 0 .. Len(todo) : m <= n => cut[m] <= cut[n]
         /\ \A n \in 1 .. Len(todo) : Represents(todo[n], actions, id, cut[n - 1], cut[n])
BY DEF CutAt

(* Where the last of the actions begins, and what it may become.           *)
BeginsAt(h, done, actions, id, i, j) ==
  h \in Nat /\ i <= h /\ h <= j /\ Represents(done[Len(done)], actions, id, h, j)

EndsWith(todo, cut, done, actions, id, k) ==
  /\ Len(todo) = Len(done) /\ \A n \in 1 .. Len(done) - 1 : todo[n] = done[n]
  /\ Represents(todo[Len(done)], actions, id, cut[Len(done) - 1], k)

CutSomewhere(todo, actions, id, i, j) ==
  \E cut \in [0 .. Len(todo) -> i .. j] : CutAt(cut, todo, actions, id, i, j)

LastAt(cut, done) == cut[Len(done) - 1]

LEMMA LastBegins ==
  ASSUME NEW done, NEW actions, NEW id, NEW i \in Nat, NEW j \in Nat, Len(done) \in Nat,
         Len(done) # 0, NEW cut, CutAt(cut, done, actions, id, i, j)
  PROVE  BeginsAt(LastAt(cut, done), done, actions, id, i, j)
<1>1. Len(done) - 1 \in 0 .. Len(done) /\ Len(done) \in 1 .. Len(done)
  OBVIOUS
<1>2. /\ cut \in [0 .. Len(done) -> i .. j] /\ cut[Len(done)] = j
      /\ Represents(done[Len(done)], actions, id, cut[Len(done) - 1], cut[Len(done)])
  BY <1>1 DEF CutAt
<1>3. cut[Len(done) - 1] \in i .. j
  BY <1>1, <1>2
<1> QED
  BY <1>2, <1>3 DEF BeginsAt, LastAt

(* The last cut moves.                                                     *)
LEMMA LastCut ==
  ASSUME NEW done \in Seq(Actions), NEW todo \in Seq(Actions), NEW actions, NEW id,
         NEW i \in Nat, NEW j \in Nat, NEW k \in Nat, i <= j, j <= k,
         Len(done) # 0, NEW cut, CutAt(cut, done, actions, id, i, j),
         EndsWith(todo, cut, done, actions, id, k)
  PROVE  CutSomewhere(todo, actions, id, i, k)
<1> DEFINE N == Len(done)
           c == [n \in 0 .. N |-> IF n = N THEN k ELSE cut[n]]
<1>1. N \in Nat /\ N # 0 /\ N - 1 \in 0 .. N
  OBVIOUS
<1>0. /\ Len(todo) = Len(done) /\ \A n \in 1 .. Len(done) - 1 : todo[n] = done[n]
      /\ Represents(todo[Len(done)], actions, id, cut[Len(done) - 1], k)
  BY DEF EndsWith
<1> HIDE DEF N
<1>2. /\ cut[0] = i /\ cut[N] = j
      /\ \A n \in 0 .. N : cut[n] \in Nat /\ i <= cut[n] /\ cut[n] <= j
      /\ \A m, n \in 0 .. N : m <= n => cut[m] <= cut[n]
      /\ \A n \in 1 .. N : Represents(done[n], actions, id, cut[n - 1], cut[n])
  BY <1>1, CutAtIs DEF N
<1>3. c \in [0 .. N -> i .. k]
  BY <1>1, <1>2
<1>4. c[0] = i /\ c[N] = k
  BY <1>1, <1>2
<1>5. \A m, n \in 0 .. N : m <= n => c[m] <= c[n]
  BY <1>1, <1>2
<1>6. ASSUME NEW n \in 1 .. N
      PROVE  Represents(todo[n], actions, id, c[n - 1], c[n])
  <2>1. c[n - 1] = cut[n - 1]
    BY <1>1
  <2>2. CASE n = N
    BY <1>0, <1>1, <1>4, <2>1, <2>2 DEF N
  <2>3. CASE n # N
    <3>1. c[n] = cut[n] /\ n \in 1 .. N - 1
      BY <1>1, <2>3
    <3>2. todo[n] = done[n]
      BY <1>0, <3>1 DEF N
    <3> QED
      BY <1>2, <2>1, <3>1, <3>2
  <2> QED
    BY <2>2, <2>3
<1> HIDE DEF c
<1>7. CutAt(c, todo, actions, id, i, k)
  BY <1>0, <1>3, <1>4, <1>5, <1>6 DEF CutAt, N
<1> QED
  BY <1>0, <1>3, <1>7 DEF CutSomewhere, N

(* One more cut.                                                           *)
LEMMA MoreCut ==
  ASSUME NEW done \in Seq(Actions), NEW todo \in Seq(Actions), NEW actions, NEW id,
         NEW i \in Nat, NEW j \in Nat, NEW k \in Nat, i <= j, j <= k,
         Len(todo) = Len(done) + 1,
         \A n \in 1 .. Len(done) : todo[n] = done[n],
         NEW cut, CutAt(cut, done, actions, id, i, j),
         Represents(todo[Len(todo)], actions, id, j, k)
  PROVE  \E c \in [0 .. Len(todo) -> i .. k] : CutAt(c, todo, actions, id, i, k)
<1> DEFINE N == Len(done)
           c == [n \in 0 .. N + 1 |-> IF n = N + 1 THEN k ELSE cut[n]]
<1>1. N \in Nat
  OBVIOUS
<1> HIDE DEF N
<1>2. /\ cut[0] = i /\ cut[N] = j
      /\ \A n \in 0 .. N : cut[n] \in Nat /\ i <= cut[n] /\ cut[n] <= j
      /\ \A m, n \in 0 .. N : m <= n => cut[m] <= cut[n]
      /\ \A n \in 1 .. N : Represents(done[n], actions, id, cut[n - 1], cut[n])
  BY <1>1, CutAtIs DEF N
<1>3. c \in [0 .. N + 1 -> i .. k]
  BY <1>1, <1>2
<1>4. c[0] = i /\ c[N + 1] = k /\ c[N] = j
  BY <1>1, <1>2
<1>5. \A m, n \in 0 .. N + 1 : m <= n => c[m] <= c[n]
  BY <1>1, <1>2
<1>6. Len(todo) = N + 1
  BY DEF N
<1>7. ASSUME NEW n \in 1 .. N + 1
      PROVE  Represents(todo[n], actions, id, c[n - 1], c[n])
  <2>1. CASE n = N + 1
    <3>1. n - 1 = N
      BY <1>1, <2>1
    <3> QED
      BY <1>4, <1>6, <2>1, <3>1
  <2>2. CASE n # N + 1
    <3>1. c[n - 1] = cut[n - 1] /\ c[n] = cut[n] /\ n \in 1 .. N
      BY <1>1, <2>2
    <3>2. todo[n] = done[n]
      BY <3>1 DEF N
    <3> QED
      BY <1>2, <3>1, <3>2
  <2> QED
    BY <2>1, <2>2
<1> HIDE DEF c
<1>8. CutAt(c, todo, actions, id, i, k)
  BY <1>3, <1>4, <1>5, <1>6, <1>7 DEF CutAt
<1> QED
  BY <1>3, <1>6, <1>8

LEMMA CreateMerges ==
  ASSUME NEW last \in Actions, NEW next \in Actions, last.kind = "Create"
  PROVE  Merge(last, next) # NotMerged
<1>1. next.kind \in Kinds
  BY DEF Actions
<1>2. Merge(last, next) \in {last, next, Create(last.id, Changed(last.state, next.change))}
  BY <1>1 DEF Merge, Kinds
<1>3. \A a : a.kind \in Kinds => a # NotMerged
  BY DEF NotMerged, Kinds
<1>4. Create(last.id, Changed(last.state, next.change)).kind \in Kinds
  BY DEF Create, Kinds
<1> QED
  BY <1>1, <1>2, <1>3, <1>4 DEF Kinds

(* What was merged so far, and an event that is not about the row.         *)
LEMMA CoversSkip ==
  ASSUME NEW actions \in Seq(Actions), NEW id, NEW done \in Seq(OnRow(id)),
         NEW i \in Nat, NEW j \in Nat, i <= j, j + 1 <= Len(actions),
         Covers(done, actions, id, i, j), actions[j + 1].id # id
  PROVE  Covers(done, actions, id, i, j + 1)
<1>1. NoneOn(actions, id, j, j + 1)
  BY DEF NoneOn
<1>2. i \in Int /\ j \in Int /\ j + 1 \in Int /\ j <= j + 1 /\ j + 1 \in Nat /\ i <= j + 1
  OBVIOUS
<1>3. CASE done = <<>>
  <2>1. NoneOn(actions, id, i, j + 1)
    BY <1>1, <1>2, <1>3, Intervals DEF Covers
  <2> QED
    BY <1>3, <2>1 DEF Covers
<1>4. CASE done # <<>>
  <2>1. PICK cut : CutAt(cut, done, actions, id, i, j)
    BY <1>4 DEF Covers
  <2>2. done \in Seq(Actions) /\ Len(done) \in Nat /\ Len(done) # 0 /\ Len(done) - 1 \in 0 .. Len(done)
        /\ Len(done) \in 1 .. Len(done)
    BY <1>4, OnRowIsAction
  <2> DEFINE h == LastAt(cut, done)
  <2>3. h \in Nat /\ h <= j /\ Represents(done[Len(done)], actions, id, h, j)
    <3>1. BeginsAt(h, done, actions, id, i, j)
      BY <2>1, <2>2, LastBegins
    <3> QED
      BY <3>1 DEF BeginsAt
  <2> HIDE DEF h
  <2>4. NoneOn(actions, id, h, h)
    BY <2>3, EmptyInterval
  <2>5. Represents(done[Len(done)], actions, id, h, j + 1)
    BY <1>1, <1>2, <2>3, <2>4, RepresentsMore
  <2>6. CutSomewhere(done, actions, id, i, j + 1)
    <3>1. EndsWith(done, cut, done, actions, id, j + 1)
      BY <2>5 DEF EndsWith, LastAt, h
    <3> QED
      BY <1>2, <2>1, <2>2, <3>1, LastCut
  <2> QED
    BY <1>4, <2>6 DEF Covers, CutSomewhere
<1> QED
  BY <1>3, <1>4

(* What was merged so far, and an event that is.                           *)
LEMMA CoversMore ==
  ASSUME NEW actions \in Seq(Actions), IsOrderly(actions), NEW id, NEW done \in Seq(OnRow(id)),
         NEW i \in Nat, NEW j \in Nat, i <= j, j + 1 <= Len(actions),
         Covers(done, actions, id, i, j), actions[j + 1].id = id
  PROVE  Covers(Optimize(done, actions[j + 1]), actions, id, i, j + 1)
<1> DEFINE next == actions[j + 1]
           todo == Optimize(done, next)
           N == Len(done)
           merged == Merge(Last(done), next)
<1>1. /\ next \in Actions /\ next \in OnRow(id) /\ j + 1 \in 1 .. Len(actions) /\ (j + 1) - 1 = j
      /\ j + 1 \in Nat /\ i <= j + 1 /\ j <= j + 1 /\ N \in Nat /\ done \in Seq(Actions)
  BY OnRowIsAction DEF OnRow
<1>2. Represents(next, actions, id, j, j + 1)
  BY <1>1, OneRepresents
<1>3. todo \in Seq(OnRow(id)) /\ todo \in Seq(Actions) /\ todo # <<>>
  BY <1>1, OptimizeIs, OnRowIsAction
<1> HIDE DEF next
<1>4. CASE done = <<>>
  <2>1. todo = <<next>>
    BY <1>4 DEF Optimize
  <2>2. Represents(next, actions, id, i, j + 1)
    <3>1. NoneOn(actions, id, i, j) /\ NoneOn(actions, id, j + 1, j + 1)
      BY <1>1, <1>4, EmptyInterval DEF Covers
    <3> QED
      BY <1>1, <1>2, <3>1, RepresentsMore
  <2> DEFINE c == [n \in 0 .. 1 |-> IF n = 0 THEN i ELSE j + 1]
  <2> HIDE DEF todo
  <2>3. Len(todo) = 1 /\ todo[1] = next
    BY <2>1
  <2>4. c \in [0 .. 1 -> i .. j + 1] /\ c[0] = i /\ c[1] = j + 1
        /\ \A m, n \in 0 .. 1 : m <= n => c[m] <= c[n]
    BY <1>1
  <2> HIDE DEF c
  <2>5. \A n \in 1 .. 1 : n = 1 /\ n - 1 = 0
    OBVIOUS
  <2>6. CutAt(c, todo, actions, id, i, j + 1)
    BY <2>2, <2>3, <2>4, <2>5 DEF CutAt
  <2>7. \A n \in 1 .. Len(todo) - 1 : todo[n].kind # "Create"
    BY <2>3
  <2>8. Covers(todo, actions, id, i, j + 1)
    BY <1>3, <2>3, <2>4, <2>6, <2>7 DEF Covers
  <2> QED
    BY <2>8 DEF todo, next
<1>5. CASE done # <<>>
  <2>1. PICK cut : CutAt(cut, done, actions, id, i, j)
    BY <1>5 DEF Covers
  <2>2. N # 0 /\ N - 1 \in 0 .. N /\ N \in 1 .. N /\ Last(done) = done[N] /\ Last(done) \in Actions
    BY <1>1, <1>5, FrontAndLast
  <2>3. \A n \in 1 .. N - 1 : done[n].kind # "Create"
    BY DEF Covers
  <2>4. CASE merged = NotMerged
    <3>1. todo = Append(done, next)
      BY <1>5, <2>4 DEF Optimize
    <3>2. Len(todo) = N + 1 /\ todo[N + 1] = next /\ \A n \in 1 .. N : todo[n] = done[n]
      BY <1>1, <3>1
    <3>3. done[N].kind # "Create"
      BY <1>1, <2>2, <2>4, CreateMerges
    <3>4. \A n \in 1 .. Len(todo) - 1 : todo[n].kind # "Create"
      <4>1. \A n \in 1 .. N : n = N \/ n \in 1 .. N - 1
        BY <1>1
      <4>2. Len(todo) - 1 = N
        BY <1>1, <3>2
      <4> QED
        BY <2>3, <3>2, <3>3, <4>1, <4>2
    <3> HIDE DEF todo, N
    <3>5. \E c \in [0 .. Len(todo) -> i .. j + 1] : CutAt(c, todo, actions, id, i, j + 1)
      <4>1. Represents(todo[Len(todo)], actions, id, j, j + 1)
        BY <1>2, <3>2
      <4>2. QED
        <5>1. /\ done \in Seq(Actions) /\ todo \in Seq(Actions)
              /\ j + 1 \in Nat /\ j <= j + 1 /\ Len(todo) = Len(done) + 1
              /\ \A n \in 1 .. Len(done) : todo[n] = done[n]
          BY <1>1, <1>3, <3>2 DEF N
        <5> QED
          BY <2>1, <4>1, <5>1, MoreCut
    <3>6. Covers(todo, actions, id, i, j + 1)
      BY <1>3, <3>4, <3>5 DEF Covers
    <3> QED
      BY <3>6 DEF todo, next
  <2>5. CASE merged # NotMerged
    <3>1. todo = Append(Front(done), merged)
      BY <1>5, <2>5 DEF Optimize
    <3>2. Len(Front(done)) = N - 1 /\ Front(done) \in Seq(OnRow(id))
          /\ \A n \in 1 .. N - 1 : Front(done)[n] = done[n]
      BY <1>5, FrontAndLast
    <3>3. Len(todo) = N /\ todo[N] = merged /\ \A n \in 1 .. N - 1 : todo[n] = done[n]
      <4> HIDE DEF merged
      <4> QED
        BY <1>1, <2>2, <3>1, <3>2
    <3> DEFINE h == LastAt(cut, done)
    <3>4. h \in Nat /\ i <= h /\ h <= j /\ Represents(done[N], actions, id, h, j)
      <4>1. Len(done) \in Nat /\ Len(done) # 0
        BY <1>1, <2>2
      <4>2. BeginsAt(h, done, actions, id, i, j)
        BY <2>1, <4>1, LastBegins
      <4> QED
        BY <4>2 DEF BeginsAt
    <3> HIDE DEF h
    <3>5. Represents(merged, actions, id, h, j + 1)
      BY <1>1, <1>2, <2>2, <2>5, <3>4, MergeRepresents
    <3>6. \A n \in 1 .. Len(todo) - 1 : todo[n].kind # "Create"
      BY <2>3, <3>3
    <3> HIDE DEF todo, N, merged
    <3>7. CutSomewhere(todo, actions, id, i, j + 1)
      <4>1. EndsWith(todo, cut, done, actions, id, j + 1)
        BY <3>3, <3>5 DEF EndsWith, LastAt, N, h
      <4>2. /\ done \in Seq(Actions) /\ todo \in Seq(Actions) /\ Len(done) # 0
            /\ j + 1 \in Nat /\ j <= j + 1
        BY <1>1, <1>3, <2>2 DEF N
      <4> QED
        BY <2>1, <4>1, <4>2, LastCut
    <3>8. Covers(todo, actions, id, i, j + 1)
      BY <1>3, <3>6, <3>7 DEF Covers, CutSomewhere
    <3> QED
      BY <3>8 DEF todo, next
  <2> QED
    BY <2>4, <2>5
<1> QED
  BY <1>4, <1>5

(* What a batch of a row is merged to stands for the batch.                *)
LEMMA CoversBatch ==
  ASSUME NEW actions \in Seq(Actions), IsOrderly(actions), NEW id,
         NEW i \in Nat, NEW j \in Nat, i <= j, j <= Len(actions)
  PROVE  Covers(Optimized(SubSeq(actions, i + 1, j), id), actions, id, i, j)
<1> DEFINE more == SubSeq(actions, i + 1, j)
           done == OptimizedAfter(more, id)
           N == j - i
           S == {n \in 0 .. N : Covers(done[n], actions, id, i, i + n)}
<1>1. N \in Nat /\ i + N = j /\ (IF i < j THEN j - i ELSE 0) = N
  OBVIOUS
<1>2. more \in Seq(Actions) /\ Len(more) = N /\ \A n \in 1 .. N : more[n] = actions[i + n]
  BY <1>1, CutsAreActions
<1> HIDE DEF more
<1>3. done \in [0 .. N -> Seq(OnRow(id))]
  BY <1>2, OptimizedAfterIs
<1>4. done[0] = <<>>
  BY <1>2, OptimizedAfterIs
<1>5. \A n \in 1 .. N : done[n] = IF more[n].id = id THEN Optimize(done[n - 1], more[n])
                                                    ELSE done[n - 1]
  BY <1>2, OptimizedAfterIs
<1> HIDE DEF done, N
<1>6. 0 \in S
  <2>1. i + 0 = i /\ 0 \in 0 .. N /\ i \in Int
    BY <1>1
  <2>2. NoneOn(actions, id, i, i)
    BY <2>1, EmptyInterval
  <2>3. Covers(<<>>, actions, id, i, i)
    BY <2>2 DEF Covers
  <2> QED
    BY <1>4, <2>1, <2>3
<1>7. ASSUME NEW n \in 0 .. N - 1, n \in S
      PROVE  n + 1 \in S
  <2> DEFINE k == i + n
  <2>1. /\ n + 1 \in 1 .. N /\ n + 1 \in 0 .. N /\ (n + 1) - 1 = n /\ n \in 0 .. N
        /\ k \in Nat /\ i <= k /\ k + 1 <= j /\ k + 1 = i + (n + 1)
    BY <1>1
  <2> HIDE DEF k
  <2>2. more[n + 1] = actions[k + 1] /\ k + 1 <= Len(actions)
    BY <1>2, <2>1
  <2>3. Covers(done[n], actions, id, i, k) /\ done[n] \in Seq(OnRow(id))
    BY <1>3, <1>7, <2>1 DEF k
  <2>4. done[n + 1] = IF actions[k + 1].id = id THEN Optimize(done[n], actions[k + 1]) ELSE done[n]
    BY <1>5, <2>1, <2>2
  <2>5. Covers(done[n + 1], actions, id, i, k + 1)
    <3>1. CASE actions[k + 1].id = id
      BY <2>1, <2>2, <2>3, <2>4, <3>1, CoversMore
    <3>2. CASE actions[k + 1].id # id
      BY <2>1, <2>2, <2>3, <2>4, <3>2, CoversSkip
    <3> QED
      BY <3>1, <3>2
  <2> QED
    BY <2>1, <2>5
<1>8. S = 0 .. N
  <2> HIDE DEF S
  <2>1. S \in SUBSET (0 .. N)
    BY DEF S
  <2> QED
    BY <1>1, <1>6, <1>7, <2>1, BoundedInduction
<1>9. Covers(done[N], actions, id, i, j)
  BY <1>1, <1>8
<1> QED
  BY <1>2, <1>9 DEF Optimized, more, done

(* The first action of what is left stands for a part of its own.          *)
LEMMA CoversHead ==
  ASSUME NEW actions \in Seq(Actions), NEW id, NEW todo \in Seq(OnRow(id)), todo # <<>>,
         NEW i \in Nat, NEW j \in Nat, i <= j, Covers(todo, actions, id, i, j)
  PROVE  \E k \in i .. j : /\ Represents(Head(todo), actions, id, i, k)
                           /\ Covers(Tail(todo), actions, id, k, j)
                           /\ Head(todo).kind = "Create" => Tail(todo) = <<>>
<1> DEFINE N == Len(todo)
           rest == Tail(todo)
<1>1. PICK cut : CutAt(cut, todo, actions, id, i, j)
  BY DEF Covers
<1>2. N \in Nat /\ N # 0 /\ Head(todo) = todo[1] /\ rest \in Seq(OnRow(id)) /\ Len(rest) = N - 1
  OBVIOUS
<1>3. \A n \in 1 .. N - 1 : rest[n] = todo[n + 1]
  <2>1. \A n \in 1 .. Len(rest) : rest[n] = todo[n + 1]
    BY HeadTailProperties
  <2> QED
    BY <1>2, <2>1
<1>4. \A n \in 1 .. N - 1 : todo[n].kind # "Create"
  BY DEF Covers
<1> HIDE DEF N, rest
<1>5. rest = <<>> <=> N = 1
  BY <1>2
<1>6. cut[0] = i /\ cut[N] = j
  BY <1>1 DEF CutAt, N
<1>7. /\ \A n \in 0 .. N : cut[n] \in Nat /\ i <= cut[n] /\ cut[n] <= j
      /\ \A m, n \in 0 .. N : m <= n => cut[m] <= cut[n]
  <2>1. cut \in [0 .. N -> i .. j]
    BY <1>1 DEF CutAt, N
  <2>2. \A n \in 0 .. N : cut[n] \in Nat /\ i <= cut[n] /\ cut[n] <= j
    BY <2>1
  <2>3. \A m, n \in 0 .. N : m <= n => cut[m] <= cut[n]
    BY <1>1 DEF CutAt, N
  <2> QED
    BY <2>2, <2>3
<1>8. \A n \in 1 .. N : Represents(todo[n], actions, id, cut[n - 1], cut[n])
  BY <1>1 DEF CutAt, N
<1>9. 1 \in 1 .. N /\ 1 \in 0 .. N /\ 1 - 1 = 0
  BY <1>2
<1> DEFINE k == cut[1]
<1>10. k \in i .. j /\ k \in Nat
  BY <1>7, <1>9
<1>11. Represents(Head(todo), actions, id, i, k)
  BY <1>2, <1>6, <1>8, <1>9
<1>12. Head(todo).kind = "Create" => rest = <<>>
  <2>1. N # 1 => 1 \in 1 .. N - 1
    BY <1>2
  <2> QED
    BY <1>2, <1>4, <1>5, <2>1
<1>13. Covers(rest, actions, id, k, j)
  <2>1. CASE rest = <<>>
    <3>1. k = j /\ j \in Int
      BY <1>5, <1>6, <2>1
    <3>2. NoneOn(actions, id, k, j)
      BY <3>1, EmptyInterval
    <3> QED
      BY <2>1, <3>2 DEF Covers
  <2>2. CASE rest # <<>>
    <3> DEFINE c == [n \in 0 .. N - 1 |-> cut[n + 1]]
    <3>1. N - 1 \in Nat /\ N - 1 # 0 /\ N - 1 \in 0 .. N - 1 /\ (N - 1) + 1 = N
      BY <1>2, <1>5, <2>2
    <3>2. \A n \in 0 .. N - 1 : c[n] = cut[n + 1] /\ n + 1 \in 0 .. N /\ 1 <= n + 1 /\ n \in Nat
      BY <3>1
    <3>3. \A n \in 0 .. N - 1 : c[n] \in k .. j
      BY <1>7, <1>9, <1>10, <3>2
    <3>4. c[0] = k /\ c[N - 1] = j
      BY <1>6, <3>1
    <3>5. \A m, n \in 0 .. N - 1 : m <= n => c[m] <= c[n]
      BY <1>7, <3>2
    <3>6. ASSUME NEW n \in 1 .. N - 1
          PROVE  /\ Represents(rest[n], actions, id, c[n - 1], c[n])
      <4>1. n \in 0 .. N - 1 /\ n - 1 \in 0 .. N - 1 /\ (n - 1) + 1 = n /\ n + 1 \in 1 .. N
            /\ (n + 1) - 1 = n
        BY <3>1
      <4>2. c[n] = cut[n + 1] /\ c[n - 1] = cut[n]
        BY <3>2, <4>1
      <4>3. Represents(todo[n + 1], actions, id, cut[n], cut[n + 1])
        BY <1>8, <4>1
      <4> QED
        BY <1>3, <4>2, <4>3
    <3>7. c \in [0 .. N - 1 -> k .. j]
      <4>1. c = [n \in 0 .. N - 1 |-> c[n]]
        OBVIOUS
      <4> HIDE DEF c
      <4> QED
        BY <3>3, <4>1
    <3> HIDE DEF c, k
    <3>8. Len(rest) = N - 1
      BY <1>2
    <3>9. CutAt(c, rest, actions, id, k, j)
      BY <3>4, <3>5, <3>6, <3>7, <3>8 DEF CutAt
    <3>10. \A n \in 1 .. Len(rest) - 1 : rest[n].kind # "Create"
      <4>1. \A n \in 1 .. (N - 1) - 1 : n \in 1 .. N - 1 /\ n + 1 \in 1 .. N - 1
        BY <3>1
      <4> QED
        BY <1>3, <1>4, <3>8, <4>1
    <3> QED
      BY <2>2, <3>7, <3>8, <3>9, <3>10 DEF Covers
  <2> QED
    BY <2>1, <2>2
<1> QED
  BY <1>10, <1>11, <1>12, <1>13 DEF rest

(* What is left of a batch that is not merged.                             *)
LEMMA RestHead ==
  ASSUME NEW actions \in Seq(Actions), NEW todo \in Seq(Actions), todo # <<>>,
         NEW i \in Nat, NEW j \in Nat, i <= j, j <= Len(actions), IsRest(todo, actions, i, j)
  PROVE  /\ i + 1 <= j /\ Head(todo) = actions[i + 1]
         /\ IsRest(Tail(todo), actions, i + 1, j)
<1> DEFINE N == Len(todo)
           rest == Tail(todo)
<1>1. N \in Nat /\ N # 0 /\ Head(todo) = todo[1] /\ Len(rest) = N - 1
  OBVIOUS
<1>2. \A n \in 1 .. N - 1 : rest[n] = todo[n + 1]
  <2>1. \A n \in 1 .. Len(rest) : rest[n] = todo[n + 1]
    BY HeadTailProperties
  <2> QED
    BY <1>1, <2>1
<1> HIDE DEF N, rest
<1>3. N = j - i /\ \A n \in 1 .. N : actions[i + n] = todo[n]
  BY DEF IsRest, Agree, N
<1>4. i + 1 <= j /\ 1 \in 1 .. N
  BY <1>1, <1>3
<1>5. j - (i + 1) = N - 1 /\ (i + 1) + (N - 1) = j
  BY <1>3
<1>6. ASSUME NEW n \in 1 .. N - 1
      PROVE  actions[(i + 1) + n] = rest[n]
  <2>1. n + 1 \in 1 .. N /\ (i + 1) + n = i + (n + 1)
    BY <1>1
  <2> QED
    BY <1>2, <1>3, <2>1
<1>7. Agree(actions, i + 1, rest, N - 1)
  BY <1>1, <1>5, <1>6 DEF Agree
<1> QED
  BY <1>1, <1>3, <1>4, <1>5, <1>7 DEF IsRest, rest

LEMMA RestBatch ==
  ASSUME NEW actions \in Seq(Actions), NEW i \in Nat, NEW j \in Nat, i <= j, j <= Len(actions)
  PROVE  IsRest(SubSeq(actions, i + 1, j), actions, i, j)
<1>1. i + (j - i) = j /\ (IF i < j THEN j - i ELSE 0) = j - i
  OBVIOUS
<1> QED
  BY <1>1, CutsAreActions DEF IsRest, Agree

-----------------------------------------------------------------------------
(* What is left of a batch, and what was loaded for it, whatever the        *)
(* projection and however many sources there are.                          *)

LEMMA OptimizedOfNone ==
  ASSUME NEW actions \in Seq(Actions), NEW id, \A k \in 1 .. Len(actions) : actions[k].id # id
  PROVE  Optimized(actions, id) = <<>>
<1> DEFINE done == OptimizedAfter(actions, id)
           N == Len(actions)
           S == {n \in 0 .. N : done[n] = <<>>}
<1>1. N \in Nat /\ done[0] = <<>>
  BY OptimizedAfterIs
<1>2. ASSUME NEW n \in 0 .. N - 1, n \in S
      PROVE  n + 1 \in S
  <2>1. n + 1 \in 1 .. N /\ (n + 1) - 1 = n /\ actions[n + 1].id # id
    BY <1>1
  <2>2. done[n + 1] = done[(n + 1) - 1]
    BY <2>1, OptimizedAfterIs
  <2> QED
    BY <1>1, <1>2, <2>1, <2>2
<1>3. S = 0 .. N
  <2>1. 0 \in S /\ S \in SUBSET (0 .. N)
    BY <1>1
  <2> HIDE DEF S, N
  <2> QED
    BY <1>1, <1>2, <2>1, BoundedInduction
<1>4. N \in S
  BY <1>1, <1>3
<1> QED
  BY <1>4 DEF Optimized

(* A batch that is cut is about rows its source writes.                    *)
LEMMA CutWrites ==
  ASSUME Types, NEW s \in Sources, NEW i \in Nat, NEW j \in Nat, i <= j, j <= Len(view.log[s])
  PROVE  LET cut == SubSeq(view.log[s], i + 1, j)
         IN  /\ \A n \in 1 .. Len(cut) : Writes(s, cut[n].id)
             /\ \A id : Optimized(cut, id) # <<>> => Writes(s, id)
<1> DEFINE L == view.log[s]
           cut == SubSeq(L, i + 1, j)
<1>1. L \in Seq(Actions)
  BY ViewsAre DEF Types
<1>2. cut \in Seq(Actions) /\ Len(cut) \in Nat
  BY <1>1, CutsAreActions
<1>3. ASSUME NEW n \in 1 .. Len(cut)
      PROVE  Writes(s, cut[n].id)
  <2>1. Len(cut) = (IF i < j THEN j - i ELSE 0) /\ \A k \in 1 .. j - i : cut[k] = L[i + k]
    BY <1>1, CutsAreActions
  <2> HIDE DEF cut
  <2>2. cut[n] = L[i + n] /\ i + n \in 0 + 1 .. Len(L)
    BY <1>1, <1>2, <2>1
  <2> QED
    BY <2>2 DEF Writes, NoneOn
<1>4. ASSUME NEW id, Optimized(cut, id) # <<>>
      PROVE  Writes(s, id)
  <2>1. PICK k \in 1 .. Len(cut) : cut[k].id = id
    BY <1>2, <1>4, OptimizedOfNone
  <2> QED
    BY <1>3, <2>1
<1> QED
  BY <1>3, <1>4

LEMMA TakeHolds ==
  ASSUME Types, NEW s \in Sources, Holds(s), NEW upto \in 1 .. Len(view.log[s]), Take(s, upto)
  PROVE  Holds(s)'
<1> DEFINE L == view.log[s]
           actions == SubSeq(L, from[s] + 1, upto)
<1>1. L \in Seq(Actions) /\ Len(L) \in Nat /\ from[s] \in Nat /\ upto \in Nat
  BY ViewsAre DEF Types
<1>2. /\ UNCHANGED <<view, rows, from, failed>> /\ Lanes' = Lanes
      /\ from[s] + 1 <= upto /\ upto <= Len(L) /\ from[s] <= upto
  BY <1>1 DEF Take, Lanes
<1>3. /\ batch'[s].busy /\ batch'[s].upto = upto
      /\ batch'[s].todo = [l \in Lanes |-> IF view.merges THEN Optimized(actions, l) ELSE actions]
      /\ batch'[s].seen = [l \in Lanes |-> Unread]
  BY DEF Take, Types
<1>4. actions \in Seq(Actions)
  BY <1>1, <1>2, CutsAreActions
<1>5. /\ \A n \in 1 .. Len(actions) : Writes(s, actions[n].id)
      /\ \A id : Optimized(actions, id) # <<>> => Writes(s, id)
  BY <1>1, <1>2, CutWrites
<1> HIDE DEF actions, L
<1>6. ASSUME NEW lane \in Lanes, NEW n \in 1 .. Len(batch'[s].todo[lane])
      PROVE  Writes(s, batch'[s].todo[lane][n].id)
             /\ (view.merges => batch'[s].todo[lane][n].id = lane)
  <2>1. CASE view.merges
    <3> DEFINE d == Optimized(actions, lane)
    <3>1. batch'[s].todo[lane] = d /\ d \in Seq(OnRow(lane))
      BY <1>3, <1>4, <2>1, OptimizedIs
    <3> HIDE DEF d
    <3>2. n \in 1 .. Len(d) /\ d # <<>>
      BY <1>6, <3>1
    <3>3. d[n] \in OnRow(lane)
      BY <3>1, <3>2
    <3>4. Writes(s, lane)
      BY <1>5, <3>2 DEF d
    <3> QED
      BY <3>1, <3>3, <3>4 DEF OnRow
  <2>2. CASE ~ view.merges
    <3>1. batch'[s].todo[lane] = actions
      BY <1>3, <2>2
    <3> QED
      BY <1>5, <1>6, <2>2, <3>1
  <2> QED
    BY <2>1, <2>2
<1>7. \A id : Writes(s, id)' = Writes(s, id)
  BY <1>2 DEF Writes, NoneOn
<1>8. Lined(s)'
  BY <1>2, <1>6, <1>7 DEF Lined
<1>9. Loaded(s)'
  BY <1>2, <1>3 DEF Loaded
<1> QED
  BY <1>2, <1>3, <1>8, <1>9 DEF Holds, L

(* The action at hand.                                                     *)
LEMMA HeadIs ==
  ASSUME Types, NEW s \in Sources, Holds(s), NEW lane \in Lanes, Working(s, lane)
  PROVE  LET action == Head(batch[s].todo[lane])
         IN  /\ batch[s] \in InHand /\ batch[s].busy /\ batch[s].todo[lane] # <<>>
             /\ action \in Actions /\ action.id \in Ids
             /\ Writes(s, action.id) /\ (view.merges => action.id = lane)
<1>1. /\ batch[s] \in InHand /\ batch[s].busy /\ batch[s].todo[lane] # <<>>
      /\ Head(batch[s].todo[lane]) \in Actions /\ Head(batch[s].todo[lane]).id \in Ids
  BY WorkingIs DEF Working
<1> DEFINE todo == batch[s].todo[lane]
<1>2. todo \in Seq(Actions)
  BY <1>1 DEF InHand
<1>3. \A n \in 1 .. Len(todo) : Writes(s, todo[n].id) /\ (view.merges => todo[n].id = lane)
  BY <1>1 DEF Holds, Lined
<1> HIDE DEF todo
<1>4. Head(todo) = todo[1] /\ 1 \in 1 .. Len(todo)
  BY <1>1, <1>2 DEF todo
<1> QED
  BY <1>1, <1>3, <1>4 DEF todo

(* Only one source writes a row of its own.                                *)
LEMMA WriterIs ==
  ASSUME NEW s \in Sources, NEW t \in Sources, NEW id, OnlyFrom(s, id), Writes(t, id)
  PROVE  t = s
BY DEF OnlyFrom, Writes

LEMMA LoadHolds ==
  ASSUME Types, NEW s \in Sources, Holds(s), NEW lane \in Lanes, LoadRow(s, lane)
  PROVE  /\ batch'[s].busy /\ batch'[s].upto = batch[s].upto /\ batch'[s].todo = batch[s].todo
         /\ batch'[s].ok = batch[s].ok
         /\ Holds(s)'
<1>1. /\ UNCHANGED <<view, rows, from>> /\ Lanes' = Lanes
      /\ Working(s, lane) /\ batch[s].busy
  BY DEF LoadRow, Lanes, Working
<1>2. batch[s] \in InHand
  BY <1>1, WorkingIs
<1>3. /\ batch'[s].busy /\ batch'[s].upto = batch[s].upto /\ batch'[s].todo = batch[s].todo
      /\ batch'[s].ok = batch[s].ok
      /\ batch'[s].seen = [batch[s].seen EXCEPT ![lane] = rows[Head(batch[s].todo[lane]).id]]
  BY <1>2 DEF LoadRow, Types, InHand
<1>4. Loaded(s)'
  <2> SUFFICES ASSUME NEW l \in Lanes, batch[s].todo[l] # <<>>,
                      OnlyFrom(s, Head(batch[s].todo[l]).id)
               PROVE  batch'[s].seen[l] \in {Unread, rows[Head(batch[s].todo[l]).id]}
    BY <1>1, <1>3 DEF Loaded, OnlyFrom
  <2>1. batch[s].seen[l] \in {Unread, rows[Head(batch[s].todo[l]).id]}
    BY <1>1 DEF Holds, Loaded
  <2>2. batch[s].seen \in [Lanes -> Rows \cup {Unread}]
    BY <1>2 DEF InHand
  <2> QED
    BY <1>3, <2>1, <2>2
<1>5. Lined(s)'
  BY <1>1, <1>3 DEF Holds, Lined, Writes
<1> QED
  BY <1>1, <1>3, <1>4, <1>5 DEF Holds

(* An action done with leaves what the other lanes hold alone.             *)
LEMMA DoneHolds ==
  ASSUME Types, NEW s \in Sources, Holds(s), NEW lane \in Lanes, Working(s, lane),
         NEW ok \in BOOLEAN, Done(s, lane, ok), UNCHANGED <<view, from>>,
         \A id \in Ids \ {Head(batch[s].todo[lane]).id} : rows'[id] = rows[id]
  PROVE  Holds(s)'
<1>1. /\ batch[s] \in InHand /\ batch[s].busy /\ batch[s].todo[lane] # <<>>
      /\ view.merges => Head(batch[s].todo[lane]).id = lane
  BY HeadIs
<1>2. /\ batch'[s].todo = [batch[s].todo EXCEPT ![lane] = Tail(@)]
      /\ batch'[s].seen = [batch[s].seen EXCEPT ![lane] = Unread]
      /\ batch'[s].busy /\ batch'[s].upto = batch[s].upto
      /\ Lanes' = Lanes
  <2>1. Lanes' = Lanes
    BY DEF Lanes
  <2> QED
    BY <1>1, <2>1 DEF Done, Types, InHand
<1>3. batch[s].todo \in [Lanes -> Seq(Actions)] /\ DOMAIN batch[s].seen = Lanes
  BY <1>1 DEF InHand
<1>4. /\ batch'[s].todo[lane] = Tail(batch[s].todo[lane]) /\ batch'[s].seen[lane] = Unread
      /\ \A l \in Lanes \ {lane} : /\ batch'[s].todo[l] = batch[s].todo[l]
                                   /\ batch'[s].seen[l] = batch[s].seen[l]
  BY <1>2, <1>3
<1>5. ASSUME NEW l \in Lanes, NEW n \in 1 .. Len(batch'[s].todo[l])
      PROVE  Writes(s, batch'[s].todo[l][n].id) /\ (view.merges => batch'[s].todo[l][n].id = l)
  <2>1. \A m \in 1 .. Len(batch[s].todo[l]) :
          Writes(s, batch[s].todo[l][m].id) /\ (view.merges => batch[s].todo[l][m].id = l)
    BY <1>1 DEF Holds, Lined
  <2>2. CASE l = lane
    <3> DEFINE todo == batch[s].todo[lane]
               rest == Tail(todo)
    <3>1. todo \in Seq(Actions) /\ todo # <<>>
      BY <1>1, <1>3
    <3>2. \A m \in 1 .. Len(rest) : rest[m] = todo[m + 1]
      BY <3>1, HeadTailProperties
    <3>3. Len(rest) = Len(todo) - 1 /\ Len(todo) \in Nat
      BY <3>1
    <3> HIDE DEF rest, todo
    <3>4. batch'[s].todo[l] = rest /\ n \in 1 .. Len(rest)
      BY <1>4, <1>5, <2>2 DEF rest, todo
    <3>5. n + 1 \in 1 .. Len(todo) /\ rest[n] = todo[n + 1]
      BY <3>2, <3>3, <3>4
    <3> QED
      BY <2>1, <2>2, <3>4, <3>5 DEF todo
  <2>3. CASE l # lane
    BY <1>4, <1>5, <2>1, <2>3
  <2> QED
    BY <2>2, <2>3
<1>6. Lined(s)'
  <2>1. \A id : Writes(s, id)' = Writes(s, id)
    BY DEF Writes, NoneOn
  <2> QED
    BY <1>2, <1>5, <2>1 DEF Lined
<1>7. Loaded(s)'
  <2> SUFFICES ASSUME NEW l \in Lanes, batch'[s].todo[l] # <<>>,
                      OnlyFrom(s, Head(batch'[s].todo[l]).id)
               PROVE  batch'[s].seen[l] \in {Unread, rows'[Head(batch'[s].todo[l]).id]}
    BY <1>2 DEF Loaded, OnlyFrom
  <2>1. CASE l = lane
    BY <1>4, <2>1
  <2>2. CASE l # lane
    <3>1. view.merges /\ l \in Ids
      BY <2>2 DEF Lanes
    <3>2. batch'[s].todo[l] = batch[s].todo[l] /\ batch'[s].seen[l] = batch[s].seen[l]
      BY <1>4, <2>2
    <3>3. batch[s].seen[l] \in {Unread, rows[Head(batch[s].todo[l]).id]}
      BY <1>1, <3>2 DEF Holds, Loaded
    <3>4. Working(s, l)
      BY <1>1, <1>3, <3>2 DEF Working
    <3>5. Head(batch[s].todo[l]).id = l
      BY <3>1, <3>4, HeadIs
    <3>6. rows'[l] = rows[l]
      BY <1>1, <2>2, <3>1
    <3> QED
      BY <3>2, <3>3, <3>5, <3>6
  <2> QED
    BY <2>1, <2>2
<1> QED
  BY <1>1, <1>2, <1>6, <1>7 DEF Holds

(* What a save does, and what it does to a row of the source's own: there  *)
(* what was loaded is what is there.                                       *)
LEMMA SaveIs ==
  ASSUME Types, NEW s \in Sources, Holds(s), NEW lane \in Lanes, SaveRow(s, lane)
  PROVE  LET action == Head(batch[s].todo[lane])
         IN  /\ Working(s, lane) /\ UNCHANGED <<view, from, failed>>
             /\ \A id \in Ids \ {action.id} : rows'[id] = rows[id]
             /\ raced' \subseteq raced \cup {action.id}
             /\ \E ok \in BOOLEAN : Done(s, lane, ok)
             /\ OnlyFrom(s, action.id) =>
                  /\ rows' = [rows EXCEPT ![action.id] = Applied(action, rows[action.id])]
                  /\ Done(s, lane, Accepts(action, rows[action.id]))
                  /\ raced' = raced
<1> DEFINE action == Head(batch[s].todo[lane])
<1>1. /\ Working(s, lane) /\ Base(s, lane) # Unread /\ UNCHANGED <<view, from, failed>>
      /\ raced' \subseteq raced \cup {action.id}
  BY DEF SaveRow
<1>2. action.id \in Ids /\ rows \in [Ids -> Rows] /\ batch[s].busy /\ batch[s].todo[lane] # <<>>
  BY <1>1, HeadIs DEF Types
<1>3. \A id \in Ids \ {action.id} : rows'[id] = rows[id]
  BY <1>2 DEF SaveRow
<1>4. CanSave(s, lane) \in BOOLEAN /\ Done(s, lane, CanSave(s, lane))
  BY DEF CanSave, Accepts, SaveRow
<1>5. ASSUME OnlyFrom(s, action.id)
      PROVE  /\ rows' = [rows EXCEPT ![action.id] = Applied(action, rows[action.id])]
             /\ Done(s, lane, Accepts(action, rows[action.id]))
             /\ raced' = raced
  <2>1. Base(s, lane) = rows[action.id]
    BY <1>1, <1>2, <1>5 DEF Base, Holds, Loaded
  <2>2. CanSave(s, lane) <=> Accepts(action, rows[action.id])
    BY <2>1 DEF CanSave
  <2>3. CanSave(s, lane) \in BOOLEAN /\ Accepts(action, rows[action.id]) \in BOOLEAN
    BY DEF CanSave, Accepts
  <2>4. CanSave(s, lane) = Accepts(action, rows[action.id])
    BY <2>2, <2>3
  <2> QED
    BY <1>2, <2>1, <2>4 DEF SaveRow, Applied
<1> QED
  BY <1>1, <1>3, <1>4, <1>5

LEMMA FailIs ==
  ASSUME Types, NEW s \in Sources, Holds(s), NEW lane \in Lanes, StorageFails(s, lane)
  PROVE  LET action == Head(batch[s].todo[lane])
         IN  /\ Working(s, lane) /\ Done(s, lane, FALSE) /\ UNCHANGED <<view, from, raced>>
             /\ failed' = failed \cup {action.id}
             /\ \A id \in Ids \ {action.id} : rows'[id] = rows[id]
<1>1. Working(s, lane)
  BY DEF StorageFails
<1>2. \A id \in Ids \ {Head(batch[s].todo[lane]).id} : rows'[id] = rows[id]
  BY DEF StorageFails, Types
<1> QED
  BY <1>1, <1>2 DEF StorageFails

(* The end of a batch.                                                     *)
LEMMA EndIs ==
  ASSUME Types, NEW s \in Sources, Holds(s), Ack(s) \/ Throw(s) \/ Crash(s)
  PROVE  /\ batch[s].busy /\ batch[s] \in InHand
         /\ view.log[s] \in Seq(Actions) /\ from[s] \in Nat /\ batch[s].upto \in Nat
         /\ from[s] <= batch[s].upto /\ batch[s].upto <= Len(view.log[s])
         /\ Ack(s) => from'[s] = batch[s].upto
         /\ Throw(s) \/ Crash(s) => from'[s] = from[s]
         /\ batch'[s] = Idle /\ ~ batch'[s].busy
         /\ UNCHANGED <<view, rows, raced, failed>>
         /\ Holds(s)'
<1>1. batch[s].busy
  BY DEF Ack, Throw, Crash, Worked
<1>2. batch[s] \in InHand
  BY <1>1 DEF Types, Idle
<1>3. /\ view.log[s] \in Seq(Actions) /\ from[s] \in Nat /\ batch[s].upto \in Nat
      /\ from[s] <= batch[s].upto /\ batch[s].upto <= Len(view.log[s])
  BY <1>1, <1>2, ViewsAre DEF Types, InHand, Holds
<1>4. Throw(s) \/ Crash(s) => from'[s] = from[s]
  BY DEF Throw, Crash
<1>5. Ack(s) => from'[s] = batch[s].upto
  BY DEF Ack, Types
<1>6. UNCHANGED <<view, rows, raced, failed>> /\ batch' = [batch EXCEPT ![s] = Idle]
  BY DEF Ack, Throw, Crash
<1>7. batch'[s] = Idle /\ ~ batch'[s].busy
  BY <1>6 DEF Types, Idle
<1>8. from'[s] <= Len(view.log[s])
  BY <1>3, <1>4, <1>5
<1> QED
  BY <1>1, <1>2, <1>3, <1>4, <1>5, <1>6, <1>7, <1>8 DEF Holds, Lined, Loaded

(* A source's own step, and what the steps of another source leave it.     *)
LEMMA OwnHolds ==
  ASSUME Types, NEW s \in Sources, Holds(s), Step(s)
  PROVE  Holds(s)'
<1>1. ASSUME NEW upto \in 1 .. Len(view.log[s]), Take(s, upto)
      PROVE  Holds(s)'
  BY <1>1, TakeHolds
<1>2. ASSUME NEW lane \in Lanes, LoadRow(s, lane)
      PROVE  Holds(s)'
  BY <1>2, LoadHolds
<1>3. ASSUME NEW lane \in Lanes, SaveRow(s, lane)
      PROVE  Holds(s)'
  BY <1>3, SaveIs, DoneHolds
<1>4. ASSUME NEW lane \in Lanes, StorageFails(s, lane)
      PROVE  Holds(s)'
  BY <1>4, FailIs, DoneHolds
<1>5. CASE Ack(s) \/ Throw(s) \/ Crash(s)
  BY <1>5, EndIs
<1> QED
  BY <1>1, <1>2, <1>3, <1>4, <1>5 DEF Step

LEMMA OthersKeep ==
  ASSUME Types, NEW s \in Sources, NEW t \in Sources \ {s}, Holds(t), Step(t)
  PROVE  /\ batch'[s] = batch[s] /\ from'[s] = from[s] /\ view' = view
         /\ failed \subseteq failed'
         /\ \A id \in Ids : OnlyFrom(s, id) => rows'[id] = rows[id]
<1> DEFINE Keeps == /\ batch'[s] = batch[s] /\ from'[s] = from[s] /\ view' = view
                    /\ failed \subseteq failed'
                    /\ \A id \in Ids : OnlyFrom(s, id) => rows'[id] = rows[id]
<1>1. CASE rows' = rows
  BY <1>1 DEF Step, Take, LoadRow, SaveRow, StorageFails, Done, Ack, Throw, Crash, Types
<1>2. ASSUME NEW lane \in Lanes, SaveRow(t, lane) \/ StorageFails(t, lane)
      PROVE  Keeps
  <2> DEFINE id == Head(batch[t].todo[lane]).id
  <2>1. Working(t, lane) /\ \A other \in Ids \ {id} : rows'[other] = rows[other]
    <3>1. CASE SaveRow(t, lane)
      BY <3>1, SaveIs
    <3>2. CASE StorageFails(t, lane)
      BY <3>2, FailIs
    <3> QED
      BY <1>2, <3>1, <3>2
  <2>2. ~ OnlyFrom(s, id)
    BY <2>1, HeadIs, WriterIs
  <2>3. batch'[s] = batch[s] /\ from'[s] = from[s] /\ view' = view /\ failed \subseteq failed'
    BY <1>2 DEF SaveRow, StorageFails, Done, Types
  <2> QED
    BY <2>1, <2>2, <2>3
<1>3. ASSUME rows' # rows
      PROVE  \E lane \in Lanes : SaveRow(t, lane) \/ StorageFails(t, lane)
  BY <1>3 DEF Step, Take, LoadRow, Ack, Throw, Crash
<1> QED
  BY <1>1, <1>2, <1>3

LEMMA OtherHolds ==
  ASSUME Types, NEW s \in Sources, NEW t \in Sources \ {s}, Holds(t), Step(t), Holds(s)
  PROVE  Holds(s)'
<1>1. /\ batch'[s] = batch[s] /\ from'[s] = from[s] /\ view' = view /\ Lanes' = Lanes
      /\ \A id \in Ids : OnlyFrom(s, id) => rows'[id] = rows[id]
  BY OthersKeep DEF Lanes
<1>2. Lined(s)'
  BY <1>1 DEF Holds, Lined, Writes
<1>3. Loaded(s)'
  <2> SUFFICES ASSUME batch[s].busy, NEW lane \in Lanes, batch[s].todo[lane] # <<>>,
                      OnlyFrom(s, Head(batch[s].todo[lane]).id)
               PROVE  batch[s].seen[lane] \in {Unread, rows'[Head(batch[s].todo[lane]).id]}
    BY <1>1 DEF Loaded, OnlyFrom
  <2>1. batch[s] \in InHand
    BY DEF Types, Idle
  <2>2. Working(s, lane)
    BY <2>1 DEF Working, InHand
  <2>3. Head(batch[s].todo[lane]).id \in Ids
    BY <2>2, HeadIs
  <2> QED
    BY <1>1, <2>3 DEF Holds, Loaded
<1> QED
  BY <1>1, <1>2, <1>3 DEF Holds

(* What a source saves over is only ever a change of another source.       *)
Unraced == \A id \in raced : ~ OwnRow(id)

HeldRows == (\A s \in Sources : Holds(s)) /\ Unraced

LEMMA HeldStep ==
  ASSUME Types, HeldRows, [Next]_vars
  PROVE  HeldRows'
<1>1. CASE UNCHANGED vars
  BY <1>1 DEF vars, HeldRows, Holds, Lined, Loaded, Writes, OnlyFrom, Unraced, OwnRow, Lanes
<1>2. ASSUME NEW t \in Sources, Step(t)
      PROVE  HeldRows'
  <2>1. Holds(t)
    BY DEF HeldRows
  <2>2. \A s \in Sources : Holds(s)'
    <3> TAKE s \in Sources
    <3>1. CASE s = t
      BY <1>2, <2>1, <3>1, OwnHolds
    <3>2. CASE s # t
      BY <1>2, <2>1, <3>2, OtherHolds DEF HeldRows
    <3> QED
      BY <3>1, <3>2
  <2>3. view' = view
    BY <1>2 DEF Step, Take, LoadRow, SaveRow, StorageFails, Ack, Throw, Crash
  <2>4. \A id : OwnRow(id)' <=> OwnRow(id)
    BY <2>3 DEF OwnRow, OnlyFrom
  <2>5. ASSUME NEW lane \in Lanes, SaveRow(t, lane)
        PROVE  \A id \in raced' : ~ OwnRow(id)
    <3> DEFINE own == Head(batch[t].todo[lane]).id
    <3>1. /\ Working(t, lane) /\ raced' \subseteq raced \cup {own}
          /\ OnlyFrom(t, own) => raced' = raced
      BY <2>1, <2>5, SaveIs
    <3>2. Writes(t, own)
      BY <2>1, <3>1, HeadIs
    <3>3. OwnRow(own) => OnlyFrom(t, own)
      BY <3>2, WriterIs DEF OwnRow
    <3> QED
      BY <3>1, <3>3 DEF HeldRows, Unraced
  <2>6. CASE raced' = raced
    BY <2>2, <2>4, <2>6 DEF HeldRows, Unraced
  <2>7. raced' = raced \/ \E lane \in Lanes : SaveRow(t, lane)
    BY <1>2 DEF Step, Take, LoadRow, StorageFails, Ack, Throw, Crash
  <2> QED
    BY <2>2, <2>4, <2>5, <2>6, <2>7 DEF HeldRows, Unraced
<1> QED
  BY <1>1, <1>2 DEF Next

LEMMA HeldInit == Init => HeldRows
<1> SUFFICES ASSUME Init PROVE HeldRows
  OBVIOUS
<1>1. \A s \in Sources : from[s] = 0 /\ ~ batch[s].busy /\ view.log[s] \in Seq(Actions)
  BY ViewsAre DEF Init, Idle
<1> QED
  BY <1>1 DEF Init, HeldRows, Holds, Lined, Loaded, Unraced

LEMMA AlwaysHeld == Spec => []HeldRows
BY HeldInit, HeldStep, AlwaysTypes, PTL DEF Spec

(* A row that one source writes is never saved over a change that its      *)
(* saver had not loaded.                                                   *)
THEOREM OwnRowsDoNotRace == Spec => [](\A id \in raced : ~ OwnRow(id))
<1>1. HeldRows => \A id \in raced : ~ OwnRow(id)
  BY DEF HeldRows, Unraced
<1> QED
  BY <1>1, AlwaysHeld, PTL

-----------------------------------------------------------------------------
(* A source keeps the rows of its own standing.                             *)

LEMMA StandsInit ==
  ASSUME NEW s \in Sources, IsOrderly(view.log[s]), Init
  PROVE  Stands(s)
<1>1. view.log[s] \in Seq(Actions) /\ Len(view.log[s]) \in Nat
  BY ViewsAre DEF Init
<1>2. ASSUME NEW id \in Ids
      PROVE  NearSome(view.log[s], id, 0, NoRow)
  <2>1. Near(view.log[s], id, 0, 0, At(view.log[s], id, 0))
    BY <1>1, NearOwn
  <2>2. At(view.log[s], id, 0) = NoRow /\ 0 \in 0 .. Len(view.log[s])
    BY <1>1, AtIs
  <2> QED
    BY <2>1, <2>2 DEF NearSome
<1>3. from[s] = 0 /\ ~ batch[s].busy /\ \A id \in Ids : rows[id] = NoRow
  BY DEF Init, Idle
<1> QED
  BY <1>1, <1>2, <1>3 DEF Stands, RowStands

LEMMA TakeStands ==
  ASSUME Types, NEW s \in Sources, IsOrderly(view.log[s]), Holds(s), Stands(s),
         NEW upto \in 1 .. Len(view.log[s]), Take(s, upto)
  PROVE  Stands(s)'
<1> DEFINE L == view.log[s]
           actions == SubSeq(L, from[s] + 1, upto)
<1>1. L \in Seq(Actions) /\ Len(L) \in Nat /\ from[s] \in Nat /\ upto \in Nat
  BY ViewsAre DEF Types
<1>2. /\ UNCHANGED <<view, rows, from, failed>> /\ Lanes' = Lanes
      /\ ~ batch[s].busy /\ from[s] + 1 <= upto /\ upto <= Len(L) /\ from[s] <= upto
  BY <1>1 DEF Take, Lanes
<1>3. /\ batch'[s].busy /\ batch'[s].upto = upto
      /\ batch'[s].todo = [l \in Lanes |-> IF view.merges THEN Optimized(actions, l) ELSE actions]
  BY DEF Take, Types
<1> HIDE DEF actions, L
<1>4. ASSUME NEW id \in Ids \ failed, OnlyFrom(s, id)
      PROVE  RowStands(s, id)'
  <2>1. NearSome(L, id, from[s], rows[id])
    BY <1>2, <1>4 DEF Stands, RowStands, L
  <2>2. from[s] \in from[s] .. upto
    BY <1>1, <1>2
  <2>3. CASE ~ view.merges
    <3>1. batch'[s].todo[Everything] = actions
      BY <1>3, <2>3 DEF Lanes
    <3>2. IsRest(actions, L, from[s], upto)
      BY <1>1, <1>2, RestBatch DEF actions
    <3> QED
      BY <1>2, <1>3, <2>1, <2>2, <2>3, <3>1, <3>2 DEF RowStands, L
  <2>4. CASE view.merges
    <3>1. batch'[s].todo[id] = Optimized(actions, id)
      BY <1>3, <2>4 DEF Lanes
    <3>2. Covers(Optimized(actions, id), L, id, from[s], upto)
      BY <1>1, <1>2, CoversBatch DEF actions, L
    <3> QED
      BY <1>2, <1>3, <2>1, <2>2, <2>4, <3>1, <3>2 DEF RowStands, L
  <2> QED
    BY <2>3, <2>4
<1> QED
  BY <1>2, <1>4 DEF Stands, OnlyFrom

LEMMA LoadStands ==
  ASSUME Types, NEW s \in Sources, Holds(s), Stands(s), NEW lane \in Lanes, LoadRow(s, lane)
  PROVE  Stands(s)'
<1>1. UNCHANGED <<view, rows, from, failed>> /\ batch[s].busy
  BY DEF LoadRow, Working
<1>2. /\ batch'[s].busy /\ batch'[s].upto = batch[s].upto /\ batch'[s].todo = batch[s].todo
      /\ batch'[s].ok = batch[s].ok
  BY LoadHolds
<1> QED
  BY <1>1, <1>2 DEF Stands, OnlyFrom, RowStands

(* The rows an action is not on.                                           *)
LEMMA DoneOthers ==
  ASSUME Types, NEW s \in Sources, IsOrderly(view.log[s]), Holds(s),
         NEW lane \in Lanes, Working(s, lane),
         NEW ok \in BOOLEAN, Done(s, lane, ok), UNCHANGED <<view, from>>,
         NEW id \in Ids, RowStands(s, id),
         id # Head(batch[s].todo[lane]).id, rows'[id] = rows[id]
  PROVE  RowStands(s, id)'
<1> DEFINE L == view.log[s]
           todo == batch[s].todo
           upto == batch[s].upto
<1>1. /\ L \in Seq(Actions) /\ from[s] \in Nat /\ upto \in Nat /\ upto <= Len(L)
      /\ batch[s].busy /\ batch[s] \in InHand /\ todo[lane] # <<>>
      /\ view.merges => Head(todo[lane]).id = lane
  <2>1. /\ batch[s] \in InHand /\ batch[s].busy /\ todo[lane] # <<>>
        /\ view.merges => Head(todo[lane]).id = lane
    BY HeadIs
  <2> QED
    BY <2>1, ViewsAre DEF Types, InHand, Holds
<1>2. /\ batch'[s].busy /\ batch'[s].upto = upto /\ batch'[s].todo = [todo EXCEPT ![lane] = Tail(@)]
      /\ batch'[s].ok = [batch[s].ok EXCEPT ![lane] = ok]
  BY <1>1 DEF Done, Types, InHand
<1>3. DOMAIN todo = Lanes /\ DOMAIN batch[s].ok = Lanes
  BY <1>1 DEF InHand
<1>4. CASE view.merges
  <2>1. id # lane /\ id \in Lanes
    BY <1>1, <1>4 DEF Lanes
  <2>2. batch'[s].todo[id] = todo[id] /\ batch'[s].ok[id] = batch[s].ok[id]
    BY <1>2, <1>3, <2>1
  <2> QED
    BY <1>1, <1>2, <1>4, <2>2 DEF RowStands
<1>5. CASE ~ view.merges
  <2>1. lane = Everything
    BY <1>5 DEF Lanes
  <2>2. todo[lane] \in Seq(Actions)
    BY <1>1 DEF InHand
  <2>3. PICK i \in from[s] .. upto : IsRest(todo[lane], L, i, upto) /\ NearSome(L, id, i, rows[id])
    BY <1>1, <1>5, <2>1 DEF RowStands
  <2>4. i \in Nat /\ i <= upto
    BY <1>1, <2>3
  <2>5. i + 1 <= upto /\ Head(todo[lane]) = L[i + 1] /\ IsRest(Tail(todo[lane]), L, i + 1, upto)
    BY <1>1, <2>2, <2>3, <2>4, RestHead
  <2>6. NoneOn(L, id, i, i + 1)
    BY <2>4, <2>5 DEF NoneOn
  <2>7. i + 1 \in Nat /\ i <= i + 1 /\ i + 1 <= Len(L) /\ i + 1 \in from[s] .. upto
    BY <1>1, <2>3, <2>4, <2>5
  <2>8. NearSome(L, id, i + 1, rows[id])
    BY <1>1, <2>3, <2>4, <2>6, <2>7, NearSkip
  <2>9. batch'[s].todo[Everything] = Tail(todo[lane])
    BY <1>2, <1>3, <2>1
  <2> QED
    BY <1>2, <1>5, <2>5, <2>7, <2>8, <2>9 DEF RowStands
<1> QED
  BY <1>4, <1>5

(* The row that is saved comes to stand after the action.                  *)
LEMMA SavedStands ==
  ASSUME Types, NEW s \in Sources, IsOrderly(view.log[s]), Holds(s),
         NEW lane \in Lanes, SaveRow(s, lane),
         NEW id \in Ids, id = Head(batch[s].todo[lane]).id, OnlyFrom(s, id), RowStands(s, id)
  PROVE  RowStands(s, id)'
<1> DEFINE L == view.log[s]
           todo == batch[s].todo
           upto == batch[s].upto
           action == Head(todo[lane])
           row == rows[id]
           ok == Accepts(action, row)
<1>1. /\ Working(s, lane) /\ batch[s] \in InHand /\ batch[s].busy /\ todo[lane] # <<>>
      /\ action \in Actions /\ action.id = id /\ (view.merges => id = lane)
  <2>1. Working(s, lane)
    BY DEF SaveRow
  <2> QED
    BY <2>1, HeadIs
<1>2. /\ rows' = [rows EXCEPT ![id] = Applied(action, row)] /\ Done(s, lane, ok)
      /\ view' = view /\ from' = from
  BY SaveIs
<1>3. /\ L \in Seq(Actions) /\ from[s] \in Nat /\ upto \in Nat /\ upto <= Len(L)
      /\ todo \in [Lanes -> Seq(Actions)] /\ batch[s].ok \in [Lanes -> BOOLEAN]
      /\ row \in Rows
  BY <1>1, ViewsAre DEF Types, InHand, Holds
<1>4. /\ batch'[s].busy /\ batch'[s].upto = upto /\ batch'[s].todo = [todo EXCEPT ![lane] = Tail(@)]
      /\ batch'[s].ok = [batch[s].ok EXCEPT ![lane] = ok]
  BY <1>1, <1>2 DEF Done, Types, InHand
<1>5. /\ batch'[s].todo[lane] = Tail(todo[lane]) /\ batch'[s].ok[lane] = ok
      /\ rows'[id] = Applied(action, row)
  BY <1>1, <1>2, <1>3, <1>4 DEF Types
<1>7. ~ ok => action.kind \in {"Create", "Update"}
  BY DEF Accepts
<1>8. ~ ok => Applied(action, row) = row
  BY DEF Applied
<1>9. action.kind = "Create" => (ok <=> row = NoRow)
  BY DEF Accepts
<1> HIDE DEF ok, row
<1>10. CASE ~ view.merges
  <2>1. lane = Everything
    BY <1>10 DEF Lanes
  <2>2. PICK i \in from[s] .. upto : IsRest(todo[lane], L, i, upto) /\ NearSome(L, id, i, row)
    BY <1>1, <1>10, <2>1 DEF RowStands, row
  <2>3. i \in Nat /\ i <= upto /\ todo[lane] \in Seq(Actions)
    BY <1>3, <2>2
  <2>4. i + 1 <= upto /\ action = L[i + 1] /\ IsRest(Tail(todo[lane]), L, i + 1, upto)
    BY <1>1, <1>3, <2>2, <2>3, RestHead
  <2>5. /\ i + 1 \in Nat /\ i <= i + 1 /\ i + 1 <= Len(L) /\ i + 1 \in from[s] .. upto
        /\ i + 1 \in 1 .. Len(L) /\ (i + 1) - 1 = i
    <3>1. i \in from[s] .. upto /\ i + 1 <= upto /\ Len(L) \in Nat
      BY <1>3, <2>4
    <3> QED
      BY <1>3, <2>3, <3>1
  <2>6. NearSome(L, id, i + 1, Applied(action, row))
    <3>1. CASE action.kind = "Create" => row = NoRow
      <4>1. Represents(action, L, id, i, i + 1)
        BY <1>3, <2>4, <2>5, OneRepresents
      <4> QED
        BY <1>1, <1>3, <2>2, <2>3, <2>5, <3>1, <4>1, NearApplied
    <3>2. CASE action.kind = "Create" /\ row # NoRow
      <4>1. Applied(action, row) = row
        BY <1>8, <1>9, <3>2
      <4>2. NearSome(L, id, (i + 1) - 1, row) /\ L[i + 1].id = id /\ L[i + 1].kind = "Create"
        BY <1>1, <2>2, <2>4, <2>5, <3>2
      <4>3. NearSome(L, id, i + 1, row)
        BY <1>3, <2>5, <3>2, <4>2, NearRefused
      <4> QED
        BY <4>1, <4>3
    <3> QED
      BY <3>1, <3>2
  <2> QED
    BY <1>2, <1>4, <1>5, <1>10, <2>1, <2>4, <2>5, <2>6 DEF RowStands
<1>11. CASE view.merges
  <2>1. id = lane /\ todo[id] \in Seq(OnRow(id))
    <3>1. id = lane /\ todo[id] \in Seq(Actions)
      BY <1>1, <1>3, <1>11
    <3>2. \A n \in 1 .. Len(todo[id]) : todo[id][n].id = id
      BY <1>1, <1>11, <3>1 DEF Holds, Lined
    <3> DEFINE d == todo[id]
    <3> HIDE DEF d
    <3>3. d \in Seq(Actions) /\ \A n \in 1 .. Len(d) : d[n].id = id
      BY <3>1, <3>2 DEF d
    <3>4. \A n \in 1 .. Len(d) : d[n] \in OnRow(id)
      BY <3>3 DEF OnRow
    <3>5. d \in Seq(OnRow(id))
      BY <3>3, <3>4
    <3> QED
      BY <3>1, <3>5 DEF d
  <2>2. PICK i \in from[s] .. upto : NearSome(L, id, i, row) /\ Covers(todo[id], L, id, i, upto)
    BY <1>1, <1>11, <2>1 DEF RowStands, row
  <2>3. i \in Nat /\ i <= upto
    <3>1. from[s] \in Nat /\ upto \in Nat /\ i \in from[s] .. upto
      BY <1>3
    <3> QED
      BY <3>1
  <2>4. PICK k \in i .. upto : /\ Represents(action, L, id, i, k)
                               /\ Covers(Tail(todo[id]), L, id, k, upto)
                               /\ action.kind = "Create" => Tail(todo[id]) = <<>>
    <3> DEFINE d == todo[id]
    <3>1. /\ L \in Seq(Actions) /\ d \in Seq(OnRow(id)) /\ d # <<>> /\ action = Head(d)
          /\ upto \in Nat /\ Covers(d, L, id, i, upto)
      BY <1>1, <1>3, <2>1, <2>2
    <3> HIDE DEF d, action, L, upto
    <3>2. \E k \in i .. upto : /\ Represents(Head(d), L, id, i, k)
                               /\ Covers(Tail(d), L, id, k, upto)
                               /\ Head(d).kind = "Create" => Tail(d) = <<>>
      BY <2>3, <3>1, CoversHead
    <3> QED
      BY <3>1, <3>2 DEF d
  <2>5. k \in Nat /\ i <= k /\ k <= Len(L) /\ k \in from[s] .. upto
    <3>1. k \in i .. upto /\ i \in from[s] .. upto /\ Len(L) \in Nat
      BY <1>3
    <3> QED
      BY <1>3, <2>3, <3>1
  <2>6. CASE action.kind = "Create" => row = NoRow
    <3>1. NearSome(L, id, k, Applied(action, row))
      BY <1>1, <1>3, <2>2, <2>3, <2>4, <2>5, <2>6, NearApplied
    <3> QED
      BY <1>2, <1>4, <1>5, <1>11, <2>1, <2>4, <2>5, <3>1 DEF RowStands
  <2>7. CASE action.kind = "Create" /\ row # NoRow
    <3>1. ~ ok /\ Applied(action, row) = row /\ Tail(todo[id]) = <<>>
      BY <1>8, <1>9, <2>4, <2>7
    <3> QED
      BY <1>2, <1>4, <1>5, <1>11, <2>1, <2>2, <3>1 DEF RowStands
  <2> QED
    BY <2>6, <2>7
<1> QED
  BY <1>10, <1>11

LEMMA SaveStands ==
  ASSUME Types, NEW s \in Sources, IsOrderly(view.log[s]), Holds(s), Stands(s),
         NEW lane \in Lanes, SaveRow(s, lane)
  PROVE  Stands(s)'
<1> DEFINE action == Head(batch[s].todo[lane])
<1>1. /\ Working(s, lane) /\ UNCHANGED <<view, from, failed>>
      /\ \A id \in Ids \ {action.id} : rows'[id] = rows[id]
  BY SaveIs
<1>2. PICK ok \in BOOLEAN : Done(s, lane, ok)
  BY SaveIs
<1>3. ASSUME NEW id \in Ids \ failed, OnlyFrom(s, id)
      PROVE  RowStands(s, id)'
  <2>0. RowStands(s, id)
    BY <1>3 DEF Stands
  <2>1. CASE id = action.id
    BY <1>3, <2>0, <2>1, SavedStands
  <2>2. CASE id # action.id
    BY <1>1, <1>2, <2>0, <2>2, DoneOthers
  <2> QED
    BY <2>1, <2>2
<1> QED
  BY <1>1, <1>3 DEF Stands, OnlyFrom

LEMMA FailStands ==
  ASSUME Types, NEW s \in Sources, IsOrderly(view.log[s]), Holds(s), Stands(s),
         NEW lane \in Lanes, StorageFails(s, lane)
  PROVE  Stands(s)'
<1> DEFINE action == Head(batch[s].todo[lane])
<1>1. /\ Working(s, lane) /\ Done(s, lane, FALSE) /\ UNCHANGED <<view, from>>
      /\ failed' = failed \cup {action.id}
      /\ \A id \in Ids \ {action.id} : rows'[id] = rows[id]
  BY FailIs
<1>2. ASSUME NEW id \in Ids \ failed', OnlyFrom(s, id)
      PROVE  RowStands(s, id)'
  <2>1. RowStands(s, id) /\ id # action.id /\ rows'[id] = rows[id]
    BY <1>1, <1>2 DEF Stands
  <2> QED
    BY <1>1, <2>1, DoneOthers
<1> QED
  BY <1>1, <1>2 DEF Stands, OnlyFrom

(* A batch that is acknowledged has been applied to the end.               *)
LEMMA AckStands ==
  ASSUME Types, NEW s \in Sources, Holds(s), Stands(s), Ack(s)
  PROVE  Stands(s)'
<1> DEFINE L == view.log[s]
           upto == batch[s].upto
<1>1. /\ Worked(s) /\ ~ Throws(s) /\ batch[s].busy
      /\ L \in Seq(Actions) /\ from[s] \in Nat /\ upto \in Nat
      /\ from[s] <= upto /\ upto <= Len(L)
      /\ from'[s] = upto /\ ~ batch'[s].busy /\ UNCHANGED <<view, rows, failed>>
  <2>1. Worked(s) /\ ~ Throws(s)
    BY DEF Ack
  <2> QED
    BY <2>1, EndIs
<1>2. ASSUME NEW id \in Ids \ failed, OnlyFrom(s, id)
      PROVE  NearSome(L, id, upto, rows[id])
  <2>1. RowStands(s, id)
    BY <1>2 DEF Stands
  <2>2. CASE view.merges
    <3>1. id \in Lanes /\ batch[s].todo[id] = <<>> /\ batch[s].ok[id]
      BY <1>1, <2>2 DEF Worked, Throws, Lanes
    <3>2. PICK i \in from[s] .. upto :
            NearSome(L, id, i, rows[id]) /\ Covers(<<>>, L, id, i, upto)
      BY <1>1, <2>1, <2>2, <3>1 DEF RowStands
    <3>3. NoneOn(L, id, i, upto) /\ i \in Nat /\ i <= upto
      BY <1>1, <3>2 DEF Covers
    <3> QED
      BY <1>1, <3>2, <3>3, NearSkip
  <2>3. CASE ~ view.merges
    <3>1. batch[s].todo[Everything] = <<>>
      BY <1>1, <2>3 DEF Worked, Lanes
    <3>2. PICK i \in from[s] .. upto :
            IsRest(<<>>, L, i, upto) /\ NearSome(L, id, i, rows[id])
      BY <1>1, <2>1, <2>3, <3>1 DEF RowStands
    <3>3. i = upto
      BY <1>1, <3>2 DEF IsRest
    <3> QED
      BY <3>2, <3>3
  <2> QED
    BY <2>2, <2>3
<1> QED
  BY <1>1, <1>2 DEF Stands, OnlyFrom, RowStands

(* A batch that is broken off comes again.                                 *)
LEMMA BrokenOffStands ==
  ASSUME Types, NEW s \in Sources, IsOrderly(view.log[s]), Holds(s), Stands(s),
         Throw(s) \/ Crash(s)
  PROVE  Stands(s)'
<1> DEFINE L == view.log[s]
           upto == batch[s].upto
<1>1. /\ batch[s].busy /\ L \in Seq(Actions) /\ from[s] \in Nat /\ upto \in Nat
      /\ from[s] <= upto /\ upto <= Len(L)
      /\ from'[s] = from[s] /\ ~ batch'[s].busy /\ UNCHANGED <<view, rows, failed>>
  BY EndIs
<1>2. ASSUME NEW id \in Ids \ failed, OnlyFrom(s, id)
      PROVE  NearSome(L, id, from[s], rows[id])
  <2>1. PICK i \in from[s] .. upto : NearSome(L, id, i, rows[id])
    BY <1>1, <1>2 DEF Stands, RowStands
  <2>2. PICK g \in i .. Len(L) : Near(L, id, i, g, rows[id])
    BY <2>1 DEF NearSome
  <2>3. /\ i \in Nat /\ g \in Nat /\ from[s] <= i /\ i <= g /\ g <= Len(L)
        /\ g \in from[s] .. Len(L)
    BY <1>1, <2>1, <2>2
  <2>4. Near(L, id, from[s], g, rows[id])
    BY <1>1, <2>2, <2>3, NearRestart
  <2> QED
    BY <2>3, <2>4 DEF NearSome
<1> QED
  BY <1>1, <1>2 DEF Stands, OnlyFrom, RowStands

OrderlyStand == \A s \in Sources : IsOrderly(view.log[s]) => Stands(s)

LEMMA OrderlyStep ==
  ASSUME Types, HeldRows, OrderlyStand, [Next]_vars
  PROVE  OrderlyStand'
<1>1. CASE UNCHANGED vars
  BY <1>1 DEF vars, OrderlyStand, Stands, OnlyFrom, RowStands
<1>2. ASSUME NEW t \in Sources, Step(t)
      PROVE  OrderlyStand'
  <2>0. view' = view
    BY <1>2 DEF Step, Take, LoadRow, SaveRow, StorageFails, Ack, Throw, Crash
  <2> SUFFICES ASSUME NEW s \in Sources, IsOrderly(view.log[s])
               PROVE  Stands(s)'
    BY <2>0 DEF OrderlyStand
  <2>1. Stands(s) /\ Holds(s) /\ Holds(t)
    BY DEF OrderlyStand, HeldRows
  <2>2. CASE s # t
    <3>1. /\ batch'[s] = batch[s] /\ from'[s] = from[s] /\ failed \subseteq failed'
          /\ \A id \in Ids : OnlyFrom(s, id) => rows'[id] = rows[id]
      BY <1>2, <2>1, <2>2, OthersKeep
    <3> QED
      BY <2>0, <2>1, <3>1 DEF Stands, OnlyFrom, RowStands
  <2>3. CASE s = t
    <3>1. ASSUME NEW upto \in 1 .. Len(view.log[s]), Take(s, upto)
          PROVE  Stands(s)'
      BY <2>1, <3>1, TakeStands
    <3>2. ASSUME NEW lane \in Lanes, LoadRow(s, lane)
          PROVE  Stands(s)'
      BY <2>1, <3>2, LoadStands
    <3>3. ASSUME NEW lane \in Lanes, SaveRow(s, lane)
          PROVE  Stands(s)'
      BY <2>1, <3>3, SaveStands
    <3>4. ASSUME NEW lane \in Lanes, StorageFails(s, lane)
          PROVE  Stands(s)'
      BY <2>1, <3>4, FailStands
    <3>5. CASE Ack(s)
      BY <2>1, <3>5, AckStands
    <3>6. CASE Throw(s) \/ Crash(s)
      BY <2>1, <3>6, BrokenOffStands
    <3> QED
      BY <1>2, <2>3, <3>1, <3>2, <3>3, <3>4, <3>5, <3>6 DEF Step
  <2> QED
    BY <2>2, <2>3
<1> QED
  BY <1>1, <1>2 DEF Next

LEMMA AlwaysOrderly == Spec => []OrderlyStand
<1>1. Init => OrderlyStand
  BY StandsInit DEF OrderlyStand
<1> QED
  BY <1>1, OrderlyStep, AlwaysTypes, AlwaysHeld, PTL DEF Spec

(* Whatever its projection and its history, however its batches are cut,   *)
(* merged, broken off and delivered again, and whatever other sources do   *)
(* at the same time: when everything is acknowledged, each row that one    *)
(* source writes, and the storage has not failed on, is what the events of *)
(* that source make of it once, in order.                                  *)
RowsConverge ==
  AllAcked /\ (\A s \in Sources : IsOrderly(view.log[s])) =>
    \A id \in Ids \ failed : OwnRow(id) => Rightful(id)

(* The rows of one source converge, in every behaviour.                    *)
THEOREM OwnRowsConverge == Spec => []RowsConverge
<1>1. Types /\ HeldRows /\ OrderlyStand => RowsConverge
  <2> SUFFICES ASSUME Types, HeldRows, OrderlyStand, AllAcked,
                      \A s \in Sources : IsOrderly(view.log[s]), NEW id \in Ids \ failed,
                      NEW s \in Sources, OnlyFrom(s, id)
               PROVE  Rightful(id)
    BY DEF RowsConverge, OwnRow
  <2> DEFINE L == view.log[s]
             N == Len(L)
  <2>1. Holds(s) /\ RowStands(s, id)
    BY DEF OrderlyStand, Stands, HeldRows
  <2>2. L \in Seq(Actions) /\ N \in Nat /\ from[s] = N /\ rows[id] \in Rows
    BY ViewsAre DEF AllAcked, Types
  <2> HIDE DEF N
  <2>3. NearSome(L, id, N, rows[id])
    <3>1. CASE ~ batch[s].busy
      BY <2>1, <2>2, <3>1 DEF RowStands
    <3>2. CASE batch[s].busy
      <4>1. batch[s].upto \in Nat /\ batch[s].upto <= N
        <5>1. batch[s] \in InHand
          BY <3>2 DEF Types, Idle
        <5>2. batch[s].upto <= Len(L)
          BY <2>1, <3>2 DEF Holds
        <5> QED
          BY <5>1, <5>2 DEF InHand, N
      <4>2. PICK i \in from[s] .. batch[s].upto : NearSome(L, id, i, rows[id])
        BY <2>1, <3>2 DEF RowStands
      <4>3. i = N
        BY <2>2, <4>1, <4>2
      <4> QED
        BY <4>2, <4>3
    <3> QED
      BY <3>1, <3>2
  <2>4. Near(L, id, N, N, rows[id])
    <3>1. PICK g \in N .. N : Near(L, id, N, g, rows[id])
      BY <2>3 DEF NearSome, N
    <3> QED
      BY <2>2, <3>1
  <2>5. rows[id] = At(L, id, N)
    <3>1. N <= Len(L)
      BY <2>2 DEF N
    <3> QED
      BY <2>2, <2>4, <3>1, NearEnd
  <2>6. Expected(s, id) = rows[id]
    BY <2>5 DEF Expected, ApplyAll, At, N
  <2>7. ASSUME NEW t \in Sources \ {s}
        PROVE  Expected(t, id) = NoRow
    <3> DEFINE K == view.log[t]
    <3>1. K \in Seq(Actions) /\ 0 \in Nat /\ Len(K) \in Nat /\ 0 <= Len(K) /\ Len(K) <= Len(K)
          /\ NoneOn(K, id, 0, Len(K))
      BY ViewsAre DEF Types, OnlyFrom
    <3>2. At(K, id, Len(K)) = At(K, id, 0) /\ At(K, id, 0) = NoRow
      BY <3>1, NoneOnStays, AtIs
    <3> QED
      BY <3>2 DEF Expected, ApplyAll, At
  <2> QED
    BY <2>6, <2>7 DEF Rightful
<1> QED
  BY <1>1, AlwaysTypes, AlwaysHeld, AlwaysOrderly, PTL

(* So a view each of whose rows is written by one source converges, and    *)
(* what its sources contribute comes together in it.                       *)
EachRowOwn == \A id \in Ids : OwnRow(id)

THEOREM ViewsOfOwnRowsConverge == Spec => [](EachRowOwn => ViewsConverge /\ SourcesMerge)
<1>1. RowsConverge => (EachRowOwn => ViewsConverge /\ SourcesMerge)
  BY DEF RowsConverge, EachRowOwn, ViewsConverge, SourcesMerge
<1> QED
  BY <1>1, OwnRowsConverge, PTL

-----------------------------------------------------------------------------
(* Rows that several sources fill in, each the fields of its own, in a     *)
(* view that applies its actions in turn.  A default is the same blank row *)
(* for every source, with the action's change already made; so what a      *)
(* source's fields hold does not depend on which source made the row.      *)

FilledFrom(blank, id) ==
  /\ ~ view.merges
  /\ \A s \in Sources : \A t \in Sources \ {s} : view.owns[s] \cap view.owns[t] = {}
  /\ \A s \in Sources : \A n \in 1 .. Len(view.log[s]) :
       LET action == view.log[s][n]
       IN  action.id = id =>
             /\ Updates(action) /\ DOMAIN action.change \subseteq view.owns[s]
             /\ action.kind = "UpdateWithDefault" => action.state = Changed(blank, action.change)

FilledIn(id) == \E blank \in States : FilledFrom(blank, id)

(* What a source has made of a field after n events: blank before the row. *)
FieldAt(actions, id, blank, n, f) ==
  IF At(actions, id, n) = NoRow THEN blank[f] ELSE At(actions, id, n)[f]

(* The fields of a source hold what it had made of them at g, but for      *)
(* those that are written again from i to g.                               *)
FieldsNear(s, id, blank, i, g) ==
  /\ rows[id] = NoRow => At(view.log[s], id, g) = NoRow
  /\ rows[id] # NoRow =>
       \A f \in view.owns[s] : Unwritten(view.log[s], id, i, g, f)
                                 => rows[id][f] = FieldAt(view.log[s], id, blank, g, f)

(* The events a source is through with, of a batch that is not merged.     *)
Position(s, i) ==
  IF batch[s].busy
  THEN /\ from[s] <= i /\ i <= batch[s].upto
       /\ IsRest(batch[s].todo[Everything], view.log[s], i, batch[s].upto)
  ELSE i = from[s]

InTurn ==
  ~ view.merges => \A s \in Sources : \E i \in 0 .. Len(view.log[s]) : Position(s, i)

Contributes(s, id, blank) ==
  \E i \in 0 .. Len(view.log[s]) :
    Position(s, i) /\ \E g \in i .. Len(view.log[s]) : FieldsNear(s, id, blank, i, g)

Contributed ==
  \A s \in Sources : IsOrderly(view.log[s]) =>
    \A id \in Ids \ (raced \cup failed), blank \in States :
      FilledFrom(blank, id) => Contributes(s, id, blank)

Authored == \A id \in Ids : rows[id] # NoRow => \E s \in Sources : Writes(s, id)

(* An action on a row that is filled in.                                   *)
LEMMA FillingIs ==
  ASSUME NEW s \in Sources, view \in Views, NEW id, NEW blank \in States, FilledFrom(blank, id),
         NEW n \in 1 .. Len(view.log[s]), view.log[s][n].id = id
  PROVE  LET a == view.log[s][n]
         IN  /\ a \in Actions /\ Updates(a) /\ DOMAIN a.change \subseteq view.owns[s]
             /\ a.change \in Changes
             /\ a.kind = "UpdateWithDefault" => a.state \in States
             /\ a.kind = "UpdateWithDefault" => a.state = Changed(blank, a.change)
<1>1. view.log[s] \in Seq(Actions)
  BY ViewsAre
<1>2. view.log[s][n] \in Actions
  BY <1>1
<1> QED
  BY <1>2 DEF FilledFrom, Actions

LEMMA FilledHasNoReset ==
  ASSUME NEW s \in Sources, NEW id, NEW blank \in States, FilledFrom(blank, id),
         NEW i \in Nat, NEW j \in Nat, j <= Len(view.log[s])
  PROVE  NoReset(view.log[s], id, i, j)
<1> SUFFICES ASSUME NEW k \in i + 1 .. j, view.log[s][k].id = id
             PROVE  view.log[s][k].kind \notin {"Set", "Delete"}
  BY DEF NoReset
<1>1. k \in 1 .. Len(view.log[s])
  OBVIOUS
<1>2. Updates(view.log[s][k])
  BY <1>1 DEF FilledFrom
<1> QED
  BY <1>2 DEF Updates

(* An action writes the fields it changes and leaves the source's others.  *)
LEMMA FieldStep ==
  ASSUME NEW s \in Sources, view \in Views, IsOrderly(view.log[s]),
         NEW id, NEW blank \in States, FilledFrom(blank, id),
         NEW n \in 1 .. Len(view.log[s]), view.log[s][n].id = id
  PROVE  LET a == view.log[s][n]
         IN  /\ At(view.log[s], id, n) # NoRow
             /\ \A f \in Fields :
                  FieldAt(view.log[s], id, blank, n, f)
                    = IF f \in DOMAIN a.change THEN a.change[f]
                      ELSE FieldAt(view.log[s], id, blank, n - 1, f)
<1> DEFINE L == view.log[s]
           a == L[n]
           before == At(L, id, n - 1)
           after == At(L, id, n)
<1>1. L \in Seq(Actions) /\ n - 1 \in 0 .. Len(L)
  BY ViewsAre
<1>2. /\ a \in Actions /\ Updates(a) /\ a.change \in Changes
      /\ a.kind = "UpdateWithDefault" => a.state \in States /\ a.state = Changed(blank, a.change)
  BY FillingIs
<1>3. before \in Rows /\ after = Applied(a, before)
  BY <1>1, AtIs DEF RowStep
<1>4. after # NoRow /\ (a.kind = "Update" => before # NoRow)
  BY <1>1, <1>2, OneRepresents DEF Represents
<1> HIDE DEF a, before, after
<1>5. CASE before = NoRow
  <2>1. after = Changed(blank, a.change)
    BY <1>2, <1>3, <1>4, <1>5, AppliedUpdate DEF Updates
  <2>2. \A f \in Fields : after[f] = IF f \in DOMAIN a.change THEN a.change[f] ELSE blank[f]
    BY <2>1 DEF Changed
  <2> QED
    BY <1>4, <1>5, <2>2 DEF FieldAt, a, before, after
<1>6. CASE before # NoRow
  <2>1. after = Changed(before, a.change)
    BY <1>2, <1>3, <1>6, AppliedUpdate DEF Updates
  <2>2. \A f \in Fields : after[f] = IF f \in DOMAIN a.change THEN a.change[f] ELSE before[f]
    BY <2>1 DEF Changed
  <2> QED
    BY <1>4, <1>6, <2>2 DEF FieldAt, a, before, after
<1> QED
  BY <1>5, <1>6

(* A row that is there stays, and so does what nothing writes again.       *)
LEMMA FieldPersists ==
  ASSUME NEW s \in Sources, view \in Views, IsOrderly(view.log[s]),
         NEW id, NEW blank \in States, FilledFrom(blank, id),
         NEW i \in Nat, NEW j \in Nat, i <= j, j <= Len(view.log[s]),
         At(view.log[s], id, i) # NoRow
  PROVE  /\ At(view.log[s], id, j) # NoRow
         /\ \A f \in Fields : Unwritten(view.log[s], id, i, j, f)
              => FieldAt(view.log[s], id, blank, j, f) = FieldAt(view.log[s], id, blank, i, f)
<1>1. view.log[s] \in Seq(Actions)
  BY ViewsAre
<1>2. NoReset(view.log[s], id, i, j)
  BY FilledHasNoReset
<1> QED
  BY <1>1, <1>2, RowPersists DEF FieldAt

(* The next event is on another row.                                       *)
LEMMA FieldsSkip ==
  ASSUME NEW s \in Sources, view \in Views, NEW id, NEW blank \in States,
         NEW n \in 1 .. Len(view.log[s]), view.log[s][n].id # id,
         NEW g \in n - 1 .. Len(view.log[s]), FieldsNear(s, id, blank, n - 1, g)
  PROVE  \E h \in n .. Len(view.log[s]) : FieldsNear(s, id, blank, n, h)
<1> DEFINE L == view.log[s]
<1>1. L \in Seq(Actions) /\ n - 1 \in Nat /\ n \in Nat /\ n - 1 <= n /\ n <= Len(L)
  BY ViewsAre
<1>2. \A k : k \in (n - 1) + 1 .. n <=> k = n
  OBVIOUS
<1>3. NoneOn(L, id, n - 1, n)
  BY <1>2 DEF NoneOn
<1>4. At(L, id, n) = At(L, id, n - 1) /\ \A f : Unwritten(L, id, n - 1, n, f)
  BY <1>1, <1>3, NoneOnStays, NoneOnChanges
<1>5. CASE g = n - 1
  <2>1. \A f : Unwritten(L, id, n - 1, n - 1, f)
    <3>1. n - 1 \in Int
      OBVIOUS
    <3> QED
      BY <3>1, EmptyInterval
  <2>2. FieldsNear(s, id, blank, n, n)
    BY <1>4, <1>5, <2>1 DEF FieldsNear, FieldAt
  <2> QED
    BY <1>1, <2>2
<1>6. CASE g # n - 1
  <2>1. g \in n .. Len(L) /\ n - 1 \in Int /\ n \in Int /\ g \in Int /\ n - 1 <= n /\ n <= g
    BY <1>6
  <2>2. \A f : Unwritten(L, id, n, g, f) => Unwritten(L, id, n - 1, g, f)
    BY <1>4, <2>1, Intervals
  <2>3. FieldsNear(s, id, blank, n, g)
    BY <2>2 DEF FieldsNear
  <2> QED
    BY <2>1, <2>3
<1> QED
  BY <1>5, <1>6

(* A batch that is broken off begins again.                                *)
LEMMA FieldsRestart ==
  ASSUME NEW s \in Sources, NEW id, NEW blank \in States,
         NEW i \in Nat, NEW j \in Nat, NEW g \in Nat, i <= j, j <= g,
         FieldsNear(s, id, blank, j, g)
  PROVE  FieldsNear(s, id, blank, i, g)
<1>1. \A f : Unwritten(view.log[s], id, i, g, f) => Unwritten(view.log[s], id, j, g, f)
  <2>1. i \in Int /\ j \in Int /\ g \in Int
    OBVIOUS
  <2> QED
    BY <2>1, Intervals
<1> QED
  BY <1>1 DEF FieldsNear

(* The source applies its next event, on what is there.                    *)
LEMMA FieldsApplied ==
  ASSUME NEW s \in Sources, view \in Views, view' = view, IsOrderly(view.log[s]),
         NEW id \in Ids, NEW blank \in States, FilledFrom(blank, id), rows[id] \in Rows,
         NEW n \in 1 .. Len(view.log[s]), view.log[s][n].id = id,
         NEW g \in n - 1 .. Len(view.log[s]), FieldsNear(s, id, blank, n - 1, g),
         rows'[id] = Applied(view.log[s][n], rows[id])
  PROVE  \E h \in n .. Len(view.log[s]) : FieldsNear(s, id, blank, n, h)'
<1> DEFINE L == view.log[s]
           a == L[n]
           row == rows[id]
           next == rows'[id]
           owns == view.owns[s]
<1>1. /\ L \in Seq(Actions) /\ n - 1 \in Nat /\ n \in Nat /\ n - 1 <= n /\ n <= Len(L)
      /\ owns \subseteq Fields /\ n \in n .. Len(L)
  BY ProjectionAssumption DEF ViewOK
<1>2. /\ a \in Actions /\ Updates(a) /\ DOMAIN a.change \subseteq owns /\ a.change \in Changes
      /\ a.kind = "UpdateWithDefault" => a.state \in States /\ a.state = Changed(blank, a.change)
  BY FillingIs
<1>3. /\ At(L, id, n) # NoRow
      /\ \A f \in Fields : FieldAt(L, id, blank, n, f)
           = IF f \in DOMAIN a.change THEN a.change[f] ELSE FieldAt(L, id, blank, n - 1, f)
  BY FieldStep
<1>4. a.kind = "Update" => At(L, id, n - 1) # NoRow
  <2>1. Represents(a, L, id, n - 1, n)
    BY <1>1, OneRepresents
  <2> QED
    BY <2>1 DEF Represents
<1>5. At(L, id, n - 1) # NoRow => At(L, id, g) # NoRow
  BY FieldPersists
<1>6. row = NoRow => a.kind = "UpdateWithDefault" /\ g = n - 1
  <2> SUFFICES ASSUME row = NoRow PROVE a.kind = "UpdateWithDefault" /\ g = n - 1
    OBVIOUS
  <2>1. At(L, id, g) = NoRow
    BY DEF FieldsNear
  <2>2. g \in n .. Len(L) => At(L, id, g) # NoRow
    BY <1>3, FieldPersists
  <2> QED
    BY <1>2, <1>4, <1>5, <2>1, <2>2 DEF Updates
<1> HIDE DEF a, row, next, owns
<1>7. /\ next # NoRow
      /\ \A f \in Fields : next[f] = IF f \in DOMAIN a.change THEN a.change[f]
                                     ELSE IF row = NoRow THEN blank[f] ELSE row[f]
  <2>1. next = Changed(IF row = NoRow THEN blank ELSE row, a.change)
    BY <1>2, <1>6, AppliedUpdate DEF Updates, a, row, next
  <2>2. (IF row = NoRow THEN blank ELSE row) \in States
    BY DEF Rows, row
  <2>3. next # NoRow
    BY <1>2, <2>1, <2>2, ChangedIsState, NoRowIsNoState
  <2> QED
    BY <2>1, <2>3 DEF Changed
<1>8. CASE g = n - 1
  <2>1. \A f : Unwritten(L, id, n - 1, n - 1, f)
    <3>1. n - 1 \in Int
      OBVIOUS
    <3> QED
      BY <3>1, EmptyInterval
  <2>2. row # NoRow => \A f \in owns : row[f] = FieldAt(L, id, blank, n - 1, f)
    BY <1>8, <2>1 DEF FieldsNear, row, owns
  <2>3. row = NoRow => \A f \in owns : FieldAt(L, id, blank, n - 1, f) = blank[f]
    BY <1>8 DEF FieldsNear, FieldAt, row
  <2>4. \A f \in owns : next[f] = FieldAt(L, id, blank, n, f)
    BY <1>1, <1>3, <1>7, <2>2, <2>3
  <2>5. FieldsNear(s, id, blank, n, n)'
    BY <1>7, <2>4 DEF FieldsNear, FieldAt, At, Unwritten, next, owns
  <2> QED
    BY <1>1, <2>5
<1>9. CASE g # n - 1
  <2>1. g \in n .. Len(L) /\ n - 1 \in Int /\ n \in Int /\ g \in Int /\ n - 1 <= n /\ n <= g /\ g \in Nat
    BY <1>9
  <2>2. row # NoRow
    BY <1>6, <1>9
  <2>3. ASSUME NEW f \in owns, Unwritten(L, id, n, g, f)
        PROVE  next[f] = FieldAt(L, id, blank, g, f)
    <3>1. CASE f \in DOMAIN a.change
      <4>1. FieldAt(L, id, blank, g, f) = FieldAt(L, id, blank, n, f)
        BY <1>1, <1>3, <2>1, <2>3, FieldPersists
      <4> QED
        BY <1>1, <1>3, <1>7, <3>1, <4>1
    <3>2. CASE f \notin DOMAIN a.change
      <4>1. \A k : k \in (n - 1) + 1 .. n <=> k = n
        OBVIOUS
      <4>2. Unwritten(L, id, n - 1, n, f)
        BY <3>2, <4>1 DEF Unwritten, a
      <4>3. Unwritten(L, id, n - 1, g, f)
        BY <2>1, <2>3, <4>2, Intervals
      <4>4. row[f] = FieldAt(L, id, blank, g, f)
        BY <2>2, <2>3, <4>3 DEF FieldsNear, row, owns
      <4> QED
        BY <1>1, <1>7, <2>2, <3>2, <4>4
    <3> QED
      BY <3>1, <3>2
  <2>4. FieldsNear(s, id, blank, n, g)'
    BY <1>7, <2>3 DEF FieldsNear, FieldAt, At, Unwritten, next, owns
  <2> QED
    BY <2>1, <2>4
<1> QED
  BY <1>8, <1>9

(* Another source applies one of its events.                               *)
LEMMA FieldsOfOthers ==
  ASSUME NEW s \in Sources, NEW t \in Sources \ {s}, view \in Views, view' = view,
         NEW id \in Ids, NEW blank \in States, FilledFrom(blank, id), rows[id] \in Rows,
         NEW n \in 1 .. Len(view.log[t]), view.log[t][n].id = id,
         rows'[id] = Applied(view.log[t][n], rows[id]),
         NEW i, NEW g, FieldsNear(s, id, blank, i, g)
  PROVE  FieldsNear(s, id, blank, i, g)'
<1> DEFINE a == view.log[t][n]
           row == rows[id]
           next == rows'[id]
           owns == view.owns[s]
<1>1. /\ a \in Actions /\ Updates(a) /\ a.change \in Changes
      /\ DOMAIN a.change \subseteq view.owns[t]
      /\ a.kind = "UpdateWithDefault" => a.state \in States /\ a.state = Changed(blank, a.change)
  BY FillingIs
<1>2. owns \subseteq Fields /\ owns \cap DOMAIN a.change = {}
  <2>1. view.owns[s] \cap view.owns[t] = {}
    BY DEF FilledFrom
  <2> QED
    BY <1>1, <2>1, ProjectionAssumption DEF ViewOK
<1> HIDE DEF a, row, next, owns
<1>3. CASE next = NoRow
  <2>1. row = NoRow
    <3>1. row # NoRow => next = Changed(row, a.change) /\ row \in States
      BY <1>1, AppliedUpdate DEF Updates, Rows, a, row, next
    <3> QED
      BY <1>1, <1>3, <3>1, ChangedIsState, NoRowIsNoState
  <2> QED
    BY <1>3, <2>1 DEF FieldsNear, At, row, next
<1>4. CASE next # NoRow
  <2>1. next = Changed(IF row = NoRow THEN blank ELSE row, a.change)
    BY <1>1, <1>4, AppliedUpdate DEF Updates, a, row, next
  <2>2. \A f \in owns : next[f] = IF row = NoRow THEN blank[f] ELSE row[f]
    BY <1>2, <2>1 DEF Changed
  <2>3. row = NoRow => \A f : FieldAt(view.log[s], id, blank, g, f) = blank[f]
    BY DEF FieldsNear, FieldAt, row
  <2>4. \A f \in owns : Unwritten(view.log[s], id, i, g, f)
                          => next[f] = FieldAt(view.log[s], id, blank, g, f)
    BY <2>2, <2>3 DEF FieldsNear, row, owns
  <2> QED
    BY <1>4, <2>4 DEF FieldsNear, FieldAt, At, Unwritten, next, owns
<1> QED
  BY <1>3, <1>4

(* What the steps of a source do to its position and to the rows.          *)
LEMMA PositionMoves ==
  ASSUME Types, ~ view.merges, NEW s \in Sources, Holds(s), Step(s),
         NEW i \in 0 .. Len(view.log[s]), Position(s, i)
  PROVE  \/ rows' = rows /\ \E j \in 0 .. i : Position(s, j)'
         \/ /\ i + 1 <= Len(view.log[s]) /\ Position(s, i + 1)'
            /\ \A other \in Ids \ {view.log[s][i + 1].id} : rows'[other] = rows[other]
            /\ LET action == view.log[s][i + 1]
               IN  action.id \notin raced' \cup failed'
                     => rows'[action.id] = Applied(action, rows[action.id])
<1> DEFINE L == view.log[s]
           todo == batch[s].todo[Everything]
<1>1. /\ L \in Seq(Actions) /\ Len(L) \in Nat /\ from[s] \in Nat /\ from[s] <= Len(L)
      /\ Lanes = {Everything} /\ Everything \in Lanes /\ i \in Nat
  BY ViewsAre DEF Types, Holds, Lanes
<1>2. batch[s].busy => batch[s] \in InHand /\ batch[s].upto \in Nat /\ todo \in Seq(Actions)
                       /\ batch[s].upto <= Len(L)
  <2>1. batch[s].busy => batch[s] \in InHand
    BY DEF Types, Idle
  <2> QED
    BY <1>1, <2>1 DEF InHand, Holds
<1>3. ASSUME NEW upto \in 1 .. Len(L), Take(s, upto)
      PROVE  rows' = rows /\ Position(s, i)'
  <2>1. /\ UNCHANGED <<view, rows, from>> /\ ~ batch[s].busy /\ from[s] + 1 <= upto /\ i = from[s]
    BY <1>1, <1>3 DEF Take, Position
  <2>2. /\ batch'[s].busy /\ batch'[s].upto = upto
        /\ batch'[s].todo[Everything] = SubSeq(L, from[s] + 1, upto)
    BY <1>1, <1>3 DEF Take, Types
  <2>3. IsRest(SubSeq(L, from[s] + 1, upto), L, from[s], upto)
    BY <1>1, <1>3, <2>1, RestBatch
  <2>4. from[s] <= upto
    BY <1>1, <2>1
  <2> QED
    BY <2>1, <2>2, <2>3, <2>4 DEF Position
<1>4. ASSUME NEW lane \in Lanes, LoadRow(s, lane)
      PROVE  rows' = rows /\ Position(s, i)'
  <2>1. UNCHANGED <<view, rows, from>> /\ batch[s].busy
    BY <1>4 DEF LoadRow, Working
  <2>2. batch'[s].busy /\ batch'[s].upto = batch[s].upto /\ batch'[s].todo = batch[s].todo
    BY <1>4, LoadHolds
  <2> QED
    BY <2>1, <2>2 DEF Position
<1>5. ASSUME NEW lane \in Lanes, SaveRow(s, lane) \/ StorageFails(s, lane)
      PROVE  /\ i + 1 <= Len(L) /\ Position(s, i + 1)'
             /\ \A other \in Ids \ {L[i + 1].id} : rows'[other] = rows[other]
             /\ L[i + 1].id \notin raced' \cup failed'
                  => rows'[L[i + 1].id] = Applied(L[i + 1], rows[L[i + 1].id])
  <2> DEFINE action == Head(todo)
  <2>1. /\ Working(s, Everything) /\ lane = Everything
        /\ \E ok \in BOOLEAN : Done(s, Everything, ok)
        /\ UNCHANGED <<view, from>>
        /\ \A other \in Ids \ {action.id} : rows'[other] = rows[other]
    <3>1. lane = Everything
      BY <1>1
    <3> QED
      BY <1>5, <3>1, SaveIs, FailIs
  <2>2. batch[s].busy /\ batch[s] \in InHand /\ todo # <<>> /\ action.id \in Ids
    BY <1>1, <2>1, HeadIs
  <2>3. from[s] <= i /\ i <= batch[s].upto /\ IsRest(todo, L, i, batch[s].upto)
    BY <2>2 DEF Position
  <2>4. i + 1 <= batch[s].upto /\ action = L[i + 1] /\ IsRest(Tail(todo), L, i + 1, batch[s].upto)
    BY <1>1, <1>2, <2>2, <2>3, RestHead
  <2>5. /\ batch'[s].busy /\ batch'[s].upto = batch[s].upto
        /\ batch'[s].todo[Everything] = Tail(todo)
    BY <1>1, <2>1, <2>2 DEF Done, Types, InHand
  <2>6. i + 1 <= Len(L) /\ from[s] <= i + 1
    BY <1>1, <1>2, <2>2, <2>3, <2>4
  <2>7. Position(s, i + 1)'
    BY <2>1, <2>4, <2>5, <2>6 DEF Position
  <2>8. ASSUME action.id \notin raced' \cup failed'
        PROVE  rows'[action.id] = Applied(action, rows[action.id])
    <3>1. SaveRow(s, Everything)
      <4>1. StorageFails(s, Everything) => action.id \in failed'
        BY <1>1, FailIs
      <4> QED
        BY <1>5, <2>1, <2>8, <4>1
    <3>2. Base(s, Everything) = rows[action.id]
      BY <2>8, <3>1 DEF SaveRow
    <3>3. CanSave(s, Everything) <=> Accepts(action, rows[action.id])
      BY <3>2 DEF CanSave
    <3> QED
      BY <2>2, <3>1, <3>2, <3>3 DEF SaveRow, Applied, Types
  <2> QED
    BY <2>1, <2>4, <2>6, <2>7, <2>8
<1>6. CASE Ack(s)
  <2>1. /\ batch[s].busy /\ from'[s] = batch[s].upto /\ ~ batch'[s].busy /\ rows' = rows
        /\ todo = <<>>
    BY <1>1, <1>6, EndIs DEF Ack, Worked
  <2>2. i <= batch[s].upto /\ IsRest(<<>>, L, i, batch[s].upto)
    BY <2>1 DEF Position
  <2>3. i = batch[s].upto
    BY <1>1, <1>2, <2>1, <2>2 DEF IsRest
  <2> QED
    BY <1>1, <2>1, <2>3 DEF Position
<1>7. CASE Throw(s) \/ Crash(s)
  <2>1. batch[s].busy /\ from'[s] = from[s] /\ ~ batch'[s].busy /\ rows' = rows
    BY <1>7, EndIs
  <2>2. Position(s, from[s])' /\ from[s] \in 0 .. i
    BY <1>1, <2>1 DEF Position
  <2> QED
    BY <2>1, <2>2
<1>8. i \in 0 .. i
  BY <1>1
<1> QED
  BY <1>3, <1>4, <1>5, <1>6, <1>7, <1>8 DEF Step

LEMMA InTurnStep ==
  ASSUME Types, HeldRows, InTurn, [Next]_vars
  PROVE  InTurn'
<1>1. CASE UNCHANGED vars
  BY <1>1 DEF vars, InTurn, Position
<1>2. ASSUME NEW t \in Sources, Step(t)
      PROVE  InTurn'
  <2>1. view' = view /\ view \in Views
    BY <1>2 DEF Step, Take, LoadRow, SaveRow, StorageFails, Ack, Throw, Crash, Types
  <2> SUFFICES ASSUME ~ view.merges, NEW s \in Sources
               PROVE  \E i \in 0 .. Len(view.log[s]) : Position(s, i)'
    BY <2>1 DEF InTurn
  <2>2. PICK i \in 0 .. Len(view.log[s]) : Position(s, i)
    BY DEF InTurn
  <2>3. Holds(s) /\ Holds(t) /\ view.log[s] \in Seq(Actions)
    BY <2>1, ViewsAre DEF HeldRows
  <2>4. CASE s = t
    <3>1. \/ \E j \in 0 .. i : Position(s, j)'
          \/ i + 1 <= Len(view.log[s]) /\ Position(s, i + 1)'
      BY <1>2, <2>2, <2>3, <2>4, PositionMoves
    <3>2. Len(view.log[s]) \in Nat /\ \A j \in 0 .. i : j \in 0 .. Len(view.log[s])
      BY <2>3
    <3>3. i + 1 <= Len(view.log[s]) => i + 1 \in 0 .. Len(view.log[s])
      BY <3>2
    <3> QED
      BY <3>1, <3>2, <3>3
  <2>5. CASE s # t
    <3>1. batch'[s] = batch[s] /\ from'[s] = from[s]
      BY <1>2, <2>3, <2>5, OthersKeep
    <3> QED
      BY <2>1, <2>2, <3>1 DEF Position
  <2> QED
    BY <2>4, <2>5
<1> QED
  BY <1>1, <1>2 DEF Next

LEMMA ContributedStep ==
  ASSUME Types, HeldRows, InTurn, Contributed, [Next]_vars
  PROVE  Contributed'
<1>1. CASE UNCHANGED vars
  BY <1>1 DEF vars, Contributed, Contributes, FilledFrom, Position, FieldsNear, FieldAt,
              Lanes, At, Unwritten
<1>2. ASSUME NEW t \in Sources, Step(t)
      PROVE  Contributed'
  <2>1. /\ view' = view /\ view \in Views /\ raced \subseteq raced' /\ failed \subseteq failed'
        /\ rows \in [Ids -> Rows]
    BY <1>2 DEF Step, Take, LoadRow, SaveRow, StorageFails, Ack, Throw, Crash, Types
  <2> SUFFICES ASSUME NEW s \in Sources, IsOrderly(view.log[s]),
                      NEW id \in Ids \ (raced' \cup failed'), NEW blank \in States,
                      FilledFrom(blank, id)
               PROVE  Contributes(s, id, blank)'
    BY <2>1 DEF Contributed, FilledFrom
  <2> DEFINE L == view.log[s]
  <2>2. Contributes(s, id, blank) /\ Holds(t) /\ Holds(s) /\ ~ view.merges
    BY <2>1 DEF Contributed, HeldRows, FilledFrom
  <2>3. PICK i \in 0 .. Len(L) :
          Position(s, i) /\ \E g \in i .. Len(L) : FieldsNear(s, id, blank, i, g)
    BY <2>2 DEF Contributes
  <2>8. PICK g \in i .. Len(L) : FieldsNear(s, id, blank, i, g)
    BY <2>3
  <2>4. L \in Seq(Actions) /\ Len(L) \in Nat /\ i \in Nat /\ g \in Nat /\ i <= g /\ g <= Len(L)
    BY <2>1, ViewsAre
  <2>5. ASSUME rows'[id] = rows[id], NEW k, NEW h, FieldsNear(s, id, blank, k, h)
        PROVE  FieldsNear(s, id, blank, k, h)'
    BY <2>1, <2>5 DEF FieldsNear, FieldAt, At, Unwritten
  <2>6. CASE s = t
    <3>1. CASE rows' = rows /\ \E j \in 0 .. i : Position(s, j)'
      <4>1. PICK j \in 0 .. i : Position(s, j)'
        BY <3>1
      <4>2. j \in Nat /\ j <= i /\ j \in 0 .. Len(L) /\ g \in j .. Len(L)
        BY <2>4
      <4>3. FieldsNear(s, id, blank, j, g)
        BY <2>4, <2>8, <4>2, FieldsRestart
      <4>4. FieldsNear(s, id, blank, j, g)'
        BY <2>5, <3>1, <4>3
      <4> QED
        BY <2>1, <4>1, <4>2, <4>4 DEF Contributes
    <3>2. CASE /\ i + 1 <= Len(L) /\ Position(s, i + 1)'
               /\ \A other \in Ids \ {L[i + 1].id} : rows'[other] = rows[other]
               /\ L[i + 1].id \notin raced' \cup failed'
                    => rows'[L[i + 1].id] = Applied(L[i + 1], rows[L[i + 1].id])
      <4> DEFINE n == i + 1
      <4>1. n \in 1 .. Len(L) /\ n \in 0 .. Len(L) /\ i = n - 1
        BY <2>4, <3>2
      <4> HIDE DEF n
      <4>2. FieldsNear(s, id, blank, n - 1, g) /\ g \in n - 1 .. Len(L)
        BY <2>8, <4>1
      <4>3. \E h \in n .. Len(L) : FieldsNear(s, id, blank, n, h)'
        <5>1. CASE L[n].id = id
          <6>1. rows'[id] = Applied(L[n], rows[id]) /\ rows[id] \in Rows
            BY <2>1, <3>2, <5>1 DEF n
          <6> QED
            BY <2>1, <4>1, <4>2, <5>1, <6>1, FieldsApplied
        <5>2. CASE L[n].id # id
          <6>1. rows'[id] = rows[id]
            BY <3>2, <5>2 DEF n
          <6>2. PICK h \in n .. Len(L) : FieldsNear(s, id, blank, n, h)
            BY <2>1, <4>1, <4>2, <5>2, FieldsSkip
          <6> QED
            BY <2>5, <6>1, <6>2
        <5> QED
          BY <5>1, <5>2
      <4>4. Position(s, n)'
        BY <3>2 DEF n
      <4> QED
        BY <2>1, <4>1, <4>3, <4>4 DEF Contributes
    <3> QED
      BY <1>2, <2>2, <2>3, <2>6, <3>1, <3>2, PositionMoves
  <2>7. CASE s # t
    <3>1. Position(s, i)'
      <4>1. batch'[s] = batch[s] /\ from'[s] = from[s]
        BY <1>2, <2>2, <2>7, OthersKeep
      <4> QED
        BY <2>1, <2>3, <4>1 DEF Position
    <3>2. FieldsNear(s, id, blank, i, g)'
      <4>1. CASE rows'[id] = rows[id]
        BY <2>5, <2>8, <4>1
      <4>2. CASE rows'[id] # rows[id]
        <5>1. PICK k \in 0 .. Len(view.log[t]) : Position(t, k)
          BY <2>2 DEF InTurn
        <5> DEFINE n == k + 1
        <5>2. /\ n <= Len(view.log[t])
              /\ \A other \in Ids \ {view.log[t][n].id} : rows'[other] = rows[other]
              /\ view.log[t][n].id \notin raced' \cup failed'
                   => rows'[view.log[t][n].id] = Applied(view.log[t][n], rows[view.log[t][n].id])
          BY <1>2, <2>2, <4>2, <5>1, PositionMoves
        <5>3. n \in 1 .. Len(view.log[t])
          BY <5>2
        <5> HIDE DEF n
        <5>4. view.log[t][n].id = id /\ rows'[id] = Applied(view.log[t][n], rows[id])
          BY <4>2, <5>2
        <5>5. rows[id] \in Rows /\ t \in Sources \ {s} /\ s \in Sources /\ t \in Sources
          BY <2>1, <2>7
        <5> QED
          BY <2>1, <2>7, <2>8, <5>3, <5>4, <5>5, FieldsOfOthers
      <4> QED
        BY <4>1, <4>2
    <3> QED
      BY <2>1, <2>3, <3>1, <3>2 DEF Contributes
  <2> QED
    BY <2>6, <2>7
<1> QED
  BY <1>1, <1>2 DEF Next

(* A row is there only if a source writes it.                              *)
LEMMA AuthoredStep ==
  ASSUME Types, HeldRows, Authored, [Next]_vars
  PROVE  Authored'
<1>1. CASE UNCHANGED vars
  BY <1>1 DEF vars, Authored, Writes
<1>2. ASSUME NEW t \in Sources, Step(t)
      PROVE  Authored'
  <2>1. view' = view /\ Holds(t)
    BY <1>2 DEF Step, Take, LoadRow, SaveRow, StorageFails, Ack, Throw, Crash, HeldRows
  <2>2. CASE rows' = rows
    BY <2>1, <2>2 DEF Authored, Writes
  <2>3. ASSUME NEW lane \in Lanes, SaveRow(t, lane) \/ StorageFails(t, lane)
        PROVE  Authored'
    <3> DEFINE id == Head(batch[t].todo[lane]).id
    <3>1. Working(t, lane) /\ \A other \in Ids \ {id} : rows'[other] = rows[other]
      BY <2>1, <2>3, SaveIs, FailIs
    <3>2. Writes(t, id)
      BY <2>1, <3>1, HeadIs
    <3> HIDE DEF id
    <3> QED
      BY <2>1, <3>1, <3>2 DEF Authored, Writes
  <2>4. rows' # rows => \E lane \in Lanes : SaveRow(t, lane) \/ StorageFails(t, lane)
    BY <1>2 DEF Step, Take, LoadRow, Ack, Throw, Crash
  <2> QED
    BY <2>2, <2>3, <2>4
<1> QED
  BY <1>1, <1>2 DEF Next

LEMMA FilledInit == Init => Contributed /\ InTurn /\ Authored
<1> SUFFICES ASSUME Init PROVE Contributed /\ InTurn /\ Authored
  OBVIOUS
<1>1. /\ \A s \in Sources : /\ from[s] = 0 /\ ~ batch[s].busy /\ view.log[s] \in Seq(Actions)
                            /\ Len(view.log[s]) \in Nat /\ 0 \in 0 .. Len(view.log[s])
      /\ \A id \in Ids : rows[id] = NoRow
  <2>1. \A s \in Sources : view.log[s] \in Seq(Actions)
    BY ViewsAre DEF Init
  <2> QED
    BY <2>1 DEF Init, Idle
<1>2. \A s \in Sources : Position(s, 0)
  BY <1>1 DEF Position
<1>3. \A s \in Sources, id \in Ids, blank \in States : FieldsNear(s, id, blank, 0, 0)
  BY <1>1, AtIs DEF FieldsNear
<1> QED
  BY <1>1, <1>2, <1>3 DEF Contributed, Contributes, InTurn, Authored

LEMMA AlwaysFilled == Spec => [](Contributed /\ InTurn /\ Authored)
<1>1. Types /\ HeldRows /\ Contributed /\ InTurn /\ Authored /\ [Next]_vars
        => (Contributed /\ InTurn /\ Authored)'
  BY ContributedStep, InTurnStep, AuthoredStep
<1> QED
  BY <1>1, FilledInit, AlwaysTypes, AlwaysHeld, PTL DEF Spec

(* Rows several sources fill in come together, as the guide to read models *)
(* of several sources has it (multi-source-readmodel.md), in whatever      *)
(* order and however often the sources deliver, if none saved the row over *)
(* a change of another that it had not loaded: when everything is          *)
(* acknowledged, each source's fields are what its events make of them.    *)
SharedConverge ==
  AllAcked /\ (\A s \in Sources : IsOrderly(view.log[s])) =>
    \A id \in Ids \ (raced \cup failed) : FilledIn(id) => Rightful(id)

(* The rows that sources share converge, in every behaviour.               *)
THEOREM SharedRowsConverge == Spec => []SharedConverge
<1>1. Types /\ HeldRows /\ Contributed /\ Authored => SharedConverge
  <2> SUFFICES ASSUME Types, HeldRows, Contributed, Authored, AllAcked,
                      \A s \in Sources : IsOrderly(view.log[s]),
                      NEW id \in Ids \ (raced \cup failed),
                      NEW blank \in States, FilledFrom(blank, id)
               PROVE  Rightful(id)
    BY DEF SharedConverge, FilledIn
  <2>1. ASSUME NEW s \in Sources
        PROVE  FieldsNear(s, id, blank, Len(view.log[s]), Len(view.log[s]))
    <3> DEFINE L == view.log[s]
               N == Len(L)
    <3>1. L \in Seq(Actions) /\ N \in Nat /\ from[s] = N /\ Holds(s)
      BY ViewsAre DEF AllAcked, Types, HeldRows
    <3>2. PICK i \in 0 .. N : Position(s, i) /\ \E g \in i .. N : FieldsNear(s, id, blank, i, g)
      BY DEF Contributed, Contributes
    <3>3. i = N
      <4>1. CASE batch[s].busy
        <5>1. from[s] <= i
          BY <3>2, <4>1 DEF Position
        <5> QED
          BY <3>1, <5>1
      <4>2. CASE ~ batch[s].busy
        BY <3>1, <3>2, <4>2 DEF Position
      <4> QED
        BY <4>1, <4>2
    <3>4. PICK g \in N .. N : FieldsNear(s, id, blank, N, g)
      BY <3>2, <3>3
    <3>5. g = N
      BY <3>1
    <3> QED
      BY <3>4, <3>5
  <2>2. \A s \in Sources : Expected(s, id) = At(view.log[s], id, Len(view.log[s]))
    BY DEF Expected, ApplyAll, At
  <2>3. CASE rows[id] = NoRow
    BY <2>1, <2>2, <2>3 DEF FieldsNear, Rightful
  <2>4. CASE rows[id] # NoRow
    <3>1. ASSUME NEW s \in Sources, Expected(s, id) # NoRow, NEW f \in view.owns[s]
          PROVE  rows[id][f] = Expected(s, id)[f]
      <4>1. Unwritten(view.log[s], id, Len(view.log[s]), Len(view.log[s]), f)
        <5>1. Len(view.log[s]) \in Int
          BY ViewsAre DEF Types
        <5> QED
          BY <5>1, EmptyInterval
      <4> QED
        BY <2>1, <2>2, <2>4, <3>1, <4>1 DEF FieldsNear, FieldAt
    <3>2. \E s \in Sources : Expected(s, id) # NoRow
      <4>1. PICK s \in Sources : Writes(s, id)
        BY <2>4 DEF Authored
      <4>2. view.log[s] \in Seq(Actions) /\ Len(view.log[s]) \in Nat /\ view \in Views
        BY ViewsAre DEF Types
      <4>3. PICK n \in 1 .. Len(view.log[s]) : view.log[s][n].id = id
        BY <4>1 DEF Writes, NoneOn
      <4>4. At(view.log[s], id, n) # NoRow
        BY <4>2, <4>3, FieldStep
      <4>5. At(view.log[s], id, Len(view.log[s])) # NoRow
        BY <4>2, <4>4, FieldPersists
      <4> QED
        BY <2>2, <4>5
    <3> QED
      BY <2>4, <3>1, <3>2 DEF Rightful
  <2> QED
    BY <2>3, <2>4
<1> QED
  BY <1>1, AlwaysTypes, AlwaysHeld, AlwaysFilled, PTL

(* So a view converges if each of its rows is written by one source or     *)
(* filled in by several.                                                   *)
RowsWellWritten == \A id \in Ids : OwnRow(id) \/ FilledIn(id)

THEOREM WellWrittenViewsConverge == Spec => [](RowsWellWritten => ViewsConverge)
<1>1. RowsConverge /\ SharedConverge => (RowsWellWritten => ViewsConverge)
  BY DEF RowsConverge, SharedConverge, RowsWellWritten, ViewsConverge
<1> QED
  BY <1>1, OwnRowsConverge, SharedRowsConverge, PTL

=============================================================================
