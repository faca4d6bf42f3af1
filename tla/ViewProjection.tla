---------------------------- MODULE ViewProjection -----------------------------
(***************************************************************************)
(* How a read model or a state view keeps its rows: the events of each     *)
(* source arrive in batches, project to actions on rows, and the actions   *)
(* are applied to the QueryDb (core Projection).                           *)
(*                                                                         *)
(* A read model, and a state view on AWS, applies the actions one after    *)
(* another and drops their results, so that its batch is always            *)
(* acknowledged.  A state view in process groups them by row, merges what  *)
(* it can, works on the rows at once, and throws when the last action of a *)
(* row fails.  Batches are delivered at least once.                        *)
(***************************************************************************)
EXTENDS Naturals, Sequences, SequencesExt

CONSTANTS
  Sources,     \* the event topics the view reads
  Ids,         \* the ids of its rows
  Fields,      \* the fields of a row
  Values,      \* what a field may hold
  NoRow,       \* no row in the QueryDb
  Unread,      \* the row has not been loaded
  Views,       \* the views to look at: see ViewOK
  MaxBatch,    \* bound: events in a batch
  MaxFaults    \* bound: storage failures and crashes

States == [Fields -> Values]

Create(id, state) == [kind |-> "Create", id |-> id, state |-> state, change |-> <<>>]
Set(id, state) == [kind |-> "Set", id |-> id, state |-> state, change |-> <<>>]
Update(id, change) == [kind |-> "Update", id |-> id, state |-> NoRow, change |-> change]
UpdateWithDefault(id, default, change) ==
  [kind |-> "UpdateWithDefault", id |-> id, state |-> default, change |-> change]
Delete(id) == [kind |-> "Delete", id |-> id, state |-> NoRow, change |-> <<>>]

Kinds == {"Create", "Set", "Update", "UpdateWithDefault", "Delete"}

Changes == UNION {[fs -> Values] : fs \in SUBSET Fields}

(* The actions a projection returns: those that bring a row bring a whole  *)
(* one.                                                                    *)
Actions ==
  {a \in [kind : Kinds, id : Ids, state : States \cup {NoRow}, change : Changes] :
     a.kind \in {"Create", "Set", "UpdateWithDefault"} => a.state \in States}

(* A view: the actions its projection makes of each source's events, one   *)
(* an event; the fields each source is the only one to write; whether the  *)
(* actions of a batch are merged.                                          *)
ViewOK(v) ==
  /\ v.log \in [Sources -> Seq(Actions)]
  /\ v.owns \in [Sources -> SUBSET Fields]
  /\ v.merges \in BOOLEAN

ASSUME ProjectionAssumption ==
  /\ \A v \in Views : ViewOK(v)
  /\ {NoRow, Unread} \cap States = {} /\ NoRow # Unread
  /\ {MaxBatch, MaxFaults} \subseteq Nat

VARIABLES
  view,     \* the view looked at
  rows,     \* rows[id]: the row of the QueryDb
  from,     \* from[s]: how many events of source s are acknowledged
  batch,    \* batch[s]: the batch of source s in hand
  raced,    \* the rows saved over a change the saver had not loaded
  failed,   \* the rows an action failed on in the storage
  faults

vars == <<view, rows, from, batch, raced, failed, faults>>

-----------------------------------------------------------------------------
(* Actions on one row.                                                     *)

Changed(state, change) ==
  [f \in Fields |-> IF f \in DOMAIN change THEN change[f] ELSE state[f]]

Mutant_Then(first, second) ==
  [f \in DOMAIN first \cup DOMAIN second |-> IF f \in DOMAIN first THEN first[f] ELSE second[f]]

Then(first, second) ==
  [f \in DOMAIN first \cup DOMAIN second |-> IF f \in DOMAIN second THEN second[f] ELSE first[f]]

(* A save in mode Init stores only what is not there yet; Update needs one *)
(* row.                                                                    *)
Accepts(action, row) ==
  CASE action.kind = "Create" -> row = NoRow
    [] action.kind = "Update" -> row # NoRow
    [] OTHER -> TRUE

Stored(action, row) ==
  CASE action.kind \in {"Create", "Set"} -> action.state
    [] action.kind = "Delete" -> NoRow
    [] action.kind = "UpdateWithDefault" /\ row = NoRow -> action.state
    [] OTHER -> Changed(row, action.change)

Applied(action, row) == IF Accepts(action, row) THEN Stored(action, row) ELSE row

(* A row after the first actions of a sequence, those on other rows        *)
(* skipped, and after all of them.                                         *)
RowAfter(actions, id, row) ==
  LET after[n \in 0 .. Len(actions)] ==
        IF n = 0 THEN row
        ELSE IF actions[n].id = id THEN Applied(actions[n], after[n - 1]) ELSE after[n - 1]
  IN  after

ApplyAll(actions, id, row) == RowAfter(actions, id, row)[Len(actions)]

NotMerged == [kind |-> "NotMerged"]

Mutant_Merge(last, next) ==
  LET chain == Then(last.change, next.change)
  IN  CASE last.kind = "Create" /\ next.kind = "Create" -> last
        [] last.kind = "Create" /\ next.kind \in {"Update", "UpdateWithDefault"} ->
             Create(last.id, Changed(last.state, next.change))
        [] last.kind = "Update" /\ next.kind \in {"Update", "UpdateWithDefault"} ->
             [next EXCEPT !.change = chain]
        [] last.kind = "UpdateWithDefault" /\ next.kind = "Create" -> last
        [] last.kind = "UpdateWithDefault" /\ next.kind \in {"Update", "UpdateWithDefault"} ->
             [last EXCEPT !.change = chain]
        [] last.kind \in {"Create", "Update", "UpdateWithDefault"}
             /\ next.kind \in {"Set", "Delete"} -> next
        [] last.kind = "Delete" /\ next.kind = "Create" -> Set(next.id, next.state)
        [] OTHER -> NotMerged

(* Two actions on a row as one; a Set stays as it is, and so does what     *)
(* follows a Delete, unless it creates.                                    *)
Merge(last, next) ==
  LET chain == Then(last.change, next.change)
  IN  CASE last.kind = "Create" /\ next.kind = "Create" -> last
        [] last.kind = "Create" /\ next.kind \in {"Update", "UpdateWithDefault"} ->
             Create(last.id, Changed(last.state, next.change))
        [] last.kind = "Update" /\ next.kind \in {"Update", "UpdateWithDefault"} ->
             [next EXCEPT !.change = chain]
        [] last.kind = "UpdateWithDefault" /\ next.kind = "Create" -> last
        [] last.kind = "UpdateWithDefault" /\ next.kind \in {"Update", "UpdateWithDefault"} ->
             [last EXCEPT !.state = Changed(last.state, next.change), !.change = chain]
        [] last.kind \in {"Create", "Update", "UpdateWithDefault"}
             /\ next.kind \in {"Set", "Delete"} -> next
        [] last.kind = "Delete" /\ next.kind = "Create" -> Set(next.id, next.state)
        [] OTHER -> NotMerged

(* The next action of a row goes into the last one, or after it.           *)
Optimize(done, next) ==
  LET merged == IF done = <<>> THEN NotMerged ELSE Merge(Last(done), next)
  IN  IF merged = NotMerged THEN Append(done, next) ELSE Append(Front(done), merged)

OptimizedAfter(actions, id) ==
  LET done[n \in 0 .. Len(actions)] ==
        IF n = 0 THEN <<>>
        ELSE IF actions[n].id = id THEN Optimize(done[n - 1], actions[n]) ELSE done[n - 1]
  IN  done

(* The actions of a batch on one row, merged.                              *)
Optimized(actions, id) == OptimizedAfter(actions, id)[Len(actions)]

-----------------------------------------------------------------------------
(* The batches.                                                            *)

Everything == "everything"

(* What is worked on at once: the rows, or all actions in their order.     *)
Lanes == IF view.merges THEN Ids ELSE {Everything}

Idle == [busy |-> FALSE, upto |-> 0, todo |-> <<>>, seen |-> <<>>, ok |-> <<>>]

Init ==
  /\ view \in Views
  /\ rows = [id \in Ids |-> NoRow]
  /\ from = [s \in Sources |-> 0]
  /\ batch = [s \in Sources |-> Idle]
  /\ raced = {} /\ failed = {}
  /\ faults = 0

Fault == faults < MaxFaults /\ faults' = faults + 1

(* A batch arrives: the next events of the source, and the same again if   *)
(* it was not acknowledged, not always cut at the same place.              *)
Take(s, upto) ==
  LET actions == SubSeq(view.log[s], from[s] + 1, upto)
  IN  /\ ~ batch[s].busy
      /\ upto \in from[s] + 1 .. Len(view.log[s]) /\ upto <= from[s] + MaxBatch
      /\ batch' = [batch EXCEPT ![s] =
           [busy |-> TRUE, upto |-> upto,
            todo |-> [l \in Lanes |-> IF view.merges THEN Optimized(actions, l) ELSE actions],
            seen |-> [l \in Lanes |-> Unread],
            ok |-> [l \in Lanes |-> TRUE]]]
      /\ UNCHANGED <<view, rows, from, raced, failed, faults>>

Working(s, lane) ==
  /\ batch[s].busy /\ lane \in DOMAIN batch[s].todo
  /\ batch[s].todo[lane] # <<>>

Updates(action) == action.kind \in {"Update", "UpdateWithDefault"}

Done(s, lane, ok) ==
  batch' = [batch EXCEPT ![s].todo[lane] = Tail(@), ![s].seen[lane] = Unread,
                         ![s].ok[lane] = ok]

(* The row an update starts from is loaded first.                          *)
LoadRow(s, lane) ==
  LET action == Head(batch[s].todo[lane])
  IN  /\ Working(s, lane)
      /\ Updates(action) /\ batch[s].seen[lane] = Unread
      /\ batch' = [batch EXCEPT ![s].seen[lane] = rows[action.id]]
      /\ UNCHANGED <<view, rows, from, raced, failed, faults>>

(* The row the action at hand starts from: what it loaded, or what is     *)
(* there.                                                                  *)
Base(s, lane) ==
  LET action == Head(batch[s].todo[lane])
  IN  IF Updates(action) THEN batch[s].seen[lane] ELSE rows[action.id]

(* And saved afterwards, over whatever is there; only the default of an    *)
(* UpdateWithDefault is saved in mode Init.                                *)
CanSave(s, lane) ==
  LET action == Head(batch[s].todo[lane])
      isDefault == action.kind = "UpdateWithDefault" /\ Base(s, lane) = NoRow
  IN  Accepts(action, Base(s, lane)) /\ (isDefault => rows[action.id] = NoRow)

SaveRow(s, lane) ==
  LET action == Head(batch[s].todo[lane])
      id == action.id
      base == Base(s, lane)
  IN  /\ Working(s, lane)
      /\ base # Unread
      /\ rows' = IF CanSave(s, lane) THEN [rows EXCEPT ![id] = Stored(action, base)] ELSE rows
      /\ raced' = IF base # rows[id] THEN raced \cup {id} ELSE raced
      /\ Done(s, lane, CanSave(s, lane))
      /\ UNCHANGED <<view, from, failed, faults>>

(* The storage fails for good, with or without having stored the row.      *)
StorageFails(s, lane) ==
  LET action == Head(batch[s].todo[lane])
      id == action.id
  IN  /\ Working(s, lane) /\ Fault
      /\ \/ UNCHANGED rows
         \/ /\ Base(s, lane) # Unread /\ CanSave(s, lane)
            /\ rows' = [rows EXCEPT ![id] = Stored(action, Base(s, lane))]
      /\ failed' = failed \cup {id}
      /\ Done(s, lane, FALSE)
      /\ UNCHANGED <<view, from, raced>>

Worked(s) == batch[s].busy /\ \A lane \in Lanes : batch[s].todo[lane] = <<>>

Throws(s) == view.merges /\ \E lane \in Lanes : ~ batch[s].ok[lane]

Ack(s) ==
  /\ Worked(s) /\ ~ Throws(s)
  /\ from' = [from EXCEPT ![s] = batch[s].upto]
  /\ batch' = [batch EXCEPT ![s] = Idle]
  /\ UNCHANGED <<view, rows, raced, failed, faults>>

Throw(s) ==
  /\ Worked(s) /\ Throws(s)
  /\ batch' = [batch EXCEPT ![s] = Idle]
  /\ UNCHANGED <<view, rows, from, raced, failed, faults>>

Crash(s) ==
  /\ batch[s].busy /\ Fault
  /\ batch' = [batch EXCEPT ![s] = Idle]
  /\ UNCHANGED <<view, rows, from, raced, failed>>

Step(s) ==
  \/ \E upto \in 1 .. Len(view.log[s]) : Take(s, upto)
  \/ \E lane \in Lanes :
       \/ LoadRow(s, lane)
       \/ SaveRow(s, lane)
       \/ StorageFails(s, lane)
  \/ Ack(s) \/ Throw(s) \/ Crash(s)

Next == \E s \in Sources : Step(s)

Spec == Init /\ [][Next]_vars

-----------------------------------------------------------------------------
(* Properties.                                                             *)

CreatesOverRow(actions, id, row) ==
  \E n \in 1 .. Len(actions) :
    actions[n].id = id /\ actions[n].kind = "Create" /\ RowAfter(actions, id, row)[n - 1] # NoRow

(* Merging the actions of a row changes nothing: whatever is still to come *)
(* of a source, and however it is cut, what is merged leaves the row as it *)
(* is now just as the actions one after another would, unless one of them  *)
(* creates a row that is there.                                            *)
MergingAgrees ==
  \A s \in Sources, id \in Ids : \A upto \in 1 .. Len(view.log[s]) :
    LET actions == SubSeq(view.log[s], from[s] + 1, upto)
    IN  \/ ApplyAll(Optimized(actions, id), id, rows[id]) = ApplyAll(actions, id, rows[id])
        \/ CreatesOverRow(actions, id, rows[id])

(* A projection whose creations find no row, and whose updates find one,   *)
(* when each of its events happens once, and whose defaults already hold   *)
(* what the same event would change.                                       *)
IsOrderly(actions) ==
  \A n \in 1 .. Len(actions) :
    LET action == actions[n]
    IN  /\ Accepts(action, RowAfter(actions, action.id, NoRow)[n - 1])
        /\ action.kind = "UpdateWithDefault" =>
             Changed(action.state, action.change) = action.state

Expected(s, id) == ApplyAll(view.log[s], id, NoRow)

AllAcked == \A s \in Sources : from[s] = Len(view.log[s])

Rightful(id) ==
  /\ rows[id] = NoRow <=> \A s \in Sources : Expected(s, id) = NoRow
  /\ \A s \in Sources : Expected(s, id) # NoRow =>
       \A f \in view.owns[s] : rows[id][f] = Expected(s, id)[f]

(* The views are idempotent: when everything is acknowledged, each row is  *)
(* what its events make of it once, in order, however batches were cut,    *)
(* broken off and delivered again; save for rows the storage failed on and *)
(* rows one source saved over a change of another.                         *)
ViewsConverge ==
  AllAcked /\ (\A s \in Sources : IsOrderly(view.log[s])) =>
    \A id \in Ids \ (raced \cup failed) : Rightful(id)

(* What the guide to read models of several sources says: each source's    *)
(* events end up in the row they share.                                    *)
SourcesMerge ==
  AllAcked /\ (\A s \in Sources : IsOrderly(view.log[s])) =>
    \A id \in Ids \ failed : Rightful(id)

(* A batch an action of which the storage failed is not acknowledged.      *)
FailuresAreNotAcked == AllAcked => failed = {}

=============================================================================
