---------------------------- MODULE AutomationSlice ----------------------------
(***************************************************************************)
(* The TODO list of an automation slice: events collect work items and     *)
(* resolve them, each pass over the list sends a command for every item    *)
(* that is due, and an item whose attempts are spent is abandoned and      *)
(* announced.                                                              *)
(*                                                                         *)
(* The list lives in a dictionary of the process (AutomationSlice_         *)
(* Callback); every pass writes the whole of it into a table, which a new  *)
(* Lambda container reads once (AutomationSliceEntryPoint_Ops).  On AWS    *)
(* each container has a dictionary and runs one pass at a time; in one     *)
(* process several passes share a dictionary and an event is acknowledged  *)
(* before its commands are sent (AutomationSlice_Builder).                 *)
(***************************************************************************)
EXTENDS Naturals, FiniteSets

CONSTANTS
  Items,          \* the row ids of the work items
  Passes,         \* the passes that may run at once
  DictOf,         \* DictOf[p] is the process or container pass p runs in
  Restores,       \* a new container reads the table (AWS)
  Detached,       \* an event is acknowledged before its pass over the list (in process)
  MaxTries,       \* Spec.maxRetries
  Natures,        \* the sets of outcomes an item may have
  StoredBefore,   \* StoredBefore[i]: what the table may hold of item i at first
  MaxFaults       \* bound: failed calls of other services, and containers that crash

Dicts == {DictOf[p] : p \in Passes}

(* What process and openRow come to: a command, nothing yet (or a row that *)
(* does not open), a command that cannot be encoded, an erased item.       *)
Outcomes == {"send", "wait", "unencodable", "gone"}

NoRow == [status |-> "None", tries |-> 0]

Rows == [status: {"Pending", "Processing", "Completed", "Failed", "Abandoned"},
         tries: 0 .. MaxTries]

ASSUME AutomationAssumption ==
  /\ DictOf \in [Passes -> Dicts]
  /\ {Restores, Detached} \subseteq BOOLEAN
  /\ MaxTries \in Nat \ {0}
  /\ Natures \subseteq SUBSET Outcomes \ {{}}
  /\ StoredBefore \in [Items -> SUBSET (Rows \cup {NoRow}) \ {{}}]
  /\ MaxFaults \in Nat

Collect(i) == [kind |-> "collect", item |-> i]
Resolve(i) == [kind |-> "resolve", item |-> i]
Sweep == [kind |-> "sweep"]

Events == {Collect(i) : i \in Items} \cup {Resolve(i) : i \in Items}

VARIABLES
  outcomesOf,  \* outcomesOf[i]: what a pass may find when it comes to item i
  todoItems,   \* todoItems[d][i]: the row of item i in the dictionary of d
  loaded,      \* loaded[d]: container d has read the table, or tried to
  table,       \* table[i]: the row of item i in the view's table
  pass,        \* pass[p]: the pass p is making
  due,         \* the events to deliver
  acked,       \* the events acknowledged
  answered,    \* the items whose command the target answered
  sent,        \* the items of which a command reached the target
  attempts,    \* attempts[d][i]: publishes of item i since container d started
  announced,   \* the items whose abandonment was published
  unheard,     \* the items whose abandonment could not be published
  stranded,    \* the items no dictionary and no restore will bring back
  faults

vars == <<outcomesOf, todoItems, loaded, table, pass, due, acked, answered, sent,
          attempts, announced, unheard, stranded, faults>>

targets == <<answered, sent, attempts, announced, unheard>>

-----------------------------------------------------------------------------
(* Rows.                                                                   *)

With(row, status) == [row EXCEPT !.status = status]

NewRow == [status |-> "Pending", tries |-> 0]

Mutant_AfterFailedAttempt(row) ==
  [status |-> IF row.tries + 1 >= MaxTries THEN "Abandoned" ELSE "Failed", tries |-> row.tries]

AfterFailedAttempt(row) ==
  LET tries == row.tries + 1
  IN  [status |-> IF tries >= MaxTries THEN "Abandoned" ELSE "Failed", tries |-> tries]

(* A Failed row at its ceiling: left by an older build, or by a Spec whose *)
(* maxRetries was lowered.                                                 *)
IsSpent(row) == row.status = "Failed" /\ row.tries >= MaxTries

IsActionable(row) ==
  \/ row.status = "Pending"
  \/ row.status = "Failed" /\ row.tries < MaxTries

Mutant_IsNew(row) == row.status \notin {"Pending", "Processing"}

(* apply collects an item only if its id is not in the dictionary.         *)
IsNew(row) == row = NoRow

Mutant_Restorable(row) == row.status = "Pending"

(* The filter of the scan that restores a container's list.                *)
Restorable(row) == row.status \in {"Pending", "Failed"}

(* The rows a failed publish turns back.                                   *)
FailsWithBatch(row) == row.status = "Processing"

Mutant_NewlyAbandoned(before, after) == {i \in Items : IsSpent(before[i])}

(* The rows of a dictionary one phase leaves Abandoned.                    *)
NewlyAbandoned(before, after) ==
  {i \in Items : after[i].status = "Abandoned" /\ before[i].status # "Abandoned"}

Final == {"Completed", "Abandoned"}

-----------------------------------------------------------------------------
(* The passes.                                                             *)

Idle ==
  [at |-> "idle", event |-> Sweep, pending |-> [i \in Items |-> NoRow], left |-> {},
   commands |-> {}, abandoned |-> {}]

(* The announcement of a row given up before is history.                   *)
Init ==
  /\ outcomesOf \in [Items -> Natures]
  /\ todoItems = [d \in Dicts |-> [i \in Items |-> NoRow]]
  /\ loaded = [d \in Dicts |-> ~ Restores]
  /\ table \in {t \in [Items -> Rows \cup {NoRow}] : \A i \in Items : t[i] \in StoredBefore[i]}
  /\ pass = [p \in Passes |-> Idle]
  /\ due = {Collect(i) : i \in Items}
  /\ acked = {} /\ answered = {} /\ sent = {}
  /\ attempts = [d \in Dicts |-> [i \in Items |-> 0]]
  /\ announced = {i \in Items : table[i].status = "Abandoned"}
  /\ unheard = {} /\ stranded = {}
  /\ faults = 0

Fault == faults < MaxFaults /\ faults' = faults + 1

Go(p, at) == pass' = [pass EXCEPT ![p].at = at]

SetRows(p, rows) == todoItems' = [todoItems EXCEPT ![DictOf[p]] = rows]

HeldElsewhere(d, i) == \E e \in Dicts \ {d} : todoItems[e][i] # NoRow

AfterLoad(event) == IF event = Sweep THEN "settle" ELSE "route"

(* A pass starts for a delivered event, or for the sweep's timer.          *)
Begin(p, event) ==
  /\ pass[p].at = "idle"
  /\ event = Sweep \/ event \in due
  /\ due' = due \ {event}
  /\ pass' = [pass EXCEPT ![p].event = event,
                          ![p].at = IF loaded[DictOf[p]] THEN AfterLoad(event) ELSE "load"]
  /\ UNCHANGED <<outcomesOf, todoItems, loaded, table, acked, targets, stranded, faults>>

(* The table is read once in a container's life: what is in memory wins,   *)
(* and only unfinished rows come back.  `loaded` is set before the scan,   *)
(* so one that fails is not repeated: its rows wait for another container. *)
Load(p) ==
  LET d == DictOf[p]
  IN  /\ pass[p].at = "load"
      /\ loaded' = [loaded EXCEPT ![d] = TRUE]
      /\ Go(p, AfterLoad(pass[p].event))
      /\ UNCHANGED <<outcomesOf, table, due, acked, targets, stranded>>
      /\ \/ /\ SetRows(p, [i \in Items |->
                 IF todoItems[d][i] = NoRow /\ Restorable(table[i])
                 THEN table[i] ELSE todoItems[d][i]])
            /\ UNCHANGED faults
         \/ Fault /\ UNCHANGED todoItems

(* phase1: an item new to the dictionary is collected, one that is in it   *)
(* is resolved.  An item that cannot be sealed is logged and left out.        *)
Route(p) ==
  LET d == DictOf[p]
      i == pass[p].event.item
      row == todoItems[d][i]
  IN  /\ pass[p].at = "route"
      /\ Go(p, "save")
      /\ UNCHANGED <<outcomesOf, loaded, table, due, acked, targets>>
      /\ \/ /\ pass[p].event = Collect(i) /\ IsNew(row)
            /\ \/ todoItems' = [todoItems EXCEPT ![d][i] = NewRow] /\ UNCHANGED <<stranded, faults>>
               \/ Fault /\ stranded' = stranded \cup {i} /\ UNCHANGED todoItems
         \/ /\ pass[p].event = Resolve(i) /\ row # NoRow
            /\ todoItems' = [todoItems EXCEPT ![d][i] = With(row, "Completed")]
            /\ UNCHANGED <<stranded, faults>>
         \/ /\ \/ pass[p].event = Collect(i) /\ ~ IsNew(row)
               \/ pass[p].event = Resolve(i) /\ row = NoRow
            /\ UNCHANGED <<todoItems, stranded, faults>>

(* syncTodoItems: every row of the dictionary is written, and the answers  *)
(* of the writes are not looked at.                                        *)
Sync(p) ==
  LET held == {i \in Items : todoItems[DictOf[p]][i] # NoRow}
      Write(saved) ==
        table' = [i \in Items |-> IF i \in saved THEN todoItems[DictOf[p]][i] ELSE table[i]]
  IN  \/ Write(held) /\ UNCHANGED faults
      \/ Fault /\ \E i \in held : Write(held \ {i})

Save(p) ==
  /\ pass[p].at = "save"
  /\ Sync(p)
  /\ Go(p, "settle")
  /\ acked' = IF Detached THEN acked \cup {pass[p].event} ELSE acked
  /\ UNCHANGED <<outcomesOf, todoItems, loaded, due, targets, stranded>>

(* phase2 up to its first await: the rows that waited too long count a     *)
(* failed attempt, the spent ones are abandoned, and the rows to work on   *)
(* are taken as they are now.                                              *)
Settle(p, overdue) ==
  LET rows == todoItems[DictOf[p]]
      after == [i \in Items |->
                  CASE i \in overdue -> AfterFailedAttempt(rows[i])
                    [] IsSpent(rows[i]) -> With(rows[i], "Abandoned")
                    [] OTHER -> rows[i]]
      pending == {i \in Items : IsActionable(after[i])}
  IN  /\ pass[p].at = "settle"
      /\ SetRows(p, after)
      /\ pass' = [pass EXCEPT
           ![p].at = "work", ![p].left = pending,
           ![p].pending = [i \in Items |-> IF i \in pending THEN after[i] ELSE NoRow],
           ![p].abandoned = NewlyAbandoned(rows, after)]
      /\ UNCHANGED <<outcomesOf, loaded, table, due, acked, targets, stranded, faults>>

Unanswered(p) == {i \in Items : todoItems[DictOf[p]][i].status = "Processing"}

(* The row an outcome leaves, from the row as it was taken.                *)
Worked(row, outcome) ==
  CASE outcome = "send" -> With(row, "Processing")
    [] outcome = "unencodable" -> AfterFailedAttempt(row)
    [] outcome = "gone" -> With(row, "Completed")

(* One item of the pass.                                                   *)
Work(p, i) ==
  LET row == pass[p].pending[i]
  IN  /\ pass[p].at = "work" /\ i \in pass[p].left
      /\ \E outcome \in outcomesOf[i] :
           LET done == IF outcome = "wait" THEN todoItems[DictOf[p]][i] ELSE Worked(row, outcome)
               spent == outcome = "unencodable" /\ done.status = "Abandoned"
           IN  /\ todoItems' = [todoItems EXCEPT ![DictOf[p]][i] = done]
               /\ pass' = [pass EXCEPT
                    ![p].left = @ \ {i},
                    ![p].commands = IF outcome = "send" THEN @ \cup {i} ELSE @,
                    ![p].abandoned = IF spent THEN @ \cup {i} ELSE @]
      /\ UNCHANGED <<outcomesOf, loaded, table, due, acked, targets, stranded, faults>>

Count(p) ==
  attempts' = [attempts EXCEPT ![DictOf[p]] =
                 [i \in Items |-> IF i \in pass[p].commands THEN @[i] + 1 ELSE @[i]]]

Published(p, abandoned) ==
  pass' = [pass EXCEPT ![p] = [Idle EXCEPT !.at = "announce", !.event = pass[p].event,
                                           !.abandoned = abandoned]]

(* The commands are published in one call.  When it throws, some of them   *)
(* may have gone out, and every row of the pass still Processing counts a  *)
(* failed attempt.                                                         *)
Publish(p) ==
  LET rows == todoItems[DictOf[p]]
      failed == [i \in Items |->
                   IF pass[p].pending[i] # NoRow /\ FailsWithBatch(rows[i])
                   THEN AfterFailedAttempt(pass[p].pending[i]) ELSE rows[i]]
  IN  /\ pass[p].at = "work" /\ pass[p].left = {}
      /\ \/ /\ Count(p)
            /\ sent' = sent \cup pass[p].commands
            /\ Published(p, pass[p].abandoned)
            /\ UNCHANGED <<todoItems, faults>>
         \/ /\ pass[p].commands # {} /\ Fault /\ Count(p)
            /\ \E out \in SUBSET pass[p].commands : sent' = sent \cup out
            /\ SetRows(p, failed)
            /\ Published(p, pass[p].abandoned \cup NewlyAbandoned(rows, failed))
      /\ UNCHANGED <<outcomesOf, loaded, table, due, acked, answered, announced, unheard, stranded>>

(* onExhausted is asked once, when an item is abandoned; a failure to      *)
(* publish what it says is logged.                                         *)
Announce(p) ==
  /\ pass[p].at = "announce"
  /\ pass' = [pass EXCEPT ![p].at = "finish", ![p].abandoned = {}]
  /\ \/ announced' = announced \cup pass[p].abandoned /\ UNCHANGED <<unheard, faults>>
     \/ /\ pass[p].abandoned # {} /\ Fault
        /\ unheard' = unheard \cup pass[p].abandoned /\ UNCHANGED announced
  /\ UNCHANGED <<outcomesOf, todoItems, loaded, table, due, acked, answered, sent, attempts, stranded>>

Finish(p) ==
  /\ pass[p].at = "finish"
  /\ Sync(p)
  /\ pass' = [pass EXCEPT ![p] = Idle]
  /\ acked' = IF pass[p].event = Sweep THEN acked ELSE acked \cup {pass[p].event}
  /\ UNCHANGED <<outcomesOf, todoItems, loaded, due, targets, stranded>>

(* A container goes away: its dictionary is lost, and what it was handling *)
(* is delivered again.  The unfinished rows that no scan will find and no  *)
(* other dictionary or redelivery holds are stranded.                      *)
Lose(d) ==
  LET mine == {p \in Passes : DictOf[p] = d}
      again == {pass[p].event : p \in mine} \ (acked \cup {Sweep})
  IN  /\ todoItems' = [todoItems EXCEPT ![d] = [i \in Items |-> NoRow]]
      /\ loaded' = [loaded EXCEPT ![d] = ~ Restores]
      /\ pass' = [p \in Passes |-> IF p \in mine THEN Idle ELSE pass[p]]
      /\ due' = due \cup again
      /\ attempts' = [attempts EXCEPT ![d] = [i \in Items |-> 0]]
      /\ stranded' = stranded \cup
           {i \in Items : /\ todoItems[d][i] # NoRow
                          /\ table[i].status \notin Final
                          /\ Restores => table[i].status \in {"None", "Processing"}
                          /\ ~ HeldElsewhere(d, i)
                          /\ Collect(i) \notin due'}
      /\ UNCHANGED <<outcomesOf, table, acked, answered, sent, announced, unheard>>

(* In the middle of a pass, or a process that is restarted.                *)
Crash(d) == Fault /\ Lose(d)

(* Between passes, which Lambda does to each of its containers some day.   *)
Recycle(d) ==
  /\ Restores
  /\ \A p \in Passes : DictOf[p] = d => pass[p].at = "idle"
  /\ Lose(d)
  /\ UNCHANGED faults

(* The target answers a command: an event the slice resolves the item by.  *)
Answer(i) ==
  /\ i \in sent \ answered
  /\ answered' = answered \cup {i}
  /\ due' = due \cup {Resolve(i)}
  /\ UNCHANGED <<outcomesOf, todoItems, loaded, table, pass, acked, sent, attempts, announced, unheard,
                 stranded, faults>>

Step(p) ==
  \/ Load(p) \/ Route(p) \/ Save(p)
  \/ \E overdue \in SUBSET Unanswered(p) : Settle(p, overdue)
  \/ \E i \in Items : Work(p, i)
  \/ Publish(p) \/ Announce(p) \/ Finish(p)

Deliver(event) == \E p \in Passes : Begin(p, event)

Next ==
  \/ \E event \in due \cup {Sweep} : Deliver(event)
  \/ \E p \in Passes : Step(p)
  \/ \E d \in Dicts : Crash(d) \/ Recycle(d)
  \/ \E i \in Items : Answer(i)

Spec == Init /\ [][Next]_vars

(* The sweep's timer never stops, and a tick reaches whatever container    *)
(* the platform picks: none can count on being swept.  A pass runs to its  *)
(* end, and a container is recycled some day, however busy it is kept.     *)
Fairness ==
  /\ WF_vars(Deliver(Sweep))
  /\ \A p \in Passes : WF_vars(Step(p))
  /\ \A d \in Dicts : SF_vars(Recycle(d))

FairSpec == Spec /\ Fairness

(* And more, for what fails all the same: every event is delivered, and    *)
(* the sweep reaches every container, which finds overdue in the end what  *)
(* stays unanswered.                                                       *)
KindSpec ==
  /\ FairSpec
  /\ \A event \in Events : SF_vars(Deliver(event))
  /\ \A p \in Passes : SF_vars(Begin(p, Sweep)) /\ SF_vars(Settle(p, Unanswered(p)))

-----------------------------------------------------------------------------
(* Properties.                                                             *)

(* In one life of a container an item is sent no more often than its       *)
(* budget allows, whatever fails, times out or is collected again: a row   *)
(* never goes back to an earlier number of attempts.                       *)
BudgetPerLifetime ==
  \A d \in Dicts, i \in Items : attempts[d][i] <= MaxTries

(* A row the table shows as abandoned was announced, or its announcement   *)
(* failed to go out: none is given up in silence, not even when a          *)
(* container goes away half way through the pass that abandons it.         *)
AbandonedIsAnnounced ==
  \A i \in Items : table[i].status = "Abandoned" => i \in announced \cup unheard

(* Once its container knows an item completed, nothing the container does  *)
(* makes it work to do again while it lives: no late failure, timeout or   *)
(* second collection.                                                      *)
CompletedStays ==
  [][\A d \in Dicts, i \in Items :
       todoItems[d][i].status = "Completed" =>
         \/ todoItems'[d][i].status = "Completed"
         \/ todoItems'[d][i] = NoRow]_vars

-----------------------------------------------------------------------------
(* Why they hold, where each container makes one pass at a time.           *)

OnePassEach == \A p, q \in Passes : DictOf[p] = DictOf[q] => p = q

(* A row of a lowered maxRetries may have more tries than it allows.       *)
AnyRow == [status: {"Pending", "Processing", "Completed", "Failed", "Abandoned"}, tries: Nat]
            \cup {NoRow}

Pass ==
  [at: {"idle", "load", "route", "save", "settle", "work", "announce", "finish"},
   event: Events \cup {Sweep}, pending: [Items -> AnyRow], left: SUBSET Items,
   commands: SUBSET Items, abandoned: SUBSET Items]

TypeOK ==
  /\ outcomesOf \in [Items -> SUBSET Outcomes]
  /\ todoItems \in [Dicts -> [Items -> AnyRow]] /\ loaded \in [Dicts -> BOOLEAN]
  /\ table \in [Items -> AnyRow]
  /\ pass \in [Passes -> Pass]
  /\ due \subseteq Events /\ acked \subseteq Events \cup {Sweep}
  /\ sent \subseteq Items /\ answered \subseteq Items
  /\ attempts \in [Dicts -> [Items -> Nat]]
  /\ announced \subseteq Items /\ unheard \subseteq Items /\ stranded \subseteq Items
  /\ faults \in 0 .. MaxFaults

(* Every publish of an item in a container's life is one of its tries, but *)
(* for the one that waits for its answer.                                  *)
TriesCount(d, i) ==
  LET row == todoItems[d][i]
  IN  /\ attempts[d][i] <= MaxTries
      /\ row.status \in {"None", "Pending"} => attempts[d][i] = 0
      /\ row.status = "Failed" => attempts[d][i] <= row.tries
      /\ row.status = "Processing" => attempts[d][i] <= row.tries + 1

(* What is left of a pass is as it was taken; what it is to publish is     *)
(* marked as sent, with a try to spare, and nothing else it took is.       *)
PassHoldsRows(p) ==
  LET rows == todoItems[DictOf[p]]
      taken == pass[p].pending
  IN  IF pass[p].at # "work" THEN pass[p].left = {} /\ pass[p].commands = {}
      ELSE \A i \in Items :
             /\ i \in pass[p].left =>
                  i \notin pass[p].commands /\ taken[i] = rows[i] /\ IsActionable(rows[i])
             /\ i \in pass[p].commands =>
                  /\ IsActionable(taken[i]) /\ rows[i] = With(taken[i], "Processing")
                  /\ attempts[DictOf[p]][i] < MaxTries /\ attempts[DictOf[p]][i] <= taken[i].tries
             /\ taken[i] # NoRow /\ rows[i].status = "Processing" => i \in pass[p].commands

(* A row a container gave up is announced, or is about to be by its pass,  *)
(* which has not saved it yet.                                             *)
GivenUpIsKnown ==
  /\ \A p \in Passes : pass[p].at \notin {"work", "announce"} => pass[p].abandoned = {}
  /\ \A d \in Dicts, i \in Items : todoItems[d][i].status = "Abandoned" =>
       i \in announced \cup unheard \/ \E p \in Passes : DictOf[p] = d /\ i \in pass[p].abandoned

IndInv ==
  /\ TypeOK
  /\ \A d \in Dicts, i \in Items : TriesCount(d, i)
  /\ \A p \in Passes : PassHoldsRows(p)
  /\ GivenUpIsKnown /\ AbandonedIsAnnounced

-----------------------------------------------------------------------------
(* What must happen.                                                       *)

Ended(i) == table[i].status \in Final

Ends(i) == "wait" \notin outcomesOf[i]

(* An item whose event was acknowledged is completed or abandoned in the   *)
(* table at last, unless it was stranded: also when the sweeps reach a     *)
(* container that does not hold its row, or whose scan of the table failed.*)
EveryItemEndsUnlessStranded ==
  \A i \in Items : Ends(i) =>
    (Collect(i) \in acked ~> (Ended(i) \/ i \in stranded))

(* What the comment on phase2's timeout says: a command published but      *)
(* never answered is sent again while the budget lasts, so that its item   *)
(* ends.                                                                   *)
EveryItemEnds ==
  \A i \in Items : Ends(i) => (Collect(i) \in acked ~> Ended(i))

(* An item the target is done with is not given up once its container had  *)
(* the answer delivered.                                                   *)
AnswerIsHeard ==
  \A i \in Items : Resolve(i) \in acked => table[i].status # "Abandoned"

=============================================================================
