----------------------------- MODULE Experience -----------------------------
(***************************************************************************)
(* What the server learns from its work: the memories of a user            *)
(* (services/memory_service.py, table safety_memory) and the patterns that *)
(* are counted from the results of tasks (services/pattern_service.py,     *)
(* table interaction_patterns), with the daily clean-up of both            *)
(* (services/cleanup_service.py).                                          *)
(*                                                                         *)
(* remember and record_pattern run on the event loop without an await, so  *)
(* that no two of them overlap.  cleanup_all runs in a thread of its own:  *)
(* every action is one transaction, and the clean-up comes between the     *)
(* transaction in which a call reads and the one in which it writes.       *)
(***************************************************************************)
EXTENDS Integers, Sequences, FiniteSets

CONSTANTS
  Notes,      \* what may be remembered: [what, type, task, low, ends]
  Keys,       \* pattern keys: command and outcome of a step
  Signatures, \* role, action and file type of a step
  Statuses, Reviews, \* what a step ended with, and what its reviewer said
  FewHits,    \* cleanup_low_value_patterns: hit_count <= 5
  MaxRows,    \* bound: rows of safety_memory, the deleted ones included
  MaxRecords, \* bound: calls of record_pattern
  MaxSteps,   \* bound: results of a task
  MaxLocks   \* bound: transactions that meet a locked database

VARIABLES
  memory,  \* rows of safety_memory by id
  pattern, \* rows of interaction_patterns: the unique index allows one per key and signature
  call,    \* the call of remember or record_pattern the event loop is in
  cleaner, \* the transaction cleanup_all comes to next
  records, locked

xvars == << memory, pattern, call, cleaner, records, locked >>

\* The results of a task, step by step
Result == [key : Keys, sig : Signatures, status : Statuses, review : Reviews]
Outcomes == UNION {[1 .. n -> Result] : n \in 1 .. MaxSteps}

Slots == Keys \X Signatures

Gone == [there |-> FALSE]
NoPattern == [status |-> "absent"]

\* old: older than the clean-up tolerates for its type; over: past expires_at
Memory == [there : {TRUE}, note : Notes, old : BOOLEAN, over : BOOLEAN]

\* rated: the successes and failures the confidence was computed from;
\* age: 1 after 24 hours, 2 after 30 days, 3 after 90; idle: no hit for 90 days
Pattern == [status : {"tentative", "active", "archived"}, hits : Nat, good : Nat, bad : Nat,
            rated : Nat \X Nat, age : 0 .. 3, idle : BOOLEAN]

Idle == [pc |-> "idle"]
Recalling == [pc : {"miss", "insert"}, note : Notes]
Refreshing == [pc : {"same"}, note : Notes, id : Nat]
Recording == [pc : {"next", "absent", "new"}, left : Seq(Result), steps : Nat]
Counting == [pc : {"found"}, left : Seq(Result), steps : Nat, seen : Pattern]
Merging == [pc : {"like"}, left : Seq(Result), steps : Nat, slot : Slots]

There(i) == memory[i].there
Counted(p) == pattern[p].status # "absent"

ExperienceInit ==
  /\ memory = << >> /\ pattern = [p \in Slots |-> NoPattern]
  /\ call = Idle /\ cleaner = "off" /\ records = 0 /\ locked = 0

-----------------------------------------------------------------------------
(* memory_service.py *)

\* Mutant of SameText: the search for the hash asks for the type as well
SameTextAndType(n) == {i \in DOMAIN memory : There(i) /\ memory[i].note.what = n.what
                                                     /\ memory[i].note.type = n.type}

\* Rows with the hash of a text, of whatever type
SameText(n) == {i \in DOMAIN memory : There(i) /\ memory[i].note.what = n.what}

Insert(n) == memory' = Append(memory, [there |-> TRUE, note |-> n, old |-> FALSE, over |-> FALSE])

\* remember up to its first transaction: the hash is looked up.  _save_task_state
\* stores the state of a task without (enable_dedup=False).
Remember(n) ==
  /\ call = Idle /\ Len(memory) < MaxRows
  /\ \/ /\ \/ \E i \in SameText(n) : call' = [pc |-> "same", note |-> n, id |-> i]
           \/ SameText(n) = {} /\ call' = [pc |-> "miss", note |-> n]
        /\ UNCHANGED memory
     \/ n.type = "task_state" /\ Insert(n) /\ UNCHANGED call
  /\ UNCHANGED << pattern, cleaner, records, locked >>

\* Among the rows of the type the embedding may find one that says the same;
\* without an embedding nobody looks.
LookAlike ==
  /\ call.pc = "miss"
  /\ call' \in {[pc |-> "insert", note |-> call.note]}
               \cup {[pc |-> "same", note |-> call.note, id |-> i] :
                       i \in {j \in DOMAIN memory : There(j) /\ memory[j].note.type = call.note.type}}
  /\ UNCHANGED << memory, pattern, cleaner, records, locked >>

\* The row that says the same becomes new again, if it is still there.
Refresh ==
  /\ call.pc = "same"
  /\ memory' = IF There(call.id) THEN [memory EXCEPT ![call.id].old = FALSE] ELSE memory
  /\ call' = Idle
  /\ UNCHANGED << pattern, cleaner, records, locked >>

Store ==
  /\ call.pc = "insert"
  /\ Insert(call.note) /\ call' = Idle
  /\ UNCHANGED << pattern, cleaner, records, locked >>

\* forget: the user's own rows, of which these are
Forget(i) ==
  /\ call = Idle /\ There(i)
  /\ memory' = [memory EXCEPT ![i] = Gone]
  /\ UNCHANGED << pattern, call, cleaner, records, locked >>

-----------------------------------------------------------------------------
(* pattern_service.py *)

\* _classify_pattern_type: a step of a task with several is part of a sequence,
\* and only a task's single step is ever a success.
PatternType(step, steps) ==
  IF step.status = "blocked" THEN "blocked"
  ELSE IF step.status = "format_error" THEN "format"
  ELSE IF step.review = "retry" THEN "failure"
  ELSE IF steps > 1 THEN "sequence" ELSE "success"

Good(step, steps) == IF PatternType(step, steps) = "success" THEN 1 ELSE 0

\* Mutant of WithHit: what is no success counts for nothing
WithSuccess(row, g) == [row EXCEPT !.hits = @ + 1, !.good = @ + g, !.idle = FALSE]

\* A hit is a success or a failure.
WithHit(row, g) ==
  [row EXCEPT !.hits = @ + 1, !.good = @ + g, !.bad = @ + 1 - g, !.idle = FALSE]

\* record_pattern on the results of a task, one after the other
Record(results) ==
  /\ call = Idle /\ records < MaxRecords
  /\ call' = [pc |-> "next", left |-> results, steps |-> Len(results)]
  /\ records' = records + 1
  /\ UNCHANGED << memory, pattern, cleaner, locked >>

Step == Head(call.left)
Slot == << Step.key, Step.sig >>
Hit == Good(Step, call.steps)

\* The call after the step it is at
NextStep ==
  IF Len(call.left) = 1 THEN Idle
  ELSE [pc |-> "next", left |-> Tail(call.left), steps |-> call.steps]

\* _upsert_pattern reads the row of the key and the signature.
ReadPattern ==
  /\ call.pc = "next"
  /\ call' = IF Counted(Slot)
             THEN [pc |-> "found", left |-> call.left, steps |-> call.steps, seen |-> pattern[Slot]]
             ELSE [call EXCEPT !.pc = "absent"]
  /\ UNCHANGED << memory, pattern, cleaner, records, locked >>

\* It writes the counts it computed from what it read; a row that has been deleted
\* meanwhile is not matched, and the hit not counted.  The status stays as it is.
WriteHit ==
  LET new == WithHit(call.seen, Hit) IN
  /\ call.pc = "found"
  /\ pattern' = IF Counted(Slot)
                THEN [pattern EXCEPT ![Slot].hits = new.hits, ![Slot].good = new.good,
                        ![Slot].bad = new.bad, ![Slot].rated = << new.good, new.bad >>,
                        ![Slot].idle = FALSE]
                ELSE pattern
  /\ call' = NextStep
  /\ UNCHANGED << memory, cleaner, records, locked >>

\* Without a row the evidence of rows with the same key is compared.
CompareEvidence ==
  /\ call.pc = "absent"
  /\ call' \in {[call EXCEPT !.pc = "new"]}
               \cup {[pc |-> "like", left |-> call.left, steps |-> call.steps, slot |-> p] :
                       p \in {q \in Slots : q[1] = Slot[1] /\ Counted(q)}}
  /\ UNCHANGED << memory, pattern, cleaner, records, locked >>

\* The hit goes to a pattern with similar evidence.  The right hand sides of the
\* UPDATE see the old counts: the confidence lags behind by this hit.
MergeHit ==
  LET p   == call.slot
      old == pattern[p]
  IN
  /\ call.pc = "like"
  /\ pattern' = IF Counted(p)
                THEN [pattern EXCEPT ![p] = [WithHit(old, Hit) EXCEPT !.rated = << old.good, old.bad >>]]
                ELSE pattern
  /\ call' = NextStep
  /\ UNCHANGED << memory, cleaner, records, locked >>

\* A new pattern is tentative.
NewPattern ==
  /\ call.pc = "new"
  /\ pattern' = [pattern EXCEPT ![Slot] =
                   [status |-> "tentative", hits |-> 1, good |-> Hit, bad |-> 1 - Hit,
                    rated |-> << Hit, 1 - Hit >>, age |-> 0, idle |-> FALSE]]
  /\ call' = NextStep
  /\ UNCHANGED << memory, cleaner, records, locked >>

\* periodic_pattern_finalize, every hour: what is a day old is active.
Finalize ==
  /\ call = Idle
  /\ \E p \in Slots : pattern[p].status = "tentative" /\ pattern[p].age >= 1
  /\ pattern' = [p \in Slots |-> IF pattern[p].status = "tentative" /\ pattern[p].age >= 1
                                 THEN [pattern[p] EXCEPT !.status = "active"] ELSE pattern[p]]
  /\ UNCHANGED << memory, call, cleaner, records, locked >>

-----------------------------------------------------------------------------
(* cleanup_service.py: cleanup_all *)

Following == [expired |-> "low", low |-> "tentative", tentative |-> "archive",
              archive |-> "states", states |-> "off"]

CleanUp == /\ cleaner = "off" /\ cleaner' = "expired"
           /\ UNCHANGED << memory, pattern, call, records, locked >>

Drop(S) == memory' = [i \in DOMAIN memory |-> IF i \in S THEN Gone ELSE memory[i]]

\* The rows of memory a step of the clean-up deletes
Doomed(step) ==
  {i \in DOMAIN memory : There(i) /\
     LET m == memory[i] IN
     CASE step = "expired" -> m.over
       [] step = "low"     -> m.note.low /\ m.old /\ m.note.type # "task_result"
       [] step = "states"  -> /\ m.note.type = "task_state"
                              /\ \/ m.old
                                 \/ \E j \in DOMAIN memory : j > i /\ There(j)
                                      /\ memory[j].note.type = "task_state"
                                      /\ memory[j].note.task = m.note.task
       [] OTHER            -> FALSE}

\* What the clean-up makes of a pattern: tentative ones of a month are deleted,
\* active ones of a quarter with few hits and none of late archived.
Swept(row, step) ==
  IF step = "tentative" /\ row.status = "tentative" /\ row.age >= 2 THEN NoPattern
  ELSE IF /\ step = "archive" /\ row.status = "active"
          /\ row.hits <= FewHits /\ row.age = 3 /\ row.idle
  THEN [row EXCEPT !.status = "archived"] ELSE row

\* A step of the clean-up
CleanStep ==
  /\ cleaner # "off"
  /\ cleaner' = Following[cleaner]
  /\ Drop(Doomed(cleaner))
  /\ pattern' = [p \in Slots |-> Swept(pattern[p], cleaner)]
  /\ UNCHANGED << call, records, locked >>

\* One that fails is left out, and with the deletion of patterns their archiving.
CleanFails ==
  /\ cleaner # "off" /\ locked < MaxLocks
  /\ locked' = locked + 1
  /\ cleaner' = IF cleaner = "tentative" THEN "states" ELSE Following[cleaner]
  /\ UNCHANGED << memory, pattern, call, records >>

-----------------------------------------------------------------------------
(* The database is locked: a call is given up, record_pattern goes on with the *)
(* next step, and a failing comparison of evidence ends in a new row.          *)
Locked ==
  /\ call # Idle /\ locked < MaxLocks
  /\ locked' = locked + 1
  /\ call' = IF call.pc \in {"miss", "same", "insert"} THEN Idle
             ELSE IF call.pc \in {"absent", "like"}
             THEN [pc |-> "new", left |-> call.left, steps |-> call.steps]
             ELSE NextStep
  /\ UNCHANGED << memory, pattern, cleaner, records >>

\* Time passes for a row.
MemoryAges(i) ==
  /\ There(i)
  /\ \/ ~memory[i].old /\ memory' = [memory EXCEPT ![i].old = TRUE]
     \/ memory[i].note.ends /\ ~memory[i].over /\ memory' = [memory EXCEPT ![i].over = TRUE]
  /\ UNCHANGED << pattern, call, cleaner, records, locked >>

PatternAges(p) ==
  /\ Counted(p)
  /\ \/ pattern[p].age < 3 /\ pattern' = [pattern EXCEPT ![p].age = @ + 1]
     \/ pattern[p].age = 3 /\ ~pattern[p].idle /\ pattern' = [pattern EXCEPT ![p].idle = TRUE]
  /\ UNCHANGED << memory, call, cleaner, records, locked >>

ExperienceNext ==
  \/ \E n \in Notes : Remember(n)
  \/ LookAlike \/ Refresh \/ Store
  \/ \E i \in DOMAIN memory : Forget(i) \/ MemoryAges(i)
  \/ \E results \in Outcomes : Record(results)
  \/ ReadPattern \/ WriteHit \/ CompareEvidence \/ MergeHit \/ NewPattern \/ Finalize
  \/ CleanUp \/ CleanStep \/ CleanFails \/ Locked
  \/ \E p \in Slots : PatternAges(p)

ExperienceSpec == ExperienceInit /\ [][ExperienceNext]_xvars

-----------------------------------------------------------------------------
(* Properties *)

\* Rows, patterns and the call in progress have their shape.
ExperienceTypeOK ==
  /\ memory \in Seq(Memory \cup {Gone})
  /\ pattern \in [Slots -> Pattern \cup {NoPattern}]
  /\ call \in {Idle} \cup Recalling \cup Refreshing \cup Recording \cup Counting \cup Merging
  /\ cleaner \in {"off"} \cup DOMAIN Following

\* A text is remembered once: of two rows with the same text one is the state of a
\* task, which is stored without a look at the others.
RememberedOnce ==
  \A i, j \in DOMAIN memory :
    /\ There(i) /\ There(j) /\ i # j
    /\ memory[i].note.what = memory[j].note.what
    => "task_state" \in {memory[i].note.type, memory[j].note.type}

\* Every hit of a pattern is a success or a failure, whatever the clean-up does
\* between reading and writing.
HitsAddUp == \A p \in Slots : Counted(p) => pattern[p].hits = pattern[p].good + pattern[p].bad

\* The confidence of a pattern is that of its counts, or of those before its last hit.
ConfidenceIsRecent ==
  \A p \in Slots : Counted(p) =>
    LET rated == pattern[p].rated
    IN  /\ rated[1] \in {pattern[p].good, pattern[p].good - 1}
        /\ rated[2] \in {pattern[p].bad, pattern[p].bad - 1}
        /\ rated[1] + rated[2] >= pattern[p].hits - 1

\* The copy a call computes from is what the table holds, unless the row is gone:
\* no hit is overwritten.
CopyIsCurrent ==
  call.pc = "found" /\ Counted(Slot) =>
    << call.seen.hits, call.seen.good, call.seen.bad >>
      = << pattern[Slot].hits, pattern[Slot].good, pattern[Slot].bad >>

\* Memories are single, and the counts of patterns add up, though the clean-up works
\* between the transactions of remember and _upsert_pattern.
ExperienceAddsUp ==
  ExperienceTypeOK /\ RememberedOnce /\ HitsAddUp /\ ConfidenceIsRecent /\ CopyIsCurrent
=============================================================================
