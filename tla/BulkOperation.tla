---------------------------- MODULE BulkOperation ----------------------------
(***************************************************************************)
(* One bulk operation: its items and counters (dam-db/src/bulk.rs), the     *)
(* executor (dam-pipeline/src/bulk_exec.rs, run) and the job handler around *)
(* it (worker.rs, kind::BULK), on AtLeastOnce's deliveries.                 *)
(*                                                                          *)
(* Assets are numbered in id order.  Each item is one transaction: the      *)
(* change to the asset, its outcome and the counters; the row locks it      *)
(* takes on the asset and the item make it atomic.                          *)
(***************************************************************************)
EXTENDS AtLeastOnce, FiniteSets

CONSTANTS
  Assets,    \* how many assets the operation targets
  BATCH,     \* items read at a time
  Kind,      \* kinds that may be asked for; delete stands for every kind but metadata_set
  K          \* the dedupe key bulk:<id>

Asset == 1..Assets

ASSUME BulkAssumption ==
  /\ Assets \in Nat \ {0} /\ BATCH \in Nat \ {0}
  /\ Kind \subseteq {"metadata_set", "delete"}
  /\ K \in Key /\ MaxAttempts \in Nat \ {0}

VARIABLES
  kind,     \* what is asked for
  fate,     \* what applying comes to for an asset: done, skipped (hold) or failed
  op,       \* the operation's state
  item,     \* each item's state
  done, failed,   \* the counters
  changed,  \* assets the operation has changed
  indexed,  \* assets an index job was queued for after the change
  run       \* each worker's run: its step, the page it holds, the assets it touched

vars == <<queueVars, kind, fate, op, item, done, failed, changed, indexed, run>>

row  == <<kind, fate, op, item, done, failed, changed>>

Idle == [step |-> "none", batch |-> {}, touched |-> {}]

Init ==
  /\ QueueInit
  /\ kind \in Kind
  /\ fate \in [Asset -> {"done", "skipped", "failed"}]
  /\ op = "queued"
  /\ item = [a \in Asset |-> "pending"]
  /\ done = 0 /\ failed = 0
  /\ changed = {} /\ indexed = {}
  /\ run = [w \in Worker |-> Idle]

Goto(w, s) == run' = [run EXCEPT ![w].step = s]

Terminal == op \in {"completed", "partial", "failed"}

Pending == {a \in Asset : item[a] = "pending"}

\* POST /bulk has created the operation and queues its job (or fails to, and
\* says so).
Submit(j) ==
  /\ \A i \in Job : state[i] = "absent"
  /\ Enqueue(j, K)
  /\ UNCHANGED <<row, indexed, run>>

----------------------------------------------------------------------------
(* The executor.                                                           *)

\* A terminal operation is answered with nothing touched.
Start(w, j) ==
  /\ run[w].step = "none"
  /\ state[j] = "queued" /\ Deliver(w, {j})
  /\ run'  = [run EXCEPT ![w] = [Idle EXCEPT !.step = IF Terminal THEN "ok" ELSE "start"]]
  /\ UNCHANGED <<row, indexed>>

\* start_on.
Begin(w) ==
  /\ run[w].step = "start"
  /\ op' = IF op = "queued" THEN "running" ELSE op
  /\ Goto(w, "next")
  /\ UNCHANGED <<queueVars, kind, fate, item, done, failed, changed, indexed>>

Least(S, n) == {a \in S : Cardinality({b \in S : b < a}) < n}

\* The bug: a page that is not full is taken for the last one.
NextStepShort(batch) == IF Cardinality(batch) < BATCH THEN "finish" ELSE "apply"

NextStep(batch) == IF batch = {} THEN "finish" ELSE "apply"

\* next_batch_on: the first pending items, in id order.
NextBatch(w) ==
  LET batch == Least(Pending, BATCH) IN
  /\ run[w].step = "next"
  /\ run' = [run EXCEPT ![w].batch = batch, ![w].step = NextStep(batch)]
  /\ UNCHANGED <<queueVars, row, indexed>>

\* What applying the operation to an asset comes to now: a second delete (or
\* restore, archive, publish) is skipped, a second metadata_set is not.
Outcome(a) ==
  IF fate[a] = "done" /\ a \in changed /\ kind # "metadata_set" THEN "skipped" ELSE fate[a]

\* The bug: every outcome that is recorded is counted.
CountedAlways(a) == TRUE

\* rows_affected() > 0: the outcome is a transition.
Counted(a) == item[a] = "pending"

\* The bug: a hold is reported and not enforced.
ChangesHeld(o) == o # "failed"

Changes(o) == o = "done"

\* One item of the batch, with its bookkeeping.
Apply(w, a) ==
  LET o == Outcome(a) IN
  /\ run[w].step = "apply"
  /\ run[w].batch # {} /\ a \in Least(run[w].batch, 1)
  /\ item'    = IF item[a] = "pending" THEN [item EXCEPT ![a] = o] ELSE item
  /\ done'    = IF Counted(a) /\ o = "done" THEN done + 1 ELSE done
  /\ failed'  = IF Counted(a) /\ o = "failed" THEN failed + 1 ELSE failed
  /\ changed' = IF Changes(o) THEN changed \cup {a} ELSE changed
  /\ run' = [run EXCEPT ![w].batch = @ \ {a},
                        ![w].touched = IF o = "done" THEN @ \cup {a} ELSE @]
  /\ UNCHANGED <<queueVars, kind, fate, op, indexed>>

\* The heartbeat between batches: a worker that is not the holder any more
\* stops.  The queue's promise does not say who holds a running job.
Renew(w, j) ==
  /\ run[w].step = "apply" /\ run[w].batch = {}
  /\ <<w, j>> \in working
  /\ \/ state[j] = "running" /\ Goto(w, "next")
     \/ Goto(w, "transient")
  /\ UNCHANGED <<queueVars, row, indexed>>

\* finish_on: "The caller does not get to say completed".
Verdict ==
  IF failed > 0 /\ done = 0 THEN "failed" ELSE IF failed > 0 THEN "partial" ELSE "completed"

Finish(w) ==
  /\ run[w].step = "finish"
  /\ op' = IF op \in {"running", "queued"} THEN Verdict ELSE op
  /\ Goto(w, "index")
  /\ UNCHANGED <<queueVars, kind, fate, item, done, failed, changed, indexed>>

\* The handler queues an index job for each asset this run touched.
Index(w) ==
  /\ run[w].step = "index"
  /\ IF run[w].touched = {}
       THEN Goto(w, "ok") /\ UNCHANGED indexed
       ELSE \E a \in run[w].touched :
              /\ indexed' = indexed \cup {a}
              /\ run' = [run EXCEPT ![w].touched = @ \ {a}]
  /\ UNCHANGED <<queueVars, row>>

\* A statement fails; the run ends.
Fail(w) ==
  /\ run[w].step \notin {"none", "ok", "transient"}
  /\ Goto(w, "transient")
  /\ UNCHANGED <<queueVars, row, indexed>>

SettleJob(w, j) ==
  /\ run[w].step \in {"ok", "transient"}
  /\ Settle(w, j, IF run[w].step = "ok" THEN "succeeded"
                  ELSE IF claims[j] < MaxAttempts THEN "queued" ELSE "dead")
  /\ run' = [run EXCEPT ![w] = Idle]
  /\ UNCHANGED <<row, indexed>>

Crash(w) ==
  /\ run[w].step # "none"
  /\ Forget(w, Job)
  /\ run' = [run EXCEPT ![w] = Idle]
  /\ UNCHANGED <<row, indexed>>

Lapse(j) ==
  /\ state[j] = "running" /\ TakeBack({j})
  /\ UNCHANGED <<row, indexed, run>>

Handle(w) ==
  \/ Begin(w) \/ NextBatch(w) \/ (\E a \in Asset : Apply(w, a)) \/ Finish(w) \/ Index(w)
  \/ \E j \in Job : Start(w, j) \/ Renew(w, j) \/ SettleJob(w, j)

Next ==
  \/ \E j \in Job : Submit(j) \/ Lapse(j)
  \/ \E w \in Worker : Handle(w) \/ Fail(w) \/ Crash(w)

Spec == Init /\ [][Next]_vars

----------------------------------------------------------------------------
(* Properties.                                                             *)

ItemState == {"pending", "done", "skipped", "failed"}

RunState ==
  [step : {"none", "start", "next", "apply", "finish", "index", "ok", "transient"},
   batch : SUBSET Asset, touched : SUBSET Asset]

TypeOK ==
  /\ kind \in Kind /\ fate \in [Asset -> ItemState \ {"pending"}]
  /\ op \in {"queued", "running", "completed", "partial", "failed"}
  /\ item \in [Asset -> ItemState]
  /\ done \in 0..Assets /\ failed \in 0..Assets
  /\ changed \subseteq Asset /\ indexed \subseteq changed
  /\ run \in [Worker -> RunState]

\* The counters are what the items say, while runs overlap and are repeated
\* (record_outcome counts "a transition that actually happened").
CountersMatch ==
  /\ done   = Cardinality({a \in Asset : item[a] = "done"})
  /\ failed = Cardinality({a \in Asset : item[a] = "failed"})

\* An operation that says it is over has reached every item, and says failed
\* or partial exactly when items failed; a stale run changes neither.
TerminalIsHonest ==
  Terminal =>
    /\ Pending = {}
    /\ op = "completed" <=> \A a \in Asset : item[a] # "failed"
    /\ op = "failed" => \A a \in Asset : item[a] # "done"

\* An asset is changed exactly when its item is done: no change without its
\* bookkeeping or the reverse (run's comment on the item transaction).
ChangeIsRecorded == changed = {a \in Asset : item[a] = "done"}

----------------------------------------------------------------------------
(* The inductive invariant behind CountersMatch and TerminalIsHonest.      *)

\* An item keeps what came of its asset the first time.
FirstOutcomeStays == \A a \in Asset : item[a] \in {"pending", fate[a]}

\* A run touches what is changed, and finishes when it saw an empty page.
RunCoherent ==
  \A w \in Worker :
    /\ run[w].touched \subseteq changed
    /\ run[w].step = "finish" => Pending = {}

IndInv ==
  /\ TypeOK
  /\ CountersMatch
  /\ ChangeIsRecorded
  /\ FirstOutcomeStays
  /\ RunCoherent
  /\ TerminalIsHonest
=============================================================================
