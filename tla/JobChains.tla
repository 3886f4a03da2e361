------------------------------ MODULE JobChains ------------------------------
(***************************************************************************)
(* One tenant's background chain: a job kind whose handler ends by queueing *)
(* its successor (dam-pipeline/src/worker.rs: webhook_dispatch, tier_sweep, *)
(* restore_poll, integrity_scrub, usage_rollup), on AtLeastOnce's           *)
(* deliveries.                                                              *)
(*                                                                          *)
(* A chain is started under a dedupe key, by the API for what a tenant asks *)
(* for, by every worker's sweep for what is repaired; a successor carries   *)
(* no key, since its predecessor is still running.                          *)
(***************************************************************************)
EXTENDS AtLeastOnce, FiniteSets

CONSTANTS
  K,            \* the chain's dedupe key
  MaxStarts,    \* bounds of the model: enqueues by the API, and worker deaths,
  MaxFaults     \* lapses under a live worker and failed statements together

VARIABLES
  repaired,   \* the kind is one of those the workers start where it is missing
  step,       \* each worker's step
  requeued,   \* jobs that have queued their successor
  starts, faults,
  doubled,    \* a job that had queued its successor queued another
  died        \* a job of the chain was given up on

chainVars == <<repaired, step, requeued, starts, faults, doubled, died>>
vars == <<queueVars, chainVars>>

Init ==
  /\ QueueInit
  /\ repaired \in BOOLEAN
  /\ step = [w \in Worker |-> "idle"]
  /\ requeued = {}
  /\ starts = 0 /\ faults = 0 /\ doubled = FALSE /\ died = FALSE

Goto(w, s) == step' = [step EXCEPT ![w] = s]

Fault == faults < MaxFaults /\ faults' = faults + 1

Alive == {j \in Job : InFlight(j)}

\* The id of the next row: one that is not in the table.
Absent == {j \in Job : state[j] = "absent"}

Fresh(j) == Absent # {} /\ j = CHOOSE i \in Absent : TRUE

\* The model's ids are used again once nothing refers to them.
Recycle ==
  LET over == {j \in Job : /\ state[j] \in {"succeeded", "dead"}
                           /\ \A w \in Worker : <<w, j>> \notin working} IN
  /\ over # {}
  /\ state' = [j \in Job |-> IF j \in over THEN "absent" ELSE state[j]]
  /\ key' = [j \in Job |-> IF j \in over THEN NoKey ELSE key[j]]
  /\ claims' = [j \in Job |-> IF j \in over THEN 0 ELSE claims[j]]
  /\ requeued' = requeued \ over
  /\ UNCHANGED <<working, repaired, step, starts, faults, doubled, died>>

----------------------------------------------------------------------------
(* Starting.                                                               *)

\* POST /lifecycle/runs, POST /assets/{id}/restore, POST /webhooks...: the
\* enqueue answers with the job in flight under the key, if there is one.
Ask(j) ==
  /\ ~ repaired /\ starts < MaxStarts
  /\ Fresh(j) /\ Enqueue(j, K)
  /\ starts' = starts + 1
  /\ UNCHANGED <<repaired, step, requeued, faults, doubled, died>>

\* The bug: a chain whose job is being run is taken for missing.
MissingUnlessQueued == \A j \in Job : state[j] # "queued"

\* The bug: a chain that ended in a dead job is taken for one that was stopped.
MissingUnlessDead == Alive = {} /\ ~ died

Missing == Alive = {}

\* tenants_without_chain.
Look(w) ==
  /\ repaired /\ step[w] = "idle" /\ Missing
  /\ Goto(w, "missing")
  /\ UNCHANGED <<queueVars, repaired, requeued, starts, faults, doubled, died>>

\* start_missing_*: the enqueue after it, which finds an incumbent or not.
Repair(w) ==
  /\ step[w] = "missing"
  /\ \/ \E j \in Job : Fresh(j) /\ Enqueue(j, K)
     \/ (\E j \in Alive : key[j] = K) /\ UNCHANGED queueVars
  /\ Goto(w, "idle")
  /\ UNCHANGED <<repaired, requeued, starts, faults, doubled, died>>

----------------------------------------------------------------------------
(* Running.                                                                *)

\* A worker is handed the job and does what it is for, which goes well, fails,
\* or cannot be read from the payload.
Start(w, j) ==
  /\ step[w] = "idle"
  /\ state[j] = "queued" /\ Deliver(w, {j})
  /\ \E s \in {"requeue", "transient", "permanent"} : Goto(w, s)
  /\ UNCHANGED <<repaired, requeued, starts, faults, doubled, died>>

\* The bug: the successor is queued under the key of the running job, which
\* the enqueue answers with.
RequeueKeyed == K

RequeueKey == NoKey

\* requeue_*: a job of the chain's key in flight is the answer, or a new row.
Requeue(w, j) ==
  /\ step[w] = "requeue" /\ <<w, j>> \in working
  /\ \/ \E next \in Job : Fresh(next) /\ Enqueue(next, RequeueKey)
     \/ RequeueKey = K /\ (\E i \in Alive : key[i] = K) /\ UNCHANGED queueVars
  /\ requeued' = requeued \cup {j}
  /\ doubled' = (doubled \/ j \in requeued)
  /\ Goto(w, "ok")
  /\ UNCHANGED <<repaired, starts, faults, died>>

\* The statement fails.
RequeueFails(w) ==
  /\ step[w] = "requeue" /\ Fault
  /\ Goto(w, "transient")
  /\ UNCHANGED <<queueVars, repaired, requeued, starts, doubled, died>>

Complete(w, j) ==
  /\ step[w] = "ok" /\ Settle(w, j, "succeeded")
  /\ Goto(w, "idle")
  /\ UNCHANGED <<repaired, requeued, starts, faults, doubled, died>>

\* fail: another attempt while there are any, which the unique index refuses
\* when the key is in flight again.
Fail(w, j) ==
  /\ \/ /\ step[w] = "transient" /\ claims[j] < MaxAttempts
        /\ \/ Settle(w, j, "queued")
           \/ <<w, j>> \in working /\ Conflicts(j, key[j]) /\ Forget(w, {j})
        /\ died' = died
     \/ /\ step[w] = "permanent" \/ (step[w] = "transient" /\ claims[j] >= MaxAttempts)
        /\ Settle(w, j, "dead")
        /\ died' = TRUE
  /\ Goto(w, "idle")
  /\ UNCHANGED <<repaired, requeued, starts, faults, doubled>>

\* A lease lapses: its worker is gone, or slow.
Lapse(j) ==
  /\ TakeBack({j})
  /\ \/ (\A w \in Worker : <<w, j>> \notin working) /\ faults' = faults
     \/ (\E w \in Worker : <<w, j>> \in working) /\ Fault
  /\ died' = (died \/ state'[j] = "dead")
  /\ UNCHANGED <<repaired, step, requeued, starts, doubled>>

\* A worker dies anywhere; complete's own failure is the same to the queue.
Crash(w) ==
  /\ step[w] # "idle" /\ Fault
  /\ Forget(w, Job)
  /\ Goto(w, "idle")
  /\ UNCHANGED <<repaired, requeued, starts, doubled, died>>

Run(w) ==
  \/ Repair(w)
  \/ \E j \in Job : Start(w, j) \/ Requeue(w, j) \/ Complete(w, j) \/ Fail(w, j)

Next ==
  \/ Recycle
  \/ \E j \in Job : Ask(j) \/ Lapse(j)
  \/ \E w \in Worker : Look(w) \/ Run(w) \/ RequeueFails(w) \/ Crash(w)

Spec == Init /\ [][Next]_vars

\* A worker's loop goes on and sweeps every METERING_SWEEP; leases lapse.
Fairness ==
  /\ \A w \in Worker : WF_vars(Look(w)) /\ WF_vars(Run(w))
  /\ \A j \in Job : WF_vars(Lapse(j))
  /\ WF_vars(Recycle)

FairSpec == Spec /\ Fairness

----------------------------------------------------------------------------
(* Properties.                                                             *)

TypeOK ==
  /\ state \in [Job -> {"absent", "queued", "running", "succeeded", "dead"}]
  /\ key \in [Job -> {K, NoKey}] /\ claims \in [Job -> 0..MaxAttempts]
  /\ working \subseteq Worker \X Job
  /\ repaired \in BOOLEAN
  /\ step \in [Worker -> {"idle", "missing", "requeue", "ok", "transient", "permanent"}]
  /\ requeued \subseteq Job
  /\ starts \in 0..MaxStarts /\ faults \in 0..MaxFaults
  /\ doubled \in BOOLEAN /\ died \in BOOLEAN

\* A chain a tenant asked for stops only with a job that was given up on: a
\* successor is in the queue before its predecessor leaves it, through every
\* crash, lapse and retry (requeue_backfill_collect: "the chain ends silently").
StopsOnlyByDeath == ~ repaired /\ starts > 0 /\ Alive = {} => died

\* Jobs in flight that have no successor yet: what the chain consists of.
Heads == Alive \ requeued

\* Workers that sweep together start at most one chain each while none is in
\* flight, and beyond that a chain only doubles when a redelivered job queues
\* its successor again (requeue_tier_sweep, start_missing_restore_polls).
RestartsBounded == repaired /\ ~ doubled => Cardinality(Heads) <= Cardinality(Worker)

\* A repaired chain comes back, whatever became of its jobs ("it also repairs
\* a chain that broke").
ComesBack == []<>(repaired => Alive # {})
=============================================================================
