------------------------------ MODULE JobQueue ------------------------------
(***************************************************************************)
(* The global job table (dam-db/src/jobs.rs) and the worker loop that       *)
(* drives it (dam-pipeline/src/worker.rs, run and fail).                    *)
(*                                                                          *)
(* One action is one SQL statement, because a statement is what Postgres    *)
(* runs atomically; the one exception is the claiming UPDATE, which is two: *)
(* under READ COMMITTED its CTEs read a snapshot and only the row's         *)
(* `state = 'queued'` is looked at again when the row is locked.            *)
(*                                                                          *)
(* Time is two flags per row: lapsed (lease_expires_at < now()) and due     *)
(* (run_after <= now()).  Which rows the claim prefers is ClaimOrder's      *)
(* subject; here a claim may select any batch of the right size.            *)
(***************************************************************************)
EXTENDS Naturals, FiniteSets

CONSTANTS
  Job,          \* rows of dam_global.jobs that may ever be inserted
  Worker,       \* worker identities (hostname and pid, locked_by)
  Key,          \* (tenant_id, kind, dedupe_key) triples
  NoKey,        \* dedupe_key IS NULL
  NoWorker,     \* locked_by IS NULL
  NoJob,        \* a worker handling nothing
  MaxAttempts,  \* max_attempts, the same for every job (nothing overrides 5)
  Limit         \* ClaimOptions.limit

ASSUME JobQueueAssumption ==
  /\ NoKey \notin Key
  /\ NoWorker \notin Worker
  /\ NoJob \notin Job
  /\ MaxAttempts \in Nat \ {0}
  /\ Limit \in Nat \ {0}

VARIABLES
  state, key, attempts, lockedBy, lapsed, due, \* the columns of a row
  pc,      \* where each worker's loop is
  snap,    \* the ids its claim statement read, before the rows are locked
  ticket,  \* Job.attempts of each job in its batch, 0 for one not in it
  cur,     \* the job its handler is working on
  claims   \* how often each job was handed to a worker (history)

row    == <<state, key, attempts, lockedBy, lapsed, due>>
worker == <<pc, snap, ticket, cur>>
vars   == <<row, worker, claims>>

State == {"absent", "queued", "running", "succeeded", "dead"}
PC    == {"loop", "claim", "select", "update", "batch",
          "handling", "complete", "burn", "fail"}

\* The partial unique index jobs_dedupe_idx covers these rows.
InFlight(j) == state[j] \in {"queued", "running"}

\* Row j, once in flight under key k, would collide in the unique index.
Conflicts(j, k) ==
  k # NoKey /\ \E i \in Job \ {j} : InFlight(i) /\ key[i] = k

Eligible == {j \in Job : state[j] = "queued" /\ due[j]}

\* The bug: an exhausted job's lapsed lease is nobody's to clear.
ReclaimableIfRetriable(j) ==
  state[j] = "running" /\ lapsed[j] /\ ~ attempts[j] >= MaxAttempts

Reclaimable(j) == state[j] = "running" /\ lapsed[j]

Exhausted(j) == attempts[j] >= MaxAttempts

\* The bug: `failed` stored for a job between retries, as a status page would.
RequeuedAsFailed(j) == IF Exhausted(j) THEN "dead" ELSE "failed"

\* The bug: no dead letter; a poisoned job comes back for ever.
RequeuedForEver(j) == "queued"

\* Both fail and reclaim_expired settle a row this way.
Requeued(j) == IF Exhausted(j) THEN "dead" ELSE "queued"

Smaller(m, n) == IF m < n THEN m ELSE n

EmptyBatch == [j \in Job |-> 0]

Init ==
  /\ state    = [j \in Job |-> "absent"]
  /\ key      = [j \in Job |-> NoKey]
  /\ attempts = [j \in Job |-> 0]
  /\ lockedBy = [j \in Job |-> NoWorker]
  /\ lapsed   = [j \in Job |-> FALSE]
  /\ due      = [j \in Job |-> FALSE]
  /\ pc       = [w \in Worker |-> "loop"]
  /\ snap     = [w \in Worker |-> {}]
  /\ ticket   = [w \in Worker |-> EmptyBatch]
  /\ cur      = [w \in Worker |-> NoJob]
  /\ claims   = [j \in Job |-> 0]

----------------------------------------------------------------------------
(* The table, seen from outside a worker.                                  *)

\* jobs::enqueue when the insert does not conflict.  When it does, the call
\* returns the incumbent's id (or an error) and writes nothing.
Enqueue(j, k) ==
  /\ state[j] = "absent"
  /\ ~ Conflicts(j, k)
  /\ state' = [state EXCEPT ![j] = "queued"]
  /\ key'   = [key EXCEPT ![j] = k]
  /\ \E d \in BOOLEAN : due' = [due EXCEPT ![j] = d]
  /\ UNCHANGED <<attempts, lockedBy, lapsed, worker, claims>>

\* now() passes lease_expires_at.
LeaseLapse(j) ==
  /\ state[j] = "running" /\ ~ lapsed[j]
  /\ lapsed' = [lapsed EXCEPT ![j] = TRUE]
  /\ UNCHANGED <<state, key, attempts, lockedBy, due, worker, claims>>

\* now() passes run_after: a back-off is over, or a scheduled job falls due.
FallDue(j) ==
  /\ state[j] = "queued" /\ ~ due[j]
  /\ due' = [due EXCEPT ![j] = TRUE]
  /\ UNCHANGED <<state, key, attempts, lockedBy, lapsed, worker, claims>>

----------------------------------------------------------------------------
(* The worker's loop, one statement at a time.                             *)

\* The bug: a lapsed lease gives the attempt back.
RefundingReclaim(w) ==
  /\ pc[w] \in {"loop", "claim"}
  /\ state'    = [j \in Job |-> IF Reclaimable(j) THEN Requeued(j) ELSE state[j]]
  /\ lockedBy' = [j \in Job |-> IF Reclaimable(j) THEN NoWorker ELSE lockedBy[j]]
  /\ lapsed'   = [j \in Job |-> lapsed[j] /\ ~ Reclaimable(j)]
  /\ attempts' = [j \in Job |-> IF Reclaimable(j) THEN attempts[j] - 1 ELSE attempts[j]]
  /\ pc' = [pc EXCEPT ![w] = IF pc[w] = "loop" THEN "claim" ELSE "select"]
  /\ UNCHANGED <<key, due, snap, ticket, cur, claims>>

\* jobs::reclaim_expired, which the loop calls and then claim calls again.
ReclaimExpired(w) ==
  /\ pc[w] \in {"loop", "claim"}
  /\ state'    = [j \in Job |-> IF Reclaimable(j) THEN Requeued(j) ELSE state[j]]
  /\ lockedBy' = [j \in Job |-> IF Reclaimable(j) THEN NoWorker ELSE lockedBy[j]]
  /\ lapsed'   = [j \in Job |-> lapsed[j] /\ ~ Reclaimable(j)]
  /\ pc' = [pc EXCEPT ![w] = IF pc[w] = "loop" THEN "claim" ELSE "select"]
  /\ UNCHANGED <<key, attempts, due, snap, ticket, cur, claims>>

\* The claim statement's CTEs read their snapshot.
ClaimSelect(w, S) ==
  /\ pc[w] = "select"
  /\ S \subseteq Eligible
  /\ Cardinality(S) = Smaller(Limit, Cardinality(Eligible))
  /\ snap' = [snap EXCEPT ![w] = S]
  /\ pc'   = [pc EXCEPT ![w] = "update"]
  /\ UNCHANGED <<row, ticket, cur, claims>>

\* The bug: the UPDATE trusts the snapshot.
TakenUnchecked(w) == snap[w]

\* Of the selected rows, those the UPDATE's own predicate lets through.
Taken(w) == {j \in snap[w] : state[j] = "queued"}

\* The rows are locked, rechecked, written and returned.
ClaimUpdate(w) ==
  /\ pc[w] = "update"
  /\ state'    = [j \in Job |-> IF j \in Taken(w) THEN "running" ELSE state[j]]
  /\ lockedBy' = [j \in Job |-> IF j \in Taken(w) THEN w ELSE lockedBy[j]]
  /\ lapsed'   = [j \in Job |-> lapsed[j] /\ j \notin Taken(w)]
  /\ attempts' = [j \in Job |-> IF j \in Taken(w) THEN attempts[j] + 1 ELSE attempts[j]]
  /\ claims'   = [j \in Job |-> IF j \in Taken(w) THEN claims[j] + 1 ELSE claims[j]]
  /\ ticket'   = [ticket EXCEPT ![w] =
                    [j \in Job |-> IF j \in Taken(w) THEN attempts[j] + 1 ELSE 0]]
  /\ snap'     = [snap EXCEPT ![w] = {}]
  /\ pc'       = [pc EXCEPT ![w] = "batch"]
  /\ UNCHANGED <<key, due, cur>>

\* `for job in claimed`: the next job of the batch, in RETURNING's order.
BeginJob(w, j) ==
  /\ pc[w] = "batch" /\ ticket[w][j] # 0
  /\ cur' = [cur EXCEPT ![w] = j]
  /\ pc'  = [pc EXCEPT ![w] = "handling"]
  /\ UNCHANGED <<row, snap, ticket, claims>>

\* The batch is finished (or was empty, and the loop slept).
EndBatch(w) ==
  /\ pc[w] = "batch" /\ ticket[w] = EmptyBatch
  /\ pc' = [pc EXCEPT ![w] = "loop"]
  /\ UNCHANGED <<row, snap, ticket, cur, claims>>

\* handle() returns: Ok, a permanent error, or a transient one.
HandlerReturns(w, next) ==
  /\ pc[w] = "handling" /\ next \in {"complete", "burn", "fail"}
  /\ pc' = [pc EXCEPT ![w] = next]
  /\ UNCHANGED <<row, snap, ticket, cur, claims>>

\* A handler that renews: jobs::heartbeat extends the lease when the row is
\* still this worker's, and otherwise is LeaseLost, which fails the job.
Heartbeat(w) ==
  /\ pc[w] = "handling"
  /\ IF state[cur[w]] = "running" /\ lockedBy[cur[w]] = w
       THEN lapsed' = [lapsed EXCEPT ![cur[w]] = FALSE] /\ UNCHANGED pc
       ELSE pc' = [pc EXCEPT ![w] = "fail"] /\ UNCHANGED lapsed
  /\ UNCHANGED <<state, key, attempts, lockedBy, due, snap, ticket, cur, claims>>

\* The loop goes on to the rest of the batch.
NextInBatch(w) ==
  /\ pc'     = [pc EXCEPT ![w] = "batch"]
  /\ ticket' = [ticket EXCEPT ![w][cur[w]] = 0]
  /\ cur'    = [cur EXCEPT ![w] = NoJob]
  /\ UNCHANGED snap

\* jobs::complete: by id, whatever the row says now.
Complete(w) ==
  /\ pc[w] = "complete"
  /\ state'    = [state EXCEPT ![cur[w]] = "succeeded"]
  /\ lockedBy' = [lockedBy EXCEPT ![cur[w]] = NoWorker]
  /\ lapsed'   = [lapsed EXCEPT ![cur[w]] = FALSE]
  /\ NextInBatch(w)
  /\ UNCHANGED <<key, attempts, due, claims>>

\* worker::fail on a permanent error: attempts = max_attempts, by id.
Burn(w) ==
  /\ pc[w] = "burn"
  /\ attempts' = [attempts EXCEPT ![cur[w]] = MaxAttempts]
  /\ pc' = [pc EXCEPT ![w] = "fail"]
  /\ UNCHANGED <<state, key, lockedBy, lapsed, due, snap, ticket, cur, claims>>

\* The unique index rejects a row that would go back in flight under a key
\* another row holds by now: the statement errors and changes nothing.
FailRejected(w) ==
  Requeued(cur[w]) = "queued" /\ Conflicts(cur[w], key[cur[w]])

\* jobs::fail: by id, whatever the row says now.  The back-off is in the
\* future, so the row is not due.
Fail(w) ==
  /\ pc[w] = "fail" /\ ~ FailRejected(w)
  /\ state'    = [state EXCEPT ![cur[w]] = Requeued(cur[w])]
  /\ lockedBy' = [lockedBy EXCEPT ![cur[w]] = NoWorker]
  /\ lapsed'   = [lapsed EXCEPT ![cur[w]] = FALSE]
  /\ due'      = [due EXCEPT ![cur[w]] = FALSE]
  /\ NextInBatch(w)
  /\ UNCHANGED <<key, attempts, claims>>

\* A statement errors without effect.  The loop logs it and carries on: a
\* failed reclaim still claims, a failed claim sleeps, a failed settlement
\* leaves the row as it is.
ReclaimError(w) ==
  /\ pc[w] = "loop"
  /\ pc' = [pc EXCEPT ![w] = "claim"]
  /\ UNCHANGED <<row, snap, ticket, cur, claims>>

ClaimError(w) ==
  /\ pc[w] \in {"claim", "select", "update"}
  /\ pc'   = [pc EXCEPT ![w] = "loop"]
  /\ snap' = [snap EXCEPT ![w] = {}]
  /\ UNCHANGED <<row, ticket, cur, claims>>

SettleError(w) ==
  /\ pc[w] \in {"complete", "burn", "fail"}
  /\ NextInBatch(w)
  /\ UNCHANGED <<row, claims>>

\* The process dies, or the answer to a claim is lost, and it starts over
\* under the same identity: its batch is forgotten, the rows stay locked.
Crash(w) ==
  /\ pc[w] # "loop"
  /\ pc'     = [pc EXCEPT ![w] = "loop"]
  /\ snap'   = [snap EXCEPT ![w] = {}]
  /\ ticket' = [ticket EXCEPT ![w] = EmptyBatch]
  /\ cur'    = [cur EXCEPT ![w] = NoJob]
  /\ UNCHANGED <<row, claims>>

----------------------------------------------------------------------------
\* What a worker does between faults; a heartbeat is not progress.
Progress(w) ==
  \/ ReclaimExpired(w)
  \/ \E S \in SUBSET Job : ClaimSelect(w, S)
  \/ ClaimUpdate(w)
  \/ \E j \in Job : BeginJob(w, j)
  \/ EndBatch(w)
  \/ \E next \in {"complete", "burn", "fail"} : HandlerReturns(w, next)
  \/ Complete(w)
  \/ Burn(w)
  \/ Fail(w)

FaultStep(w) ==
  \/ ReclaimError(w)
  \/ ClaimError(w)
  \/ SettleError(w)
  \/ Crash(w)

TableStep(j) ==
  \/ \E k \in Key \cup {NoKey} : Enqueue(j, k)
  \/ LeaseLapse(j)
  \/ FallDue(j)

Next ==
  \/ \E w \in Worker : Progress(w) \/ Heartbeat(w) \/ FaultStep(w)
  \/ \E j \in Job : TableStep(j)

Spec == Init /\ [][Next]_vars

\* Time passes and a worker keeps moving (WF).  Any step may fail, but the
\* three statements of a claim are not failed every time they are tried (SF);
\* after a claim nothing need succeed, because a claim spends an attempt.
\* That a job which stays due is in some selected batch is the claim order's
\* doing (ClaimOrder).
Fairness ==
  /\ \A j \in Job : WF_vars(LeaseLapse(j)) /\ WF_vars(FallDue(j))
  /\ \A w \in Worker :
       /\ WF_vars(Progress(w))
       /\ SF_vars(pc[w] = "claim" /\ ReclaimExpired(w))
       /\ \A j \in Job :
            /\ SF_vars(\E S \in SUBSET Job : j \in S /\ ClaimSelect(w, S))
            /\ SF_vars(j \in snap[w] /\ ClaimUpdate(w))

FairSpec == Spec /\ Fairness

----------------------------------------------------------------------------
(* Properties.                                                             *)

TypeOK ==
  /\ state    \in [Job -> State]
  /\ key      \in [Job -> Key \cup {NoKey}]
  /\ attempts \in [Job -> Nat]
  /\ lockedBy \in [Job -> Worker \cup {NoWorker}]
  /\ lapsed   \in [Job -> BOOLEAN]
  /\ due      \in [Job -> BOOLEAN]
  /\ pc       \in [Worker -> PC]
  /\ snap     \in [Worker -> SUBSET Job]
  /\ ticket   \in [Worker -> [Job -> Nat]]
  /\ cur      \in [Worker -> Job \cup {NoJob}]
  /\ claims   \in [Job -> Nat]

\* A (tenant, kind, key) has at most one job queued or running, also when a
\* worker that lost its lease fails a job whose key has been reused since
\* (jobs_dedupe_idx; JobSpec::dedupe_key).
OneInFlight ==
  \A i, j \in Job :
    i # j /\ InFlight(i) /\ InFlight(j) /\ key[i] # NoKey => key[i] # key[j]

\* A job is handed out at most max_attempts times, whatever crashes, lapses
\* and late settlements happen: "a job that reliably kills its worker would
\* otherwise be reclaimed forever" (reclaim_expired).
BoundedDelivery == \A j \in Job : claims[j] <= MaxAttempts

\* The worker a row names is the last one the job was handed to: what any
\* other worker still has in its batch is an earlier attempt.  This is what
\* makes locked_by a sufficient test in heartbeat.
NewestHolds ==
  \A j \in Job, w, v \in Worker :
    lockedBy[j] = w /\ ticket[w][j] # 0 /\ v # w => ticket[v][j] < ticket[w][j]

\* A held job is never handed to a second worker: it goes through the queue
\* first (the module's "No double-claim", for claims whose snapshots overlap).
NoDoubleClaim ==
  [][\A j \in Job :
       lockedBy[j] # NoWorker => lockedBy'[j] \in {lockedBy[j], NoWorker}]_vars

\* A job that is in the table ends as succeeded or dead, through crashes,
\* failed statements and lapsed leases ("no reaper process to deploy,
\* monitor, or forget to run").
EventuallySettled ==
  \A j \in Job : InFlight(j) ~> state[j] \in {"succeeded", "dead"}

----------------------------------------------------------------------------
(* The inductive invariant behind BoundedDelivery and NewestHolds.         *)

\* A row is locked exactly while it runs.
LeaseCoherent == \A j \in Job : state[j] = "running" <=> lockedBy[j] # NoWorker

\* A worker settles a job of its batch, and has no batch while it claims.
BatchCoherent ==
  \A w \in Worker :
    /\ pc[w] \in {"handling", "complete", "burn", "fail"} =>
         cur[w] \in Job /\ ticket[w][cur[w]] # 0
    /\ pc[w] \in {"loop", "claim", "select", "update"} => ticket[w] = EmptyBatch

\* Deliveries are charged; what can still be claimed has one left.
Charged ==
  \A j \in Job :
    /\ claims[j] <= attempts[j]
    /\ state[j] \in {"absent", "queued"} =>
         claims[j] < MaxAttempts /\ attempts[j] <= MaxAttempts

\* No ticket is ahead of a row that can still be claimed.
TicketsBehind ==
  \A j \in Job, w \in Worker :
    state[j] \in {"absent", "queued"} \/ attempts[j] < MaxAttempts =>
      ticket[w][j] <= attempts[j]

IndInv ==
  /\ TypeOK
  /\ LeaseCoherent
  /\ BatchCoherent
  /\ OneInFlight
  /\ BoundedDelivery
  /\ Charged
  /\ TicketsBehind
  /\ NewestHolds

----------------------------------------------------------------------------
(* What the table promises, seen without leases, due times or statements.  *)

working == {p \in Worker \X Job : ticket[p[1]][p[2]] # 0}

Promise == INSTANCE AtLeastOnce WITH
  state <- state, key <- key, claims <- claims, working <- working

\* The queue delivers at least once and at most max_attempts times, and keeps
\* keys unique in flight: every statement is a step of AtLeastOnce or none.
ImplementsPromise == Promise!QueueSpec
=============================================================================
