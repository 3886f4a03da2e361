---------------------------- MODULE AtLeastOnce ----------------------------
(***************************************************************************)
(* What the job queue promises the code that relies on it: a deduplicated   *)
(* job is handed out at most MaxAttempts times, one worker's hand-out can   *)
(* overlap another's (leases lapse), and any worker that was handed a job   *)
(* may still settle it.  JobQueue implements this; Ingest and BulkOperation *)
(* run their handlers on it.                                                *)
(***************************************************************************)
EXTENDS Naturals

CONSTANTS Job, Worker, Key, NoKey, MaxAttempts

VARIABLES
  state,    \* absent, queued, running, succeeded or dead
  key,      \* the dedupe key
  claims,   \* deliveries so far
  working   \* <<w, j>>: w was handed j and has not settled or forgotten it

queueVars == <<state, key, claims, working>>

InFlight(j) == state[j] \in {"queued", "running"}

Conflicts(j, k) ==
  k # NoKey /\ \E i \in Job \ {j} : InFlight(i) /\ key[i] = k

QueueInit ==
  /\ state   = [j \in Job |-> "absent"]
  /\ key     = [j \in Job |-> NoKey]
  /\ claims  = [j \in Job |-> 0]
  /\ working = {}

\* A job is accepted unless one of its key is in flight.
Enqueue(j, k) ==
  /\ state[j] = "absent" /\ ~ Conflicts(j, k)
  /\ state' = [state EXCEPT ![j] = "queued"]
  /\ key'   = [key EXCEPT ![j] = k]
  /\ UNCHANGED <<claims, working>>

\* A worker with no batch is handed one of queued jobs.
Deliver(w, J) ==
  /\ \A j \in J : state[j] = "queued" /\ claims[j] < MaxAttempts
  /\ \A j \in Job : <<w, j>> \notin working
  /\ state'   = [j \in Job |-> IF j \in J THEN "running" ELSE state[j]]
  /\ claims'  = [j \in Job |-> IF j \in J THEN claims[j] + 1 ELSE claims[j]]
  /\ working' = working \cup {<<w, j>> : j \in J}
  /\ UNCHANGED key

\* Leases lapse: jobs are taken back for another attempt, or given up on.
TakeBack(J) ==
  /\ \A j \in J : state[j] = "running"
  /\ \E given \in [J -> {"queued", "dead"}] :
       /\ \A j \in J : given[j] = "queued" => claims[j] < MaxAttempts
       /\ state' = [j \in Job |-> IF j \in J THEN given[j] ELSE state[j]]
  /\ UNCHANGED <<key, claims, working>>

\* A worker settles a job it was handed, whoever holds it by now.
Settle(w, j, s) ==
  /\ <<w, j>> \in working
  /\ \/ s \in {"succeeded", "dead"}
     \/ s = "queued" /\ claims[j] < MaxAttempts /\ ~ Conflicts(j, key[j])
  /\ state'   = [state EXCEPT ![j] = s]
  /\ working' = working \ {<<w, j>>}
  /\ UNCHANGED <<key, claims>>

\* A worker dies with its batch, or cannot settle a job and goes on.
Forget(w, J) ==
  /\ working' = working \ ({w} \X J)
  /\ UNCHANGED <<state, key, claims>>

QueueNext ==
  \/ \E j \in Job, k \in Key \cup {NoKey} : Enqueue(j, k)
  \/ \E w \in Worker, J \in SUBSET Job : Deliver(w, J)
  \/ \E J \in SUBSET Job : TakeBack(J)
  \/ \E w \in Worker, j \in Job, s \in {"succeeded", "dead", "queued"} : Settle(w, j, s)
  \/ \E w \in Worker, J \in SUBSET Job : Forget(w, J)

QueueSpec == QueueInit /\ [][QueueNext]_queueVars
=============================================================================
