---------------------------- MODULE IndexRefresh ----------------------------
(***************************************************************************)
(* One asset's document in its tenant's search index: the requests that     *)
(* queue its index job (dam-pipeline/src/worker.rs, enqueue_index), the job *)
(* (index_one) on AtLeastOnce's deliveries, `damctl reindex`                *)
(* (dam-search/src/reindex.rs), and the index's single writer, which a      *)
(* process keeps once it has opened it (dam-search/src/pool.rs).            *)
(***************************************************************************)
EXTENDS AtLeastOnce

CONSTANTS
  K,            \* the dedupe key index:<asset>
  Damctl,       \* the process that runs a reindex
  Nobody,       \* no process has the writer
  MaxChanges,   \* bounds of the model: changes of the asset, reindexes,
  MaxReindexes, \* and, together, worker deaths, lapses under a live worker and
  MaxFaults     \* evictions of a writer

VARIABLES
  version,  \* the asset's row, as a count of its changes
  pending,  \* requests a committed change still has to make
  asked,    \* the row's version when the last request was made (history)
  doc,      \* the version the committed document was made from
  writer,   \* the process that has the index's writer
  step,     \* each process's step
  got,      \* the version each has read
  reindexes, faults,
  absorbed, \* a request was answered with a job some worker already had
  handed,   \* a process gave the writer up
  raced,    \* two workers ran the job at once
  died      \* an index job was given up on

refreshVars == <<version, pending, asked, doc, writer, step, got,
                 reindexes, faults, absorbed, handed, raced, died>>
vars == <<queueVars, refreshVars>>

Process == Worker \cup {Damctl}

RefreshInit ==
  /\ version = 0 /\ pending = 0 /\ asked = 0 /\ doc = 0
  /\ writer = Nobody
  /\ step = [p \in Process |-> "idle"]
  /\ got = [p \in Process |-> 0]
  /\ reindexes = 0 /\ faults = 0
  /\ absorbed = FALSE /\ handed = FALSE /\ raced = FALSE /\ died = FALSE

Init == QueueInit /\ RefreshInit

Goto(p, s) == step' = [step EXCEPT ![p] = s]

Fault == faults < MaxFaults /\ faults' = faults + 1

----------------------------------------------------------------------------
(* The row and its requests.                                               *)

\* The asset changes.  Enrichment, derivation and bulk operations go on to
\* request an index job; an edit through the API does not.
Change ==
  /\ version < MaxChanges
  /\ version' = version + 1
  /\ \E requests \in {0, 1} : pending' = pending + requests
  /\ UNCHANGED <<queueVars, asked, doc, writer, step, got, reindexes, faults,
                 absorbed, handed, raced, died>>

Absent == {j \in Job : state[j] = "absent"}

\* enqueue_index: a new job, or the one in flight under the key.
Request ==
  /\ pending > 0
  /\ pending' = pending - 1 /\ asked' = version
  /\ \/ \E j \in Absent : Enqueue(j, K) /\ absorbed' = absorbed
     \/ \E j \in Job :
          /\ InFlight(j) /\ key[j] = K
          /\ absorbed' = (absorbed \/ \E w \in Worker : <<w, j>> \in working)
          /\ UNCHANGED queueVars
  /\ UNCHANGED <<version, doc, writer, step, got, reindexes, faults, handed, raced, died>>

----------------------------------------------------------------------------
(* index_one.                                                              *)

Start(w, j) ==
  /\ step[w] = "idle" /\ state[j] = "queued" /\ Deliver(w, {j})
  /\ raced' = (raced \/ \E v \in Worker : step[v] # "idle")
  /\ Goto(w, "read")
  /\ UNCHANGED <<version, pending, asked, doc, writer, got, reindexes, faults,
                 absorbed, handed, died>>

\* The row, read in a transaction of its own.
Read(p) ==
  /\ step[p] = "read"
  /\ got' = [got EXCEPT ![p] = version]
  /\ Goto(p, IF p = Damctl THEN "write" ELSE "open")
  /\ UNCHANGED <<queueVars, version, pending, asked, doc, writer, reindexes, faults,
                 absorbed, handed, raced, died>>

\* The bug: two processes may both write the directory.
WritableByAll(p) == TRUE

\* Tantivy's directory lock.
Writable(p) == writer \in {Nobody, p}

\* The bug: a writer that cannot be had is skipped over.
BusySkipped == "ok"

BusyOutcome == "transient"

\* IndexPool::writer: the cached writer, a new one, or LockBusy.
Open(w) ==
  /\ step[w] = "open"
  /\ \/ Writable(w) /\ writer' = w /\ Goto(w, "write")
     \/ ~ Writable(w) /\ Goto(w, BusyOutcome) /\ UNCHANGED writer
  /\ UNCHANGED <<queueVars, version, pending, asked, doc, got, reindexes, faults,
                 absorbed, handed, raced, died>>

\* delete_term, add_document, commit; or any of them fails.
Write(w) ==
  /\ step[w] = "write"
  /\ \/ doc' = got[w] /\ Goto(w, "ok") /\ UNCHANGED faults
     \/ Fault /\ Goto(w, "transient") /\ UNCHANGED doc
  /\ UNCHANGED <<queueVars, version, pending, asked, writer, got, reindexes,
                 absorbed, handed, raced, died>>

Complete(w, j) ==
  /\ step[w] = "ok" /\ Settle(w, j, "succeeded")
  /\ Goto(w, "idle")
  /\ UNCHANGED <<version, pending, asked, doc, writer, got, reindexes, faults,
                 absorbed, handed, raced, died>>

Fail(w, j) ==
  /\ step[w] = "transient"
  /\ \/ claims[j] < MaxAttempts /\ Settle(w, j, "queued") /\ died' = died
     \/ <<w, j>> \in working /\ Conflicts(j, key[j]) /\ Forget(w, {j}) /\ died' = died
     \/ claims[j] >= MaxAttempts /\ Settle(w, j, "dead") /\ died' = TRUE
  /\ Goto(w, "idle")
  /\ UNCHANGED <<version, pending, asked, doc, writer, got, reindexes, faults,
                 absorbed, handed, raced>>

Lapse(j) ==
  /\ TakeBack({j})
  /\ \/ (\A w \in Worker : <<w, j>> \notin working) /\ faults' = faults
     \/ (\E w \in Worker : <<w, j>> \in working) /\ Fault
  /\ died' = (died \/ state'[j] = "dead")
  /\ UNCHANGED <<version, pending, asked, doc, writer, step, got, reindexes,
                 absorbed, handed, raced>>

\* A worker's process dies, and its lock with it.
Crash(w) ==
  /\ step[w] # "idle" /\ Fault
  /\ Forget(w, Job) /\ Goto(w, "idle")
  /\ writer' = IF writer = w THEN Nobody ELSE writer
  /\ handed' = (handed \/ writer = w)
  /\ UNCHANGED <<version, pending, asked, doc, got, reindexes, absorbed, raced, died>>

\* Other tenants' writers push this one out of the process's cache.
Evict(w) ==
  /\ writer = w /\ step[w] # "write" /\ Fault
  /\ writer' = Nobody /\ handed' = TRUE
  /\ UNCHANGED <<queueVars, version, pending, asked, doc, step, got, reindexes,
                 absorbed, raced, died>>

----------------------------------------------------------------------------
(* damctl reindex: the lock first, then the rows, then one commit.         *)

Reindex ==
  /\ step[Damctl] = "idle" /\ writer = Nobody /\ reindexes < MaxReindexes
  /\ writer' = Damctl /\ reindexes' = reindexes + 1
  /\ Goto(Damctl, "read")
  /\ UNCHANGED <<queueVars, version, pending, asked, doc, got, faults,
                 absorbed, handed, raced, died>>

\* The commit, or a death before it: the process ends either way.
Reindexed ==
  /\ step[Damctl] = "write"
  /\ doc' \in {doc, got[Damctl]}
  /\ writer' = Nobody /\ handed' = TRUE /\ Goto(Damctl, "idle")
  /\ UNCHANGED <<queueVars, version, pending, asked, got, reindexes, faults,
                 absorbed, raced, died>>

Next ==
  \/ Change \/ Request \/ Reindex \/ Read(Damctl) \/ Reindexed
  \/ \E j \in Job : Lapse(j)
  \/ \E w \in Worker :
       \/ Read(w) \/ Open(w) \/ Write(w) \/ Crash(w) \/ Evict(w)
       \/ \E j \in Job : Start(w, j) \/ Complete(w, j) \/ Fail(w, j)

Spec == Init /\ [][Next]_vars

----------------------------------------------------------------------------
(* Properties.                                                             *)

TypeOK ==
  /\ state \in [Job -> {"absent", "queued", "running", "succeeded", "dead"}]
  /\ version \in 0..MaxChanges /\ pending \in 0..MaxChanges
  /\ asked \in 0..version /\ doc \in 0..version
  /\ writer \in Process \cup {Nobody}
  /\ step \in [Process -> {"idle", "read", "open", "write", "ok", "transient"}]
  /\ got \in [Process -> 0..version]
  /\ reindexes \in 0..MaxReindexes /\ faults \in 0..MaxFaults
  /\ absorbed \in BOOLEAN /\ handed \in BOOLEAN /\ raced \in BOOLEAN /\ died \in BOOLEAN

\* Whenever no index job is in flight, search shows at least what the row was
\* when a job was last asked for; the exceptions are a request that was
\* answered with a job a worker already had (also one whose lease has lapsed,
\* which is queued again), a job given up on, and two runs at once.  A second
\* worker process, which cannot open the writer, is one way to give a job up.
AskedIsIndexed ==
  (\A j \in Job : ~ InFlight(j)) /\ ~ absorbed /\ ~ died /\ ~ raced
    => doc >= asked

\* A process keeps the writer it opened, and that alone keeps a slow run from
\* writing an older document over a newer one: the document goes back only
\* where two runs overlapped, or one and a reindex, and the writer changed
\* hands between them (IndexPool::writer: "Tantivy permits one writer per index").
NeverGoesBack == [][doc' < doc => handed /\ (raced \/ reindexes > 0)]_vars
=============================================================================
