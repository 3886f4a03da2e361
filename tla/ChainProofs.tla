---------------------------- MODULE ChainProofs ----------------------------
(***************************************************************************)
(* What holds of a background chain, JobChains, for any workers, jobs and   *)
(* attempts.                                                                *)
(*                                                                          *)
(* A chain that was started has a job in flight that has not queued its     *)
(* successor (HasHead); it moves on to the successor before its run can     *)
(* complete (SuccessorFirst).  How many such jobs there can be is a count   *)
(* of workers: each prospect is one worker's (LooksAfresh).                 *)
(***************************************************************************)
EXTENDS JobChains, FiniteSetTheorems, FunctionTheorems, TLAPS

ChainTypes ==
  /\ state \in [Job -> {"absent", "queued", "running", "succeeded", "dead"}]
  /\ step \in [Worker -> {"idle", "missing", "requeue", "ok", "transient", "permanent"}]
  /\ requeued \in SUBSET Job
  /\ starts \in Nat
  /\ died \in BOOLEAN

\* A worker has one job, which is in the table, while its handler runs.
OneEach ==
  \A w \in Worker, j \in Job :
    <<w, j>> \in working =>
      /\ state[j] # "absent"
      /\ step[w] \in {"requeue", "ok", "transient", "permanent"}
      /\ \A i \in Job : <<w, i>> \in working => i = j

\* The row of a job that queued its successor is there, and a run that is about
\* to complete its job is such a job's.
SuccessorFirst ==
  /\ \A j \in requeued : state[j] # "absent"
  /\ \A w \in Worker, j \in Job :
       <<w, j>> \in working /\ step[w] = "ok" => j \in requeued

\* The chain has an end that has not queued its successor.
HasHead == starts > 0 /\ ~ died => \E h \in Job : InFlight(h) /\ h \notin requeued

ChainInv == ChainTypes /\ OneEach /\ SuccessorFirst /\ HasHead

LEMMA ChainInitially == Init => ChainInv
<1> SUFFICES ASSUME Init PROVE ChainInv
  OBVIOUS
<1>1. ChainTypes
  BY DEF Init, QueueInit, ChainTypes
<1>2. OneEach /\ SuccessorFirst /\ HasHead
  BY DEF Init, QueueInit, OneEach, SuccessorFirst, HasHead
<1> QED BY <1>1, <1>2 DEF ChainInv

\* A step that adds no delivery and takes no row away.
LEMMA ChainKeeps ==
  ASSUME ChainInv, NEW w \in Worker,
         NEW s \in {"idle", "missing", "requeue", "ok", "transient", "permanent"},
         step' = [step EXCEPT ![w] = s],
         \/ \A j \in Job : <<w, j>> \notin working'
         \/ s \in {"transient", "permanent"} /\ step[w] \notin {"idle", "missing"},
         \A v \in Worker, j \in Job : <<v, j>> \in working' => <<v, j>> \in working,
         state' \in [Job -> {"absent", "queued", "running", "succeeded", "dead"}],
         \A j \in Job : state[j] # "absent" => state'[j] # "absent",
         requeued' = requeued
  PROVE  OneEach' /\ SuccessorFirst'
<1>1. step'[w] = s /\ \A v \in Worker \ {w} : step'[v] = step[v]
  BY DEF ChainInv, ChainTypes
<1>2. requeued \in SUBSET Job
  BY DEF ChainInv, ChainTypes
<1>3. OneEach'
  BY <1>1 DEF ChainInv, OneEach
<1>4. SuccessorFirst'
  BY <1>1, <1>2 DEF ChainInv, SuccessorFirst
<1> QED BY <1>3, <1>4

\* A new row at the end of the chain.
LEMMA ChainGrows ==
  ASSUME ChainInv, NEW j \in Job, NEW k, Enqueue(j, k), died' = died
  PROVE  /\ state' \in [Job -> {"absent", "queued", "running", "succeeded", "dead"}]
         /\ \A i \in Job : state[i] # "absent" => state'[i] # "absent"
         /\ working' = working
         /\ state[j] = "absent"
         /\ \A R : j \notin R => \E h \in Job : InFlight(h)' /\ h \notin R
BY DEF ChainInv, ChainTypes, Enqueue, InFlight

\* Rows come and go: the chain is asked for or repaired, and ids are used again.
LEMMA RowStep ==
  ASSUME K # NoKey, ChainInv,
         \/ Recycle
         \/ \E j \in Job : Ask(j)
         \/ \E w \in Worker : Look(w) \/ Repair(w)
         \/ UNCHANGED vars
  PROVE  ChainInv'
<1>a. ChainTypes /\ OneEach /\ SuccessorFirst /\ HasHead
  BY DEF ChainInv
<1>1. CASE Recycle
  <2>1. /\ \A j \in Job : /\ state'[j] # state[j] =>
                               /\ state'[j] = "absent" /\ ~ InFlight(j) /\ j \notin requeued'
                               /\ \A w \in Worker : <<w, j>> \notin working
                          /\ state'[j] = state[j] /\ j \in requeued /\ state[j] # "absent" =>
                               j \in requeued'
        /\ state' \in [Job -> {"absent", "queued", "running", "succeeded", "dead"}]
        /\ requeued' \in SUBSET requeued
    BY <1>1, <1>a DEF Recycle, ChainTypes, InFlight
  <2>2. ChainTypes'
    BY <1>1, <1>a, <2>1 DEF Recycle, ChainTypes
  <2>3. OneEach'
    BY <1>1, <1>a, <2>1 DEF Recycle, OneEach
  <2>4. SuccessorFirst'
    BY <1>1, <1>a, <2>1 DEF Recycle, SuccessorFirst, OneEach, ChainTypes
  <2>5. HasHead'
    BY <1>1, <1>a, <2>1 DEF Recycle, HasHead, InFlight, ChainTypes
  <2> QED BY <2>2, <2>3, <2>4, <2>5 DEF ChainInv
<1>2. ASSUME NEW j \in Job, Ask(j) PROVE ChainInv'
  <2>1. /\ state' \in [Job -> {"absent", "queued", "running", "succeeded", "dead"}]
        /\ \A i \in Job : state[i] # "absent" => state'[i] # "absent"
        /\ working' = working /\ state[j] = "absent"
        /\ j \notin requeued => \E h \in Job : InFlight(h)' /\ h \notin requeued
    BY <1>2, ChainGrows DEF Ask
  <2>2. ChainTypes'
    BY <1>2, <1>a, <2>1 DEF Ask, ChainTypes
  <2>3. OneEach' /\ SuccessorFirst'
    BY <1>2, <1>a, <2>1 DEF Ask, OneEach, SuccessorFirst, ChainTypes
  <2>4. HasHead'
    BY <1>2, <1>a, <2>1 DEF Ask, HasHead, SuccessorFirst
  <2> QED BY <2>2, <2>3, <2>4 DEF ChainInv
<1>3. ASSUME NEW w \in Worker, Look(w) \/ Repair(w) PROVE ChainInv'
  <2>1. PICK s \in {"idle", "missing"} : step' = [step EXCEPT ![w] = s]
    BY <1>3 DEF Look, Repair, Goto
  <2>2. /\ \A j \in Job : <<w, j>> \notin working
        /\ starts' = starts /\ died' = died /\ requeued' = requeued
    BY <1>3, <1>a DEF Look, Repair, OneEach
  <2>3. \/ UNCHANGED <<state, working>>
        \/ \E j \in Job : Enqueue(j, K)
    BY <1>3 DEF Look, Repair, queueVars
  <2>4. /\ state' \in [Job -> {"absent", "queued", "running", "succeeded", "dead"}]
        /\ \A i \in Job : /\ state[i] # "absent" => state'[i] # "absent"
                          /\ InFlight(i) => InFlight(i)'
        /\ working' = working
    BY <2>3, <1>a DEF ChainTypes, Enqueue, InFlight
  <2>5. ChainTypes'
    BY <1>a, <2>1, <2>2, <2>4 DEF ChainTypes
  <2>6. OneEach' /\ SuccessorFirst'
    BY <2>1, <2>2, <2>4, ChainKeeps
  <2>7. HasHead'
    BY <1>a, <2>2, <2>4 DEF HasHead
  <2> QED BY <2>5, <2>6, <2>7 DEF ChainInv
<1>4. CASE UNCHANGED vars
  BY <1>4 DEF vars, queueVars, chainVars, ChainInv, ChainTypes, OneEach, SuccessorFirst,
     HasHead, InFlight
<1> QED BY <1>1, <1>2, <1>3, <1>4

\* A worker is handed a job and queues its successor.
LEMMA HandStep ==
  ASSUME K # NoKey, ChainInv, NEW w \in Worker, NEW j \in Job, Start(w, j) \/ Requeue(w, j)
  PROVE  ChainInv'
<1>a. ChainTypes /\ OneEach /\ SuccessorFirst /\ HasHead
  BY DEF ChainInv
<1>1. CASE Start(w, j)
  <2>1. PICK s \in {"requeue", "transient", "permanent"} : step' = [step EXCEPT ![w] = s]
    BY <1>1 DEF Start, Goto
  <2>2. /\ step' \in [Worker -> {"idle", "missing", "requeue", "ok", "transient", "permanent"}]
        /\ step'[w] = s /\ \A v \in Worker \ {w} : step'[v] = step[v]
    BY <1>a, <2>1 DEF ChainTypes
  <2>3. /\ \A i \in Job : <<w, i>> \in working' => i = j
        /\ \A v \in Worker, i \in Job : <<v, i>> \in working' /\ v # w => <<v, i>> \in working
        /\ \A i \in Job : <<w, i>> \notin working
    BY <1>1 DEF Start, Deliver
  <2>4. /\ state' \in [Job -> {"absent", "queued", "running", "succeeded", "dead"}]
        /\ \A i \in Job : /\ state[i] # "absent" => state'[i] # "absent"
                          /\ InFlight(i) => InFlight(i)'
        /\ state'[j] = "running"
    BY <1>1, <1>a DEF Start, Deliver, ChainTypes, InFlight
  <2>5. ChainTypes'
    BY <1>1, <1>a, <2>2, <2>4 DEF Start, ChainTypes
  <2>6. OneEach'
    BY <1>a, <2>2, <2>3, <2>4 DEF OneEach
  <2>7. SuccessorFirst'
    BY <1>1, <1>a, <2>2, <2>3, <2>4 DEF Start, SuccessorFirst, ChainTypes
  <2>8. HasHead'
    BY <1>1, <1>a, <2>4 DEF Start, HasHead
  <2> QED BY <2>5, <2>6, <2>7, <2>8 DEF ChainInv
<1>2. CASE Requeue(w, j)
  <2>1. PICK next \in Job : Enqueue(next, NoKey)
    BY <1>2 DEF Requeue, RequeueKey
  <2>2. /\ state' \in [Job -> {"absent", "queued", "running", "succeeded", "dead"}]
        /\ \A i \in Job : state[i] # "absent" => state'[i] # "absent"
        /\ working' = working /\ state[next] = "absent"
        /\ \A R : next \notin R => \E h \in Job : InFlight(h)' /\ h \notin R
    BY <1>2, <2>1, ChainGrows DEF Requeue
  <2>3. /\ step' \in [Worker -> {"idle", "missing", "requeue", "ok", "transient", "permanent"}]
        /\ step'[w] = "ok" /\ \A v \in Worker \ {w} : step'[v] = step[v]
    BY <1>2, <1>a DEF Requeue, Goto, ChainTypes
  <2>4. <<w, j>> \in working /\ step[w] = "requeue" /\ requeued' = requeued \cup {j}
    BY <1>2 DEF Requeue
  <2>5. state[j] # "absent" /\ next # j /\ next \notin requeued'
    BY <1>a, <2>2, <2>4 DEF OneEach, SuccessorFirst
  <2>6. ChainTypes'
    BY <1>2, <1>a, <2>2, <2>3, <2>4 DEF Requeue, ChainTypes
  <2>7. OneEach'
    BY <1>a, <2>2, <2>3, <2>4 DEF OneEach
  <2>8. SuccessorFirst'
    BY <1>a, <2>2, <2>3, <2>4, <2>5 DEF OneEach, SuccessorFirst, ChainTypes
  <2>9. HasHead'
    BY <2>2, <2>5 DEF HasHead
  <2> QED BY <2>6, <2>7, <2>8, <2>9 DEF ChainInv
<1> QED BY <1>1, <1>2

\* A run ends, or its lease does: what leaves the queue has a successor in it or
\* was given up on.
LEMMA EndStep ==
  ASSUME ChainInv,
         \/ \E j \in Job : Lapse(j)
         \/ \E w \in Worker :
              RequeueFails(w) \/ Crash(w) \/ \E j \in Job : Complete(w, j) \/ Fail(w, j)
  PROVE  ChainInv'
<1>a. ChainTypes /\ OneEach /\ SuccessorFirst /\ HasHead
  BY DEF ChainInv
<1>1. ASSUME NEW j \in Job, Lapse(j) PROVE ChainInv'
  <2>1. /\ state' \in [Job -> {"absent", "queued", "running", "succeeded", "dead"}]
        /\ \A i \in Job : /\ state[i] # "absent" => state'[i] # "absent"
                          /\ InFlight(i) => InFlight(i)' \/ state'[j] = "dead"
        /\ working' = working
    BY <1>1, <1>a DEF Lapse, TakeBack, ChainTypes, InFlight
  <2>2. died' \in BOOLEAN /\ (~ died' => ~ died /\ state'[j] # "dead")
    BY <1>1, <1>a DEF Lapse, ChainTypes
  <2>3. ChainTypes'
    BY <1>1, <1>a, <2>1, <2>2 DEF Lapse, ChainTypes
  <2>4. OneEach' /\ SuccessorFirst'
    BY <1>1, <1>a, <2>1 DEF Lapse, OneEach, SuccessorFirst, ChainTypes
  <2>5. HasHead'
    BY <1>1, <1>a, <2>1, <2>2 DEF Lapse, HasHead
  <2> QED BY <2>3, <2>4, <2>5 DEF ChainInv
<1>2. ASSUME NEW w \in Worker, RequeueFails(w) \/ Crash(w) PROVE ChainInv'
  <2>1. /\ UNCHANGED <<state, requeued, starts, died>>
        /\ working' \in SUBSET working
    BY <1>2 DEF RequeueFails, Crash, Forget, queueVars
  <2>2. \/ RequeueFails(w) /\ step' = [step EXCEPT ![w] = "transient"] /\ step[w] = "requeue"
        \/ Crash(w) /\ step' = [step EXCEPT ![w] = "idle"] /\ \A j \in Job : <<w, j>> \notin working'
    BY <1>2 DEF RequeueFails, Crash, Forget, Goto
  <2>3. ChainTypes'
    BY <1>a, <2>1, <2>2 DEF ChainTypes
  <2>4. OneEach' /\ SuccessorFirst'
    BY <1>a, <2>1, <2>2, ChainKeeps DEF ChainTypes
  <2>5. HasHead'
    BY <1>a, <2>1 DEF HasHead, InFlight
  <2> QED BY <2>3, <2>4, <2>5 DEF ChainInv
<1>3. ASSUME NEW w \in Worker, NEW j \in Job, Complete(w, j) \/ Fail(w, j) PROVE ChainInv'
  <2>1. /\ <<w, j>> \in working /\ <<w, j>> \notin working'
        /\ \A v \in Worker, i \in Job : <<v, i>> \in working' => <<v, i>> \in working
    BY <1>3 DEF Complete, Fail, Settle, Forget
  <2>1a. /\ step' = [step EXCEPT ![w] = "idle"] /\ requeued' = requeued /\ starts' = starts
         /\ died' \in BOOLEAN /\ (died => died')
    BY <1>3, <1>a DEF Complete, Fail, Goto, ChainTypes
  <2>2. /\ state' \in [Job -> {"absent", "queued", "running", "succeeded", "dead"}]
        /\ \A i \in Job : /\ state[i] # "absent" => state'[i] # "absent"
                          /\ i # j => state'[i] = state[i]
    BY <1>3, <1>a DEF Complete, Fail, Settle, Forget, ChainTypes, OneEach
  <2>3. \/ step[w] = "ok"
        \/ died'
        \/ InFlight(j)' \/ state' = state
    BY <1>3, <1>a DEF Complete, Fail, Settle, Forget, ChainTypes, InFlight
  <2>4. \A i \in Job : <<w, i>> \notin working'
    BY <1>a, <2>1 DEF OneEach
  <2>5. ChainTypes'
    BY <1>a, <2>1a, <2>2 DEF ChainTypes
  <2>6. OneEach' /\ SuccessorFirst'
    BY <2>1, <2>1a, <2>2, <2>4, ChainKeeps
  <2>7. HasHead'
    BY <1>a, <2>1, <2>1a, <2>2, <2>3 DEF HasHead, InFlight, SuccessorFirst, ChainTypes
  <2> QED BY <2>5, <2>6, <2>7 DEF ChainInv
<1> QED BY <1>1, <1>2, <1>3

LEMMA ChainStep ==
  ASSUME K # NoKey, ChainInv, [Next]_vars
  PROVE  ChainInv'
BY RowStep, HandStep, EndStep DEF Next, Run

\* The inductive invariant of a chain.
THEOREM ChainInvariance == K # NoKey => (Spec => []ChainInv)
<1>1. SUFFICES ASSUME K # NoKey PROVE Spec => []ChainInv
  OBVIOUS
<1>2. ChainInv /\ [Next]_vars => ChainInv'
  BY <1>1, ChainStep
<1> QED BY <1>2, ChainInitially, PTL DEF Spec

\* A chain a tenant asked for stops only with a job that was given up on: a
\* successor is queued before its predecessor settles, through every crash, lapse
\* and retry.
THEOREM StopsOnlyByDeathAlways == K # NoKey => (Spec => []StopsOnlyByDeath)
<1>1. ChainInv => StopsOnlyByDeath
  BY DEF ChainInv, HasHead, StopsOnlyByDeath, Alive
<1> QED BY <1>1, ChainInvariance, PTL

\* What is or may become a head: a job that has not queued its successor and is in
\* flight or in some worker's hands.  A worker that has seen none in flight may
\* start one more.
Prospects == {j \in Job \ requeued : InFlight(j) \/ \E w \in Worker : <<w, j>> \in working}

Lookers == {w \in Worker : step[w] = "missing"}

Counted ==
  repaired /\ ~ doubled =>
    Cardinality(Prospects) + Cardinality(Lookers) <= Cardinality(Worker)

LEMMA Fewer ==
  ASSUME NEW P, NEW M, IsFiniteSet(P), IsFiniteSet(M), NEW n \in Nat,
         Cardinality(P) + Cardinality(M) <= n,
         NEW P2 \in SUBSET P, NEW M2 \in SUBSET M
  PROVE  Cardinality(P2) + Cardinality(M2) <= n
<1>1. /\ IsFiniteSet(P2) /\ Cardinality(P2) <= Cardinality(P)
      /\ IsFiniteSet(M2) /\ Cardinality(M2) <= Cardinality(M)
  BY FS_Subset
<1>2. /\ Cardinality(P2) \in Nat /\ Cardinality(P) \in Nat
      /\ Cardinality(M2) \in Nat /\ Cardinality(M) \in Nat
  BY <1>1, FS_CardinalityType
<1> QED BY <1>1, <1>2

\* One in, one out: from the same set or from the other.
LEMMA Exchanged ==
  ASSUME NEW P, IsFiniteSet(P), NEW a \in P, NEW b, NEW P2 \in SUBSET ((P \ {a}) \cup {b})
  PROVE  IsFiniteSet(P2) /\ Cardinality(P2) <= Cardinality(P)
<1>1. IsFiniteSet(P \ {a}) /\ Cardinality(P \ {a}) = Cardinality(P) - 1
  BY FS_RemoveElement
<1>2. /\ IsFiniteSet((P \ {a}) \cup {b})
      /\ \/ Cardinality((P \ {a}) \cup {b}) = Cardinality(P \ {a})
         \/ Cardinality((P \ {a}) \cup {b}) = Cardinality(P \ {a}) + 1
  BY <1>1, FS_AddElement
<1>3. IsFiniteSet(P2) /\ Cardinality(P2) <= Cardinality((P \ {a}) \cup {b})
  BY <1>2, FS_Subset
<1>4. Cardinality(P2) \in Nat /\ Cardinality(P) \in Nat
  BY <1>3, FS_CardinalityType
<1> QED BY <1>1, <1>2, <1>3, <1>4

LEMMA Spent ==
  ASSUME NEW P, NEW M, IsFiniteSet(P), IsFiniteSet(M), NEW n \in Nat,
         Cardinality(P) + Cardinality(M) <= n,
         NEW b, NEW P2 \in SUBSET (P \cup {b}), NEW w \in M
  PROVE  Cardinality(P2) + Cardinality(M \ {w}) <= n
<1>1. Cardinality(M \ {w}) = Cardinality(M) - 1
  BY FS_RemoveElement
<1>2. /\ IsFiniteSet(P \cup {b})
      /\ \/ Cardinality(P \cup {b}) = Cardinality(P)
         \/ Cardinality(P \cup {b}) = Cardinality(P) + 1
  BY FS_AddElement
<1>3. IsFiniteSet(P2) /\ Cardinality(P2) <= Cardinality(P \cup {b})
  BY <1>2, FS_Subset
<1>4. Cardinality(P2) \in Nat /\ Cardinality(P) \in Nat /\ Cardinality(M) \in Nat
  BY <1>3, FS_CardinalityType
<1> QED BY <1>1, <1>2, <1>3, <1>4

\* When nothing is in flight, every prospect is in the hands of a worker of its
\* own, and no such worker looks.
LEMMA LooksAfresh ==
  ASSUME IsFiniteSet(Worker), ChainInv, Alive = {},
         NEW M \in SUBSET Worker,
         \A w \in M, j \in Job : <<w, j>> \notin working
  PROVE  Cardinality(Prospects) + Cardinality(M) <= Cardinality(Worker)
<1> DEFINE holder == [j \in Prospects |-> CHOOSE w \in Worker : <<w, j>> \in working]
           Holders == {w \in Worker : w \notin M}
<1>1. \A j \in Prospects : holder[j] \in Worker /\ <<holder[j], j>> \in working
  BY DEF Prospects, Alive
<1>2. \A j \in Prospects : holder[j] \in Holders
  BY <1>1 DEF Prospects
<1>3. \A i, j \in Prospects : holder[i] = holder[j] => i = j
  <2> SUFFICES ASSUME NEW i \in Prospects, NEW j \in Prospects, holder[i] = holder[j]
               PROVE  i = j
    OBVIOUS
  <2> HIDE DEF holder
  <2> QED BY <1>1 DEF ChainInv, OneEach, Prospects
<1>4. holder \in [Prospects -> Holders]
  BY <1>2
<1> HIDE DEF holder
<1>5. holder \in Injection(Prospects, Holders)
  BY <1>3, <1>4, Fun_IsInj
<1>6. IsFiniteSet(M) /\ IsFiniteSet(Holders) /\ IsFiniteSet(Holders \cup M)
  BY FS_Subset
<1>7. Cardinality(Prospects) <= Cardinality(Holders) /\ IsFiniteSet(Prospects)
  BY <1>5, <1>6, FS_Injection
<1>8. Cardinality(Holders \cup M) = Cardinality(Holders) + Cardinality(M)
  <2>1. Holders \cap M = {}
    OBVIOUS
  <2>2. Cardinality(Holders \cap M) = 0
    BY <2>1, FS_EmptySet
  <2>3. Cardinality(Holders) \in Nat /\ Cardinality(M) \in Nat
    BY <1>6, FS_CardinalityType
  <2> HIDE DEF Holders
  <2> QED BY <1>6, <2>2, <2>3, FS_Union
<1>9. Cardinality(Holders \cup M) <= Cardinality(Worker)
  BY FS_Subset
<1>10. /\ Cardinality(Holders) \in Nat /\ Cardinality(M) \in Nat
       /\ Cardinality(Prospects) \in Nat /\ Cardinality(Worker) \in Nat
  BY <1>6, <1>7, FS_CardinalityType
<1> QED BY <1>7, <1>8, <1>9, <1>10

LEMMA CountedStep ==
  ASSUME K # NoKey, IsFiniteSet(Job), IsFiniteSet(Worker), ChainInv, Counted, [Next]_vars
  PROVE  Counted'
<1> SUFFICES ASSUME repaired', ~ doubled'
             PROVE  Cardinality(Prospects') + Cardinality(Lookers') <= Cardinality(Worker)
  BY DEF Counted
<1>a. ChainTypes /\ OneEach /\ SuccessorFirst
  BY DEF ChainInv
<1>b. repaired /\ ~ doubled
  <2>1. CASE \E w \in Worker, j \in Job : Requeue(w, j)
    BY <2>1 DEF Requeue
  <2>2. ASSUME \/ Recycle \/ UNCHANGED vars
               \/ \E j \in Job : Ask(j) \/ Lapse(j)
               \/ \E w \in Worker : Look(w) \/ Repair(w) \/ RequeueFails(w) \/ Crash(w)
               \/ \E w \in Worker, j \in Job : Start(w, j) \/ Complete(w, j) \/ Fail(w, j)
        PROVE  repaired' = repaired /\ doubled' = doubled
    BY <2>2 DEF Recycle, Ask, Lapse, Look, Repair, RequeueFails, Crash, Start, Complete, Fail,
       vars, chainVars
  <2>3. CASE repaired' = repaired /\ doubled' = doubled
    BY <2>3, Zenon
  <2> QED BY <2>1, <2>2, <2>3 DEF Next, Run
<1>c. /\ Cardinality(Prospects) + Cardinality(Lookers) <= Cardinality(Worker)
      /\ IsFiniteSet(Prospects) /\ IsFiniteSet(Lookers) /\ Cardinality(Worker) \in Nat
  BY <1>b, FS_Subset, FS_CardinalityType DEF Counted, Prospects, Lookers
<1>1. CASE Prospects' \in SUBSET Prospects /\ Lookers' \in SUBSET Lookers
  BY <1>1, <1>c, Fewer
<1>2. CASE Recycle
  <2>1. \A j \in Job : InFlight(j)' => InFlight(j)
    BY <1>2, <1>a DEF Recycle, InFlight, ChainTypes
  <2>2. Prospects' \in SUBSET Prospects
    BY <1>2, <2>1 DEF Recycle, Prospects, InFlight
  <2> QED BY <1>1, <1>2, <2>2 DEF Recycle, Lookers
<1>3. ASSUME NEW j \in Job, Ask(j) PROVE FALSE
  BY <1>3, <1>b DEF Ask
<1>4. ASSUME NEW j \in Job, Lapse(j) PROVE Prospects' \in SUBSET Prospects
  <2>1. \A i \in Job : InFlight(i)' => InFlight(i)
    BY <1>4, <1>a DEF Lapse, TakeBack, InFlight, ChainTypes
  <2> QED BY <1>4, <2>1 DEF Lapse, TakeBack, Prospects
<1>5. ASSUME NEW w \in Worker, Look(w)
      PROVE  Cardinality(Prospects') + Cardinality(Lookers') <= Cardinality(Worker)
  <2>1. Prospects' = Prospects
    BY <1>5 DEF Look, queueVars, Prospects, InFlight
  <2>2. /\ Lookers' \in SUBSET Worker
        /\ \A v \in Lookers', j \in Job : <<v, j>> \notin working
    BY <1>5, <1>a DEF Look, Goto, Lookers, OneEach, ChainTypes
  <2> QED BY <1>5, <2>1, <2>2, LooksAfresh DEF Look, Missing
<1>6. ASSUME NEW w \in Worker, Repair(w)
      PROVE  Cardinality(Prospects') + Cardinality(Lookers') <= Cardinality(Worker)
  <2>1. w \in Lookers /\ Lookers' = Lookers \ {w}
    BY <1>6, <1>a DEF Repair, Goto, Lookers, ChainTypes
  <2>2. PICK b \in Job : Prospects' \in SUBSET (Prospects \cup {b})
    <3>1. CASE UNCHANGED queueVars
      BY <1>6, <3>1 DEF Repair, Alive, queueVars, Prospects, InFlight
    <3>2. ASSUME NEW b \in Job, Enqueue(b, K) PROVE Prospects' \in SUBSET (Prospects \cup {b})
      BY <1>6, <3>2, <1>a DEF Repair, Enqueue, Prospects, InFlight, ChainTypes
    <3> QED BY <1>6, <3>1, <3>2 DEF Repair
  <2> QED BY <1>c, <2>1, <2>2, Spent
<1>7. ASSUME NEW w \in Worker, NEW j \in Job, Requeue(w, j)
      PROVE  Cardinality(Prospects') + Cardinality(Lookers') <= Cardinality(Worker)
  <2>1. PICK next \in Job : Enqueue(next, NoKey)
    BY <1>7 DEF Requeue, RequeueKey
  <2>2. j \notin requeued /\ <<w, j>> \in working /\ requeued' = requeued \cup {j}
    BY <1>7 DEF Requeue
  <2>3. j \in Prospects
    BY <2>2 DEF Prospects
  <2>4. Prospects' \in SUBSET ((Prospects \ {j}) \cup {next})
    BY <2>1, <2>2, <1>a DEF Enqueue, Prospects, InFlight, ChainTypes
  <2>5. IsFiniteSet(Prospects') /\ Cardinality(Prospects') <= Cardinality(Prospects)
    BY <1>c, <2>3, <2>4, Exchanged
  <2>6. Lookers' \in SUBSET Lookers
    BY <1>7, <1>a DEF Requeue, Goto, Lookers, ChainTypes
  <2>7. Cardinality(Lookers') <= Cardinality(Lookers) /\ IsFiniteSet(Lookers')
    BY <1>c, <2>6, FS_Subset
  <2>8. /\ Cardinality(Prospects') \in Nat /\ Cardinality(Prospects) \in Nat
        /\ Cardinality(Lookers') \in Nat /\ Cardinality(Lookers) \in Nat
    BY <1>c, <2>5, <2>7, FS_CardinalityType
  <2> QED BY <1>c, <2>5, <2>7, <2>8
<1>8. ASSUME NEW w \in Worker, NEW j \in Job, Start(w, j) \/ Complete(w, j) \/ Fail(w, j)
      PROVE  Prospects' \in SUBSET Prospects /\ Lookers' \in SUBSET Lookers
  <2>1. \A i \in Job : InFlight(i)' => InFlight(i) \/ <<w, i>> \in working
    BY <1>8, <1>a DEF Start, Complete, Fail, Deliver, Settle, Forget, InFlight, ChainTypes
  <2>2. \A v \in Worker, i \in Job : <<v, i>> \in working' => <<v, i>> \in working \/ InFlight(i)
    <3>1. CASE Start(w, j)
      BY <3>1 DEF Start, Deliver, InFlight
    <3>2. CASE Complete(w, j) \/ Fail(w, j)
      BY <3>2 DEF Complete, Fail, Settle, Forget
    <3> QED BY <1>8, <3>1, <3>2
  <2>3. requeued' = requeued
    BY <1>8 DEF Start, Complete, Fail
  <2>4. Lookers' \in SUBSET Lookers
    BY <1>8, <1>a DEF Start, Complete, Fail, Goto, Lookers, ChainTypes
  <2>5. Prospects' \in SUBSET Prospects
    BY <2>1, <2>2, <2>3 DEF Prospects
  <2> QED BY <2>4, <2>5
<1>9. ASSUME NEW w \in Worker, RequeueFails(w) \/ Crash(w)
      PROVE  Prospects' \in SUBSET Prospects /\ Lookers' \in SUBSET Lookers
  BY <1>9, <1>a DEF RequeueFails, Crash, Forget, queueVars, Goto, Prospects, Lookers, InFlight,
     ChainTypes
<1>10. CASE UNCHANGED vars
  BY <1>10, <1>1 DEF vars, queueVars, chainVars, Prospects, Lookers, InFlight
<1>11. ASSUME NEW j \in Job, Lapse(j) PROVE Lookers' \in SUBSET Lookers
  BY <1>11 DEF Lapse, Lookers
<1> QED
  BY <1>1, <1>2, <1>3, <1>4, <1>5, <1>6, <1>7, <1>8, <1>9, <1>10, <1>11 DEF Next, Run

\* Workers that sweep together start at most one chain each while none is in
\* flight, and a chain only doubles beyond that when a redelivered job queues its
\* successor again.
THEOREM RestartsBoundedAlways ==
  K # NoKey /\ IsFiniteSet(Job) /\ IsFiniteSet(Worker) => (Spec => []RestartsBounded)
<1>1. SUFFICES ASSUME K # NoKey, IsFiniteSet(Job), IsFiniteSet(Worker)
               PROVE  Spec => []RestartsBounded
  OBVIOUS
<1>2. Init => Counted
  <2> SUFFICES ASSUME Init PROVE Counted
    OBVIOUS
  <2>1. Prospects = {} /\ Lookers = {}
    BY DEF Init, QueueInit, Prospects, Lookers, InFlight
  <2>2. Cardinality(Worker) \in Nat
    BY <1>1, FS_CardinalityType
  <2> QED BY <2>1, <2>2, FS_EmptySet DEF Counted
<1>3. ChainInv /\ Counted /\ [Next]_vars => Counted'
  BY <1>1, CountedStep
<1>4. Counted => RestartsBounded
  <2> SUFFICES ASSUME Counted, repaired, ~ doubled
               PROVE  Cardinality(Heads) <= Cardinality(Worker)
    BY DEF RestartsBounded
  <2>1. Heads \in SUBSET Prospects /\ Prospects \in SUBSET Job /\ Lookers \in SUBSET Worker
    BY DEF Heads, Alive, Prospects, Lookers
  <2>2. /\ IsFiniteSet(Prospects) /\ IsFiniteSet(Lookers) /\ IsFiniteSet(Heads)
        /\ Cardinality(Heads) <= Cardinality(Prospects)
    BY <1>1, <2>1, FS_Subset
  <2>3. /\ Cardinality(Heads) \in Nat /\ Cardinality(Prospects) \in Nat
        /\ Cardinality(Lookers) \in Nat /\ Cardinality(Worker) \in Nat
    BY <1>1, <2>2, FS_CardinalityType
  <2> QED BY <2>2, <2>3 DEF Counted
<1> QED BY <1>1, <1>2, <1>3, <1>4, ChainInvariance, PTL DEF Spec
============================================================================
