--------------------------- MODULE JobQueueProofs ---------------------------
(***************************************************************************)
(* What JobQueue guarantees for any number of jobs, workers and attempts,   *)
(* and the order in which ClaimOrder claims, for any tenants and batch.     *)
(*                                                                          *)
(* JobQueue.  Types come first, then the conjuncts of IndInv, each from the *)
(* ones before it; the safety theorems read IndInv.                         *)
(*                                                                          *)
(* ClaimOrder.  A LIMIT takes who has fewer than n before it in an order    *)
(* without ties (Orders).  So it takes n at most (FirstAreFew), and all     *)
(* that lead a tenant, if there are no more of them.  How long a job has    *)
(* been passed over is bounded by how many were before it when it fell due, *)
(* since each claim takes one of those (Advances).                          *)
(***************************************************************************)
EXTENDS MCProtocols, FiniteSetTheorems, WellFoundedInduction, TLAPS

USE DEF row, worker

\* Every step of the job table and its workers keeps the types of the columns
\* and of the workers' local state.
LEMMA TypeStep == TypeOK /\ [Next]_vars => TypeOK'
<1> SUFFICES ASSUME TypeOK, [Next]_vars PROVE TypeOK'
  OBVIOUS
<1> USE JobQueueAssumption DEF TypeOK, State, PC
<1>1. ASSUME NEW w \in Worker, ReclaimExpired(w) PROVE TypeOK'
  BY <1>1 DEF ReclaimExpired, Reclaimable, Requeued
<1>2. ASSUME NEW w \in Worker, NEW S \in SUBSET Job, ClaimSelect(w, S) PROVE TypeOK'
  BY <1>2 DEF ClaimSelect
<1>3. ASSUME NEW w \in Worker, ClaimUpdate(w) PROVE TypeOK'
  BY <1>3 DEF ClaimUpdate
<1>4. ASSUME NEW w \in Worker, NEW j \in Job, BeginJob(w, j) PROVE TypeOK'
  BY <1>4 DEF BeginJob
<1>5. ASSUME NEW w \in Worker, EndBatch(w) PROVE TypeOK'
  BY <1>5 DEF EndBatch
<1>6. ASSUME NEW w \in Worker, NEW next \in {"complete", "burn", "fail"},
             HandlerReturns(w, next) PROVE TypeOK'
  BY <1>6 DEF HandlerReturns
<1>7. ASSUME NEW w \in Worker, Complete(w) PROVE TypeOK'
  BY <1>7 DEF Complete, NextInBatch
<1>8. ASSUME NEW w \in Worker, Burn(w) PROVE TypeOK'
  BY <1>8 DEF Burn
<1>9. ASSUME NEW w \in Worker, Fail(w) PROVE TypeOK'
  BY <1>9 DEF Fail, NextInBatch, Requeued
<1>10. ASSUME NEW w \in Worker, Heartbeat(w) PROVE TypeOK'
  BY ZenonT(60), <1>10 DEF Heartbeat
<1>11. ASSUME NEW w \in Worker, FaultStep(w) PROVE TypeOK'
  <2>1. CASE ReclaimError(w)
    BY <2>1 DEF ReclaimError
  <2>2. CASE ClaimError(w)
    BY <2>2 DEF ClaimError
  <2>3. CASE SettleError(w)
    BY <2>3 DEF SettleError, NextInBatch
  <2>4. CASE Crash(w)
    BY <2>4 DEF Crash, EmptyBatch
  <2>5. QED
    BY <1>11, <2>1, <2>2, <2>3, <2>4 DEF FaultStep
<1>12. ASSUME NEW j \in Job, TableStep(j) PROVE TypeOK'
  <2>1. ASSUME NEW k \in Key \cup {NoKey}, Enqueue(j, k) PROVE TypeOK'
    BY <2>1 DEF Enqueue
  <2>2. CASE LeaseLapse(j)
    BY <2>2 DEF LeaseLapse
  <2>3. CASE FallDue(j)
    BY <2>3 DEF FallDue
  <2>4. QED
    BY <1>12, <2>1, <2>2, <2>3 DEF TableStep
<1>13. CASE UNCHANGED vars
  BY <1>13 DEF vars
<1>14. QED
  BY SMTT(60), <1>1, <1>2, <1>3, <1>4, <1>5, <1>6, <1>7, <1>8, <1>9, <1>10, <1>11,
     <1>12, <1>13 DEF Next, Progress
\* Type correctness of every behaviour, for any Job, Worker and Key.
THEOREM TypeCorrect == Spec => []TypeOK
<1>1. Init => TypeOK
  BY JobQueueAssumption DEF Init, TypeOK, State, PC, EmptyBatch
<1>2. QED
  BY <1>1, TypeStep, PTL DEF Spec

----------------------------------------------------------------------------

\* A row is locked exactly while it runs: what claims, settlements and
\* reclaims write to state and locked_by agrees.
LEMMA LeaseStep ==
  TypeOK /\ LeaseCoherent /\ BatchCoherent /\ [Next]_vars => LeaseCoherent'
<1> SUFFICES ASSUME TypeOK, LeaseCoherent, BatchCoherent, [Next]_vars
             PROVE  LeaseCoherent'
  OBVIOUS
<1> USE JobQueueAssumption DEF TypeOK, LeaseCoherent
<1>1. ASSUME NEW w \in Worker, ReclaimExpired(w) PROVE LeaseCoherent'
  BY <1>1 DEF ReclaimExpired, Reclaimable, Requeued
<1>2. ASSUME NEW w \in Worker, ClaimUpdate(w) PROVE LeaseCoherent'
  BY <1>2 DEF ClaimUpdate, Taken
<1>3. ASSUME NEW w \in Worker, Complete(w) PROVE LeaseCoherent'
  BY <1>3 DEF Complete
<1>4. ASSUME NEW w \in Worker, Fail(w) PROVE LeaseCoherent'
  BY <1>4 DEF Fail, Requeued
<1>5. ASSUME NEW j \in Job, NEW k \in Key \cup {NoKey}, Enqueue(j, k) PROVE LeaseCoherent'
  BY <1>5 DEF Enqueue
<1>6. CASE UNCHANGED <<state, lockedBy>>
  BY <1>6
<1>7. QED
  BY <1>1, <1>2, <1>3, <1>4, <1>5, <1>6 DEF Next, Progress, FaultStep, TableStep, vars,
     ClaimSelect, BeginJob, EndBatch, HandlerReturns, Burn, Heartbeat,
     ReclaimError, ClaimError, SettleError, Crash, LeaseLapse, FallDue

\* A worker settles jobs of its own batch and claims with an empty one.
LEMMA BatchStep == TypeOK /\ BatchCoherent /\ [Next]_vars => BatchCoherent'
<1> SUFFICES ASSUME TypeOK, BatchCoherent, [Next]_vars PROVE BatchCoherent'
  OBVIOUS
<1> USE JobQueueAssumption DEF TypeOK, BatchCoherent
<1>1. ASSUME NEW w \in Worker, ReclaimExpired(w) PROVE BatchCoherent'
  BY <1>1 DEF ReclaimExpired
<1>2. ASSUME NEW w \in Worker, NEW S \in SUBSET Job, ClaimSelect(w, S) PROVE BatchCoherent'
  BY <1>2 DEF ClaimSelect
<1>3. ASSUME NEW w \in Worker, ClaimUpdate(w) PROVE BatchCoherent'
  BY <1>3 DEF ClaimUpdate
<1>4. ASSUME NEW w \in Worker, NEW j \in Job, BeginJob(w, j) PROVE BatchCoherent'
  BY <1>4 DEF BeginJob
<1>5. ASSUME NEW w \in Worker, EndBatch(w) PROVE BatchCoherent'
  BY <1>5 DEF EndBatch
<1>6. ASSUME NEW w \in Worker, NEW next \in {"complete", "burn", "fail"},
             HandlerReturns(w, next) PROVE BatchCoherent'
  BY <1>6 DEF HandlerReturns
<1>7. ASSUME NEW w \in Worker, NextInBatch(w) PROVE BatchCoherent'
  BY <1>7 DEF NextInBatch
<1>8. ASSUME NEW w \in Worker, Burn(w) PROVE BatchCoherent'
  BY <1>8 DEF Burn
<1>9. ASSUME NEW w \in Worker, Heartbeat(w) PROVE BatchCoherent'
  BY <1>9 DEF Heartbeat
<1>10. ASSUME NEW w \in Worker, ReclaimError(w) \/ ClaimError(w) PROVE BatchCoherent'
  BY <1>10 DEF ReclaimError, ClaimError
<1>11. ASSUME NEW w \in Worker, Crash(w) PROVE BatchCoherent'
  BY <1>11 DEF Crash
<1>12. CASE UNCHANGED worker
  BY <1>12
<1>13. QED
  BY <1>1, <1>2, <1>3, <1>4, <1>5, <1>6, <1>7, <1>8, <1>9, <1>10, <1>11, <1>12
     DEF Next, Progress, FaultStep, TableStep, vars, Complete, Fail, SettleError,
         Enqueue, LeaseLapse, FallDue

\* The unique index: a step that puts a row in flight checked its key, and
\* the others leave keys alone and put nothing in flight.
LEMMA InFlightStep ==
  TypeOK /\ BatchCoherent /\ OneInFlight /\ [Next]_vars => OneInFlight'
<1> SUFFICES ASSUME TypeOK, BatchCoherent, OneInFlight, [Next]_vars PROVE OneInFlight'
  OBVIOUS
<1> USE JobQueueAssumption DEF TypeOK, OneInFlight, InFlight
<1>1. ASSUME NEW w \in Worker, ReclaimExpired(w) PROVE OneInFlight'
  BY <1>1 DEF ReclaimExpired, Reclaimable, Requeued
<1>2. ASSUME NEW w \in Worker, ClaimUpdate(w) PROVE OneInFlight'
  BY <1>2 DEF ClaimUpdate, Taken
<1>3. ASSUME NEW w \in Worker, Complete(w) PROVE OneInFlight'
  BY <1>3 DEF Complete
<1>4. ASSUME NEW w \in Worker, Fail(w) PROVE OneInFlight'
  BY <1>4 DEF Fail, FailRejected, Conflicts, Requeued, BatchCoherent
<1>5. ASSUME NEW j \in Job, NEW k \in Key \cup {NoKey}, Enqueue(j, k) PROVE OneInFlight'
  BY <1>5 DEF Enqueue, Conflicts
<1>6. CASE UNCHANGED <<state, key>>
  BY <1>6
<1>7. QED
  BY <1>1, <1>2, <1>3, <1>4, <1>5, <1>6 DEF Next, Progress, FaultStep, TableStep, vars,
     ClaimSelect, BeginJob, EndBatch, HandlerReturns, Burn, Heartbeat,
     ReclaimError, ClaimError, SettleError, Crash, LeaseLapse, FallDue

\* Deliveries never outrun the attempts column, and a row that can still be
\* claimed has one left: requeueing tests attempts < max_attempts, and a
\* claim charges what it hands out.
LEMMA ChargedStep ==
  TypeOK /\ BoundedDelivery /\ Charged /\ [Next]_vars => BoundedDelivery' /\ Charged'
<1> SUFFICES ASSUME TypeOK, BoundedDelivery, Charged, [Next]_vars
             PROVE  BoundedDelivery' /\ Charged'
  OBVIOUS
<1> USE JobQueueAssumption DEF TypeOK, BoundedDelivery, Charged
<1>1. ASSUME NEW w \in Worker, ReclaimExpired(w) PROVE BoundedDelivery' /\ Charged'
  BY <1>1 DEF ReclaimExpired, Requeued, Exhausted
<1>2. ASSUME NEW w \in Worker, ClaimUpdate(w) PROVE BoundedDelivery' /\ Charged'
  BY <1>2 DEF ClaimUpdate, Taken
<1>3. ASSUME NEW w \in Worker, Complete(w) PROVE BoundedDelivery' /\ Charged'
  BY <1>3 DEF Complete
<1>4. ASSUME NEW w \in Worker, Burn(w) PROVE BoundedDelivery' /\ Charged'
  BY <1>4 DEF Burn
<1>5. ASSUME NEW w \in Worker, Fail(w) PROVE BoundedDelivery' /\ Charged'
  BY <1>5 DEF Fail, Requeued, Exhausted
<1>6. ASSUME NEW j \in Job, NEW k \in Key \cup {NoKey}, Enqueue(j, k)
      PROVE  BoundedDelivery' /\ Charged'
  BY <1>6 DEF Enqueue
<1>7. CASE UNCHANGED <<state, attempts, claims>>
  BY <1>7
<1>8. QED
  BY <1>1, <1>2, <1>3, <1>4, <1>5, <1>6, <1>7 DEF Next, Progress, FaultStep, TableStep, vars,
     ClaimSelect, BeginJob, EndBatch, HandlerReturns, Heartbeat,
     ReclaimError, ClaimError, SettleError, Crash, LeaseLapse, FallDue

\* No ticket is ahead of a row that may still be claimed.  Burn raises
\* attempts, or lowers them only on a row that cannot be claimed again.
LEMMA TicketsStep ==
  TypeOK /\ Charged /\ TicketsBehind /\ [Next]_vars => TicketsBehind'
<1> SUFFICES ASSUME TypeOK, Charged, TicketsBehind, [Next]_vars PROVE TicketsBehind'
  OBVIOUS
<1> USE JobQueueAssumption DEF TypeOK, TicketsBehind
<1>1. ASSUME NEW w \in Worker, ReclaimExpired(w) PROVE TicketsBehind'
  BY <1>1 DEF ReclaimExpired, Requeued, Exhausted
<1>2. ASSUME NEW w \in Worker, ClaimUpdate(w) PROVE TicketsBehind'
  BY <1>2 DEF ClaimUpdate, Taken
<1>3. ASSUME NEW w \in Worker, Complete(w) PROVE TicketsBehind'
  BY <1>3 DEF Complete, NextInBatch
<1>4. ASSUME NEW w \in Worker, Burn(w) PROVE TicketsBehind'
  BY <1>4 DEF Burn, Charged
<1>5. ASSUME NEW w \in Worker, Fail(w) PROVE TicketsBehind'
  BY <1>5 DEF Fail, Requeued, Exhausted, NextInBatch
<1>6. ASSUME NEW w \in Worker, SettleError(w) PROVE TicketsBehind'
  BY <1>6 DEF SettleError, NextInBatch
<1>7. ASSUME NEW w \in Worker, Crash(w) PROVE TicketsBehind'
  BY <1>7 DEF Crash, EmptyBatch
<1>8. ASSUME NEW j \in Job, NEW k \in Key \cup {NoKey}, Enqueue(j, k) PROVE TicketsBehind'
  BY <1>8 DEF Enqueue
<1>9. CASE UNCHANGED <<state, attempts, ticket>>
  BY <1>9
<1>10. QED
  BY <1>1, <1>2, <1>3, <1>4, <1>5, <1>6, <1>7, <1>8, <1>9
     DEF Next, Progress, FaultStep, TableStep, vars,
     ClaimSelect, BeginJob, EndBatch, HandlerReturns, Heartbeat,
     ReclaimError, ClaimError, LeaseLapse, FallDue

\* The row names the newest ticket: a claim takes a queued row, whose tickets
\* are all behind it, and issues one past its attempts.
LEMMA NewestStep ==
  TypeOK /\ LeaseCoherent /\ TicketsBehind /\ NewestHolds /\ [Next]_vars => NewestHolds'
<1> SUFFICES ASSUME TypeOK, LeaseCoherent, TicketsBehind, NewestHolds, [Next]_vars
             PROVE  NewestHolds'
  OBVIOUS
<1> USE JobQueueAssumption DEF TypeOK, NewestHolds
<1>1. ASSUME NEW w \in Worker, ReclaimExpired(w) PROVE NewestHolds'
  BY <1>1 DEF ReclaimExpired
<1>2. ASSUME NEW w \in Worker, ClaimUpdate(w) PROVE NewestHolds'
  <2> SUFFICES ASSUME NEW j \in Job, NEW u \in Worker, NEW v \in Worker,
                      lockedBy'[j] = u, ticket'[u][j] # 0, v # u
               PROVE  ticket'[v][j] < ticket'[u][j]
    BY <1>2
  <2>1. CASE j \in Taken(w)
    BY <1>2, <2>1 DEF ClaimUpdate, Taken, TicketsBehind
  <2>2. CASE j \notin Taken(w)
    BY <1>2, <2>2 DEF ClaimUpdate
  <2>3. QED
    BY <2>1, <2>2
<1>3. ASSUME NEW w \in Worker, Complete(w) PROVE NewestHolds'
  BY <1>3 DEF Complete, NextInBatch
<1>4. ASSUME NEW w \in Worker, Fail(w) PROVE NewestHolds'
  BY <1>4 DEF Fail, NextInBatch
<1>5. ASSUME NEW w \in Worker, SettleError(w) PROVE NewestHolds'
  BY <1>5 DEF SettleError, NextInBatch
<1>6. ASSUME NEW w \in Worker, Crash(w) PROVE NewestHolds'
  BY <1>6 DEF Crash, EmptyBatch
<1>7. CASE UNCHANGED <<lockedBy, ticket>>
  BY <1>7
<1>8. QED
  BY <1>1, <1>2, <1>3, <1>4, <1>5, <1>6, <1>7 DEF Next, Progress, FaultStep, TableStep, vars,
     ClaimSelect, BeginJob, EndBatch, HandlerReturns, Burn, Heartbeat,
     ReclaimError, ClaimError, Enqueue, LeaseLapse, FallDue

----------------------------------------------------------------------------

\* The inductive invariant holds of every behaviour.
THEOREM Invariance == Spec => []IndInv
<1>1. Init => IndInv
  BY JobQueueAssumption
     DEF Init, IndInv, TypeOK, State, PC, EmptyBatch, LeaseCoherent, BatchCoherent,
         OneInFlight, InFlight, BoundedDelivery, Charged, TicketsBehind, NewestHolds
<1>2. IndInv /\ [Next]_vars => IndInv'
  BY TypeStep, LeaseStep, BatchStep, InFlightStep, ChargedStep, TicketsStep, NewestStep
     DEF IndInv
<1>3. QED
  BY <1>1, <1>2, PTL DEF Spec

\* A (tenant, kind, key) never has two jobs queued or running.
THEOREM Deduplication == Spec => []OneInFlight
BY Invariance, PTL DEF IndInv

\* No job is handed out more than max_attempts times, whatever crashes,
\* lapses and late settlements happen.
THEOREM DeliveriesBounded == Spec => []BoundedDelivery
BY Invariance, PTL DEF IndInv

\* The worker a row names was handed the job last.
THEOREM HolderIsNewest == Spec => []NewestHolds
BY Invariance, PTL DEF IndInv

\* A held job changes hands only through the queue, although a claim's
\* snapshot may be stale by the time its rows are locked.
THEOREM ClaimsExclusive == Spec => NoDoubleClaim
<1> DEFINE Kept == \A j \in Job :
      lockedBy[j] # NoWorker => lockedBy'[j] \in {lockedBy[j], NoWorker}
<1>1. IndInv /\ [Next]_vars => [Kept]_vars
  <2> SUFFICES ASSUME IndInv, [Next]_vars PROVE Kept
    OBVIOUS
  <2> USE DEF IndInv, TypeOK, LeaseCoherent
  <2>1. ASSUME NEW w \in Worker, ReclaimExpired(w) PROVE Kept
    BY <2>1 DEF ReclaimExpired
  <2>2. ASSUME NEW w \in Worker, ClaimUpdate(w) PROVE Kept
    BY <2>2 DEF ClaimUpdate, Taken
  <2>3. ASSUME NEW w \in Worker, Complete(w) \/ Fail(w) PROVE Kept
    BY <2>3 DEF Complete, Fail
  <2>4. CASE UNCHANGED lockedBy
    BY <2>4
  <2>5. QED
    BY <2>1, <2>2, <2>3, <2>4 DEF Next, Progress, FaultStep, TableStep, vars,
       ClaimSelect, BeginJob, EndBatch, HandlerReturns, Burn, Heartbeat,
       ReclaimError, ClaimError, SettleError, Crash, Enqueue, LeaseLapse, FallDue
<1>2. QED
  BY <1>1, Invariance, PTL DEF Spec, NoDoubleClaim

----------------------------------------------------------------------------

\* The history of hand-outs moves as AtLeastOnce says: who is working on what,
\* before and after a worker's batch changes.
LEMMA WorkingMoves ==
  ASSUME TypeOK, NEW w \in Worker
  PROVE  /\ UNCHANGED ticket => UNCHANGED working
         /\ \A j \in Job : TypeOK' /\ ticket' = [ticket EXCEPT ![w][j] = 0]
              => working' = working \ {<<w, j>>}
  BY DEF working, TypeOK, EmptyBatch

\* The table with its leases and statements keeps the promise of AtLeastOnce:
\* each statement is one of its steps, or changes nothing it can see.
THEOREM KeepsPromise == Spec => ImplementsPromise
<1> DEFINE Same == UNCHANGED <<state, key, claims, working>>
<1>1. Init => Promise!QueueInit
  BY DEF Init, EmptyBatch, working, Promise!QueueInit
<1>2. IndInv /\ IndInv' /\ [Next]_vars => [Promise!QueueNext]_(Promise!queueVars)
  <2> SUFFICES ASSUME IndInv, IndInv', [Next]_vars
               PROVE  Promise!QueueNext \/ Same
    BY DEF Promise!queueVars
  <2> USE JobQueueAssumption
  <2>a. TypeOK /\ TypeOK'
    BY DEF IndInv
  <2>1. ASSUME NEW w \in Worker, ReclaimExpired(w) PROVE Promise!QueueNext
    <3> DEFINE J == {j \in Job : Reclaimable(j)}
    <3> DEFINE given == [j \in J |-> Requeued(j)]
    <3>1. given \in [J -> {"queued", "dead"}]
      BY DEF Requeued
    <3>2. \A j \in J : state[j] = "running" /\ (given[j] = "queued" => claims[j] < MaxAttempts)
      BY <2>a DEF IndInv, Charged, TypeOK, Reclaimable, Requeued, Exhausted
    <3>3. state' = [j \in Job |-> IF j \in J THEN given[j] ELSE state[j]]
      BY <2>1 DEF ReclaimExpired
    <3>4. UNCHANGED <<key, claims, working>>
      BY <2>1, <2>a, WorkingMoves DEF ReclaimExpired
    <3>5. Promise!TakeBack(J)
      BY <3>1, <3>2, <3>3, <3>4 DEF Promise!TakeBack
    <3>6. QED
      BY <3>5 DEF Promise!QueueNext
  <2>2. ASSUME NEW w \in Worker, ClaimUpdate(w) PROVE Promise!QueueNext
    <3>1. \A j \in Taken(w) : state[j] = "queued" /\ claims[j] < MaxAttempts
      BY <2>a DEF IndInv, Charged, TypeOK, Taken
    <3>2. \A j \in Job : <<w, j>> \notin working
      BY <2>2 DEF IndInv, BatchCoherent, ClaimUpdate, EmptyBatch, working
    <3>3. working' = working \cup {<<w, j>> : j \in Taken(w)}
      BY <2>2, <2>a, <3>2 DEF ClaimUpdate, working, TypeOK, Taken
    <3>4. Promise!Deliver(w, Taken(w))
      BY <2>2, <3>1, <3>2, <3>3 DEF Promise!Deliver, ClaimUpdate
    <3>5. QED
      BY <3>4, <2>a DEF Promise!QueueNext, Taken, TypeOK
  <2>3. ASSUME NEW w \in Worker, pc[w] \in {"complete", "burn", "fail"}, NextInBatch(w)
        PROVE  /\ cur[w] \in Job
               /\ <<w, cur[w]>> \in working
               /\ working' = working \ {<<w, cur[w]>>}
    <3>1. cur[w] \in Job /\ ticket[w][cur[w]] # 0
      BY <2>3 DEF IndInv, BatchCoherent
    <3>2. QED
      BY <2>3, <2>a, <3>1, WorkingMoves DEF NextInBatch, working
  <2>4. ASSUME NEW w \in Worker, Complete(w) PROVE Promise!QueueNext
    <3>1. Promise!Settle(w, cur[w], "succeeded")
      BY <2>3, <2>4 DEF Complete, Promise!Settle
    <3>2. QED
      BY <2>3, <2>4, <3>1 DEF Promise!QueueNext, Complete
  <2>5. ASSUME NEW w \in Worker, Fail(w) PROVE Promise!QueueNext
    <3>1. cur[w] \in Job /\ Requeued(cur[w]) \in {"queued", "dead"}
      BY <2>3, <2>5 DEF Fail, Requeued
    <3>2. Requeued(cur[w]) = "queued" =>
            claims[cur[w]] < MaxAttempts /\ ~ Promise!Conflicts(cur[w], key[cur[w]])
      BY <2>5, <2>a, <3>1 DEF Fail, FailRejected, Conflicts, InFlight,
         Promise!Conflicts, Promise!InFlight, IndInv, Charged, TypeOK, Requeued, Exhausted
    <3>3. Promise!Settle(w, cur[w], Requeued(cur[w]))
      BY <2>3, <2>5, <3>1, <3>2 DEF Fail, Promise!Settle
    <3>4. QED
      BY <3>1, <3>3 DEF Promise!QueueNext
  <2>6. ASSUME NEW w \in Worker, SettleError(w) PROVE Promise!QueueNext
    <3>1. cur[w] \in Job /\ working' = working \ {<<w, cur[w]>>}
      BY <2>3, <2>6 DEF SettleError
    <3>2. working' = working \ ({w} \X {cur[w]})
      BY <3>1, Z3
    <3>3. Promise!Forget(w, {cur[w]})
      BY <2>6, <3>2 DEF SettleError, Promise!Forget, row
    <3>4. QED
      BY <3>1, <3>3 DEF Promise!QueueNext
  <2>7. ASSUME NEW w \in Worker, Crash(w) PROVE Promise!QueueNext
    <3>1. working' = working \ ({w} \X Job)
      BY <2>7, <2>a DEF Crash, working, TypeOK, EmptyBatch
    <3>2. Promise!Forget(w, Job)
      BY <2>7, <3>1 DEF Crash, Promise!Forget, row
    <3>3. QED
      BY <3>2 DEF Promise!QueueNext
  <2>8. ASSUME NEW j \in Job, NEW k \in Key \cup {NoKey}, Enqueue(j, k)
        PROVE  Promise!QueueNext
    <3>1. UNCHANGED working
      BY <2>8, <2>a DEF Enqueue, working
    <3>2. Promise!Enqueue(j, k)
      BY <2>8, <3>1 DEF Enqueue, Conflicts, InFlight,
         Promise!Enqueue, Promise!Conflicts, Promise!InFlight
    <3>3. QED
      BY <3>2 DEF Promise!QueueNext
  <2>9. CASE UNCHANGED <<state, key, claims, ticket>>
    BY <2>9, <2>a DEF working
  <2>10. QED
    BY <2>1, <2>2, <2>4, <2>5, <2>6, <2>7, <2>8, <2>9
       DEF Next, Progress, FaultStep, TableStep, vars,
           ClaimSelect, BeginJob, EndBatch, HandlerReturns, Burn, Heartbeat,
           ReclaimError, ClaimError, LeaseLapse, FallDue
<1>3. QED
  BY <1>1, <1>2, Invariance, PTL DEF Spec, ImplementsPromise, Promise!QueueSpec

----------------------------------------------------------------------------
(* The claim order.                                                        *)

\* The batch and the ids are numbers, and so are the priorities.
Sizes == Batch \in Nat /\ MaxId \in Nat /\ Priority \subseteq Int

LEMMA CountIs == \A S : Claims!Cardinality(S) = Cardinality(S)
BY DEF Claims!Cardinality, Cardinality

\* R has what is before each element of S, in one order.
Orders(R, S) ==
  /\ \A r \in S : R[r] \subseteq S /\ r \notin R[r]
  /\ \A r, s \in S : s \in R[r] => R[s] \subseteq R[r]
  /\ \A r, s \in S : r # s => r \in R[s] \/ s \in R[r]

LEMMA FewerBefore ==
  ASSUME NEW S, NEW R, IsFiniteSet(S), Orders(R, S), NEW r \in S, NEW s \in R[r]
  PROVE  /\ Cardinality(R[s]) < Cardinality(R[r])
         /\ Cardinality(R[s]) \in Nat /\ Cardinality(R[r]) \in Nat
<1>1. s \in S /\ R[s] \subseteq R[r] /\ s \notin R[s] /\ R[r] \subseteq S
  BY DEF Orders
<1>2. IsFiniteSet(R[r]) /\ IsFiniteSet(R[s])
  BY <1>1, FS_Subset
<1>3. R[s] # R[r]
  BY <1>1
<1>4. Cardinality(R[s]) <= Cardinality(R[r]) /\ Cardinality(R[s]) # Cardinality(R[r])
  BY <1>1, <1>2, <1>3, FS_Subset
<1> QED BY <1>2, <1>4, FS_CardinalityType

\* The first n are not more than n.
LEMMA FirstAreFew ==
  ASSUME NEW S, NEW R, IsFiniteSet(S), Orders(R, S), NEW n \in Nat
  PROVE  Cardinality({r \in S : Cardinality(R[r]) < n}) <= n
<1> DEFINE T == {r \in S : Cardinality(R[r]) < n}
           rank == [r \in T |-> Cardinality(R[r]) + 1]
<1>1. \A r \in S : Cardinality(R[r]) \in Nat
  <2> TAKE r \in S
  <2>1. IsFiniteSet(R[r])
    BY FS_Subset DEF Orders
  <2> QED BY <2>1, FS_CardinalityType
<1>2. rank \in [T -> 1..n]
  BY <1>1
<1>3. ASSUME NEW r \in T, NEW s \in T, r # s PROVE rank[r] # rank[s]
  <2>1. r \in R[s] \/ s \in R[r]
    BY <1>3 DEF Orders
  <2> QED BY <1>1, <2>1, FewerBefore
<1>4. rank \in Injection(T, 1..n)
  <2> HIDE DEF T, rank
  <2> QED BY <1>2, <1>3 DEF Injection, IsInjective
<1>5. IsFiniteSet(1..n) /\ Cardinality(1..n) = n
  BY FS_Interval
<1> HIDE DEF T, rank
<1>6. Cardinality(T) <= n
  BY <1>4, <1>5, FS_Injection
<1> QED BY <1>6 DEF T

\* What is before something has a first.
LEMMA FirstOfAll ==
  ASSUME NEW S, NEW R, IsFiniteSet(S), Orders(R, S), NEW r \in S, R[r] # {}
  PROVE  \E s \in R[r] : R[s] = {}
<1> DEFINE N == {Cardinality(R[s]) : s \in R[r]}
<1>1. \A s \in R[r] : s \in S /\ Cardinality(R[s]) \in Nat
  BY FewerBefore DEF Orders
<1>2. N \subseteq Nat /\ N # {}
  BY <1>1
<1>3. PICK k \in N : \A m \in N : ~ (<<m, k>> \in OpToRel(<, Nat))
  <2> HIDE DEF N
  <2> QED BY <1>2, NatLessThanWellFounded, WFMin, Zenon
<1>4. PICK s \in R[r] : k = Cardinality(R[s])
  BY <1>3
<1>5. ASSUME NEW t \in R[s] PROVE FALSE
  <2>1. t \in R[r]
    BY <1>1, <1>4, <1>5 DEF Orders
  <2>2. Cardinality(R[t]) < Cardinality(R[s]) /\ Cardinality(R[t]) \in Nat
    BY <1>1, <1>4, <1>5, FewerBefore
  <2>3. Cardinality(R[t]) \in N
    BY <2>1
  <2> QED BY <1>1, <1>2, <1>3, <1>4, <2>2, <2>3 DEF OpToRel
<1> QED BY <1>4, <1>5


LEMMA BeforeIs ==
  /\ \A a, b, c, d : Claims!Before(<<a, b>>, <<c, d>>) <=> a < c \/ (a = c /\ b < d)
  /\ \A a, b, c, d, e, f : Claims!Before(<<a, b, c>>, <<d, e, f>>) <=>
       a < d \/ (a = d /\ (b < e \/ (b = e /\ c < f)))
  /\ \A a, b, c, d, e, f, g, h : Claims!Before(<<a, b, c, d>>, <<e, f, g, h>>) <=>
       a < e \/ (a = e /\ (b < f \/ (b = f /\ (c < g \/ (c = g /\ d < h)))))
<1>1. ASSUME NEW a, NEW b, NEW c, NEW d
      PROVE  Claims!Before(<<a, b>>, <<c, d>>) <=> a < c \/ (a = c /\ b < d)
  <2>1. DOMAIN <<a, b>> = {1, 2} /\ 1..0 = {} /\ 1..1 = {1}
    OBVIOUS
  <2> QED BY <2>1 DEF Claims!Before
<1>2. ASSUME NEW a, NEW b, NEW c, NEW d, NEW e, NEW f
      PROVE  Claims!Before(<<a, b, c>>, <<d, e, f>>) <=>
               a < d \/ (a = d /\ (b < e \/ (b = e /\ c < f)))
  <2>1. DOMAIN <<a, b, c>> = {1, 2, 3} /\ 1..0 = {} /\ 1..1 = {1} /\ 1..2 = {1, 2}
    OBVIOUS
  <2> QED BY <2>1 DEF Claims!Before
<1>3. ASSUME NEW a, NEW b, NEW c, NEW d, NEW e, NEW f, NEW g, NEW h
      PROVE  Claims!Before(<<a, b, c, d>>, <<e, f, g, h>>) <=>
               a < e \/ (a = e /\ (b < f \/ (b = f /\ (c < g \/ (c = g /\ d < h)))))
  <2>1. /\ DOMAIN <<a, b, c, d>> = {1, 2, 3, 4}
        /\ 1..0 = {} /\ 1..1 = {1} /\ 1..2 = {1, 2} /\ 1..3 = {1, 2, 3}
    OBVIOUS
  <2> QED BY <2>1 DEF Claims!Before
<1> QED BY <1>1, <1>2, <1>3

ClaimTypes ==
  /\ rows \subseteq [id : Claims!Id, tenant : Customer, priority : Priority, run_after : Nat]
  /\ IsFiniteSet(rows)
  /\ moment \in Nat /\ lastId \in Nat
  /\ ahead \in [Claims!Id -> Nat] /\ waited \in [Claims!Id -> Nat]

\* A row has its id for itself.
IdsDiffer ==
  /\ \A r \in rows : r.id <= lastId
  /\ \A r, s \in rows : r.id = s.id => r = s

Backs == {r \in Claims!Eligible : Claims!Background(r)}

OldestFirst ==
  [r \in Backs |-> {s \in Backs : Claims!Before(<<s.run_after, s.id>>, <<r.run_after, r.id>>)}]

Others == Claims!Eligible \ Claims!Starved

RankFirst ==
  [r \in Others |->
    {s \in Others : Claims!Before(<<Claims!rn(s), s.priority, s.run_after, s.id>>,
                           <<Claims!rn(r), r.priority, r.run_after, r.id>>)}]

LEMMA RowsAreFinite ==
  ASSUME ClaimTypes
  PROVE  /\ IsFiniteSet(Claims!Eligible) /\ IsFiniteSet(Backs) /\ IsFiniteSet(Others)
         /\ Claims!Eligible \subseteq rows
<1>1. Claims!Eligible \subseteq rows /\ Backs \subseteq rows /\ Others \subseteq rows
  BY DEF Claims!Eligible, Claims!Due, Backs, Others
<1> QED BY <1>1, FS_Subset DEF ClaimTypes

LEMMA ColumnsAreNumbers ==
  ASSUME Sizes, ClaimTypes, NEW r \in Claims!Eligible
  PROVE  r.priority \in Int /\ r.run_after \in Nat /\ r.id \in Nat
<1>1. r \in [id : Claims!Id, tenant : Customer, priority : Priority, run_after : Nat]
  BY RowsAreFinite DEF ClaimTypes
<1>2. r.priority \in Priority /\ r.run_after \in Nat /\ r.id \in Claims!Id
  BY <1>1
<1>3. r.priority \in Int
  BY <1>2 DEF Sizes
<1>4. r.id \in Nat
  BY <1>2 DEF Sizes, Claims!Id
<1> QED BY <1>2, <1>3, <1>4

LEMMA RanksCount ==
  ASSUME ClaimTypes, NEW r
  PROVE  Claims!rn(r) \in Nat /\ Claims!rn(r) >= 1
<1> DEFINE S == {s \in Claims!Eligible : s.tenant = r.tenant /\
                   Claims!Before(<<s.priority, s.run_after, s.id>>,
                                 <<r.priority, r.run_after, r.id>>)}
<1>1. IsFiniteSet(S)
  BY RowsAreFinite, FS_Subset
<1>2. Cardinality(S) \in Nat
  BY <1>1, FS_CardinalityType
<1>3. Claims!rn(r) = 1 + Cardinality(S)
  BY CountIs DEF Claims!rn
<1> HIDE DEF S
<1> QED BY <1>2, <1>3

LEMMA OldestOrders ==
  ASSUME Sizes, ClaimTypes, IdsDiffer
  PROVE  Orders(OldestFirst, Backs)
<1>1. \A r, s \in Backs : s \in OldestFirst[r] <=>
        s.run_after < r.run_after \/ (s.run_after = r.run_after /\ s.id < r.id)
  BY BeforeIs DEF OldestFirst
<1>2. \A r \in Backs : /\ r.run_after \in Nat /\ r.id \in Nat
                       /\ OldestFirst[r] \subseteq Backs
  BY ColumnsAreNumbers DEF Backs, OldestFirst
<1>3. \A r, s \in Backs : r.id = s.id => r = s
  BY RowsAreFinite DEF IdsDiffer, Backs
<1> HIDE DEF OldestFirst
<1> QED BY <1>1, <1>2, <1>3 DEF Orders

LEMMA RanksOrder ==
  ASSUME Sizes, ClaimTypes, IdsDiffer
  PROVE  Orders(RankFirst, Others)
<1>1. \A r, s \in Others : s \in RankFirst[r] <=>
        \/ Claims!rn(s) < Claims!rn(r)
        \/ /\ Claims!rn(s) = Claims!rn(r)
           /\ \/ s.priority < r.priority
              \/ /\ s.priority = r.priority
                 /\ \/ s.run_after < r.run_after
                    \/ s.run_after = r.run_after /\ s.id < r.id
  BY BeforeIs DEF RankFirst
<1>2. \A r \in Others : /\ r.run_after \in Nat /\ r.id \in Nat /\ r.priority \in Int
                        /\ Claims!rn(r) \in Nat /\ RankFirst[r] \subseteq Others
  BY ColumnsAreNumbers, RanksCount DEF Others, RankFirst
<1>3. \A r, s \in Others : r.id = s.id => r = s
  BY RowsAreFinite DEF IdsDiffer, Others
<1> QED BY <1>1, <1>2, <1>3 DEF Orders

LEMMA PickedAre ==
  /\ Claims!Starved = {r \in Backs : Cardinality(OldestFirst[r]) < Claims!Reserve}
  /\ Claims!Urgent =
       {r \in Others : Cardinality(RankFirst[r]) < Batch - Cardinality(Claims!Starved)}
<1>1. Claims!Starved = {r \in Backs : Cardinality(OldestFirst[r]) < Claims!Reserve}
  BY CountIs DEF Claims!Starved, Claims!First, Backs, OldestFirst
<1>2. Claims!Urgent =
       {r \in Others : Cardinality(RankFirst[r]) < Batch - Cardinality(Claims!Starved)}
  BY CountIs DEF Claims!Urgent, Claims!First, Others, RankFirst
<1> QED BY <1>1, <1>2

LEMMA ReserveFits ==
  ASSUME Sizes
  PROVE  Claims!Reserve \in Nat /\ (Batch > 1 => Claims!Reserve >= 1 /\ Claims!Reserve < Batch)
BY DEF Sizes, Claims!Reserve

\* The claim's promise to a tenant's first job, in a state.
LEMMA FirstIsPicked ==
  ASSUME Sizes, ClaimTypes, IdsDiffer
  PROVE  QuietTenantServed
<1> DEFINE T == {r.tenant : r \in Claims!Eligible}
<1> SUFFICES ASSUME Cardinality(T) <= Batch - Claims!Reserve,
                    NEW r \in Claims!Eligible, Claims!rn(r) = 1, r \notin Claims!Starved
             PROVE  r \in Claims!Urgent
  BY CountIs DEF QuietTenantServed, Claims!QuietTenantServed, Claims!Picked
<1>1. r \in Others /\ Orders(RankFirst, Others)
  BY RanksOrder DEF Others
<1> DEFINE P == RankFirst[r]
<1>2. \A s \in P : s \in Others /\ s \in Claims!Eligible /\ Claims!rn(s) = 1
  <2>1. \A s \in P :
          s \in Others /\ (Claims!rn(s) < Claims!rn(r) \/ Claims!rn(s) = Claims!rn(r))
    BY <1>1, BeforeIs DEF RankFirst
  <2> QED BY <2>1, RanksCount DEF Others
\* Those whose rank is one are of different tenants.
<1>3. ASSUME NEW s \in Claims!Eligible, NEW t \in Claims!Eligible,
             Claims!rn(s) = 1, Claims!rn(t) = 1, s.tenant = t.tenant
      PROVE  s = t
  <2>1. \A x, y \in Claims!Eligible : x.tenant = y.tenant /\ Claims!rn(y) = 1 =>
          ~ Claims!Before(<<x.priority, x.run_after, x.id>>, <<y.priority, y.run_after, y.id>>)
    <3> TAKE x, y \in Claims!Eligible
    <3> DEFINE S == {z \in Claims!Eligible : z.tenant = y.tenant /\
                      Claims!Before(<<z.priority, z.run_after, z.id>>,
                             <<y.priority, y.run_after, y.id>>)}
    <3>1. Claims!rn(y) = 1 + Cardinality(S)
      BY CountIs DEF Claims!rn
    <3>2. IsFiniteSet(S)
      BY RowsAreFinite, FS_Subset
    <3>3. Claims!rn(y) = 1 => S = {}
      <4> HIDE DEF S
      <4> QED BY <3>1, <3>2, FS_EmptySet, FS_CardinalityType
    <3> QED BY <3>3
  <2>2. \A x \in Claims!Eligible : x.priority \in Int /\ x.run_after \in Int /\ x.id \in Int
    BY ColumnsAreNumbers
  <2>3. /\ ~ Claims!Before(<<s.priority, s.run_after, s.id>>, <<t.priority, t.run_after, t.id>>)
        /\ ~ Claims!Before(<<t.priority, t.run_after, t.id>>, <<s.priority, s.run_after, s.id>>)
    BY <1>3, <2>1
  <2>4. s.id = t.id
    BY <2>2, <2>3, BeforeIs
  <2> QED BY <2>4, RowsAreFinite DEF IdsDiffer
<1> DEFINE tenant == [s \in P |-> s.tenant]
<1>4. tenant \in Injection(P, T \ {r.tenant})
  <2>1. \A s \in P : s # r
    BY <1>1 DEF Orders
  <2>2. tenant \in [P -> T \ {r.tenant}]
    BY <1>2, <1>3, <2>1
  <2>3. \A s, t \in P : tenant[s] = tenant[t] => s = t
    BY <1>2, <1>3
  <2> HIDE DEF tenant, P, T
  <2> QED BY <2>2, <2>3 DEF Injection, IsInjective
<1>5. IsFiniteSet(T)
  <2>1. [s \in Claims!Eligible |-> s.tenant] \in Surjection(Claims!Eligible, T)
    BY DEF Surjection
  <2> HIDE DEF T
  <2> QED BY <2>1, RowsAreFinite, FS_Surjection
<1>6. IsFiniteSet(T \ {r.tenant}) /\ Cardinality(T \ {r.tenant}) = Cardinality(T) - 1
  <2>1. r.tenant \in T
    OBVIOUS
  <2> HIDE DEF T
  <2> QED BY <1>5, <2>1, FS_RemoveElement
<1>7. Cardinality(P) <= Cardinality(T) - 1
  <2> HIDE DEF T, P, tenant
  <2> QED BY <1>4, <1>6, FS_Injection
<1>8. Cardinality(Claims!Starved) <= Claims!Reserve /\ Cardinality(Claims!Starved) \in Nat
  <2>1. Claims!Starved \subseteq Backs
    BY PickedAre
  <2>2. IsFiniteSet(Claims!Starved)
    BY <2>1, RowsAreFinite, FS_Subset
  <2>3. Cardinality(Claims!Starved) <= Claims!Reserve
    BY FirstAreFew, OldestOrders, ReserveFits, RowsAreFinite, PickedAre
  <2> QED BY <2>2, <2>3, FS_CardinalityType
<1>9. Cardinality(P) \in Nat /\ Cardinality(T) \in Nat
  <2>1. P \subseteq Others
    BY <1>2
  <2>2. IsFiniteSet(P)
    BY <2>1, RowsAreFinite, FS_Subset
  <2> HIDE DEF P, T
  <2> QED BY <1>5, <2>2, FS_CardinalityType
<1>10. Cardinality(P) < Batch - Cardinality(Claims!Starved)
  <2> HIDE DEF P, T
  <2> QED BY <1>7, <1>8, <1>9, ReserveFits DEF Sizes
<1> QED BY <1>1, <1>10, PickedAre


\* A background row that is due has had as many claims pass it over as there were
\* rows before it that are gone.
Advances ==
  Batch > 1 => \A r \in Backs : waited[r.id] + Claims!Backlog(Claims!Eligible, r) <= ahead[r.id]

\* What is not due has not been passed over, nor what is not there.
NotYetPassed ==
  /\ \A r \in rows \ Claims!Eligible : waited[r.id] = 0
  /\ \A i \in Claims!Id : i > lastId => waited[i] = 0

ClaimInv == ClaimTypes /\ IdsDiffer /\ NotYetPassed /\ Advances

LEMMA BacklogIs ==
  ASSUME ClaimTypes, NEW r \in Backs
  PROVE  /\ Claims!Backlog(Claims!Eligible, r) = Cardinality(OldestFirst[r])
         /\ Claims!Backlog(Claims!Eligible, r) \in Nat
<1>1. Claims!Backlog(Claims!Eligible, r) = Cardinality(OldestFirst[r])
  <2>1. OldestFirst[r] = {s \in Claims!Eligible : Claims!Background(s) /\
                 Claims!Before(<<s.run_after, s.id>>, <<r.run_after, r.id>>)}
    BY DEF Backs, OldestFirst
  <2> QED BY <2>1, CountIs DEF Claims!Backlog
<1>2. OldestFirst[r] \subseteq Backs
  BY DEF OldestFirst
<1>3. IsFiniteSet(OldestFirst[r])
  BY <1>2, RowsAreFinite, FS_Subset
<1> QED BY <1>1, <1>3, FS_CardinalityType

LEMMA ClaimStep ==
  ASSUME Sizes, ClaimInv, Claims!Claim
  PROVE  ClaimInv'
<1>1. /\ rows' \subseteq rows /\ rows' = rows \ Claims!Picked
      /\ Claims!Eligible' = Claims!Eligible \ Claims!Picked
  BY DEF Claims!Claim, Claims!Eligible, Claims!Due
<1>2. ClaimTypes'
  <2>1. IsFiniteSet(rows')
    BY <1>1, FS_Subset DEF ClaimInv, ClaimTypes
  <2>2. waited' \in [Claims!Id -> Nat]
    BY DEF ClaimInv, ClaimTypes, Claims!Claim
  <2> QED BY <1>1, <2>1, <2>2 DEF ClaimInv, ClaimTypes, Claims!Claim
<1>3. IdsDiffer'
  BY <1>1 DEF ClaimInv, IdsDiffer, Claims!Claim
<1>4. \A i \in Claims!Id : waited'[i] # waited[i] =>
        \E r \in Claims!Eligible \ Claims!Picked : r.id = i
  BY DEF Claims!Claim, ClaimInv, ClaimTypes
<1>5. NotYetPassed'
  <2>1. ASSUME NEW r \in rows' \ Claims!Eligible' PROVE waited'[r.id] = 0
    <3>1. r \in rows \ Claims!Eligible /\ r.id \in Claims!Id
      BY <1>1, <2>1 DEF ClaimInv, ClaimTypes
    <3>2. waited'[r.id] = waited[r.id]
      BY <1>4, <3>1, RowsAreFinite DEF ClaimInv, IdsDiffer
    <3> QED BY <3>1, <3>2 DEF ClaimInv, NotYetPassed
  <2>2. ASSUME NEW i \in Claims!Id, i > lastId' PROVE waited'[i] = 0
    <3>1. \A r \in rows : r.id \in Nat /\ r.id <= lastId
      BY DEF ClaimInv, ClaimTypes, IdsDiffer, Claims!Id, Sizes
    <3>2. waited'[i] = waited[i]
      BY SMTT(60), <1>4, <2>2, <3>1, RowsAreFinite DEF ClaimInv, ClaimTypes, Claims!Claim,
         Claims!Id, Sizes
    <3> QED BY <2>2, <3>2 DEF ClaimInv, NotYetPassed, Claims!Claim
  <2> QED BY <2>1, <2>2 DEF NotYetPassed
<1>6. ASSUME Batch > 1, NEW r \in Backs'
      PROVE  waited'[r.id] + Claims!Backlog(Claims!Eligible', r) <= ahead'[r.id]
  <2>1. r \in Backs /\ r \in Claims!Eligible \ Claims!Picked /\ r.id \in Claims!Id
    BY <1>1, <1>6, RowsAreFinite DEF Backs, ClaimInv, ClaimTypes
  <2>2. waited'[r.id] = waited[r.id] + 1 /\ ahead' = ahead
    BY <2>1 DEF Claims!Claim
  <2>3. Orders(OldestFirst, Backs) /\ IsFiniteSet(Backs)
    BY OldestOrders, RowsAreFinite DEF ClaimInv
  <2>4. Cardinality(OldestFirst[r]) >= Claims!Reserve /\ Cardinality(OldestFirst[r]) \in Nat
    BY <2>1, PickedAre, BacklogIs, ReserveFits DEF Claims!Picked, ClaimInv
  <2>5. OldestFirst[r] # {}
    BY <1>6, <2>4, ReserveFits, FS_EmptySet
  <2>6. PICK s \in OldestFirst[r] : OldestFirst[s] = {}
    BY <2>1, <2>3, <2>5, FirstOfAll
  <2>7. s \in Backs /\ s \in Claims!Picked
    <3>1. s \in Backs
      BY <2>1, <2>3 DEF Orders
    <3>2. Cardinality(OldestFirst[s]) < Claims!Reserve
      BY <1>6, <2>6, ReserveFits, FS_EmptySet
    <3> QED BY <3>1, <3>2, PickedAre DEF Claims!Picked
  <2> DEFINE rest == {t \in Claims!Eligible' : Claims!Background(t) /\
                        Claims!Before(<<t.run_after, t.id>>, <<r.run_after, r.id>>)}
  <2>8. rest \subseteq OldestFirst[r] \ {s}
    BY <1>1, <2>1, <2>7 DEF OldestFirst, Backs
  <2>9. IsFiniteSet(OldestFirst[r])
    BY <2>1, <2>3, FS_Subset DEF Orders
  <2>10. /\ IsFiniteSet(OldestFirst[r] \ {s})
         /\ Cardinality(OldestFirst[r] \ {s}) = Cardinality(OldestFirst[r]) - 1
    BY <2>6, <2>9, FS_RemoveElement
  <2>11. Cardinality(rest) <= Cardinality(OldestFirst[r]) - 1 /\ Cardinality(rest) \in Nat
    <3> HIDE DEF rest
    <3> QED BY <2>8, <2>10, FS_Subset, FS_CardinalityType
  <2>12. Claims!Backlog(Claims!Eligible', r) = Cardinality(rest)
    BY CountIs DEF Claims!Backlog
  <2>13. waited[r.id] + Cardinality(OldestFirst[r]) <= ahead[r.id]
    BY <1>6, <2>1, BacklogIs DEF ClaimInv, Advances
  <2>14. waited[r.id] \in Nat /\ ahead[r.id] \in Nat
    BY <2>1 DEF ClaimInv, ClaimTypes
  <2> HIDE DEF rest
  <2> QED BY <2>2, <2>4, <2>11, <2>12, <2>13, <2>14
<1>7. Advances'
  BY <1>6 DEF Advances
<1> QED BY <1>2, <1>3, <1>5, <1>7 DEF ClaimInv

\* Rows are added and time passes: rows fall due after those that were.
Later ==
  /\ rows \subseteq rows' /\ moment <= moment' /\ lastId <= lastId' /\ waited' = waited
  /\ rows' \subseteq [id : Claims!Id, tenant : Customer, priority : Priority, run_after : Nat]
  /\ IsFiniteSet(rows') /\ moment' \in Nat /\ lastId' \in Nat /\ IdsDiffer'
  /\ \A s \in rows' \ rows : s.id > lastId /\ s.run_after >= moment

LEMMA StaysDue ==
  ASSUME Sizes, ClaimInv, Later, NEW s \in Claims!Eligible
  PROVE  s \in Claims!Eligible'
<1>1. s \in rows /\ s.run_after <= moment
  BY DEF Claims!Eligible, Claims!Due
<1>2. s.run_after \in Nat
  BY ColumnsAreNumbers DEF ClaimInv
<1>3. moment \in Nat /\ moment' \in Nat /\ moment <= moment' /\ s \in rows'
  BY <1>1 DEF Later, ClaimInv, ClaimTypes
<1>4. s.run_after <= moment'
  BY <1>1, <1>2, <1>3
<1> QED BY <1>3, <1>4 DEF Claims!Eligible, Claims!Due

LEMMA LaterIsBehind ==
  ASSUME Sizes, ClaimInv, Later, NEW r \in Claims!Eligible
  PROVE  Claims!Backlog(Claims!Eligible', r) = Claims!Backlog(Claims!Eligible, r)
<1>1. Claims!Eligible \subseteq Claims!Eligible'
  BY StaysDue
<1>2. ASSUME NEW s \in Claims!Eligible' \ Claims!Eligible
      PROVE  ~ Claims!Before(<<s.run_after, s.id>>, <<r.run_after, r.id>>)
  <2>1. s \in rows' /\ s.run_after \in Nat /\ s.id \in Nat
    BY <1>2 DEF Claims!Eligible, Claims!Due, Later, Claims!Id, Sizes
  <2>2. r.run_after <= moment /\ r.id <= lastId /\ r.run_after \in Nat /\ r.id \in Nat
    BY ColumnsAreNumbers, RowsAreFinite DEF Claims!Eligible, Claims!Due, ClaimInv,
       IdsDiffer
  <2>3. moment \in Nat /\ lastId \in Nat
    BY DEF ClaimInv, ClaimTypes
  <2>4. CASE s \in rows
    <3>1. s.run_after > moment
      BY <1>2, <2>1, <2>3, <2>4 DEF Claims!Eligible, Claims!Due
    <3> QED BY <2>1, <2>2, <2>3, <3>1, BeforeIs
  <2>5. CASE s \notin rows
    <3>1. s.id > lastId /\ s.run_after >= moment
      BY <2>1, <2>5 DEF Later
    <3> QED BY <2>1, <2>2, <2>3, <3>1, BeforeIs
  <2> QED BY <2>4, <2>5
<1> QED BY <1>1, <1>2 DEF Claims!Backlog

LEMMA FallStep ==
  ASSUME Sizes, ClaimInv, Later, Claims!FallDue
  PROVE  ClaimInv'
<1>1. /\ IsFiniteSet(Claims!Eligible') /\ Claims!Eligible' \subseteq rows'
      /\ Claims!Eligible' = Claims!Due(rows', moment')
  <2>1. Claims!Eligible' = Claims!Due(rows', moment') /\ Claims!Eligible' \subseteq rows'
    BY DEF Claims!Eligible, Claims!Due
  <2> QED BY <2>1, FS_Subset DEF Later
<1>2. \A r : Claims!Backlog(Claims!Eligible', r) \in Nat
  <2> TAKE r
  <2> DEFINE B == {s \in Claims!Eligible' : Claims!Background(s) /\
                     Claims!Before(<<s.run_after, s.id>>, <<r.run_after, r.id>>)}
  <2>1. IsFiniteSet(B)
    BY <1>1, FS_Subset
  <2>2. Cardinality(B) \in Nat
    BY <2>1, FS_CardinalityType
  <2> QED BY <2>2, CountIs DEF Claims!Backlog
<1> DEFINE found(i) == \E r \in Claims!Eligible' \ Claims!Eligible : r.id = i
<1>3. ahead' = [i \in Claims!Id |->
        IF found(i) THEN Claims!Backlog(Claims!Eligible', CHOOSE r \in Claims!Eligible' : r.id = i)
                    ELSE ahead[i]]
  BY <1>1 DEF Claims!FallDue
<1> HIDE DEF found
<1>4. ClaimTypes'
  <2>1. ahead' \in [Claims!Id -> Nat]
    BY <1>2, <1>3 DEF ClaimInv, ClaimTypes
  <2> QED BY <2>1 DEF Later, ClaimTypes, ClaimInv
<1>5. \A r \in rows' : r.id \in Claims!Id /\ (r \in rows => r.id <= lastId)
  BY DEF Later, ClaimInv, IdsDiffer
<1>6. \A r \in rows' \ Claims!Eligible : waited[r.id] = 0
  <2> TAKE r \in rows' \ Claims!Eligible
  <2>1. CASE r \in rows
    BY <2>1 DEF ClaimInv, NotYetPassed
  <2>2. CASE r \notin rows
    BY <1>5, <2>2 DEF ClaimInv, NotYetPassed, Later
  <2> QED BY <2>1, <2>2
<1>7. NotYetPassed'
  <2>1. Claims!Eligible \subseteq Claims!Eligible'
    BY StaysDue
  <2>2. \A i \in Claims!Id : i > lastId' => i > lastId
    BY DEF Later, ClaimInv, ClaimTypes, Claims!Id, Sizes
  <2> QED BY <1>6, <2>1, <2>2 DEF NotYetPassed, Later, ClaimInv
<1>8. ASSUME Batch > 1, NEW r \in Backs'
      PROVE  waited'[r.id] + Claims!Backlog(Claims!Eligible', r) <= ahead'[r.id]
  <2>1. r \in Claims!Eligible' /\ r \in rows' /\ r.id \in Claims!Id
    BY <1>1, <1>5 DEF Backs
  <2>2. \A s \in Claims!Eligible' : s.id = r.id => s = r
    BY <1>1, <2>1 DEF Later, IdsDiffer
  <2>3. CASE r \in Claims!Eligible
    <3>1. ~ found(r.id)
      BY <2>2, <2>3 DEF found
    <3>2. ahead'[r.id] = ahead[r.id]
      BY <1>3, <2>1, <3>1
    <3>3. Claims!Backlog(Claims!Eligible', r) = Claims!Backlog(Claims!Eligible, r)
      BY <2>3, LaterIsBehind
    <3>4. r \in Backs
      BY <1>8, <2>3 DEF Backs
    <3> QED BY <1>8, <3>2, <3>3, <3>4 DEF ClaimInv, Advances, Later
  <2>4. CASE r \notin Claims!Eligible
    <3>1. found(r.id)
      BY <2>1, <2>4 DEF found
    <3>2. (CHOOSE s \in Claims!Eligible' : s.id = r.id) = r
      BY <2>1, <2>2
    <3>3. ahead'[r.id] = Claims!Backlog(Claims!Eligible', r)
      BY <1>3, <2>1, <3>1, <3>2
    <3>4. waited'[r.id] = 0
      BY <1>6, <2>1, <2>4 DEF Later
    <3> QED BY <1>2, <3>3, <3>4
  <2> QED BY <2>3, <2>4
<1>9. Advances'
  BY <1>8 DEF Advances
<1> QED BY <1>4, <1>7, <1>9 DEF ClaimInv, Later

LEMMA EnqueueStep ==
  ASSUME Sizes, ClaimInv, NEW t \in Customer, NEW p \in Priority, NEW delay \in 0..1,
         Claims!Enqueue(t, p, delay)
  PROVE  ClaimInv'
<1> DEFINE new == [id |-> lastId + 1, tenant |-> t, priority |-> p,
                   run_after |-> Claims!RunAfter(delay)]
<1>1. /\ rows' = rows \cup {new} /\ lastId' = lastId + 1 /\ moment' = moment /\ waited' = waited
      /\ lastId < MaxId /\ Claims!FallDue
  BY DEF Claims!Enqueue
<1>2. moment \in Nat /\ lastId \in Nat /\ lastId + 1 \in Claims!Id
  BY <1>1 DEF ClaimInv, ClaimTypes, Sizes, Claims!Id
<1>3. Claims!RunAfter(delay) \in Nat /\ Claims!RunAfter(delay) >= moment
  BY <1>2 DEF Claims!RunAfter
<1>4. /\ new \in [id : Claims!Id, tenant : Customer, priority : Priority, run_after : Nat]
      /\ new.id = lastId + 1 /\ new.run_after >= moment
  BY <1>2, <1>3
<1> HIDE DEF new
<1>5. IsFiniteSet(rows')
  BY <1>1, FS_AddElement DEF ClaimInv, ClaimTypes
<1>6. \A r \in rows : r.id \in Nat /\ r.id <= lastId
  BY DEF ClaimInv, ClaimTypes, IdsDiffer, Claims!Id, Sizes
<1>7. IdsDiffer'
  BY <1>1, <1>2, <1>4, <1>6 DEF ClaimInv, IdsDiffer
<1>8. Later
  BY <1>1, <1>2, <1>4, <1>5, <1>7 DEF Later, ClaimInv, ClaimTypes
<1> QED BY <1>1, <1>8, FallStep

LEMMA TickStep ==
  ASSUME Sizes, ClaimInv, Claims!Tick
  PROVE  ClaimInv'
<1>1. rows' = rows /\ lastId' = lastId /\ waited' = waited /\ moment' = moment + 1 /\ Claims!FallDue
  BY DEF Claims!Tick
<1>2. moment \in Nat /\ lastId \in Nat
  BY DEF ClaimInv, ClaimTypes
<1>3. IdsDiffer'
  BY <1>1 DEF ClaimInv, IdsDiffer
<1>4. Later
  BY <1>1, <1>2, <1>3 DEF Later, ClaimInv, ClaimTypes
<1> QED BY <1>1, <1>4, FallStep

LEMMA ClaimsStay ==
  ASSUME ClaimInv, UNCHANGED Claims!vars
  PROVE  ClaimInv'
<1>1. Claims!Eligible' = Claims!Eligible
  BY DEF Claims!Eligible, Claims!Due, Claims!vars
<1>2. Backs' = Backs
  BY <1>1 DEF Backs
<1> QED
  BY <1>1, <1>2 DEF Claims!vars, ClaimInv, ClaimTypes, IdsDiffer, NotYetPassed, Advances

LEMMA ClaimsInitially ==
  ASSUME Sizes, Claims!Init
  PROVE  ClaimInv
<1>1. rows = {} /\ Claims!Eligible = {} /\ Backs = {} /\ IsFiniteSet({})
  BY FS_EmptySet DEF Claims!Init, Claims!Eligible, Claims!Due, Backs
<1> QED
  BY <1>1 DEF Claims!Init, ClaimInv, ClaimTypes, IdsDiffer, NotYetPassed, Advances

\* Rows that are due, and how long they have been passed over, under any arrivals.
THEOREM ClaimInvariance == Sizes => (Claims!Spec => []ClaimInv)
<1> SUFFICES ASSUME Sizes PROVE Claims!Spec => []ClaimInv
  OBVIOUS
<1>1. Claims!Init => ClaimInv
  BY ClaimsInitially
<1>2. ClaimInv /\ [Claims!Next]_(Claims!vars) => ClaimInv'
  BY ClaimStep, EnqueueStep, TickStep, ClaimsStay DEF Claims!Next
<1> QED BY <1>1, <1>2, PTL DEF Claims!Spec

\* However much the other tenants have queued, a tenant's first job that is due is in
\* the next batch, while there are slots beside the reserve for as many tenants.
THEOREM QuietTenantServedAlways == Sizes => (Claims!Spec => []QuietTenantServed)
<1> SUFFICES ASSUME Sizes PROVE Claims!Spec => []QuietTenantServed
  OBVIOUS
<1>1. ClaimInv => QuietTenantServed
  BY FirstIsPicked DEF ClaimInv
<1> QED BY <1>1, ClaimInvariance, PTL

\* With a reserve, no claim passes over a background job without taking one that fell
\* due before it.
THEOREM BackgroundAdvancesAlways == Sizes => (Claims!Spec => []BackgroundAdvances)
<1> SUFFICES ASSUME Sizes PROVE Claims!Spec => []BackgroundAdvances
  OBVIOUS
<1>1. ASSUME ClaimInv, Batch > 1, NEW r \in Claims!Eligible, Claims!Background(r)
      PROVE  waited[r.id] <= ahead[r.id]
  <2>1. r \in Backs /\ r.id \in Claims!Id
    BY <1>1, RowsAreFinite DEF Backs, ClaimInv, ClaimTypes
  <2>2. /\ waited[r.id] + Claims!Backlog(Claims!Eligible, r) <= ahead[r.id]
        /\ Claims!Backlog(Claims!Eligible, r) \in Nat
    BY <1>1, <2>1, BacklogIs DEF ClaimInv, Advances
  <2> QED BY <1>1, <2>1, <2>2 DEF ClaimInv, ClaimTypes
<1>2. ClaimInv => BackgroundAdvances
  BY <1>1 DEF BackgroundAdvances, Claims!BackgroundAdvances
<1> QED BY <1>2, ClaimInvariance, PTL
=============================================================================
