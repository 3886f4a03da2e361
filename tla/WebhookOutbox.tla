---------------------------- MODULE WebhookOutbox ----------------------------
(***************************************************************************)
(* The outbox of one webhook subscription (dam-db/src/webhooks.rs), the     *)
(* dispatchers that drain it (dam-pipeline/src/webhooks.rs) and the         *)
(* receiver (dam-connect/src/webhooks.rs).                                  *)
(*                                                                          *)
(* Events are numbered by seq.  A claim is two steps, since its conditions  *)
(* on other rows are those of the statement's snapshot: Look evaluates      *)
(* them, Take locks and rechecks the rows' own.  Then the connection is     *)
(* given back, the batch is sent, and each answer is recorded by id.        *)
(***************************************************************************)
EXTENDS OrderedDelivery, FiniteSets

CONSTANTS
  Dispatcher,        \* runs of the dispatch job, several when its chain has doubled
  MaxAttempts,       \* the row's max_attempts
  FailuresBeforeDisable,
  MaxCrashes, MaxRevivals    \* bounds of the model

ASSUME OutboxAssumption ==
  /\ MaxEvents \in Nat /\ NoAsset \notin Asset
  /\ MaxAttempts \in Nat \ {0} /\ FailuresBeforeDisable \in Nat \ {0}
  /\ MaxCrashes \in Nat /\ MaxRevivals \in Nat

VARIABLES
  state,     \* each row's state; absent before it is written and after a cascade
  attempts,
  due,       \* next_attempt_at has passed
  old,       \* created_at is STALE_AFTER ago
  sub,       \* the subscription: active, disabled or removed
  failures,  \* its consecutive failures
  pc,        \* a dispatcher's step
  stale,     \* rows its reclaim saw delivering and old
  cand,      \* rows its claim saw as claimable
  out,       \* what became of each event of its batch
  crashes, revivals

rowVars  == <<state, attempts, due, old>>
subVars  == <<sub, failures>>
runVars  == <<pc, stale, cand, out>>
vars == <<streamVars, rowVars, subVars, runVars, crashes, revivals>>

Waiting == {"pending", "failed"}

Nothing == [e \in Event |-> "none"]

Init ==
  /\ StreamInit
  /\ state = [e \in Event |-> "absent"]
  /\ attempts = [e \in Event |-> 0]
  /\ due = [e \in Event |-> TRUE] /\ old = [e \in Event |-> FALSE]
  /\ sub = "active" /\ failures = 0
  /\ pc = [d \in Dispatcher |-> "idle"]
  /\ stale = [d \in Dispatcher |-> {}] /\ cand = [d \in Dispatcher |-> {}]
  /\ out = [d \in Dispatcher |-> Nothing]
  /\ crashes = 0 /\ revivals = 0

----------------------------------------------------------------------------
(* The application and the operator.                                       *)

\* enqueue, in the transaction of the change: only for an active subscription.
Emit(e, a) ==
  /\ sub = "active"
  /\ Publish(e, a)
  /\ state' = [state EXCEPT ![e] = "pending"]
  /\ UNCHANGED <<attempts, due, old, subVars, runVars, crashes, revivals>>

\* next_attempt_at passes; the row grows old.
Mature(e) ==
  /\ state[e] = "failed" /\ ~ due[e]
  /\ due' = [due EXCEPT ![e] = TRUE]
  /\ UNCHANGED <<streamVars, state, attempts, old, subVars, runVars, crashes, revivals>>

GrowOld(e) ==
  /\ state[e] # "absent" /\ ~ old[e]
  /\ old' = [old EXCEPT ![e] = TRUE]
  /\ UNCHANGED <<streamVars, state, attempts, due, subVars, runVars, crashes, revivals>>

\* POST /webhooks/{id}/enable.
Reactivate ==
  /\ sub = "disabled" /\ sub' = "active"
  /\ failures' = 0
  /\ UNCHANGED <<streamVars, rowVars, runVars, crashes, revivals>>

\* DELETE /webhooks/{id}; the cascade takes the deliveries.
Unsubscribe ==
  /\ sub # "removed" /\ sub' = "removed"
  /\ state' = [e \in Event |-> "absent"]
  /\ UNCHANGED <<streamVars, attempts, due, old, failures, runVars, crashes, revivals>>

\* POST /webhooks/{id}/deliveries/{delivery_id}/retry.
Revive(e) ==
  /\ state[e] = "dead" /\ revivals < MaxRevivals
  /\ state' = [state EXCEPT ![e] = "pending"]
  /\ attempts' = [attempts EXCEPT ![e] = 0]
  /\ due' = [due EXCEPT ![e] = TRUE]
  /\ revivals' = revivals + 1
  /\ UNCHANGED <<streamVars, old, subVars, runVars, crashes>>

----------------------------------------------------------------------------
(* A dispatcher's pass.                                                    *)

\* The bug: an earlier event that is backing off is not waited for.
BlockedOnlyByDue(view, e) ==
  \E f \in Earlier(e) : view[f] = "delivering" \/ (view[f] \in Waiting /\ due[f])

\* A sibling is in flight, or an earlier one waits.
Blocked(view, e) ==
  \/ \E f \in Published : about[f] = about[e] /\ view[f] = "delivering"
  \/ \E f \in Earlier(e) : view[f] \in Waiting

\* The conditions of the claim's CTE, on a snapshot.
Claimable(view) ==
  {e \in Published : /\ view[e] \in Waiting /\ due[e] /\ sub = "active"
                     /\ ~ Blocked(view, e)}

\* The bug: what a dead dispatcher left is looked for among the retries.
StaleRetries == {e \in Event : state[e] = "failed" /\ old[e]}

Stale == {e \in Event : state[e] = "delivering" /\ old[e]}

\* reclaim_stalled's and claim's snapshots; claim sees what reclaim wrote.
Look(d) ==
  LET view == [e \in Event |-> IF e \in Stale THEN "failed" ELSE state[e]] IN
  /\ pc[d] = "idle"
  /\ stale' = [stale EXCEPT ![d] = Stale]
  /\ cand' = [cand EXCEPT ![d] = Claimable(view)]
  /\ pc' = [pc EXCEPT ![d] = "claim"]
  /\ UNCHANGED <<streamVars, rowVars, subVars, out, crashes, revivals>>

\* The transaction commits: what is still delivering is reclaimed, what is
\* still waiting and due is taken, up to BATCH and without what others lock.
Take(d) ==
  LET reclaimed == {e \in stale[d] : state[e] = "delivering"}
      takeable  == {e \in cand[d] : due[e] /\ (state[e] \in Waiting \/ e \in reclaimed)} IN
  /\ pc[d] = "claim"
  /\ \E batch \in SUBSET takeable :
       /\ takeable # {} => batch # {}
       /\ state' = [e \in Event |-> IF e \in batch THEN "delivering"
                                    ELSE IF e \in reclaimed THEN "failed" ELSE state[e]]
       /\ attempts' = [e \in Event |-> IF e \in batch THEN attempts[e] + 1 ELSE attempts[e]]
       /\ out' = [out EXCEPT ![d] = [e \in Event |-> IF e \in batch THEN "sending" ELSE "none"]]
       /\ pc' = [pc EXCEPT ![d] = IF batch = {} THEN "idle" ELSE "send"]
  /\ stale' = [stale EXCEPT ![d] = {}] /\ cand' = [cand EXCEPT ![d] = {}]
  /\ UNCHANGED <<streamVars, due, old, subVars, crashes, revivals>>

\* classify: everything but success spends the attempt.
Accepts(status) == status = "2xx"

\* send: a 2xx is from a receiver that has the event; any other answer, or
\* none, may be from one that has it as well.
Answer(d, e) ==
  /\ pc[d] = "send" /\ out[d][e] = "sending"
  /\ \E status \in {"2xx", "3xx", "error"} :
       /\ out' = [out EXCEPT ![d][e] = IF Accepts(status) THEN "accepted" ELSE "refused"]
       /\ got' \in IF status = "2xx" THEN {got \cup {e}} ELSE {got, got \cup {e}}
  /\ UNCHANGED <<about, forgone, rowVars, subVars, pc, stale, cand, crashes, revivals>>

\* join_all has every answer before the first is recorded.
Answered(d) == pc[d] = "send" /\ \A e \in Event : out[d][e] # "sending"

Noted(d, e) ==
  /\ out' = [out EXCEPT ![d][e] = "none"]
  /\ pc' = [pc EXCEPT ![d] = IF \A f \in Event \ {e} : out[d][f] = "none" THEN "idle" ELSE "send"]

\* delivered: by id, whatever the row says now.
RecordAccepted(d, e) ==
  /\ Answered(d) /\ out[d][e] = "accepted"
  /\ Noted(d, e)
  /\ state' = IF state[e] = "absent" THEN state ELSE [state EXCEPT ![e] = "delivered"]
  /\ failures' = IF state[e] = "absent" THEN failures ELSE 0
  /\ UNCHANGED <<streamVars, attempts, due, old, sub, stale, cand, crashes, revivals>>

Exhausted(e) == attempts[e] >= MaxAttempts

StateAfter(e) == IF Exhausted(e) THEN "dead" ELSE "failed"

\* failed, for a row that is there: back off, or dead-letter and count
\* against the subscription.
RecordRefused(d, e) ==
  /\ Answered(d) /\ out[d][e] = "refused" /\ state[e] # "absent"
  /\ Noted(d, e)
  /\ state' = [state EXCEPT ![e] = StateAfter(e)]
  /\ due' = [due EXCEPT ![e] = FALSE]
  /\ forgone' = IF Exhausted(e) THEN forgone \cup {e} ELSE forgone
  /\ failures' = IF Exhausted(e) THEN failures + 1 ELSE failures
  /\ sub' = IF failures' >= FailuresBeforeDisable /\ Exhausted(e) THEN "disabled" ELSE sub
  /\ UNCHANGED <<about, got, attempts, old, stale, cand, crashes, revivals>>

\* failed, for a row that went with its subscription.
RecordNothing(d, e) ==
  /\ Answered(d) /\ out[d][e] = "refused" /\ state[e] = "absent"
  /\ Noted(d, e)
  /\ UNCHANGED <<streamVars, rowVars, subVars, stale, cand, crashes, revivals>>

\* The process dies, or a statement fails and the pass returns.
Crash(d) ==
  /\ pc[d] # "idle" /\ crashes < MaxCrashes
  /\ pc' = [pc EXCEPT ![d] = "idle"]
  /\ stale' = [stale EXCEPT ![d] = {}] /\ cand' = [cand EXCEPT ![d] = {}]
  /\ out' = [out EXCEPT ![d] = Nothing]
  /\ crashes' = crashes + 1
  /\ UNCHANGED <<streamVars, rowVars, subVars, revivals>>

Record(d) == \E e \in Event : RecordAccepted(d, e) \/ RecordRefused(d, e) \/ RecordNothing(d, e)

Pass(d) == Look(d) \/ Take(d) \/ (\E e \in Event : Answer(d, e)) \/ Record(d)

Next ==
  \/ \E e \in Event : \/ \E a \in Asset : Emit(e, a)
                      \/ Mature(e) \/ GrowOld(e) \/ Revive(e)
  \/ Reactivate \/ Unsubscribe
  \/ \E d \in Dispatcher : Pass(d) \/ Crash(d)

Spec == Init /\ [][Next]_vars

\* Some dispatcher goes on as long as its chain lives; a pass ends, since the
\* send has a timeout; time passes.
Fairness ==
  /\ \A d \in Dispatcher : WF_vars(Pass(d))
  /\ \A e \in Event : WF_vars(Mature(e)) /\ WF_vars(GrowOld(e))

FairSpec == Spec /\ Fairness

----------------------------------------------------------------------------
(* Properties.                                                             *)

TypeOK ==
  /\ about \in [Event -> Asset \cup {NoAsset}]
  /\ got \subseteq Event /\ forgone \subseteq Event
  /\ state \in [Event -> {"absent", "pending", "delivering", "delivered", "failed", "dead"}]
  /\ attempts \in [Event -> Nat]
  /\ due \in [Event -> BOOLEAN] /\ old \in [Event -> BOOLEAN]
  /\ sub \in {"active", "disabled", "removed"} /\ failures \in Nat
  /\ pc \in [Dispatcher -> {"idle", "claim", "send"}]
  /\ stale \in [Dispatcher -> SUBSET Event] /\ cand \in [Dispatcher -> SUBSET Event]
  /\ out \in [Dispatcher -> [Event -> {"none", "sending", "accepted", "refused"}]]
  /\ crashes \in 0..MaxCrashes /\ revivals \in 0..MaxRevivals

\* A row says delivered only of an event the receiver has, dead only of one
\* that was given up, whichever late answer wrote it (delivered and failed
\* are by id).
StateIsTrue ==
  \A e \in Event : /\ state[e] = "delivered" => e \in got
                   /\ state[e] = "dead" => e \in forgone

\* The receiver sees the events of an asset in order the first time, and with
\* repetitions later ("delivery is sequential per (subscription, asset)").
KeepsOrder == StreamSpec

\* Every event of a live subscription is delivered or dead in the end.
EventuallyOver ==
  \A e \in Event : state[e] \in Waiting \cup {"delivering"}
                     ~> state[e] \in {"delivered", "dead", "absent"} \/ sub = "disabled"
=============================================================================
