------------------------------- MODULE Backfill -------------------------------
(***************************************************************************)
(* Describing assets with a paid model: a library at a time by batches      *)
(* (dam-pipeline/src/backfill.rs, submit and collect), one at a time        *)
(* (dam-pipeline/src/enrich.rs), the run rows that are all the state there  *)
(* is (dam-db/src/enrichment.rs) and the month's spend                      *)
(* (dam-db/src/quotas.rs).                                                  *)
(*                                                                          *)
(* A job is in flight until a worker completes it; a second worker has it   *)
(* only when the first one's lease lapsed.  What a batch's collection does  *)
(* per page of the queue is JobChains'; here a poll that finds the batch    *)
(* unfinished leaves its job in flight.                                     *)
(***************************************************************************)
EXTENDS Naturals, FiniteSets, FiniteSetsExt

CONSTANTS
  Worker,
  Assets,       \* the library is 1..Assets, in the order of created_at
  Slice,        \* assets to a batch
  Limit,        \* the hard cap on AI_SPEND, in whole units
  MICRO,        \* the charged fractions of a unit
  MaxRuns, MaxBatches, MaxFaults   \* bounds of the model

VARIABLES
  run,        \* rows of enrichment_runs: asset, state, batch (0: none), cost
  used, remainder, \* the row of tenant_spend
  configured, \* there is a credential, and enrichment is on
  proxied,    \* assets that have a proxy
  sent,       \* the provider's batches: their runs, and what it says of each
  jobs,       \* jobs in flight
  asking,     \* POST /ai/backfill has checked and not yet queued
  job, doing, \* each worker's job and step
  pick,       \* assets it still has to open a run for
  hand,       \* runs it still has to close, or to send
  batch,      \* the batch it is about
  spend,      \* what it has to charge
  any,        \* a result was applied
  faults,
  cut,        \* a submission or a description ended with its runs open, or a
              \* collection was given up on (history)
  lapsed,     \* a job had two workers (history)
  lost        \* a worker died with something to charge (history)

rows    == <<run, used, remainder>>
worker  == <<job, doing, pick, hand, batch, spend, any>>
history == <<faults, cut, lapsed, lost>>
vars    == <<rows, configured, proxied, sent, jobs, asking, worker, history>>

Asset == 1..Assets
Run   == 1..MaxRuns
Batch == 1..MaxBatches

Idle == <<"none">>
Submission    == <<"submit">>
Collection(b) == <<"collect", b>>
Description(a) == <<"describe", a>>

\* Expired and cancelled requests are closed as declined ones are, errored ones
\* as those that are in no result.
Answer == {"answered", "unreadable", "declined", "missing"}

NoRun   == [asset |-> 0, state |-> "absent", batch |-> 0, cost |-> 0]
Opened(a) == [asset |-> a, state |-> "running", batch |-> 0, cost |-> 0]
NoBatch == [runs |-> {}, ended |-> FALSE, says |-> [r \in Run |-> "missing"]]

Init ==
  /\ run = [r \in Run |-> NoRun]
  /\ used = 0 /\ remainder = 0
  /\ configured = TRUE /\ proxied \in {{}, Asset}
  /\ sent = [b \in Batch |-> NoBatch]
  /\ jobs = {} /\ asking = FALSE
  /\ job = [w \in Worker |-> Idle] /\ doing = [w \in Worker |-> "idle"]
  /\ pick = [w \in Worker |-> {}] /\ hand = [w \in Worker |-> {}]
  /\ batch = [w \in Worker |-> 0] /\ spend = [w \in Worker |-> 0]
  /\ any = [w \in Worker |-> FALSE]
  /\ faults = 0 /\ cut = FALSE /\ lapsed = FALSE /\ lost = FALSE

Fault == faults < MaxFaults /\ faults' = faults + 1

Goto(w, step) == doing' = [doing EXCEPT ![w] = step]

With(w, runs) == hand' = [hand EXCEPT ![w] = runs]

Fresh == {r \in Run : run[r].state = "absent"}

\* finish_run, by id.
Closed(r, state, cost) == [run EXCEPT ![r].state = state, ![r].cost = cost]

----------------------------------------------------------------------------
(* The API, and what changes by itself.                                    *)

\* The bug: a run that is open does not keep its asset off the list.
ReachedWhenDone(a) == \E r \in Run : run[r].asset = a /\ run[r].state = "succeeded"

Reached(a) == \E r \in Run : run[r].asset = a /\ run[r].state \in {"succeeded", "running"}

\* needing_description.
Outstanding == {a \in proxied : ~ Reached(a)}

InFlight == \E r \in Run : run[r].state = "running" /\ run[r].batch # 0

\* start_backfill: its checks, then its enqueue under the tenant's key.
Ask ==
  /\ ~ asking /\ configured /\ Outstanding # {} /\ ~ InFlight
  /\ asking' = TRUE
  /\ UNCHANGED <<rows, configured, proxied, sent, jobs, worker, history>>

Enqueue ==
  /\ asking /\ asking' = FALSE
  /\ jobs' = jobs \cup {Submission}
  /\ UNCHANGED <<rows, configured, proxied, sent, worker, history>>

\* POST /assets/{id}/enrich.
AskOne(a) ==
  /\ configured /\ Description(a) \notin jobs
  /\ jobs' = jobs \cup {Description(a)}
  /\ UNCHANGED <<rows, configured, proxied, sent, asking, worker, history>>

Derive(a) ==
  /\ a \notin proxied /\ proxied' = proxied \cup {a}
  /\ UNCHANGED <<rows, configured, sent, jobs, asking, worker, history>>

Withdraw ==
  /\ configured /\ configured' = FALSE
  /\ UNCHANGED <<rows, proxied, sent, jobs, asking, worker, history>>

\* The provider is done with a batch, one request of which may be in no result.
BatchEnds(b) ==
  /\ sent[b].runs # {} /\ ~ sent[b].ended
  /\ \E says \in [sent[b].runs -> Answer] :
       sent' = [sent EXCEPT ![b].ended = TRUE,
                  ![b].says = [r \in Run |-> IF r \in sent[b].runs THEN says[r] ELSE "missing"]]
  /\ UNCHANGED <<rows, configured, proxied, jobs, asking, worker, history>>

----------------------------------------------------------------------------
(* A worker and its job.                                                   *)

FirstStep(j) ==
  IF j = Submission THEN "list" ELSE IF j[1] = "collect" THEN "gather" ELSE "start"

Begin(w, j) ==
  /\ doing[w] = "idle" /\ j \in jobs
  /\ IF \E v \in Worker : job[v] = j
       THEN Fault /\ lapsed' = TRUE
       ELSE UNCHANGED <<faults, lapsed>>
  /\ job' = [job EXCEPT ![w] = j]
  /\ batch' = [batch EXCEPT ![w] = IF j[1] = "collect" THEN j[2] ELSE 0]
  /\ any' = [any EXCEPT ![w] = FALSE]
  /\ Goto(w, FirstStep(j))
  /\ UNCHANGED <<rows, configured, proxied, sent, jobs, asking, pick, hand, spend, cut, lost>>

\* It forgets everything, and the job is gone or is not.
Leave(w, left) ==
  /\ jobs' = left
  /\ job' = [job EXCEPT ![w] = Idle] /\ Goto(w, "idle")
  /\ pick' = [pick EXCEPT ![w] = {}] /\ With(w, {})
  /\ batch' = [batch EXCEPT ![w] = 0] /\ spend' = [spend EXCEPT ![w] = 0]
  /\ any' = [any EXCEPT ![w] = FALSE]

Retried == jobs

Without(w) == jobs \ {job[w]}

Complete(w) ==
  /\ doing[w] = "end" /\ Leave(w, Without(w))
  /\ UNCHANGED <<rows, configured, proxied, sent, asking, history>>

\* A worker dies, or the store, the key or a statement fails and the job with
\* it, to be tried again or not.
Cut(w) ==
  /\ doing[w] \notin {"idle", "end"} /\ Fault
  /\ \E left \in {Retried, Without(w)} :
       /\ Leave(w, left)
       /\ cut' = (cut \/ IF job[w][1] = "collect" THEN left # Retried ELSE hand[w] # {})
  /\ lost' = (lost \/ spend[w] # 0)
  /\ UNCHANGED <<rows, configured, proxied, sent, asking, lapsed>>

\* quotas::check, by a tenant without a cap or under it.
Allowed == used < Limit

\* The bug: a request that is in no result is left as it is.
ToApplyIfSaid(w) == {r \in hand[w] : sent[batch[w]].says[r] # "missing"}

ToApply(w) == hand[w]

\* The bug: what is below a unit is dropped.
Carried(micro) == 0

Remainder(micro) == (micro + remainder) % MICRO

\* quotas::charge, in one statement; nothing is written for nothing.
Charge(w) ==
  /\ doing[w] = "charge" \/ (doing[w] = "apply" /\ ToApply(w) = {})
  /\ used' = used + (spend[w] + remainder) \div MICRO
  /\ remainder' = Remainder(spend[w])
  /\ spend' = [spend EXCEPT ![w] = 0]
  /\ Goto(w, IF any[w] THEN "next" ELSE "end")
  /\ UNCHANGED <<run, configured, proxied, sent, jobs, asking, job, pick, hand, batch,
                 any, history>>

----------------------------------------------------------------------------
(* submit.                                                                 *)

\* ORDER BY created_at LIMIT slice.
FirstOf(S) == {a \in S : Cardinality({b \in S : b < a}) < Slice}

\* Nothing is asked for without a credential, something to describe and room
\* under the cap.
List(w) ==
  /\ doing[w] = "list"
  /\ IF configured /\ Outstanding # {} /\ Allowed
       THEN pick' = [pick EXCEPT ![w] = FirstOf(Outstanding)] /\ Goto(w, "open")
       ELSE Goto(w, "end") /\ UNCHANGED pick
  /\ UNCHANGED <<rows, configured, proxied, sent, jobs, asking, job, hand, batch, spend,
                 any, history>>

\* start_run and mark_batched for the next asset.
Open(w) ==
  /\ doing[w] = "open" /\ pick[w] # {} /\ Fresh # {}
  /\ LET a == Min(pick[w])
         r == Min(Fresh) IN
       /\ run' = [run EXCEPT ![r] = Opened(a)]
       /\ With(w, hand[w] \cup {r})
       /\ pick' = [pick EXCEPT ![w] = @ \ {a}]
       /\ Goto(w, IF pick[w] = {a} THEN "post" ELSE "open")
  /\ UNCHANGED <<used, remainder, configured, proxied, sent, jobs, asking, job, batch,
                 spend, any, history>>

\* The provider takes the batch and says so, or refuses, or is not heard.
Post(w) ==
  /\ doing[w] = "post"
  /\ \/ \E b \in Batch :
          /\ sent[b] = NoBatch /\ \A c \in Batch : c < b => sent[c] # NoBatch
          /\ sent' = [sent EXCEPT ![b].runs = hand[w]]
          /\ \/ batch' = [batch EXCEPT ![w] = b] /\ Goto(w, "attach")
             \/ UNCHANGED batch /\ Goto(w, "close")
     \/ Goto(w, "close") /\ UNCHANGED <<sent, batch>>
  /\ UNCHANGED <<rows, configured, proxied, jobs, asking, job, pick, hand, spend, any, history>>

AttachBatch(w) ==
  /\ doing[w] = "attach"
  /\ run' = [r \in Run |-> IF r \in hand[w] THEN [run[r] EXCEPT !.batch = batch[w]] ELSE run[r]]
  /\ Goto(w, "collect")
  /\ UNCHANGED <<used, remainder, configured, proxied, sent, jobs, asking, job, pick, hand,
                 batch, spend, any, history>>

EnqueueCollect(w) ==
  /\ doing[w] = "collect"
  /\ jobs' = jobs \cup {Collection(batch[w])}
  /\ With(w, {}) /\ Goto(w, "end")
  /\ UNCHANGED <<rows, configured, proxied, sent, asking, job, pick, batch, spend, any, history>>

\* What was opened for a batch that was not taken is closed, in one transaction.
Close(w) ==
  /\ doing[w] = "close"
  /\ run' = [r \in Run |-> IF r \in hand[w] THEN [run[r] EXCEPT !.state = "failed"] ELSE run[r]]
  /\ \E left \in {Retried, Without(w)} : Leave(w, left)
  /\ UNCHANGED <<used, remainder, configured, proxied, sent, asking, history>>

----------------------------------------------------------------------------
(* collect.                                                                *)

\* runs_in_batch; without a credential the results cannot be read.
Gather(w) ==
  /\ doing[w] = "gather"
  /\ With(w, {r \in Run : run[r].batch = batch[w] /\ run[r].state = "running"})
  /\ Goto(w, IF configured THEN "poll" ELSE "abandon")
  /\ UNCHANGED <<rows, configured, proxied, sent, jobs, asking, job, pick, batch, spend,
                 any, history>>

\* close_open, a run at a time, and the job with them.
Abandon(w) ==
  /\ doing[w] = "abandon"
  /\ \/ /\ hand[w] # {}
        /\ run' = Closed(Min(hand[w]), "failed", 0)
        /\ With(w, hand[w] \ {Min(hand[w])})
        /\ UNCHANGED <<jobs, job, doing, pick, batch, spend, any>>
     \/ hand[w] = {} /\ Leave(w, Without(w)) /\ UNCHANGED run
  /\ UNCHANGED <<used, remainder, configured, proxied, sent, asking, history>>

\* Still working, or not to be had just now: the next poll comes later.
Poll(w) ==
  /\ doing[w] = "poll"
  /\ \/ Leave(w, Retried)
     \/ /\ sent[batch[w]].ended /\ Goto(w, "apply")
        /\ UNCHANGED <<jobs, job, pick, hand, batch, spend, any>>
  /\ UNCHANGED <<rows, configured, proxied, sent, asking, history>>

\* What a result makes of its run, and what it cost.
Outcome(answer) ==
  CASE answer = "answered" -> [state |-> "succeeded", cost |-> 1]
    [] answer = "unreadable" -> [state |-> "failed", cost |-> 1]
    [] answer = "declined" -> [state |-> "skipped", cost |-> 0]
    [] answer = "missing" -> [state |-> "failed", cost |-> 0]

\* apply or finish, for the next run.
Apply(w) ==
  /\ doing[w] = "apply" /\ ToApply(w) # {}
  /\ LET r == Min(ToApply(w))
         o == Outcome(sent[batch[w]].says[r]) IN
       /\ run' = Closed(r, o.state, o.cost)
       /\ spend' = [spend EXCEPT ![w] = @ + o.cost]
       /\ With(w, hand[w] \ {r})
  /\ any' = [any EXCEPT ![w] = TRUE]
  /\ UNCHANGED <<used, remainder, configured, proxied, sent, jobs, asking, job, doing, pick,
                 batch, history>>

\* The next slice; the indexing it also asks for is IndexRefresh's.
NextSlice(w) ==
  /\ doing[w] = "next"
  /\ jobs' = jobs \cup {Submission} /\ Goto(w, "end")
  /\ UNCHANGED <<rows, configured, proxied, sent, asking, job, pick, hand, batch, spend,
                 any, history>>

----------------------------------------------------------------------------
(* enrich::asset.                                                          *)

\* The credential and the proxy are looked for first.
StartOne(w) ==
  /\ doing[w] = "start" /\ Fresh # {}
  /\ LET r == Min(Fresh) IN
       run' = [run EXCEPT ![r] = Opened(job[w][2])] /\ With(w, {r})
  /\ Goto(w, IF ~ configured THEN "off" ELSE IF job[w][2] \notin proxied THEN "bare" ELSE "ready")
  /\ UNCHANGED <<used, remainder, configured, proxied, sent, jobs, asking, job, pick,
                 batch, spend, any, history>>

\* Switched off, over the cap, or no picture: skipped.  No proxy yet: tried again.
Ready(w) ==
  /\ doing[w] \in {"off", "bare", "ready"}
  /\ \/ /\ doing[w] = "off" \/ ~ Allowed
        /\ run' = Closed(Min(hand[w]), "skipped", 0)
        /\ With(w, {}) /\ Goto(w, "end")
        /\ UNCHANGED <<jobs, job, pick, batch, spend, any, cut>>
     \/ /\ doing[w] = "bare" /\ Allowed
        /\ \E left \in {Retried, Without(w)} : Leave(w, left)
        /\ cut' = TRUE /\ UNCHANGED run
     \/ /\ doing[w] = "ready" /\ Allowed
        /\ Goto(w, "call")
        /\ UNCHANGED <<run, jobs, job, pick, hand, batch, spend, any, cut>>
  /\ UNCHANGED <<used, remainder, configured, proxied, sent, asking, faults, lapsed, lost>>

\* The price of one call, twice that of a batched one.
OneCost == 2

\* The call and what it comes to: described, declined, or failed and closed.
Call(w) ==
  /\ doing[w] = "call"
  /\ LET r == Min(hand[w]) IN
     \/ /\ run' = Closed(r, "succeeded", OneCost)
        /\ spend' = [spend EXCEPT ![w] = OneCost]
        /\ With(w, {}) /\ Goto(w, "charge")
        /\ UNCHANGED <<jobs, job, pick, batch, any>>
     \/ /\ run' = Closed(r, "skipped", 0)
        /\ With(w, {}) /\ Goto(w, "end")
        /\ UNCHANGED <<jobs, job, pick, batch, spend, any>>
     \/ /\ run' = Closed(r, "failed", 0)
        /\ \E left \in {Retried, Without(w)} : Leave(w, left)
  /\ UNCHANGED <<used, remainder, configured, proxied, sent, asking, history>>

----------------------------------------------------------------------------
Step(w) ==
  \/ \E j \in jobs : Begin(w, j)
  \/ Complete(w) \/ Charge(w)
  \/ List(w) \/ Open(w) \/ Post(w) \/ AttachBatch(w) \/ EnqueueCollect(w) \/ Close(w)
  \/ Gather(w) \/ Abandon(w) \/ Poll(w) \/ Apply(w) \/ NextSlice(w)
  \/ StartOne(w) \/ Ready(w) \/ Call(w)

Next ==
  \/ Ask \/ Enqueue \/ Withdraw
  \/ \E a \in Asset : AskOne(a) \/ Derive(a)
  \/ \E b \in Batch : BatchEnds(b)
  \/ \E w \in Worker : Step(w) \/ Cut(w)

Spec == Init /\ [][Next]_vars

----------------------------------------------------------------------------
(* Properties.                                                             *)

TypeOK ==
  /\ run \in [Run -> [asset : 0..Assets, state : {"absent", "running", "succeeded", "failed",
                      "skipped"}, batch : 0..MaxBatches, cost : 0..OneCost]]
  /\ used \in Nat /\ remainder \in 0..(MICRO - 1)
  /\ configured \in BOOLEAN /\ asking \in BOOLEAN /\ proxied \subseteq Asset
  /\ \A b \in Batch : sent[b].runs \subseteq Run /\ sent[b].says \in [Run -> Answer]
  /\ pick \in [Worker -> SUBSET Asset] /\ hand \in [Worker -> SUBSET Run]
  /\ spend \in [Worker -> Nat] /\ faults \in 0..MaxFaults

Held(r) == \E w \in Worker : r \in hand[w]

Collectable(r) == run[r].batch # 0 /\ Collection(run[r].batch) \in jobs

\* An open run, which keeps its asset off every list, has somebody who will
\* close it: a worker, or a collection in flight; unless a submission or a
\* description ended halfway or a collection was given up on ("the work list
\* thinks they are in flight forever").
OpenIsWatched ==
  ~ cut => \A r \in Run : run[r].state = "running" => Held(r) \/ Collectable(r)

Costs == MapThenSumSet(LAMBDA r : run[r].cost, Run)

InHand == MapThenSumSet(LAMBDA w : spend[w], Worker)

\* The month's spend is what the runs say was spent, to the fraction: no more of
\* it while each job had one worker, and no less unless one died before its
\* charge ("a crash between them costs the tenant nothing they cannot see").
SpendIsSeen ==
  ~ lapsed => LET charged == used * MICRO + remainder + InHand IN
                charged <= Costs /\ (~ lost => charged = Costs)

\* Running a backfill twice is "neither a no-op nor a second bill for the same
\* work": no asset is in two submissions, or in one after it was described.
OneSubmission ==
  ~ lapsed => \A r, s \in Run :
    r # s /\ run[r].asset = run[s].asset /\ run[r].batch # 0 /\ run[s].batch # 0
      => {run[r].state, run[s].state} \cap {"failed", "skipped"} # {}

\* "an open run makes the asset invisible to the work list forever, which is the
\* one outcome a backfill must never produce"
NoneInvisible ==
  \A r \in Run : run[r].state = "running" => Held(r) \/ Collectable(r)
=============================================================================
