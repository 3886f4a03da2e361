------------------------------- MODULE Ingest -------------------------------
(***************************************************************************)
(* From the last byte of one upload to its asset: the finalise job          *)
(* (dam-pipeline/src/finalise.rs, upload), the client that asks for it      *)
(* (dam-api/src/tus.rs), and the sweep of expired uploads                   *)
(* (dam-pipeline/src/abandoned.rs).  The job runs on AtLeastOnce, which the *)
(* job table implements (JobQueue): its rows, deliveries, lapsed leases and *)
(* late settlements are that module's actions.                              *)
(*                                                                          *)
(* Where the bytes are is three flags: held (the tail and the parts),       *)
(* staging and content (the content-addressed object).  How the bytes of a  *)
(* TUS upload arrive and are assembled is UploadSession's subject.          *)
(***************************************************************************)
EXTENDS AtLeastOnce

CONSTANTS
  Via,    \* how uploads arrive, of "tus" and "presigned"
  K       \* the dedupe key finalise:<id>

VARIABLES
  via,      \* the intake: "tus" or "presigned"
  good,     \* no scanner or policy will refuse these bytes
  status, sent, hash, asset,  \* the row: sent is offset = declared_length
  expired,  \* expires_at has passed
  held, staging, content,
  assets,   \* how many asset rows this upload became
  derive,   \* a derive job was queued
  asking,   \* the request that took the last chunk has yet to queue the job
  step,     \* the step of each worker's handler
  sweep     \* the step of the sweep

upload   == <<via, good, status, sent, hash, asset, expired>>
bytes    == <<held, staging, content>>
handlers == <<assets, derive, step>>
vars     == <<queueVars, upload, bytes, handlers, asking, sweep>>

Init ==
  /\ QueueInit
  /\ via \in Via /\ good \in BOOLEAN
  /\ status = "active" /\ sent = FALSE /\ hash = FALSE /\ asset = 0 /\ expired = FALSE
  /\ held = FALSE /\ staging = FALSE
  /\ content \in BOOLEAN   \* an earlier upload of the same bytes
  /\ assets = 0 /\ derive = FALSE
  /\ asking = FALSE
  /\ step = [w \in Worker |-> "none"]
  /\ sweep = "idle"

----------------------------------------------------------------------------
(* The client, and time.                                                   *)

\* The last PATCH: the bytes land, the row is saved.
SendLast ==
  /\ via = "tus" /\ status = "active" /\ ~ sent
  /\ sent' = TRUE /\ held' = TRUE /\ asking' = TRUE
  /\ UNCHANGED <<queueVars, via, good, status, hash, asset, expired,
                 staging, content, handlers, sweep>>

\* A presigned PUT: the server does not see it.  The URL expires well before
\* the session does.
PutDirect ==
  /\ via = "presigned" /\ ~ staging /\ ~ expired
  /\ staging' = TRUE
  /\ UNCHANGED <<queueVars, upload, held, content, handlers, asking, sweep>>

\* The request queues the job; a failure is logged and not returned.
AskDone(queued) ==
  /\ asking /\ asking' = FALSE
  /\ IF queued THEN \E j \in Job : Enqueue(j, K) ELSE UNCHANGED queueVars
  /\ UNCHANGED <<upload, bytes, handlers, sweep>>

Expire ==
  /\ ~ expired /\ expired' = TRUE
  /\ UNCHANGED <<queueVars, via, good, status, sent, hash, asset, bytes,
                 handlers, asking, sweep>>

----------------------------------------------------------------------------
(* finalise::upload, one statement or store call at a time.                *)

Goto(w, s) == step' = [step EXCEPT ![w] = s]

Start(w, j) ==
  /\ step[w] = "none"
  /\ state[j] = "queued" /\ Deliver(w, {j})
  /\ Goto(w, "load")
  /\ UNCHANGED <<upload, bytes, assets, derive, asking, sweep>>

\* The session is complete already, or is to be assembled if all of it came.
Load(w) ==
  /\ step[w] = "load"
  /\ Goto(w, IF status = "completed" THEN "declared"
             ELSE IF status = "active" /\ sent THEN "assemble"
             ELSE "permanent")
  /\ UNCHANGED <<queueVars, upload, bytes, assets, derive, asking, sweep>>

Assemble(w) ==
  /\ step[w] = "assemble"
  /\ IF held THEN staging' = TRUE /\ Goto(w, "clear")
             ELSE UNCHANGED staging /\ Goto(w, "transient")
  /\ UNCHANGED <<queueVars, upload, held, content, assets, derive, asking, sweep>>

ClearTail(w) ==
  /\ step[w] = "clear"
  /\ held' = FALSE /\ Goto(w, "save")
  /\ UNCHANGED <<queueVars, upload, staging, content, assets, derive, asking, sweep>>

SaveCompleted(w) ==
  /\ step[w] = "save"
  /\ status' = "completed" /\ Goto(w, "declared")
  /\ UNCHANGED <<queueVars, via, good, sent, hash, asset, expired, bytes,
                 assets, derive, asking, sweep>>

\* The bug: a run that finds the asset there has nothing left to do.
ReturnEarly ==
  IF asset # 0 THEN "ok"
  ELSE IF hash THEN IF content THEN "insert" ELSE "permanent"
  ELSE "promote"

\* uploads::declared: what is left to do for this upload.
Remaining ==
  IF asset # 0 THEN "chain"
  ELSE IF hash THEN IF content THEN "insert" ELSE "permanent"
  ELSE "promote"

Declared(w) ==
  /\ step[w] = "declared"
  /\ Goto(w, Remaining)
  /\ UNCHANGED <<queueVars, upload, bytes, assets, derive, asking, sweep>>

\* The bug: a HEAD that fails is read as "already there".
PresentUnlessAsked == TRUE

\* The content object exists, from this upload or an earlier run.
AlreadyPresent == content

\* Scan, size and type checks, hash, and the copy to the content key.  A
\* policy's refusal deletes the staged bytes, a scanner's does not.
Promote(w) ==
  /\ step[w] = "promote"
  /\ IF ~ staging
       THEN Goto(w, "transient") /\ UNCHANGED <<staging, content>>
     ELSE IF ~ good
       THEN Goto(w, "permanent") /\ staging' \in BOOLEAN /\ UNCHANGED content
     ELSE /\ content' = IF AlreadyPresent THEN content ELSE TRUE
          /\ Goto(w, "redundant") /\ UNCHANGED staging
  /\ UNCHANGED <<queueVars, upload, held, assets, derive, asking, sweep>>

\* "Only now is the staging copy redundant."
DropStaged(w) ==
  /\ step[w] = "redundant"
  /\ staging' = FALSE /\ Goto(w, "record")
  /\ UNCHANGED <<queueVars, upload, held, content, assets, derive, asking, sweep>>

RecordPromotion(w) ==
  /\ step[w] = "record"
  /\ hash' = TRUE /\ Goto(w, "insert")
  /\ UNCHANGED <<queueVars, via, good, status, sent, asset, expired, bytes,
                 assets, derive, asking, sweep>>

\* The transaction: the asset, and the session's asset_id and status.
Insert(w) ==
  /\ step[w] = "insert"
  /\ assets' = assets + 1 /\ asset' = assets + 1 /\ status' = "completed"
  /\ Goto(w, "unstage")
  /\ UNCHANGED <<queueVars, via, good, sent, hash, expired, bytes, derive, asking, sweep>>

\* A failure to unstage is logged.
Unstage(w) ==
  /\ step[w] = "unstage"
  /\ staging' \in {FALSE, staging} /\ Goto(w, "chain")
  /\ UNCHANGED <<queueVars, upload, held, content, assets, derive, asking, sweep>>

\* enqueue_derive: also by a run that found the asset there.
Chain(w) ==
  /\ step[w] = "chain"
  /\ derive' = TRUE /\ Goto(w, "ok")
  /\ UNCHANGED <<queueVars, upload, bytes, assets, asking, sweep>>

\* A call or a statement fails before it had an effect.
Fail(w) ==
  /\ step[w] \notin {"none", "unstage", "ok", "permanent", "transient"}
  /\ Goto(w, "transient")
  /\ UNCHANGED <<queueVars, upload, bytes, assets, derive, asking, sweep>>

SettleJob(w, j) ==
  /\ step[w] \in {"ok", "permanent", "transient"}
  /\ Settle(w, j, IF step[w] = "ok" THEN "succeeded"
                  ELSE IF step[w] = "transient" /\ claims[j] < MaxAttempts THEN "queued"
                  ELSE "dead")
  /\ Goto(w, "none")
  /\ UNCHANGED <<upload, bytes, assets, derive, asking, sweep>>

Crash(w) ==
  /\ step[w] # "none"
  /\ Forget(w, Job) /\ Goto(w, "none")
  /\ UNCHANGED <<upload, bytes, assets, derive, asking, sweep>>

\* The lease of a running job lapses and a claiming worker takes it back.
Lapse(j) ==
  /\ state[j] = "running" /\ TakeBack({j})
  /\ UNCHANGED <<upload, bytes, handlers, asking, sweep>>

Handle(w) ==
  \/ Load(w) \/ Assemble(w) \/ ClearTail(w) \/ SaveCompleted(w) \/ Declared(w)
  \/ Promote(w) \/ DropStaged(w) \/ RecordPromotion(w) \/ Insert(w)
  \/ Unstage(w) \/ Chain(w)

----------------------------------------------------------------------------
(* The sweep: sweep_tenant and reap_one.                                   *)

Sweeping(s) == sweep' = s /\ UNCHANGED <<upload, bytes, handlers, asking>>

SweepList ==
  /\ sweep = "idle" /\ status = "active" /\ expired
  /\ Sweeping("head") /\ UNCHANGED queueVars

\* An object in staging is finalised, unless a finalise job for it has died;
\* a store that cannot tell, or a queue that cannot be reached, defers.
SweepHead ==
  /\ sweep = "head"
  /\ Sweeping(IF staging THEN "idle" ELSE "drop")
  /\ \/ staging /\ (\A j \in Job : state[j] # "dead") /\ \E j \in Job : Enqueue(j, K)
     \/ staging /\ (\E j \in Job : state[j] = "dead" \/ InFlight(j)) /\ UNCHANGED queueVars
     \/ ~ staging /\ UNCHANGED queueVars

SweepDefer ==
  /\ sweep # "idle"
  /\ Sweeping("idle") /\ UNCHANGED queueVars

\* terminate: the parts and the tail, then the staging object ...
SweepDrop ==
  /\ sweep = "drop" /\ sweep' = "unstage"
  /\ held' = FALSE
  /\ UNCHANGED <<queueVars, upload, staging, content, handlers, asking>>

SweepUnstage ==
  /\ sweep = "unstage" /\ sweep' = "end"
  /\ staging' = FALSE
  /\ UNCHANGED <<queueVars, upload, held, content, handlers, asking>>

\* The bug: the guard looks for rows that were marked expired.
EndIfExpired == IF status = "expired" THEN "terminated" ELSE status

\* ... then the row, if it is still active.
Ended == IF status = "active" THEN "terminated" ELSE status

SweepEnd ==
  /\ sweep = "end" /\ sweep' = "idle"
  /\ status' = Ended
  /\ UNCHANGED <<queueVars, via, good, sent, hash, asset, expired, bytes, handlers, asking>>

Sweep == SweepList \/ SweepHead \/ SweepDrop \/ SweepUnstage \/ SweepEnd

----------------------------------------------------------------------------
Next ==
  \/ SendLast \/ PutDirect \/ Expire
  \/ \E queued \in BOOLEAN : AskDone(queued)
  \/ \E w \in Worker :
       \/ Handle(w) \/ Fail(w) \/ Crash(w)
       \/ \E j \in Job : Start(w, j) \/ SettleJob(w, j)
  \/ \E j \in Job : Lapse(j)
  \/ Sweep \/ SweepDefer

Spec == Init /\ [][Next]_vars

\* A worker and the sweep keep going (WF); a sweep that finds something is
\* not deferred every time (SF); uploads expire and leases lapse.
Fairness ==
  /\ WF_vars(Expire)
  /\ \A j \in Job : WF_vars(Lapse(j))
  /\ \A w \in Worker : WF_vars(Handle(w)) /\ WF_vars(\E j \in Job : Start(w, j) \/ SettleJob(w, j))
  /\ SF_vars(SweepList) /\ SF_vars(SweepHead) /\ SF_vars(SweepDrop)
  /\ SF_vars(SweepUnstage) /\ SF_vars(SweepEnd)

FairSpec == Spec /\ Fairness

----------------------------------------------------------------------------
(* Properties.                                                             *)

TypeOK ==
  /\ state \in [Job -> {"absent", "queued", "running", "succeeded", "dead"}]
  /\ key \in [Job -> Key \cup {NoKey}] /\ claims \in [Job -> 0..MaxAttempts]
  /\ working \subseteq Worker \X Job
  /\ status \in {"active", "completed", "terminated"}
  /\ {sent, hash, expired, held, staging, content, derive, asking, good} \subseteq BOOLEAN
  /\ asset \in 0..assets /\ assets \in Nat
  /\ step \in [Worker -> {"none", "load", "assemble", "clear", "save", "declared",
                         "promote", "redundant", "record", "insert", "unstage",
                         "chain", "ok", "permanent", "transient"}]
  /\ sweep \in {"idle", "head", "drop", "unstage", "end"}

\* The client's complete upload is somewhere, until it has expired or was
\* refused: no step removes a copy before the next exists, whichever workers
\* run the steps and wherever they die (finalise's module doc).  One that became
\* an asset has its bytes, expired or not, and is never marked terminated by a
\* sweep that listed it before (reap_one's `AND status = 'active'`).
NothingLost ==
  /\ good /\ ~ expired /\ sent => held \/ staging \/ content
  /\ asset # 0 => status = "completed" /\ content

\* The job succeeds only when the asset exists and its derivatives were asked
\* for, also when the run that inserted the asset died before it asked.
SucceededIsChained ==
  \A j \in Job : state[j] = "succeeded" => asset # 0 /\ derive

\* Whatever is lost, an upload that was completely sent becomes an asset, or
\* its job is a dead letter, or it is reclaimed: it does not stay for ever.
EventuallyEnds ==
  sent ~> \/ asset # 0 \/ status = "terminated"
          \/ \E j \in Job : state[j] = "dead"
=============================================================================
