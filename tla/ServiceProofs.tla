--------------------------- MODULE ServiceProofs ---------------------------
(***************************************************************************)
(* What holds of the services of MCServices for any workers, jobs, requests *)
(* and polls: the finalisation of an upload, and the restores of an         *)
(* archived object.  A theorem is about one of them.                        *)
(*                                                                          *)
(* Ingest.  A handler may be overtaken at any step by another run of it, so *)
(* what a step relies on must be something no run undoes: content, once     *)
(* there, stays, and so does the asset.  The invariant says what is known   *)
(* at each step (StepsKnow) in those terms.                                 *)
(*                                                                          *)
(* Restores.  A poll marks the badge and a request in one transaction; the  *)
(* two agree because only marks and lapses touch either (BadgeInv).         *)
(***************************************************************************)
EXTENDS MCServices, FiniteSetTheorems, TLAPS

----------------------------------------------------------------------------
(* Ingest.                                                                 *)

Steps == {"none", "load", "assemble", "clear", "save", "declared", "promote", "redundant",
          "record", "insert", "unstage", "chain", "ok", "permanent", "transient"}

IngestTypes ==
  /\ state \in [Job -> {"absent", "queued", "running", "succeeded", "dead"}]
  /\ step \in [Worker -> Steps]
  /\ assets \in Nat /\ asset \in Nat
  /\ status \in {"active", "completed", "terminated"}

StepsKnow ==
  \A w \in Worker :
    /\ step[w] = "clear" /\ good /\ ~ expired => staging \/ content
    /\ step[w] \in {"redundant", "record", "insert", "unstage"} => content
    /\ step[w] \in {"unstage", "chain", "ok"} => asset # 0
    /\ step[w] = "ok" => derive

SweepsExpired == takes # "idle" => expired

IngestInv ==
  /\ IngestTypes /\ StepsKnow /\ SweepsExpired
  /\ Finalise!NothingLost /\ Finalise!SucceededIsChained

LEMMA IngestInitially == Finalise!Init => IngestInv
<1> SUFFICES ASSUME Finalise!Init PROVE IngestInv
  OBVIOUS
<1>1. IngestTypes
  BY DEF Finalise!Init, Finalise!QueueInit, IngestTypes, Steps
<1>2. StepsKnow
  BY DEF Finalise!Init, StepsKnow
<1>3. Finalise!SucceededIsChained
  BY DEF Finalise!Init, Finalise!QueueInit, Finalise!SucceededIsChained
<1> QED
  BY <1>1, <1>2, <1>3 DEF Finalise!Init, IngestInv, SweepsExpired, Finalise!NothingLost

\* Steps of the client, of time and of the takes: no handler moves.
LEMMA OutsideStep ==
  ASSUME IngestInv,
         \/ Finalise!SendLast \/ Finalise!PutDirect \/ Finalise!Expire
         \/ Finalise!Sweep \/ Finalise!SweepDefer
         \/ \E queued \in BOOLEAN : Finalise!AskDone(queued)
         \/ \E j \in Job : Finalise!Lapse(j)
         \/ UNCHANGED Finalise!vars
  PROVE  IngestInv'
<1> USE DEF Finalise!upload, Finalise!bytes, Finalise!handlers, Finalise!queueVars
<1>1. CASE Finalise!SendLast \/ Finalise!PutDirect \/ Finalise!Expire
  BY <1>1 DEF IngestInv, IngestTypes, StepsKnow, SweepsExpired, Finalise!NothingLost,
     Finalise!SucceededIsChained, Finalise!SendLast, Finalise!PutDirect, Finalise!Expire
<1>2. ASSUME NEW queued \in BOOLEAN, Finalise!AskDone(queued) PROVE IngestInv'
  <2>1. /\ state' \in [Job -> {"absent", "queued", "running", "succeeded", "dead"}]
        /\ \A i \in Job : state'[i] = "succeeded" => state[i] = "succeeded"
    BY <1>2 DEF Finalise!AskDone, Finalise!Enqueue, IngestInv, IngestTypes
  <2> QED
    BY <1>2, <2>1 DEF Finalise!AskDone, IngestInv, IngestTypes, StepsKnow, SweepsExpired,
       Finalise!NothingLost, Finalise!SucceededIsChained
<1>3. ASSUME NEW j \in Job, Finalise!Lapse(j) PROVE IngestInv'
  <2>1. /\ state' \in [Job -> {"absent", "queued", "running", "succeeded", "dead"}]
        /\ \A i \in Job : state'[i] = "succeeded" => state[i] = "succeeded"
    BY <1>3 DEF Finalise!Lapse, Finalise!TakeBack, IngestInv, IngestTypes
  <2> QED
    BY <1>3, <2>1 DEF Finalise!Lapse, IngestInv, IngestTypes, StepsKnow, SweepsExpired,
       Finalise!NothingLost, Finalise!SucceededIsChained
<1>4. CASE Finalise!SweepHead
  <2>1. /\ state' \in [Job -> {"absent", "queued", "running", "succeeded", "dead"}]
        /\ \A i \in Job : state'[i] = "succeeded" => state[i] = "succeeded"
    BY <1>4 DEF Finalise!SweepHead, Finalise!Enqueue, IngestInv, IngestTypes
  <2> QED
    BY <1>4, <2>1 DEF Finalise!SweepHead, Finalise!Sweeping, IngestInv, IngestTypes, StepsKnow,
       SweepsExpired, Finalise!NothingLost, Finalise!SucceededIsChained
<1>5. CASE Finalise!SweepList \/ Finalise!SweepDefer \/ Finalise!SweepDrop \/ Finalise!SweepUnstage
  BY <1>5 DEF IngestInv, IngestTypes, StepsKnow, SweepsExpired, Finalise!NothingLost,
     Finalise!SucceededIsChained, Finalise!SweepList, Finalise!SweepDefer, Finalise!SweepDrop,
     Finalise!SweepUnstage, Finalise!Sweeping
<1>6. CASE Finalise!SweepEnd
  BY <1>6 DEF IngestInv, IngestTypes, StepsKnow, SweepsExpired, Finalise!NothingLost,
     Finalise!SucceededIsChained, Finalise!SweepEnd, Finalise!Ended
<1>7. CASE UNCHANGED Finalise!vars
  BY <1>7 DEF Finalise!vars, IngestInv, IngestTypes, StepsKnow, SweepsExpired,
     Finalise!NothingLost, Finalise!SucceededIsChained
<1> QED BY <1>1, <1>2, <1>3, <1>4, <1>5, <1>6, <1>7 DEF Finalise!Sweep

\* A run goes on to a step whose knowledge it has, and undoes none of what the
\* others know.
LEMMA Moves ==
  ASSUME IngestInv, NEW w \in Worker, NEW s \in Steps,
         step' = [step EXCEPT ![w] = s],
         good' = good, expired' = expired, sent' = sent, takes' = takes,
         status' \in {"active", "completed", "terminated"},
         assets' \in Nat, asset' \in Nat,
         content => content', asset # 0 => asset' # 0, derive => derive',
         good /\ ~ expired /\ staging => staging' \/ content',
         s = "clear" => staging' \/ content',
         s \in {"redundant", "record", "insert", "unstage"} => content',
         s \in {"unstage", "chain", "ok"} => asset' # 0,
         s = "ok" => derive',
         state' \in [Job -> {"absent", "queued", "running", "succeeded", "dead"}],
         \A j \in Job : state'[j] = "succeeded" => state[j] = "succeeded" \/ (asset # 0 /\ derive),
         Finalise!NothingLost'
  PROVE  IngestInv'
<1>1. step' \in [Worker -> Steps] /\ step'[w] = s /\ \A v \in Worker \ {w} : step'[v] = step[v]
  BY DEF IngestInv, IngestTypes
<1>2. IngestTypes' /\ SweepsExpired'
  BY <1>1 DEF IngestInv, IngestTypes, SweepsExpired
<1>3. StepsKnow'
  <2> SUFFICES ASSUME NEW v \in Worker
               PROVE  /\ step'[v] = "clear" /\ good' /\ ~ expired' => staging' \/ content'
                      /\ step'[v] \in {"redundant", "record", "insert", "unstage"} => content'
                      /\ step'[v] \in {"unstage", "chain", "ok"} => asset' # 0
                      /\ step'[v] = "ok" => derive'
    BY DEF StepsKnow
  <2>1. CASE v = w
    BY <2>1, <1>1
  <2>2. CASE v # w
    BY <2>2, <1>1 DEF IngestInv, StepsKnow
  <2> QED BY <2>1, <2>2
<1>4. Finalise!SucceededIsChained'
  BY DEF IngestInv, Finalise!SucceededIsChained
<1> QED BY <1>2, <1>3, <1>4 DEF IngestInv

\* A step of one run, which ends or goes on knowing what its next step relies on.
LEMMA RunStep ==
  ASSUME IngestInv, NEW w \in Worker, Finalise!Handle(w) \/ Finalise!Fail(w)
  PROVE  IngestInv'
<1> USE DEF Steps, Finalise!upload, Finalise!bytes, Finalise!queueVars, Finalise!Goto
<1>a. IngestTypes /\ StepsKnow /\ Finalise!NothingLost /\ Finalise!SucceededIsChained
  BY DEF IngestInv
<1>1. CASE Finalise!Load(w)
  <2>1. PICK s \in {"declared", "assemble", "permanent"} : step' = [step EXCEPT ![w] = s]
    BY <1>1 DEF Finalise!Load
  <2> QED
    BY <1>1, <1>a, <2>1, Moves DEF IngestTypes, Finalise!NothingLost, Finalise!Load
<1>2. CASE Finalise!Fail(w)
  BY <1>2, <1>a, Moves DEF IngestTypes, Finalise!NothingLost, Finalise!Fail
<1>3. CASE Finalise!SaveCompleted(w)
  BY <1>3, <1>a, Moves DEF IngestTypes, Finalise!NothingLost, Finalise!SaveCompleted
<1>4. CASE Finalise!Assemble(w)
  <2>1. CASE held
    BY <1>4, <1>a, <2>1, Moves DEF IngestTypes, Finalise!NothingLost, Finalise!Assemble
  <2>2. CASE ~ held
    BY <1>4, <1>a, <2>2, Moves DEF IngestTypes, Finalise!NothingLost, Finalise!Assemble
  <2> QED BY <2>1, <2>2
<1>5. CASE Finalise!ClearTail(w)
  <2>1. Finalise!NothingLost'
    BY <1>5, <1>a DEF StepsKnow, Finalise!NothingLost, Finalise!ClearTail
  <2> QED
    BY <1>5, <1>a, <2>1, Moves DEF IngestTypes, Finalise!ClearTail
<1>6. CASE Finalise!Declared(w)
  <2>1. PICK s \in {"chain", "insert", "permanent", "promote"} :
          /\ step' = [step EXCEPT ![w] = s]
          /\ s = "chain" => asset # 0
          /\ s = "insert" => content
    BY <1>6 DEF Finalise!Declared, Finalise!Remaining
  <2> QED
    BY ZenonT(60), <1>6, <1>a, <2>1, Moves DEF IngestTypes, Finalise!NothingLost, Finalise!Declared
<1>7. CASE Finalise!Promote(w)
  <2>1. CASE ~ staging
    BY <1>7, <1>a, <2>1, Moves DEF IngestTypes, Finalise!NothingLost, Finalise!Promote
  <2>2. CASE staging /\ ~ good
    BY <1>7, <1>a, <2>2, Moves DEF IngestTypes, Finalise!NothingLost, Finalise!Promote
  <2>3. CASE staging /\ good
    <3>1. content'
      <4>1. content' = IF content THEN content ELSE TRUE
        BY <1>7, <2>3 DEF Finalise!Promote, Finalise!AlreadyPresent
      <4>2. CASE content
        BY <4>1, <4>2, Zenon
      <4>3. CASE ~ content
        BY <4>1, <4>3
      <4> QED BY <4>2, <4>3
    <3> QED
      BY <1>7, <1>a, <2>3, <3>1, Moves DEF IngestTypes, Finalise!NothingLost, Finalise!Promote
  <2> QED BY <2>1, <2>2, <2>3
<1>8. CASE Finalise!DropStaged(w)
  <2>1. content
    BY <1>8, <1>a DEF StepsKnow, Finalise!DropStaged
  <2> QED
    BY <1>8, <1>a, <2>1, Moves DEF IngestTypes, Finalise!NothingLost, Finalise!DropStaged
<1>9. CASE Finalise!RecordPromotion(w)
  <2>1. content
    BY <1>9, <1>a DEF StepsKnow, Finalise!RecordPromotion
  <2> QED
    BY <1>9, <1>a, <2>1, Moves DEF IngestTypes, Finalise!NothingLost, Finalise!RecordPromotion
<1>10. CASE Finalise!Insert(w)
  <2>1. content
    BY <1>10, <1>a DEF StepsKnow, Finalise!Insert
  <2>2. asset' \in Nat /\ asset' # 0 /\ assets' \in Nat
    BY <1>10, <1>a DEF IngestTypes, Finalise!Insert
  <2> QED
    BY <1>10, <1>a, <2>1, <2>2, Moves DEF IngestTypes, Finalise!NothingLost, Finalise!Insert
<1>11. CASE Finalise!Unstage(w)
  <2>1. content /\ asset # 0
    BY <1>11, <1>a DEF StepsKnow, Finalise!Unstage
  <2> QED
    BY <1>11, <1>a, <2>1, Moves DEF IngestTypes, Finalise!NothingLost, Finalise!Unstage
<1>12. CASE Finalise!Chain(w)
  <2>1. asset # 0
    BY <1>12, <1>a DEF StepsKnow, Finalise!Chain
  <2> QED
    BY <1>12, <1>a, <2>1, Moves DEF IngestTypes, Finalise!NothingLost, Finalise!Chain
<1> QED
  BY <1>1, <1>2, <1>3, <1>4, <1>5, <1>6, <1>7, <1>8, <1>9, <1>10, <1>11, <1>12
     DEF Finalise!Handle

\* A run begins, settles its job or dies.
LEMMA JobStep ==
  ASSUME IngestInv, NEW w \in Worker,
         \/ Finalise!Crash(w)
         \/ \E j \in Job : Finalise!Start(w, j) \/ Finalise!SettleJob(w, j)
  PROVE  IngestInv'
<1> USE DEF Steps, Finalise!upload, Finalise!bytes, Finalise!Goto
<1>a. IngestTypes /\ StepsKnow /\ Finalise!NothingLost
  BY DEF IngestInv
<1>1. CASE Finalise!Crash(w)
  BY <1>1, <1>a, Moves DEF IngestTypes, Finalise!NothingLost, Finalise!Crash, Finalise!Forget
<1>2. ASSUME NEW j \in Job, Finalise!Start(w, j) PROVE IngestInv'
  <2>1. /\ state' \in [Job -> {"absent", "queued", "running", "succeeded", "dead"}]
        /\ \A i \in Job : state'[i] = "succeeded" => state[i] = "succeeded"
    BY <1>2, <1>a DEF Finalise!Start, Finalise!Deliver, IngestTypes
  <2> QED
    BY <1>2, <1>a, <2>1, Moves DEF IngestTypes, Finalise!NothingLost, Finalise!Start
<1>3. ASSUME NEW j \in Job, Finalise!SettleJob(w, j) PROVE IngestInv'
  <2>1. /\ state' \in [Job -> {"absent", "queued", "running", "succeeded", "dead"}]
        /\ \A i \in Job : state'[i] = "succeeded" => state[i] = "succeeded" \/ step[w] = "ok"
    BY <1>3, <1>a DEF Finalise!SettleJob, Finalise!Settle, IngestTypes
  <2>2. step[w] = "ok" => asset # 0 /\ derive
    BY <1>a DEF StepsKnow
  <2> QED
    BY <1>3, <1>a, <2>1, <2>2, Moves DEF IngestTypes, Finalise!NothingLost, Finalise!SettleJob
<1> QED BY <1>1, <1>2, <1>3

\* The inductive invariant of the way from the last byte to the asset.
THEOREM IngestInvariance == Finalise!Spec => []IngestInv
<1>1. IngestInv /\ [Finalise!Next]_(Finalise!vars) => IngestInv'
  BY OutsideStep, RunStep, JobStep DEF Finalise!Next
<1> QED BY <1>1, IngestInitially, PTL DEF Finalise!Spec

\* Whichever runs overlap and wherever they die, an acceptable upload that is
\* completely sent and has not expired is somewhere, and one that became an asset
\* has its bytes and is not marked terminated.
THEOREM NothingLostAlways == Finalise!Spec => []NothingLost
<1>1. IngestInv => NothingLost
  BY DEF IngestInv, NothingLost
<1> QED BY <1>1, IngestInvariance, PTL

\* The job succeeds only when the asset exists and its derivatives were asked for.
THEOREM SucceededIsChainedAlways == Finalise!Spec => []SucceededIsChained
<1>1. IngestInv => SucceededIsChained
  BY DEF IngestInv, SucceededIsChained
<1> QED BY <1>1, IngestInvariance, PTL

----------------------------------------------------------------------------
(* Restores.                                                               *)

PollSteps == {"idle", "issue", "refused", "check", "reissue", "refused_again", "mark"}

\* A poll that is about to mark has found the request to mark.
BadgeInv ==
  /\ req \in [Request -> Restore!RequestState]
  /\ poll \in [Poller -> PollSteps] /\ at \in [Poller -> Request \cup {NoRequest}]
  /\ todo \in [Poller -> SUBSET Request] /\ crossed \in BOOLEAN
  /\ \A p \in Poller : poll[p] \in {"refused", "reissue", "refused_again", "mark"} =>
                         at[p] \in Request
  /\ Restore!BadgeIsTrue

\* A step that makes no request available, lapses none and is no poll's.
LEMMA BadgeKept ==
  ASSUME BadgeInv,
         req' \in [Request -> Restore!RequestState],
         \A r \in Request : req'[r] = "available" <=> req[r] = "available",
         UNCHANGED <<badge, crossed, poll, todo, at>>
  PROVE  BadgeInv'
BY DEF BadgeInv, Restore!BadgeIsTrue

LEMMA RestoreStep ==
  ASSUME BadgeInv, [Restore!Next]_(Restore!vars)
  PROVE  BadgeInv'
<1> USE DEF Restore!rows, Restore!store, Restore!polls, Restore!Goto
<1>a. /\ req \in [Request -> Restore!RequestState] /\ Restore!BadgeIsTrue
      /\ poll \in [Poller -> PollSteps] /\ at \in [Poller -> Request \cup {NoRequest}]
      /\ todo \in [Poller -> SUBSET Request] /\ crossed \in BOOLEAN
      /\ \A p \in Poller : poll[p] \in {"refused", "reissue", "refused_again", "mark"} =>
                             at[p] \in Request
  BY DEF BadgeInv
<1>1. ASSUME NEW r \in Request, Restore!AskFor(r) \/ Restore!Approve(r) \/ Restore!WindowPasses(r)
      PROVE  BadgeInv'
  <2>1. /\ req' \in [Request -> Restore!RequestState]
        /\ \A s \in Request : req'[s] = "available" <=> req[s] = "available"
    BY <1>1, <1>a DEF Restore!AskFor, Restore!Approve, Restore!WindowPasses, Restore!RequestState
  <2>2. UNCHANGED <<badge, crossed, poll, todo, at>>
    BY <1>1 DEF Restore!AskFor, Restore!Approve, Restore!WindowPasses
  <2> QED BY <1>a, <2>1, <2>2, BadgeKept
<1>2. ASSUME \/ Restore!CopyArrives \/ Restore!CopyLapses \/ Restore!PlanMove \/ Restore!Move
             \/ Restore!RecordMove \/ Restore!SweepCut \/ UNCHANGED Restore!vars
      PROVE  BadgeInv'
  <2>1. UNCHANGED <<req, badge, crossed, poll, todo, at>>
    BY <1>2 DEF Restore!CopyArrives, Restore!CopyLapses, Restore!PlanMove, Restore!Move,
       Restore!RecordMove, Restore!SweepCut, Restore!vars
  <2> QED BY <1>a, <2>1, BadgeKept
<1>3. ASSUME NEW p \in Poller, Restore!MarkAvailable(p) PROVE BadgeInv'
  <2>1. /\ req' = IF req[at[p]] = "requested" THEN [req EXCEPT ![at[p]] = "available"] ELSE req
        /\ crossed' = (crossed \/ req[at[p]] # "requested")
        /\ badge' = "available" /\ at[p] \in Request
        /\ poll' = [poll EXCEPT ![p] = "check"] /\ at' = [at EXCEPT ![p] = NoRequest]
        /\ todo' = [todo EXCEPT ![p] = todo[p] \ {at[p]}]
    BY <1>3, <1>a DEF Restore!MarkAvailable, Restore!BadgeMarked
  <2>2. /\ req' \in [Request -> Restore!RequestState]
        /\ req[at[p]] = "requested" => req'[at[p]] = "available"
    BY <1>a, <2>1 DEF Restore!RequestState
  <2>3. Restore!BadgeIsTrue' /\ crossed' \in BOOLEAN
    BY <1>a, <2>1, <2>2 DEF Restore!BadgeIsTrue
  <2> QED BY <1>a, <2>1, <2>2, <2>3 DEF BadgeInv, PollSteps
<1>4. ASSUME NEW p \in Poller, Restore!Expire(p) PROVE BadgeInv'
  <2>1. /\ req' = [r \in Request |-> IF req[r] = "available" /\ r \in due THEN "expired"
                                     ELSE req[r]]
        /\ badge' = IF req' # req THEN "expired" ELSE badge
        /\ crossed' = (crossed \/ (req' # req /\ \E r \in Request : req'[r] = "available"))
        /\ poll' = [poll EXCEPT ![p] = "idle"] /\ at' = at /\ todo' = [todo EXCEPT ![p] = {}]
    BY <1>4 DEF Restore!Expire
  <2>2. req' \in [Request -> Restore!RequestState]
    BY <1>a, <2>1 DEF Restore!RequestState
  <2>3. Restore!BadgeIsTrue' /\ crossed' \in BOOLEAN
    BY <1>a, <2>1 DEF Restore!BadgeIsTrue
  <2> QED BY <1>a, <2>1, <2>2, <2>3 DEF BadgeInv, PollSteps
<1>5. ASSUME NEW p \in Poller, Restore!Claim(p) \/ Restore!MarkFailed(p) PROVE BadgeInv'
  <2>1. /\ req' \in [Request -> Restore!RequestState]
        /\ \A s \in Request : req'[s] = "available" <=> req[s] = "available"
    BY <1>5, <1>a DEF Restore!Claim, Restore!MarkFailed, Restore!RequestState
  <2>2. UNCHANGED <<badge, crossed>>
    BY <1>5 DEF Restore!Claim, Restore!MarkFailed
  <2>3. PICK s \in {"issue", "check"} :
          /\ poll' = [poll EXCEPT ![p] = s]
          /\ at' = at \/ at' = [at EXCEPT ![p] = NoRequest]
          /\ \E S \in SUBSET Request : todo' = [todo EXCEPT ![p] = S]
    BY <1>5, <1>a DEF Restore!Claim, Restore!MarkFailed
  <2>4. /\ poll' \in [Poller -> PollSteps] /\ at' \in [Poller -> Request \cup {NoRequest}]
        /\ todo' \in [Poller -> SUBSET Request]
        /\ \A q \in Poller : poll'[q] \in {"refused", "reissue", "refused_again", "mark"} =>
                               at'[q] \in Request
    BY <1>a, <2>3 DEF PollSteps
  <2>5. Restore!BadgeIsTrue'
    BY <1>a, <2>1, <2>2 DEF Restore!BadgeIsTrue
  <2> QED BY <1>a, <2>1, <2>2, <2>4, <2>5 DEF BadgeInv
<1>6. ASSUME NEW p \in Poller,
             \/ Restore!Issue(p) \/ Restore!List(p) \/ Restore!Reissue(p) \/ Restore!PollCut(p)
             \/ \E r \in Request : Restore!Head(p, r)
      PROVE  BadgeInv'
  <2>1. UNCHANGED <<req, badge, crossed>>
    BY <1>6 DEF Restore!Issue, Restore!List, Restore!Reissue, Restore!PollCut, Restore!Head
  <2>2. /\ todo' \in [Poller -> SUBSET Request]
        /\ \E s \in PollSteps, r \in Request \cup {NoRequest} :
             /\ poll' = [poll EXCEPT ![p] = s]
             /\ at' = at \/ at' = [at EXCEPT ![p] = r]
             /\ s \in {"refused", "reissue", "refused_again", "mark"} => at'[p] \in Request
    <3>1. CASE Restore!Issue(p)
      <4>1. PICK R \in SUBSET todo[p] :
              \/ /\ poll' = [poll EXCEPT ![p] = "issue"] /\ at' = at
                 /\ todo' = [todo EXCEPT ![p] = todo[p] \ R]
              \/ /\ poll' = [poll EXCEPT ![p] = "refused"] /\ todo' = todo
                 /\ \E r \in R : at' = [at EXCEPT ![p] = r]
        BY <3>1 DEF Restore!Issue
      <4> QED BY <1>a, <4>1 DEF PollSteps
    <3>2. CASE Restore!List(p) \/ Restore!PollCut(p)
      BY <3>2, <1>a DEF Restore!List, Restore!PollCut, PollSteps
    <3>3. CASE Restore!Reissue(p)
      BY <3>3, <1>a DEF Restore!Reissue, PollSteps
    <3>4. ASSUME NEW r \in Request, Restore!Head(p, r)
          PROVE  /\ todo' \in [Poller -> SUBSET Request]
                 /\ \E s \in PollSteps : /\ poll' = [poll EXCEPT ![p] = s]
                                         /\ \/ at' = [at EXCEPT ![p] = r]
                                            \/ at' = at /\ s = "check"
      BY <3>4, <1>a DEF Restore!Head, PollSteps
    <3> QED BY <1>6, <1>a, <3>1, <3>2, <3>3, <3>4
  <2>3. Restore!BadgeIsTrue'
    BY <1>a, <2>1 DEF Restore!BadgeIsTrue
  <2>4. /\ poll' \in [Poller -> PollSteps] /\ at' \in [Poller -> Request \cup {NoRequest}]
        /\ \A q \in Poller : poll'[q] \in {"refused", "reissue", "refused_again", "mark"} =>
                               at'[q] \in Request
    BY <1>a, <2>2
  <2> QED BY <1>a, <2>1, <2>2, <2>3, <2>4 DEF BadgeInv
<1> QED BY <1>1, <1>2, <1>3, <1>4, <1>5, <1>6 DEF Restore!Next, Restore!PollStep

\* The tier badge and the requests agree, for any number of requests and of polls
\* that overlap, until a request's window ends while another's is open or a slow
\* poll marks a request that an overlapping one has failed.
THEOREM BadgeIsTrueAlways == Restore!Spec => []BadgeIsTrue
<1>1. Restore!Init => BadgeInv
  <2> SUFFICES ASSUME Restore!Init PROVE BadgeInv
    OBVIOUS
  <2>1. \A r \in Request : req[r] # "available"
    BY DEF Restore!Init
  <2>2. Restore!BadgeIsTrue
    BY <2>1 DEF Restore!Init, Restore!BadgeIsTrue
  <2> QED BY <2>2 DEF Restore!Init, BadgeInv, PollSteps, Restore!RequestState
<1>2. BadgeInv /\ [Restore!Next]_(Restore!vars) => BadgeInv'
  BY RestoreStep
<1>3. BadgeInv => BadgeIsTrue
  BY DEF BadgeInv, BadgeIsTrue
<1> QED BY <1>1, <1>2, <1>3, PTL DEF Restore!Spec
============================================================================
