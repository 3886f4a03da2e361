------------------------------ MODULE Restores ------------------------------
(***************************************************************************)
(* One archived object: the requests to bring it back                       *)
(* (dam-db/src/restores.rs), the polls that drive them and the sweep that   *)
(* moves the object to a colder class (dam-pipeline/src/tiering.rs), its    *)
(* placement row, and the store's own state, whose lapse is the store's     *)
(* clock (dam-store/src/fake.rs, restore_state_now).                        *)
(*                                                                          *)
(* An action is one transaction or one call of the store; polls overlap,    *)
(* because a job's lease can lapse under a slow poll.                       *)
(***************************************************************************)
EXTENDS Naturals, FiniteSets

CONSTANTS
  Request,     \* rows of restore_requests that may ever be inserted
  Poller,      \* runs of restore_poll that can be under way together
  NoRequest,
  LongOutage,  \* no poll may run for as long as a copy lasts, a day or more
  MaxFaults    \* bound of the model: polls and sweeps cut short

\* Storage classes from warm to cold.
Class == {"STANDARD", "GLACIER", "DEEP_ARCHIVE"}

Colder == {<<"STANDARD", "GLACIER">>, <<"STANDARD", "DEEP_ARCHIVE">>,
           <<"GLACIER", "DEEP_ARCHIVE">>}

RequiresRestore(c) == c \in {"GLACIER", "DEEP_ARCHIVE"}

VARIABLES
  req,        \* each request's state
  due,        \* requests whose expires_at has passed
  class, copy,  \* the object in the store: its class and its temporary copy
  placed, badge, \* the placement: storage_class and restore_state
  poll,       \* each poll's step
  todo,       \* what its step still has to handle
  at,         \* the request its step is about
  sweep,      \* the sweep: idle, or the class it is moving the object to
  moved,      \* the sweep's move was made and is not recorded
  faults,
  crossed     \* a lapse or a mark met another request's copy (history)

rows  == <<req, due, placed, badge>>
store == <<class, copy>>
polls == <<poll, todo, at>>
vars  == <<rows, store, polls, sweep, moved, faults, crossed>>

RequestState == {"absent", "queued", "awaiting_approval", "requested",
                 "available", "expired", "failed"}

\* restore_requests_inflight_idx.
InFlight(r) == req[r] \in {"queued", "awaiting_approval", "requested"}

Readable == ~ RequiresRestore(class) \/ copy = "available"

Init ==
  /\ req = [r \in Request |-> "absent"] /\ due = {}
  /\ class \in {"STANDARD", "GLACIER"} /\ copy = "none"
  /\ placed = class /\ badge = "none"
  /\ poll = [p \in Poller |-> "idle"]
  /\ todo = [p \in Poller |-> {}]
  /\ at = [p \in Poller |-> NoRequest]
  /\ sweep = "idle" /\ moved = FALSE
  /\ faults = 0 /\ crossed = FALSE

Fault == faults < MaxFaults /\ faults' = faults + 1

----------------------------------------------------------------------------
(* The API.                                                                *)

\* POST /assets/{id}/restore: planned from the placement, refused while it is
\* not archived, held when it costs more than the threshold, and answered with
\* the request in flight if there is one.
AskFor(r) ==
  /\ req[r] = "absent" /\ RequiresRestore(placed)
  /\ \A s \in Request : ~ InFlight(s)
  /\ \E state \in {"queued", "awaiting_approval"} : req' = [req EXCEPT ![r] = state]
  /\ UNCHANGED <<due, placed, badge, store, polls, sweep, moved, faults, crossed>>

Approve(r) ==
  /\ req[r] = "awaiting_approval"
  /\ req' = [req EXCEPT ![r] = "queued"]
  /\ UNCHANGED <<due, placed, badge, store, polls, sweep, moved, faults, crossed>>

----------------------------------------------------------------------------
(* The store.                                                              *)

\* begin_restore, of an object that can be restored: a copy that is coming or
\* there is left alone.
BeginRestore == copy' = IF copy \in {"ongoing", "available"} THEN copy ELSE "ongoing"

CopyArrives ==
  /\ copy = "ongoing" /\ copy' = "available"
  /\ UNCHANGED <<rows, class, polls, sweep, moved, faults, crossed>>

CopyLapses ==
  /\ copy = "available" /\ copy' = "expired"
  /\ LongOutage \/ \A r \in Request : req[r] # "requested"
  /\ UNCHANGED <<rows, class, polls, sweep, moved, faults, crossed>>

\* now passes a request's expires_at.
WindowPasses(r) ==
  /\ req[r] = "available" /\ r \notin due
  /\ due' = due \cup {r}
  /\ UNCHANGED <<req, placed, badge, store, polls, sweep, moved, faults, crossed>>

----------------------------------------------------------------------------
(* A poll.                                                                 *)

Goto(p, step, set) ==
  /\ poll' = [poll EXCEPT ![p] = step]
  /\ todo' = [todo EXCEPT ![p] = set]

\* claim_queued, committed before anything is asked of the store.
Claim(p) ==
  /\ poll[p] = "idle"
  /\ LET queued == {r \in Request : req[r] = "queued"} IN
       /\ req' = [r \in Request |-> IF r \in queued THEN "requested" ELSE req[r]]
       /\ Goto(p, "issue", queued)
  /\ UNCHANGED <<due, placed, badge, store, at, sweep, moved, faults, crossed>>

\* issue, one request or a batch job: the store begins, refuses, or begins and
\* does not say so.
Issue(p) ==
  /\ poll[p] = "issue"
  /\ \E R \in SUBSET todo[p] \ {{}} :
       \/ /\ BeginRestore
          /\ Goto(p, "issue", todo[p] \ R) /\ UNCHANGED at
       \/ /\ copy' = copy \/ BeginRestore
          /\ \E r \in R :
               /\ poll' = [poll EXCEPT ![p] = "refused"]
               /\ at' = [at EXCEPT ![p] = r] /\ UNCHANGED todo
  /\ UNCHANGED <<rows, class, sweep, moved, faults, crossed>>

\* record_issue_failure, which leaves only an available request alone.
MarkFailed(p) ==
  /\ poll[p] \in {"refused", "refused_again"}
  /\ req' = IF req[at[p]] = "available" THEN req ELSE [req EXCEPT ![at[p]] = "failed"]
  /\ Goto(p, IF poll[p] = "refused" THEN "issue" ELSE "check", todo[p] \ {at[p]})
  /\ at' = [at EXCEPT ![p] = NoRequest]
  /\ UNCHANGED <<due, placed, badge, store, sweep, moved, faults, crossed>>

\* due_for_poll.
List(p) ==
  /\ poll[p] = "issue" /\ todo[p] = {}
  /\ Goto(p, "check", {r \in Request : req[r] = "requested"})
  /\ UNCHANGED <<rows, store, at, sweep, moved, faults, crossed>>

\* The bug: a request that was claimed is waited for.
NeverLost == FALSE

\* A request over an object with no restore in progress never reached it.
Lost == copy = "none" /\ ~ Readable

\* head, and what it calls for.
Head(p, r) ==
  /\ poll[p] = "check" /\ r \in todo[p]
  /\ \/ Lost /\ Goto(p, "reissue", todo[p]) /\ at' = [at EXCEPT ![p] = r]
     \/ Readable /\ Goto(p, "mark", todo[p]) /\ at' = [at EXCEPT ![p] = r]
     \/ ~ Lost /\ ~ Readable /\ Goto(p, "check", todo[p] \ {r}) /\ UNCHANGED at
  /\ UNCHANGED <<rows, store, sweep, moved, faults, crossed>>

Reissue(p) ==
  /\ poll[p] = "reissue"
  /\ \/ /\ BeginRestore
        /\ Goto(p, "check", todo[p] \ {at[p]}) /\ at' = [at EXCEPT ![p] = NoRequest]
     \/ /\ copy' = copy /\ poll' = [poll EXCEPT ![p] = "refused_again"]
        /\ UNCHANGED <<todo, at>>
  /\ UNCHANGED <<rows, class, sweep, moved, faults, crossed>>

\* The bug: only the request is told.
BadgeUnmarked == badge

BadgeMarked == "available"

\* mark_available and placement_restored: the request if it is still waited
\* for, the placement whatever became of the request.
MarkAvailable(p) ==
  /\ poll[p] = "mark"
  /\ req' = IF req[at[p]] = "requested" THEN [req EXCEPT ![at[p]] = "available"] ELSE req
  /\ crossed' = (crossed \/ req[at[p]] # "requested")
  /\ badge' = BadgeMarked
  /\ Goto(p, "check", todo[p] \ {at[p]}) /\ at' = [at EXCEPT ![p] = NoRequest]
  /\ UNCHANGED <<due, placed, store, sweep, moved, faults>>

\* sweep_expired and placement_lapsed.
Expire(p) ==
  /\ poll[p] = "check" /\ todo[p] = {}
  /\ req' = [r \in Request |-> IF req[r] = "available" /\ r \in due THEN "expired" ELSE req[r]]
  /\ badge' = IF req' # req THEN "expired" ELSE badge
  /\ crossed' = (crossed \/ (req' # req /\ \E r \in Request : req'[r] = "available"))
  /\ Goto(p, "idle", {})
  /\ UNCHANGED <<due, placed, store, at, sweep, moved, faults>>

\* A worker dies, or a head or a statement fails and the job with it.
PollCut(p) ==
  /\ poll[p] # "idle" /\ Fault
  /\ Goto(p, "idle", {}) /\ at' = [at EXCEPT ![p] = NoRequest]
  /\ UNCHANGED <<rows, store, sweep, moved, crossed>>

----------------------------------------------------------------------------
(* The sweep.                                                              *)

\* candidates and examine: what the placement says, before any move.
PlanMove ==
  /\ sweep = "idle" /\ badge # "available"
  /\ \E to \in Class : <<placed, to>> \in Colder /\ sweep' = to
  /\ UNCHANGED <<rows, store, polls, moved, faults, crossed>>

\* transition: a self-copy, which the temporary copy does not survive.
Move ==
  /\ sweep # "idle" /\ ~ moved
  /\ \/ class' = sweep /\ copy' = "none" /\ moved' = TRUE /\ UNCHANGED sweep
     \/ sweep' = "idle" /\ UNCHANGED <<store, moved>>
  /\ UNCHANGED <<rows, polls, faults, crossed>>

\* transitioned.
RecordMove ==
  /\ moved /\ placed' = sweep
  /\ sweep' = "idle" /\ moved' = FALSE
  /\ UNCHANGED <<req, due, badge, store, polls, faults, crossed>>

SweepCut ==
  /\ moved /\ Fault
  /\ sweep' = "idle" /\ moved' = FALSE
  /\ UNCHANGED <<rows, store, polls, crossed>>

----------------------------------------------------------------------------
PollStep(p) ==
  \/ Claim(p) \/ Issue(p) \/ MarkFailed(p) \/ List(p)
  \/ \E r \in Request : Head(p, r)
  \/ Reissue(p) \/ MarkAvailable(p) \/ Expire(p)

Next ==
  \/ \E r \in Request : AskFor(r) \/ Approve(r) \/ WindowPasses(r)
  \/ CopyArrives \/ CopyLapses
  \/ \E p \in Poller : PollStep(p) \/ PollCut(p)
  \/ PlanMove \/ Move \/ RecordMove \/ SweepCut

Spec == Init /\ [][Next]_vars

\* The chain polls on (JobChains), and a retrieval ends.
Fairness ==
  /\ \A p \in Poller : WF_vars(PollStep(p))
  /\ WF_vars(CopyArrives)

FairSpec == Spec /\ Fairness

----------------------------------------------------------------------------
(* Properties.                                                             *)

TypeOK ==
  /\ req \in [Request -> RequestState] /\ due \subseteq Request
  /\ class \in Class /\ placed \in Class
  /\ copy \in {"none", "ongoing", "available", "expired"}
  /\ badge \in {"none", "available", "expired"}
  /\ poll \in [Poller -> {"idle", "issue", "refused", "check", "reissue",
                          "refused_again", "mark"}]
  /\ todo \in [Poller -> SUBSET Request]
  /\ at \in [Poller -> Request \cup {NoRequest}]
  /\ sweep \in Class \cup {"idle"} /\ moved \in BOOLEAN
  /\ faults \in 0..MaxFaults /\ crossed \in BOOLEAN

\* The tier badge and the requests agree ("Marking only the request would leave
\* a restored asset still drawing as archive in the grid"), until a request's
\* window ends while another's is open, or a slow poll marks a request that an
\* overlapping one has failed.
BadgeIsTrue ==
  ~ crossed => (badge = "available" <=> \E r \in Request : req[r] = "available")

\* A request that was claimed is answered, though the poll that claimed it may
\* die before it asks the store, and the sweep may move the object under it; the
\* exception is an object whose last copy has lapsed.
Answered ==
  \A r \in Request :
    req[r] = "requested" ~> req[r] \in {"available", "failed", "expired"} \/ copy = "expired"

\* "A request that never reached it is re-issued rather than waited on forever."
NeverStranded ==
  \A r \in Request : req[r] = "requested" ~> req[r] \in {"available", "failed", "expired"}
=============================================================================
