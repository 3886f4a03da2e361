----------------------------- MODULE MCServices -----------------------------
(* Two services that owe an answer, with the fairness each one's scheduling
   justifies: the finalisation of an upload with its sweep, and the restores of
   an archived object.  A behaviour is one of them; the other stays as it
   starts.                                                                  *)
EXTENDS Naturals

CONSTANTS
  Job, Worker, Key, NoKey, K, MaxAttempts, Via,
  Request, Poller, NoRequest, LongOutage, MaxFaults

VARIABLES
  part,
  state, key, claims, working, via, good, status, sent, hash, asset, expired, held,
  staging, content, assets, derive, asking, step, takes,
  req, due, class, copy, placed, badge, poll, todo, at, sweep, moved, faults, crossed

ingestVars ==
  <<state, key, claims, working, via, good, status, sent, hash, asset, expired, held,
    staging, content, assets, derive, asking, step, takes>>

restoreVars == <<req, due, class, copy, placed, badge, poll, todo, at, sweep, moved,
                 faults, crossed>>

Finalise == INSTANCE Ingest WITH sweep <- takes

Restore == INSTANCE Restores

Init ==
  /\ part \in {"ingest", "restore"}
  /\ Finalise!Init /\ (part # "ingest" => via = "tus" /\ good /\ ~ content)
  /\ Restore!Init /\ (part # "restore" => class = "STANDARD")

Next ==
  /\ part' = part
  /\ \/ part = "ingest" /\ Finalise!Next /\ UNCHANGED restoreVars
     \/ part = "restore" /\ Restore!Next /\ UNCHANGED ingestVars

FairSpec ==
  /\ Init /\ [][Next]_<<part, ingestVars, restoreVars>>
  /\ \/ part = "ingest" /\ Finalise!Fairness
     \/ part = "restore" /\ Restore!Fairness

NothingLost == Finalise!NothingLost
SucceededIsChained == Finalise!SucceededIsChained
EventuallyEnds == Finalise!EventuallyEnds
BadgeIsTrue == Restore!BadgeIsTrue
Answered == Restore!Answered
=============================================================================
