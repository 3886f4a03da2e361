------------------------------ MODULE MCLibrary ------------------------------
(* What requests and jobs do to the assets of a library: a bulk operation, the
   refresh of a search document, a proofing round, the terms of a vocabulary,
   the versions of assets, a backfill.  A behaviour is one of them; the others
   stay as they start.                                                      *)
EXTENDS BulkOperation, Proofing, TLC

CONSTANTS
  IndexJob, Damctl, Nobody, MaxChanges, MaxReindexes, MaxFaults,
  Term, Picture, NoTerm, MaxFilings,
  Version, NoVersion, MaxRevisions,
  Undescribed, Slice, Limit, MICRO, MaxRuns, MaxBatches

VARIABLES
  part,
  rowState, rowKey, rowClaims, rowWorking,
  version, pending, asked, doc, writer, step, got, reindexes, faults,
  absorbed, handed, raced, died,
  life, parent, into, tag, filing, filings, filed, mixed, redirected,
  group, number, current, attached, deleted, revision, revisions, hidden,
  opened, used, remainder, configured, proxied, sent, jobs, asking, job, doing, pick, hand,
  batch, spend, any, failures, cut, lapsed, lost

refreshVars ==
  <<rowState, rowKey, rowClaims, rowWorking, version, pending, asked, doc, writer,
    step, got, reindexes, faults, absorbed, handed, raced, died>>

termVars == <<life, parent, into, tag, filing, filings, filed, mixed, redirected>>

versionVars == <<group, number, current, attached, deleted, revision, revisions, hidden>>

fillVars ==
  <<opened, used, remainder, configured, proxied, sent, jobs, asking, job, doing, pick, hand,
    batch, spend, any, failures, cut, lapsed, lost>>

Search == INSTANCE IndexRefresh WITH
  Job <- IndexJob, state <- rowState, key <- rowKey, claims <- rowClaims,
  working <- rowWorking

Terms == INSTANCE Taxonomy WITH
  Asset <- Picture, Request <- Judgement, MaxRequests <- MaxFilings,
  request <- filing, begun <- filings, crowded <- mixed

Versions == INSTANCE Versions WITH
  Asset <- Version, NoAsset <- NoVersion, Request <- Judgement,
  MaxRequests <- MaxRevisions, Deletes <- TRUE,
  request <- revision, begun <- revisions

Fill == INSTANCE Backfill WITH
  Assets <- Undescribed, run <- opened, faults <- failures

\* Two workers with one asset, or one at a time with one batch.
FillFits ==
  \/ proxied \subseteq {1} /\ \A a \in Fill!Asset \ {1} : Fill!Description(a) \notin jobs
  \/ /\ \A b \in Fill!Batch \ {1} : sent[b] = Fill!NoBatch
     /\ \A v, w \in Worker : job[v] # Fill!Idle /\ job[w] # Fill!Idle => v = w

AnyInit ==
  /\ part \in {"bulk", "refresh", "round", "terms", "versions", "fill"}
  /\ Init /\ (part # "bulk" => kind = "delete" /\ \A a \in Asset : fate[a] = "done")
  /\ Search!Init
  /\ RoundInit
  /\ Terms!TermInit /\ (part # "terms" => \A t \in Term : life[t] = "live")
  /\ Versions!VersionInit
  /\ Fill!Init /\ (part # "fill" => proxied = {})

AnyNext ==
  /\ part' = part
  /\ part # "bulk" => UNCHANGED vars
  /\ part # "refresh" => UNCHANGED refreshVars
  /\ part # "round" => UNCHANGED roundVars
  /\ part # "terms" => UNCHANGED termVars
  /\ part # "versions" => UNCHANGED versionVars
  /\ part # "fill" => UNCHANGED fillVars
  /\ \/ part = "bulk" /\ Next
     \/ part = "refresh" /\ Search!Next
     \/ part = "round" /\ RoundNext
     \/ part = "terms" /\ Terms!TermNext
     \/ part = "versions" /\ Versions!VersionNext
     \/ part = "fill" /\ Fill!Next /\ FillFits'

AnySpec ==
  /\ AnyInit
  /\ [][AnyNext]_<<part, vars, refreshVars, roundVars, termVars, versionVars, fillVars>>

\* The parts share the values of workers and requests, and of index jobs, terms
\* and versions.
Symmetric == Permutations(Worker) \cup Permutations(Term)

AskedIsIndexed == Search!AskedIsIndexed
NeverGoesBack == Search!NeverGoesBack
MeaningKept == Terms!MeaningKept
VocabularyIsSound == Terms!VocabularyIsSound
RowPerGroup == Versions!RowPerGroup
OpenIsWatched == Fill!OpenIsWatched
SpendIsSeen == Fill!SpendIsSeen
OneSubmission == Fill!OneSubmission
=============================================================================
