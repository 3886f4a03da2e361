----------------------------- MODULE MCRecords -----------------------------
(* What is kept about an asset and who may have it: its upload with every kind
   of request beside it, and one that is only finalised, twice; its
   distribution; the audit log and a hand that tampers with it; an order and
   its pickups.  A behaviour is one of them; the others stay as they start.  *)
EXTENDS MCDistribution, AuditChain, Orders, UploadSession

CONSTANTS
  Second,  \* the finalisations that take no part where uploads are removed
  Shorter  \* bound: the longest file of an upload that is removed

VARIABLE part

AnyInit ==
  /\ part \in {"upload", "finals", "distribution", "audit", "order"}
  /\ UploadInit
  /\ part = "upload" => row.declared <= Shorter
  /\ part \notin {"upload", "finals"} => row.declared = 1
  /\ Init /\ (part # "distribution" => attached = CHOOSE p \in Portfolio : TRUE)
  /\ AuditInit
  /\ OrderInit

AnyNext ==
  /\ part' = part
  /\ part \notin {"upload", "finals"} => UNCHANGED uploadVars
  /\ part # "distribution" => UNCHANGED askVars
  /\ part # "audit" => UNCHANGED auditVars
  /\ part # "order" => UNCHANGED orderVars
  /\ \/ part = "upload" /\ \E p \in Proc \ Second : Act(p)
     \/ part = "finals" /\ \E p \in Patcher \cup Finisher : Act(p)
     \/ part = "distribution" /\ Next
     \/ part = "audit" /\ AuditNext
     \/ part = "order" /\ OrderNext

AnySpec ==
  AnyInit /\ [][AnyNext]_<<part, uploadVars, askVars, auditVars, orderVars>>

\* What is assembled is the client's file, also beside a DELETE and a sweep; and a
\* completed upload has it there, also when two finalisations overlap.
StagedIsFile ==
  /\ AssembledIsFile
  /\ part = "finals" => CompletedIsStaged

\* What the offset acknowledges is in the store, unless it was removed.
OffsetIsStored == part = "finals" => PrefixIsStored
=============================================================================
