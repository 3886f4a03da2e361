----------------------------- MODULE MCProtocols -----------------------------
(* Protocols whose questions are all of safety: the job table and its workers,
   the claim order, the members of a tenant, what their roles allow, and what
   people and models say about an asset.  A behaviour is one of them; the
   others stay as they start.                                               *)
EXTENDS JobQueue, Members, Access, Metadata, TLC

CONSTANTS
  Customer, Priority, Batch, MaxId, Moments

VARIABLES
  part,
  rows, moment, lastId, ahead, waited

claimVars == <<rows, moment, lastId, ahead, waited>>

Claims == INSTANCE ClaimOrder WITH
  Tenant <- Customer, Limit <- Batch, MaxTime <- Moments, now <- moment

Read == <<"asset", "read">>
Download == <<"asset", "download">>

Row(permissions, groups, all, from, until, eula) ==
  [permissions |-> permissions, groups |-> groups, all |-> all, from |-> from,
   until |-> until, eula |-> eula, accepted |-> FALSE]

\* A press role behind terms of use, one that ends, one that starts, and one
\* that only looks.
Rows ==
  {Row({Read, Download}, {"press"}, FALSE, {}, {}, TRUE),
   Row({Read, Download}, {"brand"}, FALSE, {}, {1}, FALSE),
   Row({<<"asset", "*">>}, {}, TRUE, {1}, {}, FALSE),
   Row({Read}, {"press", "brand"}, FALSE, {}, {}, FALSE)}

Scopings == {{}, {Read}, {Read, Download}}

AnyInit ==
  /\ part \in {"queue", "claim", "members", "access", "edits"}
  /\ Init
  /\ Claims!Init
  /\ MemberInit /\ (part # "members" => \A t \in Tenant : admins[t] = Person)
  /\ AccessInit
  /\ part # "access" =>
       /\ scopes = {}
       /\ asset = [groups |-> {}, release |-> {}, expires |-> {}, legalHold |-> FALSE,
                   rights |-> "clear", deleted |-> FALSE]
  /\ EditInit /\ (part # "edits" => \A f \in Field : values[f] = "nobody")

AnyNext ==
  /\ part' = part
  /\ part # "queue" => UNCHANGED vars
  /\ part # "claim" => UNCHANGED claimVars
  /\ part # "members" => UNCHANGED memberVars
  /\ part # "access" => UNCHANGED accessVars
  /\ part # "edits" => UNCHANGED editVars
  /\ \/ part = "queue" /\ Next
     \/ part = "claim" /\ Claims!Next
     \/ part = "members" /\ MemberNext
     \/ part = "access" /\ AccessNext
     \/ part = "edits" /\ EditNext

AnySpec ==
  AnyInit /\ [][AnyNext]_<<part, vars, claimVars, memberVars, accessVars, editVars>>

Symmetric ==
  Permutations(Worker) \cup Permutations(Job) \cup Permutations(Customer)

QuietTenantServed == Claims!QuietTenantServed
BackgroundAdvances == Claims!BackgroundAdvances
=============================================================================
