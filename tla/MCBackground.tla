---------------------------- MODULE MCBackground ----------------------------
(* The job table, and a background chain on the deliveries it promises, with
   the fairness each one's scheduling justifies.  A behaviour is one of the two;
   the other stays as it starts.                                            *)
EXTENDS JobChains

CONSTANTS Row, NoRow, NoWorker, Limit

VARIABLES
  part,
  row, rowKey, attempts, lockedBy, lapsed, due, pc, snap, ticket, cur, rowClaims

tableVars ==
  <<row, rowKey, attempts, lockedBy, lapsed, due, pc, snap, ticket, cur, rowClaims>>

Table == INSTANCE JobQueue WITH
  Job <- Row, NoJob <- NoRow, state <- row, key <- rowKey, claims <- rowClaims

AnyInit ==
  /\ part \in {"table", "chain"}
  /\ Table!Init
  /\ Init /\ (part # "chain" => repaired = FALSE)

AnyNext ==
  /\ part' = part
  /\ \/ part = "table" /\ Table!Next /\ UNCHANGED vars
     \/ part = "chain" /\ Next /\ UNCHANGED tableVars

AnySpec ==
  /\ AnyInit /\ [][AnyNext]_<<part, tableVars, vars>>
  /\ \/ part = "table" /\ Table!Fairness
     \/ part = "chain" /\ Fairness

EventuallySettled == Table!EventuallySettled
=============================================================================
