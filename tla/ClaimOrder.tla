----------------------------- MODULE ClaimOrder -----------------------------
(***************************************************************************)
(* Which queued jobs a claim takes: the CTEs of dam-db/src/jobs.rs, claim,  *)
(* as operators on the set of queued rows, run against arrivals and the     *)
(* passing of time.  JobQueue models what becomes of the rows and leaves    *)
(* this choice open; its fairness assumption, that a due job is eventually  *)
(* among the selected, is what BackgroundAdvances and QuietTenantServed     *)
(* say of this order.  per_tenant is None, as in every call.                *)
(***************************************************************************)
EXTENDS Integers, FiniteSets, Sequences

CONSTANTS
  Tenant,
  Priority,  \* the priorities in use
  Limit,     \* ClaimOptions.limit
  MaxId,     \* bound: jobs inserted in a behaviour
  MaxTime    \* bound: the clock

BACKGROUND_BAND == 50

VARIABLES
  rows,    \* the queued rows: id (uuid v7, so increasing), tenant, priority, run_after
  now,     \* the database's clock
  lastId,
  ahead,   \* for each due background row: background rows before it when it fell due
  waited   \* for each row: claims that ran while it was due and did not take it

vars == <<rows, now, lastId, ahead, waited>>

Id == 1..MaxId

Init ==
  /\ rows = {} /\ now = 0 /\ lastId = 0
  /\ ahead = [i \in Id |-> 0] /\ waited = [i \in Id |-> 0]

----------------------------------------------------------------------------
(* The claim statement.                                                    *)

\* ORDER BY several columns.
Before(a, b) ==
  \E i \in DOMAIN a : a[i] < b[i] /\ \A k \in 1..(i - 1) : a[k] = b[k]

\* ORDER BY Columns LIMIT n; the last column is the id, so there are no ties.
First(S, n, Columns(_)) ==
  {r \in S : Cardinality({s \in S : Before(Columns(s), Columns(r))}) < n}

Due(R, time) == {r \in R : r.run_after <= time}

Eligible == Due(rows, now)

\* row_number() over the tenant's eligible rows.
rn(r) ==
  LET Columns(s) == <<s.priority, s.run_after, s.id>> IN
  1 + Cardinality({s \in Eligible :
        s.tenant = r.tenant /\ Before(Columns(s), Columns(r))})

Background(r) == r.priority >= BACKGROUND_BAND

\* The bug: strict priority, no reserve.
NoReserve == 0

\* (limit / 4).clamp(1, limit - 1), and never the last slot.
Reserve ==
  LET quarter == Limit \div 4 IN
  IF Limit < 2 THEN 0
  ELSE IF quarter < 1 THEN 1 ELSE IF quarter > Limit - 1 THEN Limit - 1 ELSE quarter

\* The oldest background jobs of all tenants.
Starved ==
  LET Columns(r) == <<r.run_after, r.id>>
  IN First({r \in Eligible : Background(r)}, Reserve, Columns)

\* The bug: the slots are by priority, as before the rank was introduced.
UrgentByPriority ==
  LET Columns(r) == <<r.priority, r.run_after, r.id>>
  IN First(Eligible \ Starved, Limit - Cardinality(Starved), Columns)

\* The other slots: every tenant's first, then every tenant's second, ...
Urgent ==
  LET Columns(r) == <<rn(r), r.priority, r.run_after, r.id>>
  IN First(Eligible \ Starved, Limit - Cardinality(Starved), Columns)

Picked == Starved \cup Urgent

----------------------------------------------------------------------------
\* How much due background work is before r.
Backlog(D, r) ==
  Cardinality({s \in D : Background(s) /\
                 Before(<<s.run_after, s.id>>, <<r.run_after, r.id>>)})

\* Rows that are due now and were not note the backlog they find.
FallDue ==
  LET D == Due(rows', now') IN
  ahead' = [i \in Id |->
    IF \E r \in D \ Eligible : r.id = i
      THEN Backlog(D, CHOOSE r \in D : r.id = i)
      ELSE ahead[i]]

\* The bug: a delay counted the wrong way.
RunBefore(delay) == now - delay

RunAfter(delay) == now + delay

\* jobs::enqueue, due at once or later.
Enqueue(t, p, delay) ==
  /\ lastId < MaxId
  /\ lastId' = lastId + 1
  /\ rows' = rows \cup {[id |-> lastId + 1, tenant |-> t, priority |-> p, run_after |-> RunAfter(delay)]}
  /\ UNCHANGED <<now, waited>>
  /\ FallDue

Tick ==
  /\ now < MaxTime
  /\ now' = now + 1
  /\ UNCHANGED <<rows, lastId, waited>>
  /\ FallDue

Claim ==
  /\ Eligible # {}
  /\ rows' = rows \ Picked
  /\ waited' = [i \in Id |->
       IF \E r \in Eligible \ Picked : r.id = i THEN waited[i] + 1 ELSE waited[i]]
  /\ UNCHANGED <<now, lastId, ahead>>

Next ==
  \/ \E t \in Tenant, p \in Priority, delay \in 0..1 : Enqueue(t, p, delay)
  \/ Tick
  \/ Claim

Spec == Init /\ [][Next]_vars

----------------------------------------------------------------------------
(* Properties.                                                             *)

TypeOK ==
  /\ rows \subseteq [id : Id, tenant : Tenant, priority : Priority, run_after : 0..(MaxTime + 1)]
  /\ now \in 0..MaxTime /\ lastId \in 0..MaxId
  /\ ahead \in [Id -> Nat] /\ waited \in [Id -> Nat]

\* While there are no more tenants than slots beside the reserve, the first
\* job of every tenant is in the very next batch, whatever the others queued
\* ("a quiet tenant's single job still lands in rank 1").
QuietTenantServed ==
  Cardinality({r.tenant : r \in Eligible}) <= Limit - Reserve =>
    \A r \in Eligible : rn(r) = 1 => r \in Picked

\* A background job is passed over by no more claims than there was background
\* work due before it, however much interactive work arrives ("Bounded by the
\* backlog ahead of it", claim).
BackgroundAdvances ==
  Limit > 1 => \A r \in Eligible : Background(r) => waited[r.id] <= ahead[r.id]
=============================================================================
