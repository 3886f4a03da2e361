----------------------------- MODULE RightsEval -----------------------------
(* dam-core/src/rights_eval.rs: whether an asset may be distributed, under a
   usage, at a moment.  Every attached licence and every release that bears on
   the usage has to permit it ("the most restrictive term wins"); within a
   licence the scopes are alternatives.

   An Option is a set of at most one element: {} is None.  Licences and scopes
   are the sets of the rows attached; their order, which the code gets from
   ORDER BY id, decides only between scopes of equal headroom. *)
EXTENDS Integers

CONSTANTS
  WORLD,        \* the territory meaning "everywhere"
  NOTICE,       \* DEFAULT_NOTICE_DAYS, in the clock's unit
  UNCAPPED      \* i64::MAX, the headroom of a scope without a cap

(* Scope: [id, territories, excludedTerritories, channels, excludedChannels,
           starts, ends, maxImpressions, maxDownloads]
   License: [starts, ends, perpetual, notice, scopes]
   Release: [territories, channels, minor, consent, starts, expires, status]
   Inputs: [hold, licenses, releases, consumed]; consumed[s] is
           [impressions, downloads], the sums of scope s in the ledger.
   Usage: [channel, territory] *)

CoversTerritory(s, t) ==
  /\ t \notin s.excludedTerritories
  /\ t = WORLD => s.excludedTerritories = {}
  /\ s.territories \cap {WORLD, t} # {}

CoversChannel(s, c) ==
  /\ c \notin s.excludedChannels
  /\ s.channels = {} \/ c \in s.channels

Covers(s, u) == CoversTerritory(s, u.territory) /\ CoversChannel(s, u.channel)

Started(starts, now) == \A t \in starts : t <= now

Over(ends, now) == \E t \in ends : t <= now

\* Within its dates and covering the usage.
InForce(s, u, now) == Covers(s, u) /\ Started(s.starts, now) /\ ~ Over(s.ends, now)

LeftOf(cap, used) == {c - used : c \in cap}

ImpressionsLeft(s, in) == LeftOf(s.maxImpressions, in.consumed[s.id].impressions)

DownloadsLeft(s, in) == LeftOf(s.maxDownloads, in.consumed[s.id].downloads)

\* The scope permits: in force, and neither cap spent.
Permitting(s, in, u, now) ==
  /\ InForce(s, u, now)
  /\ \A n \in ImpressionsLeft(s, in) \cup DownloadsLeft(s, in) : n > 0

\* A licence within its dates; a perpetual one has no end, whatever the row says.
Runs(l, now) == Started(l.starts, now) /\ (l.perpetual \/ ~ Over(l.ends, now))

LicensePermits(l, in, u, now) ==
  Runs(l, now) /\ \E s \in l.scopes : Permitting(s, in, u, now)

ReleaseCovers(r, u) ==
  /\ r.territories \cap {WORLD, u.territory} # {}
  /\ r.channels = {} \/ u.channel \in r.channels

\* release_problem: the status first, then consent, then the dates, which count
\* also while the status still says valid.
ReleaseStands(r, now) ==
  /\ r.status \notin {"withdrawn", "disputed", "missing", "expired"}
  /\ r.minor => r.consent
  /\ Started(r.starts, now)
  /\ ~ Over(r.expires, now)

Bearing(in, u) == {r \in in.releases : ReleaseCovers(r, u)}

\* The bug: a release that lapses does not end the answer.
TermsOfLicenses(in, u, now) ==
  UNION ({l.ends : l \in {x \in in.licenses : ~ x.perpetual}}
         \cup {s.ends : s \in UNION {l.scopes : l \in in.licenses}})

\* Everything that has an end and counted towards the answer: earliest_change is
\* the first of them.  The end of a scope counts also when its cap is spent.
Terms(in, u, now) ==
  LET running  == {l \in in.licenses : Runs(l, now)}
      counting == {s \in UNION {l.scopes : l \in running} : InForce(s, u, now)}
  IN  UNION ({l.ends : l \in {x \in in.licenses : ~ x.perpetual}}
             \cup {s.ends : s \in counting}
             \cup {r.expires : r \in Bearing(in, u)})

Earliest(times) == {t \in times : \A x \in times : t <= x}

\* The longest notice any licence asks for, and no less than the default.
Notices(in) == {NOTICE} \cup {l.notice : l \in in.licenses}

Soon(in, u, now) == \E t \in Terms(in, u, now), n \in Notices(in) : t - now <= n

AllPermit(in, u, now) == \A l \in in.licenses : LicensePermits(l, in, u, now)

AllStand(in, u, now) == \A r \in Bearing(in, u) : ReleaseStands(r, now)

Verdict(in, u, now) ==
  IF in.hold THEN "denied"
  ELSE IF in.licenses = {} THEN "unknown"
  ELSE IF ~ AllStand(in, u, now) \/ ~ AllPermit(in, u, now) THEN "denied"
  ELSE IF Soon(in, u, now) THEN "expiring" ELSE "allowed"

Permits(verdict) == verdict \in {"allowed", "expiring"}

Headroom(s, in) ==
  IF DownloadsLeft(s, in) = {} THEN UNCAPPED ELSE CHOOSE n \in DownloadsLeft(s, in) : TRUE

PermittingScopes(in, u, now) ==
  {s \in UNION {l.scopes : l \in in.licenses} : Permitting(s, in, u, now)}

\* The scope a download counts against: the most headroom of all the licences'
\* permitting scopes, and the first of those.
Consuming(in, u, now) ==
  LET open == PermittingScopes(in, u, now)
      best == {s \in open : \A x \in open : Headroom(x, in) <= Headroom(s, in)}
  IN  {s.id : s \in {x \in best : \A y \in best : x.id <= y.id}}

\* evaluate: a denial carries neither a scope nor an end.
Evaluate(in, u, now) ==
  LET v == Verdict(in, u, now) IN
  [verdict |-> v,
   scope   |-> IF Permits(v) THEN Consuming(in, u, now) ELSE {},
   until   |-> IF Permits(v) THEN Earliest(Terms(in, u, now)) ELSE {}]
=============================================================================
