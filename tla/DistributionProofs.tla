------------------------- MODULE DistributionProofs -------------------------
(***************************************************************************)
(* What is proved of Distribution, and of the evaluation it reads.         *)
(*                                                                         *)
(* A delivery may read a cached verdict, so that a lapsed licence stops a  *)
(* URL rests on expires_at: a verdict that permits does so until the first *)
(* of the terms it counted (PermitsUntil).  The inductive invariant says   *)
(* that of what every request was told and of what the cache holds.        *)
(*                                                                         *)
(* An order and its pickups (Orders) are the last part.  What a request    *)
(* read of the order is still so when it writes because it is the only one *)
(* of its kind (OneMaker, OneDecision), and because no step makes an order *)
(* submitted again.                                                        *)
(***************************************************************************)
EXTENDS Distribution, Orders, WellFoundedInduction, FiniteSetTheorems, TLAPS

\* A nonempty set of dates has an earliest one.
LEMMA EarliestExists ==
  ASSUME NEW times, times \subseteq Nat, times # {}
  PROVE  Earliest(times) # {}
<1>1. \E t \in times : \A x \in times : ~ (<<x, t>> \in OpToRel(<, Nat))
  BY NatLessThanWellFounded, WFMin, Zenon
<1>2. PICK t \in times : \A x \in times : ~ (<<x, t>> \in OpToRel(<, Nat))
  BY <1>1
<1>3. ASSUME NEW x \in times PROVE t <= x
  <2>1. ~ (x < t)
    BY <1>2 DEF OpToRel
  <2> QED BY <2>1
<1> QED BY <1>3 DEF Earliest

\* What is later than every ... of the earliest is later than none of the rest.
LEMMA BeforeEarliest ==
  ASSUME NEW times, times \subseteq Nat, NEW t \in Nat,
         \A e \in Earliest(times) : e > t
  PROVE  \A x \in times : x > t
<1> SUFFICES ASSUME NEW x \in times PROVE x > t
  OBVIOUS
<1>1. PICK e \in Earliest(times) : TRUE
  BY EarliestExists
<1>2. e \in Nat /\ e > t /\ e <= x
  BY <1>1 DEF Earliest
<1> QED BY <1>2

LEMMA TermsAreDates ==
  ASSUME NEW in, NEW u, NEW t, Dated(in)
  PROVE  Terms(in, u, t) \subseteq Nat
<1>1. \A l \in in.licenses : l.ends \subseteq Nat /\ \A s \in l.scopes : s.ends \subseteq Nat
  BY DEF Dated
<1>2. \A x \in Bearing(in, u) : x.expires \subseteq Nat
  BY DEF Dated, Bearing
<1> QED BY <1>1, <1>2 DEF Terms

\* The dates alone, as InTerm, of any inputs.
Dates(in, u, t) ==
  /\ \A x \in in.releases : ReleaseCovers(x, u) => ReleaseStands(x, t)
  /\ in.licenses # {}
  /\ \A l \in in.licenses : Runs(l, t) /\ \E s \in l.scopes : InForce(s, u, t)

\* A verdict that permits has every licence and release within its dates.
LEMMA PermitsInTerm ==
  ASSUME NEW in, NEW u, NEW t, Permits(Verdict(in, u, t))
  PROVE  /\ Dates(in, u, t)
         /\ ~ in.hold /\ AllPermit(in, u, t) /\ AllStand(in, u, t)
<1>1. ~ in.hold /\ in.licenses # {} /\ AllPermit(in, u, t) /\ AllStand(in, u, t)
  BY DEF Permits, Verdict
<1>2. \A x \in in.releases : ReleaseCovers(x, u) => ReleaseStands(x, t)
  BY <1>1 DEF AllStand, Bearing
<1>3. \A l \in in.licenses : Runs(l, t) /\ \E s \in l.scopes : InForce(s, u, t)
  BY <1>1 DEF AllPermit, LicensePermits, Permitting
<1> QED BY <1>1, <1>2, <1>3 DEF Dates

\* Terms that are all to come keep what is within its dates there.
LEMMA DatesLast ==
  ASSUME NEW in, Dated(in), NEW u, NEW t \in Nat, NEW later \in Nat, t <= later,
         Dates(in, u, t), \A e \in Terms(in, u, t) : e > later
  PROVE  /\ Dates(in, u, later)
         /\ \A l \in in.licenses : \A s \in l.scopes :
              InForce(s, u, t) => InForce(s, u, later)
<1>1. ASSUME NEW x \in in.releases, ReleaseCovers(x, u) PROVE ReleaseStands(x, later)
  <2>1. ReleaseStands(x, t) /\ x.starts \subseteq Nat
    BY <1>1 DEF Dates, Dated
  <2>2. \A e \in x.expires : e \in Terms(in, u, t) /\ e \in Nat
    BY <1>1 DEF Terms, Bearing, Dated
  <2>3. ~ Over(x.expires, later)
    BY <2>2 DEF Over
  <2>4. Started(x.starts, later)
    BY <2>1 DEF ReleaseStands, Started
  <2> QED BY <2>1, <2>3, <2>4 DEF ReleaseStands
<1>2. ASSUME NEW l \in in.licenses
      PROVE  /\ Runs(l, later)
             /\ \A s \in l.scopes : InForce(s, u, t) => InForce(s, u, later)
  <2>1. Runs(l, t) /\ l.starts \subseteq Nat /\ l.ends \subseteq Nat
    BY DEF Dates, Dated
  <2>2. Started(l.starts, later)
    BY <2>1 DEF Runs, Started
  <2>3. l.perpetual \/ ~ Over(l.ends, later)
    <3>1. CASE l.perpetual
      BY <3>1
    <3>2. CASE ~ l.perpetual
      <4>1. \A e \in l.ends : e \in Terms(in, u, t)
        BY <3>2 DEF Terms
      <4> QED BY <2>1, <4>1 DEF Over
    <3> QED BY <3>1, <3>2
  <2>4. ASSUME NEW s \in l.scopes, InForce(s, u, t) PROVE InForce(s, u, later)
    <3>1. s.starts \subseteq Nat /\ s.ends \subseteq Nat
      BY DEF Dated
    <3>2. \A e \in s.ends : e \in Terms(in, u, t)
      BY <2>1, <2>4 DEF Terms
    <3>3. ~ Over(s.ends, later)
      BY <3>1, <3>2 DEF Over
    <3>4. Started(s.starts, later)
      BY <2>4, <3>1 DEF InForce, Started
    <3> QED BY <2>4, <3>3, <3>4 DEF InForce
  <2> QED BY <2>2, <2>3, <2>4 DEF Runs
<1>3. ASSUME NEW l \in in.licenses PROVE \E s \in l.scopes : InForce(s, u, later)
  BY <1>2 DEF Dates
<1> QED BY <1>1, <1>2, <1>3 DEF Dates

\* expires_at is "the earliest moment this verdict could change on its own": while
\* the hold and the ledger stay as they are, a verdict that permits still does
\* at any moment before it.
THEOREM PermitsUntil ==
  ASSUME NEW in, Dated(in), NEW u, NEW t \in Nat, NEW later \in Nat, t <= later,
         Permits(Evaluate(in, u, t).verdict),
         \A e \in Evaluate(in, u, t).until : e > later
  PROVE  Permits(Evaluate(in, u, later).verdict)
<1>1. Permits(Verdict(in, u, t))
  BY DEF Evaluate
<1>2. Evaluate(in, u, t).until = Earliest(Terms(in, u, t))
  BY <1>1 DEF Evaluate
<1>3. \A e \in Terms(in, u, t) : e > later
  BY <1>2, TermsAreDates, BeforeEarliest
<1>4. /\ Dates(in, u, t) /\ ~ in.hold
      /\ AllPermit(in, u, t) /\ AllStand(in, u, t)
  BY <1>1, PermitsInTerm
<1>5. /\ Dates(in, u, later)
      /\ \A l \in in.licenses : \A s \in l.scopes : InForce(s, u, t) => InForce(s, u, later)
  BY <1>3, <1>4, DatesLast
<1>6. AllStand(in, u, later)
  BY <1>5 DEF AllStand, Bearing, Dates
<1>7. AllPermit(in, u, later)
  BY <1>4, <1>5 DEF AllPermit, LicensePermits, Permitting, Dates
<1>8. in.licenses # {}
  BY <1>5 DEF Dates
<1>9. Permits(Verdict(in, u, later))
  BY <1>4, <1>6, <1>7, <1>8 DEF Verdict, Permits
<1> QED BY <1>9 DEF Evaluate

\* "The most restrictive term wins": attaching one more licence, or one more
\* release, to an asset that has a licence permits nothing it did not.
THEOREM MoreNeverPermits ==
  ASSUME NEW in, NEW more, NEW u, NEW t,
         in.licenses # {}, in.licenses \subseteq more.licenses,
         in.releases \subseteq more.releases,
         in.hold => more.hold, in.consumed = more.consumed,
         Permits(Verdict(more, u, t))
  PROVE  Permits(Verdict(in, u, t))
<1>1. ~ more.hold /\ AllStand(more, u, t) /\ AllPermit(more, u, t)
  BY PermitsInTerm
<1>2. AllStand(in, u, t)
  BY <1>1 DEF AllStand, Bearing
<1>3. \A l \in in.licenses : LicensePermits(l, in, u, t)
  BY <1>1 DEF AllPermit, LicensePermits, Permitting, ImpressionsLeft, DownloadsLeft
<1> QED BY <1>1, <1>2, <1>3 DEF Verdict, Permits, AllPermit

----------------------------------------------------------------------------
(* Types.                                                                  *)

Ids == UNION {ScopeIds(p) : p \in Portfolio}

Evaluation ==
  [verdict : {"denied", "unknown", "expiring", "allowed"}, scope : SUBSET Ids,
   until : SUBSET Nat]

Steps == {"idle", "evaluate", "keep", "record", "mint", "spend", "served"}

RequestState ==
  [kind : {"none", "member", "item", "link", "fetch"}, step : Steps, at : Nat,
   told : SUBSET Evaluation, link : BOOLEAN, held : BOOLEAN]

TypeInv ==
  /\ now \in Nat /\ attached \in Portfolio /\ hold \in BOOLEAN
  /\ ledger \in [ScopeIds(attached) -> Nat]
  /\ cache \subseteq [verdict : {"denied", "unknown", "expiring", "allowed"},
                      until : SUBSET Nat]
  /\ count \in Nat /\ handed \in Nat
  /\ req \in [Request -> RequestState]
  /\ \A r \in Request :
       /\ req[r].at <= now
       /\ req[r].step \in {"keep", "record"} => req[r].told # {}
  /\ copies \in [ScopeIds(attached) -> Nat]
  /\ urls \subseteq [link : BOOLEAN, until : Nat]

\* An evaluation names a scope of the asset's that permits, and dates.
LEMMA FreshType ==
  ASSUME attached \in Portfolio, NEW t \in Nat
  PROVE  /\ Fresh(t) \in Evaluation
         /\ Fresh(t).scope \subseteq ScopeIds(attached)
         /\ \A i \in Fresh(t).scope : \E s \in Scopes(attached) :
              s.id = i /\ Permitting(s, Inputs, Usage, t)
<1> DEFINE v == Verdict(Inputs, Usage, t)
<1>1. Inputs.licenses = attached.licenses /\ Inputs.releases = attached.releases
  BY DEF Inputs
<1>2. v \in {"denied", "unknown", "expiring", "allowed"}
  BY DEF Verdict
<1>3. \A i \in Consuming(Inputs, Usage, t) : \E s \in Scopes(attached) :
        s.id = i /\ Permitting(s, Inputs, Usage, t)
  BY <1>1 DEF Consuming, PermittingScopes, Scopes
<1>4. Consuming(Inputs, Usage, t) \subseteq ScopeIds(attached)
  BY <1>3 DEF ScopeIds
<1>5. Dated(attached)
  BY DistributionAssumption
<1>6. Dated(Inputs)
  BY <1>1, <1>5 DEF Dated
<1>7. Earliest(Terms(Inputs, Usage, t)) \subseteq Nat
  BY <1>6, TermsAreDates DEF Earliest
<1>8. Fresh(t) = [verdict |-> v,
                  scope |-> IF Permits(v) THEN Consuming(Inputs, Usage, t) ELSE {},
                  until |-> IF Permits(v) THEN Earliest(Terms(Inputs, Usage, t)) ELSE {}]
  BY DEF Fresh, Evaluate
<1>9. ScopeIds(attached) \subseteq Ids
  BY DEF Ids
<1> HIDE DEF v
<1> QED BY <1>2, <1>3, <1>4, <1>7, <1>8, <1>9 DEF Evaluation

LEMMA ToldType ==
  ASSUME TypeInv, NEW r \in Request, req[r].step \in {"keep", "record"}
  PROVE  Told(r) \in req[r].told /\ Told(r) \in Evaluation
<1>1. req[r].told # {} /\ req[r].told \subseteq Evaluation
  BY DEF TypeInv, RequestState
<1> QED BY <1>1 DEF Told

LEMMA TypeInit == Init => TypeInv
<1> SUFFICES ASSUME Init PROVE TypeInv
  OBVIOUS
<1>1. Idle \in RequestState
  BY DEF Idle, RequestState, Steps, None
<1>2. \A r \in Request : req[r] = Idle /\ req[r].at = 0 /\ req[r].step = "idle"
  BY DEF Init, Idle
<1>3. req \in [Request -> RequestState]
  BY <1>1 DEF Init
<1>4. /\ ledger \in [ScopeIds(attached) -> Nat] /\ copies \in [ScopeIds(attached) -> Nat]
      /\ cache = {} /\ urls = {} /\ now = 0 /\ attached \in Portfolio /\ hold \in BOOLEAN
      /\ count = 0 /\ handed = 0
  BY DEF Init, None
<1> QED BY <1>2, <1>3, <1>4 DEF TypeInv

LEMMA TypeStep == TypeInv /\ [Next]_askVars => TypeInv'
<1> SUFFICES ASSUME TypeInv, [Next]_askVars PROVE TypeInv'
  OBVIOUS
<1>a. Idle \in RequestState /\ Idle.at = 0 /\ Idle.step = "idle"
  BY DEF Idle, RequestState, Steps, None
<1>b. \A r \in Request : req[r] \in RequestState /\ req[r].at \in Nat /\ req[r].at <= now
  BY DEF TypeInv, RequestState
<1>c. ASSUME NEW r \in Request, Ends(r), UNCHANGED now
      PROVE  /\ req' \in [Request -> RequestState]
             /\ \A q \in Request :
                  /\ req'[q].at <= now'
                  /\ req'[q].step \in {"keep", "record"} => req'[q].told # {}
  BY <1>a, <1>b, <1>c DEF Ends, TypeInv
<1>d. ASSUME NEW r \in Request, NEW step \in Steps, Goto(r, step), UNCHANGED now,
             step = "record" => req[r].step = "keep", step # "keep"
      PROVE  /\ req' \in [Request -> RequestState]
             /\ \A q \in Request :
                  /\ req'[q].at <= now'
                  /\ req'[q].step \in {"keep", "record"} => req'[q].told # {}
  <2>1. req'[r] = [req[r] EXCEPT !.step = step] /\ \A q \in Request \ {r} : req'[q] = req[q]
    BY <1>d DEF Goto, TypeInv
  <2>2. [req[r] EXCEPT !.step = step] \in RequestState
    BY <1>b DEF RequestState
  <2>3. req'[r].at = req[r].at /\ req'[r].told = req[r].told /\ req'[r].step = step
    BY <1>b, <2>1 DEF RequestState
  <2>4. DOMAIN req' = Request /\ req' = [q \in Request |-> req'[q]]
    BY <1>d DEF Goto, TypeInv
  <2>5. req' \in [Request -> RequestState]
    BY <1>b, <2>1, <2>2, <2>4
  <2>6. ASSUME NEW q \in Request
        PROVE  /\ req'[q].at <= now'
               /\ req'[q].step \in {"keep", "record"} => req'[q].told # {}
    BY ZenonT(60), <1>b, <1>d, <2>1, <2>3 DEF TypeInv
  <2> QED BY <2>5, <2>6
<1>e. ASSUME NEW r \in Request, req[r].step \in {"keep", "record"},
             ledger' = Recorded(r), UNCHANGED attached
      PROVE  ledger' \in [ScopeIds(attached') -> Nat]
  BY <1>e DEF Recorded, TypeInv
<1>f. ASSUME NEW r \in Request, HandOut(r), UNCHANGED attached
      PROVE  /\ copies' \in [ScopeIds(attached') -> Nat]
             /\ urls' \subseteq [link : BOOLEAN, until : Nat]
  <2>1. req[r].link \in BOOLEAN /\ req[r].at + UrlLife \in Nat
    BY <1>b, DistributionAssumption DEF RequestState
  <2> QED BY <1>f, <2>1 DEF HandOut, TypeInv
<1>1. ASSUME NEW r \in Request, NEW kind \in {"member", "item", "link"}, Ask(r, kind)
      PROVE  TypeInv'
  <2> DEFINE q == [Idle EXCEPT !.kind = kind, !.at = now, !.link = kind \in Linked,
                     !.step = IF kind \in Charged THEN "evaluate" ELSE "mint"]
  <2>a. ASSUME NEW b \in BOOLEAN, NEW step \in {"evaluate", "mint"}
        PROVE  LET x == [Idle EXCEPT !.kind = kind, !.at = now, !.link = b, !.step = step]
               IN  x \in RequestState /\ x.at = now /\ x.step = step
    BY DEF Idle, RequestState, Steps, None, TypeInv
  <2>1. q \in RequestState /\ q.at = now /\ q.step \in {"evaluate", "mint"}
    <3> DEFINE step == IF kind \in Charged THEN "evaluate" ELSE "mint"
    <3>1. step \in {"evaluate", "mint"}
      OBVIOUS
    <3>2. CASE kind \in Linked
      <4>1. (kind \in Linked) = TRUE
        BY <3>2
      <4>2. q = [Idle EXCEPT !.kind = kind, !.at = now, !.link = TRUE, !.step = step]
        BY ZenonT(60), <4>1, Zenon
      <4> QED BY <2>a, <3>1, <4>2
    <3>3. CASE kind \notin Linked
      <4>1. (kind \in Linked) = FALSE
        BY <3>3
      <4>2. q = [Idle EXCEPT !.kind = kind, !.at = now, !.link = FALSE, !.step = step]
        BY <4>1, Zenon
      <4> QED BY <2>a, <3>1, <4>2
    <3> QED BY <3>2, <3>3
  <2>2. req' = [req EXCEPT ![r] = q]
    BY <1>1 DEF Ask
  <2> HIDE DEF q
  <2> QED BY <1>1, <1>b, <2>1, <2>2 DEF Ask, TypeInv
<1>2. ASSUME NEW r \in Request, Assess(r) PROVE TypeInv'
  <2> DEFINE q == [req[r] EXCEPT !.told = {Fresh(req[r].at)}, !.step = "keep"]
  <2>1. Fresh(req[r].at) \in Evaluation
    BY <1>b, FreshType DEF TypeInv
  <2>2. q \in RequestState /\ q.at = req[r].at /\ q.told # {}
    BY <1>b, <2>1 DEF RequestState, Steps
  <2>3. req' = [req EXCEPT ![r] = q]
    BY <1>2 DEF Assess, TypeInv
  <2> HIDE DEF q
  <2> QED BY ZenonT(60), <1>2, <1>b, <2>2, <2>3 DEF Assess, TypeInv
<1>3. ASSUME NEW r \in Request, req[r].step \in {"keep", "record"}, cache' = Stored(Told(r))
      PROVE  cache' \subseteq [verdict : {"denied", "unknown", "expiring", "allowed"},
                               until : SUBSET Nat]
  BY <1>3, ToldType DEF Stored, Evaluation
<1>4. ASSUME NEW r \in Request, KeepMember(r) PROVE TypeInv'
  BY <1>4, <1>c, <1>d, <1>3 DEF KeepMember, TypeInv, Steps
<1>5. ASSUME NEW r \in Request, KeepItem(r) PROVE TypeInv'
  BY <1>5, <1>c, <1>d, <1>e, <1>3 DEF KeepItem, TypeInv, Steps
<1>6. ASSUME NEW r \in Request, KeepFetch(r) PROVE TypeInv'
  BY <1>6, <1>c, <1>d, <1>3 DEF KeepFetch, TypeInv, Steps
<1>7. ASSUME NEW r \in Request, Record(r) PROVE TypeInv'
  BY <1>7, <1>d, <1>e DEF Record, TypeInv, Steps
<1>8. ASSUME NEW r \in Request, Mint(r) PROVE TypeInv'
  BY <1>8, <1>c, <1>d, <1>f DEF Mint, TypeInv, Steps
<1>9. ASSUME NEW r \in Request, Spend(r) PROVE TypeInv'
  BY <1>9, <1>c, <1>f DEF Spend, TypeInv
<1>10. ASSUME NEW r \in Request, End(r) PROVE TypeInv'
  BY <1>10, <1>c DEF End, TypeInv
<1>11. ASSUME NEW r \in Request, NEW url \in urls, Fetch(r, url) PROVE TypeInv'
  <2> DEFINE q == [Idle EXCEPT !.kind = "fetch", !.at = now, !.link = url.link, !.held = hold,
                     !.step = IF Cached(now) = {} THEN "evaluate" ELSE "served"]
  <2>1. q \in RequestState /\ q.at = now /\ q.step \in {"evaluate", "served"}
    BY DEF Idle, RequestState, Steps, None, TypeInv
  <2>2. req' = [req EXCEPT ![r] = q]
    BY <1>11 DEF Fetch
  <2> HIDE DEF q
  <2> QED BY <1>11, <1>b, <2>1, <2>2 DEF Fetch, TypeInv
<1>12. ASSUME SetLegalHold PROVE TypeInv'
  BY <1>12 DEF SetLegalHold, TypeInv
<1>13. ASSUME RevokeLink PROVE TypeInv'
  BY <1>13 DEF RevokeLink, TypeInv
<1>14. ASSUME Tick PROVE TypeInv'
  <2>1. now' \in Nat /\ \A r \in Request : req'[r].at <= now'
    BY <1>14, <1>b DEF Tick, TypeInv
  <2> QED BY <1>14, <2>1 DEF Tick, TypeInv
<1>15. CASE UNCHANGED askVars
  BY <1>15 DEF askVars, TypeInv
<1> QED
  BY <1>1, <1>2, <1>4, <1>5, <1>6, <1>7, <1>8, <1>9, <1>10, <1>11, <1>12, <1>13, <1>14,
     <1>15 DEF Next

THEOREM TypeCorrect == Spec => []TypeInv
<1> QED BY TypeInit, TypeStep, PTL DEF Spec

----------------------------------------------------------------------------
(* A lapsed licence stops a URL.                                           *)

\* From t0 until the first date of `until`, the asset is within its terms.
HoldsFrom(p, until, t0) ==
  \A t \in Nat : t0 <= t /\ (\A e \in until : e > t) => InTerm(p, t)

CacheTrue == \A c \in cache : Permits(c.verdict) => HoldsFrom(attached, c.until, now)

ToldTrue ==
  \A r \in Request : \A e \in req[r].told :
    Permits(e.verdict) => /\ InTerm(attached, req[r].at)
                          /\ HoldsFrom(attached, e.until, now)

TermInv == CacheTrue /\ ToldTrue /\ ServedInTerm

LEMMA FreshTrue ==
  ASSUME attached \in Portfolio, NEW t \in Nat, NEW t0 \in Nat, t <= t0,
         Permits(Fresh(t).verdict)
  PROVE  InTerm(attached, t) /\ HoldsFrom(attached, Fresh(t).until, t0)
<1>1. Inputs.licenses = attached.licenses /\ Inputs.releases = attached.releases
  BY DEF Inputs
<1>2. \A x \in Nat : InTerm(attached, x) <=> Dates(Inputs, Usage, x)
  BY <1>1 DEF InTerm, Dates
<1>3. Dated(attached)
  BY DistributionAssumption
<1>4. Dated(Inputs)
  BY <1>1, <1>3 DEF Dated
<1>5. Permits(Verdict(Inputs, Usage, t))
      /\ Fresh(t).until = Earliest(Terms(Inputs, Usage, t))
  BY DEF Fresh, Evaluate
<1>6. Dates(Inputs, Usage, t)
  BY <1>5, PermitsInTerm
<1>7. ASSUME NEW x \in Nat, t0 <= x, \A e \in Fresh(t).until : e > x PROVE InTerm(attached, x)
  <2>1. \A e \in Terms(Inputs, Usage, t) : e > x
    BY <1>4, <1>5, <1>7, TermsAreDates, BeforeEarliest
  <2>2. t <= x
    BY <1>7
  <2>3. Dates(Inputs, Usage, x)
    BY <1>4, <1>6, <2>1, <2>2, DatesLast
  <2> QED BY <1>2, <2>3
<1> QED BY <1>2, <1>6, <1>7 DEF HoldsFrom

LEMMA TermStep == TypeInv /\ TermInv /\ [Next]_askVars => TermInv'
<1> SUFFICES ASSUME TypeInv, TermInv, [Next]_askVars PROVE TermInv'
  BY SMTT(60)
<1>a. attached' = attached
  BY ZenonT(60) DEF Next, askVars, Ask, Assess, KeepMember, KeepItem, KeepFetch, Record, Mint, Spend,
         End, Fetch, SetLegalHold, RevokeLink, Tick
<1>c. now \in Nat /\ now' \in Nat /\ now <= now'
  <2>1. now' = now \/ now' = now + 1
    BY ZenonT(60) DEF Next, askVars, Ask, Assess, KeepMember, KeepItem, KeepFetch, Record, Mint, Spend,
           End, Fetch, SetLegalHold, RevokeLink, Tick
  <2>2. now \in Nat
    BY DEF TypeInv
  <2> QED BY <2>1, <2>2
<1>d. \A until : HoldsFrom(attached, until, now) => HoldsFrom(attached', until, now')
  BY <1>a, <1>c DEF HoldsFrom
<1>e. ASSUME \A c \in cache' : c \in cache \/ \E r \in Request : \E e \in req[r].told :
               e.verdict = c.verdict /\ c.until = e.until
      PROVE  CacheTrue'
  <2> SUFFICES ASSUME NEW c \in cache', Permits(c.verdict)
               PROVE  HoldsFrom(attached, c.until, now)
    BY <1>d DEF CacheTrue
  <2>1. CASE c \in cache
    BY <2>1 DEF TermInv, CacheTrue
  <2>2. CASE c \notin cache
    <3>1. PICK r \in Request : \E e \in req[r].told : e.verdict = c.verdict /\ c.until = e.until
      BY <2>2, <1>e
    <3> QED BY <3>1 DEF TermInv, ToldTrue
  <2> QED BY <2>1, <2>2
<1>n. ASSUME NEW r \in Request, \A q \in Request \ {r} : req'[q] = req[q], req'[r].told = {}
      PROVE  ToldTrue'
  <2> SUFFICES ASSUME NEW q \in Request, NEW e \in req'[q].told, Permits(e.verdict)
               PROVE  InTerm(attached, req'[q].at) /\ HoldsFrom(attached, e.until, now)
    BY <1>a, <1>d DEF ToldTrue
  <2>1. e \in req[q].told /\ req'[q].at = req[q].at
    BY <1>n
  <2> QED BY <2>1 DEF TermInv, ToldTrue
<1>l. UNCHANGED cache => CacheTrue'
  BY <1>e
<1>f. ASSUME NEW r \in Request, \A q \in Request \ {r} : req'[q] = req[q],
             req'[r].told = req[r].told, req'[r].at = req[r].at
      PROVE  ToldTrue'
  <2> SUFFICES ASSUME NEW q \in Request, NEW e \in req'[q].told, Permits(e.verdict)
               PROVE  InTerm(attached, req'[q].at) /\ HoldsFrom(attached, e.until, now)
    BY <1>a, <1>d DEF ToldTrue
  <2>1. e \in req[q].told /\ req'[q].at = req[q].at
    BY <1>f
  <2> QED BY <2>1 DEF TermInv, ToldTrue
<1>g. \A r \in Request : req[r] \in RequestState /\ req[r].at \in Nat /\ req[r].at <= now
  BY DEF TypeInv, RequestState
<1>h. ASSUME NEW r \in Request, Ends(r)
      PROVE  (\A q \in Request \ {r} : req'[q] = req[q]) /\ req'[r].told = {}
  BY <1>h DEF Ends, Idle, None, TypeInv
<1>i. ASSUME NEW r \in Request, NEW step, Goto(r, step)
      PROVE  /\ \A q \in Request \ {r} : req'[q] = req[q]
             /\ req'[r].told = req[r].told /\ req'[r].at = req[r].at
  BY <1>i, <1>g DEF Goto, TypeInv, RequestState
<1>j. ASSUME NEW r \in Request, req[r].step \in {"keep", "record"}, cache' = Stored(Told(r))
      PROVE  \A c \in cache' : c \in cache \/ \E q \in Request : \E e \in req[q].told :
               e.verdict = c.verdict /\ c.until = e.until
  BY <1>j, ToldType DEF Stored
<1>k. UNCHANGED served => ServedInTerm'
  BY <1>a DEF ServedInTerm, TermInv
<1>m. ASSUME NEW r \in Request, Ends(r) \/ \E step \in Steps : Goto(r, step) PROVE ToldTrue'
  <2>1. CASE Ends(r)
    BY <1>h, <1>n, <2>1
  <2>2. ASSUME NEW step \in Steps, Goto(r, step) PROVE ToldTrue'
    BY <1>f, <1>i, <2>2
  <2> QED BY <1>m, <2>1, <2>2
<1>1. ASSUME NEW r \in Request, NEW kind \in {"member", "item", "link"}, Ask(r, kind)
      PROVE  TermInv'
  <2>1. (\A q \in Request \ {r} : req'[q] = req[q]) /\ req'[r].told = {}
    BY <1>1 DEF Ask, Idle, None, TypeInv
  <2>2. ToldTrue'
    BY <1>n, <2>1
  <2>3. UNCHANGED <<cache, served>>
    BY <1>1 DEF Ask
  <2> QED BY <1>k, <1>l, <2>2, <2>3 DEF TermInv
<1>2. ASSUME NEW r \in Request, Assess(r) PROVE TermInv'
  <2>1. (\A q \in Request \ {r} : req'[q] = req[q])
        /\ req'[r].told = {Fresh(req[r].at)} /\ req'[r].at = req[r].at
    BY <1>2, <1>g DEF Assess, TypeInv, RequestState
  <2>2. Permits(Fresh(req[r].at).verdict) =>
          InTerm(attached, req[r].at) /\ HoldsFrom(attached, Fresh(req[r].at).until, now)
    BY <1>g, <1>c, FreshTrue DEF TypeInv
  <2>3. ToldTrue'
    <3> SUFFICES ASSUME NEW q \in Request, NEW e \in req'[q].told, Permits(e.verdict)
                 PROVE  InTerm(attached, req'[q].at) /\ HoldsFrom(attached, e.until, now)
      BY <1>a, <1>d DEF ToldTrue
    <3>1. CASE q = r
      BY <2>1, <2>2, <3>1
    <3>2. CASE q # r
      BY <2>1, <3>2 DEF TermInv, ToldTrue
    <3> QED BY <3>1, <3>2
  <2> QED BY <1>2, <1>k, <1>l, <2>3 DEF Assess, TermInv
<1>3. ASSUME NEW r \in Request, KeepMember(r) PROVE TermInv'
  <2>1. CacheTrue'
    BY <1>3, <1>e, <1>j DEF KeepMember
  <2>2. ToldTrue'
    BY <1>3, <1>m DEF KeepMember, Steps
  <2> QED BY <1>3, <1>k, <2>1, <2>2 DEF KeepMember, TermInv
<1>4. ASSUME NEW r \in Request, KeepItem(r) PROVE TermInv'
  <2>1. CacheTrue'
    BY <1>4, <1>e, <1>j, <1>l DEF KeepItem
  <2>2. ToldTrue'
    BY <1>4, <1>m DEF KeepItem, Steps
  <2> QED BY <1>4, <1>k, <2>1, <2>2 DEF KeepItem, TermInv
<1>5. ASSUME NEW r \in Request, KeepFetch(r) PROVE TermInv'
  <2>1. CacheTrue'
    BY <1>5, <1>e, <1>j, <1>l DEF KeepFetch
  <2>2. ToldTrue'
    BY <1>5, <1>m DEF KeepFetch, Steps
  <2>3. CASE Permits(Told(r).verdict)
    <3>1. Goto(r, "served") /\ Serve(r)
      BY <1>5, <2>3 DEF KeepFetch
    <3>2. InTerm(attached, req[r].at)
      BY <1>5, <2>3, ToldType DEF KeepFetch, TermInv, ToldTrue
    <3>3. req'[r].at = req[r].at
      BY <3>1, <1>i
    <3>4. ServedInTerm'
      BY <1>a, <3>1, <3>2, <3>3 DEF ServedInTerm, Serve, TermInv
    <3> QED BY <2>1, <2>2, <3>4 DEF TermInv
  <2>4. CASE ~ Permits(Told(r).verdict)
    <3>1. UNCHANGED served
      BY <1>5, <2>4 DEF KeepFetch
    <3> QED BY <1>k, <2>1, <2>2, <3>1 DEF TermInv
  <2> QED BY <2>3, <2>4
<1>6. ASSUME NEW r \in Request, Record(r) \/ Mint(r) \/ Spend(r) \/ End(r) PROVE TermInv'
  <2>1. UNCHANGED <<cache, served>>
    BY <1>6 DEF Record, Mint, Spend, End
  <2>2. Ends(r) \/ \E step \in Steps : Goto(r, step)
    BY <1>6 DEF Record, Mint, Spend, End, Steps
  <2>3. ToldTrue'
    BY <1>m, <2>2
  <2> QED BY <1>k, <1>l, <2>1, <2>3 DEF TermInv
<1>7. ASSUME NEW r \in Request, NEW url \in urls, Fetch(r, url) PROVE TermInv'
  <2>1. /\ \A q \in Request \ {r} : req'[q] = req[q]
        /\ req'[r].told = {} /\ req'[r].at = now
    BY <1>7 DEF Fetch, Idle, None, TypeInv
  <2>2. ToldTrue'
    BY <1>n, <2>1
  <2>3. CacheTrue'
    BY <1>7, <1>l DEF Fetch
  <2>4. CASE Cached(now) = {}
    <3>1. UNCHANGED served
      BY <1>7, <2>4 DEF Fetch
    <3> QED BY <1>k, <2>2, <2>3, <3>1 DEF TermInv
  <2>5. CASE Cached(now) # {}
    <3> DEFINE c == CHOOSE x \in Cached(now) : TRUE
    <3>1. c \in cache /\ \A e \in c.until : e > now
      BY <2>5 DEF Cached
    <3>2. Permits(c.verdict)
      BY <1>7, <2>5 DEF Fetch, Effective
    <3>3. InTerm(attached, now)
      BY <1>c, <3>1, <3>2 DEF TermInv, CacheTrue, HoldsFrom
    <3>4. Serve(r)
      BY <1>7, <2>5 DEF Fetch
    <3>5. ServedInTerm'
      BY <1>a, <2>1, <3>3, <3>4 DEF Serve, ServedInTerm, TermInv
    <3> QED BY <2>2, <2>3, <3>5 DEF TermInv
  <2> QED BY <2>4, <2>5
<1>8. ASSUME UNCHANGED <<cache, req, served>> PROVE TermInv'
  <2>1. ToldTrue'
    BY <1>8, <1>a, <1>d DEF TermInv, ToldTrue
  <2> QED BY <1>8, <1>k, <1>l, <2>1 DEF TermInv
<1> QED
  BY <1>1, <1>2, <1>3, <1>4, <1>5, <1>6, <1>7, <1>8
  DEF Next, SetLegalHold, RevokeLink, Tick, askVars

\* Bytes leave only within the dates of every licence and release, whatever the
\* cache held: "a lapsed licence stops an already-issued URL".
THEOREM ServedInTermAlways == Spec => []ServedInTerm
<1>1. Init => TermInv
  BY DEF Init, TermInv, CacheTrue, ToldTrue, ServedInTerm, None, Idle
<1> QED BY <1>1, TypeInit, TypeStep, TermStep, PTL DEF Spec, TermInv

----------------------------------------------------------------------------
(* A link hands out what it may.                                           *)

LinkInv == handed = count /\ \A m \in LinkLimit : count <= m

LEMMA LinkStep == TypeInv /\ LinkInv /\ [Next]_askVars => LinkInv'
<1> SUFFICES ASSUME TypeInv, LinkInv, [Next]_askVars PROVE LinkInv'
  OBVIOUS
<1>1. ASSUME NEW r \in Request, Spend(r) PROVE LinkInv'
  <2>1. CASE LinkLives(req[r].at)
    <3>1. count' = count + 1 /\ handed' = handed + 1
      BY <1>1, <2>1 DEF Spend
    <3>2. \A m \in LinkLimit : m \in Nat /\ count < m
      BY <2>1, DistributionAssumption DEF LinkLives
    <3> QED BY <3>1, <3>2 DEF LinkInv, TypeInv
  <2>2. CASE ~ LinkLives(req[r].at)
    BY <1>1, <2>2 DEF Spend, LinkInv
  <2> QED BY <2>1, <2>2
<1>2. ASSUME UNCHANGED <<count, handed>> PROVE LinkInv'
  BY <1>2 DEF LinkInv
<1>3. ASSUME NEW r \in Request,
             \/ \E kind \in {"member", "item", "link"} : Ask(r, kind)
             \/ Assess(r) \/ KeepMember(r) \/ KeepItem(r) \/ KeepFetch(r)
             \/ Record(r) \/ Mint(r) \/ End(r)
             \/ \E url \in urls : Fetch(r, url)
      PROVE  UNCHANGED <<count, handed>>
  BY <1>3 DEF Ask, Assess, KeepMember, KeepItem, KeepFetch, Record, Mint, End, Fetch
<1>4. SetLegalHold \/ RevokeLink \/ Tick => UNCHANGED <<count, handed>>
  BY DEF SetLegalHold, RevokeLink, Tick
<1>5. CASE UNCHANGED askVars
  BY <1>5, <1>2 DEF askVars
<1> QED BY <1>1, <1>2, <1>3, <1>4, <1>5 DEF Next

\* "two concurrent downloads both pass at the last slot" is what one UPDATE rules
\* out: a link never hands out more than its max_downloads.
THEOREM LinkLimitAlways == Spec => []LinkLimitHolds
<1>0. \A m \in LinkLimit : m \in Nat
  BY DistributionAssumption
<1>1. Init => LinkInv
  BY <1>0 DEF Init, LinkInv
<1>2. LinkInv => LinkLimitHolds
  BY DEF LinkInv, LinkLimitHolds
<1> QED BY <1>1, <1>2, TypeInit, TypeStep, LinkStep, PTL DEF Spec

----------------------------------------------------------------------------
(* A scope hands out what it may, up to the requests in flight.            *)

\* The requests that will record a download of scope i, and those that have and
\* may yet hand out its URL.
Charging(i) ==
  {r \in Request : req[r].kind \in Charged /\ req[r].step \in {"keep", "record"}
                   /\ i \in Told(r).scope}

Paid(i) ==
  {r \in Request : req[r].step \in {"mint", "spend"} /\ req[r].told # {}
                   /\ i \in Told(r).scope}

CapInv ==
  /\ \A r \in Request : /\ req[r].step = "record" => req[r].kind = "member"
                        /\ req[r].step \in {"idle", "evaluate"} => req[r].told = {}
  /\ \A i \in ScopeIds(attached) : copies[i] + Cardinality(Paid(i)) <= ledger[i]
  /\ \A s \in Scopes(attached) : \A m \in s.maxDownloads :
       ledger[s.id] + Cardinality(Charging(s.id)) <= m + Cardinality(Request) - 1

LEMMA CardWithout ==
  ASSUME NEW S \in SUBSET Request, NEW r \in Request
  PROVE  /\ Cardinality(S) \in Nat /\ Cardinality(S \ {r}) \in Nat
         /\ Cardinality(S) = Cardinality(S \ {r}) + IF r \in S THEN 1 ELSE 0
         /\ Cardinality(S) <= Cardinality(Request)
         /\ Cardinality(Request) \in Nat /\ Cardinality(Request) >= 1
<1>1. IsFiniteSet(Request) /\ Request # {}
  BY DistributionAssumption
<1>2. IsFiniteSet(S) /\ IsFiniteSet(S \ {r})
  BY <1>1, FS_Subset
<1>3. Cardinality(S) <= Cardinality(Request)
  BY <1>1, FS_Subset
<1>4. Cardinality(Request) # 0
  BY <1>1, FS_EmptySet
<1>5. /\ Cardinality(S) \in Nat /\ Cardinality(S \ {r}) \in Nat /\ Cardinality(Request) \in Nat
  BY <1>1, <1>2, FS_CardinalityType
<1>6. Cardinality(S \ {r}) = IF r \in S THEN Cardinality(S) - 1 ELSE Cardinality(S)
  BY <1>2, FS_RemoveElement
<1> QED BY <1>3, <1>4, <1>5, <1>6

One(b) == IF b THEN 1 ELSE 0

StepsOK(r) ==
  /\ req[r].step = "record" => req[r].kind = "member"
  /\ req[r].step \in {"idle", "evaluate"} => req[r].told = {}

\* What one request's step has to leave true, all others staying as they are.
LEMMA CapStepOf ==
  ASSUME TypeInv, TypeInv', CapInv, UNCHANGED attached, NEW r \in Request,
         \A q \in Request \ {r} : req'[q] = req[q], StepsOK(r)',
         \A i \in ScopeIds(attached) :
           copies'[i] + One(r \in Paid(i)') + ledger[i]
             <= copies[i] + One(r \in Paid(i)) + ledger'[i],
         \A s \in Scopes(attached) : \A m \in s.maxDownloads :
           \/ ledger'[s.id] + One(r \in Charging(s.id)') <= ledger[s.id] + One(r \in Charging(s.id))
           \/ ledger'[s.id] < m
  PROVE  CapInv'
<1>1. \A i : Paid(i) \in SUBSET Request /\ Paid(i)' \in SUBSET Request
             /\ Charging(i) \in SUBSET Request /\ Charging(i)' \in SUBSET Request
  BY DEF Paid, Charging
<1>2. \A i : Paid(i)' \ {r} = Paid(i) \ {r} /\ Charging(i)' \ {r} = Charging(i) \ {r}
  BY DEF Paid, Charging, Told
<1>3. \A q \in Request : StepsOK(q)'
  BY DEF StepsOK, CapInv
<1>4. ASSUME NEW i \in ScopeIds(attached)
      PROVE  copies'[i] + Cardinality(Paid(i)') <= ledger'[i]
  <2>1. copies[i] \in Nat /\ ledger[i] \in Nat /\ copies'[i] \in Nat /\ ledger'[i] \in Nat
    BY DEF TypeInv
  <2>2. /\ Cardinality(Paid(i)) = Cardinality(Paid(i) \ {r}) + One(r \in Paid(i))
        /\ Cardinality(Paid(i)') = Cardinality(Paid(i)' \ {r}) + One(r \in Paid(i)')
        /\ Cardinality(Paid(i) \ {r}) \in Nat
    BY <1>1, CardWithout DEF One
  <2>3. One(r \in Paid(i)) \in Nat /\ One(r \in Paid(i)') \in Nat
    BY DEF One
  <2>4. Cardinality(Paid(i)' \ {r}) = Cardinality(Paid(i) \ {r})
    BY <1>2
  <2>5. copies[i] + Cardinality(Paid(i)) <= ledger[i]
    BY DEF CapInv
  <2>6. copies'[i] + One(r \in Paid(i)') + ledger[i] <= copies[i] + One(r \in Paid(i)) + ledger'[i]
    OBVIOUS
  <2> QED BY <2>1, <2>2, <2>3, <2>4, <2>5, <2>6
<1>5. ASSUME NEW s \in Scopes(attached), NEW m \in s.maxDownloads
      PROVE  ledger'[s.id] + Cardinality(Charging(s.id)') <= m + Cardinality(Request) - 1
  <2>1. ledger[s.id] \in Nat /\ ledger'[s.id] \in Nat /\ m \in Nat
    BY DistributionAssumption DEF TypeInv, ScopeIds
  <2>2. /\ Cardinality(Charging(s.id)) = Cardinality(Charging(s.id) \ {r}) + One(r \in Charging(s.id))
        /\ Cardinality(Charging(s.id)') = Cardinality(Charging(s.id)' \ {r}) + One(r \in Charging(s.id)')
        /\ Cardinality(Charging(s.id) \ {r}) \in Nat
        /\ Cardinality(Charging(s.id)') <= Cardinality(Request)
        /\ Cardinality(Charging(s.id)') \in Nat /\ Cardinality(Request) \in Nat
    BY <1>1, CardWithout DEF One
  <2>3. One(r \in Charging(s.id)) \in Nat /\ One(r \in Charging(s.id)') \in Nat
    BY DEF One
  <2>4. Cardinality(Charging(s.id)' \ {r}) = Cardinality(Charging(s.id) \ {r})
    BY <1>2
  <2>5. ledger[s.id] + Cardinality(Charging(s.id)) <= m + Cardinality(Request) - 1
    BY DEF CapInv
  <2>6. \/ ledger'[s.id] + One(r \in Charging(s.id)') <= ledger[s.id] + One(r \in Charging(s.id))
        \/ ledger'[s.id] < m
    OBVIOUS
  <2> QED BY <2>1, <2>2, <2>3, <2>4, <2>5, <2>6
<1> QED BY <1>3, <1>4, <1>5 DEF CapInv, StepsOK

LEMMA CapStep == TypeInv /\ TypeInv' /\ CapInv /\ [Next]_askVars => CapInv'
<1> SUFFICES ASSUME TypeInv, TypeInv', CapInv, [Next]_askVars PROVE CapInv'
  BY SMTT(60)
<1>a. attached' = attached
  BY ZenonT(60) DEF Next, askVars, Ask, Assess, KeepMember, KeepItem, KeepFetch, Record, Mint, Spend,
         End, Fetch, SetLegalHold, RevokeLink, Tick
<1>b. /\ \A i \in ScopeIds(attached) : copies[i] \in Nat /\ ledger[i] \in Nat
      /\ \A s \in Scopes(attached) : s.id \in ScopeIds(attached) /\ s.maxDownloads \subseteq Nat
      /\ \A b : One(b) \in Nat
  BY DistributionAssumption DEF TypeInv, ScopeIds, One
<1>g. ASSUME NEW r \in Request, NEW step \in Steps, Goto(r, step)
      PROVE  /\ \A q \in Request \ {r} : req'[q] = req[q]
             /\ req'[r].told = req[r].told /\ Told(r)' = Told(r)
             /\ req'[r].kind = req[r].kind /\ req'[r].step = step
  <2>1. req[r] \in RequestState
    BY DEF TypeInv
  <2> QED BY <2>1, <1>g DEF Goto, TypeInv, RequestState, Told
<1>h. ASSUME NEW r \in Request, Ends(r)
      PROVE  /\ \A q \in Request \ {r} : req'[q] = req[q]
             /\ req'[r].told = {} /\ req'[r].step = "idle"
  BY <1>h DEF Ends, Idle, None, TypeInv
\* A step after which r neither will charge nor has paid.
<1>l. ASSUME NEW r \in Request, \A q \in Request \ {r} : req'[q] = req[q],
             req'[r].told = {} \/ req'[r].step = "served",
             req'[r].step \notin {"keep", "record"}, UNCHANGED <<ledger, copies>>
      PROVE  CapInv'
  <2>1. \A i : r \notin Paid(i)' /\ r \notin Charging(i)'
    BY <1>l DEF Paid, Charging
  <2>2. StepsOK(r)'
    BY <1>l DEF StepsOK
  <2>3. \A i : One(r \in Paid(i)') = 0 /\ One(r \in Charging(i)') = 0
    BY <2>1 DEF One
  <2> QED BY <1>a, <1>b, <1>l, <2>2, <2>3, CapStepOf
<1>1. ASSUME NEW r \in Request, NEW kind \in {"member", "item", "link"}, Ask(r, kind)
      PROVE  CapInv'
  <2>1. /\ \A q \in Request \ {r} : req'[q] = req[q]
        /\ req'[r].told = {} /\ req'[r].step \in {"evaluate", "mint"}
    BY <1>1 DEF Ask, Idle, None, TypeInv
  <2>2. UNCHANGED <<ledger, copies>>
    BY <1>1 DEF Ask
  <2> QED BY <1>l, <2>1, <2>2
<1>2. ASSUME NEW r \in Request, Assess(r) PROVE CapInv'
  <2>0. req[r] \in RequestState /\ req[r].at \in Nat
    BY DEF TypeInv, RequestState
  <2>1. /\ \A q \in Request \ {r} : req'[q] = req[q]
        /\ req'[r].told = {Fresh(req[r].at)} /\ req'[r].step = "keep"
        /\ UNCHANGED <<ledger, copies>>
    BY <1>2, <2>0 DEF Assess, TypeInv, RequestState
  <2>2. Told(r)' = Fresh(req[r].at)
    BY <2>1 DEF Told
  <2>3. \A i : One(r \in Paid(i)') = 0
    BY <2>1 DEF Paid, One
  <2>4. ASSUME NEW s \in Scopes(attached), NEW m \in s.maxDownloads, r \in Charging(s.id)'
        PROVE  ledger'[s.id] < m
    <3>1. s.id \in Fresh(req[r].at).scope
      BY <2>2, <2>4 DEF Charging
    <3>2. PICK x \in Scopes(attached) : x.id = s.id /\ Permitting(x, Inputs, Usage, req[r].at)
      BY <2>0, <3>1, FreshType DEF TypeInv
    <3>3. x = s
      BY <3>2, DistributionAssumption DEF TypeInv
    <3>4. m - Inputs.consumed[s.id].downloads \in DownloadsLeft(s, Inputs)
      BY DEF DownloadsLeft, LeftOf
    <3>5. Inputs.consumed[s.id].downloads = ledger[s.id]
      BY <1>b DEF Inputs, TypeInv
    <3>6. m - ledger[s.id] > 0
      BY <3>2, <3>3, <3>4, <3>5 DEF Permitting
    <3> QED BY <1>b, <2>1, <3>6
  <2>5. ASSUME NEW s \in Scopes(attached), r \notin Charging(s.id)'
        PROVE  One(r \in Charging(s.id)') = 0
    BY <2>5 DEF One
  <2>6. StepsOK(r)'
    BY <2>1 DEF StepsOK
  <2>7. \A i \in ScopeIds(attached) :
          copies'[i] + One(r \in Paid(i)') + ledger[i]
            <= copies[i] + One(r \in Paid(i)) + ledger'[i]
    BY <1>b, <2>1, <2>3
  <2>8. \A s \in Scopes(attached) : \A m \in s.maxDownloads :
          \/ ledger'[s.id] + One(r \in Charging(s.id)') <= ledger[s.id] + One(r \in Charging(s.id))
          \/ ledger'[s.id] < m
    BY <1>b, <2>1, <2>4, <2>5
  <2> QED BY <1>a, <2>1, <2>6, <2>7, <2>8, CapStepOf
\* r records what it was told.
<1>r. ASSUME NEW r \in Request, req[r].step \in {"keep", "record"}, req[r].kind \in Charged,
             ledger' = Recorded(r), UNCHANGED copies, Goto(r, "mint")
      PROVE  CapInv'
  <2>1. /\ \A q \in Request \ {r} : req'[q] = req[q]
        /\ req'[r].told = req[r].told /\ Told(r)' = Told(r) /\ req'[r].step = "mint"
    BY <1>g, <1>r DEF Steps
  <2>2. req[r].told # {}
    BY <1>r DEF TypeInv
  <2>3. \A i : /\ One(r \in Charging(i)) = One(i \in Told(r).scope)
               /\ One(r \in Charging(i)') = 0
               /\ One(r \in Paid(i)) = 0
               /\ One(r \in Paid(i)') = One(i \in Told(r).scope)
    BY <1>r, <2>1, <2>2 DEF Charging, Paid, One
  <2>4. \A i \in ScopeIds(attached) : ledger'[i] = ledger[i] + One(i \in Told(r).scope)
    BY <1>r DEF Recorded, One, TypeInv
  <2>5. StepsOK(r)'
    BY <2>1 DEF StepsOK
  <2>6. \A i \in ScopeIds(attached) :
          copies'[i] + One(r \in Paid(i)') + ledger[i]
            <= copies[i] + One(r \in Paid(i)) + ledger'[i]
    BY <1>b, <1>r, <2>3, <2>4
  <2>7. \A s \in Scopes(attached) : \A m \in s.maxDownloads :
          ledger'[s.id] + One(r \in Charging(s.id)') <= ledger[s.id] + One(r \in Charging(s.id))
    BY <1>b, <2>3, <2>4
  <2> QED BY <1>a, <2>1, <2>5, <2>6, <2>7, CapStepOf
<1>3. ASSUME NEW r \in Request, KeepMember(r) PROVE CapInv'
  <2>1. UNCHANGED <<ledger, copies>> /\ req[r].step = "keep" /\ req[r].kind = "member"
    BY <1>3 DEF KeepMember
  <2>2. CASE Ends(r)
    BY <1>h, <1>l, <2>1, <2>2
  <2>3. CASE Goto(r, "record")
    <3>1. /\ \A q \in Request \ {r} : req'[q] = req[q]
          /\ Told(r)' = Told(r) /\ req'[r].step = "record" /\ req'[r].kind = "member"
      BY <1>g, <2>1, <2>3 DEF Steps
    <3>2. \A i : /\ One(r \in Paid(i)') = 0
                 /\ One(r \in Charging(i)') = One(r \in Charging(i))
      BY <2>1, <3>1 DEF Paid, Charging, Charged, One
    <3>3. StepsOK(r)'
      BY <3>1 DEF StepsOK
    <3> QED BY <1>a, <1>b, <2>1, <3>1, <3>2, <3>3, CapStepOf
  <2> QED BY <1>3, <2>2, <2>3 DEF KeepMember
<1>4. ASSUME NEW r \in Request, KeepItem(r) PROVE CapInv'
  <2>1. UNCHANGED copies /\ req[r].step = "keep" /\ req[r].kind \in Charged
    BY <1>4 DEF KeepItem, Charged
  <2>2. CASE Ends(r) /\ UNCHANGED ledger
    BY <1>h, <1>l, <2>1, <2>2
  <2>3. CASE ledger' = Recorded(r) /\ Goto(r, "mint")
    BY <1>r, <2>1, <2>3
  <2> QED BY <1>4, <2>2, <2>3 DEF KeepItem
<1>5. ASSUME NEW r \in Request, KeepFetch(r) PROVE CapInv'
  <2>1. UNCHANGED <<ledger, copies>>
    BY <1>5 DEF KeepFetch
  <2>2. CASE Ends(r)
    BY <1>h, <1>l, <2>1, <2>2
  <2>3. CASE Goto(r, "served")
    BY <1>g, <1>l, <2>1, <2>3 DEF Steps
  <2> QED BY <1>5, <2>2, <2>3 DEF KeepFetch
<1>6. ASSUME NEW r \in Request, Record(r) PROVE CapInv'
  <2>1. /\ req[r].step = "record" /\ req[r].kind \in Charged
        /\ ledger' = Recorded(r) /\ UNCHANGED copies /\ Goto(r, "mint")
    BY <1>6 DEF Record, CapInv, Charged
  <2> QED BY <1>r, <2>1
\* r hands out its URL and is done.
<1>u. ASSUME NEW r \in Request, req[r].step \in {"mint", "spend"}, HandOut(r), Ends(r),
             UNCHANGED ledger
      PROVE  CapInv'
  <2>1. /\ \A q \in Request \ {r} : req'[q] = req[q]
        /\ req'[r].told = {} /\ req'[r].step = "idle"
    BY <1>h, <1>u
  <2>2. \A i : One(r \in Paid(i)') = 0 /\ One(r \in Charging(i)') = 0
    BY <2>1 DEF Paid, Charging, One
  <2>3. \A i \in ScopeIds(attached) : copies'[i] = copies[i] + One(r \in Paid(i))
    BY <1>u DEF HandOut, Paid, One, None, TypeInv
  <2>4. StepsOK(r)'
    BY <2>1 DEF StepsOK
  <2> QED BY <1>a, <1>b, <1>u, <2>1, <2>2, <2>3, <2>4, CapStepOf
<1>7. ASSUME NEW r \in Request, Mint(r) PROVE CapInv'
  <2>1. req[r].step = "mint" /\ UNCHANGED ledger
    BY <1>7 DEF Mint
  <2>2. CASE Ends(r) /\ UNCHANGED copies
    BY <1>h, <1>l, <2>1, <2>2
  <2>3. CASE Ends(r) /\ HandOut(r)
    BY <1>u, <2>1, <2>3
  <2>4. CASE Goto(r, "spend") /\ UNCHANGED copies
    <3>1. /\ \A q \in Request \ {r} : req'[q] = req[q]
          /\ req'[r].told = req[r].told /\ Told(r)' = Told(r) /\ req'[r].step = "spend"
      BY <1>g, <2>4 DEF Steps
    <3>2. \A i : /\ One(r \in Paid(i)') = One(r \in Paid(i))
                 /\ One(r \in Charging(i)') = 0
      BY <2>1, <3>1 DEF Paid, Charging, One
    <3>3. StepsOK(r)'
      BY <3>1 DEF StepsOK
    <3> QED BY <1>a, <1>b, <2>1, <2>4, <3>1, <3>2, <3>3, CapStepOf
  <2> QED BY <1>7, <2>2, <2>3, <2>4 DEF Mint
<1>8. ASSUME NEW r \in Request, Spend(r) PROVE CapInv'
  <2>1. req[r].step = "spend" /\ UNCHANGED ledger /\ Ends(r)
    BY <1>8 DEF Spend
  <2>2. CASE UNCHANGED copies
    BY <1>h, <1>l, <2>1, <2>2
  <2>3. CASE HandOut(r)
    BY <1>u, <2>1, <2>3
  <2> QED BY <1>8, <2>2, <2>3 DEF Spend
<1>9. ASSUME NEW r \in Request, End(r) PROVE CapInv'
  <2>1. UNCHANGED <<ledger, copies>> /\ Ends(r)
    BY <1>9 DEF End
  <2> QED BY <1>h, <1>l, <2>1
<1>10. ASSUME NEW r \in Request, NEW url \in urls, Fetch(r, url) PROVE CapInv'
  <2>1. /\ \A q \in Request \ {r} : req'[q] = req[q]
        /\ req'[r].told = {} /\ req'[r].step \in {"evaluate", "served"}
    BY <1>10 DEF Fetch, Idle, None, TypeInv
  <2>2. UNCHANGED <<ledger, copies>>
    BY <1>10 DEF Fetch
  <2> QED BY <1>l, <2>1, <2>2
<1>11. ASSUME UNCHANGED <<req, ledger, copies>> PROVE CapInv'
  BY ZenonT(60), <1>11, <1>a DEF CapInv, Charging, Paid, Told
<1> QED
  BY <1>1, <1>2, <1>3, <1>4, <1>5, <1>6, <1>7, <1>8, <1>9, <1>10, <1>11
  DEF Next, SetLegalHold, RevokeLink, Tick, askVars

\* max_downloads of a scope is overrun only by the requests that were in flight
\* when its last download was recorded, whichever URLs were minted since.
THEOREM CapAlways == Spec => []CapHolds
<1>1. TypeInv /\ Init => CapInv
  <2> SUFFICES ASSUME TypeInv, Init PROVE CapInv
    OBVIOUS
  <2>1. \A r \in Request : req[r].step = "idle" /\ req[r].told = {}
    BY DEF Init, Idle, None
  <2>2. \A i : Paid(i) = {} /\ Charging(i) = {}
    BY <2>1 DEF Paid, Charging
  <2>3. Cardinality({}) = 0 /\ Cardinality(Request) \in Nat /\ Cardinality(Request) >= 1
    BY FS_EmptySet, CardWithout, DistributionAssumption
  <2>4. \A i \in ScopeIds(attached) : ledger[i] = 0 /\ copies[i] = 0
    BY DEF Init
  <2>5. \A s \in Scopes(attached) : s.id \in ScopeIds(attached) /\ s.maxDownloads \subseteq Nat
    BY DistributionAssumption DEF TypeInv, ScopeIds
  <2>6. \A s \in Scopes(attached) : \A m \in s.maxDownloads :
          ledger[s.id] + Cardinality(Charging(s.id)) <= m + Cardinality(Request) - 1
    <3> SUFFICES ASSUME NEW s \in Scopes(attached), NEW m \in s.maxDownloads
                 PROVE  ledger[s.id] + Cardinality(Charging(s.id)) <= m + Cardinality(Request) - 1
      OBVIOUS
    <3>1. m \in Nat /\ ledger[s.id] = 0
      BY <2>4, <2>5
    <3>2. Cardinality(Charging(s.id)) = 0
      BY <2>2, <2>3
    <3> QED BY <2>3, <3>1, <3>2
  <2>7. \A i \in ScopeIds(attached) : copies[i] + Cardinality(Paid(i)) <= ledger[i]
    BY <2>2, <2>3, <2>4
  <2> QED BY <2>1, <2>6, <2>7 DEF CapInv
<1>2. TypeInv /\ CapInv => CapHolds
  <2> SUFFICES ASSUME TypeInv, CapInv, NEW s \in Scopes(attached), NEW m \in s.maxDownloads
               PROVE  copies[s.id] <= m + Cardinality(Request) - 1
    BY DEF CapHolds
  <2>1. s.id \in ScopeIds(attached) /\ m \in Nat
    BY DistributionAssumption DEF TypeInv, ScopeIds
  <2>2. PICK r \in Request : TRUE
    BY DistributionAssumption
  <2>3. Paid(s.id) \in SUBSET Request /\ Charging(s.id) \in SUBSET Request
    BY DEF Paid, Charging
  <2>4. /\ Cardinality(Paid(s.id)) \in Nat /\ Cardinality(Charging(s.id)) \in Nat
        /\ Cardinality(Request) \in Nat
    BY <2>2, <2>3, CardWithout
  <2>5. copies[s.id] \in Nat /\ ledger[s.id] \in Nat
    BY <2>1 DEF TypeInv
  <2>6. /\ copies[s.id] + Cardinality(Paid(s.id)) <= ledger[s.id]
        /\ ledger[s.id] + Cardinality(Charging(s.id)) <= m + Cardinality(Request) - 1
    BY <2>1 DEF CapInv
  <2> QED BY <2>1, <2>4, <2>5, <2>6
<1> QED BY <1>1, <1>2, TypeInit, TypeStep, CapStep, PTL DEF Spec

\* Both limits hold, of scopes and of links, for any number of overlapping requests.
THEOREM LimitsAlways == Spec => []LimitsHold
BY CapAlways, LinkLimitAlways, PTL DEF LimitsHold

----------------------------------------------------------------------------
(* Orders.                                                                 *)

OrderSteps == {"idle", "approved", "collect", "approve", "reject", "cancel", "pickup",
               "mark_ready", "replace_pickup"}

Writing == {"mark_ready", "replace_pickup"}

OrderTypes ==
  /\ doing \in [Actor -> OrderSteps]
  /\ seen \in [Actor -> [state : {"submitted", "approved", "rejected", "cancelled", "ready",
                                  "collected"}, link : Link \cup {NoLink}]]
  /\ state \in {"submitted", "approved", "rejected", "cancelled", "ready", "collected"}
  /\ link \in Link \cup {NoLink} /\ live \in SUBSET Link /\ made \in SUBSET Link
  /\ raced \in BOOLEAN /\ doubled \in BOOLEAN

\* One pickup at a time is made, for the link it has read.
OneMaker ==
  ~ doubled =>
    /\ \A a, b \in Actor : doing[a] \in Making /\ doing[b] \in Making => a = b
    /\ \A a \in Actor : doing[a] \in Making => seen[a].link = link

\* One decision at a time is made, of an order that is still submitted, and so has
\* no pickup yet.
OneDecision ==
  /\ state = "submitted" => live = {}
  /\ \A a \in Actor : doing[a] \in Writing => state # "submitted"
  /\ ~ raced =>
       /\ \A a, b \in Actor : doing[a] \in Decision /\ doing[b] \in Decision => a = b
       /\ \A a \in Actor : doing[a] \in Decision => state = "submitted"
       /\ \A a \in Actor : doing[a] \in Writing => state \in {"approved", "ready", "collected"}

OrderInv == OrderTypes /\ OneMaker /\ OneDecision /\ OrderIsTrue

LEMMA OrderInitially == OrderInit => OrderInv
<1> SUFFICES ASSUME OrderInit PROVE OrderInv
  OBVIOUS
<1>1. OrderTypes
  BY DEF OrderInit, OrderTypes, OrderSteps
<1>2. OneMaker /\ OneDecision
  BY DEF OrderInit, OneMaker, OneDecision, Making, Decision, Writing
<1>3. OrderIsTrue
  BY DEF OrderInit, OrderIsTrue, OnlyItsLink, OnlyIfApproved,
     CollectedIsTrue
<1> QED BY <1>1, <1>2, <1>3 DEF OrderInv

\* One actor goes on to another step.
LEMMA ActorMoves ==
  ASSUME OrderTypes, NEW a \in Actor, NEW s \in OrderSteps, Turns(a, s)
  PROVE  /\ doing' \in [Actor -> OrderSteps]
         /\ doing'[a] = s /\ \A b \in Actor \ {a} : doing'[b] = doing[b]
BY DEF OrderTypes, Turns

LEMMA ActorSees ==
  ASSUME OrderTypes, NEW a \in Actor, See(a)
  PROVE  /\ seen' \in [Actor -> [state : {"submitted", "approved", "rejected", "cancelled",
                                          "ready", "collected"}, link : Link \cup {NoLink}]]
         /\ seen'[a].link = link /\ \A b \in Actor \ {a} : seen'[b] = seen[b]
BY DEF OrderTypes, See

\* A request reads the order, or gives up: the order stays as it is.
LEMMA OrderRead ==
  ASSUME OrderInv, NEW a \in Actor,
         \/ Judge(a) \/ Pickup(a) \/ Recheck(a) \/ Abort(a)
         \/ \E l \in Link : Resolve(a, l)
  PROVE  OrderInv'
<1> USE DEF Making, Decision, Writing, OrderSteps
<1>a. OrderTypes /\ OneMaker /\ OneDecision /\ OrderIsTrue
  BY DEF OrderInv
<1>b. UNCHANGED <<state, link, made, live, taken>>
  BY DEF Judge, Pickup, Recheck, Abort, Resolve
<1>c. /\ raced' \in BOOLEAN /\ (~ raced' => ~ raced)
      /\ doubled' \in BOOLEAN /\ (~ doubled' => ~ doubled)
  BY <1>a DEF Judge, Pickup, Recheck, Abort, Resolve, OrderTypes
<1>d. OrderIsTrue'
  BY <1>a, <1>b, <1>c DEF OrderIsTrue, OnlyItsLink, OnlyIfApproved,
     CollectedIsTrue
<1>1. CASE Judge(a)
  <2>1. PICK s \in {"approve", "reject", "cancel"} : Turns(a, s)
    BY <1>1 DEF Judge
  <2>2. /\ doing' \in [Actor -> OrderSteps]
        /\ doing'[a] = s /\ \A b \in Actor \ {a} : doing'[b] = doing[b]
    BY <1>a, <2>1, ActorMoves
  <2>3. See(a) /\ state = "submitted" /\ doubled' = doubled
    BY <1>1 DEF Judge
  <2>4. ~ raced' => \A b \in Actor \ {a} : doing[b] \notin {"approve", "reject", "cancel"}
    BY <1>1 DEF Judge, Busy
  <2>5. OrderTypes'
    BY <1>a, <1>b, <1>c, <2>2, <2>3, ActorSees DEF OrderTypes
  <2>6. OneMaker'
    BY <1>a, <1>b, <2>2, <2>3, ActorSees DEF OneMaker
  <2>7. OneDecision'
    BY <1>a, <1>b, <1>c, <2>2, <2>3, <2>4 DEF OneDecision
  <2> QED BY <1>d, <2>5, <2>6, <2>7 DEF OrderInv
<1>2. CASE Pickup(a)
  <2>1. See(a) /\ Turns(a, "pickup") /\ raced' = raced
    BY <1>2 DEF Pickup
  <2>2. /\ doing' \in [Actor -> OrderSteps]
        /\ doing'[a] = "pickup" /\ \A b \in Actor \ {a} : doing'[b] = doing[b]
    BY <1>a, <2>1, ActorMoves
  <2>3. ~ doubled' => \A b \in Actor \ {a} : doing[b] \notin Making
    BY <1>2 DEF Pickup, Busy
  <2>4. OrderTypes'
    BY <1>a, <1>b, <1>c, <2>1, <2>2, ActorSees DEF OrderTypes
  <2>5. OneMaker'
    BY <1>a, <1>b, <2>1, <2>2, <2>3, ActorSees DEF OneMaker
  <2>6. OneDecision'
    BY <1>a, <1>b, <2>1, <2>2 DEF OneDecision
  <2> QED BY <1>d, <2>4, <2>5, <2>6 DEF OrderInv
<1>3. CASE Recheck(a)
  <2>1. PICK s \in {"idle", "mark_ready", "replace_pickup"} :
          /\ Turns(a, s)
          /\ s # "idle" => state \in {"approved", "ready", "collected"}
    BY <1>3 DEF Recheck
  <2>2. /\ doing' \in [Actor -> OrderSteps]
        /\ doing'[a] = s /\ \A b \in Actor \ {a} : doing'[b] = doing[b]
    BY <1>a, <2>1, ActorMoves
  <2>3. doing[a] = "pickup" /\ UNCHANGED <<seen, raced, doubled>>
    BY <1>3 DEF Recheck
  <2>4. OrderTypes'
    BY <1>a, <1>b, <2>2, <2>3 DEF OrderTypes
  <2>5. OneMaker'
    BY <1>a, <1>b, <2>2, <2>3 DEF OneMaker
  <2>6. OneDecision'
    BY <1>a, <1>b, <2>1, <2>2, <2>3 DEF OneDecision
  <2> QED BY <1>d, <2>4, <2>5, <2>6 DEF OrderInv
<1>4. CASE Abort(a)
  <2>1. Turns(a, "idle") /\ UNCHANGED <<seen, raced, doubled>>
    BY <1>4 DEF Abort
  <2>2. /\ doing' \in [Actor -> OrderSteps]
        /\ doing'[a] = "idle" /\ \A b \in Actor \ {a} : doing'[b] = doing[b]
    BY <1>a, <2>1, ActorMoves
  <2>3. OrderTypes' /\ OneMaker'
    BY <1>a, <1>b, <2>1, <2>2 DEF OrderTypes, OneMaker
  <2>4. OneDecision'
    BY <1>a, <1>b, <2>1, <2>2 DEF OneDecision
  <2> QED BY <1>d, <2>3, <2>4 DEF OrderInv
<1>5. ASSUME NEW l \in Link, Resolve(a, l) PROVE OrderInv'
  <2>1. See(a) /\ Turns(a, "collect") /\ UNCHANGED <<raced, doubled>>
    BY <1>5 DEF Resolve
  <2>2. /\ doing' \in [Actor -> OrderSteps]
        /\ doing'[a] = "collect" /\ \A b \in Actor \ {a} : doing'[b] = doing[b]
    BY <1>a, <2>1, ActorMoves
  <2>3. OrderTypes'
    BY <1>a, <1>b, <2>1, <2>2, ActorSees DEF OrderTypes
  <2>4. OneMaker'
    BY <1>a, <1>b, <2>1, <2>2, ActorSees DEF OneMaker
  <2>5. OneDecision'
    BY <1>a, <1>b, <2>1, <2>2 DEF OneDecision
  <2> QED BY <1>d, <2>3, <2>4, <2>5 DEF OrderInv
<1> QED BY <1>1, <1>2, <1>3, <1>4, <1>5

\* A request writes the order, by what it had read of it.
LEMMA OrderWritten ==
  ASSUME OrderInv, NEW a \in Actor,
         Approve(a) \/ Refuse(a) \/ Ready(a) \/ Collect(a)
  PROVE  OrderInv'
<1> USE DEF Making, Decision, Writing, OrderSteps
<1>a. /\ OrderTypes /\ OneMaker /\ OneDecision
      /\ OnlyItsLink /\ OnlyIfApproved /\ CollectedIsTrue
  BY DEF OrderInv, OrderIsTrue
<1>b. UNCHANGED <<seen, raced, doubled>>
  BY DEF Approve, Refuse, Ready, Collect
<1>1. CASE Approve(a) \/ Refuse(a)
  <2>1. PICK s \in {"approved", "idle"} : Turns(a, s)
    BY <1>1 DEF Approve, Refuse
  <2>2. /\ doing' \in [Actor -> OrderSteps]
        /\ doing'[a] = s /\ \A b \in Actor \ {a} : doing'[b] = doing[b]
    BY <1>a, <2>1, ActorMoves
  <2>3. /\ UNCHANGED <<link, made, live, taken>> /\ doing[a] \in Decision
        /\ state' \in {"approved", "rejected", "cancelled"}
    BY <1>1 DEF Approve, Refuse
  <2>4. ~ raced => /\ live = {}
                   /\ \A b \in Actor : doing[b] \notin Writing
                   /\ \A b \in Actor \ {a} : doing[b] \notin Decision
    BY <1>a, <2>3 DEF OneDecision
  <2>5. OrderTypes' /\ OneMaker'
    BY <1>a, <1>b, <2>2, <2>3 DEF OrderTypes, OneMaker
  <2>6. OneDecision'
    BY <1>a, <1>b, <2>2, <2>3, <2>4 DEF OneDecision
  <2>7. OrderIsTrue'
    BY <1>a, <1>b, <2>3, <2>4 DEF OrderIsTrue, OnlyItsLink, OnlyIfApproved,
       CollectedIsTrue
  <2> QED BY <2>5, <2>6, <2>7 DEF OrderInv
<1>2. CASE Ready(a)
  <2>1. PICK l \in Link : /\ live' = (live \ {seen[a].link}) \cup {l}
                          /\ link' = l /\ made' = made \cup {l}
    <3>1. \E new \in Link : new \notin made
      BY <1>2, <1>a DEF Ready, OrderTypes
    <3>2. (CHOOSE new \in Link : new \notin made) \in Link
      BY <3>1
    <3> QED BY <1>2, <3>2 DEF Ready, Previous
  <2>2. /\ doing' \in [Actor -> OrderSteps]
        /\ doing'[a] = "idle" /\ \A b \in Actor \ {a} : doing'[b] = doing[b]
    BY <1>2, <1>a, ActorMoves DEF Ready
  <2>3. doing[a] \in Writing /\ state' = "ready" /\ taken' = taken
    BY <1>2 DEF Ready
  <2>4. OrderTypes'
    BY <1>a, <1>b, <2>1, <2>2, <2>3 DEF OrderTypes
  <2>5. OneMaker'
    BY <1>a, <1>b, <2>2, <2>3 DEF OneMaker
  <2>6. OneDecision'
    BY <1>a, <1>b, <2>2, <2>3 DEF OneDecision
  <2>7. ~ doubled => seen[a].link = link
    BY <1>a, <2>3 DEF OneMaker
  <2>8. OrderIsTrue'
    BY <1>a, <1>b, <2>1, <2>3, <2>7 DEF OrderIsTrue, OnlyItsLink,
       OnlyIfApproved, CollectedIsTrue
  <2> QED BY <2>4, <2>5, <2>6, <2>8 DEF OrderInv
<1>3. CASE Collect(a)
  <2>1. /\ doing' \in [Actor -> OrderSteps]
        /\ doing'[a] = "idle" /\ \A b \in Actor \ {a} : doing'[b] = doing[b]
    BY <1>3, <1>a, ActorMoves DEF Collect
  <2>2. /\ taken' = taken \cup {seen[a].link} /\ seen[a].link \in live
        /\ UNCHANGED <<link, made, live>>
        /\ state' = state \/ (state' = "collected" /\ state \in {"ready", "collected"})
    BY <1>3 DEF Collect, Live
  <2>3. OrderTypes'
    BY <1>a, <1>b, <2>1, <2>2 DEF OrderTypes
  <2>4. OneMaker'
    BY <1>a, <1>b, <2>1, <2>2 DEF OneMaker
  <2>5. OneDecision'
    BY <1>a, <1>b, <2>1, <2>2 DEF OneDecision
  <2>6. OrderIsTrue'
    BY <1>a, <1>b, <2>2 DEF OrderIsTrue, OnlyItsLink, OnlyIfApproved,
       CollectedIsTrue
  <2> QED BY <2>3, <2>4, <2>5, <2>6 DEF OrderInv
<1> QED BY <1>1, <1>2, <1>3

\* A link is revoked, or the window ends.
LEMMA OrderEnds ==
  ASSUME OrderInv, (\E l \in Link : Revoke(l)) \/ WindowEnds \/ UNCHANGED orderVars
  PROVE  OrderInv'
<1>1. /\ UNCHANGED <<state, link, made, taken, doing, seen, raced, doubled>>
      /\ live' \in SUBSET live
  BY DEF Revoke, WindowEnds, orderVars
<1>2. OrderTypes' /\ OneMaker' /\ OneDecision'
  BY <1>1 DEF OrderInv, OrderTypes, OneMaker, OneDecision
<1>3. OrderIsTrue'
  BY <1>1 DEF OrderInv, OrderIsTrue, OnlyItsLink, OnlyIfApproved,
     CollectedIsTrue
<1> QED BY <1>2, <1>3 DEF OrderInv

\* The order says what its links are good for: no link but its own is good unless
\* two pickups were being made at once, none is unless it was approved or two
\* decisions overlapped, and "collected" is true of the link it has.
THEOREM OrderIsTrueAlways == OrderSpec => []OrderIsTrue
<1>1. OrderInv /\ [OrderNext]_orderVars => OrderInv'
  BY OrderRead, OrderWritten, OrderEnds DEF OrderNext
<1>2. OrderInv => OrderIsTrue
  BY DEF OrderInv
<1> QED BY <1>1, <1>2, OrderInitially, PTL DEF OrderSpec
=============================================================================
