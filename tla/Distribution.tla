---------------------------- MODULE Distribution ----------------------------
(***************************************************************************)
(* One asset, one usage, and everybody who wants its bytes: members         *)
(* (dam-api/src/downloads.rs), recipients of a share link and of an order's *)
(* pickup (dam-api/src/shares.rs), and whoever holds a signed URL           *)
(* (dam-api/src/delivery.rs).  Between them stand the rights verdict        *)
(* (RightsEval), its cache and the ledger it counts (dam-db/src/rights.rs,  *)
(* usage.rs), and the link's own limits (dam-db/src/shares.rs).             *)
(*                                                                          *)
(* A step ends with a commit, or with the read that decides; transactions   *)
(* are READ COMMITTED.  Nothing in src/ edits a licence or a release, so    *)
(* these are chosen once; what does change is the clock, the legal hold,    *)
(* the ledger and the link.                                                 *)
(***************************************************************************)
EXTENDS RightsEval, FiniteSets

CONSTANTS
  Request,      \* HTTP requests that can be under way together
  Portfolio,    \* what may be attached to the asset: [licenses, releases]
  Usage,        \* the channel and territory of every request
  MaxTime,      \* the clock's bound
  UrlLife,      \* DOWNLOAD_TTL_MINUTES and PORTAL_DOWNLOAD_TTL
  LinkEnds,     \* the link's expires_at, an option
  LinkLimit,    \* its max_downloads, an option
  MaxAsked,     \* bounds the downloads asked for
  MaxRulings    \* bounds the times the hold is set or lifted

\* Dates are instants of the clock.
Dated(p) ==
  /\ \A l \in p.licenses :
       l.starts \cup l.ends \subseteq Nat
       /\ \A s \in l.scopes : s.starts \cup s.ends \subseteq Nat
  /\ \A x \in p.releases : x.starts \cup x.expires \subseteq Nat

VARIABLES
  now, attached, hold, rulings,
  ledger,       \* rights_usage: the downloads recorded for each scope
  cache,        \* rights_evaluations, an option: [verdict, until]
  revoked, count,  \* the link's revoked_at and download_count
  req,          \* each request's kind, step, clock reading and evaluation
  asked,
  urls,         \* signed URLs that were handed out: [link, until]
  copies,       \* URLs handed out for each scope, 0 being none (history)
  handed,       \* URLs handed out through the link (history)
  served        \* when bytes were asked for that were served, and whether under a
                \* hold (history)

askVars == <<now, attached, hold, rulings, ledger, cache, revoked, count, req, asked,
             urls, copies, handed, served>>

Charged == {"member", "item"}      \* what writes the ledger

Linked == {"item", "link"}         \* what goes through the share

Scopes(p) == UNION {l.scopes : l \in p.licenses}

ScopeIds(p) == {s.id : s \in Scopes(p)}

ASSUME DistributionAssumption ==
  /\ \A p \in Portfolio :
       /\ Dated(p)
       /\ \A s, x \in Scopes(p) : s.id = x.id => s = x
       /\ \A s \in Scopes(p) : s.maxDownloads \subseteq Nat
  /\ LinkLimit \subseteq Nat
  /\ Request # {} /\ IsFiniteSet(Request)
  /\ UrlLife \in Nat

\* ON CONFLICT: one row, whose {} means it never expires.
None == {}

Idle == [kind |-> "none", step |-> "idle", at |-> 0, told |-> None, link |-> FALSE,
         held |-> FALSE]

Init ==
  /\ now = 0 /\ attached \in Portfolio /\ hold = FALSE /\ rulings = 0
  /\ ledger = [s \in ScopeIds(attached) |-> 0] /\ cache = None
  /\ revoked = FALSE /\ count = 0
  /\ req = [r \in Request |-> Idle] /\ asked = 0
  /\ urls = {} /\ copies = [s \in ScopeIds(attached) |-> 0] /\ handed = 0 /\ served = {}

----------------------------------------------------------------------------
(* Reads.                                                                  *)

\* inputs_for_on; nothing records impressions from a download.
Inputs ==
  [hold |-> hold, licenses |-> attached.licenses, releases |-> attached.releases,
   consumed |-> [s \in DOMAIN ledger |-> [impressions |-> 0, downloads |-> ledger[s]]]]

\* evaluate_on, up to what it stores.
Fresh(t) == Evaluate(Inputs, Usage, t)

\* cached_on
Cached(t) == {c \in cache : \A u \in c.until : u > t}

\* effective_on, where the caller does not keep what a miss computes:
\* issue_with_purpose never commits.
Effective(t) ==
  IF Cached(t) # {} THEN (CHOOSE c \in Cached(t) : TRUE).verdict ELSE Fresh(t).verdict

\* resolve, is_live_on and the WHERE of consume_download
LinkLives(t) ==
  /\ ~ revoked
  /\ \A e \in LinkEnds : e > t
  /\ \A m \in LinkLimit : count < m

\* The row store_on writes.
Stored(e) == {[verdict |-> e.verdict, until |-> e.until]}

Goto(r, step) == req' = [req EXCEPT ![r].step = step]

Ends(r) == req' = [req EXCEPT ![r] = Idle]

----------------------------------------------------------------------------
(* Downloads.                                                              *)

\* A request begins: a member's by evaluating, an item's by resolving the link
\* and then evaluating, a link's own by resolving and minting.
Ask(r, kind) ==
  /\ req[r].step = "idle" /\ asked < MaxAsked
  /\ kind \in Linked => LinkLives(now)
  /\ asked' = asked + 1
  /\ req' = [req EXCEPT ![r] =
       [Idle EXCEPT !.kind = kind, !.at = now, !.link = kind \in Linked,
                    !.step = IF kind \in Charged THEN "evaluate" ELSE "mint"]]
  /\ UNCHANGED <<now, attached, hold, rulings, ledger, cache, revoked, count, urls,
                 copies, handed, served>>

\* evaluate_on reads its inputs.
Assess(r) ==
  /\ req[r].step = "evaluate"
  /\ req' = [req EXCEPT ![r].told = {Fresh(req[r].at)}, ![r].step = "keep"]
  /\ UNCHANGED <<now, attached, hold, rulings, ledger, cache, revoked, count, asked,
                 urls, copies, handed, served>>

Told(r) == CHOOSE e \in req[r].told : TRUE

\* The bug: the download is not counted.
RecordedNothing(r) == ledger

\* record_download, with the scope the evaluation named.
Recorded(r) == [s \in DOMAIN ledger |-> ledger[s] + IF s \in Told(r).scope THEN 1 ELSE 0]

\* A member's evaluation is committed whatever it says.
KeepMember(r) ==
  /\ req[r].step = "keep" /\ req[r].kind = "member"
  /\ cache' = Stored(Told(r))
  /\ IF Permits(Told(r).verdict) THEN Goto(r, "record") ELSE Ends(r)
  /\ UNCHANGED <<now, attached, hold, rulings, ledger, revoked, count, asked, urls,
                 copies, handed, served>>

Record(r) ==
  /\ req[r].step = "record"
  /\ ledger' = Recorded(r)
  /\ Goto(r, "mint")
  /\ UNCHANGED <<now, attached, hold, rulings, cache, revoked, count, asked, urls,
                 copies, handed, served>>

\* A pickup's evaluation and its ledger row are one transaction, which a denial
\* rolls back.
KeepItem(r) ==
  /\ req[r].step = "keep" /\ req[r].kind = "item"
  /\ IF Permits(Told(r).verdict)
     THEN cache' = Stored(Told(r)) /\ ledger' = Recorded(r) /\ Goto(r, "mint")
     ELSE Ends(r) /\ UNCHANGED <<cache, ledger>>
  /\ UNCHANGED <<now, attached, hold, rulings, revoked, count, asked, urls, copies,
                 handed, served>>

\* The URL reaches the caller.
HandOut(r) ==
  /\ urls' = urls \cup {[link |-> req[r].link, until |-> req[r].at + UrlLife]}
  /\ copies' = [s \in DOMAIN copies |->
       copies[s] + IF req[r].told # None /\ s \in Told(r).scope THEN 1 ELSE 0]

\* issue and issue_for_share ask again.
Mint(r) ==
  /\ req[r].step = "mint"
  /\ IF ~ Permits(Effective(req[r].at)) THEN Ends(r) /\ UNCHANGED <<urls, copies>>
     ELSE IF req[r].link THEN Goto(r, "spend") /\ UNCHANGED <<urls, copies>>
     ELSE HandOut(r) /\ Ends(r)
  /\ UNCHANGED <<now, attached, hold, rulings, ledger, cache, revoked, count, asked,
                 handed, served>>

\* consume_download: the check and the increment are one UPDATE.  A link that
\* has died meanwhile keeps the minted URL to itself.
Spend(r) ==
  /\ req[r].step = "spend"
  /\ IF LinkLives(req[r].at)
     THEN HandOut(r) /\ count' = count + 1 /\ handed' = handed + 1
     ELSE UNCHANGED <<urls, copies, count, handed>>
  /\ Ends(r)
  /\ UNCHANGED <<now, attached, hold, rulings, ledger, cache, revoked, asked, served>>

----------------------------------------------------------------------------
(* deliver: the URL is good, the link it came through lives, and the verdict  *)
(* permits.                                                                *)

Serve(r) == served' = served \cup {[at |-> req'[r].at, held |-> req'[r].held]}

Fetch(r, url) ==
  /\ req[r].step = "idle" /\ url \in urls /\ now < url.until
  /\ url.link => LinkLives(now)
  /\ Cached(now) = {} \/ Permits(Effective(now))
  /\ req' = [req EXCEPT ![r] =
       [Idle EXCEPT !.kind = "fetch", !.at = now, !.link = url.link, !.held = hold,
                    !.step = IF Cached(now) = {} THEN "evaluate" ELSE "served"]]
  /\ IF Cached(now) = {} THEN UNCHANGED served ELSE Serve(r)
  /\ UNCHANGED <<now, attached, hold, rulings, ledger, cache, revoked, count, asked,
                 urls, copies, handed>>

\* What a miss computed is committed with the delivery, and not with a denial.
KeepFetch(r) ==
  /\ req[r].step = "keep" /\ req[r].kind = "fetch"
  /\ IF Permits(Told(r).verdict)
     THEN cache' = Stored(Told(r)) /\ Goto(r, "served") /\ Serve(r)
     ELSE Ends(r) /\ UNCHANGED <<cache, served>>
  /\ UNCHANGED <<now, attached, hold, rulings, ledger, revoked, count, asked, urls,
                 copies, handed>>

\* A request is over: it has its bytes, or its process or connection died.
End(r) ==
  /\ req[r].step # "idle" /\ Ends(r)
  /\ UNCHANGED <<now, attached, hold, rulings, ledger, cache, revoked, count, asked,
                 urls, copies, handed, served>>

----------------------------------------------------------------------------
(* The rest of the world.                                                  *)

\* set_legal_hold writes the asset and the audit log, and nothing else.
SetLegalHold ==
  /\ rulings < MaxRulings /\ rulings' = rulings + 1
  /\ hold' = ~ hold
  /\ UNCHANGED <<now, attached, ledger, cache, revoked, count, req, asked, urls, copies,
                 handed, served>>

RevokeLink ==
  /\ ~ revoked /\ revoked' = TRUE
  /\ UNCHANGED <<now, attached, hold, rulings, ledger, cache, count, req, asked, urls,
                 copies, handed, served>>

Tick ==
  /\ now < MaxTime /\ now' = now + 1
  /\ UNCHANGED <<attached, hold, rulings, ledger, cache, revoked, count, req, asked, urls,
                 copies, handed, served>>

Next ==
  \/ \E r \in Request :
       \/ \E kind \in {"member", "item", "link"} : Ask(r, kind)
       \/ Assess(r) \/ KeepMember(r) \/ KeepItem(r) \/ KeepFetch(r)
       \/ Record(r) \/ Mint(r) \/ Spend(r) \/ End(r)
       \/ \E url \in urls : Fetch(r, url)
  \/ SetLegalHold \/ RevokeLink \/ Tick

Spec == Init /\ [][Next]_askVars

----------------------------------------------------------------------------
(* Properties.                                                             *)

\* The dates alone: what the licences and releases allow of a usage while
\* nothing is held and nothing is spent.
InTerm(p, t) ==
  /\ \A x \in p.releases : ReleaseCovers(x, Usage) => ReleaseStands(x, t)
  /\ p.licenses # {}
  /\ \A l \in p.licenses : Runs(l, t) /\ \E s \in l.scopes : InForce(s, Usage, t)

\* delivery.rs: "a lapsed licence stops an already-issued URL", though a
\* delivery reads a cached verdict: what is cached never outlives a term.
ServedInTerm == \A s \in served : InTerm(attached, s.at)

\* max_downloads of a scope bounds the URLs handed out under it, up to the
\* requests in flight when the last one was recorded.
CapHolds ==
  \A s \in Scopes(attached) : \A m \in s.maxDownloads :
    copies[s.id] <= m + Cardinality(Request) - 1

\* max_downloads of a link bounds the URLs it hands out, however many overlap.
LinkLimitHolds == \A m \in LinkLimit : handed <= m

\* Both limits, of a licence's scope and of a link, under overlapping downloads.
LimitsHold == CapHolds /\ LinkLimitHolds

\* "A legal hold [...] has to bite on URLs already in circulation": no delivery
\* begins under a hold.
HoldStopsDelivery == \A s \in served : ~ s.held

\* "a refusal must not spend one of the recipient's three downloads on bytes
\* they never received": a URL the link has paid for can be fetched while the
\* link is neither revoked nor over.
PaidForIsServed ==
  \A url \in urls : url.link /\ ~ revoked /\ (\A e \in LinkEnds : e > now) => LinkLives(now)
=============================================================================
