------------------------------- MODULE Access -------------------------------
(***************************************************************************)
(* What a caller may do to an asset: the roles of their membership, loaded  *)
(* and narrowed by their key's scopes (dam-db/src/auth.rs), compiled into   *)
(* one predicate per action (dam-core/src/policy.rs), which every query     *)
(* renders (dam-db/src/access.rs) and which `evaluate` judges one asset by. *)
(*                                                                          *)
(* The state is a membership, the scopes of the key presented, one asset    *)
(* and the clock.  What is optional is a set of at most one value.          *)
(***************************************************************************)
EXTENDS Naturals

CONSTANTS
  Group,       \* asset groups
  RuleBased,   \* those of them that carry a rule predicate
  Role,        \* the tenant's role rows, as grants not yet accepted
  Scoping,     \* what a key may be narrowed to: sets of permissions
  MaxTime      \* bound: the clock

VARIABLES
  member,      \* whether there is a membership
  admin,       \* is_tenant_admin
  roles,       \* the role rows its role_names resolve to
  scopes,      \* of the key: {} narrows nothing
  asset, now

accessVars == <<member, admin, roles, scopes, asset, now>>

Action == {"read", "download", "manage"}

\* A permission string is namespace and verb; Action::permission.
Permission(action) == <<"asset", action>>

\* grants_permission: as held, or by the namespace's wildcard.
Covers(held, wanted) == held = wanted \/ held = <<wanted[1], "*">>

\* The grant an administrator's membership is synthesised into.
AdminGrant ==
  [permissions |-> {Permission(action) : action \in Action}, groups |-> {}, all |-> TRUE,
   from |-> {}, until |-> {}, eula |-> FALSE, accepted |-> TRUE]

Retained(g, S) ==
  [permissions |-> g.permissions \cap S, groups |-> g.groups, all |-> g.all,
   from |-> g.from, until |-> g.until, eula |-> g.eula, accepted |-> g.accepted]

\* Scopes retain what they name exactly; a grant left with nothing is dropped.
Narrowed(grants, S) ==
  IF S = {} THEN grants
  ELSE {Retained(g, S) : g \in {h \in grants : h.permissions \cap S # {}}}

\* grants_for
Loaded ==
  IF member THEN roles \cup (IF admin THEN {AdminGrant} ELSE {}) ELSE {}

Grants == Narrowed(Loaded, scopes)

IsActiveAt(g, t) == (\A f \in g.from : t >= f) /\ (\A u \in g.until : t <= u)

Permits(g, action) == \E held \in g.permissions : Covers(held, Permission(action))

Relevant(grants, action, t) == {g \in grants : IsActiveAt(g, t) /\ Permits(g, action)}

\* The bug: roles combine as an intersection.
SharedGroups(relevant) == {x \in Group : \A g \in relevant : x \in g.groups}

\* Roles combine as a union.
AllowedGroups(relevant) == UNION {g.groups : g \in relevant}

\* compile
Compile(grants, action, t) ==
  LET relevant == Relevant(grants, action, t) IN
  [all |-> \E g \in relevant : g.all,
   groups |-> AllowedGroups(relevant),
   hasPermission |-> relevant # {},
   eulaBlocks |-> relevant # {} /\ \A g \in relevant : g.eula /\ ~ g.accepted]

MatchesNothing(p) == ~ p.hasPermission \/ (~ p.all /\ p.groups = {})

\* check_groups_are_renderable
Renderable(p) == p.all \/ p.groups \cap RuleBased = {}

InScope(p, a) == p.all \/ a.groups \cap p.groups # {}

\* push_asset_filter: the rows a query with this predicate is answered from.
Shown(p, a) == ~ MatchesNothing(p) /\ ~ a.deleted /\ InScope(p, a)

\* authorize_as hands the predicate on to the query, or refuses the request.
Sees(action) ==
  LET p == Compile(Grants, action, now) IN
  ~ MatchesNothing(p) /\ Renderable(p) /\ Shown(p, asset)

\* The gates of distribution; all but the release bind an administrator too.
MayCopy(p, a, t) ==
  /\ ~ p.eulaBlocks
  /\ ~ a.legalHold
  /\ a.rights \notin {"denied", "unknown"}
  /\ \A e \in a.expires : t <= e
  /\ p.all \/ \A r \in a.release : t >= r

\* evaluate
Allowed(grants, action, a, t) ==
  LET p == Compile(grants, action, t) IN
  /\ ~ a.deleted /\ p.hasPermission /\ InScope(p, a)
  /\ action = "download" => MayCopy(p, a, t)

May(action) == Allowed(Grants, action, asset, now)

----------------------------------------------------------------------------
Instant == {{}} \cup {{t} : t \in 0..MaxTime}

Assets ==
  [groups : SUBSET Group, release : Instant, expires : Instant, legalHold : BOOLEAN,
   rights : {"clear", "restricted", "denied", "unknown"}, deleted : BOOLEAN]

AccessInit ==
  /\ member = TRUE /\ admin = FALSE /\ roles = {}
  /\ scopes \in Scoping
  /\ asset \in {a \in Assets :
       /\ ~ a.deleted
       /\ a.release = {} \/ a.expires = {}
       /\ a.legalHold => a.rights = "clear"}
  /\ now = 0

\* set_roles with one role or the flag more, or with fewer.
GiveRole(r) ==
  /\ r \notin roles /\ roles' = roles \cup {r}
  /\ UNCHANGED <<member, admin, scopes, asset, now>>

MakeAdmin ==
  /\ ~ admin /\ admin' = TRUE
  /\ UNCHANGED <<member, roles, scopes, asset, now>>

TakeRoles ==
  /\ roles' = {} /\ admin' = FALSE
  /\ UNCHANGED <<member, scopes, asset, now>>

\* members::remove
LetGo ==
  /\ member' = FALSE /\ roles' = {} /\ admin' = FALSE
  /\ UNCHANGED <<scopes, asset, now>>

\* An asset is regrouped, or deleted.
Regroup(S) ==
  /\ asset' = [asset EXCEPT !.groups = S]
  /\ UNCHANGED <<member, admin, roles, scopes, now>>

Delete ==
  /\ asset' = [asset EXCEPT !.deleted = TRUE]
  /\ UNCHANGED <<member, admin, roles, scopes, now>>

Tick ==
  /\ now < MaxTime /\ now' = now + 1
  /\ UNCHANGED <<member, admin, roles, scopes, asset>>

AccessNext ==
  \/ member /\ (MakeAdmin \/ TakeRoles \/ LetGo \/ \E r \in Role : GiveRole(r))
  \/ (\E S \in SUBSET Group : Regroup(S)) \/ Delete \/ Tick

AccessSpec == AccessInit /\ [][AccessNext]_accessVars

----------------------------------------------------------------------------
(* Properties.                                                             *)

\* "One implementation, three consumers": what a request is shown is what
\* evaluating the asset by itself would let its caller read, and all of it, but
\* for a caller whose groups carry a rule, who is refused.
VisibleIsReadable ==
  \A action \in {"read", "manage"} :
    /\ Sees(action) => May(action)
    /\ May(action) /\ Renderable(Compile(Grants, action, now)) => Sees(action)

\* "A scope can only remove": whatever a narrowed key may do, its owner may.
ScopesOnlyRemove ==
  \A action \in Action : May(action) => Allowed(Loaded, action, asset, now)

\* "Under intersection, granting somebody an extra role would reduce their
\* access, which no administrator expects": a role more, or the flag, never
\* turns an allowed action into a refused one, the gates of a copy included.
MoreRolesSeeMore ==
  [][/\ roles \subseteq roles' /\ (admin => admin') /\ <<roles, admin>>' # <<roles, admin>>
      /\ UNCHANGED <<member, scopes, asset, now>>
     => \A action \in Action : May(action) => May(action)']_accessVars
=============================================================================
