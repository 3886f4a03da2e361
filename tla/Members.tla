------------------------------- MODULE Members -------------------------------
(***************************************************************************)
(* Who may act in which tenant: members added, given roles and removed by   *)
(* hand (dam-db/src/members.rs), provisioned and let go by a directory over *)
(* SCIM (dam-db/src/scim.rs), and given keys by an operator (damctl).  A    *)
(* person is one identity across all tenants; membership, administration,   *)
(* keys and the directory's claim on them are each tenant's own.            *)
(*                                                                          *)
(* A request is one transaction, READ COMMITTED: what it read may be gone   *)
(* when it commits.  Changes that can take an administrator away hold the   *)
(* tenant's advisory lock from before their first read to the commit.       *)
(***************************************************************************)
CONSTANTS
  Person, Tenant,
  Actor,       \* requests that can be under way together
  Directory,   \* the tenants whose identity provider is connected
  Operated     \* whether an operator issues keys with damctl meanwhile

VARIABLES
  members, admins, managed,  \* of each tenant: tenant_members and two of its columns
  keys,        \* those with a key of the tenant that is not revoked
  disabled,    \* identities.status is not active, for every tenant
  lock,        \* of each tenant: the requests that hold lock_memberships, one at most
  tx,          \* each request
  byOperator   \* tenants an operator has changed the administrators of (history)

memberRows == <<members, admins, managed, keys, disabled>>
memberVars == <<memberRows, lock, tx, byOperator>>

Idle == [op |-> "none"]

Requests ==
  [op : {"set_roles", "remove", "set_active", "deprovision", "issue_key"},
   at : {"lock", "judge", "commit"}, tenant : Tenant, person : Person,
   flag : BOOLEAN,     \* is_tenant_admin, or active
   last : BOOLEAN,     \* remove: no other tenant has them
   spared : BOOLEAN]   \* remove: a key was issued after it revoked them

At(a, op, step) == tx[a] # Idle /\ tx[a].op = op /\ tx[a].at = step

Goto(a, step) == tx' = [tx EXCEPT ![a].at = step]

\* A request ends, and its transaction with it.
Done(a) == tx' = [tx EXCEPT ![a] = Idle]
Unlock(a) == lock' = [t \in Tenant |-> lock[t] \ {a}]

Without(of, t, p) == [of EXCEPT ![t] = @ \ {p}]
With(of, t, p)    == [of EXCEPT ![t] = @ \cup {p}]
WithIf(of, t, p, yes) == IF yes THEN With(of, t, p) ELSE Without(of, t, p)

\* The first administrators were an operator's doing.
MemberInit ==
  /\ members \in [Tenant -> SUBSET Person]
  /\ admins \in [Tenant -> (SUBSET Person) \ {{}}]
  /\ \A t \in Tenant : admins[t] \subseteq members[t]
  /\ managed = [t \in Tenant |-> {}]
  /\ keys = members /\ disabled = {}
  /\ lock = [t \in Tenant |-> {}]
  /\ tx = [a \in Actor |-> Idle]
  /\ byOperator = {}

----------------------------------------------------------------------------
(* Arrivals: attach finds or creates the identity, and makes it active; the *)
(* unique key refuses a second membership.  None of them takes the lock.    *)

Attach(t, p) ==
  /\ p \notin members[t]
  /\ members' = With(members, t, p)

\* add: by hand, with a key.
Add(t, p, admin) ==
  /\ Attach(t, p)
  /\ admins' = WithIf(admins, t, p, admin)
  /\ keys' = With(keys, t, p)
  /\ disabled' = disabled \ {p}
  /\ UNCHANGED <<managed, lock, tx, byOperator>>

\* provision: by the directory, without a key and never as an administrator;
\* perhaps at once disabled.
Provision(t, p, active) ==
  /\ t \in Directory /\ p \notin members[t]
  /\ members' = With(members, t, p)
  /\ managed' = With(managed, t, p)
  /\ disabled' = IF active THEN disabled \ {p} ELSE disabled \cup {p}
  /\ keys' = WithIf(keys, t, p, active /\ p \in keys[t])
  /\ UNCHANGED <<admins, lock, tx, byOperator>>

----------------------------------------------------------------------------
(* Changes under the lock.                                                 *)

Begin(a, op, t, p, flag, step) ==
  /\ tx[a] = Idle
  /\ tx' = [tx EXCEPT ![a] =
       [op |-> op, at |-> step, tenant |-> t, person |-> p, flag |-> flag,
        last |-> FALSE, spared |-> FALSE]]
  /\ UNCHANGED <<memberRows, lock, byOperator>>

\* An administrator asks for it; somebody else may ask for the same.
BeginByHand(a, t, p) ==
  \/ \E admin \in BOOLEAN : Begin(a, "set_roles", t, p, admin, "lock")
  \/ Begin(a, "remove", t, p, FALSE, "lock")

\* The bug: the row is locked, and others judge the set meanwhile.
LockedAnyway(t) == TRUE

MayLock(t) == lock[t] = {}

LockMemberships(a) ==
  /\ tx[a] # Idle /\ tx[a].at = "lock" /\ MayLock(tx[a].tenant)
  /\ lock' = [lock EXCEPT ![tx[a].tenant] = @ \cup {a}]
  /\ Goto(a, "judge")
  /\ UNCHANGED <<memberRows, byOperator>>

\* admin_count is at most one, and it is theirs.
OnlyAdmin(t, p) == p \in admins[t] /\ admins[t] \subseteq {p}

\* set_roles: the membership is there, not a directory's, and not the only
\* administrator's to give up.
JudgeRoles(a) ==
  LET t == tx[a].tenant  p == tx[a].person IN
  /\ At(a, "set_roles", "judge")
  /\ p \in members[t] /\ p \notin managed[t]
  /\ ~ (~ tx[a].flag /\ OnlyAdmin(t, p))
  /\ Goto(a, "commit")
  /\ UNCHANGED <<memberRows, lock, byOperator>>

SetRoles(a) ==
  LET t == tx[a].tenant  p == tx[a].person IN
  /\ At(a, "set_roles", "commit")
  /\ admins' = WithIf(admins, t, p, tx[a].flag /\ p \in members[t])
  /\ Done(a) /\ Unlock(a)
  /\ UNCHANGED <<members, managed, keys, disabled, byOperator>>

NoneElsewhere(t, p) == \A u \in Tenant \ {t} : p \notin members[u]

\* remove: the same judgement, the keys revoked, the membership deleted, and
\* the read of who else has them.  deprovision goes the same way.
JudgeRemoval(a) ==
  LET t == tx[a].tenant  p == tx[a].person IN
  /\ At(a, "remove", "judge") \/ At(a, "deprovision", "judge")
  /\ p \in members[t] /\ ~ OnlyAdmin(t, p)
  /\ tx' = [tx EXCEPT ![a].at = "commit", ![a].last = NoneElsewhere(t, p)]
  /\ UNCHANGED <<memberRows, lock, byOperator>>

Remove(a) ==
  LET t == tx[a].tenant  p == tx[a].person IN
  /\ At(a, "remove", "commit") \/ At(a, "deprovision", "commit")
  /\ members' = Without(members, t, p)
  /\ admins' = Without(admins, t, p)
  /\ managed' = Without(managed, t, p)
  /\ keys' = IF tx[a].spared THEN keys ELSE Without(keys, t, p)
  /\ disabled' = IF tx[a].last THEN disabled \cup {p} ELSE disabled
  /\ Done(a) /\ Unlock(a)
  /\ UNCHANGED byOperator

----------------------------------------------------------------------------
(* What a directory pushes about somebody it provisioned (`ours`).         *)

BeginBySync(a, t, p) ==
  /\ t \in Directory /\ p \in managed[t]
  /\ \/ \E active \in BOOLEAN : Begin(a, "set_active", t, p, active, "commit")
     \/ Begin(a, "deprovision", t, p, FALSE, "lock")

\* set_active and replace: the identity, for every tenant, and the keys of
\* this one.  A membership gone meanwhile is NoSuchUser, and rolled back.
SetActive(a) ==
  LET t == tx[a].tenant  p == tx[a].person IN
  /\ At(a, "set_active", "commit") /\ p \in members[t]
  /\ IF tx[a].flag
     THEN disabled' = disabled \ {p} /\ keys' = keys
     ELSE /\ disabled' = disabled \cup {p}
          /\ keys' = Without(keys, t, p)
  /\ Done(a)
  /\ UNCHANGED <<members, admins, managed, lock, byOperator>>

----------------------------------------------------------------------------
(* An operator's issue-key: each statement is its own transaction.         *)

IssueMembership(a, t, p, admin) ==
  /\ Operated /\ tx[a] = Idle
  /\ members' = With(members, t, p)
  /\ admins' = WithIf(admins, t, p, admin)
  /\ tx' = [tx EXCEPT ![a] =
       [op |-> "issue_key", at |-> "commit", tenant |-> t, person |-> p, flag |-> admin,
        last |-> FALSE, spared |-> FALSE]]
  /\ byOperator' = byOperator \cup {t}
  /\ UNCHANGED <<managed, keys, disabled, lock>>

Revoking(b, t, p) ==
  (At(b, "remove", "commit") \/ At(b, "deprovision", "commit"))
  /\ tx[b].tenant = t /\ tx[b].person = p

IssueKey(a) ==
  LET t == tx[a].tenant  p == tx[a].person IN
  /\ At(a, "issue_key", "commit")
  /\ keys' = With(keys, t, p)
  /\ tx' = [b \in Actor |->
       IF b = a THEN Idle
       ELSE IF Revoking(b, t, p) THEN [tx[b] EXCEPT !.spared = TRUE] ELSE tx[b]]
  /\ UNCHANGED <<members, admins, managed, disabled, lock, byOperator>>

----------------------------------------------------------------------------
\* A refusal, a failed statement, or the end of the process.
Abort(a) ==
  /\ tx[a] # Idle
  /\ Done(a) /\ Unlock(a)
  /\ UNCHANGED <<memberRows, byOperator>>

MemberNext ==
  \/ \E t \in Tenant, p \in Person, yes \in BOOLEAN : Add(t, p, yes) \/ Provision(t, p, yes)
  \/ \E a \in Actor, t \in Tenant, p \in Person :
       \/ BeginByHand(a, t, p) \/ BeginBySync(a, t, p)
       \/ \E admin \in BOOLEAN : IssueMembership(a, t, p, admin)
  \/ \E a \in Actor :
       \/ LockMemberships(a) \/ JudgeRoles(a) \/ SetRoles(a)
       \/ JudgeRemoval(a) \/ Remove(a) \/ SetActive(a) \/ IssueKey(a) \/ Abort(a)

MemberSpec == MemberInit /\ [][MemberNext]_memberVars

----------------------------------------------------------------------------
(* Properties.                                                             *)

MemberTypeOK ==
  /\ members \in [Tenant -> SUBSET Person] /\ admins \in [Tenant -> SUBSET Person]
  /\ managed \in [Tenant -> SUBSET Person] /\ keys \in [Tenant -> SUBSET Person]
  /\ disabled \subseteq Person
  /\ lock \in [Tenant -> SUBSET Actor]
  /\ tx \in [Actor -> Requests \cup {Idle}]
  /\ byOperator \subseteq Tenant

\* "The last administrator cannot be removed, and cannot demote themselves":
\* however requests overlap, a tenant keeps an administrator, unless an
\* operator, who does not take the lock, took part.
AdminRemains ==
  \A t \in Tenant : admins[t] # {} \/ t \in byOperator

\* "a provider cannot make somebody a tenant administrator": nobody a directory
\* owns is one, unless by an operator's hand.
NoManagedAdmin ==
  \A t \in Tenant : managed[t] \cap admins[t] = {} \/ t \in byOperator

\* authenticate
Authenticates(t, p) == p \in keys[t] /\ p \notin disabled

\* "Somebody who works with two customers of the same deployment must not lose
\* their other account because one of them let them go": a member with a key
\* gets in, but where a directory may disable them.  It is stated for the record
\* and does not hold: a removal in one tenant may overlap an arrival in another.
OthersKeepAccess ==
  \A t \in Tenant \ Directory : \A p \in members[t] \cap keys[t] : Authenticates(t, p)
=============================================================================
