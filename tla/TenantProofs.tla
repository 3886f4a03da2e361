---------------------------- MODULE TenantProofs ----------------------------
(***************************************************************************)
(* What holds of a tenant's people, of what they may see, and of what they  *)
(* decide about its assets: the promises of Members, Access and Metadata,   *)
(* which share nothing, for any people, roles, terms and requests.          *)
(*                                                                          *)
(* Members.  A rule about the set of administrators is judged in one        *)
(* statement and relied on in a later one.  What makes that sound is the    *)
(* advisory lock, and the invariant says how: a request that has judged     *)
(* holds the lock of its tenant (Held), a lock has one holder (OneHolder),  *)
(* and so what it judged is still so when it writes (Judged).  Those who    *)
(* take no lock only add members, which is why administrators and the       *)
(* directory's people have to be known to be members (Inside).              *)
(*                                                                          *)
(* Access.  All of it follows from one lemma: grants that outdo others, one *)
(* by one, allow all that those allow.                                      *)
(*                                                                          *)
(* Metadata.  DecisionStands is inductive once the three tables are         *)
(* functions of the terms: a suggestion is only inserted where no row is,   *)
(* and where one is its state is kept; whoever settles a term writes both   *)
(* sides at once.                                                           *)
(***************************************************************************)
EXTENDS Members, Access, Metadata, TLAPS

----------------------------------------------------------------------------
(* Members.                                                                *)

Locking(a) == tx[a] # Idle /\ tx[a].op \in {"set_roles", "remove", "deprovision"}

Held ==
  \A a \in Actor : Locking(a) /\ tx[a].at # "lock" => a \in lock[tx[a].tenant]

OneHolder == \A t \in Tenant : \A a, b \in lock[t] : a = b

OthersLeft(t, p) == \E q \in admins[t] : q # p

Judged ==
  \A a \in Actor :
    Locking(a) /\ tx[a].at = "commit" /\ tx[a].tenant \notin byOperator =>
      LET t == tx[a].tenant  p == tx[a].person IN
      /\ tx[a].op = "set_roles" => p \in members[t] /\ p \notin managed[t]
      /\ tx[a].op # "set_roles" \/ ~ tx[a].flag => OthersLeft(t, p)

Inside == \A t \in Tenant : admins[t] \subseteq members[t] /\ managed[t] \subseteq members[t]

MemberInv == MemberTypeOK /\ Held /\ OneHolder /\ Judged /\ Inside /\ AdminRemains /\ NoManagedAdmin

\* The tenant memberRows a step may write, each an update of one person in one tenant.
LEMMA Updates ==
  ASSUME NEW of \in [Tenant -> SUBSET Person], NEW t \in Tenant, NEW p \in Person
  PROVE  /\ With(of, t, p) \in [Tenant -> SUBSET Person]
         /\ Without(of, t, p) \in [Tenant -> SUBSET Person]
         /\ With(of, t, p)[t] = of[t] \cup {p}
         /\ Without(of, t, p)[t] = of[t] \ {p}
         /\ \A u \in Tenant \ {t} : With(of, t, p)[u] = of[u] /\ Without(of, t, p)[u] = of[u]
BY DEF With, Without

LEMMA Initially == MemberInit => MemberInv
<1> SUFFICES ASSUME MemberInit PROVE MemberInv
  OBVIOUS
<1>1. MemberTypeOK
  BY DEF MemberInit, MemberTypeOK
<1>2. Held /\ Judged
  BY DEF MemberInit, Held, Judged, Locking
<1>3. OneHolder /\ Inside /\ AdminRemains /\ NoManagedAdmin
  BY DEF MemberInit, OneHolder, Inside, AdminRemains, NoManagedAdmin
<1> QED
  BY <1>1, <1>2, <1>3 DEF MemberInv

LEMMA TypeStep == MemberInv /\ [MemberNext]_memberVars => MemberTypeOK'
<1> SUFFICES ASSUME MemberInv, [MemberNext]_memberVars PROVE MemberTypeOK'
  OBVIOUS
<1> USE DEF MemberInv, MemberTypeOK, memberRows
<1>1. ASSUME NEW t \in Tenant, NEW p \in Person, NEW yes \in BOOLEAN,
             Add(t, p, yes) \/ Provision(t, p, yes)
      PROVE  MemberTypeOK'
  <2>1. CASE Add(t, p, yes)
    BY <2>1 DEF Add, Attach, WithIf, With, Without
  <2>2. CASE Provision(t, p, yes)
    BY <2>2 DEF Provision, WithIf, With, Without
  <2> QED
    BY <1>1, <2>1, <2>2
<1>2. ASSUME NEW a \in Actor, NEW t \in Tenant, NEW p \in Person,
             BeginByHand(a, t, p) \/ BeginBySync(a, t, p)
      PROVE  MemberTypeOK'
  <2>1. ASSUME NEW op \in {"set_roles", "remove", "set_active", "deprovision"},
               NEW flag \in BOOLEAN, NEW step \in {"lock", "commit"},
               Begin(a, op, t, p, flag, step)
        PROVE  MemberTypeOK'
    BY <2>1 DEF Begin, Requests
  <2> QED
    BY <1>2, <2>1 DEF BeginByHand, BeginBySync
<1>3. ASSUME NEW a \in Actor, NEW t \in Tenant, NEW p \in Person, NEW flag \in BOOLEAN,
             IssueMembership(a, t, p, flag)
      PROVE  MemberTypeOK'
  <2>1. members' \in [Tenant -> SUBSET Person] /\ admins' \in [Tenant -> SUBSET Person]
    BY <1>3, Updates DEF IssueMembership, WithIf
  <2>2. tx' \in [Actor -> Requests \cup {Idle}]
    BY <1>3 DEF IssueMembership, Requests
  <2> QED BY <1>3, <2>1, <2>2 DEF IssueMembership
<1>4. ASSUME NEW a \in Actor, LockMemberships(a) \/ JudgeRoles(a) \/ JudgeRemoval(a)
      PROVE  MemberTypeOK'
  <2>1. tx[a] \in Requests
    BY <1>4 DEF LockMemberships, JudgeRoles, JudgeRemoval, At
  <2> QED
    BY <1>4, <2>1 DEF LockMemberships, JudgeRoles, JudgeRemoval, Goto, NoneElsewhere, Requests
<1>5. ASSUME NEW a \in Actor, SetRoles(a) \/ Remove(a) \/ SetActive(a)
      PROVE  MemberTypeOK'
  <2>1. tx[a] \in Requests
    BY <1>5 DEF SetRoles, Remove, SetActive, At
  <2>2. tx[a].tenant \in Tenant /\ tx[a].person \in Person
    BY <2>1 DEF Requests
  <2>3. tx' \in [Actor -> Requests \cup {Idle}] /\ lock' \in [Tenant -> SUBSET Actor]
    BY <1>5 DEF SetRoles, Remove, SetActive, Done, Unlock
  <2>4. /\ members' \in [Tenant -> SUBSET Person] /\ admins' \in [Tenant -> SUBSET Person]
        /\ managed' \in [Tenant -> SUBSET Person] /\ keys' \in [Tenant -> SUBSET Person]
        /\ disabled' \subseteq Person /\ byOperator' \subseteq Tenant
    <3>1. CASE SetRoles(a)
      BY <3>1, <2>2 DEF SetRoles, WithIf, With, Without
    <3>2. CASE Remove(a)
      BY <3>2, <2>2 DEF Remove, Without
    <3>3. CASE SetActive(a)
      BY <3>3, <2>2 DEF SetActive, Without
    <3> QED
      BY <1>5, <3>1, <3>2, <3>3
  <2> QED
    BY <2>3, <2>4
<1>6. ASSUME NEW a \in Actor, IssueKey(a)
      PROVE  MemberTypeOK'
  <2>1. tx[a] \in Requests
    BY <1>6 DEF IssueKey, At
  <2>2. tx[a].tenant \in Tenant /\ tx[a].person \in Person
    BY <2>1 DEF Requests
  <2>3. ASSUME NEW b \in Actor, Revoking(b, tx[a].tenant, tx[a].person)
        PROVE  [tx[b] EXCEPT !.spared = TRUE] \in Requests
    <3>1. tx[b] \in Requests
      BY <2>3 DEF Revoking, At
    <3> QED
      BY <3>1 DEF Requests
  <2>4. tx' \in [Actor -> Requests \cup {Idle}]
    BY <1>6, <2>3 DEF IssueKey
  <2> QED
    BY <1>6, <2>2, <2>4, Updates DEF IssueKey
<1>7. ASSUME NEW a \in Actor, Abort(a) PROVE MemberTypeOK'
  BY <1>7 DEF Abort, Done, Unlock
<1>8. CASE UNCHANGED memberVars
  BY <1>8 DEF memberVars
<1> QED
  BY <1>1, <1>2, <1>3, <1>4, <1>5, <1>6, <1>7, <1>8 DEF MemberNext

----------------------------------------------------------------------------
(* The lock: who has judged holds it, and alone.                           *)

LEMMA LockStep == MemberInv /\ [MemberNext]_memberVars => Held' /\ OneHolder'
<1> SUFFICES ASSUME MemberInv, [MemberNext]_memberVars PROVE Held' /\ OneHolder'
  OBVIOUS
<1> USE DEF MemberInv, MemberTypeOK
<1>1. ASSUME NEW t \in Tenant, NEW p \in Person, NEW yes \in BOOLEAN,
             Add(t, p, yes) \/ Provision(t, p, yes)
      PROVE  Held' /\ OneHolder'
  BY <1>1 DEF Add, Provision, Held, OneHolder, Locking
<1>2. ASSUME NEW a \in Actor, NEW t \in Tenant, NEW p \in Person,
             BeginByHand(a, t, p) \/ BeginBySync(a, t, p)
      PROVE  Held' /\ OneHolder'
  <2>1. ASSUME NEW op, NEW flag, NEW step, Begin(a, op, t, p, flag, step),
               step = "lock" \/ op = "set_active"
        PROVE  Held' /\ OneHolder'
    <3>1. OneHolder'
      BY <2>1 DEF Begin, OneHolder
    <3>2. Held'
      BY <2>1 DEF Begin, Held, Locking
    <3> QED
      BY <3>1, <3>2
  <2> QED
    BY <1>2, <2>1 DEF BeginByHand, BeginBySync
<1>3. ASSUME NEW a \in Actor, NEW t \in Tenant, NEW p \in Person, NEW flag \in BOOLEAN,
             IssueMembership(a, t, p, flag)
      PROVE  Held' /\ OneHolder'
  BY <1>3 DEF IssueMembership, Held, OneHolder, Locking
<1>4. ASSUME NEW a \in Actor, LockMemberships(a)
      PROVE  Held' /\ OneHolder'
  <2>1. tx[a] \in Requests
    BY <1>4 DEF LockMemberships
  <2>2. tx[a].tenant \in Tenant
    BY <2>1 DEF Requests
  <2>3. OneHolder'
    BY <1>4, <2>2 DEF LockMemberships, MayLock, OneHolder
  <2>4. Held'
    BY <1>4, <2>1, <2>2 DEF LockMemberships, Goto, Held, Locking, Requests
  <2> QED
    BY <2>3, <2>4
<1>5. ASSUME NEW a \in Actor, JudgeRoles(a) \/ JudgeRemoval(a)
      PROVE  Held' /\ OneHolder'
  <2>1. tx[a] \in Requests
    BY <1>5 DEF JudgeRoles, JudgeRemoval, At
  <2>2. OneHolder'
    BY <1>5 DEF JudgeRoles, JudgeRemoval, OneHolder
  <2>3. Held'
    BY <1>5, <2>1 DEF JudgeRoles, JudgeRemoval, At, Goto, Held, Locking, Requests
  <2> QED
    BY <2>2, <2>3
<1>6. ASSUME NEW a \in Actor, SetRoles(a) \/ Remove(a) \/ Abort(a)
      PROVE  Held' /\ OneHolder'
  <2>1. \A t \in Tenant : lock'[t] = lock[t] \ {a}
    BY <1>6 DEF SetRoles, Remove, Abort, Unlock
  <2>2. tx'[a] = Idle /\ \A b \in Actor \ {a} : tx'[b] = tx[b]
    BY <1>6 DEF SetRoles, Remove, Abort, Done
  <2>3. \A b \in Actor : Locking(b) => tx[b].tenant \in Tenant
    BY DEF Locking, Requests
  <2>4. OneHolder'
    BY <2>1 DEF OneHolder
  <2>5. Held'
    BY <2>1, <2>2, <2>3 DEF Held, Locking
  <2> QED
    BY <2>4, <2>5
<1>7. ASSUME NEW a \in Actor, SetActive(a)
      PROVE  Held' /\ OneHolder'
  BY <1>7 DEF SetActive, Done, Held, OneHolder, Locking
<1>8. ASSUME NEW a \in Actor, IssueKey(a)
      PROVE  Held' /\ OneHolder'
  <2>1. \A b \in Actor : Locking(b)' => /\ Locking(b) /\ tx'[b].at = tx[b].at
                                         /\ tx'[b].tenant = tx[b].tenant
    BY <1>8 DEF IssueKey, Locking, Revoking, At, Requests
  <2> QED
    BY <1>8, <2>1 DEF IssueKey, Held, OneHolder
<1>9. CASE UNCHANGED memberVars
  BY <1>9 DEF memberVars, Held, OneHolder, Locking
<1> QED
  BY <1>1, <1>2, <1>3, <1>4, <1>5, <1>6, <1>7, <1>8, <1>9 DEF MemberNext

----------------------------------------------------------------------------
(* What a step may do to the memberRows of one tenant.                           *)

Kept(t) ==
  members'[t] = members[t] /\ admins'[t] = admins[t] /\ managed'[t] = managed[t]

Joined(t, p) ==
  /\ p \notin members[t] /\ members'[t] = members[t] \cup {p}
  /\ \/ admins'[t] \in {admins[t], admins[t] \cup {p}} /\ managed'[t] = managed[t]
     \/ admins'[t] = admins[t] /\ managed'[t] = managed[t] \cup {p}

Issued(t, p) ==
  /\ t \in byOperator' /\ members'[t] = members[t] \cup {p}
  /\ admins'[t] \in {admins[t] \cup {p}, admins[t] \ {p}} /\ managed'[t] = managed[t]

Given(t, p, flag) ==
  /\ members'[t] = members[t] /\ managed'[t] = managed[t]
  /\ admins'[t] = IF flag /\ p \in members[t] THEN admins[t] \cup {p} ELSE admins[t] \ {p}

Gone(t, p) ==
  /\ members'[t] = members[t] \ {p} /\ admins'[t] = admins[t] \ {p}
  /\ managed'[t] = managed[t] \ {p}

Effect(t) ==
  \/ Kept(t)
  \/ \E p \in Person : Joined(t, p) \/ Issued(t, p)
  \/ \E a \in Actor : SetRoles(a) /\ tx[a].tenant = t /\ Given(t, tx[a].person, tx[a].flag)
  \/ \E a \in Actor : Remove(a) /\ tx[a].tenant = t /\ Gone(t, tx[a].person)

LEMMA Effects == MemberInv /\ [MemberNext]_memberVars => \A t \in Tenant : Effect(t)
<1> SUFFICES ASSUME MemberInv, [MemberNext]_memberVars, NEW u \in Tenant PROVE Effect(u)
  OBVIOUS
<1> USE DEF MemberInv, MemberTypeOK, memberRows
<1>1. ASSUME NEW t \in Tenant, NEW p \in Person, NEW yes \in BOOLEAN,
             Add(t, p, yes) \/ Provision(t, p, yes)
      PROVE  Effect(u)
  <2>1. p \notin members[t] /\ p \notin admins[t]
    BY <1>1 DEF Add, Attach, Provision, Inside
  <2>2. CASE u = t
    <3>1. CASE Add(t, p, yes)
      <4>1. /\ members'[t] = members[t] \cup {p} /\ managed'[t] = managed[t]
            /\ admins'[t] = IF yes THEN admins[t] \cup {p} ELSE admins[t] \ {p}
        BY <3>1 DEF Add, Attach, WithIf, With, Without
      <4> QED
        BY <2>1, <2>2, <4>1 DEF Effect, Joined
    <3>2. CASE Provision(t, p, yes)
      <4>1. /\ members'[t] = members[t] \cup {p} /\ admins'[t] = admins[t]
            /\ managed'[t] = managed[t] \cup {p}
        BY <3>2 DEF Provision, With
      <4> QED
        BY <2>1, <2>2, <4>1 DEF Effect, Joined
    <3> QED
      BY <1>1, <3>1, <3>2
  <2>3. CASE u # t
    <3>1. Kept(u)
      BY <1>1, <2>3 DEF Add, Attach, Provision, WithIf, With, Without, Kept
    <3> QED
      BY <3>1 DEF Effect
  <2> QED
    BY <2>2, <2>3
<1>2. ASSUME NEW a \in Actor, NEW t \in Tenant, NEW p \in Person,
             BeginByHand(a, t, p) \/ BeginBySync(a, t, p)
      PROVE  Effect(u)
  BY <1>2 DEF BeginByHand, BeginBySync, Begin, Effect, Kept
<1>3. ASSUME NEW a \in Actor, NEW t \in Tenant, NEW p \in Person, NEW flag \in BOOLEAN,
             IssueMembership(a, t, p, flag)
      PROVE  Effect(u)
  <2>1. CASE u = t
    <3>1. Issued(u, p)
      BY <1>3, <2>1 DEF IssueMembership, WithIf, With, Without, Issued
    <3> QED
      BY <3>1 DEF Effect
  <2>2. CASE u # t
    <3>1. Kept(u)
      BY <1>3, <2>2 DEF IssueMembership, WithIf, With, Without, Kept
    <3> QED
      BY <3>1 DEF Effect
  <2> QED
    BY <2>1, <2>2
<1>4. ASSUME NEW a \in Actor,
             \/ LockMemberships(a) \/ JudgeRoles(a) \/ JudgeRemoval(a)
             \/ SetActive(a) \/ IssueKey(a) \/ Abort(a)
      PROVE  Effect(u)
  BY <1>4 DEF LockMemberships, JudgeRoles, JudgeRemoval, SetActive, IssueKey, Abort, Effect, Kept
<1>5. ASSUME NEW a \in Actor, SetRoles(a) \/ Remove(a)
      PROVE  Effect(u)
  <2>1. tx[a] \in Requests
    BY <1>5 DEF SetRoles, Remove, At
  <2>2. tx[a].tenant \in Tenant /\ tx[a].person \in Person
    BY <2>1 DEF Requests
  <2>3. CASE u # tx[a].tenant
    <3>1. Kept(u)
      BY <1>5, <2>2, <2>3 DEF SetRoles, Remove, WithIf, With, Without, Kept
    <3> QED
      BY <3>1 DEF Effect
  <2>4. CASE u = tx[a].tenant /\ SetRoles(a)
    <3>1. Given(u, tx[a].person, tx[a].flag)
      BY <2>2, <2>4 DEF SetRoles, WithIf, With, Without, Given
    <3> QED
      BY <2>4, <3>1 DEF Effect
  <2>5. CASE u = tx[a].tenant /\ Remove(a)
    <3>1. Gone(u, tx[a].person)
      BY <2>2, <2>5 DEF Remove, Without, Gone
    <3> QED
      BY <2>5, <3>1 DEF Effect
  <2> QED
    BY <1>5, <2>3, <2>4, <2>5
<1>6. CASE UNCHANGED memberVars
  BY <1>6 DEF memberVars, Effect, Kept
<1> QED
  BY <1>1, <1>2, <1>3, <1>4, <1>5, <1>6 DEF MemberNext

----------------------------------------------------------------------------
(* What was judged is still so.                                            *)

\* A request about to commit has just judged, or was about to before.
LEMMA CommitStep ==
  ASSUME MemberInv, [MemberNext]_memberVars, NEW b \in Actor, Locking(b)', tx'[b].at = "commit",
         ~ JudgeRoles(b), ~ JudgeRemoval(b)
  PROVE  /\ Locking(b) /\ tx[b].at = "commit" /\ tx'[b].op = tx[b].op
         /\ tx'[b].flag = tx[b].flag /\ tx'[b].tenant = tx[b].tenant
         /\ tx'[b].person = tx[b].person /\ byOperator \subseteq byOperator'
<1> USE DEF MemberInv, MemberTypeOK, Locking
<1>1. CASE \E t \in Tenant, p \in Person, yes \in BOOLEAN : Add(t, p, yes) \/ Provision(t, p, yes)
  BY <1>1 DEF Add, Provision
<1>2. ASSUME NEW a \in Actor, NEW t \in Tenant, NEW p \in Person,
             BeginByHand(a, t, p) \/ BeginBySync(a, t, p)
      PROVE  tx'[b] = tx[b] /\ byOperator' = byOperator
  <2>1. ASSUME NEW op, NEW flag, NEW step, Begin(a, op, t, p, flag, step),
               step = "lock" \/ op = "set_active"
        PROVE  tx'[b] = tx[b] /\ byOperator' = byOperator
    BY <2>1 DEF Begin
  <2> QED
    BY <1>2, <2>1 DEF BeginByHand, BeginBySync
<1>3. ASSUME NEW a \in Actor, NEW t \in Tenant, NEW p \in Person, NEW flag \in BOOLEAN,
             IssueMembership(a, t, p, flag)
      PROVE  tx'[b] = tx[b] /\ byOperator \subseteq byOperator'
  BY <1>3 DEF IssueMembership
<1>4. ASSUME NEW a \in Actor, LockMemberships(a)
      PROVE  tx'[b] = tx[b] /\ byOperator' = byOperator
  <2>1. tx[a] \in Requests
    BY <1>4 DEF LockMemberships
  <2> QED
    BY <1>4, <2>1 DEF LockMemberships, Goto, Requests
<1>5. ASSUME NEW a \in Actor, JudgeRoles(a) \/ JudgeRemoval(a)
      PROVE  tx'[b] = tx[b] /\ byOperator' = byOperator
  BY <1>5 DEF JudgeRoles, JudgeRemoval, Goto
<1>6. ASSUME NEW a \in Actor, SetRoles(a) \/ Remove(a) \/ SetActive(a) \/ Abort(a)
      PROVE  tx'[b] = tx[b] /\ byOperator' = byOperator
  BY <1>6 DEF SetRoles, Remove, SetActive, Abort, Done
<1>7. ASSUME NEW a \in Actor, IssueKey(a)
      PROVE  /\ Locking(b) /\ tx[b].at = "commit" /\ tx'[b].op = tx[b].op
             /\ tx'[b].flag = tx[b].flag /\ tx'[b].tenant = tx[b].tenant
             /\ tx'[b].person = tx[b].person /\ byOperator' = byOperator
  <2>1. b # a /\ byOperator' = byOperator
    BY <1>7 DEF IssueKey
  <2>2. CASE Revoking(b, tx[a].tenant, tx[a].person)
    <3>1. tx[b] \in Requests /\ tx[b] # Idle
      BY <2>2 DEF Revoking, At
    <3>2. tx'[b] = [tx[b] EXCEPT !.spared = TRUE]
      BY <1>7, <2>1, <2>2 DEF IssueKey
    <3> QED
      BY <2>1, <3>1, <3>2 DEF Requests
  <2>3. CASE ~ Revoking(b, tx[a].tenant, tx[a].person)
    BY <1>7, <2>1, <2>3 DEF IssueKey
  <2> QED
    BY <2>2, <2>3
<1>8. CASE UNCHANGED memberVars
  BY <1>8 DEF memberVars
<1> QED
  BY <1>1, <1>2, <1>3, <1>4, <1>5, <1>6, <1>7, <1>8 DEF MemberNext

LEMMA JudgedStep == MemberInv /\ [MemberNext]_memberVars => Judged'
<1> SUFFICES ASSUME MemberInv, [MemberNext]_memberVars, NEW b \in Actor, Locking(b)',
                    tx'[b].at = "commit", tx'[b].tenant \notin byOperator'
             PROVE  LET t == tx'[b].tenant  p == tx'[b].person IN
                    /\ tx'[b].op = "set_roles" => p \in members'[t] /\ p \notin managed'[t]
                    /\ tx'[b].op # "set_roles" \/ ~ tx'[b].flag => \E q \in admins'[t] : q # p
  BY DEF Judged, OthersLeft
<1> DEFINE t == tx'[b].tenant
           p == tx'[b].person
<1> USE DEF MemberInv, MemberTypeOK
<1>1. MemberTypeOK'
  BY TypeStep
<1>2. t \in Tenant /\ p \in Person
  BY <1>1 DEF Locking, Requests
<1>3. ASSUME NEW a \in Actor, JudgeRoles(a) \/ JudgeRemoval(a), a = b
      PROVE  /\ tx'[b].op = "set_roles" => p \in members'[t] /\ p \notin managed'[t]
             /\ tx'[b].op # "set_roles" \/ ~ tx'[b].flag => \E q \in admins'[t] : q # p
  <2>1. tx[b] \in Requests /\ tx[b] # Idle
    BY <1>3 DEF JudgeRoles, JudgeRemoval, At
  <2>2. /\ tx'[b].op = tx[b].op /\ tx'[b].flag = tx[b].flag
        /\ t = tx[b].tenant /\ p = tx[b].person
    BY <1>3, <2>1 DEF JudgeRoles, JudgeRemoval, Goto, Requests
  <2>3. members' = members /\ admins' = admins /\ managed' = managed /\ byOperator' = byOperator
    BY <1>3 DEF JudgeRoles, JudgeRemoval, memberRows
  <2>4. admins[t] # {}
    BY <1>2, <2>3 DEF AdminRemains
  <2>5. CASE JudgeRoles(a)
    BY <1>3, <2>2, <2>3, <2>4, <2>5 DEF JudgeRoles, At, OnlyAdmin
  <2>6. CASE JudgeRemoval(a)
    BY <1>3, <2>2, <2>3, <2>4, <2>6 DEF JudgeRemoval, At, OnlyAdmin
  <2> QED
    BY <1>3, <2>5, <2>6
<1>4. CASE \E a \in Actor : (JudgeRoles(a) \/ JudgeRemoval(a)) /\ a = b
  BY <1>3, <1>4
<1>5. CASE ~ \E a \in Actor : (JudgeRoles(a) \/ JudgeRemoval(a)) /\ a = b
  <2>1. /\ Locking(b) /\ tx[b].at = "commit" /\ tx'[b].op = tx[b].op
        /\ tx'[b].flag = tx[b].flag /\ t = tx[b].tenant /\ p = tx[b].person
        /\ t \notin byOperator
    BY <1>5, CommitStep
  <2>2. /\ tx[b].op = "set_roles" => p \in members[t] /\ p \notin managed[t]
        /\ tx[b].op # "set_roles" \/ ~ tx[b].flag => \E q \in admins[t] : q # p
    BY <2>1 DEF Judged, OthersLeft
  <2>3. \A a \in Actor : Locking(a) /\ tx[a].at = "commit" /\ tx[a].tenant = t => a = b
    BY <1>2, <2>1 DEF Held, OneHolder
  <2>4. tx'[b] # Idle
    BY DEF Locking
  <2>5. CASE \E a \in Actor : SetRoles(a) \/ Remove(a)
    <3>1. PICK a \in Actor : SetRoles(a) \/ Remove(a)
      BY <2>5
    <3>2. a # b
      BY <2>4, <3>1 DEF SetRoles, Remove, Done
    <3>3. tx[a] \in Requests /\ tx[a] # Idle
      BY <3>1 DEF SetRoles, Remove, At
    <3>4. tx[a].tenant \in Tenant /\ tx[a].tenant # t
      BY <2>3, <3>1, <3>2, <3>3 DEF SetRoles, Remove, At, Locking, Requests
    <3>5. Kept(t)
      BY <1>2, <3>1, <3>4 DEF SetRoles, Remove, WithIf, With, Without, Kept
    <3> QED
      BY <2>1, <2>2, <3>5 DEF Kept
  <2>6. CASE ~ \E a \in Actor : SetRoles(a) \/ Remove(a)
    <3>1. Kept(t) \/ \E q \in Person : Joined(t, q)
      BY <1>2, <2>6, Effects DEF Effect, Issued
    <3> QED
      BY <2>1, <2>2, <3>1 DEF Kept, Joined, Inside
  <2> QED
    BY <2>5, <2>6
<1> QED
  BY <1>4, <1>5

----------------------------------------------------------------------------
(* The memberRows.                                                               *)

LEMMA RowStep ==
  ASSUME MemberInv, [MemberNext]_memberVars, NEW t \in Tenant
  PROVE  /\ admins'[t] \subseteq members'[t] /\ managed'[t] \subseteq members'[t]
         /\ t \notin byOperator' => admins'[t] # {} /\ managed'[t] \cap admins'[t] = {}
<1> USE DEF MemberInv, MemberTypeOK, Inside, AdminRemains, NoManagedAdmin
<1>1. t \notin byOperator' => t \notin byOperator
  BY ZenonT(60) DEF MemberNext, Add, Provision, BeginByHand, BeginBySync, Begin, IssueMembership, LockMemberships,
         JudgeRoles, SetRoles, JudgeRemoval, Remove, SetActive, IssueKey, Abort, memberVars
<1>2. Effect(t)
  BY Effects
<1>3. CASE Kept(t)
  BY <1>1, <1>3 DEF Kept
<1>4. CASE \E p \in Person : Joined(t, p)
  BY <1>1, <1>4 DEF Joined
<1>5. CASE \E p \in Person : Issued(t, p)
  BY <1>5 DEF Issued
<1>6. ASSUME NEW a \in Actor, SetRoles(a), tx[a].tenant = t, Given(t, tx[a].person, tx[a].flag)
      PROVE  /\ admins'[t] \subseteq members'[t] /\ managed'[t] \subseteq members'[t]
             /\ t \notin byOperator' => admins'[t] # {} /\ managed'[t] \cap admins'[t] = {}
  <2> DEFINE p == tx[a].person
  <2>1. tx[a] # Idle /\ tx[a].op = "set_roles" /\ tx[a].at = "commit"
    BY <1>6 DEF SetRoles, At
  <2>2. t \notin byOperator => p \in members[t] /\ p \notin managed[t]
    BY <1>6, <2>1 DEF Judged, Locking
  <2>3. t \notin byOperator => (~ tx[a].flag => \E q \in admins[t] : q # p)
    BY <1>6, <2>1 DEF Judged, Locking, OthersLeft
  <2>4. CASE tx[a].flag /\ p \in members[t]
    <3>1. admins'[t] = admins[t] \cup {p} /\ members'[t] = members[t] /\ managed'[t] = managed[t]
      BY <1>6, <2>4 DEF Given
    <3>2. t \notin byOperator => p \notin managed[t]
      BY <2>2
    <3>3. p \in members[t]
      BY <2>4
    <3>4. t \notin byOperator => managed[t] \cap admins[t] = {}
      OBVIOUS
    <3>5. admins'[t] \subseteq members'[t] /\ managed'[t] \subseteq members'[t]
      BY <3>1, <3>3
    <3> QED
      BY <1>1, <3>1, <3>2, <3>4, <3>5
  <2>5. CASE ~ (tx[a].flag /\ p \in members[t])
    <3>1. admins'[t] = admins[t] \ {p} /\ members'[t] = members[t] /\ managed'[t] = managed[t]
      BY <1>6, <2>5 DEF Given
    <3>2. t \notin byOperator => \E q \in admins[t] : q # p
      BY <2>2, <2>5, <2>3
    <3> QED
      BY <1>1, <3>1, <3>2
  <2> QED
    BY <2>4, <2>5
<1>7. ASSUME NEW a \in Actor, Remove(a), tx[a].tenant = t, Gone(t, tx[a].person)
      PROVE  /\ admins'[t] \subseteq members'[t] /\ managed'[t] \subseteq members'[t]
             /\ t \notin byOperator' => admins'[t] # {} /\ managed'[t] \cap admins'[t] = {}
  <2>1. tx[a] # Idle /\ tx[a].op \in {"remove", "deprovision"} /\ tx[a].at = "commit"
    BY <1>7 DEF Remove, At
  <2>2. t \notin byOperator => \E q \in admins[t] : q # tx[a].person
    BY <1>7, <2>1 DEF Judged, Locking, OthersLeft
  <2> QED
    BY <1>1, <1>7, <2>2 DEF Gone
<1> QED
  BY <1>2, <1>3, <1>4, <1>5, <1>6, <1>7 DEF Effect

----------------------------------------------------------------------------
(* The theorems.                                                           *)

\* The invariant: locks have one holder, what was judged stays so until it is
\* written, and administrators and the directory's people are members.
THEOREM MembersInvariance == MemberSpec => []MemberInv
<1>1. ASSUME MemberInv, [MemberNext]_memberVars PROVE MemberInv'
  <2>1. Inside' /\ AdminRemains' /\ NoManagedAdmin'
    BY <1>1, RowStep DEF Inside, AdminRemains, NoManagedAdmin
  <2> QED
    BY <1>1, <2>1, TypeStep, LockStep, JudgedStep DEF MemberInv
<1> QED
  BY <1>1, Initially, PTL DEF MemberSpec

\* AdminRemains: a tenant keeps an administrator, however removals and
\* demotions overlap, unless an operator took part.
THEOREM AdminRemainsAlways == MemberSpec => []AdminRemains
<1>1. MemberInv => AdminRemains
  BY DEF MemberInv
<1> QED
  BY <1>1, MembersInvariance, PTL

\* NoManagedAdmin: nobody a directory owns becomes an administrator, though
\* they may be removed and provisioned again while a request is under way.
THEOREM NoManagedAdminAlways == MemberSpec => []NoManagedAdmin
<1>1. MemberInv => NoManagedAdmin
  BY DEF MemberInv
<1> QED
  BY <1>1, MembersInvariance, PTL

----------------------------------------------------------------------------
(* Access.                                                                 *)

\* h may do what g may, wherever and whenever g may.
Outdoes(h, g) ==
  /\ g.permissions \subseteq h.permissions
  /\ g.groups \subseteq h.groups
  /\ g.all => h.all
  /\ h.from = g.from /\ h.until = g.until
  /\ h.eula /\ ~ h.accepted => g.eula /\ ~ g.accepted

OutdoAll(H, G) == \A g \in G : \E h \in H : Outdoes(h, g)

\* A grant that is in force and has the verb is outdone by one that is and has.
LEMMA RelevantOutdone ==
  ASSUME NEW G, NEW H, OutdoAll(H, G), NEW action, NEW t,
         NEW g \in Relevant(G, action, t)
  PROVE  \E h \in Relevant(H, action, t) : Outdoes(h, g)
<1>1. g \in G /\ IsActiveAt(g, t) /\ Permits(g, action)
  BY DEF Relevant
<1>2. PICK h \in H : Outdoes(h, g)
  BY <1>1 DEF OutdoAll
<1>3. IsActiveAt(h, t)
  BY <1>1, <1>2 DEF IsActiveAt, Outdoes
<1>4. Permits(h, action)
  BY <1>1, <1>2 DEF Permits, Outdoes
<1> QED
  BY <1>2, <1>3, <1>4 DEF Relevant

\* What grants allow, grants that outdo them allow.
LEMMA MoreAllowsMore ==
  ASSUME NEW G, NEW H, OutdoAll(H, G), NEW action, NEW a, NEW t, Allowed(G, action, a, t)
  PROVE  Allowed(H, action, a, t)
<1> DEFINE R == Relevant(G, action, t)
           S == Relevant(H, action, t)
           p == Compile(G, action, t)
           q == Compile(H, action, t)
<1>1. /\ p.all <=> \E g \in R : g.all
      /\ p.groups = UNION {g.groups : g \in R}
      /\ p.hasPermission <=> R # {}
      /\ p.eulaBlocks <=> R # {} /\ \A g \in R : g.eula /\ ~ g.accepted
  BY DEF Compile, AllowedGroups
<1>2. /\ q.all <=> \E h \in S : h.all
      /\ q.groups = UNION {h.groups : h \in S}
      /\ q.hasPermission <=> S # {}
      /\ q.eulaBlocks <=> S # {} /\ \A h \in S : h.eula /\ ~ h.accepted
  BY DEF Compile, AllowedGroups
<1>3. \A g \in R : \E h \in S : Outdoes(h, g)
  BY RelevantOutdone
<1>4. /\ ~ a.deleted /\ p.hasPermission /\ InScope(p, a)
      /\ action = "download" => MayCopy(p, a, t)
  BY DEF Allowed
<1> HIDE DEF R, S, p, q
<1>5. q.hasPermission
  BY <1>1, <1>2, <1>3, <1>4
<1>6. p.all => q.all
  BY <1>1, <1>2, <1>3 DEF Outdoes
<1>7. p.groups \subseteq q.groups
  BY <1>1, <1>2, <1>3 DEF Outdoes
<1>8. InScope(q, a)
  BY <1>4, <1>6, <1>7 DEF InScope
<1>9. ~ p.eulaBlocks => ~ q.eulaBlocks
  <2> SUFFICES ASSUME ~ p.eulaBlocks PROVE ~ q.eulaBlocks
    OBVIOUS
  <2>1. PICK g \in R : ~ (g.eula /\ ~ g.accepted)
    BY <1>1, <1>4
  <2>2. PICK h \in S : Outdoes(h, g)
    BY <1>3
  <2> QED
    BY <1>2, <2>1, <2>2 DEF Outdoes
<1>10. action = "download" => MayCopy(q, a, t)
  BY <1>4, <1>6, <1>9 DEF MayCopy
<1> QED
  BY <1>4, <1>5, <1>8, <1>10 DEF Allowed, q

\* A key's scopes leave grants that the owner's outdo.
LEMMA OwnerOutdoes ==
  ASSUME NEW G, NEW S
  PROVE  OutdoAll(G, Narrowed(G, S))
<1>1. CASE S = {}
  BY <1>1 DEF OutdoAll, Narrowed, Outdoes
<1>2. CASE S # {}
  <2> SUFFICES ASSUME NEW g \in Narrowed(G, S)
               PROVE  \E h \in G : Outdoes(h, g)
    BY DEF OutdoAll
  <2>1. PICK h \in G : g = Retained(h, S)
    BY <1>2 DEF Narrowed
  <2>2. Outdoes(h, g)
    BY <2>1 DEF Retained, Outdoes
  <2> QED
    BY <2>2
<1> QED
  BY <1>1, <1>2

----------------------------------------------------------------------------
(* The theorems.                                                           *)

\* VisibleIsReadable: a request is shown what evaluating the asset by itself
\* lets its caller read, for any grants at any moment.
THEOREM VisibleIsReadableAlways == AccessSpec => []VisibleIsReadable
<1>1. VisibleIsReadable
  <2> SUFFICES ASSUME NEW action \in {"read", "manage"}
               PROVE  /\ Sees(action) => May(action)
                      /\ May(action) /\ Renderable(Compile(Grants, action, now)) => Sees(action)
    BY DEF VisibleIsReadable
  <2> DEFINE p == Compile(Grants, action, now)
  <2>1. May(action) <=> ~ asset.deleted /\ p.hasPermission /\ InScope(p, asset)
    BY DEF May, Allowed
  <2>2. Shown(p, asset) <=> May(action)
    <3>1. InScope(p, asset) => p.all \/ p.groups # {}
      BY DEF InScope
    <3> QED
      BY <2>1, <3>1 DEF Shown, MatchesNothing
  <2>3. Sees(action) <=> Renderable(p) /\ Shown(p, asset)
    BY DEF Sees, Shown
  <2> QED
    BY <2>2, <2>3
<1> QED
  BY <1>1, PTL

\* ScopesOnlyRemove: a narrowed key may do nothing its owner may not.
THEOREM ScopesOnlyRemoveAlways == AccessSpec => []ScopesOnlyRemove
<1>1. ScopesOnlyRemove
  <2> SUFFICES ASSUME NEW action \in Action, May(action)
               PROVE  Allowed(Loaded, action, asset, now)
    BY DEF ScopesOnlyRemove
  <2>1. OutdoAll(Loaded, Grants)
    BY OwnerOutdoes DEF Grants
  <2> QED
    BY <2>1, MoreAllowsMore DEF May
<1> QED
  BY <1>1, PTL

\* MoreRolesSeeMore: no step that only adds roles refuses what was allowed.
THEOREM MoreRolesSeeMoreAlways == AccessSpec => MoreRolesSeeMore
<1> DEFINE Adds == /\ roles \subseteq roles' /\ (admin => admin')
                   /\ UNCHANGED <<member, scopes, asset, now>>
<1>1. ASSUME Adds, NEW action \in Action, May(action)
      PROVE  May(action)'
  <2>1. Loaded \subseteq Loaded'
    BY <1>1 DEF Loaded
  <2>2. Grants \subseteq Grants'
    BY <1>1, <2>1 DEF Grants, Narrowed
  <2>3. OutdoAll(Grants', Grants)
    BY <2>2 DEF OutdoAll, Outdoes
  <2>4. Allowed(Grants', action, asset, now)
    BY <1>1, <2>3, MoreAllowsMore DEF May
  <2> QED
    BY <1>1, <2>4 DEF May
<1>2. Adds => \A action \in Action : May(action) => May(action)'
  BY <1>1
<1> QED
  BY <1>2, PTL DEF MoreRolesSeeMore

----------------------------------------------------------------------------
(* Metadata.                                                               *)

Tables ==
  /\ tag = [t \in Term |-> tag[t]]
  /\ feedback = [t \in Term |-> feedback[t]]
  /\ settled = [t \in Term |-> settled[t]]

\* What is so of one term, before and after.
Stands(t) ==
  /\ settled[t] # "none" => tag[t] = settled[t]
  /\ tag[t] = "rejected" => "rejected" \in feedback[t]

TagInv == Tables /\ \A t \in Term : Stands(t)

LEMMA InitStands == EditInit => TagInv
  BY DEF EditInit, TagInv, Tables, Stands

\* A step that leaves the tags alone leaves the invariant alone.
LEMMA TagsKept == ASSUME TagInv, UNCHANGED tags PROVE TagInv'
  BY DEF TagInv, Tables, Stands, tags

\* A model's answer reaches only terms without a row, and those nobody settled.
LEMMA ApplyStands ==
  ASSUME TagInv, NEW m \in Enricher, Apply(m)
  PROVE  TagInv'
<1> DEFINE new == {t \in edits[m].terms : edits[m].tag[t] = "none"}
           old == {t \in edits[m].terms : edits[m].tag[t] = "suggested" /\ tag[t] # "none"}
<1>1. /\ \A t \in new : tag[t] = "none"
      /\ tag' = [t \in Term |->
           IF t \in new THEN "suggested" ELSE IF t \in old THEN Seconded(t) ELSE tag[t]]
      /\ UNCHANGED <<feedback, settled>>
  BY DEF Apply, SuggestTags
<1> HIDE DEF new, old
<1>2. Tables'
  BY <1>1 DEF TagInv, Tables
<1>3. ASSUME NEW t \in Term PROVE Stands(t)'
  <2>1. CASE t \in new
    BY <1>1, <2>1 DEF TagInv, Stands
  <2>2. CASE t \notin new
    <3>1. tag'[t] = tag[t]
      BY <1>1, <2>2 DEF Seconded
    <3> QED
      BY <1>1, <3>1 DEF TagInv, Stands
  <2> QED
    BY <2>1, <2>2
<1> QED
  BY <1>2, <1>3 DEF TagInv

\* A reviewer's verdict is written to the tag and to the feedback at once.
LEMMA DecideStands ==
  ASSUME TagInv, NEW r \in Reviewer, Decide(r)
  PROVE  TagInv'
<1> DEFINE d == edits[r].term
           verdict == edits[r].verdict
<1>1. /\ tag' = [tag EXCEPT ![d] = IF @ = "none" THEN @ ELSE verdict]
      /\ settled' = [settled EXCEPT ![d] = tag'[d]]
      /\ feedback' = [feedback EXCEPT ![d] = @ \cup {verdict}]
  BY DEF Decide
<1> HIDE DEF d, verdict
<1>2. Tables'
  BY <1>1 DEF TagInv, Tables
<1>3. ASSUME NEW t \in Term PROVE Stands(t)'
  <2>1. CASE t = d
    <3>1. /\ tag'[d] = IF tag[d] = "none" THEN "none" ELSE verdict
          /\ settled'[d] = tag'[d]
          /\ feedback'[d] = feedback[d] \cup {verdict}
      BY <1>1, <2>1 DEF TagInv, Tables
    <3> QED
      BY <2>1, <3>1 DEF Stands
  <2>2. CASE t # d
    <3>1. tag'[t] = tag[t] /\ settled'[t] = settled[t] /\ feedback'[t] = feedback[t]
      BY <1>1, <2>2 DEF TagInv, Tables
    <3> QED
      BY <3>1 DEF TagInv, Stands
  <2> QED
    BY <2>1, <2>2
<1> QED
  BY <1>2, <1>3 DEF TagInv

\* Filing and unfiling.
LEMMA FileStands ==
  ASSUME TagInv, NEW f \in Term, File(f) \/ Unfile(f)
  PROVE  TagInv'
<1>1. PICK s \in {"confirmed", "none"} :
        /\ tag' = [tag EXCEPT ![f] = s]
        /\ settled' = [settled EXCEPT ![f] = s]
        /\ feedback' = feedback
  BY DEF File, Unfile
<1>2. Tables'
  BY <1>1 DEF TagInv, Tables
<1>3. ASSUME NEW t \in Term PROVE Stands(t)'
  BY <1>1 DEF TagInv, Tables, Stands
<1> QED
  BY <1>2, <1>3 DEF TagInv

\* DecisionStands: a decision stands until a person takes it back, and every
\* rejection has its feedback, for any number of requests that overlap.
THEOREM DecisionStandsAlways == EditSpec => []DecisionStands
<1>1. TagInv /\ [EditNext]_editVars => TagInv'
  <2> SUFFICES ASSUME TagInv, [EditNext]_editVars PROVE TagInv'
    OBVIOUS
  <2>1. CASE UNCHANGED tags
    BY <2>1, TagsKept
  <2>2. ASSUME NEW m \in Enricher, Apply(m) PROVE TagInv'
    BY <2>2, ApplyStands
  <2>3. ASSUME NEW r \in Reviewer, Decide(r) PROVE TagInv'
    BY <2>3, DecideStands
  <2>4. ASSUME NEW t \in Term, File(t) \/ Unfile(t) PROVE TagInv'
    BY <2>4, FileStands
  <2>5. \/ UNCHANGED tags
        \/ \E m \in Enricher : Apply(m)
        \/ \E r \in Reviewer : Decide(r)
        \/ \E t \in Term : File(t) \/ Unfile(t)
    BY DEF EditNext, editVars, tags, ReadForEdit, Merge, ReadForEnrichment, ReadForDecision, Undo
  <2> QED
    BY <2>1, <2>2, <2>3, <2>4, <2>5
<1>2. TagInv => DecisionStands
  BY DEF TagInv, Stands, DecisionStands
<1> QED
  BY InitStands, <1>1, <1>2, PTL DEF EditSpec
=============================================================================
