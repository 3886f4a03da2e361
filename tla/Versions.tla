------------------------------ MODULE Versions ------------------------------
(***************************************************************************)
(* Which assets the library shows (dam-db/src/versions.rs, attachments.rs): *)
(* each is a version in a group, the current one or a superseded one; or    *)
(* paperwork attached to another asset; or deleted.  A listing has the live *)
(* ones that are current and not attached.                                  *)
(*                                                                          *)
(* A request reads, then writes and commits, READ COMMITTED; what it read   *)
(* may have changed in between.  Two unique indexes watch what it writes.   *)
(***************************************************************************)
EXTENDS Naturals

CONSTANTS
  Asset, NoAsset,
  Request,     \* requests that can be under way together
  MaxRequests, \* a bound of the model: requests in all
  Deletes      \* whether assets are deleted

VARIABLES
  group,     \* version_group_id; a group is named by the asset it started with
  number,    \* version_no
  current,   \* is_current
  attached,  \* attached_to
  deleted,   \* deleted_at is set
  request, begun,
  hidden     \* groups whose current version was taken from view (history)

versionVars == <<group, number, current, attached, deleted, request, begun, hidden>>

Absent == [op |-> "none"]

Live(a) == ~ deleted[a]

\* LIBRARY_ROWS, and what the access filter excludes.
Library == {a \in Asset : Live(a) /\ current[a] /\ attached[a] = NoAsset}

CurrentOf(g) == {a \in Asset : group[a] = g /\ current[a] /\ Live(a)}

\* Each as its upload left it.
VersionInit ==
  /\ group = [a \in Asset |-> a] /\ number = [a \in Asset |-> 1]
  /\ current = [a \in Asset |-> TRUE]
  /\ attached = [a \in Asset |-> NoAsset]
  /\ deleted = [a \in Asset |-> FALSE]
  /\ request = [q \in Request |-> Absent] /\ begun = 0
  /\ hidden = {}

----------------------------------------------------------------------------
(* What is read: both assets are visible, and the first is in the state the *)
(* operation is for.                                                       *)

Begin(q, op, a, b) ==
  /\ request[q] = Absent /\ begun < MaxRequests
  /\ Live(a) /\ Live(b)
  /\ begun' = begun + 1
  /\ request' = [request EXCEPT ![q] =
       [op |-> op, asset |-> a, other |-> b, group |-> group[a], number |-> number[a]]]
  /\ UNCHANGED <<group, number, current, attached, deleted, hidden>>

\* versions::add: a stale screen names a version that is not the current one.
BeginAdd(q, old, new) == current[old] /\ Begin(q, "add", old, new)

\* versions::restore
BeginRestore(q, a) == ~ current[a] /\ Begin(q, "restore", a, a)

\* attach: what it is attached to is no paperwork; it is nobody else's, and no
\* superseded version.
MayAttach(document, to) ==
  /\ attached[to] = NoAsset
  /\ attached[document] \in {NoAsset, to}
  /\ current[document]

BeginAttach(q, document, to) == MayAttach(document, to) /\ Begin(q, "attach", document, to)

----------------------------------------------------------------------------
(* What is written.                                                        *)

Is(q, op) == request[q] # Absent /\ request[q].op = op

Ends(q) == request' = [request EXCEPT ![q] = Absent] /\ begun' = begun

\* assets_current_idx and assets_version_idx; the latter counts the deleted.
Indexed(groups, numbers, flags) ==
  \A a, b \in Asset :
    a # b /\ groups[a] = groups[b] =>
      /\ numbers[a] # numbers[b]
      /\ ~ (flags[a] /\ flags[b] /\ Live(a) /\ Live(b))

\* What becomes of `hidden` when groups lose their current version, and a is made
\* the one of g.
Hiding(lose, a, g) ==
  IF attached[a] = NoAsset THEN (hidden \ {g}) \cup lose ELSE hidden \cup lose \cup {g}

\* Those an added version demotes: the one it was told to supersede.
Demoted(q) == {request[q].asset}

\* The bug: it answers without looking.
AnsweredBlind(a) == TRUE

\* The history that answers has it: it is not deleted meanwhile.
Answered(a) == Live(a)

\* The group and the number are those it read.
Add(q) ==
  LET old == request[q].asset  new == request[q].other  g == request[q].group IN
  /\ Is(q, "add") /\ Answered(new)
  /\ group' = [group EXCEPT ![new] = g]
  /\ number' = [number EXCEPT ![new] = request[q].number + 1]
  /\ current' = [a \in Asset |-> a = new \/ (current[a] /\ a \notin Demoted(q))]
  /\ Indexed(group', number', current')
  /\ hidden' = Hiding({group[a] : a \in {b \in {old, new} : current[b]}} \ {g}, new, g)
  /\ Ends(q)
  /\ UNCHANGED <<attached, deleted>>

\* Whichever is current is demoted; the one named keeps its number.
Restore(q) ==
  LET a == request[q].asset IN
  /\ Is(q, "restore") /\ Answered(a)
  /\ current' = [b \in Asset |-> b = a \/ (current[b] /\ b \notin CurrentOf(group[a]))]
  /\ hidden' = Hiding({}, a, group[a])
  /\ Ends(q)
  /\ UNCHANGED <<group, number, attached, deleted>>

\* assets_attachment_not_self; the parent's paperwork is read back.
Attach(q) ==
  LET a == request[q].asset IN
  /\ Is(q, "attach") /\ a # request[q].other /\ Live(request[q].other)
  /\ attached' = [attached EXCEPT ![a] = request[q].other]
  /\ hidden' = IF current[a] THEN hidden \cup {group[a]} ELSE hidden
  /\ Ends(q)
  /\ UNCHANGED <<group, number, current, deleted>>

Abort(q) ==
  /\ request[q] # Absent /\ Ends(q)
  /\ UNCHANGED <<group, number, current, attached, deleted, hidden>>

----------------------------------------------------------------------------
(* Single statements.                                                      *)

Detach(a) ==
  /\ Live(a) /\ attached[a] # NoAsset
  /\ attached' = [attached EXCEPT ![a] = NoAsset]
  /\ UNCHANGED <<group, number, current, deleted, request, begun, hidden>>

\* A bulk deletion, of an asset that no legal hold keeps.
Delete(a) ==
  /\ Deletes /\ Live(a)
  /\ deleted' = [deleted EXCEPT ![a] = TRUE]
  /\ hidden' = IF current[a] THEN hidden \cup {group[a]} ELSE hidden
  /\ UNCHANGED <<group, number, current, attached, request, begun>>

VersionNext ==
  \/ \E q \in Request, a, b \in Asset : BeginAdd(q, a, b) \/ BeginAttach(q, a, b)
  \/ \E q \in Request, a \in Asset : BeginRestore(q, a)
  \/ \E q \in Request : Add(q) \/ Restore(q) \/ Attach(q) \/ Abort(q)
  \/ \E a \in Asset : Detach(a) \/ Delete(a)

VersionSpec == VersionInit /\ [][VersionNext]_versionVars

----------------------------------------------------------------------------
(* Properties.                                                             *)

VersionTypeOK ==
  /\ group \in [Asset -> Asset] /\ number \in [Asset -> 1 .. MaxRequests + 1]
  /\ current \in [Asset -> BOOLEAN] /\ deleted \in [Asset -> BOOLEAN]
  /\ attached \in [Asset -> Asset \cup {NoAsset}]
  /\ request \in [Request -> {Absent} \cup
       [op : {"add", "restore", "attach"}, asset : Asset, other : Asset,
        group : Asset, number : 1 .. MaxRequests + 1]]
  /\ begun \in 0 .. MaxRequests /\ hidden \subseteq Asset

\* "Quietly making their upload current would discard whatever they had not
\* seen": however requests overlap, a version stops being current only by a
\* request that named it, or because an earlier one of its group was put back.
UnseenStays ==
  [][\A a \in Asset : current[a] /\ ~ current'[a] =>
       \E q \in Request :
         /\ request'[q] = Absent /\ request[q] # Absent
         /\ \/ Is(q, "add") /\ request[q].asset = a
            \/ Is(q, "restore") /\ group[request[q].asset] = group[a]]_versionVars

\* "They show one row per version group": a group with live versions is in the
\* library as one of them, unless its current one was deleted, attached as
\* paperwork, or taken into another group.
RowPerGroup ==
  \A g \in Asset \ hidden :
    (\E a \in Asset : group[a] = g /\ Live(a)) => \E a \in Library : group[a] = g

\* "A caller cannot leave a group with two current versions or none, because the
\* index will not have it."
NeverNone ==
  \A a \in Asset : Live(a) => CurrentOf(group[a]) # {}

\* "Paperwork cannot have paperwork of its own."
NoPaperworkOfPaperwork ==
  \A a \in Asset : attached[a] # NoAsset => attached[attached[a]] = NoAsset

\* The current version can be superseded: the next number is free.
CanBeSuperseded ==
  \A a, b \in Asset : a \in Library /\ group[b] = group[a] => number[b] # number[a] + 1
=============================================================================
