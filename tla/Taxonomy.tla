------------------------------ MODULE Taxonomy ------------------------------
(***************************************************************************)
(* The terms of one vocabulary and what they are put on: added, retired and *)
(* merged (dam-db/src/taxonomy.rs), assets filed under them and taken out   *)
(* (dam-db/src/categories.rs), and what models and reviewers say of them    *)
(* (dam-db/src/enrichment.rs).  A term is never deleted: a merge sends its  *)
(* meaning to another one, and a stored reference follows.                  *)
(*                                                                          *)
(* A request reads, then writes and commits, READ COMMITTED; what it read   *)
(* may have changed in between.                                             *)
(***************************************************************************)
EXTENDS Naturals, FiniteSets

CONSTANTS
  Term, Asset, NoTerm,
  Request,     \* requests that can be under way together
  MaxRequests  \* a bound of the model: requests in all

VARIABLES
  life,      \* of each term: absent, live, or retired (deprecated_at is set)
  parent,    \* parent_id
  into,      \* superseded_by
  tag,       \* asset_tags, by asset and term: none, suggested, confirmed or rejected
  request, begun,
  filed,     \* what a person filed, and nobody took out or rejected (history)
  crowded,   \* two requests have been under way together (history)
  redirected \* terms merged again after a first merge (history)

termVars == <<life, parent, into, tag, request, begun, filed, crowded, redirected>>

Absent == [op |-> "none"]

Quiet == \A q \in Request : request[q] = Absent

Idle(q) == request[q] = Absent

TermInit ==
  /\ life \in [Term -> {"absent", "live"}]
  /\ parent = [t \in Term |-> NoTerm] /\ into = [t \in Term |-> NoTerm]
  /\ tag = [x \in Asset \X Term |-> "none"]
  /\ request = [q \in Request |-> Absent] /\ begun = 0
  /\ filed = {} /\ crowded = FALSE /\ redirected = {}

\* The terms the references to t pass through: t, and where merges sent it.
Reach(t) ==
  LET hop[n \in 0 .. Cardinality(Term)] ==
        IF n = 0 THEN {t} ELSE hop[n - 1] \cup ({into[u] : u \in hop[n - 1]} \ {NoTerm})
  IN  hop[Cardinality(Term)]

----------------------------------------------------------------------------
(* What is read.                                                           *)

Begin(q, what) ==
  /\ Idle(q) /\ begun < MaxRequests
  /\ request' = [request EXCEPT ![q] = what] /\ begun' = begun + 1
  /\ crowded' = (crowded \/ ~ Quiet)
  /\ UNCHANGED <<life, parent, into, tag, filed, redirected>>

\* add_term: the parent is not retired, the path is free.
BeginAdd(q, t, under) ==
  /\ life[t] = "absent" /\ (under # NoTerm => life[under] = "live")
  /\ Begin(q, [op |-> "add", term |-> t, with |-> under])

HasChildren(t) == \E c \in Term : parent[c] = t /\ life[c] = "live"

\* deprecate: no live children.
BeginRetire(q, t) ==
  /\ life[t] = "live" /\ ~ HasChildren(t)
  /\ Begin(q, [op |-> "retire", term |-> t, with |-> NoTerm])

\* The bug: a retired target is taken, and its chain is followed for one step.
NearTarget(t, target) == t # target /\ into[target] # t

\* merge: not into itself, nor into one that resolves through it, nor into a
\* retired one.  The source may be anything, children and earlier merges included.
MergeTarget(t, target) ==
  /\ t # target
  /\ t \notin Reach(target)
  /\ life[target] = "live"

BeginMerge(q, t, target) ==
  /\ life[t] # "absent" /\ MergeTarget(t, target)
  /\ Begin(q, [op |-> "merge", term |-> t, with |-> target])

\* file: a retired category takes nothing new.
BeginFile(q, a, t) ==
  /\ life[t] = "live"
  /\ Begin(q, [op |-> "file", term |-> t, with |-> a])

----------------------------------------------------------------------------
(* What is written.                                                        *)

Ends(q) == request' = [request EXCEPT ![q] = Absent] /\ begun' = begun

Is(q, op) == ~ Idle(q) /\ request[q].op = op

\* The path is unique: of two that add a term, one is refused.
Add(q) ==
  LET t == request[q].term IN
  /\ Is(q, "add") /\ life[t] = "absent"
  /\ life' = [life EXCEPT ![t] = "live"]
  /\ parent' = [parent EXCEPT ![t] = request[q].with]
  /\ Ends(q)
  /\ UNCHANGED <<into, tag, filed, crowded, redirected>>

Retire(q) ==
  /\ Is(q, "retire")
  /\ life' = [life EXCEPT ![request[q].term] = "retired"]
  /\ Ends(q)
  /\ UNCHANGED <<parent, into, tag, filed, crowded, redirected>>

\* The rows that would collide are dropped, the others carried over.
Retagged(t, target) ==
  [x \in Asset \X Term |->
     IF x[2] = t THEN "none"
     ELSE IF x[2] = target /\ tag[x] = "none" THEN tag[<<x[1], t>>]
     ELSE tag[x]]

\* The bug: the statement that records it is for live terms only.
SupersededIfLive(t, target) ==
  IF life[t] = "live" THEN [into EXCEPT ![t] = target] ELSE into

Superseded(t, target) == [into EXCEPT ![t] = target]

Merge(q) ==
  LET t == request[q].term  target == request[q].with IN
  /\ Is(q, "merge")
  /\ tag' = Retagged(t, target)
  /\ life' = [life EXCEPT ![t] = "retired"]
  /\ into' = Superseded(t, target)
  /\ redirected' = IF into[t] \in {NoTerm, target} THEN redirected ELSE redirected \cup {t}
  /\ Ends(q)
  /\ UNCHANGED <<parent, filed, crowded>>

\* An upsert: what a model suggested, or a reviewer rejected, is confirmed.
File(q) ==
  LET x == <<request[q].with, request[q].term>> IN
  /\ Is(q, "file")
  /\ tag' = [tag EXCEPT ![x] = "confirmed"]
  /\ filed' = filed \cup {x}
  /\ Ends(q)
  /\ UNCHANGED <<life, parent, into, crowded, redirected>>

Abort(q) ==
  /\ ~ Idle(q) /\ Ends(q)
  /\ UNCHANGED <<life, parent, into, tag, filed, crowded, redirected>>

----------------------------------------------------------------------------
(* Single statements.                                                      *)

\* Whatever was filed under a term that leads to t is taken out with it.
Forget(a, t) == filed \ {x \in filed : x[1] = a /\ t \in Reach(x[2])}

Unfile(a, t) ==
  /\ tag[<<a, t>>] # "none"
  /\ tag' = [tag EXCEPT ![<<a, t>>] = "none"]
  /\ filed' = Forget(a, t)
  /\ UNCHANGED <<life, parent, into, request, begun, crowded, redirected>>

\* suggest_tags: a row where there is none, of a retired term as well.
Suggest(a, t) ==
  /\ life[t] # "absent" /\ tag[<<a, t>>] = "none"
  /\ tag' = [tag EXCEPT ![<<a, t>>] = "suggested"]
  /\ UNCHANGED <<life, parent, into, request, begun, filed, crowded, redirected>>

\* decide_tag
Confirm(a, t) ==
  /\ tag[<<a, t>>] = "suggested"
  /\ tag' = [tag EXCEPT ![<<a, t>>] = "confirmed"]
  /\ filed' = filed \cup {<<a, t>>}
  /\ UNCHANGED <<life, parent, into, request, begun, crowded, redirected>>

Reject(a, t) ==
  /\ tag[<<a, t>>] = "suggested"
  /\ tag' = [tag EXCEPT ![<<a, t>>] = "rejected"]
  /\ filed' = Forget(a, t)
  /\ UNCHANGED <<life, parent, into, request, begun, crowded, redirected>>

TermNext ==
  \/ \E q \in Request, t \in Term :
       \/ \E under \in Term \cup {NoTerm} : BeginAdd(q, t, under)
       \/ BeginRetire(q, t)
       \/ \E target \in Term : BeginMerge(q, t, target)
       \/ \E a \in Asset : BeginFile(q, a, t)
  \/ \E q \in Request : Add(q) \/ Retire(q) \/ Merge(q) \/ File(q) \/ Abort(q)
  \/ \E a \in Asset, t \in Term :
       Unfile(a, t) \/ Suggest(a, t) \/ Confirm(a, t) \/ Reject(a, t)

TermSpec == TermInit /\ [][TermNext]_termVars

----------------------------------------------------------------------------
(* Properties.                                                             *)

TermTypeOK ==
  /\ life \in [Term -> {"absent", "live", "retired"}]
  /\ parent \in [Term -> Term \cup {NoTerm}] /\ into \in [Term -> Term \cup {NoTerm}]
  /\ tag \in [Asset \X Term -> {"none", "suggested", "confirmed", "rejected"}]
  /\ request \in [Request ->
       {Absent} \cup [op : {"add", "retire", "merge", "file"}, term : Term,
                      with : Term \cup Asset \cup {NoTerm}]]
  /\ begun \in 0 .. MaxRequests /\ filed \subseteq Asset \X Term
  /\ crowded \in BOOLEAN /\ redirected \subseteq Term

\* What a person filed, and no second merge of a term has cut off from where
\* the first one carried it.
Owed == {x \in filed : Reach(x[2]) \cap redirected = {}}

\* "'Outdoor' tagged in 2019 still means outdoor after the vocabulary is
\* reorganised in 2026": whatever is merged and retired, however requests
\* overlap, an asset keeps a row of the term it was filed under, or of one its
\* references lead to.
MeaningKept ==
  \A x \in Owed : \E u \in Reach(x[2]) : tag[<<x[1], u>>] # "none"

\* A reference to any term resolves to a term.
ChainsEnd == \A t \in Term : into[t] # NoTerm => t \notin Reach(into[t])

\* No live term is under one that was retired by name.
TidyTree ==
  \A t \in Term :
    (life[t] = "live" /\ parent[t] # NoTerm /\ life[parent[t]] = "retired")
      => into[parent[t]] # NoTerm

\* A merge follows the chain, so that "merging C into A after A -> B -> C" does
\* not make it loop, and retiring looks for children, for "leaving them would put
\* active terms under a retired ancestor": unless requests overlapped, chains of
\* merges end, and live terms hang under retired ones only by a merge.
VocabularyIsSound == crowded \/ (ChainsEnd /\ TidyTree)

\* "The asset already has the meaning": what a person filed stays confirmed
\* through a merge, on the term its reference resolves through.
StillFound ==
  \A x \in Owed : \E u \in Reach(x[2]) : tag[<<x[1], u>>] = "confirmed"
=============================================================================
