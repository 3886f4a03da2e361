------------------------------ MODULE Metadata ------------------------------
(***************************************************************************)
(* What is said about one asset, and by whom: its document of values with   *)
(* the provenance of those a model wrote (dam-db/src/metadata.rs and        *)
(* enrichment.rs), and its tags, which a model suggests, a reviewer decides *)
(* and anybody files or unfiles (enrichment.rs, categories.rs).             *)
(*                                                                          *)
(* A request is one READ COMMITTED transaction.  It reads without a lock;   *)
(* from its first write to its commit it holds the rows it wrote.  So it is *)
(* two steps here: what it reads, and what it writes from that.             *)
(***************************************************************************)
CONSTANTS
  Field,
  Writable,   \* the fields a model may write
  Term,
  Editor,     \* requests that carry a person's edit: PATCH, bulk, transfer
  Enricher,   \* runs that write a model's answer back
  Reviewer    \* requests that decide a suggested tag

VARIABLES
  values,     \* of each field: who wrote it, "nobody" when it is not there
  marked,     \* the keys of provenance
  tag,        \* of each term: the state of its asset_tags row, "none" without one
  feedback,   \* tag_feedback: the verdicts given about each term
  edits,      \* each request: what it read, and what it is asked
  settled,    \* of each term: what people last made of it (history)
  reverted    \* fields that an edit of other fields changed (history)

editVars == <<values, marked, tag, feedback, edits, settled, reverted>>
document == <<values, marked, reverted>>
tags     == <<tag, feedback, settled>>

EditRequest == Editor \cup Enricher \cup Reviewer

NoEdit == [term |-> "none"]

Verdict == {"confirmed", "rejected"}

Ends(r) == edits' = [edits EXCEPT ![r] = NoEdit]

EditInit ==
  /\ values \in [Field -> {"nobody", "person"}]
  /\ marked = {}
  /\ tag = [t \in Term |-> "none"]
  /\ feedback = [t \in Term |-> {}]
  /\ edits = [r \in EditRequest |-> NoEdit]
  /\ settled = [t \in Term |-> "none"]
  /\ reverted = {}

----------------------------------------------------------------------------
(* A person's edit.                                                        *)

\* metadata::merge reads the whole document.
ReadForEdit(e, keys, clear) ==
  /\ edits[e] = NoEdit /\ keys # {}
  /\ edits' = [edits EXCEPT ![e] =
       [read |-> values, keys |-> keys, clear |-> clear]]
  /\ UNCHANGED <<document, tags>>

Merged(e) ==
  [f \in Field |->
     IF f \notin edits[e].keys THEN edits[e].read[f]
     ELSE IF edits[e].clear THEN "nobody" ELSE e]

\* ... writes the merged one, and forgets the provenance of the edited keys as
\* the row has it now.
Merge(e) ==
  /\ edits[e] # NoEdit
  /\ values' = Merged(e)
  /\ marked' = marked \ edits[e].keys
  /\ reverted' = reverted \cup {f \in Field \ edits[e].keys : values[f] # Merged(e)[f]}
  /\ Ends(e)
  /\ UNCHANGED tags

----------------------------------------------------------------------------
(* A model's answer, written back: write_values and suggest_tags, each of    *)
(* which reads for itself before it writes.                                *)

ReadForEnrichment(m, keys, terms) ==
  /\ edits[m] = NoEdit
  /\ edits' = [edits EXCEPT ![m] =
       [read |-> values, marked |-> marked, keys |-> keys, terms |-> terms, tag |-> tag]]
  /\ UNCHANGED <<document, tags>>

\* A value without provenance is a person's, and kept.
Landing(m) ==
  {f \in edits[m].keys \cap Writable : edits[m].read[f] = "nobody" \/ f \in edits[m].marked}

WriteValues(m) ==
  IF Landing(m) = {} THEN UNCHANGED document
  ELSE /\ values' = [f \in Field |-> IF f \in Landing(m) THEN m ELSE edits[m].read[f]]
       /\ marked' = edits[m].marked \cup Landing(m)
       /\ reverted' = reverted

\* The bug: seconding a suggestion writes the state it read.
SuggestedAgain(t) == "suggested"

\* What becomes of a row that was a suggestion when it was read: it has a vote
\* more.
Seconded(t) == tag[t]

\* An insert that finds a row there fails, and the transaction with it.
SuggestTags(m) ==
  LET new == {t \in edits[m].terms : edits[m].tag[t] = "none"}
      old == {t \in edits[m].terms : edits[m].tag[t] = "suggested" /\ tag[t] # "none"} IN
  /\ \A t \in new : tag[t] = "none"
  /\ tag' = [t \in Term |->
       IF t \in new THEN "suggested" ELSE IF t \in old THEN Seconded(t) ELSE tag[t]]
  /\ UNCHANGED <<feedback, settled>>

\* enrich::apply
Apply(m) ==
  /\ edits[m] # NoEdit
  /\ WriteValues(m) /\ SuggestTags(m)
  /\ Ends(m)

----------------------------------------------------------------------------
(* A person's word about a tag.                                            *)

\* decide_tag finds a suggestion.
ReadForDecision(r, t, verdict) ==
  /\ edits[r] = NoEdit /\ tag[t] = "suggested"
  /\ edits' = [edits EXCEPT ![r] = [term |-> t, verdict |-> verdict]]
  /\ UNCHANGED <<document, tags>>

\* ... and writes by the key, whatever the row says now.
Decide(r) ==
  LET t == edits[r].term  verdict == edits[r].verdict IN
  /\ edits[r] # NoEdit
  /\ tag' = [tag EXCEPT ![t] = IF @ = "none" THEN @ ELSE verdict]
  /\ settled' = [settled EXCEPT ![t] = tag'[t]]
  /\ feedback' = [feedback EXCEPT ![t] = @ \cup {verdict}]
  /\ Ends(r)
  /\ UNCHANGED document

\* categories::file and unfile
File(t) ==
  /\ tag' = [tag EXCEPT ![t] = "confirmed"]
  /\ settled' = [settled EXCEPT ![t] = "confirmed"]
  /\ UNCHANGED <<document, feedback, edits>>

Unfile(t) ==
  /\ tag' = [tag EXCEPT ![t] = "none"]
  /\ settled' = [settled EXCEPT ![t] = "none"]
  /\ UNCHANGED <<document, feedback, edits>>

----------------------------------------------------------------------------
\* A failed statement, or the end of the process: the transaction is undone.
Undo(r) ==
  /\ edits[r] # NoEdit
  /\ Ends(r)
  /\ UNCHANGED <<document, tags>>

EditNext ==
  \/ \E e \in Editor :
       \/ \E keys \in SUBSET Field, clear \in BOOLEAN : ReadForEdit(e, keys, clear)
       \/ Merge(e)
  \/ \E m \in Enricher :
       \/ \E keys \in SUBSET Field, terms \in SUBSET Term : ReadForEnrichment(m, keys, terms)
       \/ Apply(m)
  \/ \E r \in Reviewer :
       \/ \E t \in Term, verdict \in Verdict : ReadForDecision(r, t, verdict)
       \/ Decide(r)
  \/ \E t \in Term : File(t) \/ Unfile(t)
  \/ \E r \in EditRequest : Undo(r)

EditSpec == EditInit /\ [][EditNext]_editVars

----------------------------------------------------------------------------
(* Properties.                                                             *)

EditTypeOK ==
  /\ values \in [Field -> {"nobody", "person"} \cup Editor \cup Enricher]
  /\ marked \subseteq Writable
  /\ tag \in [Term -> {"none", "suggested"} \cup Verdict]
  /\ feedback \in [Term -> SUBSET Verdict]

\* "A term a person has rejected stays rejected rather than being re-proposed,
\* and one already confirmed is left alone": whatever a model suggests beside a
\* reviewer, a decision stands until a person takes it back, and the training
\* set has every rejection.
DecisionStands ==
  \A t \in Term :
    /\ settled[t] # "none" => tag[t] = settled[t]
    /\ tag[t] = "rejected" => "rejected" \in feedback[t]

\* "Two clients editing different fields of one asset must not overwrite each
\* other": an edit changes the fields it names, and leaves the others as they
\* are.
EditSurvives == reverted = {}
=============================================================================
