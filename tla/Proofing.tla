------------------------------ MODULE Proofing ------------------------------
(***************************************************************************)
(* A proofing round (dam-db/src/proofing.rs, dam-api/src/proofing.rs): a    *)
(* fixed set of assets, named reviewers, one verdict each.  What the round  *)
(* has come to is derived from the verdicts; that it is over is a column.   *)
(*                                                                          *)
(* A request is one READ COMMITTED transaction.  One that gives a verdict   *)
(* reads whether the round is closed, writes its row and reads the others'  *)
(* as they are committed, and commits: three steps others get between.      *)
(***************************************************************************)
CONSTANTS
  Asked,      \* the reviewers on the round, at least one
  Judgement   \* requests that give a verdict, under way together

ASSUME ProofingAssumption == Asked # {}

VARIABLES
  verdict,    \* of each reviewer, as committed
  closed,     \* closed_at is set
  cancelled,  \* cancelled_at is set
  seen,       \* every asset of the round is visible to those on it
  giving,     \* each request
  crowded,    \* two requests have been under way together (history)
  doubled     \* and two of one reviewer (history)

roundVars == <<verdict, closed, cancelled, seen, giving, crowded, doubled>>

Decision == {"approved", "changes_requested"}   \* parse_decision: not pending

NotGiving == [at |-> "none"]

Giving ==
  [at : {"read", "written"}, by : Asked, says : Decision,
   closes : BOOLEAN]   \* the outcome it read is a closed one

NobodyGives == \A q \in Judgement : giving[q] = NotGiving

\* What `open` commits, all of it at once.
RoundInit ==
  /\ verdict = [r \in Asked |-> "pending"]
  /\ closed = FALSE /\ cancelled = FALSE /\ seen = TRUE
  /\ giving = [q \in Judgement |-> NotGiving]
  /\ crowded = FALSE /\ doubled = FALSE

\* decide_outcome
OutcomeOf(v, withdrawn) ==
  IF withdrawn THEN "cancelled"
  ELSE IF \E r \in Asked : v[r] = "changes_requested" THEN "changes_requested"
  ELSE IF \E r \in Asked : v[r] = "pending" THEN "open"
  ELSE "approved"

RoundOutcome == OutcomeOf(verdict, cancelled)

----------------------------------------------------------------------------
(* A verdict.                                                              *)

\* The bug: a round stays open for verdicts until it is withdrawn.
TakesUntilWithdrawn == ~ cancelled

TakesVerdicts == ~ closed

\* read, through the caller's predicate, and the check that it is not closed.
ReadRound(q, r, says) ==
  /\ giving[q] = NotGiving
  /\ seen /\ TakesVerdicts
  /\ giving' = [giving EXCEPT ![q] = [at |-> "read", by |-> r, says |-> says, closes |-> FALSE]]
  /\ crowded' = (crowded \/ ~ NobodyGives)
  /\ doubled' = (doubled \/ \E o \in Judgement : giving[o] # NotGiving /\ giving[o].by = r)
  /\ UNCHANGED <<verdict, closed, cancelled, seen>>

\* Its row, which a request of the same reviewer holds until it commits.
RowIsFree(r) == \A q \in Judgement : giving[q].at = "written" => giving[q].by # r

\* The verdicts outcome_of counts: the committed ones, and its own.
VerdictsCounted(q) == [verdict EXCEPT ![giving[q].by] = giving[q].says]

\* The bug: the outcome is read before its own row is written.
IsLastWordBefore(q) == OutcomeOf(verdict, cancelled) # "open"

IsLastWord(q) == OutcomeOf(VerdictsCounted(q), cancelled) # "open"

\* The UPDATE of its row, and outcome_of.
WriteVerdict(q) ==
  /\ giving[q].at = "read" /\ RowIsFree(giving[q].by)
  /\ giving' = [giving EXCEPT ![q].at = "written",
                              ![q].closes = IsLastWord(q)]
  /\ UNCHANGED <<verdict, closed, cancelled, seen, crowded, doubled>>

\* The close, if that was the last word, the read that answers, the commit.
CommitVerdict(q) ==
  /\ giving[q].at = "written" /\ seen
  /\ verdict' = VerdictsCounted(q)
  /\ closed' = (closed \/ giving[q].closes)
  /\ giving' = [giving EXCEPT ![q] = NotGiving]
  /\ UNCHANGED <<cancelled, seen, crowded, doubled>>

\* A refusal or a failed statement: nothing of it stays.
AbortVerdict(q) ==
  /\ giving[q] # NotGiving
  /\ giving' = [giving EXCEPT ![q] = NotGiving]
  /\ UNCHANGED <<verdict, closed, cancelled, seen, crowded, doubled>>

----------------------------------------------------------------------------
\* cancel: one conditional statement; the verdicts given are kept.
Cancel ==
  /\ seen /\ ~ cancelled
  /\ cancelled' = TRUE /\ closed' = TRUE
  /\ crowded' = (crowded \/ ~ NobodyGives)
  /\ UNCHANGED <<verdict, seen, giving, doubled>>

\* One of its assets is deleted: it stays in the round, where nobody sees it.
AssetDeleted ==
  /\ seen /\ seen' = FALSE
  /\ UNCHANGED <<verdict, closed, cancelled, giving, crowded, doubled>>

RoundNext ==
  \/ \E q \in Judgement, r \in Asked, says \in Decision : ReadRound(q, r, says)
  \/ \E q \in Judgement : WriteVerdict(q) \/ CommitVerdict(q) \/ AbortVerdict(q)
  \/ Cancel \/ AssetDeleted

RoundSpec == RoundInit /\ [][RoundNext]_roundVars

----------------------------------------------------------------------------
(* Properties.                                                             *)

RoundTypeOK ==
  /\ verdict \in [Asked -> Decision \cup {"pending"}]
  /\ closed \in BOOLEAN /\ cancelled \in BOOLEAN /\ seen \in BOOLEAN
  /\ crowded \in BOOLEAN /\ doubled \in BOOLEAN
  /\ giving \in [Judgement -> Giving \cup {NotGiving}]

\* "Two sources of truth for one fact means one of them is eventually wrong":
\* the column and the verdicts.  A round that is over has come to something,
\* unless two requests of one reviewer overlapped; one that has come to
\* something is over, unless any two did.
RoundIsTrue ==
  /\ ~ doubled => (closed => RoundOutcome # "open")
  /\ ~ crowded => (RoundOutcome # "open" => closed)

\* "This round is already closed; a further review is a new round": what a closed
\* round came to stays, but for a withdrawal; where requests of different
\* reviewers overlapped, an approval may still turn into changes.
WordStands ==
  [][closed =>
       /\ ~ crowded' => RoundOutcome' \in {RoundOutcome, "cancelled"}
       /\ ~ doubled' => RoundOutcome' \in {RoundOutcome, "cancelled", "changes_requested"}]_roundVars

\* "The moment a round closes is the moment its last verdict lands": there is no
\* gap between everybody having approved and the round saying so.
SaysSo == NobodyGives /\ RoundOutcome = "approved" => closed
=============================================================================
