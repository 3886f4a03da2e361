---------------------------- MODULE LibraryProofs ----------------------------
(***************************************************************************)
(* What holds of the parts of MCLibrary for any workers, jobs, reviewers,   *)
(* assets and requests under way together: a bulk operation, a proofing     *)
(* round, a version history, a vocabulary, a search document and a          *)
(* backfill, which share nothing.  A theorem is about one of them.          *)
(*                                                                          *)
(* Bulk operations.  One step of the handler changes items: Apply.  The     *)
(* other steps leave the items alone, and Finish alone writes a verdict.    *)
(*                                                                          *)
(* Proofing.  The verdicts say what a round has come to, and a column that  *)
(* it is over.  What a request counted before it commits may be old by then *)
(* (VerdictsCounted), but while no reviewer overlaps himself verdicts only  *)
(* get more and more severe: whoever has asked for changes has closed the   *)
(* round (ChangesClose), so that nobody under way takes that back           *)
(* (NoneTakenBack), and a count that found the round at an end is still     *)
(* right at the commit (CountsLast).  That a round which has come to an end *)
(* is closed needs more: no other request since the count (CountIsNew).     *)
(*                                                                          *)
(* Versions.  A group is in the library as long as it is not in `hidden`;   *)
(* that is inductive by itself, whatever the requests had read.             *)
(*                                                                          *)
(* Taxonomy.  Where a reference to a term leads is a closure along `into`,  *)
(* reached in as many hops as there are terms (LeadsIs).  A merge adds one  *)
(* link, at the end of a chain, so that what led somewhere leads there      *)
(* still (MergedReach), and closes no loop unless requests overlap (NoLoop).*)
(*                                                                          *)
(* IndexRefresh.  The order of the documents rests on the writer (Locked,   *)
(* FirstHand), or on there being one run only (Unrivalled); that the last   *)
(* request was served rests on the table (OneAtATime, HasItsJob).           *)
(*                                                                          *)
(* Backfill.  An open run is in the hands of a worker until it is in a      *)
(* batch (AloneIsHeld) and a collection's from then on (BatchedIsHeld),     *)
(* which is queued after the runs have their batch's number (UnsentUnknown, *)
(* AttachedFirst) and so reads all of them (GatheredAll).  That no asset is *)
(* sent twice rests, while a job has one worker, on what a submission has   *)
(* in hand: nothing of it is anybody else's (HeldOnce) or in a batch that   *)
(* counts (SliceIsNew).  What the open runs cost is a sum over a finite     *)
(* set; one run more, or one less, moves it by what that run costs.         *)
(***************************************************************************)
EXTENDS MCLibrary, FiniteSetTheorems, WellFoundedInduction, TLAPS

----------------------------------------------------------------------------
(* Proofing.                                                               *)

Active(q) == giving[q] # NotGiving

Written(q) == giving[q].at = "written"

WithdrawnIsClosed == cancelled => closed

OneEach ==
  ~ doubled => \A q, o \in Judgement :
                 Active(q) /\ Active(o) /\ giving[q].by = giving[o].by => q = o

ChangesClose == \A r \in Asked : verdict[r] = "changes_requested" => closed

SevereCloses ==
  \A q \in Judgement : Written(q) /\ giving[q].says = "changes_requested" => giving[q].closes

NoneTakenBack ==
  ~ doubled => \A q \in Judgement : Active(q) => verdict[giving[q].by] # "changes_requested"

\* What the round has come to with q's verdict.
WouldBeOver(q) == OutcomeOf(VerdictsCounted(q), cancelled) # "open"

CountsLast ==
  ~ doubled => \A q \in Judgement : Written(q) /\ giving[q].closes => WouldBeOver(q)

Alone ==
  ~ crowded => /\ \A q, o \in Judgement : Active(q) /\ Active(o) => q = o
               /\ closed => NobodyGives

CountIsNew ==
  ~ crowded => \A q \in Judgement : Written(q) /\ WouldBeOver(q) => giving[q].closes

RoundInv ==
  /\ RoundTypeOK /\ WithdrawnIsClosed /\ OneEach /\ ChangesClose /\ SevereCloses
  /\ NoneTakenBack /\ CountsLast /\ Alone /\ CountIsNew /\ RoundIsTrue

\* When a round has come to an end.
LEMMA OverWhen ==
  ASSUME NEW v, NEW w \in BOOLEAN
  PROVE  OutcomeOf(v, w) # "open" <=>
           \/ w \/ (\E r \in Asked : v[r] = "changes_requested")
           \/ \A r \in Asked : v[r] # "pending"
BY DEF OutcomeOf

\* A request under way is by a reviewer and says something.
LEMMA UnderWay ==
  ASSUME RoundTypeOK, NEW q \in Judgement
  PROVE  /\ Active(q) <=> giving[q] \in Giving
         /\ Active(q) => giving[q].by \in Asked /\ giving[q].says \in Decision
         /\ giving[q].at \in {"read", "written"} => Active(q)
         /\ Written(q) => Active(q)
BY DEF RoundTypeOK, Giving, NotGiving, Active, Written

LEMMA RoundInitially == RoundInit => RoundInv
<1> SUFFICES ASSUME RoundInit PROVE RoundInv OBVIOUS
<1>1. \A q \in Judgement : ~ Active(q) /\ ~ Written(q)
  BY DEF RoundInit, Active, Written, NotGiving
<1>2. RoundOutcome = "open"
  BY ProofingAssumption DEF RoundInit, RoundOutcome, OutcomeOf
<1>3. RoundTypeOK
  BY DEF RoundInit, RoundTypeOK
<1> QED
  BY <1>1, <1>2, <1>3 DEF RoundInv, RoundInit, WithdrawnIsClosed, OneEach, ChangesClose,
     SevereCloses, NoneTakenBack, CountsLast, Alone, CountIsNew, RoundIsTrue, NobodyGives

\* A request reads an open round.
LEMMA ReadStep ==
  ASSUME RoundInv, NEW q \in Judgement, NEW r \in Asked, NEW says \in Decision,
         ReadRound(q, r, says)
  PROVE  RoundInv'
<1>1. /\ ~ closed /\ ~ Active(q)
      /\ giving' = [giving EXCEPT ![q] = [at |-> "read", by |-> r, says |-> says, closes |-> FALSE]]
      /\ UNCHANGED <<verdict, closed, cancelled, seen>>
      /\ crowded' = (crowded \/ ~ NobodyGives)
      /\ doubled' = (doubled \/ \E o \in Judgement : Active(o) /\ giving[o].by = r)
  BY DEF ReadRound, TakesVerdicts, Active
<1>2. RoundTypeOK'
  BY <1>1 DEF RoundInv, RoundTypeOK, Giving
<1>3. \A o \in Judgement : o # q => giving'[o] = giving[o]
  BY <1>1 DEF RoundInv, RoundTypeOK
<1>4. giving'[q] = [at |-> "read", by |-> r, says |-> says, closes |-> FALSE]
  BY <1>1 DEF RoundInv, RoundTypeOK
<1>5. /\ Active(q)' /\ giving'[q].by = r /\ ~ Written(q)'
      /\ \A o \in Judgement : o # q => (Active(o)' <=> Active(o)) /\ (Written(o)' <=> Written(o))
  BY <1>3, <1>4 DEF Active, Written, NotGiving
<1>6. \A o \in Judgement : o # q => (WouldBeOver(o)' <=> WouldBeOver(o))
  BY <1>1, <1>3 DEF WouldBeOver, VerdictsCounted, OutcomeOf
<1>7. WithdrawnIsClosed' /\ ChangesClose' /\ RoundOutcome' = RoundOutcome
  BY <1>1 DEF RoundInv, WithdrawnIsClosed, ChangesClose, RoundOutcome, OutcomeOf
<1>8. OneEach'
  BY ZenonT(60), <1>1, <1>3, <1>5 DEF RoundInv, OneEach
<1>9. SevereCloses'
  BY <1>3, <1>5 DEF RoundInv, SevereCloses
<1>10. NoneTakenBack'
  BY <1>1, <1>3, <1>5 DEF RoundInv, NoneTakenBack, ChangesClose
<1>11. CountsLast'
  BY <1>1, <1>3, <1>5, <1>6 DEF RoundInv, CountsLast
<1>12. Alone'
  BY <1>1, <1>3, <1>5 DEF RoundInv, Alone, NobodyGives, Active
<1>13. CountIsNew'
  BY <1>1, <1>3, <1>5, <1>6 DEF RoundInv, CountIsNew
<1>14. RoundIsTrue'
  BY <1>1, <1>7 DEF RoundInv, RoundIsTrue
<1> QED BY <1>2, <1>7, <1>8, <1>9, <1>10, <1>11, <1>12, <1>13, <1>14 DEF RoundInv

\* It writes its row and counts.
LEMMA WriteStep ==
  ASSUME RoundInv, NEW q \in Judgement, WriteVerdict(q)
  PROVE  RoundInv'
<1>t. RoundTypeOK
  BY DEF RoundInv
<1>1. /\ giving[q].at = "read"
      /\ giving' = [giving EXCEPT ![q].at = "written", ![q].closes = IsLastWord(q)]
      /\ UNCHANGED <<verdict, closed, cancelled, seen, crowded, doubled>>
  BY DEF WriteVerdict
<1>2. Active(q) /\ giving[q] \in Giving /\ giving[q].by \in Asked /\ giving[q].says \in Decision
  BY <1>1, <1>t, UnderWay
<1>3. \A o \in Judgement : o # q => giving'[o] = giving[o]
  BY <1>1, <1>t DEF RoundTypeOK
<1>4. /\ giving'[q].at = "written" /\ giving'[q].by = giving[q].by
      /\ giving'[q].says = giving[q].says /\ giving'[q].closes = IsLastWord(q)
      /\ giving'[q] \in Giving
  BY <1>1, <1>2, <1>t DEF RoundTypeOK, Giving, IsLastWord
<1>5. RoundTypeOK'
  BY <1>1, <1>3, <1>4, <1>t DEF RoundTypeOK
<1>6. /\ Active(q)' /\ Written(q)'
      /\ \A o \in Judgement : o # q => (Active(o)' <=> Active(o)) /\ (Written(o)' <=> Written(o))
  BY <1>3, <1>4, <1>5, UnderWay DEF Active, Written, NotGiving
<1>7. \A o \in Judgement : WouldBeOver(o)' <=> WouldBeOver(o)
  <2> SUFFICES ASSUME NEW o \in Judgement PROVE WouldBeOver(o)' <=> WouldBeOver(o)
    OBVIOUS
  <2>1. giving'[o].by = giving[o].by /\ giving'[o].says = giving[o].says
    BY <1>3, <1>4
  <2>2. VerdictsCounted(o)' = VerdictsCounted(o)
    BY <1>1, <2>1 DEF VerdictsCounted
  <2> QED BY <1>1, <2>2 DEF WouldBeOver, OutcomeOf
<1>8. giving'[q].closes = WouldBeOver(q)
  BY <1>4 DEF IsLastWord, WouldBeOver
<1>9. giving[q].says = "changes_requested" => WouldBeOver(q)
  <2> SUFFICES ASSUME giving[q].says = "changes_requested" PROVE WouldBeOver(q) OBVIOUS
  <2>1. VerdictsCounted(q)[giving[q].by] = "changes_requested"
    BY <1>2, <1>t DEF VerdictsCounted, RoundTypeOK
  <2> QED BY <1>2, <2>1, OverWhen, <1>t DEF WouldBeOver, RoundTypeOK
<1>10. WithdrawnIsClosed' /\ ChangesClose' /\ RoundIsTrue'
  BY <1>1 DEF RoundInv, WithdrawnIsClosed, ChangesClose, RoundIsTrue, RoundOutcome, OutcomeOf
<1>11. OneEach'
  BY ZenonT(60), <1>1, <1>2, <1>3, <1>4, <1>6 DEF RoundInv, OneEach
<1>12. SevereCloses'
  BY <1>3, <1>4, <1>6, <1>8, <1>9 DEF RoundInv, SevereCloses
<1>13. NoneTakenBack'
  BY ZenonT(60), <1>1, <1>2, <1>3, <1>4, <1>6 DEF RoundInv, NoneTakenBack
<1>14. CountsLast' /\ CountIsNew'
  BY <1>1, <1>3, <1>6, <1>7, <1>8 DEF RoundInv, CountsLast, CountIsNew
<1>15. Alone'
  BY <1>1, <1>2, <1>3, <1>6 DEF RoundInv, Alone, NobodyGives, Active
<1> QED
  BY <1>5, <1>10, <1>11, <1>12, <1>13, <1>14, <1>15 DEF RoundInv

\* It commits, and closes the round if it counted the last word.
LEMMA CommitRoundStep ==
  ASSUME RoundInv, NEW q \in Judgement, CommitVerdict(q)
  PROVE  RoundInv'
<1>t. RoundTypeOK
  BY DEF RoundInv
<1>1. /\ Written(q) /\ verdict' = VerdictsCounted(q)
      /\ closed' = (closed \/ giving[q].closes)
      /\ giving' = [giving EXCEPT ![q] = NotGiving]
      /\ UNCHANGED <<cancelled, seen, crowded, doubled>>
  BY DEF CommitVerdict, Written
<1>2. Active(q) /\ giving[q] \in Giving /\ giving[q].by \in Asked /\ giving[q].says \in Decision
  BY <1>1, <1>t, UnderWay
<1> DEFINE r == giving[q].by
<1>3. /\ verdict'[r] = giving[q].says
      /\ \A x \in Asked : x # r => verdict'[x] = verdict[x]
      /\ verdict' \in [Asked -> Decision \cup {"pending"}]
  BY <1>1, <1>2, <1>t DEF VerdictsCounted, RoundTypeOK
<1>4. /\ giving'[q] = NotGiving
      /\ \A o \in Judgement : o # q => giving'[o] = giving[o]
  BY <1>1, <1>t DEF RoundTypeOK
<1>5. RoundTypeOK'
  BY <1>1, <1>2, <1>3, <1>t DEF RoundTypeOK, Giving
<1>6. /\ ~ Active(q)' /\ ~ Written(q)'
      /\ \A o \in Judgement : o # q => (Active(o)' <=> Active(o)) /\ (Written(o)' <=> Written(o))
  BY <1>4 DEF Active, Written, NotGiving
<1>7. WithdrawnIsClosed' /\ SevereCloses'
  BY <1>1, <1>4, <1>6 DEF RoundInv, WithdrawnIsClosed, SevereCloses
<1>8. OneEach'
  BY <1>1, <1>4, <1>6 DEF RoundInv, OneEach
<1>9. ChangesClose'
  BY <1>1, <1>3 DEF RoundInv, ChangesClose, SevereCloses
<1>10. ~ doubled => \A o \in Judgement : o # q /\ Active(o) => giving[o].by # r
  BY <1>2 DEF RoundInv, OneEach
<1>11. NoneTakenBack'
  <2> SUFFICES ASSUME ~ doubled, NEW o \in Judgement, Active(o)'
               PROVE  verdict'[giving'[o].by] # "changes_requested"
    BY <1>1 DEF NoneTakenBack
  <2>1. o # q /\ Active(o) /\ giving'[o] = giving[o]
    BY <1>4, <1>6
  <2>2. giving[o].by \in Asked /\ giving[o].by # r
    BY <2>1, <1>10, <1>t, UnderWay
  <2> QED BY <2>1, <2>2, <1>3 DEF RoundInv, NoneTakenBack
<1>12. ~ doubled => verdict[r] # "changes_requested"
  BY <1>2 DEF RoundInv, NoneTakenBack
<1>13. CountsLast'
  <2> SUFFICES ASSUME ~ doubled, NEW o \in Judgement, Written(o)', giving'[o].closes
               PROVE  WouldBeOver(o)'
    BY <1>1 DEF CountsLast
  <2>1. o # q /\ Written(o) /\ giving'[o] = giving[o]
    BY <1>4, <1>6
  <2> DEFINE s == giving[o].by
             v == VerdictsCounted(o)
             w == [verdict' EXCEPT ![s] = giving[o].says]
  <2>2. s \in Asked /\ s # r
    BY <2>1, <1>10, <1>t, UnderWay
  <2>3. WouldBeOver(o)
    BY <2>1 DEF RoundInv, CountsLast
  <2>4. /\ v[s] = giving[o].says /\ w[s] = giving[o].says
        /\ v[r] = verdict[r] /\ w[r] = giving[q].says
        /\ \A x \in Asked : x # r => w[x] = v[x]
    BY <1>2, <1>3, <2>2, <1>t DEF VerdictsCounted, RoundTypeOK
  <2>5. cancelled \/ (\E x \in Asked : v[x] = "changes_requested") \/ \A x \in Asked : v[x] # "pending"
    BY <2>3, OverWhen, <1>t DEF WouldBeOver, RoundTypeOK
  <2> HIDE DEF v, w
  <2>6. cancelled \/ (\E x \in Asked : w[x] = "changes_requested") \/ \A x \in Asked : w[x] # "pending"
    BY <2>4, <2>5, <1>2, <1>12 DEF Decision
  <2>7. OutcomeOf(w, cancelled) # "open"
    BY <2>6, OverWhen, <1>t DEF RoundTypeOK
  <2> QED BY <2>7, <2>1, <1>1 DEF WouldBeOver, VerdictsCounted, w, OutcomeOf
<1>14. Alone' /\ CountIsNew'
  <2>1. ~ crowded => \A o \in Judgement : Active(o) => o = q
    BY <1>2 DEF RoundInv, Alone
  <2>2. ~ crowded => \A o \in Judgement : ~ Active(o)' /\ ~ Written(o)'
    BY <2>1, <1>6, <1>t, UnderWay
  <2> QED BY <1>1, <2>2 DEF Alone, CountIsNew, NobodyGives, Active
<1>15. RoundOutcome' = OutcomeOf(VerdictsCounted(q), cancelled)
  BY <1>1 DEF RoundOutcome, OutcomeOf
<1>16. RoundIsTrue'
  <2>1. ASSUME ~ doubled, closed PROVE RoundOutcome' # "open"
    <3>1. cancelled \/ (\E x \in Asked : verdict[x] = "changes_requested")
                    \/ \A x \in Asked : verdict[x] # "pending"
      BY <2>1, OverWhen, <1>t DEF RoundInv, RoundIsTrue, RoundOutcome, RoundTypeOK
    <3>2. cancelled \/ (\E x \in Asked : verdict'[x] = "changes_requested")
                    \/ \A x \in Asked : verdict'[x] # "pending"
      BY <2>1, <3>1, <1>2, <1>3, <1>12 DEF Decision
    <3> QED BY <3>2, <1>1, <1>15, OverWhen, <1>t DEF RoundTypeOK
  <2>2. ASSUME ~ doubled, giving[q].closes PROVE RoundOutcome' # "open"
    BY <2>2, <1>1, <1>15 DEF RoundInv, CountsLast, WouldBeOver
  <2>3. ASSUME ~ crowded, RoundOutcome' # "open" PROVE closed'
    BY <2>3, <1>1, <1>15 DEF RoundInv, CountIsNew, WouldBeOver
  <2> QED BY <2>1, <2>2, <2>3, <1>1 DEF RoundIsTrue
<1> QED
  BY <1>5, <1>7, <1>8, <1>9, <1>11, <1>13, <1>14, <1>16 DEF RoundInv

\* A request ends without an effect, or an asset goes.
LEMMA NoEffectStep ==
  ASSUME RoundInv, UNCHANGED <<verdict, closed, cancelled, crowded, doubled>>,
         seen' \in BOOLEAN,
         giving' = giving \/ \E q \in Judgement : giving' = [giving EXCEPT ![q] = NotGiving]
  PROVE  RoundInv'
<1>t. RoundTypeOK
  BY DEF RoundInv
<1>1. \A o \in Judgement : giving'[o] = giving[o] \/ giving'[o] = NotGiving
  BY <1>t DEF RoundTypeOK
<1>2. RoundTypeOK'
  BY <1>t DEF RoundTypeOK
<1>3. \A o \in Judgement : /\ Active(o)' => giving'[o] = giving[o] /\ Active(o)
                           /\ Written(o)' => giving'[o] = giving[o] /\ Written(o)
                           /\ ~ Active(o) => ~ Active(o)'
  BY <1>1 DEF Active, Written, NotGiving
<1>4. \A o \in Judgement : giving'[o] = giving[o] => (WouldBeOver(o)' <=> WouldBeOver(o))
  BY DEF WouldBeOver, VerdictsCounted, OutcomeOf
<1>5. WithdrawnIsClosed' /\ ChangesClose' /\ RoundIsTrue'
  BY DEF RoundInv, WithdrawnIsClosed, ChangesClose, RoundIsTrue, RoundOutcome, OutcomeOf
<1>6. OneEach' /\ SevereCloses' /\ NoneTakenBack'
  BY <1>3 DEF RoundInv, OneEach, SevereCloses, NoneTakenBack
<1>7. CountsLast' /\ CountIsNew'
  BY <1>3, <1>4 DEF RoundInv, CountsLast, CountIsNew
<1>8. Alone'
  BY <1>3 DEF RoundInv, Alone, NobodyGives, Active
<1> QED BY <1>2, <1>5, <1>6, <1>7, <1>8 DEF RoundInv

\* A withdrawal closes the round, whoever is under way.
LEMMA CancelStep ==
  ASSUME RoundInv, Cancel
  PROVE  RoundInv'
<1>1. /\ cancelled' = TRUE /\ closed' = TRUE /\ crowded' = (crowded \/ ~ NobodyGives)
      /\ UNCHANGED <<verdict, seen, giving, doubled>>
  BY DEF Cancel
<1>2. RoundTypeOK'
  BY <1>1 DEF RoundInv, RoundTypeOK
<1>3. \A o \in Judgement : WouldBeOver(o)' /\ Active(o)' = Active(o) /\ Written(o)' = Written(o)
  BY <1>1 DEF WouldBeOver, OutcomeOf, Active, Written
<1>4. WithdrawnIsClosed' /\ ChangesClose' /\ RoundIsTrue'
  BY <1>1 DEF WithdrawnIsClosed, ChangesClose, RoundIsTrue, RoundOutcome, OutcomeOf
<1>5. OneEach' /\ SevereCloses' /\ NoneTakenBack' /\ CountsLast'
  BY <1>1, <1>3 DEF RoundInv, OneEach, SevereCloses, NoneTakenBack, CountsLast
<1>6. ~ crowded' => \A o \in Judgement : ~ Active(o) /\ ~ Written(o)
  <2>1. ~ crowded' => NobodyGives
    BY <1>1
  <2>2. NobodyGives => \A o \in Judgement : ~ Active(o) /\ ~ Written(o)
    BY DEF NobodyGives, Active, Written, NotGiving
  <2> QED BY <2>1, <2>2
<1>7. Alone' /\ CountIsNew'
  BY <1>1, <1>3, <1>6 DEF Alone, CountIsNew, NobodyGives, Active
<1> QED BY <1>2, <1>4, <1>5, <1>7 DEF RoundInv

LEMMA RoundStep == RoundInv /\ [RoundNext]_roundVars => RoundInv'
<1> SUFFICES ASSUME RoundInv, [RoundNext]_roundVars PROVE RoundInv' OBVIOUS
<1>1. ASSUME NEW q \in Judgement, AbortVerdict(q) PROVE RoundInv'
  BY <1>1, NoEffectStep DEF AbortVerdict, RoundInv, RoundTypeOK
<1>2. CASE AssetDeleted \/ UNCHANGED roundVars
  BY <1>2, NoEffectStep DEF AssetDeleted, roundVars, RoundInv, RoundTypeOK
<1> QED
  BY <1>1, <1>2, ReadStep, WriteStep, CommitRoundStep, CancelStep DEF RoundNext

\* The inductive invariant of a round, for any reviewers and requests.
THEOREM RoundInvariance == RoundSpec => []RoundInv
BY RoundInitially, RoundStep, PTL DEF RoundSpec

\* The column and the verdicts agree: a round that is over has come to something,
\* unless a reviewer's own requests overlapped; one that has come to something is
\* over, unless any did.
THEOREM RoundIsTrueAlways == RoundSpec => []RoundIsTrue
<1>1. RoundInv => RoundIsTrue
  BY DEF RoundInv
<1> QED BY <1>1, RoundInvariance, PTL

\* What a closed round came to stays, but for a withdrawal, and for changes asked
\* for by a reviewer whose request overlapped the one that closed it.
THEOREM WordStandsAlways == RoundSpec => WordStands
<1> DEFINE Stays ==
      closed =>
        /\ ~ crowded' => RoundOutcome' \in {RoundOutcome, "cancelled"}
        /\ ~ doubled' => RoundOutcome' \in {RoundOutcome, "cancelled", "changes_requested"}
<1>1. ASSUME RoundInv, [RoundNext]_roundVars PROVE [Stays]_roundVars
  <2> SUFFICES ASSUME closed PROVE Stays OBVIOUS
  <2>t. RoundTypeOK
    BY <1>1 DEF RoundInv
  <2>1. ASSUME UNCHANGED <<verdict, cancelled>> PROVE Stays
    BY <2>1 DEF RoundOutcome, OutcomeOf
  <2>2. CASE Cancel
    BY <2>2 DEF Cancel, RoundOutcome, OutcomeOf
  <2>3. ASSUME NEW q \in Judgement, CommitVerdict(q) PROVE Stays
    <3>1. Active(q) /\ giving[q].by \in Asked /\ giving[q].says \in Decision
      BY <2>3, <2>t, UnderWay DEF CommitVerdict
    <3>2. crowded' = crowded /\ doubled' = doubled /\ cancelled' = cancelled
          /\ verdict' = VerdictsCounted(q)
      BY <2>3 DEF CommitVerdict
    <3>3. crowded
      BY <1>1, <3>1 DEF RoundInv, Alone, NobodyGives, Active
    <3>4. /\ verdict'[giving[q].by] = giving[q].says
          /\ \A x \in Asked : x # giving[q].by => verdict'[x] = verdict[x]
      BY <3>1, <3>2, <2>t DEF VerdictsCounted, RoundTypeOK
    <3>5. ASSUME ~ doubled PROVE RoundOutcome' \in {RoundOutcome, "cancelled", "changes_requested"}
      <4>1. RoundOutcome # "open" /\ verdict[giving[q].by] # "changes_requested"
        BY <1>1, <3>1, <3>5 DEF RoundInv, RoundIsTrue, NoneTakenBack
      <4> QED BY <4>1, <3>1, <3>2, <3>4 DEF RoundOutcome, OutcomeOf, Decision
    <3> QED BY <3>2, <3>3, <3>5
  <2> QED
    BY <1>1, <2>1, <2>2, <2>3 DEF RoundNext, ReadRound, WriteVerdict, AbortVerdict,
       AssetDeleted, roundVars
<1> QED BY <1>1, RoundInvariance, PTL DEF RoundSpec, WordStands

----------------------------------------------------------------------------
(* Versions.                                                               *)

Revision ==
  [op : {"add", "restore", "attach"}, asset : Version, other : Version, group : Version,
   number : Nat]

\* The types, without how far version numbers go.
VersionTypes ==
  /\ group \in [Version -> Version] /\ number \in [Version -> Nat]
  /\ current \in [Version -> BOOLEAN] /\ deleted \in [Version -> BOOLEAN]
  /\ attached \in [Version -> Version \cup {NoVersion}]
  /\ revision \in [Judgement -> {Versions!Absent} \cup Revision]
  /\ hidden \subseteq Version

\* A request of some kind is a revision.
LEMMA Requested ==
  ASSUME VersionTypes, NEW q \in Judgement, NEW does, Versions!Is(q, does)
  PROVE  revision[q] \in Revision
BY DEF VersionTypes, Versions!Is

LEMMA VersionTypesStep ==
  ASSUME VersionTypes, [Versions!VersionNext]_(Versions!versionVars)
  PROVE  VersionTypes'
<1>1. ASSUME NEW q \in Judgement, NEW a \in Version, NEW b \in Version,
             NEW does \in {"add", "restore", "attach"}, Versions!Begin(q, does, a, b)
      PROVE  VersionTypes'
  <2>1. [op |-> does, asset |-> a, other |-> b, group |-> group[a], number |-> number[a]]
          \in Revision
    BY DEF VersionTypes, Revision
  <2> QED BY <1>1, <2>1 DEF Versions!Begin, VersionTypes
<1>2. ASSUME NEW q \in Judgement, Versions!Add(q) PROVE VersionTypes'
  <2>1. revision[q] \in Revision
    BY <1>2, Requested DEF Versions!Add
  <2>2. hidden' \subseteq Version
    BY <1>2, <2>1 DEF Versions!Add, Versions!Hiding, VersionTypes, Revision
  <2>3. group' \in [Version -> Version] /\ number' \in [Version -> Nat]
    BY <1>2, <2>1 DEF Versions!Add, VersionTypes, Revision
  <2>4. current' \in [Version -> BOOLEAN]
    BY <1>2 DEF Versions!Add, VersionTypes
  <2> QED BY <1>2, <2>2, <2>3, <2>4 DEF Versions!Add, Versions!Ends, VersionTypes
<1>3. ASSUME NEW q \in Judgement, Versions!Restore(q) PROVE VersionTypes'
  <2>1. revision[q] \in Revision
    BY <1>3, Requested DEF Versions!Restore
  <2> QED BY <1>3, <2>1 DEF Versions!Restore, Versions!Ends, Versions!Hiding, VersionTypes, Revision
<1>4. ASSUME NEW q \in Judgement, Versions!Attach(q) PROVE VersionTypes'
  <2>1. revision[q] \in Revision
    BY <1>4, Requested DEF Versions!Attach
  <2> QED BY <1>4, <2>1 DEF Versions!Attach, Versions!Ends, VersionTypes, Revision
<1>5. ASSUME NEW q \in Judgement, Versions!Abort(q) PROVE VersionTypes'
  BY <1>5 DEF Versions!Abort, Versions!Ends, VersionTypes
<1>6. ASSUME NEW a \in Version, Versions!Detach(a) \/ Versions!Delete(a) PROVE VersionTypes'
  BY ZenonT(60), <1>6 DEF Versions!Detach, Versions!Delete, VersionTypes
<1>7. CASE UNCHANGED Versions!versionVars
  BY <1>7 DEF Versions!versionVars, VersionTypes
<1> QED
  BY <1>1, <1>2, <1>3, <1>4, <1>5, <1>6, <1>7
     DEF Versions!VersionNext, Versions!BeginAdd, Versions!BeginRestore, Versions!BeginAttach

\* A group of which a row is in the library, after a step, when it was before.
LEMMA RowStays ==
  ASSUME VersionTypes, Versions!RowPerGroup, NEW h \in Version \ hidden,
         \E a \in Version : group'[a] = h /\ ~ deleted'[a],
         \A a \in Version : group'[a] = h /\ ~ deleted'[a] => group[a] = h /\ ~ deleted[a],
         \A a \in Versions!Library : group[a] = h => a \in Versions!Library' /\ group'[a] = h
  PROVE  \E a \in Versions!Library' : group'[a] = h
<1>1. PICK a \in Versions!Library : group[a] = h
  BY DEF Versions!RowPerGroup, Versions!Live
<1> QED BY <1>1

LEMMA RowStep ==
  ASSUME VersionTypes, Versions!RowPerGroup, [Versions!VersionNext]_(Versions!versionVars)
  PROVE  Versions!RowPerGroup'
<1> SUFFICES ASSUME NEW h \in Version, h \notin hidden',
                    \E a \in Version : group'[a] = h /\ ~ deleted'[a]
             PROVE  \E a \in Versions!Library' : group'[a] = h
  BY DEF Versions!RowPerGroup, Versions!Live
<1> USE DEF Versions!Library, Versions!Live
<1>1. ASSUME NEW q \in Judgement, Versions!Add(q) PROVE \E a \in Versions!Library' : group'[a] = h
  <2> DEFINE old == revision[q].asset
             new == revision[q].other
             g == revision[q].group
             lose == {group[a] : a \in {b \in {old, new} : current[b]}} \ {g}
  <2>1. revision[q] \in Revision
    BY <1>1, Requested DEF Versions!Add
  <2>2. old \in Version /\ new \in Version /\ g \in Version
    BY <2>1 DEF Revision
  <2>3. /\ group' = [group EXCEPT ![new] = g] /\ ~ deleted[new]
        /\ current' = [a \in Version |-> a = new \/ (current[a] /\ a # old)]
        /\ hidden' = Versions!Hiding(lose, new, g) /\ attached' = attached /\ deleted' = deleted
    BY <1>1 DEF Versions!Add, Versions!Answered, Versions!Demoted
  <2>4. CASE h = g
    <3>1. attached[new] = NoVersion
      BY <2>3, <2>4 DEF Versions!Hiding
    <3> QED BY <2>2, <2>3, <2>4, <3>1 DEF VersionTypes
  <2>5. CASE h # g
    <3>1. h \notin hidden /\ h \notin lose
      BY <2>3, <2>5 DEF Versions!Hiding
    <3>2. \A a \in {old, new} : current[a] => group[a] # h
      BY <3>1, <2>5
    <3> HIDE DEF lose
    <3>3. \A a \in Version : a # new => group'[a] = group[a]
      BY <2>2, <2>3 DEF VersionTypes
    <3>4. group'[new] = g
      BY <2>2, <2>3 DEF VersionTypes
    <3>5. \A a \in Versions!Library : group[a] = h => a \in Versions!Library' /\ group'[a] = h
      BY <2>2, <2>3, <3>2, <3>3 DEF VersionTypes
    <3>6. \A a \in Version : group'[a] = h /\ ~ deleted'[a] => group[a] = h /\ ~ deleted[a]
      BY <2>3, <2>5, <3>3, <3>4
    <3> QED BY <3>1, <3>5, <3>6, RowStays
  <2> QED BY <2>4, <2>5
<1>2. ASSUME NEW q \in Judgement, Versions!Restore(q)
      PROVE  \E a \in Versions!Library' : group'[a] = h
  <2> DEFINE a == revision[q].asset
  <2>1. a \in Version
    BY <1>2, Requested DEF Versions!Restore, Revision
  <2>2. /\ group' = group /\ ~ deleted[a] /\ attached' = attached /\ deleted' = deleted
        /\ current' = [b \in Version |->
                         b = a \/ (current[b] /\ b \notin Versions!CurrentOf(group[a]))]
        /\ hidden' = Versions!Hiding({}, a, group[a])
    BY <1>2 DEF Versions!Restore, Versions!Answered
  <2>3. CASE h = group[a]
    <3>1. attached[a] = NoVersion
      BY <2>2, <2>3 DEF Versions!Hiding
    <3> QED BY <2>1, <2>2, <2>3, <3>1 DEF VersionTypes
  <2>4. CASE h # group[a]
    <3>1. h \notin hidden
      BY <2>2, <2>4 DEF Versions!Hiding
    <3>2. \A b \in Versions!Library : group[b] = h => b \in Versions!Library' /\ group'[b] = h
      BY <2>2, <2>4 DEF VersionTypes, Versions!CurrentOf
    <3> QED BY <2>2, <3>1, <3>2, RowStays
  <2> QED BY <2>3, <2>4
<1>3. ASSUME NEW q \in Judgement, Versions!Attach(q)
      PROVE  \E a \in Versions!Library' : group'[a] = h
  <2> DEFINE a == revision[q].asset
  <2>1. a \in Version
    BY <1>3, Requested DEF Versions!Attach, Revision
  <2>2. /\ group' = group /\ current' = current /\ deleted' = deleted
        /\ attached' = [attached EXCEPT ![a] = revision[q].other]
        /\ hidden' = IF current[a] THEN hidden \cup {group[a]} ELSE hidden
    BY <1>3 DEF Versions!Attach
  <2>3. h \notin hidden /\ (current[a] => group[a] # h)
    BY <2>2
  <2>4. \A b \in Versions!Library : group[b] = h => b \in Versions!Library' /\ group'[b] = h
    BY <2>1, <2>2, <2>3 DEF VersionTypes
  <2> QED BY <2>2, <2>3, <2>4, RowStays
<1>4. ASSUME NEW a \in Version, Versions!Detach(a) PROVE \E b \in Versions!Library' : group'[b] = h
  <2>1. \A b \in Versions!Library : group[b] = h => b \in Versions!Library' /\ group'[b] = h
    BY <1>4 DEF Versions!Detach, VersionTypes
  <2> QED BY <1>4, <2>1, RowStays DEF Versions!Detach
<1>5. ASSUME NEW a \in Version, Versions!Delete(a) PROVE \E b \in Versions!Library' : group'[b] = h
  <2>1. h \notin hidden /\ (current[a] => group[a] # h) /\ group' = group
    BY <1>5 DEF Versions!Delete
  <2>2. \A b \in Version : ~ deleted'[b] <=> ~ deleted[b] /\ b # a
    BY <1>5 DEF Versions!Delete, VersionTypes
  <2>3. \A b \in Versions!Library : group[b] = h => b \in Versions!Library' /\ group'[b] = h
    BY <1>5, <2>1, <2>2 DEF Versions!Delete, VersionTypes
  <2> QED BY <2>1, <2>2, <2>3, RowStays
<1>6. ASSUME UNCHANGED <<group, current, attached, deleted, hidden>>
      PROVE  \E a \in Versions!Library' : group'[a] = h
  BY <1>6, RowStays
<1>7. ASSUME NEW q \in Judgement, NEW a \in Version, NEW b \in Version,
             \/ Versions!BeginAdd(q, a, b) \/ Versions!BeginAttach(q, a, b)
             \/ Versions!BeginRestore(q, a) \/ Versions!Abort(q)
      PROVE  \E c \in Versions!Library' : group'[c] = h
  BY <1>6, <1>7 DEF Versions!BeginAdd, Versions!BeginAttach, Versions!BeginRestore,
     Versions!Begin, Versions!Abort
<1>8. CASE UNCHANGED Versions!versionVars
  BY <1>6, <1>8 DEF Versions!versionVars
<1> QED
  BY <1>1, <1>2, <1>3, <1>4, <1>5, <1>7, <1>8 DEF Versions!VersionNext

\* However requests overlap, a group with live versions is in the library as one of
\* them, unless its current one was deleted, attached, or taken into another group.
THEOREM RowPerGroupAlways == Versions!VersionSpec => []RowPerGroup
<1>1. Versions!VersionInit => VersionTypes /\ RowPerGroup
  BY DEF Versions!VersionInit, VersionTypes, RowPerGroup, Versions!RowPerGroup,
     Versions!Library, Versions!Live
<1>2. VersionTypes /\ RowPerGroup /\ [Versions!VersionNext]_(Versions!versionVars)
        => (VersionTypes /\ RowPerGroup)'
  BY VersionTypesStep, RowStep DEF RowPerGroup
<1> QED BY <1>1, <1>2, PTL DEF Versions!VersionSpec

\* However requests overlap, a version stops being current only by a request that
\* named it, or because an earlier one of its group was put back: nobody's upload
\* pushes aside one its screen did not show.
THEOREM UnseenStaysAlways == Versions!VersionSpec => Versions!UnseenStays
<1> DEFINE Named ==
      \A a \in Version : current[a] /\ ~ current'[a] =>
       \E q \in Judgement :
         /\ revision'[q] = Versions!Absent /\ revision[q] # Versions!Absent
         /\ \/ Versions!Is(q, "add") /\ revision[q].asset = a
            \/ Versions!Is(q, "restore") /\ group[revision[q].asset] = group[a]
<1>1. ASSUME VersionTypes, [Versions!VersionNext]_(Versions!versionVars)
      PROVE  [Named]_(Versions!versionVars)
  <2> SUFFICES ASSUME NEW a \in Version, current[a], ~ current'[a], Versions!VersionNext
               PROVE  \E q \in Judgement :
                        /\ revision'[q] = Versions!Absent /\ revision[q] # Versions!Absent
                        /\ \/ Versions!Is(q, "add") /\ revision[q].asset = a
                           \/ Versions!Is(q, "restore") /\ group[revision[q].asset] = group[a]
    BY <1>1
  <2>1. ASSUME NEW q \in Judgement, Versions!Ends(q), revision[q] # Versions!Absent
        PROVE  revision'[q] = Versions!Absent
    BY <1>1, <2>1 DEF Versions!Ends, VersionTypes
  <2>2. ASSUME NEW q \in Judgement, Versions!Add(q)
        PROVE  /\ revision'[q] = Versions!Absent /\ revision[q] # Versions!Absent
               /\ Versions!Is(q, "add") /\ revision[q].asset = a
    BY <2>1, <2>2 DEF Versions!Add, Versions!Is, Versions!Demoted
  <2>3. ASSUME NEW q \in Judgement, Versions!Restore(q)
        PROVE  /\ revision'[q] = Versions!Absent /\ revision[q] # Versions!Absent
               /\ Versions!Is(q, "restore") /\ group[revision[q].asset] = group[a]
    BY <2>1, <2>3 DEF Versions!Restore, Versions!Is, Versions!CurrentOf
  <2> QED
    BY <2>2, <2>3 DEF Versions!VersionNext, Versions!BeginAdd, Versions!BeginRestore,
       Versions!BeginAttach, Versions!Begin, Versions!Attach, Versions!Abort,
       Versions!Detach, Versions!Delete
<1>2. Versions!VersionInit => VersionTypes
  BY DEF Versions!VersionInit, VersionTypes
<1>3. VersionTypes /\ [Versions!VersionNext]_(Versions!versionVars) => VersionTypes'
  BY VersionTypesStep
<1> QED BY <1>1, <1>2, <1>3, PTL DEF Versions!VersionSpec, Versions!UnseenStays

----------------------------------------------------------------------------
(* IndexRefresh.                                                           *)

Apart == Damctl \notin Worker /\ Nobody \notin Worker \cup {Damctl}

Process == Worker \cup {Damctl}   \* as Search!Process

RefreshSteps == {"idle", "read", "open", "write", "ok", "transient"}

RefreshTypes ==
  /\ version \in Nat /\ asked \in Nat /\ doc \in Nat /\ reindexes \in Nat
  /\ writer \in Process \cup {Nobody}
  /\ step \in [Process -> RefreshSteps]
  /\ got \in [Process -> Nat]
  /\ handed \in BOOLEAN /\ raced \in BOOLEAN

\* Nothing is newer than the row.
RowIsNewest == asked <= version /\ doc <= version /\ \A p \in Process : got[p] <= version

\* Who writes has the writer, and a reindex has it from its start, so that what it
\* read is not overtaken.
Locked ==
  /\ \A p \in Process : step[p] = "write" => writer = p
  /\ step[Damctl] \in {"idle", "read", "write"}
  /\ step[Damctl] # "idle" => writer = Damctl /\ reindexes > 0
  /\ step[Damctl] = "write" => doc <= got[Damctl]

\* While the writer has not changed hands, every document is its process's own.
FirstHand ==
  ~ handed => /\ writer = Nobody => doc = 0
              /\ writer # Nobody => doc <= got[writer]

\* While no two runs overlapped there is at most one, and what it read is not
\* overtaken.
Unrivalled ==
  ~ raced => /\ \A v, w \in Worker : step[v] # "idle" /\ step[w] # "idle" => v = w
             /\ \A w \in Worker : reindexes = 0 /\ step[w] \in {"open", "write"} => doc <= got[w]

WriterInv == RefreshTypes /\ RowIsNewest /\ Locked /\ FirstHand /\ Unrivalled

LEMMA WriterInitially == Apart /\ Search!Init => WriterInv
<1> SUFFICES ASSUME Apart, Search!Init PROVE WriterInv
  OBVIOUS
<1>1. RefreshTypes
  BY DEF Search!Init, Search!RefreshInit, Search!Process, Process, RefreshTypes, RefreshSteps
<1>2. RowIsNewest /\ Locked /\ FirstHand /\ Unrivalled
  BY DEF Search!Init, Search!RefreshInit, Search!Process, Process, RowIsNewest, Locked, FirstHand,
     Unrivalled
<1> QED BY <1>1, <1>2 DEF WriterInv

\* Steps of the row and of the table, which leave the processes where they are.
LEMMA RowMoves ==
  ASSUME Apart, WriterInv,
         Search!Change \/ Search!Request \/ (\E j \in IndexJob : Search!Lapse(j)) \/ UNCHANGED Search!vars
  PROVE  WriterInv'
<1>a. RefreshTypes /\ RowIsNewest /\ Locked /\ FirstHand /\ Unrivalled
  BY DEF WriterInv
<1>1. /\ UNCHANGED <<doc, writer, step, got, reindexes, handed, raced>>
      /\ version' \in Nat /\ version' >= version
      /\ asked' \in Nat /\ asked' <= version'
  <2>1. CASE Search!Change
    BY <2>1, <1>a DEF Search!Change, RefreshTypes, RowIsNewest
  <2>2. CASE Search!Request
    BY <2>2, <1>a DEF Search!Request, RefreshTypes, RowIsNewest
  <2>3. ASSUME (\E j \in IndexJob : Search!Lapse(j)) \/ UNCHANGED Search!vars
        PROVE  UNCHANGED <<version, asked, doc, writer, step, got, reindexes, handed, raced>>
    BY <2>3 DEF Search!Lapse, Search!vars, Search!refreshVars
  <2> QED BY <1>a, <2>1, <2>2, <2>3 DEF RefreshTypes, RowIsNewest
<1>2. RefreshTypes'
  BY <1>a, <1>1 DEF RefreshTypes
<1>3. RowIsNewest'
  BY <1>a, <1>1 DEF RefreshTypes, RowIsNewest
<1>4. Locked' /\ FirstHand' /\ Unrivalled'
  BY <1>a, <1>1 DEF Locked, FirstHand, Unrivalled
<1> QED BY <1>2, <1>3, <1>4 DEF WriterInv

\* A process goes on to another step; p and s name it.
LEMMA OneMoves ==
  ASSUME RefreshTypes, NEW p \in Process, NEW s \in RefreshSteps, Search!Goto(p, s)
  PROVE  /\ step' \in [Process -> RefreshSteps]
         /\ step'[p] = s /\ \A q \in Process \ {p} : step'[q] = step[q]
BY DEF RefreshTypes, Search!Goto

LEMMA ReadMoves ==
  ASSUME Apart, WriterInv, NEW p \in Process, Search!Read(p)
  PROVE  WriterInv'
<1>a. RefreshTypes /\ RowIsNewest /\ Locked /\ FirstHand /\ Unrivalled
  BY DEF WriterInv
<1>1. PICK s \in {"open", "write"} : Search!Goto(p, s) /\ (s = "write" <=> p = Damctl)
  BY DEF Search!Read
<1>2. /\ step' \in [Process -> RefreshSteps]
      /\ step'[p] = s /\ \A q \in Process \ {p} : step'[q] = step[q]
  BY <1>a, <1>1, OneMoves DEF RefreshSteps
<1>3. /\ got' \in [Process -> Nat]
      /\ got'[p] = version /\ \A q \in Process \ {p} : got'[q] = got[q]
      /\ UNCHANGED <<version, asked, doc, writer, reindexes, handed, raced>>
      /\ step[p] = "read"
  BY <1>a DEF Search!Read, RefreshTypes
<1>4. Damctl \in Process /\ Nobody \notin Process /\ \A w \in Worker : w \in Process
  BY DEF Apart, Process
<1>5. RefreshTypes'
  BY <1>a, <1>2, <1>3 DEF RefreshTypes
<1>6. RowIsNewest'
  BY <1>a, <1>3 DEF RowIsNewest, RefreshTypes
<1>7. Locked'
  <2>1. p = Damctl => writer = Damctl /\ reindexes > 0
    BY <1>a, <1>3 DEF Locked
  <2> QED BY <1>a, <1>1, <1>2, <1>3, <1>4, <2>1 DEF Locked, RowIsNewest
<1>8. FirstHand'
  BY <1>a, <1>3 DEF FirstHand, RefreshTypes, RowIsNewest
<1>9. Unrivalled'
  BY <1>a, <1>2, <1>3, <1>4 DEF Unrivalled, RowIsNewest
<1> QED BY <1>5, <1>6, <1>7, <1>8, <1>9 DEF WriterInv

\* A worker takes a job, opens the writer, writes, and lets go of the one or the
\* other.
LEMMA WorkerMoves ==
  ASSUME Apart, WriterInv, NEW w \in Worker,
         \/ Search!Open(w) \/ Search!Write(w) \/ Search!Crash(w) \/ Search!Evict(w)
         \/ \E j \in IndexJob : Search!Start(w, j) \/ Search!Complete(w, j) \/ Search!Fail(w, j)
  PROVE  WriterInv'
<1>a. RefreshTypes /\ RowIsNewest /\ Locked /\ FirstHand /\ Unrivalled
  BY DEF WriterInv
<1>b. /\ Damctl \in Process /\ Nobody \notin Process /\ \A v \in Worker : v \in Process
      /\ w # Damctl /\ w # Nobody
  BY DEF Apart, Process
<1>1. CASE Search!Open(w) /\ Search!Writable(w)
  <2>1. /\ writer \in {Nobody, w} /\ step[w] = "open"
        /\ writer' = w /\ Search!Goto(w, "write")
        /\ UNCHANGED <<version, asked, doc, got, reindexes, handed, raced>>
    BY <1>1 DEF Search!Open, Search!Writable
  <2>2. /\ step' \in [Process -> RefreshSteps]
        /\ step'[w] = "write" /\ \A q \in Process \ {w} : step'[q] = step[q]
    BY <1>a, <1>b, <2>1, OneMoves DEF RefreshSteps
  <2>3. RefreshTypes' /\ RowIsNewest'
    BY <1>a, <1>b, <2>1, <2>2 DEF RefreshTypes, RowIsNewest
  <2>4. Locked'
    BY <1>a, <1>b, <2>1, <2>2 DEF Locked
  <2>5. FirstHand'
    BY <1>a, <1>b, <2>1 DEF FirstHand, RefreshTypes
  <2>6. Unrivalled'
    BY <1>a, <1>b, <2>1, <2>2 DEF Unrivalled
  <2> QED BY <2>3, <2>4, <2>5, <2>6 DEF WriterInv
<1>2. CASE \/ Search!Open(w) /\ ~ Search!Writable(w)
           \/ \E j \in IndexJob : Search!Complete(w, j) \/ Search!Fail(w, j)
           \/ Search!Write(w) /\ UNCHANGED doc
  <2>1. PICK s \in {"idle", "transient", "ok"} : Search!Goto(w, s)
    BY <1>2 DEF Search!Open, Search!BusyOutcome, Search!Complete, Search!Fail, Search!Write
  <2>2. /\ UNCHANGED <<version, asked, doc, writer, got, reindexes, handed, raced>>
        /\ step[w] # "idle"
    BY <1>2 DEF Search!Open, Search!Complete, Search!Fail, Search!Write
  <2>3. /\ step' \in [Process -> RefreshSteps]
        /\ step'[w] = s /\ \A q \in Process \ {w} : step'[q] = step[q]
    BY <1>a, <1>b, <2>1, OneMoves DEF RefreshSteps
  <2>4. RefreshTypes' /\ RowIsNewest' /\ FirstHand'
    BY <1>a, <2>2, <2>3 DEF RefreshTypes, RowIsNewest, FirstHand
  <2>5. Locked'
    BY <1>a, <1>b, <2>2, <2>3 DEF Locked
  <2>6. Unrivalled'
    BY <1>a, <1>b, <2>2, <2>3 DEF Unrivalled
  <2> QED BY <2>4, <2>5, <2>6 DEF WriterInv
<1>3. CASE Search!Write(w) /\ doc' = got[w] /\ Search!Goto(w, "ok")
  <2>1. /\ step[w] = "write" /\ writer = w
        /\ UNCHANGED <<version, asked, writer, got, reindexes, handed, raced>>
    BY <1>3, <1>a, <1>b DEF Search!Write, Locked
  <2>2. /\ step' \in [Process -> RefreshSteps]
        /\ step'[w] = "ok" /\ \A q \in Process \ {w} : step'[q] = step[q]
    BY <1>3, <1>a, <1>b, OneMoves DEF RefreshSteps
  <2>3. RefreshTypes' /\ RowIsNewest'
    BY <1>3, <1>a, <1>b, <2>1, <2>2 DEF RefreshTypes, RowIsNewest
  <2>4. Locked'
    BY <1>a, <1>b, <2>1, <2>2 DEF Locked
  <2>5. FirstHand'
    BY <1>3, <1>a, <1>b, <2>1 DEF FirstHand, RefreshTypes
  <2>6. Unrivalled'
    BY <1>a, <1>b, <2>1, <2>2 DEF Unrivalled
  <2> QED BY <2>3, <2>4, <2>5, <2>6 DEF WriterInv
<1>4. CASE Search!Crash(w)
  <2>1. /\ Search!Goto(w, "idle")
        /\ UNCHANGED <<version, asked, doc, got, reindexes, raced>>
        /\ writer' = IF writer = w THEN Nobody ELSE writer
        /\ handed' \in BOOLEAN /\ (~ handed' => ~ handed /\ writer # w)
    BY <1>4, <1>a DEF Search!Crash, RefreshTypes
  <2>2. /\ step' \in [Process -> RefreshSteps]
        /\ step'[w] = "idle" /\ \A q \in Process \ {w} : step'[q] = step[q]
    BY <1>a, <1>b, <2>1, OneMoves DEF RefreshSteps
  <2>3. RefreshTypes' /\ RowIsNewest'
    BY <1>a, <2>1, <2>2 DEF RefreshTypes, RowIsNewest
  <2>4. Locked'
    BY <1>a, <1>b, <2>1, <2>2 DEF Locked
  <2>5. FirstHand'
    BY <1>a, <2>1 DEF FirstHand
  <2>6. Unrivalled'
    BY <1>a, <1>b, <2>1, <2>2 DEF Unrivalled
  <2> QED BY <2>3, <2>4, <2>5, <2>6 DEF WriterInv
<1>5. CASE Search!Evict(w)
  <2>1. /\ UNCHANGED <<version, asked, doc, step, got, reindexes, raced>>
        /\ writer = w /\ step[w] # "write" /\ writer' = Nobody /\ handed' = TRUE
    BY <1>5 DEF Search!Evict
  <2>2. RefreshTypes' /\ RowIsNewest' /\ FirstHand' /\ Unrivalled'
    BY <1>a, <2>1 DEF RefreshTypes, RowIsNewest, FirstHand, Unrivalled
  <2>3. Locked'
    BY <1>a, <1>b, <2>1 DEF Locked
  <2> QED BY <2>2, <2>3 DEF WriterInv
<1>6. ASSUME NEW j \in IndexJob, Search!Start(w, j) PROVE WriterInv'
  <2>1. /\ Search!Goto(w, "read") /\ step[w] = "idle"
        /\ UNCHANGED <<version, asked, doc, writer, got, reindexes, handed>>
        /\ raced' \in BOOLEAN /\ (~ raced' => ~ raced /\ \A v \in Worker : step[v] = "idle")
    BY <1>6, <1>a DEF Search!Start, RefreshTypes
  <2>2. /\ step' \in [Process -> RefreshSteps]
        /\ step'[w] = "read" /\ \A q \in Process \ {w} : step'[q] = step[q]
    BY <1>a, <1>b, <2>1, OneMoves DEF RefreshSteps
  <2>3. RefreshTypes' /\ RowIsNewest' /\ FirstHand'
    BY <1>a, <2>1, <2>2 DEF RefreshTypes, RowIsNewest, FirstHand
  <2>4. Locked'
    BY <1>a, <1>b, <2>1, <2>2 DEF Locked
  <2>5. Unrivalled'
    BY <1>a, <1>b, <2>1, <2>2 DEF Unrivalled
  <2> QED BY <2>3, <2>4, <2>5 DEF WriterInv
<1>7. Search!Write(w) => \/ UNCHANGED doc
                         \/ doc' = got[w] /\ Search!Goto(w, "ok")
  BY DEF Search!Write
<1> QED BY <1>1, <1>2, <1>3, <1>4, <1>5, <1>6, <1>7

LEMMA ReindexMoves ==
  ASSUME Apart, WriterInv, Search!Reindex \/ Search!Reindexed
  PROVE  WriterInv'
<1>a. RefreshTypes /\ RowIsNewest /\ Locked /\ FirstHand /\ Unrivalled
  BY DEF WriterInv
<1>b. /\ Damctl \in Process /\ Nobody \notin Process /\ Damctl # Nobody
      /\ \A v \in Worker : v \in Process /\ v # Damctl
  BY DEF Apart, Process
<1>1. CASE Search!Reindex
  <2>1. /\ writer = Nobody /\ writer' = Damctl /\ Search!Goto(Damctl, "read")
        /\ reindexes' = reindexes + 1
        /\ UNCHANGED <<version, asked, doc, got, handed, raced>>
    BY <1>1 DEF Search!Reindex
  <2>2. /\ step' \in [Process -> RefreshSteps]
        /\ step'[Damctl] = "read" /\ \A q \in Process \ {Damctl} : step'[q] = step[q]
    BY <1>a, <1>b, <2>1, OneMoves DEF RefreshSteps
  <2>3. RefreshTypes' /\ RowIsNewest'
    BY <1>a, <1>b, <2>1, <2>2 DEF RefreshTypes, RowIsNewest
  <2>4. Locked'
    BY <1>a, <1>b, <2>1, <2>2 DEF Locked, RefreshTypes
  <2>5. FirstHand'
    BY <1>a, <1>b, <2>1 DEF FirstHand, RefreshTypes
  <2>6. Unrivalled'
    BY <1>a, <1>b, <2>1, <2>2 DEF Unrivalled, RefreshTypes
  <2> QED BY <2>3, <2>4, <2>5, <2>6 DEF WriterInv
<1>2. CASE Search!Reindexed
  <2>1. /\ writer' = Nobody /\ handed' = TRUE /\ Search!Goto(Damctl, "idle")
        /\ doc' \in {doc, got[Damctl]} /\ step[Damctl] = "write"
        /\ UNCHANGED <<version, asked, got, reindexes, raced>>
    BY <1>2 DEF Search!Reindexed
  <2>2. /\ step' \in [Process -> RefreshSteps]
        /\ step'[Damctl] = "idle" /\ \A q \in Process \ {Damctl} : step'[q] = step[q]
    BY <1>a, <1>b, <2>1, OneMoves DEF RefreshSteps
  <2>3. writer = Damctl /\ reindexes > 0
    BY <1>a, <2>1 DEF Locked
  <2>4. RefreshTypes' /\ RowIsNewest' /\ FirstHand'
    BY <1>a, <1>b, <2>1, <2>2 DEF RefreshTypes, RowIsNewest, FirstHand
  <2>5. Locked'
    BY <1>a, <1>b, <2>1, <2>2, <2>3 DEF Locked
  <2>6. Unrivalled'
    BY <1>a, <1>b, <2>1, <2>2, <2>3 DEF Unrivalled, RefreshTypes
  <2> QED BY <2>4, <2>5, <2>6 DEF WriterInv
<1> QED BY <1>1, <1>2

LEMMA WriterStep ==
  ASSUME Apart, WriterInv, [Search!Next]_(Search!vars)
  PROVE  WriterInv'
<1>1. Damctl \in Process /\ \A w \in Worker : w \in Process
  BY DEF Process
<1> QED BY <1>1, RowMoves, ReadMoves, WorkerMoves, ReindexMoves DEF Search!Next

\* The inductive invariant of the index's writer.
THEOREM WriterInvariance == Apart => (Search!Spec => []WriterInv)
<1>1. SUFFICES ASSUME Apart PROVE Search!Spec => []WriterInv
  OBVIOUS
<1>2. WriterInv /\ [Search!Next]_(Search!vars) => WriterInv'
  BY <1>1, WriterStep
<1>3. Search!Init => WriterInv
  BY <1>1, WriterInitially
<1> QED BY <1>2, <1>3, PTL DEF Search!Spec

\* The document goes back to an older row only where two runs overlapped, or one
\* and a reindex, and the writer changed hands between them.
THEOREM NeverGoesBackAlways == Apart => (Search!Spec => NeverGoesBack)
<1>1. SUFFICES ASSUME Apart PROVE Search!Spec => NeverGoesBack
  OBVIOUS
<1>2. ASSUME WriterInv, [Search!Next]_(Search!vars)
      PROVE  [doc' < doc => handed /\ (raced \/ reindexes > 0)]_(Search!vars)
  <2> SUFFICES ASSUME Search!Next, doc' < doc PROVE handed /\ (raced \/ reindexes > 0)
    BY <1>2
  <2>a. RefreshTypes /\ Locked /\ FirstHand /\ Unrivalled
    BY <1>2 DEF WriterInv
  <2>b. /\ Damctl \in Process /\ Damctl # Nobody
        /\ \A w \in Worker : w \in Process /\ w # Nobody
    BY <1>1 DEF Apart, Process
  <2>1. ASSUME NEW w \in Worker, Search!Write(w), doc' = got[w]
        PROVE  handed /\ (raced \/ reindexes > 0)
    <3>1. step[w] = "write" /\ writer = w
      BY <2>1, <2>a, <2>b DEF Search!Write, Locked
    <3>2. handed
      BY <2>1, <2>a, <2>b, <3>1 DEF FirstHand, RefreshTypes
    <3>3. raced \/ reindexes > 0
      BY <2>1, <2>a, <2>b, <3>1 DEF Unrivalled, RefreshTypes
    <3> QED BY <3>2, <3>3
  <2>2. CASE Search!Reindexed
    BY <2>2, <2>a, <2>b DEF Search!Reindexed, Locked, RefreshTypes
  <2>3. \/ doc' = doc
        \/ Search!Reindexed
        \/ \E w \in Worker : Search!Write(w) /\ doc' = got[w]
    BY ZenonT(60) DEF Search!Next, Search!Change, Search!Request, Search!Reindex, Search!Read, Search!Lapse,
       Search!Open, Search!Write, Search!Crash, Search!Evict, Search!Start, Search!Complete, Search!Fail
  <2>4. ~ (doc < doc)
    BY <2>a DEF RefreshTypes
  <2> QED BY <2>1, <2>2, <2>3, <2>4
<1> QED BY <1>1, <1>2, WriterInvariance, PTL DEF Search!Spec, NeverGoesBack, Search!NeverGoesBack

\* The jobs of one asset share its key, so that one at most is in flight.
OneAtATime ==
  /\ rowState \in [IndexJob -> {"absent", "queued", "running", "succeeded", "dead"}]
  /\ rowKey \in [IndexJob -> {K, NoKey}]
  /\ absorbed \in BOOLEAN /\ died \in BOOLEAN
  /\ \A j \in IndexJob : rowState[j] # "absent" => rowKey[j] = K
  /\ \A i, j \in IndexJob : Search!InFlight(i) /\ Search!InFlight(j) => i = j

\* A worker runs exactly when it has a job, its only one, which stays in flight
\* until it settles it.
HasItsJob ==
  /\ \A w \in Worker : step[w] # "idle" => \E j \in IndexJob : <<w, j>> \in rowWorking
  /\ \A w \in Worker, j \in IndexJob :
       <<w, j>> \in rowWorking =>
         /\ step[w] # "idle" /\ rowState[j] # "absent"
         /\ \A i \in IndexJob : <<w, i>> \in rowWorking => i = j
         /\ ~ raced /\ ~ died => Search!InFlight(j)

\* What the run in flight has read, and then written, is what was asked for.
ReadsAsked ==
  ~ raced /\ ~ died /\ ~ absorbed =>
    /\ (\A j \in IndexJob : ~ Search!InFlight(j)) => asked <= doc
    /\ \A w \in Worker : /\ step[w] \in {"open", "write"} => asked <= got[w]
                         /\ step[w] = "ok" => asked <= doc

AskedInv == OneAtATime /\ HasItsJob /\ ReadsAsked

LEMMA AskedInitially == Search!Init => AskedInv
<1> SUFFICES ASSUME Search!Init PROVE AskedInv
  OBVIOUS
<1>1. OneAtATime
  BY DEF Search!Init, Search!QueueInit, Search!RefreshInit, OneAtATime, Search!InFlight
<1>2. HasItsJob /\ ReadsAsked
  BY DEF Search!Init, Search!QueueInit, Search!RefreshInit, Search!Process, HasItsJob, ReadsAsked
<1> QED BY <1>1, <1>2 DEF AskedInv

\* A step that leaves the table alone, and every worker idle or running.
LEMMA QuietAsks ==
  ASSUME AskedInv,
         UNCHANGED <<rowState, rowKey, rowWorking, absorbed, raced, died>>,
         \A w \in Worker : step'[w] = "idle" <=> step[w] = "idle",
         ReadsAsked'
  PROVE  AskedInv'
BY DEF AskedInv, OneAtATime, HasItsJob, Search!InFlight

\* The row changes and the reindex goes on: what was written is not undone.
LEMMA OthersAsk ==
  ASSUME Apart, WriterInv, AskedInv,
         \/ Search!Change \/ Search!Read(Damctl) \/ Search!Reindex \/ Search!Reindexed
         \/ (\E w \in Worker : Search!Evict(w)) \/ UNCHANGED Search!vars
  PROVE  AskedInv'
<1>a. RefreshTypes /\ Locked /\ ReadsAsked
  BY DEF WriterInv, AskedInv
<1>b. Damctl \in Process /\ \A w \in Worker : w \in Process /\ w # Damctl
  BY DEF Apart, Process
<1>1. /\ UNCHANGED <<rowState, rowKey, rowWorking, absorbed, raced, died, asked>>
      /\ \/ step' = step
         \/ \E s \in {"idle", "read", "open", "write"} : step' = [step EXCEPT ![Damctl] = s]
      /\ \/ got' = got
         \/ got' = [got EXCEPT ![Damctl] = version]
      /\ \/ doc' = doc
         \/ doc' = got[Damctl] /\ step[Damctl] = "write"
  BY DEF Search!Change, Search!Read, Search!Reindex, Search!Reindexed, Search!Evict, Search!vars,
     Search!refreshVars, Search!queueVars, Search!Goto
<1>2. \A w \in Worker : step'[w] = step[w] /\ got'[w] = got[w]
  BY <1>a, <1>b, <1>1 DEF RefreshTypes
<1>3. doc' \in Nat /\ doc <= doc'
  BY <1>a, <1>b, <1>1 DEF RefreshTypes, Locked
<1>4. ReadsAsked'
  BY <1>a, <1>1, <1>2, <1>3 DEF ReadsAsked, RefreshTypes, Search!InFlight
<1> QED BY <1>1, <1>2, <1>4, QuietAsks

\* A run reads, opens and writes.
LEMMA RunAsks ==
  ASSUME Apart, WriterInv, AskedInv, NEW w \in Worker,
         Search!Read(w) \/ Search!Open(w) \/ Search!Write(w)
  PROVE  AskedInv'
<1>a. RefreshTypes /\ RowIsNewest /\ Unrivalled /\ ReadsAsked
  BY DEF WriterInv, AskedInv
<1>b. w \in Process /\ w # Damctl /\ \A v \in Worker : v \in Process
  BY DEF Apart, Process
<1>1. /\ UNCHANGED <<rowState, rowKey, rowWorking, absorbed, raced, died, asked>>
      /\ step[w] # "idle"
  BY DEF Search!Read, Search!Open, Search!Write, Search!queueVars
<1>2. PICK s \in {"open", "write", "transient", "ok"} : Search!Goto(w, s)
  BY <1>b DEF Search!Read, Search!Open, Search!BusyOutcome, Search!Write
<1>3. /\ step'[w] = s /\ \A v \in Worker \ {w} : step'[v] = step[v]
  BY <1>a, <1>b, <1>2, OneMoves DEF RefreshSteps
<1>4. \A v \in Worker \ {w} : got'[v] = got[v]
  BY <1>a, <1>b DEF Search!Read, Search!Open, Search!Write, RefreshTypes
<1>5. ReadsAsked'
  <2> SUFFICES ASSUME ~ raced, ~ died, ~ absorbed
               PROVE  /\ (\A j \in IndexJob : ~ Search!InFlight(j)') => asked <= doc'
                      /\ \A v \in Worker : /\ step'[v] \in {"open", "write"} => asked <= got'[v]
                                           /\ step'[v] = "ok" => asked <= doc'
    BY <1>1 DEF ReadsAsked
  <2>1. \A v \in Worker \ {w} : step'[v] = "idle"
    BY <1>a, <1>1, <1>3 DEF Unrivalled
  <2>2. CASE Search!Read(w)
    <3>1. doc' = doc /\ got'[w] = version /\ s # "ok"
      BY <1>a, <1>b, <1>2, <1>3, <2>2 DEF Search!Read, Search!Goto, RefreshTypes
    <3> QED BY <1>a, <1>1, <1>3, <2>1, <3>1 DEF ReadsAsked, RowIsNewest, Search!InFlight
  <2>3. CASE Search!Open(w)
    <3>1. doc' = doc /\ got' = got /\ step[w] = "open" /\ s # "ok"
      BY <1>a, <1>b, <1>3, <2>3 DEF Search!Open, Search!BusyOutcome, Search!Goto, RefreshTypes
    <3> QED BY <1>a, <1>1, <1>3, <2>1, <3>1 DEF ReadsAsked, Search!InFlight
  <2>4. CASE Search!Write(w)
    <3>1. /\ got' = got /\ step[w] = "write" /\ s \in {"ok", "transient"}
          /\ doc' = got[w] \/ (doc' = doc /\ s = "transient")
      BY <1>a, <1>b, <1>3, <2>4 DEF Search!Write, Search!Goto, RefreshTypes
    <3> QED BY <1>a, <1>1, <1>3, <2>1, <3>1 DEF ReadsAsked, Search!InFlight
  <2> QED BY <2>2, <2>3, <2>4
<1> QED BY <1>1, <1>3, <1>5, QuietAsks

\* A request, answered with a new job or with the one in flight.
LEMMA RequestAsks ==
  ASSUME K # NoKey, AskedInv, Search!Request
  PROVE  AskedInv'
<1>a. OneAtATime /\ HasItsJob /\ ReadsAsked
  BY DEF AskedInv
<1>b. UNCHANGED <<doc, step, got, raced, died, rowWorking>> /\ asked' = version
  BY DEF Search!Request, Search!Enqueue, Search!queueVars
<1>1. ASSUME NEW j \in IndexJob, Search!Enqueue(j, K), absorbed' = absorbed PROVE AskedInv'
  <2>1. \A i \in IndexJob : ~ Search!InFlight(i)
    BY <1>1, <1>a DEF Search!Enqueue, Search!Conflicts, Search!InFlight, OneAtATime
  <2>2. /\ rowState' = [rowState EXCEPT ![j] = "queued"] /\ rowKey' = [rowKey EXCEPT ![j] = K]
        /\ rowState[j] = "absent"
    BY <1>1 DEF Search!Enqueue
  <2>3. /\ rowState' \in [IndexJob -> {"absent", "queued", "running", "succeeded", "dead"}]
        /\ rowKey' \in [IndexJob -> {K, NoKey}]
        /\ \A i \in IndexJob : rowState'[i] # "absent" => rowKey'[i] = K
        /\ \A i \in IndexJob : Search!InFlight(i)' <=> i = j
        /\ \A i \in IndexJob : rowState[i] # "absent" => rowState'[i] # "absent"
    BY <1>a, <2>1, <2>2 DEF OneAtATime, Search!InFlight
  <2>4. OneAtATime'
    BY <1>1, <1>a, <1>b, <2>3 DEF OneAtATime
  <2>5. ~ raced /\ ~ died => \A w \in Worker : step[w] = "idle"
    BY <1>a, <2>1 DEF HasItsJob
  <2>6. HasItsJob'
    BY <1>a, <1>b, <2>3, <2>5 DEF HasItsJob
  <2>7. ReadsAsked'
    BY <1>b, <2>3, <2>5 DEF ReadsAsked
  <2> QED BY <2>4, <2>6, <2>7 DEF AskedInv
<1>2. ASSUME NEW j \in IndexJob, Search!InFlight(j), UNCHANGED <<rowState, rowKey>>,
             absorbed' = (absorbed \/ \E w \in Worker : <<w, j>> \in rowWorking)
      PROVE  AskedInv'
  <2>1. OneAtATime' /\ HasItsJob'
    BY <1>2, <1>a, <1>b DEF OneAtATime, HasItsJob, Search!InFlight
  <2>2. ~ raced /\ ~ died /\ ~ absorbed' => \A w \in Worker : step[w] = "idle"
    BY <1>2, <1>a DEF HasItsJob, OneAtATime
  <2>3. ReadsAsked'
    BY <1>2, <1>b, <2>2 DEF ReadsAsked, Search!InFlight
  <2> QED BY <2>1, <2>3 DEF AskedInv
<1> QED
  BY <1>1, <1>2 DEF Search!Request, Search!Absent, Search!InFlight, Search!queueVars

\* A job is handed out, taken back, settled or forgotten.
LEMMA TableAsks ==
  ASSUME Apart, K # NoKey, WriterInv, AskedInv,
         \/ \E j \in IndexJob : Search!Lapse(j)
         \/ \E w \in Worker :
              \/ Search!Crash(w)
              \/ \E j \in IndexJob : Search!Start(w, j) \/ Search!Complete(w, j) \/ Search!Fail(w, j)
  PROVE  AskedInv'
<1>a. OneAtATime /\ HasItsJob /\ ReadsAsked /\ RefreshTypes /\ Unrivalled
  BY DEF AskedInv, WriterInv
<1>b. \A w \in Worker : w \in Process
  BY DEF Process
<1>1. ASSUME NEW j \in IndexJob, Search!Lapse(j) PROVE AskedInv'
  <2>1. /\ rowState[j] = "running" /\ rowState'[j] \in {"queued", "dead"}
        /\ \A i \in IndexJob \ {j} : rowState'[i] = rowState[i]
        /\ rowState' \in [IndexJob -> {"absent", "queued", "running", "succeeded", "dead"}]
        /\ UNCHANGED <<rowKey, rowWorking, asked, doc, step, got, absorbed, raced>>
    BY <1>1, <1>a DEF Search!Lapse, Search!TakeBack, OneAtATime
  <2>2. died' \in BOOLEAN /\ (~ died' => ~ died /\ rowState'[j] = "queued")
    BY <1>1, <1>a, <2>1 DEF Search!Lapse, OneAtATime
  <2>3. OneAtATime'
    BY <1>a, <2>1, <2>2 DEF OneAtATime, Search!InFlight
  <2>4. HasItsJob'
    BY <1>a, <2>1, <2>2 DEF HasItsJob, Search!InFlight
  <2>5. ReadsAsked'
    BY <1>a, <2>1, <2>2 DEF ReadsAsked, Search!InFlight
  <2> QED BY <2>3, <2>4, <2>5 DEF AskedInv
<1>2. ASSUME NEW w \in Worker, NEW j \in IndexJob, Search!Start(w, j) PROVE AskedInv'
  <2>1. /\ rowState[j] = "queued" /\ rowState'[j] = "running"
        /\ \A i \in IndexJob \ {j} : rowState'[i] = rowState[i]
        /\ rowState' \in [IndexJob -> {"absent", "queued", "running", "succeeded", "dead"}]
        /\ UNCHANGED <<rowKey, asked, doc, got, absorbed, died>>
    BY <1>2, <1>a DEF Search!Start, Search!Deliver, OneAtATime
  <2>2. /\ <<w, j>> \in rowWorking' /\ \A i \in IndexJob : <<w, i>> \in rowWorking' => i = j
        /\ \A v \in Worker, i \in IndexJob : v # w => (<<v, i>> \in rowWorking' <=> <<v, i>> \in rowWorking)
    BY <1>2 DEF Search!Start, Search!Deliver
  <2>3. ~ raced' => ~ raced /\ \A v \in Worker : step[v] = "idle"
    BY <1>2, <1>a DEF Search!Start, RefreshTypes
  <2>4. step'[w] = "read" /\ \A v \in Worker \ {w} : step'[v] = step[v]
    BY <1>2, <1>a, <1>b, OneMoves DEF Search!Start, RefreshSteps
  <2>5. OneAtATime'
    BY <1>a, <2>1 DEF OneAtATime, Search!InFlight
  <2>6. HasItsJob'
    <3>1. \A v \in Worker : step'[v] # "idle" => \E i \in IndexJob : <<v, i>> \in rowWorking'
      BY <1>a, <2>2, <2>4 DEF HasItsJob
    <3>2. ASSUME NEW v \in Worker, NEW i \in IndexJob, <<v, i>> \in rowWorking', v # w
          PROVE  /\ step'[v] # "idle" /\ rowState'[i] # "absent" /\ raced'
                 /\ \A h \in IndexJob : <<v, h>> \in rowWorking' => h = i
      BY <3>2, <1>a, <2>1, <2>2, <2>3, <2>4 DEF HasItsJob
    <3> QED BY <2>1, <2>2, <2>4, <3>1, <3>2 DEF HasItsJob, Search!InFlight
  <2>7. ReadsAsked'
    BY <1>a, <2>1, <2>3, <2>4 DEF ReadsAsked, Search!InFlight
  <2> QED BY <2>5, <2>6, <2>7 DEF AskedInv
<1>3. ASSUME NEW w \in Worker, Search!Crash(w) PROVE AskedInv'
  <2>1. UNCHANGED <<rowState, rowKey, asked, doc, got, absorbed, raced, died>>
    BY <1>3 DEF Search!Crash, Search!Forget
  <2>2. /\ \A i \in IndexJob : <<w, i>> \notin rowWorking'
        /\ \A v \in Worker, i \in IndexJob : v # w => (<<v, i>> \in rowWorking' <=> <<v, i>> \in rowWorking)
    BY <1>3 DEF Search!Crash, Search!Forget
  <2>3. step'[w] = "idle" /\ \A v \in Worker \ {w} : step'[v] = step[v]
    BY <1>3, <1>a, <1>b, OneMoves DEF Search!Crash, RefreshSteps
  <2>4. OneAtATime' /\ HasItsJob'
    BY <1>a, <2>1, <2>2, <2>3 DEF OneAtATime, HasItsJob, Search!InFlight
  <2>5. ReadsAsked'
    BY <1>a, <2>1, <2>3 DEF ReadsAsked, Search!InFlight
  <2> QED BY <2>4, <2>5 DEF AskedInv
<1>4. ASSUME NEW w \in Worker, NEW j \in IndexJob, Search!Complete(w, j) \/ Search!Fail(w, j)
      PROVE  AskedInv'
  <2>1. /\ <<w, j>> \in rowWorking /\ <<w, j>> \notin rowWorking'
        /\ \A v \in Worker, i \in IndexJob : v # w => (<<v, i>> \in rowWorking' <=> <<v, i>> \in rowWorking)
        /\ \A i \in IndexJob : <<w, i>> \in rowWorking' => <<w, i>> \in rowWorking
    BY <1>4 DEF Search!Complete, Search!Fail, Search!Settle, Search!Forget
  <2>2. \A i \in IndexJob : <<w, i>> \notin rowWorking'
    BY <1>a, <2>1 DEF HasItsJob
  <2>3. UNCHANGED <<rowKey, asked, doc, got, absorbed, raced>>
    BY <1>4 DEF Search!Complete, Search!Fail, Search!Settle, Search!Forget
  <2>4. step'[w] = "idle" /\ \A v \in Worker \ {w} : step'[v] = step[v]
    BY <1>4, <1>a, <1>b, OneMoves DEF Search!Complete, Search!Fail, RefreshSteps
  <2>5. /\ rowState' \in [IndexJob -> {"absent", "queued", "running", "succeeded", "dead"}]
        /\ rowState'[j] # "absent" /\ \A i \in IndexJob \ {j} : rowState'[i] = rowState[i]
    BY <1>4, <1>a, <2>1 DEF Search!Complete, Search!Fail, Search!Settle, Search!Forget, OneAtATime,
       HasItsJob
  <2>5a. died' \in BOOLEAN /\ (~ died' => ~ died)
    BY <1>4, <1>a DEF Search!Complete, Search!Fail, OneAtATime
  <2>6. \/ step[w] = "ok" /\ ~ Search!InFlight(j)'
        \/ died' /\ ~ Search!InFlight(j)'
        \/ Search!InFlight(j)' /\ ~ Search!Conflicts(j, rowKey[j])
        \/ rowState' = rowState /\ Search!Conflicts(j, rowKey[j])
    BY <1>4, <1>a, <2>1 DEF Search!Complete, Search!Fail, Search!Settle, Search!Forget, OneAtATime,
       Search!InFlight
  <2>7. OneAtATime'
    <3>1. rowKey[j] = K
      BY <1>a, <2>1 DEF OneAtATime, HasItsJob
    <3> QED
      BY <1>a, <2>3, <2>5, <2>5a, <2>6, <3>1 DEF OneAtATime, Search!Conflicts, Search!InFlight
  <2>8. HasItsJob'
    <3>1. ASSUME ~ raced, ~ died', NEW v \in Worker, NEW i \in IndexJob, <<v, i>> \in rowWorking'
          PROVE  FALSE
      BY <3>1, <1>a, <2>1, <2>2, <2>5, <2>5a DEF HasItsJob, Unrivalled
    <3> QED BY <1>a, <2>1, <2>2, <2>3, <2>4, <2>5, <2>5a, <3>1 DEF HasItsJob
  <2>9. ReadsAsked'
    BY <1>a, <2>3, <2>4, <2>5, <2>5a, <2>6 DEF ReadsAsked, Search!Conflicts, Search!InFlight
  <2> QED BY <2>7, <2>8, <2>9 DEF AskedInv
<1> QED BY <1>1, <1>2, <1>3, <1>4

LEMMA AskedStep ==
  ASSUME Apart, K # NoKey, WriterInv, AskedInv, [Search!Next]_(Search!vars)
  PROVE  AskedInv'
BY OthersAsk, RunAsks, RequestAsks, TableAsks DEF Search!Next

\* Whenever no index job is in flight, search shows at least what the row was when
\* a job was last asked for, unless a request was answered with a job a worker
\* already had, a job was given up on, or two workers ran it at once.
THEOREM AskedIsIndexedAlways == Apart /\ K # NoKey => (Search!Spec => []AskedIsIndexed)
<1>1. SUFFICES ASSUME Apart, K # NoKey PROVE Search!Spec => []AskedIsIndexed
  OBVIOUS
<1>2. WriterInv /\ AskedInv /\ [Search!Next]_(Search!vars) => AskedInv'
  BY <1>1, AskedStep
<1>3. WriterInv /\ AskedInv => AskedIsIndexed
  BY DEF WriterInv, RefreshTypes, AskedInv, ReadsAsked, AskedIsIndexed,
     Search!AskedIsIndexed, Search!InFlight
<1> QED BY <1>1, <1>2, <1>3, AskedInitially, WriterInvariance, PTL DEF Search!Spec

----------------------------------------------------------------------------
(* BulkOperation.                                                          *)

USE DEF row

ItemsIn(s) == {a \in Asset : item[a] = s}

\* A set of assets can be counted, and is counted as empty only if it is.
LEMMA Counting ==
  ASSUME NEW S \in SUBSET Asset
  PROVE  /\ IsFiniteSet(S)
         /\ Cardinality(S) \in 0..Assets
         /\ Cardinality(S) = 0 <=> S = {}
<1>1. IsFiniteSet(Asset) /\ Cardinality(Asset) = Assets
  BY BulkAssumption, FS_Interval DEF Asset
<1>2. IsFiniteSet(S) /\ Cardinality(S) <= Assets
  BY <1>1, FS_Subset
<1>3. QED
  BY <1>2, FS_CardinalityType, FS_EmptySet, BulkAssumption

\* Applying to one asset keeps the counters, the record and the types: an
\* outcome is counted exactly when it is the item's first.
LEMMA ApplyStep ==
  ASSUME IndInv, NEW w \in Worker, NEW a \in Asset, Apply(w, a)
  PROVE  IndInv'
<1> USE DEF IndInv, TypeOK, ItemState
<1> DEFINE o == Outcome(a)
<1>1. item[a] = "pending" => o = fate[a]
  BY DEF Outcome, ChangeIsRecorded
<1>2. o \in {"done", "skipped", "failed"}
  BY DEF Outcome
<1>3. /\ item' = IF item[a] = "pending" THEN [item EXCEPT ![a] = o] ELSE item
      /\ done' = IF item[a] = "pending" /\ o = "done" THEN done + 1 ELSE done
      /\ failed' = IF item[a] = "pending" /\ o = "failed" THEN failed + 1 ELSE failed
      /\ changed' = IF o = "done" THEN changed \cup {a} ELSE changed
      /\ UNCHANGED <<kind, fate, op, indexed>>
      /\ run' = [run EXCEPT ![w].batch = @ \ {a},
                            ![w].touched = IF o = "done" THEN @ \cup {a} ELSE @]
  BY DEF Apply, Counted, Changes
<1>4. item' \in [Asset -> ItemState]
  BY <1>2, <1>3
<1>5. FirstOutcomeStays'
  BY <1>1, <1>3 DEF FirstOutcomeStays
<1>6. o = "done" => fate[a] = "done"
  BY DEF Outcome
<1>7. ChangeIsRecorded'
  BY <1>1, <1>3, <1>6 DEF ChangeIsRecorded, FirstOutcomeStays
<1>8. ASSUME NEW s \in {"done", "failed"}
      PROVE  Cardinality(ItemsIn(s)') =
               IF item[a] = "pending" /\ o = s THEN Cardinality(ItemsIn(s)) + 1
                                               ELSE Cardinality(ItemsIn(s))
  <2>1. CASE item[a] = "pending" /\ o = s
    <3>1. ItemsIn(s)' = ItemsIn(s) \cup {a} /\ a \notin ItemsIn(s)
      BY <1>3, <2>1 DEF ItemsIn
    <3>2. IsFiniteSet(ItemsIn(s))
      BY Counting DEF ItemsIn
    <3>3. QED
      BY ZenonT(60), <2>1, <3>1, <3>2, FS_AddElement
  <2>2. CASE ~ (item[a] = "pending" /\ o = s)
    <3>1. ItemsIn(s)' = ItemsIn(s)
      BY <1>3, <2>2 DEF ItemsIn
    <3>2. QED
      BY <2>2, <3>1
  <2>3. QED
    BY <2>1, <2>2
<1>9. CountersMatch'
  BY <1>3, <1>8 DEF CountersMatch, ItemsIn
<1>10. done' \in 0..Assets /\ failed' \in 0..Assets
  <2>1. ItemsIn("done")' \in SUBSET Asset /\ ItemsIn("failed")' \in SUBSET Asset
    BY DEF ItemsIn
  <2>2. QED
    BY <1>9, <2>1, Counting DEF CountersMatch, ItemsIn
<1>11. run' \in [Worker -> RunState]
  <2> HIDE DEF o
  <2>1. run \in [Worker -> RunState]
    OBVIOUS
  <2>2. QED
    BY ONLY ZenonT(60), <2>1, <1>3 DEF RunState
<1>12. TypeOK'
  BY <1>3, <1>4, <1>10, <1>11
<1>13. RunCoherent'
  BY <1>2, <1>3 DEF RunCoherent, Pending
<1>14. TerminalIsHonest'
  BY <1>2, <1>3 DEF TerminalIsHonest, Terminal, Pending
<1>15. QED
  BY <1>5, <1>7, <1>9, <1>12, <1>13, <1>14

\* Finishing draws its verdict from counters that agree with the items, when
\* none is pending.
LEMMA FinishStep ==
  ASSUME IndInv, NEW w \in Worker, Finish(w)
  PROVE  IndInv'
<1> USE DEF IndInv, TypeOK, ItemState, RunState, Finish, Goto
<1>1. TypeOK'
  BY DEF Verdict
<1>2. CountersMatch' /\ ChangeIsRecorded' /\ FirstOutcomeStays'
  BY DEF CountersMatch, ChangeIsRecorded, FirstOutcomeStays
<1>3. RunCoherent'
  BY DEF RunCoherent, Pending
<1>4. Pending = {}
  BY DEF RunCoherent
<1>5. /\ done = 0 <=> \A a \in Asset : item[a] # "done"
      /\ failed = 0 <=> \A a \in Asset : item[a] # "failed"
  <2>1. /\ {a \in Asset : item[a] = "done"} \in SUBSET Asset
        /\ {a \in Asset : item[a] = "failed"} \in SUBSET Asset
    OBVIOUS
  <2>2. /\ done = 0 <=> {a \in Asset : item[a] = "done"} = {}
        /\ failed = 0 <=> {a \in Asset : item[a] = "failed"} = {}
    BY <2>1, Counting DEF CountersMatch
  <2>3. QED
    BY <2>2
<1>6. TerminalIsHonest'
  <2>1. CASE op \in {"running", "queued"}
    BY <1>4, <1>5, <2>1 DEF TerminalIsHonest, Terminal, Pending, Verdict
  <2>2. CASE op \notin {"running", "queued"}
    BY <2>2 DEF TerminalIsHonest, Terminal, Pending
  <2>3. QED
    BY <2>1, <2>2
<1>7. QED
  BY <1>1, <1>2, <1>3, <1>6

\* Of the remaining steps, only Begin writes the operation's row.
LEMMA OtherStep ==
  ASSUME IndInv, UNCHANGED <<kind, fate, item, done, failed, changed>>,
         op' = op \/ (op = "queued" /\ op' = "running"),
         indexed' \subseteq changed,
         run' \in [Worker -> RunState],
         \A w \in Worker : /\ run'[w].touched \subseteq changed
                           /\ run'[w].step = "finish" => Pending = {}
  PROVE  IndInv'
<1>1. TypeOK'
  BY DEF IndInv, TypeOK
<1>2. CountersMatch' /\ ChangeIsRecorded' /\ FirstOutcomeStays' /\ RunCoherent'
  BY DEF IndInv, CountersMatch, ChangeIsRecorded, FirstOutcomeStays, RunCoherent, Pending
<1>3. TerminalIsHonest'
  BY DEF IndInv, TerminalIsHonest, Terminal, Pending
<1>4. QED
  BY <1>1, <1>2, <1>3 DEF IndInv

\* A page is empty only when nothing is pending: the first pending item is in it.
LEMMA EmptyPage ==
  ASSUME NEW S \in SUBSET Asset, Least(S, BATCH) = {}
  PROVE  S = {}
<1> DEFINE R == OpToRel(<, Nat)
<1>1. SUFFICES ASSUME S # {} PROVE FALSE
  OBVIOUS
<1>2. S \subseteq Nat
  BY DEF Asset
<1>3. PICK x \in S : \A y \in S : <<y, x>> \notin R
  <2> HIDE DEF R
  <2>1. IsWellFoundedOn(R, Nat)
    BY NatLessThanWellFounded DEF R
  <2>2. QED
    BY <1>1, <1>2, <2>1, WFMin
<1>4. \A y \in S : ~ (y < x)
  BY <1>2, <1>3 DEF OpToRel
<1>5. {b \in S : b < x} = {}
  BY <1>4
<1>6. x \in Least(S, BATCH)
  BY <1>5, FS_EmptySet, BulkAssumption DEF Least
<1>7. QED
  BY <1>6

\* The steps that leave the items alone and draw no verdict: the request, the
\* queue's own, and the rest of the handler's.
LEMMA QuietSteps ==
  ASSUME IndInv,
         \/ \E j \in Job : Submit(j) \/ Lapse(j)
         \/ \E w \in Worker : \/ Begin(w) \/ NextBatch(w) \/ Index(w) \/ Fail(w) \/ Crash(w)
                              \/ \E j \in Job : Start(w, j) \/ Renew(w, j) \/ SettleJob(w, j)
         \/ UNCHANGED vars
  PROVE  IndInv'
<1>0. /\ run \in [Worker -> RunState] /\ indexed \subseteq changed
      /\ \A u \in Worker : run[u].touched \subseteq changed /\ (run[u].step = "finish" => Pending = {})
      /\ Idle \in RunState /\ Idle.touched = {} /\ Idle.step = "none"
  BY DEF IndInv, TypeOK, RunCoherent, RunState, Idle
<1>1. ASSUME NEW j \in Job, Submit(j) \/ Lapse(j) PROVE IndInv'
  BY <1>0, <1>1, OtherStep DEF Submit, Lapse
<1>2. ASSUME NEW w \in Worker, NEW s \in {"next", "transient", "ok"}, Goto(w, s),
             UNCHANGED <<kind, fate, item, done, failed, changed>>,
             indexed' \subseteq changed,
             op' = op \/ (op = "queued" /\ op' = "running")
      PROVE  IndInv'
  <2>1. run' \in [Worker -> RunState]
    BY <1>0, <1>2 DEF Goto, RunState
  <2>2. \A u \in Worker : run'[u].touched \subseteq changed /\ (run'[u].step = "finish" => Pending = {})
    BY <1>0, <1>2 DEF Goto, RunState
  <2>3. QED
    BY <1>2, <2>1, <2>2, OtherStep
<1>3. ASSUME NEW w \in Worker, NEW r \in RunState, run' = [run EXCEPT ![w] = r],
             r.touched \subseteq changed, r.step = "finish" => Pending = {},
             UNCHANGED <<row, indexed>>
      PROVE  IndInv'
  <2>1. run' \in [Worker -> RunState]
    BY <1>0, <1>3
  <2>2. \A u \in Worker : run'[u].touched \subseteq changed /\ (run'[u].step = "finish" => Pending = {})
    BY <1>0, <1>3
  <2>3. QED
    BY <1>0, <1>3, <2>1, <2>2, OtherStep
<1>4. ASSUME NEW w \in Worker, Begin(w) \/ Fail(w) PROVE IndInv'
  BY <1>0, <1>2, <1>4 DEF Begin, Fail
<1>5. ASSUME NEW w \in Worker, NextBatch(w) PROVE IndInv'
  <2> DEFINE b == Least(Pending, BATCH)
  <2>1. b \in SUBSET Asset /\ (b = {} => Pending = {})
    BY EmptyPage DEF Least, Pending
  <2>2. [run[w] EXCEPT !.batch = b, !.step = NextStep(b)] \in RunState
    BY <1>0, <2>1 DEF RunState, NextStep
  <2>3. run' = [run EXCEPT ![w] = [run[w] EXCEPT !.batch = b, !.step = NextStep(b)]]
    BY <1>0, <1>5 DEF NextBatch, RunState
  <2>4. UNCHANGED <<row, indexed>>
    BY <1>5 DEF NextBatch
  <2> HIDE DEF b
  <2>5. QED
    BY ZenonT(60), <1>0, <1>3, <2>1, <2>2, <2>3, <2>4 DEF NextStep, RunState
<1>6. ASSUME NEW w \in Worker, Index(w) PROVE IndInv'
  <2>1. CASE run[w].touched = {}
    BY <1>0, <1>2, <1>6, <2>1 DEF Index
  <2>2. CASE run[w].touched # {}
    <3>1. PICK a \in run[w].touched : /\ indexed' = indexed \cup {a}
                                      /\ run' = [run EXCEPT ![w].touched = @ \ {a}]
      BY <1>6, <2>2 DEF Index
    <3>2. run' \in [Worker -> RunState]
      BY <1>0, <3>1 DEF RunState
    <3>3. \A u \in Worker : /\ run'[u].touched \subseteq changed
                            /\ run'[u].step = "finish" => Pending = {}
      BY <1>0, <3>1 DEF RunState
    <3>4. indexed' \subseteq changed /\ UNCHANGED row
      BY <1>0, <1>6, <3>1 DEF Index
    <3>5. QED
      BY <3>2, <3>3, <3>4, OtherStep
  <2>3. QED
    BY <2>1, <2>2
<1>7. ASSUME NEW w \in Worker, NEW j \in Job, Start(w, j) PROVE IndInv'
  <2> DEFINE r == [Idle EXCEPT !.step = IF Terminal THEN "ok" ELSE "start"]
  <2>1. r \in RunState /\ r.touched = {} /\ r.step # "finish"
    BY DEF Idle, RunState
  <2>2. run' = [run EXCEPT ![w] = r] /\ UNCHANGED <<row, indexed>>
    BY <1>7 DEF Start
  <2> HIDE DEF r
  <2>3. QED
    BY <1>3, <2>1, <2>2
<1>8. ASSUME NEW w \in Worker, NEW j \in Job, Renew(w, j) PROVE IndInv'
  BY <1>0, <1>2, <1>8 DEF Renew
<1>9. ASSUME NEW w \in Worker, Crash(w) \/ \E j \in Job : SettleJob(w, j) PROVE IndInv'
  BY <1>0, <1>3, <1>9 DEF Crash, SettleJob
<1>10. ASSUME UNCHANGED vars PROVE IndInv'
  BY <1>0, <1>10, OtherStep DEF vars
<1>11. QED
  BY <1>1, <1>4, <1>5, <1>6, <1>7, <1>8, <1>9, <1>10

\* Everything below, with what it takes to keep it: the counters, the items and
\* the changed assets agree in every state, through crashes and stale runs
\* (run and record_outcome in bulk_exec.rs and bulk.rs).
THEOREM BulkInvariance == Spec => []IndInv
<1>1. Init => IndInv
  <2>1. ASSUME Init PROVE IndInv
    <3>1. /\ {a \in Asset : item[a] = "done"} = {} /\ {a \in Asset : item[a] = "failed"} = {}
          /\ changed = {} /\ done = 0 /\ failed = 0
      BY <2>1 DEF Init
    <3>2. CountersMatch
      BY <3>1, FS_EmptySet DEF CountersMatch
    <3>3. ChangeIsRecorded
      BY <3>1 DEF ChangeIsRecorded
    <3>4. TypeOK
      BY <2>1, BulkAssumption DEF Init, TypeOK, ItemState, RunState, Idle
    <3>5. FirstOutcomeStays /\ RunCoherent /\ TerminalIsHonest
      BY <2>1 DEF Init, FirstOutcomeStays, RunCoherent, TerminalIsHonest, Terminal, Idle
    <3>6. QED
      BY <3>2, <3>3, <3>4, <3>5 DEF IndInv
  <2>2. QED
    BY <2>1
<1>2. IndInv /\ [Next]_vars => IndInv'
  <2>1. ASSUME IndInv, [Next]_vars PROVE IndInv'
    <3>1. CASE \E w \in Worker : (\E a \in Asset : Apply(w, a)) \/ Finish(w)
      BY <2>1, <3>1, ApplyStep, FinishStep
    <3>2. CASE ~ \E w \in Worker : (\E a \in Asset : Apply(w, a)) \/ Finish(w)
      BY <2>1, <3>2, QuietSteps DEF Next, Handle
    <3>3. QED
      BY <3>1, <3>2
  <2>2. QED
    BY <2>1
<1>3. QED
  BY <1>1, <1>2, PTL DEF Spec

\* Counters that count each item's first outcome (record_outcome's "a transition
\* that actually happened") agree with the items, however runs overlap.
THEOREM CountsAgree == Spec => []CountersMatch
<1>1. IndInv => CountersMatch
  BY DEF IndInv
<1>2. QED
  BY <1>1, BulkInvariance, PTL

\* A terminal state is written only over items that are all settled, and says
\* what became of them (finish_on).
THEOREM VerdictIsHonest == Spec => []TerminalIsHonest
<1>1. IndInv => TerminalIsHonest
  BY DEF IndInv
<1>2. QED
  BY <1>1, BulkInvariance, PTL

\* An asset is changed exactly when its item says done (the item transaction
\* of run).
THEOREM ChangesRecorded == Spec => []ChangeIsRecorded
<1>1. IndInv => ChangeIsRecorded
  BY DEF IndInv
<1>2. QED
  BY <1>1, BulkInvariance, PTL

----------------------------------------------------------------------------
(* Taxonomy.                                                               *)

\* There are finitely many terms, and none of them is no term.
Vocabulary == IsFiniteSet(Term) /\ NoTerm \notin Term

\* Induction, with a set for what holds of a number.
LEMMA CountingUp ==
  ASSUME NEW P, 0 \in P, \A n \in Nat : n \in P => n + 1 \in P
  PROVE  Nat \subseteq P
<1> SUFFICES ASSUME Nat \ P # {} PROVE FALSE
  OBVIOUS
<1>1. PICK k \in Nat \ P : \A m \in Nat \ P : ~ (<<m, k>> \in OpToRel(<, Nat))
  BY NatLessThanWellFounded, WFMin, Zenon
<1>a. k \in Nat /\ k \notin P
  BY <1>1, Zenon
<1>2. k # 0 /\ k - 1 \in Nat
  BY <1>a
<1>3. CASE k - 1 \in P
  <2>1. (k - 1) + 1 = k
    BY <1>a
  <2> QED BY <1>2, <1>3, <1>a, <2>1
<1>4. CASE k - 1 \notin P
  <2>1. k - 1 \in Nat \ P /\ k - 1 < k
    BY <1>a, <1>2, <1>4
  <2> QED BY <1>1, <1>a, <2>1 DEF OpToRel
<1> QED BY <1>3, <1>4

\* One hop more, where m is what superseded_by is.
Further(m, S) == S \cup ({m[u] : u \in S} \ {NoTerm})

Hops(m, t, n) == CHOOSE hop : hop = [i \in 0 .. n |->
  IF i = 0 THEN {t} ELSE hop[i - 1] \cup ({m[u] : u \in hop[i - 1]} \ {NoTerm})]

Leads(m, t) == Hops(m, t, Cardinality(Term))[Cardinality(Term)]

LEMMA ReachLeads ==
  ASSUME NEW t
  PROVE  Terms!Reach(t) = Leads(into, t) /\ Terms!Reach(t)' = Leads(into', t)
BY DEF Terms!Reach, Leads, Hops, Terms!Cardinality, Cardinality

LEMMA HopsAre ==
  ASSUME NEW m, NEW t, NEW n \in Nat
  PROVE  /\ Hops(m, t, n)[0] = {t}
         /\ \A i \in 1 .. n : Hops(m, t, n)[i] = Further(m, Hops(m, t, n)[i - 1])
<1> DEFINE Goes(h, k) == h = [i \in 0 .. k |-> IF i = 0 THEN {t} ELSE Further(m, h[i - 1])]
           P == {k \in Nat : \E h : Goes(h, k)}
<1>1. 0 \in P
  <2>1. Goes([i \in 0 .. 0 |-> {t}], 0)
    OBVIOUS
  <2> QED BY <2>1
<1>2. ASSUME NEW k \in Nat, k \in P PROVE k + 1 \in P
  <2>1. PICK h : Goes(h, k)
    BY <1>2
  <2> DEFINE g == [i \in 0 .. (k + 1) |-> IF i = k + 1 THEN Further(m, h[k]) ELSE h[i]]
  <2>2. \A i \in 0 .. k : h[i] = IF i = 0 THEN {t} ELSE Further(m, h[i - 1])
    BY <2>1
  <2>3. \A i \in 0 .. (k + 1) : g[i] = IF i = 0 THEN {t} ELSE Further(m, g[i - 1])
    <3> TAKE i \in 0 .. (k + 1)
    <3>1. CASE i = k + 1
      BY <2>2, <3>1
    <3>2. CASE i # k + 1
      <4>1. i \in 0 .. k /\ (i # 0 => i - 1 \in 0 .. k /\ i - 1 # k + 1)
        BY <3>2
      <4>2. g[i] = h[i] /\ (i # 0 => g[i - 1] = h[i - 1])
        BY <3>2, <4>1
      <4> QED BY <2>2, <4>1, <4>2
    <3> QED BY <3>1, <3>2
  <2>4. Goes(g, k + 1)
    BY <2>3
  <2> HIDE DEF Goes, g
  <2> QED BY <2>4
<1>3. PICK h : Goes(h, n)
  <2> HIDE DEF P
  <2>1. n \in P
    BY <1>1, <1>2, CountingUp
  <2> QED BY <2>1 DEF P
<1> DEFINE H == Hops(m, t, n)
<1>4. Goes(H, n)
  BY <1>3 DEF Hops, Further
<1> HIDE DEF H
<1>5. H[0] = {t} /\ \A i \in 1 .. n : H[i] = Further(m, H[i - 1])
  BY <1>4
<1> QED BY <1>5 DEF H

Closed(m, S) == S \subseteq Term /\ \A u \in S : m[u] # NoTerm => m[u] \in S

Links == [Term -> Term \cup {NoTerm}]

\* Where a term leads is the least set that has it and goes along.
LEMMA LeadsIs ==
  ASSUME Vocabulary, NEW m \in Links, NEW t \in Term
  PROVE  /\ t \in Leads(m, t) /\ Closed(m, Leads(m, t))
         /\ \A S : t \in S /\ Closed(m, S) => Leads(m, t) \subseteq S
<1> DEFINE N == Cardinality(Term)
           H == Hops(m, t, N)
           Fine(S, n) ==
             /\ t \in S /\ S \subseteq Term
             /\ \A C : t \in C /\ Closed(m, C) => S \subseteq C
             /\ Closed(m, S) \/ Cardinality(S) > n
           P == {n \in Nat : n <= N => Fine(H[n], n)}
<1>1. N \in Nat
  BY FS_CardinalityType DEF Vocabulary
<1>2. H[0] = {t} /\ \A i \in 1 .. N : H[i] = Further(m, H[i - 1])
  BY <1>1, HopsAre
<1> HIDE DEF H, N
<1>3. 0 \in P
  <2>1. Cardinality({t}) = 1
    BY FS_Singleton
  <2> QED BY <1>2, <2>1
<1>4. ASSUME NEW n \in Nat, n \in P PROVE n + 1 \in P
  <2> SUFFICES ASSUME n + 1 <= N PROVE Fine(H[n + 1], n + 1)
    OBVIOUS
  <2> DEFINE S == H[n]
             T == H[n + 1]
  <2>1. Fine(S, n)
    BY <1>1, <1>4
  <2>2. T = S \cup ({m[u] : u \in S} \ {NoTerm})
    BY <1>1, <1>2 DEF Further
  <2> HIDE DEF S, T
  <2>3. t \in T /\ T \subseteq Term
    BY <2>1, <2>2 DEF Links
  <2>4. ASSUME NEW C, t \in C, Closed(m, C) PROVE T \subseteq C
    <3>1. S \subseteq C
      BY <2>1, <2>4
    <3> QED BY <2>2, <2>4, <3>1 DEF Closed
  <2>5. Closed(m, T) \/ Cardinality(T) > n + 1
    <3>1. CASE Closed(m, S)
      <4>1. T = S
        BY <2>2, <3>1 DEF Closed
      <4> QED BY <3>1, <4>1
    <3>2. CASE ~ Closed(m, S)
      <4>1. Cardinality(S) > n /\ S \subseteq T /\ S # T
        BY <2>1, <2>2, <3>2 DEF Closed
      <4>2. IsFiniteSet(T) /\ IsFiniteSet(S)
        BY <2>1, <2>3, FS_Subset DEF Vocabulary
      <4>3. /\ Cardinality(S) <= Cardinality(T) /\ Cardinality(S) # Cardinality(T)
            /\ Cardinality(S) \in Nat /\ Cardinality(T) \in Nat
        BY <4>1, <4>2, FS_Subset, FS_CardinalityType
      <4> QED BY <4>1, <4>3
    <3> QED BY <3>1, <3>2
  <2>6. Fine(T, n + 1)
    BY <2>3, <2>4, <2>5
  <2> QED BY <2>6 DEF T
<1>5. Fine(H[N], N)
  <2> HIDE DEF P, Fine
  <2>1. N \in P
    BY <1>1, <1>3, <1>4, CountingUp
  <2> QED BY <1>1, <2>1 DEF P
<1>6. ~ (Cardinality(H[N]) > N)
  <2>1. Cardinality(H[N]) <= N /\ Cardinality(H[N]) \in Nat
    BY <1>5, FS_Subset, FS_CardinalityType DEF Vocabulary, N
  <2> QED BY <1>1, <2>1
<1>7. Leads(m, t) = H[N]
  BY DEF Leads, H, N
<1> QED BY <1>5, <1>6, <1>7


Asking ==
  {Terms!Absent} \cup [op : {"add", "retire"}, term : Term, with : Term \cup {NoTerm}]
    \cup [op : {"merge"}, term : Term, with : Term]
    \cup [op : {"file"}, term : Term, with : Picture]

Tags == {"none", "suggested", "confirmed", "rejected"}

TermTypes ==
  /\ life \in [Term -> {"absent", "live", "retired"}]
  /\ parent \in [Term -> Term \cup {NoTerm}] /\ into \in Links
  /\ tag \in [Picture \X Term -> Tags] /\ filing \in [Judgement -> Asking]
  /\ filed \subseteq Picture \X Term /\ redirected \subseteq Term

\* No request merges a term into itself.
MergesApart == \A q \in Judgement : Terms!Is(q, "merge") => filing[q].term # filing[q].with

MeaningInv == TermTypes /\ MergesApart /\ MeaningKept

LEMMA AskedFor ==
  ASSUME TermTypes, NEW q \in Judgement
  PROVE  /\ Terms!Is(q, "add") => filing[q].term \in Term /\ filing[q].with \in Term \cup {NoTerm}
         /\ Terms!Is(q, "retire") => filing[q].term \in Term
         /\ Terms!Is(q, "merge") => filing[q].term \in Term /\ filing[q].with \in Term
         /\ Terms!Is(q, "file") => filing[q].term \in Term /\ filing[q].with \in Picture
BY DEF TermTypes, Asking, Terms!Is, Terms!Idle, Terms!Absent

\* Where references lead when t has been merged into target.
LEMMA MergedReach ==
  ASSUME Vocabulary, NEW m \in Links, NEW t \in Term, NEW target \in Term, NEW s \in Term,
         NEW n, n = [m EXCEPT ![t] = target]
  PROVE  /\ n \in Links
         /\ m[t] \in {NoTerm, target} => Leads(m, s) \subseteq Leads(n, s)
         /\ t \notin Leads(n, s) => Leads(m, s) \subseteq Leads(n, s)
         /\ t \in Leads(n, s) => target \in Leads(n, s)
<1>1. n \in Links /\ n[t] = target /\ \A u \in Term \ {t} : n[u] = m[u]
  BY DEF Links
<1>2. s \in Leads(n, s) /\ Closed(n, Leads(n, s))
  BY <1>1, LeadsIs
<1>3. \A S : s \in S /\ Closed(m, S) => Leads(m, s) \subseteq S
  BY LeadsIs
<1>4. target # NoTerm
  BY DEF Vocabulary
<1>5. m[t] \in {NoTerm, target} => Closed(m, Leads(n, s))
  BY <1>1, <1>2, <1>4 DEF Closed
<1>6. t \notin Leads(n, s) => Closed(m, Leads(n, s))
  BY <1>1, <1>2 DEF Closed
<1>7. t \in Leads(n, s) => target \in Leads(n, s)
  BY <1>1, <1>2, <1>4 DEF Closed
<1> QED BY <1>1, <1>2, <1>3, <1>5, <1>6, <1>7

LEMMA TypesStep ==
  ASSUME Vocabulary, TermTypes, MergesApart, [Terms!TermNext]_(Terms!termVars)
  PROVE  TermTypes' /\ MergesApart'
<1> USE DEF TermTypes, MergesApart, Terms!Is, Terms!Idle
<1>1. ASSUME NEW q \in Judgement, NEW what \in Asking,
             Terms!Begin(q, what), filing[q] = Terms!Absent, what # Terms!Absent /\ what.op = "merge" => what.term # what.with
      PROVE  TermTypes' /\ MergesApart'
  BY <1>1 DEF Terms!Begin
<1>2. ASSUME NEW q \in Judgement, NEW t \in Term, NEW under \in Term \cup {NoTerm},
             Terms!BeginAdd(q, t, under)
      PROVE  TermTypes' /\ MergesApart'
  <2>1. [op |-> "add", term |-> t, with |-> under] \in Asking
    BY DEF Asking
  <2> QED BY <1>1, <1>2, <2>1 DEF Terms!BeginAdd, Terms!Begin
<1>3. ASSUME NEW q \in Judgement, NEW t \in Term, Terms!BeginRetire(q, t)
      PROVE  TermTypes' /\ MergesApart'
  <2>1. [op |-> "retire", term |-> t, with |-> NoTerm] \in Asking
    BY DEF Asking
  <2> QED BY <1>1, <1>3, <2>1 DEF Terms!BeginRetire, Terms!Begin
<1>4. ASSUME NEW q \in Judgement, NEW t \in Term, NEW target \in Term,
             Terms!BeginMerge(q, t, target)
      PROVE  TermTypes' /\ MergesApart'
  <2>1. [op |-> "merge", term |-> t, with |-> target] \in Asking
    BY DEF Asking
  <2> QED BY <1>1, <1>4, <2>1 DEF Terms!BeginMerge, Terms!Begin, Terms!MergeTarget
<1>5. ASSUME NEW q \in Judgement, NEW t \in Term, NEW a \in Picture, Terms!BeginFile(q, a, t)
      PROVE  TermTypes' /\ MergesApart'
  <2>1. [op |-> "file", term |-> t, with |-> a] \in Asking
    BY DEF Asking
  <2> QED BY <1>1, <1>5, <2>1 DEF Terms!BeginFile, Terms!Begin
<1>6. ASSUME NEW q \in Judgement, Terms!Ends(q)
      PROVE  filing' \in [Judgement -> Asking] /\ MergesApart'
  <2>1. Terms!Absent \in Asking
    BY DEF Asking
  <2> QED BY <1>6, <2>1 DEF Terms!Ends
<1>7. ASSUME NEW q \in Judgement, Terms!Add(q) PROVE TermTypes' /\ MergesApart'
  BY <1>6, <1>7, AskedFor DEF Terms!Add
<1>8. ASSUME NEW q \in Judgement, Terms!Retire(q) PROVE TermTypes' /\ MergesApart'
  BY <1>6, <1>8, AskedFor DEF Terms!Retire
<1>9. ASSUME NEW q \in Judgement, Terms!Merge(q) PROVE TermTypes' /\ MergesApart'
  <2>1. filing[q].term \in Term /\ filing[q].with \in Term
    BY <1>9, AskedFor DEF Terms!Merge
  <2>2. Terms!Retagged(filing[q].term, filing[q].with) \in [Picture \X Term -> Tags]
    BY <2>1 DEF Terms!Retagged, Tags
  <2>3. into' \in Links
    BY <1>9, <2>1 DEF Terms!Merge, Terms!Superseded, Links
  <2> QED BY <1>6, <1>9, <2>1, <2>2, <2>3 DEF Terms!Merge
<1>10. ASSUME NEW q \in Judgement, Terms!File(q) PROVE TermTypes' /\ MergesApart'
  BY <1>6, <1>10, AskedFor DEF Terms!File, Tags
<1>11. ASSUME NEW q \in Judgement, Terms!Abort(q) PROVE TermTypes' /\ MergesApart'
  BY <1>6, <1>11 DEF Terms!Abort
<1>12. ASSUME NEW a \in Picture, NEW t \in Term,
              Terms!Unfile(a, t) \/ Terms!Suggest(a, t) \/ Terms!Confirm(a, t) \/ Terms!Reject(a, t)
       PROVE  TermTypes' /\ MergesApart'
  BY <1>12 DEF Terms!Unfile, Terms!Suggest, Terms!Confirm, Terms!Reject, Terms!Forget,
     Tags
<1>13. CASE UNCHANGED Terms!termVars
  BY <1>13 DEF Terms!termVars
<1> QED
  BY <1>2, <1>3, <1>4, <1>5, <1>7, <1>8, <1>9, <1>10, <1>11, <1>12, <1>13 DEF
     Terms!TermNext

LEMMA MeaningIs ==
  /\ MeaningKept <=> \A x \in filed : Leads(into, x[2]) \cap redirected = {} =>
       \E u \in Leads(into, x[2]) : tag[<<x[1], u>>] # "none"
  /\ MeaningKept' <=> \A x \in filed' : Leads(into', x[2]) \cap redirected' = {} =>
       \E u \in Leads(into', x[2]) : tag'[<<x[1], u>>] # "none"
BY ReachLeads DEF MeaningKept, Terms!MeaningKept, Terms!Owed

LEMMA MergeKeepsMeaning ==
  ASSUME Vocabulary, MeaningInv, NEW q \in Judgement, Terms!Merge(q)
  PROVE  MeaningKept'
<1> DEFINE t == filing[q].term
           target == filing[q].with
<1>1. t \in Term /\ target \in Term /\ t # target
  BY AskedFor DEF Terms!Merge, MeaningInv, MergesApart
<1>2. /\ into \in Links /\ into' = [into EXCEPT ![t] = target]
      /\ tag' = Terms!Retagged(t, target) /\ filed' = filed
      /\ redirected' = IF into[t] \in {NoTerm, target} THEN redirected ELSE redirected \cup {t}
  BY DEF Terms!Merge, Terms!Superseded, MeaningInv, TermTypes
<1> HIDE DEF t, target
<1>3. SUFFICES ASSUME NEW x \in filed, Leads(into', x[2]) \cap redirected' = {}
               PROVE  \E u \in Leads(into', x[2]) : tag'[<<x[1], u>>] # "none"
  BY <1>2, MeaningIs
<1>4. x[1] \in Picture /\ x[2] \in Term
  BY DEF MeaningInv, TermTypes
<1>5. /\ t \in Leads(into', x[2]) => target \in Leads(into', x[2])
      /\ \/ Leads(into, x[2]) \subseteq Leads(into', x[2])
         \/ t \in redirected' /\ t \in Leads(into', x[2])
  <2> DEFINE n == into'
  <2>0. n \in Links /\ n = [into EXCEPT ![t] = target]
    BY <1>1, <1>2 DEF Links
  <2> HIDE DEF n
  <2> DEFINE y == x[2]
  <2>5. into \in Links /\ y \in Term
    BY <1>2, <1>4
  <2> HIDE DEF y
  <2>4. /\ into[t] \in {NoTerm, target} => Leads(into, y) \subseteq Leads(n, y)
        /\ t \notin Leads(n, y) => Leads(into, y) \subseteq Leads(n, y)
        /\ t \in Leads(n, y) => target \in Leads(n, y)
    BY <1>1, <2>0, <2>5, MergedReach
  <2>1. into[t] \in {NoTerm, target} => Leads(into, x[2]) \subseteq Leads(into', x[2])
    BY <2>4 DEF n, y
  <2>2. t \notin Leads(into', x[2]) => Leads(into, x[2]) \subseteq Leads(into', x[2])
    BY <2>4 DEF n, y
  <2>3. t \in Leads(into', x[2]) => target \in Leads(into', x[2])
    BY <2>4 DEF n, y
  <2> QED BY <1>2, <2>1, <2>2, <2>3
<1>6. Leads(into, x[2]) \subseteq Leads(into', x[2]) /\ Leads(into, x[2]) \cap redirected = {}
  BY <1>2, <1>3, <1>5
<1>7. PICK u \in Leads(into, x[2]) : tag[<<x[1], u>>] # "none"
  BY <1>6, MeaningIs DEF MeaningInv
<1>8. u \in Term
  BY <1>2, <1>4, LeadsIs DEF Closed
<1>9. \A v \in Term : tag'[<<x[1], v>>] =
        IF v = t THEN "none"
        ELSE IF v = target /\ tag[<<x[1], v>>] = "none" THEN tag[<<x[1], t>>]
        ELSE tag[<<x[1], v>>]
  BY <1>2, <1>4 DEF Terms!Retagged
<1>10. CASE u = t
  BY <1>1, <1>5, <1>6, <1>7, <1>9, <1>10
<1>11. CASE u # t
  BY <1>6, <1>7, <1>8, <1>9, <1>11
<1> QED BY <1>10, <1>11

\* What is said of one asset under one term, filed or taken out.
LEMMA SayingKeepsMeaning ==
  ASSUME Vocabulary, MeaningInv, NEW a \in Picture, NEW t \in Term, NEW says \in Tags,
         tag' = [tag EXCEPT ![<<a, t>>] = says],
         filed' \subseteq filed \cup {<<a, t>>},
         says = "none" => \A x \in filed' : x[1] = a => t \notin Leads(into, x[2]),
         UNCHANGED <<into, redirected>>
  PROVE  MeaningKept'
<1>1. SUFFICES ASSUME NEW x \in filed', Leads(into', x[2]) \cap redirected' = {}
               PROVE  \E u \in Leads(into', x[2]) : tag'[<<x[1], u>>] # "none"
  BY MeaningIs
<1>2. x[1] \in Picture /\ x[2] \in Term /\ into \in Links /\ (x \in filed \/ x = <<a, t>>)
  BY DEF MeaningInv, TermTypes
<1>3. x[2] \in Leads(into, x[2]) /\ Leads(into, x[2]) \subseteq Term
  BY <1>2, LeadsIs DEF Closed
<1>4. \A u \in Term : tag'[<<x[1], u>>] =
        IF x[1] = a /\ u = t THEN says ELSE tag[<<x[1], u>>]
  BY <1>2 DEF MeaningInv, TermTypes
<1>5. CASE x \in filed
  <2>1. PICK u \in Leads(into, x[2]) : tag[<<x[1], u>>] # "none"
    BY <1>1, <1>5, MeaningIs DEF MeaningInv
  <2>2. tag'[<<x[1], u>>] # "none"
    BY <1>3, <1>4, <2>1
  <2> QED BY <2>1, <2>2
<1>6. CASE x = <<a, t>>
  <2>1. says # "none"
    BY <1>3, <1>6
  <2>2. tag'[<<x[1], x[2]>>] # "none"
    BY <1>4, <1>6, <2>1
  <2> QED BY <1>3, <2>2
<1> QED BY <1>2, <1>5, <1>6

LEMMA MeaningStep ==
  ASSUME Vocabulary, MeaningInv, [Terms!TermNext]_(Terms!termVars)
  PROVE  MeaningKept'
<1>1. CASE UNCHANGED <<into, tag, filed, redirected>>
  BY <1>1, MeaningIs DEF MeaningInv
<1>2. ASSUME NEW q \in Judgement, NEW t \in Term,
             \/ \E under \in Term \cup {NoTerm} : Terms!BeginAdd(q, t, under)
             \/ Terms!BeginRetire(q, t)
             \/ \E target \in Term : Terms!BeginMerge(q, t, target)
             \/ \E a \in Picture : Terms!BeginFile(q, a, t)
      PROVE  MeaningKept'
  BY <1>1, <1>2 DEF Terms!BeginAdd, Terms!BeginRetire, Terms!BeginMerge,
     Terms!BeginFile, Terms!Begin
<1>3. ASSUME NEW q \in Judgement, Terms!Add(q) \/ Terms!Retire(q) \/ Terms!Abort(q)
      PROVE  MeaningKept'
  BY <1>1, <1>3 DEF Terms!Add, Terms!Retire, Terms!Abort
<1>4. ASSUME NEW q \in Judgement, Terms!Merge(q) PROVE MeaningKept'
  BY <1>4, MergeKeepsMeaning
<1>5. ASSUME NEW q \in Judgement, Terms!File(q) PROVE MeaningKept'
  <2>1. filing[q].term \in Term /\ filing[q].with \in Picture
    BY <1>5, AskedFor DEF Terms!File, MeaningInv
  <2> QED BY <1>5, <2>1, SayingKeepsMeaning DEF Terms!File, Tags
<1>6. ASSUME NEW a \in Picture, NEW t \in Term, Terms!Unfile(a, t) PROVE MeaningKept'
  <2>1. \A x \in filed' : x[1] = a => t \notin Leads(into, x[2])
    BY <1>6, ReachLeads DEF Terms!Unfile, Terms!Forget
  <2>2. /\ tag' = [tag EXCEPT ![<<a, t>>] = "none"] /\ filed' \subseteq filed \cup {<<a, t>>}
        /\ UNCHANGED <<into, redirected>> /\ "none" \in Tags
    BY <1>6 DEF Terms!Unfile, Terms!Forget, Tags
  <2> QED BY <2>1, <2>2, SayingKeepsMeaning
<1>7. ASSUME NEW a \in Picture, NEW t \in Term, Terms!Suggest(a, t) PROVE MeaningKept'
  BY <1>7, SayingKeepsMeaning DEF Terms!Suggest, Tags
<1>8. ASSUME NEW a \in Picture, NEW t \in Term, Terms!Confirm(a, t) PROVE MeaningKept'
  BY <1>8, SayingKeepsMeaning DEF Terms!Confirm, Tags
<1>9. ASSUME NEW a \in Picture, NEW t \in Term, Terms!Reject(a, t) PROVE MeaningKept'
  BY <1>9, SayingKeepsMeaning DEF Terms!Reject, Terms!Forget, Tags
<1>10. CASE UNCHANGED Terms!termVars
  BY <1>1, <1>10 DEF Terms!termVars
<1> QED BY <1>2, <1>3, <1>4, <1>5, <1>6, <1>7, <1>8, <1>9, <1>10 DEF Terms!TermNext

LEMMA MeaningInitially ==
  ASSUME Terms!TermInit PROVE MeaningInv
<1>1. MeaningKept
  BY DEF Terms!TermInit, MeaningKept, Terms!MeaningKept, Terms!Owed
<1>2. TermTypes /\ MergesApart
  BY DEF Terms!TermInit, TermTypes, MergesApart, Asking, Tags, Links, Terms!Is, Terms!Idle
<1> QED BY <1>1, <1>2 DEF MeaningInv

\* Whatever is merged, retired, filed and rejected, and however requests overlap, an
\* asset keeps a row of the term it was filed under, or of one its references lead to.
THEOREM MeaningKeptAlways ==
  Vocabulary => (Terms!TermSpec => []MeaningKept)
<1> SUFFICES ASSUME Vocabulary PROVE Terms!TermSpec => []MeaningKept
  OBVIOUS
<1>1. MeaningInv /\ [Terms!TermNext]_(Terms!termVars) => MeaningInv'
  BY MeaningStep, TypesStep DEF MeaningInv
<1>2. MeaningInv => MeaningKept
  BY DEF MeaningInv
<1> QED BY <1>1, <1>2, MeaningInitially, PTL DEF Terms!TermSpec


\* One link more, to where nothing leads back, closes no loop.
LEMMA NoLoop ==
  ASSUME Vocabulary, NEW m \in Links, NEW t \in Term, NEW target \in Term,
         NEW n, n = [m EXCEPT ![t] = target], t \notin Leads(m, target),
         \A s \in Term : m[s] # NoTerm => s \notin Leads(m, m[s])
  PROVE  \A s \in Term : n[s] # NoTerm => s \notin Leads(n, n[s])
<1> DEFINE D == Leads(m, target)
<1>1. n \in Links /\ n[t] = target /\ \A u \in Term \ {t} : n[u] = m[u]
  BY DEF Links
<1>2. target \in D /\ Closed(m, D) /\ t \notin D
  BY LeadsIs
<1> HIDE DEF D
<1>3. Closed(n, D)
  BY <1>1, <1>2 DEF Closed
<1>4. ASSUME NEW s \in Term, n[s] # NoTerm PROVE s \notin Leads(n, n[s])
  <2>1. n[s] \in Term
    BY <1>1, <1>4 DEF Links
  <2>2. \A S : n[s] \in S /\ Closed(n, S) => Leads(n, n[s]) \subseteq S
    BY <1>1, <2>1, LeadsIs
  <2>3. CASE s = t
    <3>1. Leads(n, n[s]) \subseteq D
      BY <1>1, <1>2, <1>3, <2>2, <2>3
    <3> QED BY <1>2, <2>3, <3>1
  <2>4. CASE s # t
    <3> DEFINE E == Leads(m, m[s])
    <3>1. n[s] = m[s] /\ m[s] \in Term /\ s \notin E
      BY <1>1, <1>4, <2>1, <2>4
    <3>2. /\ m[s] \in E /\ Closed(m, E)
          /\ \A S : m[s] \in S /\ Closed(m, S) => E \subseteq S
      BY <3>1, LeadsIs
    <3> HIDE DEF E
    <3>3. CASE s \in D
      <4>1. E \subseteq D
        BY <1>2, <2>1, <3>1, <3>2, <3>3, <1>4 DEF Closed
      <4>2. Closed(n, E)
        BY <1>1, <1>2, <3>2, <4>1 DEF Closed
      <4> QED BY <2>2, <3>1, <3>2, <4>2
    <3>4. CASE s \notin D
      <4>1. Closed(n, E \cup D)
        BY <1>1, <1>2, <1>3, <3>2 DEF Closed
      <4>2. Leads(n, n[s]) \subseteq E \cup D
        BY <2>2, <3>1, <3>2, <4>1
      <4> QED BY <3>1, <3>4, <4>2
    <3> QED BY <3>3, <3>4
  <2> QED BY <2>3, <2>4
<1> QED BY <1>4

NoneOverlap == \A p, q \in Judgement : ~ Terms!Idle(p) /\ ~ Terms!Idle(q) => p = q

\* What a request read still holds when it writes.
StillTrue ==
  \A q \in Judgement :
    /\ Terms!Is(q, "merge") => filing[q].term \notin Terms!Reach(filing[q].with)
    /\ Terms!Is(q, "retire") => ~ Terms!HasChildren(filing[q].term)
    /\ Terms!Is(q, "add") /\ filing[q].with # NoTerm => life[filing[q].with] = "live"

Orderly == NoneOverlap /\ StillTrue /\ Terms!ChainsEnd /\ Terms!TidyTree

TreeInv == TermTypes /\ MergesApart /\ (mixed \/ Orderly)

LEMMA ChainsAre ==
  /\ Terms!ChainsEnd <=> \A t \in Term : into[t] # NoTerm => t \notin Leads(into, into[t])
  /\ Terms!ChainsEnd' <=> \A t \in Term : into'[t] # NoTerm => t \notin Leads(into', into'[t])
BY ReachLeads DEF Terms!ChainsEnd

\* A request that is alone reads, and has read what holds.
LEMMA ReadsAlone ==
  ASSUME TreeInv, NEW q \in Judgement, NEW what, what # Terms!Absent, Terms!Begin(q, what),
         what.op = "merge" => what.term \notin Terms!Reach(what.with),
         what.op = "retire" => ~ Terms!HasChildren(what.term),
         what.op = "add" /\ what.with # NoTerm => life[what.with] = "live"
  PROVE  mixed' \/ Orderly'
<1> SUFFICES ASSUME ~ mixed' PROVE Orderly'
  OBVIOUS
<1>1. Orderly /\ Terms!Quiet /\ UNCHANGED <<life, parent, into>>
  BY DEF TreeInv, Terms!Begin
<1>2. \A p \in Judgement : filing'[p] = IF p = q THEN what ELSE Terms!Absent
  BY <1>1 DEF Terms!Begin, Terms!Quiet, TreeInv, TermTypes
<1>3. NoneOverlap'
  BY <1>2 DEF NoneOverlap, Terms!Idle
<1>4. \A x : Terms!Reach(x)' = Terms!Reach(x)
  BY <1>1 DEF Terms!Reach
<1>5. StillTrue'
  BY <1>1, <1>2, <1>4 DEF StillTrue, Terms!Is, Terms!Idle, Terms!HasChildren
<1>6. Terms!ChainsEnd' /\ Terms!TidyTree'
  BY <1>1, ChainsAre DEF Terms!TidyTree, Orderly
<1> QED BY <1>3, <1>5, <1>6 DEF Orderly

\* When it has written nobody is under way.
LEMMA WritesAlone ==
  ASSUME TreeInv, NEW q \in Judgement, ~ Terms!Idle(q), Terms!Ends(q), UNCHANGED mixed,
         Orderly => Terms!ChainsEnd' /\ Terms!TidyTree'
  PROVE  mixed' \/ Orderly'
<1> SUFFICES ASSUME ~ mixed PROVE Orderly'
  OBVIOUS
<1>1. Orderly
  BY DEF TreeInv
<1>2. \A p \in Judgement : filing'[p] = Terms!Absent
  BY <1>1 DEF Orderly, NoneOverlap, Terms!Idle, Terms!Ends, TreeInv, TermTypes
<1> QED BY <1>1, <1>2 DEF Orderly, NoneOverlap, StillTrue, Terms!Is, Terms!Idle

LEMMA TreeStep ==
  ASSUME Vocabulary, TreeInv, [Terms!TermNext]_(Terms!termVars)
  PROVE  mixed' \/ Orderly'
<1>1. ASSUME NEW q \in Judgement, NEW t \in Term, NEW under \in Term \cup {NoTerm},
             Terms!BeginAdd(q, t, under)
      PROVE  mixed' \/ Orderly'
  BY <1>1, ReadsAlone DEF Terms!BeginAdd, Terms!Absent
<1>2. ASSUME NEW q \in Judgement, NEW t \in Term, Terms!BeginRetire(q, t) PROVE mixed' \/ Orderly'
  BY <1>2, ReadsAlone DEF Terms!BeginRetire, Terms!Absent
<1>3. ASSUME NEW q \in Judgement, NEW t \in Term, NEW target \in Term,
             Terms!BeginMerge(q, t, target)
      PROVE  mixed' \/ Orderly'
  BY <1>3, ReadsAlone DEF Terms!BeginMerge, Terms!MergeTarget, Terms!Absent
<1>4. ASSUME NEW q \in Judgement, NEW t \in Term, NEW a \in Picture, Terms!BeginFile(q, a, t)
      PROVE  mixed' \/ Orderly'
  BY <1>4, ReadsAlone DEF Terms!BeginFile, Terms!Absent
<1>5. ASSUME NEW q \in Judgement, Terms!Add(q) PROVE mixed' \/ Orderly'
  <2> DEFINE t == filing[q].term
             with == filing[q].with
  <2>1. t \in Term /\ with \in Term \cup {NoTerm} /\ life[t] = "absent"
    BY <1>5, AskedFor DEF Terms!Add, TreeInv
  <2>2. ASSUME Orderly PROVE Terms!ChainsEnd' /\ Terms!TidyTree'
    <3>1. Terms!ChainsEnd'
      BY <1>5, <2>2, ChainsAre DEF Terms!Add, Orderly
    <3>2. /\ \A u \in Term : life'[u] = IF u = t THEN "live" ELSE life[u]
          /\ \A u \in Term : parent'[u] = IF u = t THEN with ELSE parent[u]
          /\ into' = into
      BY <1>5, <2>1 DEF Terms!Add, TreeInv, TermTypes
    <3>3. with # NoTerm => life[with] = "live"
      BY <1>5, <2>2 DEF Terms!Add, Orderly, StillTrue
    <3> HIDE DEF t, with
    <3>4. Terms!TidyTree'
      <4> SUFFICES ASSUME NEW u \in Term, life'[u] = "live", parent'[u] # NoTerm,
                          life'[parent'[u]] = "retired"
                   PROVE  into'[parent'[u]] # NoTerm
        BY DEF Terms!TidyTree
      <4>1. parent'[u] \in Term
        BY <2>1, <3>2 DEF TreeInv, TermTypes
      <4>2. u # t
        BY <3>2, <3>3, <4>1
      <4>3. life[parent[u]] = "retired" /\ life[u] = "live" /\ parent'[u] = parent[u]
        BY <3>2, <4>1, <4>2
      <4> QED BY <2>2, <3>2, <4>3 DEF Terms!TidyTree, Orderly
    <3> QED BY <3>1, <3>4
  <2> QED BY <1>5, <2>2, WritesAlone DEF Terms!Add, Terms!Is
<1>6. ASSUME NEW q \in Judgement, Terms!Retire(q) PROVE mixed' \/ Orderly'
  <2> DEFINE t == filing[q].term
  <2>1. t \in Term
    BY <1>6, AskedFor DEF Terms!Retire, TreeInv
  <2>2. ASSUME Orderly PROVE Terms!ChainsEnd' /\ Terms!TidyTree'
    <3>1. Terms!ChainsEnd'
      BY <1>6, <2>2, ChainsAre DEF Terms!Retire, Orderly
    <3>2. /\ \A u \in Term : life'[u] = IF u = t THEN "retired" ELSE life[u]
          /\ UNCHANGED <<parent, into>>
      BY <1>6, <2>1 DEF Terms!Retire, TreeInv, TermTypes
    <3>3. \A c \in Term : ~ (parent[c] = t /\ life[c] = "live")
      BY <1>6, <2>2 DEF Terms!Retire, Orderly, StillTrue, Terms!HasChildren
    <3> HIDE DEF t
    <3>4. Terms!TidyTree'
      <4> SUFFICES ASSUME NEW u \in Term, life'[u] = "live", parent[u] # NoTerm,
                          life'[parent[u]] = "retired"
                   PROVE  into[parent[u]] # NoTerm
        BY <3>2 DEF Terms!TidyTree
      <4>1. parent[u] \in Term
        BY DEF TreeInv, TermTypes
      <4>2. life[u] = "live"
        BY <3>2
      <4>3. parent[u] # t
        BY <3>3, <4>2
      <4> QED BY <2>2, <3>2, <4>1, <4>2, <4>3 DEF Terms!TidyTree, Orderly
    <3> QED BY <3>1, <3>4
  <2> QED BY <1>6, <2>2, WritesAlone DEF Terms!Retire, Terms!Is
<1>7. ASSUME NEW q \in Judgement, Terms!Merge(q) PROVE mixed' \/ Orderly'
  <2> DEFINE t == filing[q].term
             target == filing[q].with
  <2>1. t \in Term /\ target \in Term
    BY <1>7, AskedFor DEF Terms!Merge, TreeInv
  <2>2. ASSUME Orderly PROVE Terms!ChainsEnd' /\ Terms!TidyTree'
    <3>1. /\ \A u \in Term : life'[u] = IF u = t THEN "retired" ELSE life[u]
          /\ into \in Links /\ into' = [into EXCEPT ![t] = target] /\ parent' = parent
      BY <1>7, <2>1 DEF Terms!Merge, Terms!Superseded, TreeInv, TermTypes
    <3>2. t \notin Leads(into, target)
      BY <1>7, <2>2, ReachLeads DEF Terms!Merge, Orderly, StillTrue
    <3>3. \A u \in Term : into[u] # NoTerm => u \notin Leads(into, into[u])
      BY <2>2, ChainsAre DEF Orderly
    <3> HIDE DEF t, target
    <3>4. Terms!ChainsEnd'
      <4> DEFINE n == into'
      <4>1. n = [into EXCEPT ![t] = target]
        BY <3>1
      <4> HIDE DEF n
      <4>2. \A s \in Term : n[s] # NoTerm => s \notin Leads(n, n[s])
        BY <2>1, <3>1, <3>2, <3>3, <4>1, NoLoop
      <4> QED BY <4>2, ChainsAre DEF n
    <3>5. Terms!TidyTree'
      <4> SUFFICES ASSUME NEW u \in Term, life'[u] = "live", parent[u] # NoTerm,
                          life'[parent[u]] = "retired"
                   PROVE  into'[parent[u]] # NoTerm
        BY <3>1 DEF Terms!TidyTree
      <4>1. parent[u] \in Term /\ target # NoTerm
        BY <2>1 DEF TreeInv, TermTypes, Vocabulary
      <4>2. CASE parent[u] = t
        BY <2>1, <3>1, <4>1, <4>2 DEF Links
      <4>3. CASE parent[u] # t
        <5>1. life[u] = "live" /\ life[parent[u]] = "retired"
          BY <3>1, <4>1, <4>3
        <5>2. into'[parent[u]] = into[parent[u]]
          BY <2>1, <3>1, <4>1, <4>3 DEF Links
        <5> QED BY <2>2, <5>1, <5>2 DEF Terms!TidyTree, Orderly
      <4> QED BY <4>2, <4>3
    <3> QED BY <3>4, <3>5
  <2> QED BY <1>7, <2>2, WritesAlone DEF Terms!Merge, Terms!Is
<1>8. ASSUME NEW q \in Judgement, Terms!File(q) \/ Terms!Abort(q) PROVE mixed' \/ Orderly'
  <2>1. ~ Terms!Idle(q) /\ Terms!Ends(q) /\ UNCHANGED <<mixed, life, parent, into>>
    BY <1>8 DEF Terms!File, Terms!Abort, Terms!Is
  <2>2. Orderly => Terms!ChainsEnd' /\ Terms!TidyTree'
    BY <2>1, ChainsAre DEF Orderly, Terms!TidyTree
  <2> QED BY <2>1, <2>2, WritesAlone
<1>9. CASE UNCHANGED <<life, parent, into, filing, mixed>>
  <2>1. \A x : Terms!Reach(x)' = Terms!Reach(x)
    BY <1>9 DEF Terms!Reach
  <2>2. Orderly => Terms!ChainsEnd' /\ Terms!TidyTree'
    BY <1>9, ChainsAre DEF Orderly, Terms!TidyTree
  <2>3. Orderly => NoneOverlap' /\ StillTrue'
    BY <1>9, <2>1 DEF Orderly, NoneOverlap, StillTrue, Terms!Is, Terms!Idle,
       Terms!HasChildren
  <2> QED BY <1>9, <2>2, <2>3 DEF TreeInv, Orderly
<1>10. ASSUME NEW a \in Picture, NEW t \in Term,
              Terms!Unfile(a, t) \/ Terms!Suggest(a, t) \/ Terms!Confirm(a, t) \/ Terms!Reject(a, t)
       PROVE  mixed' \/ Orderly'
  BY <1>9, <1>10 DEF Terms!Unfile, Terms!Suggest, Terms!Confirm, Terms!Reject
<1>11. CASE UNCHANGED Terms!termVars
  BY <1>9, <1>11 DEF Terms!termVars
<1> QED
  BY <1>1, <1>2, <1>3, <1>4, <1>5, <1>6, <1>7, <1>8, <1>10, <1>11 DEF Terms!TermNext

\* Unless requests overlapped, a reference to any term resolves to a term, for chains
\* of merges end, and live terms hang under retired ones only by a merge.
THEOREM VocabularyIsSoundAlways ==
  Vocabulary => (Terms!TermSpec => []VocabularyIsSound)
<1> SUFFICES ASSUME Vocabulary PROVE Terms!TermSpec => []VocabularyIsSound
  OBVIOUS
<1>1. Terms!TermInit => TreeInv
  <2> SUFFICES ASSUME Terms!TermInit PROVE TreeInv
    OBVIOUS
  <2>1. TermTypes /\ MergesApart
    BY MeaningInitially DEF MeaningInv
  <2>2. NoneOverlap /\ StillTrue /\ Terms!ChainsEnd /\ Terms!TidyTree
    BY DEF Terms!TermInit, NoneOverlap, StillTrue, Terms!ChainsEnd, Terms!TidyTree,
       Terms!Is, Terms!Idle
  <2> QED BY <2>1, <2>2 DEF TreeInv, Orderly
<1>2. TreeInv /\ [Terms!TermNext]_(Terms!termVars) => TreeInv'
  BY TreeStep, TypesStep DEF TreeInv
<1>3. TreeInv => VocabularyIsSound
  BY DEF TreeInv, Orderly, VocabularyIsSound, Terms!VocabularyIsSound
<1> QED BY <1>1, <1>2, <1>3, PTL DEF Terms!TermSpec

----------------------------------------------------------------------------
(* Backfill.  The constants count runs, batches and assets.                *)

Bounded == MaxRuns \in Nat /\ MaxBatches \in Nat /\ Undescribed \in Nat

JobKind ==
  {Fill!Submission} \cup {Fill!Collection(b) : b \in Fill!Batch}
    \cup {Fill!Description(a) : a \in Fill!Asset}

Submitting == {"list", "open", "post", "attach", "collect", "close"}
Collecting == {"gather", "poll", "abandon", "apply", "next"}
Describing == {"start", "off", "bare", "ready", "call", "charge"}

RunRow ==
  [asset : Fill!Asset \cup {0}, batch : Fill!Batch \cup {0}, cost : Nat,
   state : {"absent", "running", "succeeded", "failed", "skipped"}]

RunTypes == opened \in [Fill!Run -> RunRow]

SentTypes ==
  sent \in [Fill!Batch ->
    [runs : SUBSET Fill!Run, ended : BOOLEAN, says : [Fill!Run -> Fill!Answer]]]

JobTypes == jobs \subseteq JobKind /\ job \in [Worker -> JobKind \cup {Fill!Idle}]

WorkerTypes ==
  /\ doing \in [Worker -> {"idle", "end"} \cup Submitting \cup Collecting \cup Describing]
  /\ pick \in [Worker -> SUBSET Fill!Asset] /\ hand \in [Worker -> SUBSET Fill!Run]
  /\ batch \in [Worker -> Fill!Batch \cup {0}] /\ any \in [Worker -> BOOLEAN]

FillTypes ==
  /\ RunTypes /\ SentTypes /\ JobTypes /\ WorkerTypes
  /\ proxied \subseteq Fill!Asset /\ cut \in BOOLEAN /\ lapsed \in BOOLEAN

\* Which job a step belongs to.
StageFits ==
  \A w \in Worker :
    /\ doing[w] = "idle" => job[w] = Fill!Idle
    /\ doing[w] \in Submitting => job[w] = Fill!Submission
    /\ doing[w] \in {"attach", "collect"} => batch[w] \in Fill!Batch
    /\ doing[w] \in Collecting => batch[w] \in Fill!Batch /\ job[w] = Fill!Collection(batch[w])
    /\ doing[w] \in Describing => ~ any[w] /\ \E a \in Fill!Asset : job[w] = Fill!Description(a)

\* What a worker holds at its step.
HandFits ==
  \A w \in Worker :
    /\ doing[w] \in {"idle", "list", "gather", "next", "start", "charge", "end"} => hand[w] = {}
    /\ doing[w] = "post" => hand[w] # {}
    /\ doing[w] \in {"off", "bare", "ready", "call"} => \E r \in Fill!Run : hand[w] = {r}

Attaches(w, b) == doing[w] \in {"attach", "collect"} /\ batch[w] = b

Collects(b) == Fill!Collection(b) \in jobs \/ \E w \in Worker : job[w] = Fill!Collection(b)

\* A batch has no collection before it is sent and its runs have its number.
UnsentUnknown ==
  \A b \in Fill!Batch : sent[b].runs = {} =>
    ~ Collects(b) /\ \A w \in Worker : ~ Attaches(w, b)

AttachedFirst ==
  \A w \in Worker, b \in Fill!Batch : Attaches(w, b) =>
    ~ Collects(b) /\ \A v \in Worker : Attaches(v, b) => v = w

\* A collection that has read its batch's runs has all those that are open.
GatheredAll ==
  \A w \in Worker, b \in Fill!Batch :
    job[w] = Fill!Collection(b) /\ doing[w] \in {"poll", "abandon", "apply", "next", "end"} =>
      \A r \in Fill!Run : opened[r].state = "running" /\ opened[r].batch = b => r \in hand[w]

Holding == {"open", "post", "attach", "close", "off", "bare", "ready", "call"}

\* Who has an open run: before it is in a batch, and after.
AloneIsHeld ==
  ~ cut => \A r \in Fill!Run : opened[r].state = "running" /\ opened[r].batch = 0 =>
    \E w \in Worker : doing[w] \in Holding /\ r \in hand[w]

BatchedIsHeld ==
  ~ cut => \A r \in Fill!Run : opened[r].state = "running" /\ opened[r].batch # 0 =>
    \/ Fill!Collection(opened[r].batch) \in jobs
    \/ \E w \in Worker : doing[w] = "collect" /\ batch[w] = opened[r].batch /\ r \in hand[w]

WatchInv ==
  /\ FillTypes /\ StageFits /\ HandFits /\ UnsentUnknown /\ AttachedFirst /\ GatheredAll
  /\ AloneIsHeld /\ BatchedIsHeld

\* A job has one worker, unless a lease lapsed.
OneWorkerEach == \A v, w \in Worker : job[v] = job[w] /\ job[w] # Fill!Idle => v = w

\* What is held before it is in a batch is open, and held once.
HeldIsOpen ==
  \A w \in Worker : doing[w] \in Holding =>
    \A r \in hand[w] : opened[r].state = "running" /\ opened[r].batch = 0

HeldOnce ==
  \A v, w \in Worker : doing[v] \in Holding /\ doing[w] \in Holding /\ v # w =>
    hand[v] \cap hand[w] = {}

Reading == {"poll", "abandon", "apply"}

CollectedIsOpen ==
  \A w \in Worker : doing[w] \in Reading =>
    \A r \in hand[w] : opened[r].state = "running" /\ opened[r].batch = batch[w]

Slicing == {"open", "post", "attach"}

\* A slice has an asset once.
SliceIsApart ==
  \A w \in Worker : doing[w] \in Slicing => \A r \in hand[w] :
    /\ opened[r].asset \notin pick[w]
    /\ \A s \in hand[w] : opened[r].asset = opened[s].asset => r = s

\* In a batch, and answered or to be.
Counts(r) == opened[r].batch # 0 /\ opened[r].state \in {"running", "succeeded"}

\* Nothing in a slice was in a batch that counts.
SliceIsNew ==
  \A w \in Worker : doing[w] \in Slicing => \A r \in Fill!Run : Counts(r) =>
    opened[r].asset \notin pick[w] /\ \A s \in hand[w] : opened[s].asset # opened[r].asset

CountsOnce ==
  \A r, s \in Fill!Run : Counts(r) /\ Counts(s) /\ opened[r].asset = opened[s].asset => r = s

AbsentIsBlank == \A r \in Fill!Run : opened[r].state = "absent" => opened[r].batch = 0

SliceInv ==
  /\ OneWorkerEach /\ HeldIsOpen /\ HeldOnce /\ CollectedIsOpen
  /\ SliceIsApart /\ SliceIsNew /\ CountsOnce /\ AbsentIsBlank

SubmitInv == ~ lapsed => SliceInv

----

LEMMA LeastIn ==
  ASSUME NEW S \in SUBSET Nat, S # {}
  PROVE  Fill!Min(S) \in S
<1>1. \E t \in S : \A x \in S : ~ (<<x, t>> \in OpToRel(<, Nat))
  BY NatLessThanWellFounded, WFMin, Zenon
<1>2. PICK t \in S : \A x \in S : ~ (<<x, t>> \in OpToRel(<, Nat))
  BY <1>1
<1>3. \A x \in S : t =< x
  <2> TAKE x \in S
  <2>1. ~ (x < t)
    BY <1>2 DEF OpToRel
  <2> QED BY <2>1
<1> QED BY <1>3 DEF Fill!Min

LEMMA RunsAreNumbers ==
  ASSUME Bounded
  PROVE  /\ Fill!Run \subseteq Nat /\ Fill!Batch \subseteq Nat /\ Fill!Asset \subseteq Nat
         /\ 0 \notin Fill!Batch /\ 0 \notin Fill!Asset
BY DEF Bounded, Fill!Run, Fill!Batch, Fill!Asset

LEMMA KindsDiffer ==
  /\ Fill!Idle # Fill!Submission
  /\ \A b : Fill!Collection(b) # Fill!Idle /\ Fill!Collection(b) # Fill!Submission
            /\ Fill!Collection(b)[1] = "collect" /\ Fill!Collection(b)[2] = b
  /\ \A a : Fill!Description(a) # Fill!Idle /\ Fill!Description(a) # Fill!Submission
            /\ Fill!Description(a)[1] # "collect" /\ Fill!Description(a)[2] = a
  /\ \A a, b : Fill!Collection(b) # Fill!Description(a)
  /\ \A b, c : Fill!Collection(b) = Fill!Collection(c) => b = c
  /\ Fill!Submission[1] # "collect"
BY DEF Fill!Idle, Fill!Submission, Fill!Collection, Fill!Description

LEMMA KindOf ==
  ASSUME NEW j \in JobKind
  PROVE  \/ j = Fill!Submission
         \/ \E b \in Fill!Batch : j = Fill!Collection(b)
         \/ \E a \in Fill!Asset : j = Fill!Description(a)
BY DEF JobKind

LEMMA WatchInitially == ASSUME Bounded, Fill!Init PROVE WatchInv
<1>1. Fill!NoRun.state = "absent" /\ Fill!NoBatch.runs = {}
  BY DEF Fill!NoRun, Fill!NoBatch
<1>2. FillTypes
  BY DEF Fill!Init, FillTypes, RunTypes, RunRow, SentTypes, JobTypes, WorkerTypes,
     Fill!NoRun, Fill!NoBatch, Fill!Answer
<1>3. \A b : Fill!Collection(b) # Fill!Idle
  BY KindsDiffer
<1> QED
  BY <1>1, <1>2, <1>3 DEF Fill!Init, WatchInv, StageFits, HandFits, UnsentUnknown,
     AttachedFirst, GatheredAll, AloneIsHeld, BatchedIsHeld, Collects, Attaches,
     Submitting, Collecting, Describing

\* A step of a worker leaves the others as they are.
Same(v) ==
  /\ job'[v] = job[v] /\ doing'[v] = doing[v] /\ pick'[v] = pick[v] /\ hand'[v] = hand[v]
  /\ batch'[v] = batch[v] /\ any'[v] = any[v]

OnlyOf(w) == \A v \in Worker \ {w} : Same(v)

Collected == Reading \cup {"next", "end"}

\* What most steps do to the runs and to what is held: a run that is open was so,
\* or is new and held.
OpenWere ==
  \A r \in Fill!Run : opened'[r].state = "running" =>
    \/ opened[r].state = "running" /\ opened'[r].batch = opened[r].batch
    \/ opened'[r].batch = 0 /\ \E v \in Worker : doing'[v] \in Holding /\ r \in hand'[v]

\* w lets go of no open run, unless it is cut.
HoldsOn(w) ==
  doing[w] \in Holding \cup {"collect"} /\ ~ cut' =>
    \A r \in hand[w] : opened'[r].state = "running" =>
      /\ r \in hand'[w]
      /\ doing[w] \in Holding => doing'[w] \in Holding
      /\ doing[w] = "collect" => doing'[w] = "collect" /\ batch'[w] = batch[w]

\* A collection has been read before, and what is closed only is put away.
StillCollected(w) ==
  doing'[w] \in Collected =>
    \A b \in Fill!Batch : job'[w] = Fill!Collection(b) =>
      /\ job[w] = Fill!Collection(b) /\ doing[w] \in Collected
      /\ \A r \in hand[w] : opened'[r].state = "running" => r \in hand'[w]

\* No collection is queued here, and one is over when its batch is.
QueueKeeps ==
  \A b \in Fill!Batch :
    /\ Fill!Collection(b) \in jobs' => Fill!Collection(b) \in jobs
    /\ Fill!Collection(b) \in jobs /\ Fill!Collection(b) \notin jobs' /\ ~ cut' =>
         \A r \in Fill!Run : opened'[r].batch = b => opened'[r].state # "running"

TakesKnown(w) ==
  \A b \in Fill!Batch :
    /\ job'[w] = Fill!Collection(b) => job[w] = Fill!Collection(b) \/ Fill!Collection(b) \in jobs
    /\ Attaches(w, b)' => Attaches(w, b)

SentKeeps == \A b \in Fill!Batch : sent[b].runs # {} => sent'[b].runs # {}

LEMMA BatchesKeep ==
  ASSUME WatchInv, NEW w \in Worker, OnlyOf(w), QueueKeeps, TakesKnown(w), SentKeeps
  PROVE  UnsentUnknown' /\ AttachedFirst'
<1>1. \A b \in Fill!Batch : Collects(b)' => Collects(b)
  BY DEF Collects, OnlyOf, Same, QueueKeeps, TakesKnown
<1>2. \A v \in Worker, b \in Fill!Batch : Attaches(v, b)' => Attaches(v, b)
  BY DEF Attaches, OnlyOf, Same, TakesKnown
<1> QED
  BY <1>1, <1>2 DEF WatchInv, UnsentUnknown, AttachedFirst, SentKeeps

LEMMA GatheredKeeps ==
  ASSUME WatchInv, NEW w \in Worker, OnlyOf(w), OpenWere, StillCollected(w), Bounded
  PROVE  GatheredAll'
<1> SUFFICES ASSUME NEW v \in Worker, NEW b \in Fill!Batch, NEW r \in Fill!Run,
                    job'[v] = Fill!Collection(b), doing'[v] \in Collected,
                    opened'[r].state = "running", opened'[r].batch = b
             PROVE  r \in hand'[v]
  BY DEF GatheredAll, Collected, Reading
<1>1. opened[r].state = "running" /\ opened[r].batch = b
  BY RunsAreNumbers DEF OpenWere
<1>2. job[v] = Fill!Collection(b) /\ doing[v] \in Collected
  BY DEF OnlyOf, Same, StillCollected
<1>3. r \in hand[v]
  BY <1>1, <1>2 DEF WatchInv, GatheredAll, Collected, Reading
<1> QED BY <1>3 DEF OnlyOf, Same, StillCollected

LEMMA AloneKeeps ==
  ASSUME WatchInv, NEW w \in Worker, OnlyOf(w), OpenWere, HoldsOn(w), cut => cut'
  PROVE  AloneIsHeld'
<1> SUFFICES ASSUME ~ cut', NEW r \in Fill!Run, opened'[r].state = "running", opened'[r].batch = 0
             PROVE  \E v \in Worker : doing'[v] \in Holding /\ r \in hand'[v]
  BY DEF AloneIsHeld
<1>1. CASE opened[r].state = "running" /\ opened[r].batch = 0
  <2>1. PICK v \in Worker : doing[v] \in Holding /\ r \in hand[v]
    BY <1>1 DEF WatchInv, AloneIsHeld
  <2> QED BY <2>1 DEF OnlyOf, Same, HoldsOn
<1> QED BY <1>1 DEF OpenWere

LEMMA BatchedKeeps ==
  ASSUME WatchInv, NEW w \in Worker, OnlyOf(w), OpenWere, HoldsOn(w), QueueKeeps, cut => cut',
         RunTypes'
  PROVE  BatchedIsHeld'
<1> SUFFICES ASSUME ~ cut', NEW r \in Fill!Run, opened'[r].state = "running", opened'[r].batch # 0
             PROVE  \/ Fill!Collection(opened'[r].batch) \in jobs'
                    \/ \E v \in Worker : doing'[v] = "collect" /\ batch'[v] = opened'[r].batch
                                         /\ r \in hand'[v]
  BY DEF BatchedIsHeld
<1>1. opened[r].state = "running" /\ opened'[r].batch = opened[r].batch
  BY DEF OpenWere
<1>2. opened'[r].batch \in Fill!Batch
  BY DEF RunTypes, RunRow
<1>3. CASE Fill!Collection(opened[r].batch) \in jobs
  BY <1>1, <1>2, <1>3 DEF QueueKeeps
<1>4. ASSUME NEW v \in Worker, doing[v] = "collect", batch[v] = opened[r].batch, r \in hand[v]
      PROVE  doing'[v] = "collect" /\ batch'[v] = opened'[r].batch /\ r \in hand'[v]
  BY <1>1, <1>4 DEF OnlyOf, Same, HoldsOn
<1> QED BY <1>1, <1>3, <1>4 DEF WatchInv, BatchedIsHeld

\* All of a step that does nothing out of the ordinary.
Plain(w) ==
  /\ OnlyOf(w) /\ OpenWere /\ HoldsOn(w) /\ StillCollected(w) /\ QueueKeeps /\ TakesKnown(w)
  /\ SentKeeps /\ (cut => cut')

LEMMA PlainStep ==
  ASSUME Bounded, WatchInv, NEW w \in Worker, Plain(w), FillTypes', StageFits', HandFits'
  PROVE  WatchInv'
<1>1. RunTypes'
  BY DEF FillTypes
<1> QED
  BY <1>1, BatchesKeep, GatheredKeeps, AloneKeeps, BatchedKeeps DEF Plain, WatchInv

LEMMA LeaveTypes ==
  ASSUME WorkerTypes, NEW w \in Worker, NEW left, Fill!Leave(w, left)
  PROVE  WorkerTypes'
BY DEF WorkerTypes, Fill!Leave, Fill!Goto, Fill!With

LEMMA ClosedTypes ==
  ASSUME RunTypes, NEW r \in Fill!Run, NEW ends \in {"failed", "skipped", "succeeded"},
         NEW cost \in Nat, opened' = Fill!Closed(r, ends, cost)
  PROVE  RunTypes'
<1>1. [opened[r] EXCEPT !.state = ends, !.cost = cost] \in RunRow
  BY DEF RunTypes, RunRow
<1>2. opened' = [opened EXCEPT ![r] = [opened[r] EXCEPT !.state = ends, !.cost = cost]]
  BY DEF RunTypes, RunRow, Fill!Closed
<1> QED BY <1>1, <1>2 DEF RunTypes, RunRow

LEMMA WatchBegin ==
  ASSUME Bounded, WatchInv, NEW w \in Worker, NEW j \in jobs, Fill!Begin(w, j)
  PROVE  WatchInv'
<1>1. RunTypes'
  BY DEF WatchInv, FillTypes, RunTypes, RunRow, Fill!rows, Fill!Begin
<1>2. JobTypes'
  BY DEF WatchInv, FillTypes, JobTypes, Fill!Begin
<1>3. WorkerTypes'
  BY KindsDiffer, KindOf DEF WatchInv, FillTypes, JobTypes, WorkerTypes, Fill!Begin,
     Fill!Goto, Fill!FirstStep, Submitting, Collecting, Describing
<1>4. FillTypes'
  BY <1>1, <1>2, <1>3 DEF WatchInv, FillTypes, SentTypes, Fill!Begin
<1>5. StageFits'
  BY KindsDiffer, KindOf DEF WatchInv, FillTypes, JobTypes, WorkerTypes, StageFits,
     Fill!Begin, Fill!Goto, Fill!FirstStep, Submitting, Collecting, Describing
<1>6. HandFits'
  BY DEF WatchInv, FillTypes, HandFits, Fill!Begin, Fill!Goto, Fill!FirstStep
<1>7. OnlyOf(w)
  BY DEF WatchInv, FillTypes, OnlyOf, Same, Fill!Begin, Fill!Goto
<1>8. OpenWere
  BY DEF WatchInv, FillTypes, OpenWere, Fill!rows, Fill!Begin
<1>9. HoldsOn(w)
  BY DEF WatchInv, FillTypes, HandFits, HoldsOn, Fill!Begin
<1>10. StillCollected(w)
  BY DEF WatchInv, FillTypes, StillCollected, Collected, Reading, Fill!Begin, Fill!Goto,
     Fill!FirstStep
<1>11. QueueKeeps
  BY DEF WatchInv, FillTypes, QueueKeeps, Fill!Begin
<1>12. TakesKnown(w)
  BY DEF WatchInv, FillTypes, TakesKnown, Attaches, Fill!Begin, Fill!Goto, Fill!FirstStep
<1>13. SentKeeps /\ (cut => cut')
  BY DEF SentKeeps, Fill!Begin
<1> QED
  BY <1>4, <1>5, <1>6, <1>7, <1>8, <1>9, <1>10, <1>11, <1>12, <1>13, PlainStep DEF Plain

LEMMA WatchComplete ==
  ASSUME Bounded, WatchInv, NEW w \in Worker, Fill!Complete(w)
  PROVE  WatchInv'
<1>1. RunTypes'
  BY DEF WatchInv, FillTypes, RunTypes, RunRow, Fill!rows, Fill!Complete
<1>2. JobTypes'
  BY DEF WatchInv, FillTypes, JobTypes, Fill!Complete, Fill!Leave, Fill!Without
<1>3. WorkerTypes'
  BY DEF WatchInv, FillTypes, WorkerTypes, Fill!Complete, Fill!Leave, Fill!Goto, Fill!With
<1>4. FillTypes'
  BY <1>1, <1>2, <1>3 DEF WatchInv, FillTypes, SentTypes, Fill!history, Fill!Complete
<1>5. StageFits'
  BY DEF WatchInv, FillTypes, JobTypes, StageFits, Fill!Complete, Fill!Leave, Fill!Goto,
     Submitting, Collecting, Describing
<1>6. HandFits'
  BY DEF WatchInv, FillTypes, HandFits, Fill!Complete, Fill!Leave, Fill!Goto, Fill!With
<1>7. OnlyOf(w)
  BY DEF WatchInv, FillTypes, OnlyOf, Same, Fill!Complete, Fill!Leave, Fill!Goto,
     Fill!With
<1>8. OpenWere
  BY DEF WatchInv, FillTypes, OpenWere, Fill!rows, Fill!Complete
<1>9. HoldsOn(w)
  BY DEF WatchInv, FillTypes, HandFits, HoldsOn, Fill!Complete
<1>10. StillCollected(w)
  BY KindsDiffer DEF WatchInv, FillTypes, JobTypes, StillCollected, Collected,
     Fill!Complete, Fill!Leave
<1>11. QueueKeeps
  <2>1. doing[w] = "end" /\ hand[w] = {} /\ jobs' = jobs \ {job[w]} /\ opened' = opened
    BY DEF WatchInv, HandFits, Fill!Complete, Fill!Leave, Fill!Without, Fill!rows
  <2>2. \A b \in Fill!Batch : job[w] = Fill!Collection(b) =>
          \A r \in Fill!Run : opened[r].batch = b => opened[r].state # "running"
    BY <2>1 DEF WatchInv, GatheredAll
  <2> QED BY <2>1, <2>2 DEF QueueKeeps
<1>12. TakesKnown(w)
  BY RunsAreNumbers, KindsDiffer DEF WatchInv, FillTypes, WorkerTypes, TakesKnown,
     Attaches, Fill!Complete, Fill!Leave
<1>13. SentKeeps /\ (cut => cut')
  BY DEF SentKeeps, Fill!history, Fill!Complete
<1> QED
  BY <1>4, <1>5, <1>6, <1>7, <1>8, <1>9, <1>10, <1>11, <1>12, <1>13, PlainStep DEF Plain

LEMMA WatchCut ==
  ASSUME Bounded, WatchInv, NEW w \in Worker, Fill!Cut(w)
  PROVE  WatchInv'
<1>1. RunTypes'
  BY DEF WatchInv, FillTypes, RunTypes, RunRow, Fill!rows, Fill!Cut
<1>2. JobTypes'
  BY DEF WatchInv, FillTypes, JobTypes, Fill!Cut, Fill!Leave, Fill!Without, Fill!Retried
<1>3. WorkerTypes'
  BY DEF WatchInv, FillTypes, WorkerTypes, Fill!Cut, Fill!Leave, Fill!Goto, Fill!With
<1>4. FillTypes'
  BY <1>1, <1>2, <1>3 DEF WatchInv, FillTypes, SentTypes, Fill!Cut
<1>5. StageFits'
  BY DEF WatchInv, FillTypes, JobTypes, WorkerTypes, StageFits, Fill!Cut, Fill!Leave,
     Fill!Goto, Submitting, Collecting, Describing
<1>6. HandFits'
  BY DEF WatchInv, FillTypes, WorkerTypes, HandFits, Fill!Cut, Fill!Leave, Fill!Goto,
     Fill!With
<1>7. OnlyOf(w)
  BY DEF WatchInv, FillTypes, OnlyOf, Same, Fill!Cut, Fill!Leave, Fill!Goto, Fill!With
<1>8. OpenWere
  BY DEF WatchInv, FillTypes, OpenWere, Fill!rows, Fill!Cut
<1>9. HoldsOn(w)
  <2>1. CASE doing[w] \in Holding \cup {"collect"}
    <3>1. job[w][1] # "collect"
      BY <2>1, KindsDiffer DEF WatchInv, StageFits, Holding, Submitting, Describing
    <3>2. cut' \/ hand[w] = {}
      BY <3>1 DEF Fill!Cut
    <3> QED BY <3>2 DEF HoldsOn
  <2> QED BY <2>1 DEF HoldsOn
<1>10. StillCollected(w)
  BY KindsDiffer DEF WatchInv, FillTypes, JobTypes, StillCollected, Collected, Fill!Cut,
     Fill!Leave
<1>11. QueueKeeps
  <2>1. PICK left \in {jobs, jobs \ {job[w]}} :
          /\ jobs' = left
          /\ cut' = (cut \/ IF job[w][1] = "collect" THEN left # jobs ELSE hand[w] # {})
    BY DEF Fill!Cut, Fill!Leave, Fill!Retried, Fill!Without
  <2>2. \A b \in Fill!Batch : Fill!Collection(b) \in jobs /\ Fill!Collection(b) \notin jobs' => cut'
    BY <2>1, KindsDiffer
  <2> QED BY <2>1, <2>2 DEF QueueKeeps
<1>12. TakesKnown(w)
  BY RunsAreNumbers, KindsDiffer DEF WatchInv, FillTypes, WorkerTypes, TakesKnown,
     Attaches, Fill!Cut, Fill!Leave
<1>13. SentKeeps /\ (cut => cut')
  BY DEF SentKeeps, Fill!Cut
<1> QED
  BY <1>4, <1>5, <1>6, <1>7, <1>8, <1>9, <1>10, <1>11, <1>12, <1>13, PlainStep DEF Plain

LEMMA WatchCharge ==
  ASSUME Bounded, WatchInv, NEW w \in Worker, Fill!Charge(w)
  PROVE  WatchInv'
<1>1. RunTypes'
  BY DEF WatchInv, FillTypes, RunTypes, RunRow, Fill!Charge
<1>2. JobTypes'
  BY DEF WatchInv, FillTypes, JobTypes, Fill!Charge
<1>3. WorkerTypes'
  BY DEF WatchInv, FillTypes, WorkerTypes, Fill!Charge, Fill!Goto, Collecting
<1>4. FillTypes'
  BY <1>1, <1>2, <1>3 DEF WatchInv, FillTypes, SentTypes, Fill!history, Fill!Charge
<1>5. StageFits'
  BY DEF WatchInv, FillTypes, StageFits, Fill!Charge, Fill!Goto, Submitting, Collecting,
     Describing
<1>6. HandFits'
  BY DEF WatchInv, FillTypes, HandFits, Fill!Charge, Fill!ToApply, Fill!Goto
<1>7. OnlyOf(w)
  BY DEF WatchInv, FillTypes, OnlyOf, Same, Fill!Charge, Fill!Goto
<1>8. OpenWere
  BY DEF WatchInv, FillTypes, OpenWere, Fill!Charge
<1>9. HoldsOn(w)
  BY DEF WatchInv, FillTypes, HoldsOn, Holding, Fill!Charge
<1>10. StillCollected(w)
  BY KindsDiffer DEF WatchInv, FillTypes, WorkerTypes, StageFits, StillCollected,
     Collected, Reading, Fill!Charge, Collecting
<1>11. QueueKeeps
  BY DEF WatchInv, FillTypes, QueueKeeps, Fill!Charge
<1>12. TakesKnown(w)
  BY DEF WatchInv, FillTypes, TakesKnown, Attaches, Fill!Charge, Fill!Goto
<1>13. SentKeeps /\ (cut => cut')
  BY DEF SentKeeps, Fill!history, Fill!Charge
<1> QED
  BY <1>4, <1>5, <1>6, <1>7, <1>8, <1>9, <1>10, <1>11, <1>12, <1>13, PlainStep DEF Plain

LEMMA WatchList ==
  ASSUME Bounded, WatchInv, NEW w \in Worker, Fill!List(w)
  PROVE  WatchInv'
<1>1. RunTypes'
  BY DEF WatchInv, FillTypes, RunTypes, RunRow, Fill!rows, Fill!List
<1>2. JobTypes'
  BY DEF WatchInv, FillTypes, JobTypes, Fill!List
<1>3. WorkerTypes'
  <2>1. Fill!FirstOf(Fill!Outstanding) \subseteq Fill!Asset
    BY DEF WatchInv, FillTypes, Fill!FirstOf, Fill!Outstanding
  <2> QED
    BY <2>1 DEF WatchInv, FillTypes, WorkerTypes, Fill!List, Fill!Goto, Submitting
<1>4. FillTypes'
  BY <1>1, <1>2, <1>3 DEF WatchInv, FillTypes, SentTypes, Fill!history, Fill!List
<1>5. StageFits'
  BY DEF WatchInv, FillTypes, WorkerTypes, StageFits, Fill!List, Fill!Goto, Collecting,
     Describing
<1>6. HandFits'
  BY DEF WatchInv, FillTypes, WorkerTypes, HandFits, Fill!List, Fill!Goto
<1>7. OnlyOf(w)
  BY DEF WatchInv, FillTypes, WorkerTypes, OnlyOf, Same, Fill!List, Fill!Goto
<1>8. OpenWere
  BY DEF WatchInv, FillTypes, OpenWere, Fill!rows, Fill!List
<1>9. HoldsOn(w)
  BY DEF WatchInv, FillTypes, HandFits, HoldsOn, Fill!List
<1>10. StillCollected(w)
  BY KindsDiffer DEF WatchInv, FillTypes, StageFits, StillCollected, Collected, Fill!List,
     Submitting
<1>11. QueueKeeps
  BY DEF WatchInv, FillTypes, QueueKeeps, Fill!List
<1>12. TakesKnown(w)
  BY DEF WatchInv, FillTypes, WorkerTypes, TakesKnown, Attaches, Fill!List, Fill!Goto
<1>13. SentKeeps /\ (cut => cut')
  BY DEF SentKeeps, Fill!history, Fill!List
<1> QED
  BY <1>4, <1>5, <1>6, <1>7, <1>8, <1>9, <1>10, <1>11, <1>12, <1>13, PlainStep DEF Plain

LEMMA WatchOpen ==
  ASSUME Bounded, WatchInv, NEW w \in Worker, Fill!Open(w)
  PROVE  WatchInv'
<1>0. /\ Fill!Min(pick[w]) \in pick[w] /\ Fill!Min(pick[w]) \in Fill!Asset
      /\ Fill!Min(Fill!Fresh) \in Fill!Run /\ opened[Fill!Min(Fill!Fresh)].state = "absent"
  BY RunsAreNumbers, LeastIn DEF WatchInv, FillTypes, WorkerTypes, Fill!Fresh, Fill!Open
<1>1. RunTypes'
  BY <1>0 DEF WatchInv, FillTypes, RunTypes, RunRow, Fill!Open, Fill!Opened
<1>2. JobTypes'
  BY <1>0 DEF WatchInv, FillTypes, JobTypes, Fill!Open
<1>3. WorkerTypes'
  BY <1>0 DEF WatchInv, FillTypes, WorkerTypes, Fill!Open, Fill!Goto, Fill!With,
     Submitting
<1>4. FillTypes'
  BY <1>1, <1>2, <1>3 DEF WatchInv, FillTypes, SentTypes, Fill!history, Fill!Open
<1>5. StageFits'
  BY <1>0 DEF WatchInv, FillTypes, WorkerTypes, StageFits, Fill!Open, Fill!Goto,
     Collecting, Describing
<1>6. HandFits'
  BY <1>0 DEF WatchInv, FillTypes, WorkerTypes, HandFits, Fill!Open, Fill!Goto,
     Fill!With, Collecting
<1>7. OnlyOf(w)
  BY DEF WatchInv, FillTypes, OnlyOf, Same, Fill!Open, Fill!Goto, Fill!With
<1>8. OpenWere
  <2>1. doing'[w] \in Holding /\ Fill!Min(Fill!Fresh) \in hand'[w]
    BY <1>0 DEF WatchInv, FillTypes, WorkerTypes, Fill!Open, Fill!Goto, Fill!With, Holding
  <2>2. /\ opened'[Fill!Min(Fill!Fresh)].batch = 0
        /\ \A r \in Fill!Run \ {Fill!Min(Fill!Fresh)} : opened'[r] = opened[r]
    BY <1>0 DEF WatchInv, FillTypes, RunTypes, RunRow, Fill!Open, Fill!Opened
  <2> QED BY <2>1, <2>2 DEF OpenWere
<1>9. HoldsOn(w)
  BY <1>0 DEF WatchInv, FillTypes, HoldsOn, Holding, Fill!Open, Fill!Goto, Fill!With
<1>10. StillCollected(w)
  BY <1>0 DEF WatchInv, FillTypes, StillCollected, Collected, Reading, Fill!Open,
     Fill!Goto
<1>11. QueueKeeps
  BY <1>0 DEF WatchInv, FillTypes, QueueKeeps, Fill!Open
<1>12. TakesKnown(w)
  BY <1>0 DEF WatchInv, FillTypes, TakesKnown, Attaches, Fill!Open, Fill!Goto
<1>13. SentKeeps /\ (cut => cut')
  BY DEF SentKeeps, Fill!history, Fill!Open
<1> QED
  BY <1>4, <1>5, <1>6, <1>7, <1>8, <1>9, <1>10, <1>11, <1>12, <1>13, PlainStep DEF Plain

LEMMA WatchClose ==
  ASSUME Bounded, WatchInv, NEW w \in Worker, Fill!Close(w)
  PROVE  WatchInv'
<1>1. RunTypes'
  <2>1. \A r \in Fill!Run : [opened[r] EXCEPT !.state = "failed"] \in RunRow
    BY DEF WatchInv, FillTypes, RunTypes, RunRow
  <2> QED BY <2>1 DEF WatchInv, FillTypes, RunTypes, RunRow, Fill!Close
<1>2. JobTypes'
  BY DEF WatchInv, FillTypes, JobTypes, Fill!Close, Fill!Leave, Fill!Without, Fill!Retried
<1>3. WorkerTypes'
  BY DEF WatchInv, FillTypes, WorkerTypes, Fill!Close, Fill!Leave, Fill!Goto, Fill!With
<1>4. FillTypes'
  BY <1>1, <1>2, <1>3 DEF WatchInv, FillTypes, SentTypes, Fill!history, Fill!Close
<1>5. StageFits'
  BY DEF WatchInv, FillTypes, JobTypes, WorkerTypes, StageFits, Fill!Close, Fill!Leave,
     Fill!Goto, Submitting, Collecting, Describing
<1>6. HandFits'
  BY DEF WatchInv, FillTypes, WorkerTypes, HandFits, Fill!Close, Fill!Leave, Fill!Goto,
     Fill!With
<1>7. OnlyOf(w)
  BY DEF WatchInv, FillTypes, OnlyOf, Same, Fill!Close, Fill!Leave, Fill!Goto, Fill!With
<1>8. OpenWere
  BY DEF WatchInv, FillTypes, OpenWere, Fill!Close
<1>9. HoldsOn(w)
  BY DEF WatchInv, FillTypes, WorkerTypes, HoldsOn, Fill!Close
<1>10. StillCollected(w)
  BY KindsDiffer DEF WatchInv, FillTypes, JobTypes, StillCollected, Collected,
     Fill!Close, Fill!Leave
<1>11. QueueKeeps
  BY KindsDiffer DEF WatchInv, FillTypes, StageFits, QueueKeeps, Fill!Close, Fill!Leave,
     Fill!Without, Fill!Retried, Submitting
<1>12. TakesKnown(w)
  BY RunsAreNumbers, KindsDiffer DEF WatchInv, FillTypes, WorkerTypes, TakesKnown,
     Attaches, Fill!Close, Fill!Leave
<1>13. SentKeeps /\ (cut => cut')
  BY DEF SentKeeps, Fill!history, Fill!Close
<1> QED
  BY <1>4, <1>5, <1>6, <1>7, <1>8, <1>9, <1>10, <1>11, <1>12, <1>13, PlainStep DEF Plain

LEMMA WatchAbandon ==
  ASSUME Bounded, WatchInv, NEW w \in Worker, Fill!Abandon(w)
  PROVE  WatchInv'
<1>0. hand[w] # {} => Fill!Min(hand[w]) \in hand[w]
  BY RunsAreNumbers, LeastIn DEF WatchInv, FillTypes, WorkerTypes
<1>1. RunTypes'
  BY <1>0, ClosedTypes DEF WatchInv, FillTypes, RunTypes, RunRow, WorkerTypes,
     Fill!Abandon
<1>2. JobTypes'
  BY <1>0 DEF WatchInv, FillTypes, JobTypes, Fill!Abandon, Fill!Leave, Fill!Without
<1>3. WorkerTypes'
  <2>1. CASE hand[w] # {}
    BY <2>1 DEF WatchInv, FillTypes, WorkerTypes, Fill!Abandon, Fill!With
  <2> QED BY <2>1, LeaveTypes DEF WatchInv, FillTypes, WorkerTypes, Fill!Abandon
<1>4. FillTypes'
  BY <1>1, <1>2, <1>3 DEF WatchInv, FillTypes, SentTypes, Fill!history, Fill!Abandon
<1>5. StageFits'
  BY <1>0 DEF WatchInv, FillTypes, JobTypes, WorkerTypes, StageFits, Fill!Abandon,
     Fill!Leave, Fill!Goto, Submitting, Collecting, Describing
<1>6. HandFits'
  BY <1>0 DEF WatchInv, FillTypes, WorkerTypes, HandFits, Fill!Abandon, Fill!Leave,
     Fill!Goto, Fill!With
<1>7. OnlyOf(w)
  BY DEF WatchInv, FillTypes, JobTypes, WorkerTypes, OnlyOf, Same, Fill!Abandon,
     Fill!Leave, Fill!Goto, Fill!With
<1>8. OpenWere
  BY <1>0 DEF WatchInv, FillTypes, RunTypes, RunRow, OpenWere, Fill!Abandon, Fill!Closed
<1>9. HoldsOn(w)
  BY <1>0 DEF WatchInv, FillTypes, HoldsOn, Holding, Fill!Abandon
<1>10. StillCollected(w)
  BY KindsDiffer, <1>0 DEF WatchInv, FillTypes, JobTypes, WorkerTypes, RunTypes, RunRow,
     StillCollected, Collected, Fill!Abandon, Fill!Closed, Fill!Leave, Fill!With
<1>11. QueueKeeps
  BY <1>0 DEF WatchInv, FillTypes, GatheredAll, QueueKeeps, Fill!Abandon, Fill!Leave,
     Fill!Without
<1>12. TakesKnown(w)
  BY RunsAreNumbers, KindsDiffer, <1>0 DEF WatchInv, FillTypes, JobTypes, WorkerTypes,
     TakesKnown, Attaches, Fill!Abandon, Fill!Leave
<1>13. SentKeeps /\ (cut => cut')
  BY DEF SentKeeps, Fill!history, Fill!Abandon
<1> QED
  BY <1>4, <1>5, <1>6, <1>7, <1>8, <1>9, <1>10, <1>11, <1>12, <1>13, PlainStep DEF Plain

LEMMA WatchPoll ==
  ASSUME Bounded, WatchInv, NEW w \in Worker, Fill!Poll(w)
  PROVE  WatchInv'
<1>1. RunTypes'
  BY DEF WatchInv, FillTypes, RunTypes, RunRow, Fill!rows, Fill!Poll
<1>2. JobTypes'
  BY DEF WatchInv, FillTypes, JobTypes, Fill!Poll, Fill!Leave, Fill!Retried
<1>3. WorkerTypes'
  <2>1. CASE Fill!Leave(w, Fill!Retried)
    BY <2>1, LeaveTypes DEF WatchInv, FillTypes
  <2> QED BY <2>1 DEF WatchInv, FillTypes, WorkerTypes, Fill!Poll, Fill!Goto, Collecting
<1>4. FillTypes'
  BY <1>1, <1>2, <1>3 DEF WatchInv, FillTypes, SentTypes, Fill!history, Fill!Poll
<1>5. StageFits'
  BY DEF WatchInv, FillTypes, JobTypes, WorkerTypes, StageFits, Fill!Poll, Fill!Leave,
     Fill!Goto, Submitting, Collecting, Describing
<1>6. HandFits'
  BY DEF WatchInv, FillTypes, WorkerTypes, HandFits, Fill!Poll, Fill!Leave, Fill!Goto,
     Fill!With
<1>7. OnlyOf(w)
  BY DEF WatchInv, FillTypes, JobTypes, WorkerTypes, OnlyOf, Same, Fill!Poll,
     Fill!Leave, Fill!Goto, Fill!With
<1>8. OpenWere
  BY DEF WatchInv, FillTypes, OpenWere, Fill!rows, Fill!Poll
<1>9. HoldsOn(w)
  BY DEF WatchInv, FillTypes, HoldsOn, Holding, Fill!Poll
<1>10. StillCollected(w)
  BY KindsDiffer DEF WatchInv, FillTypes, JobTypes, StillCollected, Collected, Reading,
     Fill!Poll, Fill!Leave
<1>11. QueueKeeps
  BY DEF WatchInv, FillTypes, QueueKeeps, Fill!Poll, Fill!Leave, Fill!Retried
<1>12. TakesKnown(w)
  BY KindsDiffer DEF WatchInv, FillTypes, JobTypes, WorkerTypes, TakesKnown, Attaches,
     Fill!Poll, Fill!Leave, Fill!Goto
<1>13. SentKeeps /\ (cut => cut')
  BY DEF SentKeeps, Fill!history, Fill!Poll
<1> QED
  BY <1>4, <1>5, <1>6, <1>7, <1>8, <1>9, <1>10, <1>11, <1>12, <1>13, PlainStep DEF Plain

LEMMA WatchApply ==
  ASSUME Bounded, WatchInv, NEW w \in Worker, Fill!Apply(w)
  PROVE  WatchInv'
<1>a. PICK r \in hand[w], ends \in {"succeeded", "failed", "skipped"}, cost \in Nat :
        /\ r \in Fill!Run /\ opened' = Fill!Closed(r, ends, cost)
        /\ hand' = [hand EXCEPT ![w] = hand[w] \ {r}]
  <2>1. batch[w] \in Fill!Batch /\ hand[w] \subseteq Fill!Run
    BY DEF WatchInv, FillTypes, WorkerTypes, StageFits, Fill!Apply, Collecting
  <2>2. hand[w] # {} /\ Fill!Min(hand[w]) \in hand[w]
    BY <2>1, RunsAreNumbers, LeastIn DEF Fill!Apply, Fill!ToApply
  <2>3. sent[batch[w]].says[Fill!Min(hand[w])] \in Fill!Answer
    BY <2>1, <2>2 DEF WatchInv, FillTypes, SentTypes
  <2>4. \A answer \in Fill!Answer :
          /\ Fill!Outcome(answer).state \in {"succeeded", "failed", "skipped"}
          /\ Fill!Outcome(answer).cost \in Nat
    BY DEF Fill!Outcome, Fill!Answer
  <2> QED BY <2>1, <2>2, <2>3, <2>4 DEF Fill!Apply, Fill!ToApply, Fill!With
<1>b. /\ opened'[r].state # "running" /\ \A x \in Fill!Run \ {r} : opened'[x] = opened[x]
      /\ opened'[r].batch = opened[r].batch
  BY <1>a DEF WatchInv, FillTypes, RunTypes, RunRow, Fill!Closed
<1>1. RunTypes'
  BY <1>a, ClosedTypes DEF WatchInv, FillTypes
<1>2. JobTypes'
  BY <1>a, <1>b DEF WatchInv, FillTypes, JobTypes, Fill!Apply
<1>3. WorkerTypes'
  BY DEF WatchInv, FillTypes, WorkerTypes, Fill!Apply, Fill!With
<1>4. FillTypes'
  BY <1>1, <1>2, <1>3 DEF WatchInv, FillTypes, SentTypes, Fill!history, Fill!Apply
<1>5. StageFits'
  BY DEF WatchInv, StageFits, Fill!Apply, Describing, FillTypes
<1>6. HandFits'
  BY <1>a DEF WatchInv, HandFits, FillTypes, Fill!Apply
<1>7. OnlyOf(w)
  BY DEF WatchInv, FillTypes, OnlyOf, Same, Fill!Apply, Fill!With
<1>8. OpenWere
  BY SMTT(60), <1>a, <1>b DEF OpenWere
<1>9. HoldsOn(w)
  BY DEF HoldsOn, Holding, Fill!Apply
<1>10. StillCollected(w)
  BY SMTT(60), <1>a, <1>b DEF WatchInv, FillTypes, StillCollected, Fill!Apply
<1>11. QueueKeeps
  BY DEF QueueKeeps, Fill!Apply
<1>12. TakesKnown(w)
  BY <1>a, <1>b DEF WatchInv, FillTypes, TakesKnown, Attaches, Fill!Apply
<1>13. SentKeeps /\ (cut => cut')
  BY DEF SentKeeps, Fill!history, Fill!Apply
<1> QED
  BY SMTT(60), <1>4, <1>5, <1>6, <1>7, <1>8, <1>9, <1>10, <1>11, <1>12, <1>13, PlainStep DEF Plain

LEMMA WatchNextSlice ==
  ASSUME Bounded, WatchInv, NEW w \in Worker, Fill!NextSlice(w)
  PROVE  WatchInv'
<1>1. RunTypes'
  BY DEF WatchInv, FillTypes, RunTypes, RunRow, Fill!rows, Fill!NextSlice
<1>2. JobTypes'
  BY DEF WatchInv, FillTypes, JobTypes, Fill!NextSlice, JobKind
<1>3. WorkerTypes'
  BY DEF WatchInv, FillTypes, WorkerTypes, Fill!NextSlice, Fill!Goto
<1>4. FillTypes'
  BY <1>1, <1>2, <1>3 DEF WatchInv, FillTypes, SentTypes, Fill!history, Fill!NextSlice
<1>5. StageFits'
  BY DEF WatchInv, FillTypes, WorkerTypes, StageFits, Fill!NextSlice, Fill!Goto,
     Submitting, Describing
<1>6. HandFits'
  BY DEF WatchInv, FillTypes, HandFits, Fill!NextSlice, Fill!Goto
<1>7. OnlyOf(w)
  BY DEF WatchInv, FillTypes, OnlyOf, Same, Fill!NextSlice, Fill!Goto
<1>8. OpenWere
  BY DEF WatchInv, FillTypes, OpenWere, Fill!rows, Fill!NextSlice
<1>9. HoldsOn(w)
  BY DEF WatchInv, FillTypes, HandFits, HoldsOn, Fill!NextSlice
<1>10. StillCollected(w)
  BY DEF WatchInv, FillTypes, StillCollected, Collected, Fill!NextSlice
<1>11. QueueKeeps
  BY KindsDiffer DEF WatchInv, FillTypes, QueueKeeps, Fill!NextSlice
<1>12. TakesKnown(w)
  BY DEF WatchInv, FillTypes, TakesKnown, Attaches, Fill!NextSlice, Fill!Goto
<1>13. SentKeeps /\ (cut => cut')
  BY DEF SentKeeps, Fill!history, Fill!NextSlice
<1> QED
  BY <1>4, <1>5, <1>6, <1>7, <1>8, <1>9, <1>10, <1>11, <1>12, <1>13, PlainStep DEF Plain

LEMMA WatchStartOne ==
  ASSUME Bounded, WatchInv, NEW w \in Worker, Fill!StartOne(w)
  PROVE  WatchInv'
<1>0. Fill!Min(Fill!Fresh) \in Fill!Fresh
  BY RunsAreNumbers, LeastIn DEF WatchInv, FillTypes, Fill!Fresh, Fill!StartOne
<1>1. RunTypes'
  BY KindsDiffer, <1>0 DEF WatchInv, FillTypes, WorkerTypes, RunTypes, RunRow, StageFits,
     Fill!StartOne, Fill!Opened, Fill!Fresh, Fill!Opened, Submitting, Collecting
<1>2. JobTypes'
  BY <1>0 DEF WatchInv, FillTypes, JobTypes, Fill!StartOne
<1>3. WorkerTypes'
  BY <1>0 DEF WatchInv, FillTypes, WorkerTypes, Fill!StartOne, Fill!Fresh, Fill!Goto,
     Fill!With, Describing
<1>4. FillTypes'
  BY <1>1, <1>2, <1>3 DEF WatchInv, FillTypes, SentTypes, Fill!history, Fill!StartOne
<1>5. StageFits'
  BY <1>0 DEF WatchInv, FillTypes, WorkerTypes, StageFits, Fill!StartOne, Fill!Goto,
     Submitting, Collecting
<1>6. HandFits'
  BY <1>0 DEF WatchInv, FillTypes, WorkerTypes, HandFits, Fill!StartOne, Fill!Fresh,
     Fill!Goto, Fill!With
<1>7. OnlyOf(w)
  BY DEF WatchInv, FillTypes, OnlyOf, Same, Fill!StartOne, Fill!Goto, Fill!With
<1>8. OpenWere
  BY <1>0 DEF WatchInv, FillTypes, WorkerTypes, OpenWere, Holding, Fill!StartOne,
     Fill!Opened, Fill!Goto, Fill!With
<1>9. HoldsOn(w)
  BY <1>0 DEF WatchInv, FillTypes, HandFits, HoldsOn, Fill!StartOne
<1>10. StillCollected(w)
  BY <1>0 DEF WatchInv, FillTypes, StillCollected, Collected, Reading, Fill!StartOne,
     Fill!Goto
<1>11. QueueKeeps
  BY <1>0 DEF WatchInv, FillTypes, QueueKeeps, Fill!StartOne
<1>12. TakesKnown(w)
  BY <1>0 DEF WatchInv, FillTypes, TakesKnown, Attaches, Fill!StartOne, Fill!Goto
<1>13. SentKeeps /\ (cut => cut')
  BY DEF SentKeeps, Fill!history, Fill!StartOne
<1> QED
  BY <1>4, <1>5, <1>6, <1>7, <1>8, <1>9, <1>10, <1>11, <1>12, <1>13, PlainStep DEF Plain

LEMMA WatchReady ==
  ASSUME Bounded, WatchInv, NEW w \in Worker, Fill!Ready(w)
  PROVE  WatchInv'
<1>0. PICK r \in Fill!Run : hand[w] = {r} /\ Fill!Min(hand[w]) = r
  <2>1. PICK r \in Fill!Run : hand[w] = {r}
    BY DEF WatchInv, HandFits, Fill!Ready
  <2>2. Fill!Min({r}) \in {r}
    BY RunsAreNumbers, LeastIn
  <2> QED BY <2>1, <2>2
<1>a. opened' = opened \/ opened' = Fill!Closed(r, "skipped", 0)
  BY <1>0 DEF Fill!Ready
<1>b. /\ \A x \in Fill!Run \ {r} : opened'[x] = opened[x]
      /\ opened'[r] = opened[r] \/ opened'[r].state # "running"
  BY <1>a DEF WatchInv, FillTypes, RunTypes, RunRow, Fill!Closed
<1>1. RunTypes'
  BY <1>a, ClosedTypes DEF WatchInv, FillTypes, RunTypes, RunRow
<1>2. JobTypes'
  BY <1>0 DEF WatchInv, FillTypes, JobTypes, Fill!Ready, Fill!Leave, Fill!Without,
     Fill!Retried
<1>3. WorkerTypes'
  <2>1. CASE \E left \in {Fill!Retried, Fill!Without(w)} : Fill!Leave(w, left)
    BY <2>1, LeaveTypes DEF WatchInv, FillTypes
  <2> QED
    BY <2>1 DEF WatchInv, FillTypes, WorkerTypes, Fill!Ready, Fill!Goto, Fill!With,
       Describing
<1>4. FillTypes'
  BY <1>1, <1>2, <1>3 DEF WatchInv, FillTypes, SentTypes, Fill!Ready
<1>5. StageFits'
  BY <1>0 DEF WatchInv, FillTypes, JobTypes, WorkerTypes, StageFits, Fill!Ready,
     Fill!Leave, Fill!Goto, Submitting, Collecting, Describing
<1>6. HandFits'
  BY <1>0 DEF WatchInv, FillTypes, WorkerTypes, HandFits, Fill!Ready, Fill!Leave,
     Fill!Goto, Fill!With
<1>7. OnlyOf(w)
  BY DEF WatchInv, FillTypes, JobTypes, WorkerTypes, OnlyOf, Same, Fill!Ready,
     Fill!Leave, Fill!Goto, Fill!With
<1>8. OpenWere
  BY <1>b DEF OpenWere
<1>9. HoldsOn(w)
  BY <1>0 DEF WatchInv, FillTypes, WorkerTypes, RunTypes, RunRow, HoldsOn, Holding,
     Fill!Ready, Fill!Closed, Fill!Goto
<1>10. StillCollected(w)
  BY KindsDiffer, <1>0 DEF WatchInv, FillTypes, JobTypes, WorkerTypes, StageFits,
     StillCollected, Collected, Fill!Ready, Fill!Leave, Collecting
<1>11. QueueKeeps
  BY <1>0 DEF WatchInv, FillTypes, QueueKeeps, Fill!Ready, Fill!Leave, Fill!Without,
     Fill!Retried
<1>12. TakesKnown(w)
  BY KindsDiffer, <1>0 DEF WatchInv, FillTypes, JobTypes, WorkerTypes, TakesKnown,
     Attaches, Fill!Ready, Fill!Leave, Fill!Goto
<1>13. SentKeeps /\ (cut => cut')
  BY DEF SentKeeps, Fill!Ready
<1> QED
  BY <1>4, <1>5, <1>6, <1>7, <1>8, <1>9, <1>10, <1>11, <1>12, <1>13, PlainStep DEF Plain

LEMMA WatchCall ==
  ASSUME Bounded, WatchInv, NEW w \in Worker, Fill!Call(w)
  PROVE  WatchInv'
<1>0. PICK r \in Fill!Run : hand[w] = {r} /\ Fill!Min(hand[w]) = r
  <2>1. PICK r \in Fill!Run : hand[w] = {r}
    BY DEF WatchInv, HandFits, Fill!Call
  <2>2. Fill!Min({r}) \in {r}
    BY RunsAreNumbers, LeastIn
  <2> QED BY <2>1, <2>2
<1>a. \E ends \in {"succeeded", "skipped", "failed"}, cost \in Nat :
        opened' = Fill!Closed(r, ends, cost)
  BY <1>0 DEF Fill!Call, Fill!OneCost
<1>b. /\ \A x \in Fill!Run \ {r} : opened'[x] = opened[x]
      /\ opened'[r].state # "running"
  BY <1>a DEF WatchInv, FillTypes, RunTypes, RunRow, Fill!Closed
<1>1. RunTypes'
  BY <1>a, ClosedTypes DEF WatchInv, FillTypes
<1>2. JobTypes'
  BY <1>0 DEF WatchInv, FillTypes, JobTypes, Fill!Call, Fill!Leave, Fill!Without,
     Fill!Retried
<1>3. WorkerTypes'
  <2>1. CASE \E left \in {Fill!Retried, Fill!Without(w)} : Fill!Leave(w, left)
    BY <2>1, LeaveTypes DEF WatchInv, FillTypes
  <2> QED
    BY <2>1 DEF WatchInv, FillTypes, WorkerTypes, Fill!Call, Fill!Goto, Fill!With,
       Describing
<1>4. FillTypes'
  BY <1>1, <1>2, <1>3 DEF WatchInv, FillTypes, SentTypes, Fill!history, Fill!Call
<1>5. StageFits'
  BY <1>0 DEF WatchInv, FillTypes, JobTypes, WorkerTypes, StageFits, Fill!Call,
     Fill!Leave, Fill!Goto, Submitting, Collecting, Describing
<1>6. HandFits'
  BY <1>0 DEF WatchInv, FillTypes, WorkerTypes, HandFits, Fill!Call, Fill!Leave,
     Fill!Goto, Fill!With
<1>7. OnlyOf(w)
  BY DEF WatchInv, FillTypes, JobTypes, WorkerTypes, OnlyOf, Same, Fill!Call,
     Fill!Leave, Fill!Goto, Fill!With
<1>8. OpenWere
  BY <1>b DEF OpenWere
<1>9. HoldsOn(w)
  BY RunsAreNumbers, <1>0 DEF WatchInv, FillTypes, RunTypes, RunRow, HoldsOn, Fill!Call,
     Fill!Closed
<1>10. StillCollected(w)
  BY KindsDiffer, <1>0 DEF WatchInv, FillTypes, JobTypes, WorkerTypes, StageFits,
     StillCollected, Collected, Fill!Call, Fill!Leave, Collecting
<1>11. QueueKeeps
  BY KindsDiffer, <1>0 DEF WatchInv, FillTypes, WorkerTypes, StageFits, QueueKeeps,
     Fill!Call, Fill!Leave, Fill!Without, Fill!Retried, Collecting
<1>12. TakesKnown(w)
  BY KindsDiffer, <1>0 DEF WatchInv, FillTypes, JobTypes, WorkerTypes, TakesKnown,
     Attaches, Fill!Call, Fill!Leave, Fill!Goto
<1>13. SentKeeps /\ (cut => cut')
  BY DEF SentKeeps, Fill!history, Fill!Call
<1> QED
  BY <1>4, <1>5, <1>6, <1>7, <1>8, <1>9, <1>10, <1>11, <1>12, <1>13, PlainStep DEF Plain

LEMMA WatchPost ==
  ASSUME Bounded, WatchInv, NEW w \in Worker, Fill!Post(w)
  PROVE  WatchInv'
<1>1. RunTypes'
  BY DEF WatchInv, FillTypes, RunTypes, RunRow, Fill!rows, Fill!Post
<1>2. JobTypes'
  BY DEF WatchInv, FillTypes, JobTypes, Fill!Post
<1>3. WorkerTypes'
  BY DEF WatchInv, FillTypes, WorkerTypes, Fill!Post, Fill!Goto, Submitting
<1>4. FillTypes'
  <2>1. SentTypes'
    BY SMTT(60) DEF WatchInv, FillTypes, SentTypes, WorkerTypes, Fill!Post
  <2> QED BY <1>1, <1>2, <1>3, <2>1 DEF WatchInv, FillTypes, Fill!history, Fill!Post
<1>5. StageFits'
  BY DEF WatchInv, FillTypes, WorkerTypes, StageFits, Fill!Post, Fill!Goto, Collecting,
     Describing
<1>6. HandFits'
  BY DEF WatchInv, FillTypes, WorkerTypes, HandFits, Fill!Post, Fill!Goto
<1>7. OnlyOf(w)
  BY DEF WatchInv, FillTypes, WorkerTypes, OnlyOf, Same, Fill!Post, Fill!Goto
<1>8. OpenWere
  BY DEF WatchInv, FillTypes, OpenWere, Fill!rows, Fill!Post
<1>9. HoldsOn(w)
  BY DEF WatchInv, FillTypes, WorkerTypes, HoldsOn, Holding, Fill!Post, Fill!Goto
<1>10. StillCollected(w)
  BY DEF WatchInv, FillTypes, WorkerTypes, StillCollected, Collected, Reading,
     Fill!Post, Fill!Goto
<1>11. QueueKeeps
  BY DEF WatchInv, FillTypes, QueueKeeps, Fill!Post
<1>12. SentKeeps /\ (cut => cut')
  BY DEF WatchInv, FillTypes, SentTypes, SentKeeps, Fill!history, Fill!Post, Fill!NoBatch
<1>13. UnsentUnknown' /\ AttachedFirst'
  <2>1. /\ \A b \in Fill!Batch : sent'[b].runs = {} => sent[b].runs = {}
        /\ \A b \in Fill!Batch : Collects(b)' <=> Collects(b)
        /\ \A v \in Worker, b \in Fill!Batch : v # w => (Attaches(v, b)' <=> Attaches(v, b))
    BY <1>7, <1>12 DEF SentKeeps, Collects, Attaches, OnlyOf, Same, Fill!Post
  <2>2. \A b \in Fill!Batch : Attaches(w, b)' => sent[b].runs = {} /\ sent'[b].runs # {}
    BY DEF WatchInv, FillTypes, SentTypes, WorkerTypes, HandFits, Fill!Post,
       Fill!NoBatch, Fill!Goto, Attaches
  <2> QED BY <2>1, <2>2 DEF WatchInv, UnsentUnknown, AttachedFirst
<1> QED
  BY <1>1, <1>4, <1>5, <1>6, <1>7, <1>8, <1>9, <1>10, <1>11, <1>12, <1>13, GatheredKeeps,
     AloneKeeps, BatchedKeeps DEF WatchInv

LEMMA WatchAttachBatch ==
  ASSUME Bounded, WatchInv, NEW w \in Worker, Fill!AttachBatch(w)
  PROVE  WatchInv'
<1>1. RunTypes'
  <2>1. \A r \in Fill!Run : [opened[r] EXCEPT !.batch = batch[w]] \in RunRow
    BY ZenonT(60) DEF WatchInv, FillTypes, RunTypes, RunRow, WorkerTypes
  <2> QED BY <2>1 DEF WatchInv, FillTypes, RunTypes, RunRow, Fill!AttachBatch
<1>2. JobTypes'
  BY DEF WatchInv, FillTypes, JobTypes, Fill!AttachBatch
<1>3. WorkerTypes'
  BY DEF WatchInv, FillTypes, WorkerTypes, Fill!AttachBatch, Fill!Goto, Submitting
<1>4. FillTypes'
  BY <1>1, <1>2, <1>3 DEF WatchInv, FillTypes, SentTypes, Fill!history, Fill!AttachBatch
<1>5. StageFits'
  BY DEF WatchInv, FillTypes, WorkerTypes, StageFits, Fill!AttachBatch, Fill!Goto,
     Collecting, Describing
<1>6. HandFits'
  BY DEF WatchInv, FillTypes, HandFits, Fill!AttachBatch, Fill!Goto
<1>7. OnlyOf(w)
  BY DEF WatchInv, FillTypes, OnlyOf, Same, Fill!AttachBatch, Fill!Goto
<1>8. /\ batch[w] \in Fill!Batch /\ Attaches(w, batch[w])
      /\ \A r \in Fill!Run : /\ opened'[r].state = opened[r].state
                         /\ opened'[r].batch = IF r \in hand[w] THEN batch[w] ELSE opened[r].batch
  BY DEF WatchInv, FillTypes, StageFits, Attaches, Fill!AttachBatch
<1>9. AloneIsHeld'
  BY <1>7, <1>8, RunsAreNumbers DEF WatchInv, AloneIsHeld, OnlyOf, Same, Fill!AttachBatch,
     Fill!history
<1>10. GatheredAll'
  <2> SUFFICES ASSUME NEW v \in Worker, NEW b \in Fill!Batch, NEW r \in Fill!Run,
                      job[v] = Fill!Collection(b), doing'[v] \in Collected,
                      opened[r].state = "running", opened'[r].batch = b
               PROVE  r \in hand[v]
    BY <1>8 DEF GatheredAll, Fill!AttachBatch, Collected, Reading
  <2>1. Collects(b) /\ r \notin hand[w]
    BY <1>8 DEF WatchInv, AttachedFirst, Collects
  <2>2. v # w
    BY DEF WatchInv, FillTypes, Fill!AttachBatch, Fill!Goto, Collected, Reading
  <2> QED
    BY <1>7, <1>8, <2>1, <2>2 DEF WatchInv, GatheredAll, OnlyOf, Same, Collected, Reading
<1>11. BatchedIsHeld'
  <2>1. doing'[w] = "collect" /\ batch'[w] = batch[w] /\ hand'[w] = hand[w] /\ jobs' = jobs
        /\ doing[w] # "collect"
    BY DEF WatchInv, FillTypes, WorkerTypes, Fill!AttachBatch, Fill!Goto
  <2> QED
    BY <1>7, <1>8, <2>1 DEF WatchInv, BatchedIsHeld, OnlyOf, Same, Fill!AttachBatch,
       Fill!history
<1>12. SentKeeps /\ (cut => cut')
  BY DEF SentKeeps, Fill!history, Fill!AttachBatch
<1>13. UnsentUnknown' /\ AttachedFirst'
  <2>1. QueueKeeps /\ TakesKnown(w)
    BY DEF WatchInv, FillTypes, QueueKeeps, TakesKnown, Attaches, Fill!AttachBatch
  <2> QED BY <1>7, <1>12, <2>1, BatchesKeep
<1> QED
  BY <1>4, <1>5, <1>6, <1>9, <1>10, <1>11, <1>13 DEF WatchInv

LEMMA WatchEnqueueCollect ==
  ASSUME Bounded, WatchInv, NEW w \in Worker, Fill!EnqueueCollect(w)
  PROVE  WatchInv'
<1>1. RunTypes'
  BY DEF WatchInv, FillTypes, RunTypes, RunRow, Fill!rows, Fill!EnqueueCollect
<1>2. JobTypes'
  BY DEF WatchInv, FillTypes, JobTypes, JobKind, StageFits, Fill!EnqueueCollect
<1>3. WorkerTypes'
  BY DEF WatchInv, FillTypes, WorkerTypes, Fill!EnqueueCollect, Fill!With, Fill!Goto
<1>4. FillTypes'
  BY <1>1, <1>2, <1>3 DEF WatchInv, FillTypes, SentTypes, Fill!history,
     Fill!EnqueueCollect
<1>5. StageFits'
  BY DEF WatchInv, FillTypes, WorkerTypes, StageFits, Fill!EnqueueCollect, Fill!Goto,
     Collecting, Describing
<1>6. HandFits'
  BY DEF WatchInv, FillTypes, WorkerTypes, HandFits, Fill!EnqueueCollect, Fill!With,
     Fill!Goto
<1>7. OnlyOf(w)
  BY DEF WatchInv, FillTypes, OnlyOf, Same, Fill!EnqueueCollect, Fill!With, Fill!Goto
<1>8. OpenWere
  BY DEF WatchInv, FillTypes, OpenWere, Fill!rows, Fill!EnqueueCollect
<1>9. AloneIsHeld'
  BY <1>7 DEF WatchInv, AloneIsHeld, OnlyOf, Same, Holding, Fill!EnqueueCollect,
     Fill!rows, Fill!history
<1>10. StillCollected(w)
  BY KindsDiffer DEF WatchInv, FillTypes, StageFits, StillCollected, Collected,
     Fill!EnqueueCollect, Submitting
<1>11. BatchedIsHeld'
  BY <1>7 DEF WatchInv, FillTypes, BatchedIsHeld, OnlyOf, Same, Fill!EnqueueCollect,
     Fill!rows, Fill!history
<1>12. UnsentUnknown' /\ AttachedFirst'
  <2>1. batch[w] \in Fill!Batch /\ Attaches(w, batch[w]) /\ sent[batch[w]].runs # {}
    BY DEF WatchInv, StageFits, UnsentUnknown, Attaches, Fill!EnqueueCollect
  <2>2. /\ \A b \in Fill!Batch : b # batch[w] => (Collects(b)' <=> Collects(b))
        /\ \A v \in Worker, b \in Fill!Batch : Attaches(v, b)' => v # w /\ Attaches(v, b)
    BY <1>7, KindsDiffer DEF WatchInv, FillTypes, WorkerTypes, Collects, Attaches,
       Fill!EnqueueCollect, Fill!Goto
  <2> QED BY <2>1, <2>2 DEF WatchInv, UnsentUnknown, AttachedFirst, Fill!EnqueueCollect
<1> QED
  BY <1>4, <1>5, <1>6, <1>7, <1>8, <1>9, <1>10, <1>11, <1>12, GatheredKeeps DEF WatchInv

LEMMA WatchGather ==
  ASSUME Bounded, WatchInv, NEW w \in Worker, Fill!Gather(w)
  PROVE  WatchInv'
<1>1. RunTypes'
  BY DEF WatchInv, FillTypes, RunTypes, RunRow, Fill!rows, Fill!Gather
<1>2. JobTypes'
  BY DEF WatchInv, FillTypes, JobTypes, Fill!Gather
<1>3. WorkerTypes'
  BY DEF WatchInv, FillTypes, WorkerTypes, Fill!Gather, Fill!With, Fill!Goto, Collecting
<1>4. FillTypes'
  BY <1>1, <1>2, <1>3 DEF WatchInv, FillTypes, SentTypes, Fill!history, Fill!Gather
<1>5. StageFits'
  BY DEF WatchInv, FillTypes, WorkerTypes, StageFits, Fill!Gather, Fill!Goto,
     Submitting, Describing
<1>6. HandFits'
  BY DEF WatchInv, FillTypes, WorkerTypes, HandFits, Fill!Gather, Fill!With, Fill!Goto
<1>7. OnlyOf(w)
  BY DEF WatchInv, FillTypes, OnlyOf, Same, Fill!Gather, Fill!With, Fill!Goto
<1>8. OpenWere
  BY DEF WatchInv, FillTypes, OpenWere, Fill!rows, Fill!Gather
<1>9. HoldsOn(w)
  BY DEF WatchInv, FillTypes, HandFits, HoldsOn, Fill!Gather
<1>10. GatheredAll'
  <2>1. hand'[w] = {r \in Fill!Run : opened[r].batch = batch[w] /\ opened[r].state = "running"}
    BY DEF WatchInv, FillTypes, WorkerTypes, Fill!Gather, Fill!With
  <2>2. job[w] = Fill!Collection(batch[w])
    BY DEF WatchInv, StageFits, Fill!Gather, Collecting
  <2> QED
    BY <1>7, <2>1, <2>2, KindsDiffer DEF WatchInv, GatheredAll, OnlyOf, Same,
       Fill!Gather, Fill!rows
<1>11. QueueKeeps
  BY DEF WatchInv, FillTypes, QueueKeeps, Fill!Gather
<1>12. TakesKnown(w)
  BY DEF WatchInv, FillTypes, TakesKnown, Attaches, Fill!Gather, Fill!Goto
<1>13. SentKeeps /\ (cut => cut')
  BY DEF SentKeeps, Fill!history, Fill!Gather
<1> QED
  BY <1>1, <1>4, <1>5, <1>6, <1>7, <1>8, <1>9, <1>10, <1>11, <1>12, <1>13, BatchesKeep,
     AloneKeeps, BatchedKeeps DEF WatchInv

\* A step of no worker.
Outside ==
  \/ Fill!Ask \/ Fill!Enqueue \/ Fill!Withdraw
  \/ \E a \in Fill!Asset : Fill!AskOne(a) \/ Fill!Derive(a)
  \/ \E b \in Fill!Batch : Fill!BatchEnds(b)

LEMMA OutsideEffect ==
  ASSUME WatchInv, Outside
  PROVE  /\ UNCHANGED <<opened, Fill!worker, Fill!history>> /\ SentTypes' /\ SentKeeps
         /\ jobs \subseteq jobs' /\ jobs' \subseteq JobKind /\ proxied' \subseteq Fill!Asset
         /\ \A b \in Fill!Batch : Fill!Collection(b) \in jobs' => Fill!Collection(b) \in jobs
<1>1. UNCHANGED <<opened, Fill!worker, Fill!history>> /\ proxied' \subseteq Fill!Asset
  BY DEF Outside, Fill!Ask, Fill!Enqueue, Fill!Withdraw, Fill!AskOne, Fill!Derive,
     Fill!BatchEnds, WatchInv, FillTypes, Fill!rows
<1>2. /\ jobs \subseteq jobs' /\ jobs' \subseteq JobKind
      /\ \A b \in Fill!Batch : Fill!Collection(b) \in jobs' => Fill!Collection(b) \in jobs
  BY KindsDiffer DEF Outside, Fill!Ask, Fill!Enqueue, Fill!Withdraw, Fill!AskOne,
     Fill!Derive, Fill!BatchEnds, WatchInv, FillTypes, JobTypes, JobKind
<1>3. SentTypes' /\ SentKeeps
  <2>1. CASE sent' = sent
    BY <2>1 DEF SentKeeps, WatchInv, FillTypes, SentTypes
  <2>2. ASSUME NEW b \in Fill!Batch, Fill!BatchEnds(b) PROVE SentTypes' /\ SentKeeps
    <3>1. PICK says \in [sent[b].runs -> Fill!Answer] :
            sent' = [sent EXCEPT ![b].ended = TRUE,
                      ![b].says = [r \in Fill!Run |->
                        IF r \in sent[b].runs THEN says[r] ELSE "missing"]]
      BY <2>2 DEF Fill!BatchEnds
    <3>2. [r \in Fill!Run |-> IF r \in sent[b].runs THEN says[r] ELSE "missing"]
            \in [Fill!Run -> Fill!Answer]
      BY DEF Fill!Answer
    <3> DEFINE heard == [r \in Fill!Run |-> IF r \in sent[b].runs THEN says[r] ELSE "missing"]
    <3> HIDE DEF heard
    <3>3. /\ heard \in [Fill!Run -> Fill!Answer]
          /\ sent' = [sent EXCEPT ![b].ended = TRUE, ![b].says = heard]
      BY <3>1, <3>2 DEF heard
    <3>4. sent' = [sent EXCEPT ![b] = [sent[b] EXCEPT !.ended = TRUE, !.says = heard]]
      BY <3>3 DEF WatchInv, FillTypes
    <3> DEFINE then == [sent[b] EXCEPT !.ended = TRUE, !.says = heard]
    <3>5. sent[b] \in [runs : SUBSET Fill!Run, ended : BOOLEAN, says : [Fill!Run -> Fill!Answer]]
      BY DEF WatchInv, FillTypes, SentTypes
    <3>6. /\ then \in [runs : SUBSET Fill!Run, ended : BOOLEAN, says : [Fill!Run -> Fill!Answer]]
          /\ then.runs = sent[b].runs
      BY <3>3, <3>5
    <3>7. \A c \in Fill!Batch : sent'[c] = IF c = b THEN then ELSE sent[c]
      BY <3>4 DEF WatchInv, FillTypes, SentTypes
    <3> HIDE DEF then
    <3>8. sent' = [sent EXCEPT ![b] = then]
      BY <3>4 DEF then
    <3> QED BY <3>6, <3>7, <3>8 DEF WatchInv, FillTypes, SentTypes, SentKeeps
  <2> QED
    BY <2>1, <2>2 DEF Outside, Fill!Ask, Fill!Enqueue, Fill!Withdraw, Fill!AskOne,
       Fill!Derive
<1> QED BY <1>1, <1>2, <1>3

LEMMA WatchOutside ==
  ASSUME WatchInv, Outside
  PROVE  WatchInv'
<1>1. UNCHANGED <<opened, job, doing, pick, hand, batch, any, cut, lapsed>>
  BY OutsideEffect DEF Fill!worker, Fill!history
<1>2. FillTypes'
  BY <1>1, OutsideEffect DEF WatchInv, FillTypes, RunTypes, RunRow, JobTypes, WorkerTypes
<1>3. \A b \in Fill!Batch : Collects(b)' <=> Collects(b)
  BY <1>1, OutsideEffect DEF Collects
<1>4. UnsentUnknown' /\ AttachedFirst'
  BY <1>1, <1>3, OutsideEffect DEF WatchInv, UnsentUnknown, AttachedFirst, Attaches,
     SentKeeps
<1>5. StageFits' /\ HandFits' /\ GatheredAll' /\ AloneIsHeld'
  BY <1>1 DEF WatchInv, StageFits, HandFits, GatheredAll, AloneIsHeld
<1>6. BatchedIsHeld'
  BY <1>1, OutsideEffect DEF WatchInv, BatchedIsHeld
<1> QED BY <1>2, <1>4, <1>5, <1>6 DEF WatchInv

LEMMA WatchStep ==
  ASSUME Bounded, WatchInv, [Fill!Next]_(Fill!vars)
  PROVE  WatchInv'
<1>1. CASE Outside
  BY <1>1, WatchOutside
<1>2. ASSUME NEW w \in Worker, Fill!Step(w) PROVE WatchInv'
  BY <1>2, WatchBegin, WatchComplete, WatchCharge, WatchList, WatchOpen, WatchPost,
     WatchAttachBatch, WatchEnqueueCollect, WatchClose, WatchGather, WatchAbandon,
     WatchPoll, WatchApply, WatchNextSlice, WatchStartOne, WatchReady, WatchCall DEF
     Fill!Step
<1>3. ASSUME NEW w \in Worker, Fill!Cut(w) PROVE WatchInv'
  BY <1>3, WatchCut
<1>4. CASE UNCHANGED Fill!vars
  BY <1>4 DEF Fill!vars, Fill!rows, Fill!worker, Fill!history, WatchInv, FillTypes,
     RunTypes, RunRow, SentTypes, JobTypes, WorkerTypes, StageFits, HandFits,
     UnsentUnknown, AttachedFirst, Collects, Attaches, GatheredAll, AloneIsHeld,
     BatchedIsHeld
<1> QED BY <1>1, <1>2, <1>3, <1>4 DEF Fill!Next, Outside

LEMMA Watching == WatchInv => OpenIsWatched
BY DEF WatchInv, AloneIsHeld, BatchedIsHeld, OpenIsWatched, Fill!OpenIsWatched, Fill!Held,
   Fill!Collectable

\* Who has an open run, in Backfill under any interleaving, and any number of
\* workers, assets, runs and batches.
THEOREM WatchInvariance == Bounded => (Fill!Spec => []WatchInv)
<1> SUFFICES ASSUME Bounded PROVE Fill!Spec => []WatchInv
  OBVIOUS
<1>1. Fill!Init => WatchInv
  BY WatchInitially
<1>2. WatchInv /\ [Fill!Next]_(Fill!vars) => WatchInv'
  BY WatchStep
<1> QED BY <1>1, <1>2, PTL DEF Fill!Spec

\* A run that is open keeps its asset off the work list; somebody will close it, a
\* worker or a collection that is queued, unless a submission or a description ended
\* halfway, or a collection was given up on.
THEOREM OpenIsWatchedAlways == Bounded => (Fill!Spec => []OpenIsWatched)
<1> SUFFICES ASSUME Bounded PROVE Fill!Spec => []OpenIsWatched
  OBVIOUS
<1> QED BY WatchInvariance, Watching, PTL

----------------------------------------------------------------------------

LEMMA SubmitInitially == ASSUME Fill!Init PROVE SubmitInv
<1>1. Fill!NoRun.state = "absent" /\ Fill!NoRun.batch = 0
  BY DEF Fill!NoRun
<1> QED
  BY <1>1 DEF Fill!Init, SubmitInv, SliceInv, OneWorkerEach, HeldIsOpen, HeldOnce,
     CollectedIsOpen, SliceIsApart, SliceIsNew, CountsOnce, Counts, AbsentIsBlank,
     Holding, Reading

\* Workers that hold runs they will still write hold different ones.
Writing == Holding \cup Reading

LEMMA HandsApart ==
  ASSUME Bounded, WatchInv, SliceInv, NEW v \in Worker, NEW w \in Worker, v # w,
         doing[v] \in Writing, doing[w] \in Writing
  PROVE  hand[v] \cap hand[w] = {}
<1>1. CASE doing[v] \in Holding /\ doing[w] \in Holding
  BY <1>1 DEF SliceInv, HeldOnce
<1>2. \A u \in Worker : doing[u] \in Reading =>
        batch[u] \in Fill!Batch /\ job[u] = Fill!Collection(batch[u])
  BY DEF WatchInv, StageFits, Reading, Collecting
<1>3. CASE doing[v] \in Reading /\ doing[w] \in Reading
  <2>1. batch[v] # batch[w]
    BY <1>2, <1>3, KindsDiffer DEF SliceInv, OneWorkerEach
  <2> QED BY <1>3, <2>1 DEF SliceInv, CollectedIsOpen
<1> QED
  BY <1>1, <1>2, <1>3, RunsAreNumbers DEF Writing, SliceInv, HeldIsOpen, CollectedIsOpen

\* What most steps do: w closes runs it holds, and lets go of them; it holds no
\* more, and is about the same thing or about nothing.
OnlyCloses(w) ==
  /\ OnlyOf(w)
  /\ \A r \in Fill!Run : opened'[r] = opened[r] \/
       /\ doing[w] \in Writing /\ r \in hand[w] \ hand'[w]
       /\ opened'[r].state \in {"succeeded", "failed", "skipped"}
       /\ opened'[r].batch = opened[r].batch /\ opened'[r].asset = opened[r].asset
  /\ hand'[w] \subseteq hand[w] /\ pick'[w] \subseteq pick[w]
  /\ doing'[w] \in Holding => doing[w] \in Holding
  /\ doing'[w] \in Reading => doing[w] \in Reading /\ batch'[w] = batch[w]
  /\ doing'[w] \in Slicing => doing[w] \in Slicing

LEMMA ClosingStep ==
  ASSUME Bounded, WatchInv, SliceInv, NEW w \in Worker, OnlyCloses(w), OneWorkerEach',
         hand \in [Worker -> SUBSET Fill!Run]
  PROVE  SliceInv'
<1>1. \A v \in Worker : /\ hand'[v] \subseteq hand[v] /\ pick'[v] \subseteq pick[v]
                        /\ doing'[v] \in Holding => doing[v] \in Holding
                        /\ doing'[v] \in Reading => doing[v] \in Reading /\ batch'[v] = batch[v]
                        /\ doing'[v] \in Slicing => doing[v] \in Slicing
  BY DEF OnlyCloses, OnlyOf, Same
<1>2. ASSUME NEW v \in Worker, doing'[v] \in Writing, NEW r \in hand'[v]
      PROVE  opened'[r] = opened[r]
  <2>1. r \in hand[v] /\ r \in Fill!Run /\ doing[v] \in Writing
    BY <1>1, <1>2 DEF Writing
  <2>2. CASE v # w
    BY <2>1, <2>2, HandsApart DEF OnlyCloses
  <2> QED BY <1>2, <2>1, <2>2 DEF OnlyCloses
<1>3. HeldIsOpen' /\ HeldOnce' /\ CollectedIsOpen'
  BY <1>1, <1>2 DEF SliceInv, HeldIsOpen, HeldOnce, CollectedIsOpen, Writing
<1>4. \A r \in Fill!Run : Counts(r)' => Counts(r)
  BY DEF Counts, OnlyCloses, SliceInv, HeldIsOpen, CollectedIsOpen, Writing
<1>5. \A r \in Fill!Run : opened'[r].asset = opened[r].asset
  BY DEF OnlyCloses
<1>6. SliceIsApart'
  BY <1>1, <1>5 DEF SliceInv, SliceIsApart
<1>7. SliceIsNew'
  BY <1>1, <1>4, <1>5 DEF SliceInv, SliceIsNew
<1>8. CountsOnce'
  BY <1>4, <1>5 DEF SliceInv, CountsOnce
<1>9. AbsentIsBlank'
  BY DEF SliceInv, AbsentIsBlank, OnlyCloses
<1> QED BY <1>3, <1>6, <1>7, <1>8, <1>9 DEF SliceInv

\* A step that gives w a run for an asset that it holds alone, and the run to w.
Opens(w, r, a) ==
  /\ OnlyOf(w) /\ r \in Fill!Run /\ opened[r].state = "absent"
  /\ opened'[r].state = "running" /\ opened'[r].batch = 0 /\ opened'[r].asset = a
  /\ \A s \in Fill!Run \ {r} : opened'[s] = opened[s]
  /\ doing'[w] \in Holding /\ job'[w] = job[w]
  /\ hand'[w] = {r} \/ (hand'[w] = hand[w] \cup {r} /\ doing[w] \in Holding)

LEMMA OpeningStep ==
  ASSUME Bounded, WatchInv, SliceInv, NEW w \in Worker, NEW r, NEW a, Opens(w, r, a)
  PROVE  /\ OneWorkerEach' /\ HeldIsOpen' /\ HeldOnce' /\ CollectedIsOpen' /\ CountsOnce'
         /\ AbsentIsBlank'
         /\ \A s \in Fill!Run : Counts(s)' => Counts(s) /\ s # r
         /\ \A v \in Worker : doing[v] \in Writing => r \notin hand[v]
<1>1. \A v \in Worker : doing[v] \in Writing => r \notin hand[v]
  BY DEF Writing, SliceInv, HeldIsOpen, CollectedIsOpen, Opens
<1>2. \A s \in Fill!Run : Counts(s)' => Counts(s) /\ s # r
  BY DEF Counts, Opens
<1>3. OneWorkerEach'
  BY DEF SliceInv, OneWorkerEach, Opens, OnlyOf, Same
<1>4. hand \in [Worker -> SUBSET Fill!Run]
  BY DEF WatchInv, FillTypes, WorkerTypes
<1>5. HeldIsOpen'
  BY <1>1, <1>4 DEF SliceInv, HeldIsOpen, Opens, OnlyOf, Same
<1>6. HeldOnce'
  BY <1>1, <1>4 DEF SliceInv, HeldOnce, Opens, OnlyOf, Same, Writing
<1>7. CollectedIsOpen'
  BY <1>1, <1>4 DEF SliceInv, CollectedIsOpen, Opens, OnlyOf, Same, Writing, Holding,
     Reading
<1>8. CountsOnce'
  BY <1>2 DEF SliceInv, CountsOnce, Opens
<1>9. AbsentIsBlank'
  BY DEF SliceInv, AbsentIsBlank, Opens
<1> QED BY <1>1, <1>2, <1>3, <1>5, <1>6, <1>7, <1>8, <1>9

LEMMA ClosedEffect ==
  ASSUME RunTypes, NEW r \in Fill!Run, NEW ends, NEW cost, opened' = Fill!Closed(r, ends, cost)
  PROVE  /\ opened'[r].state = ends
         /\ opened'[r].batch = opened[r].batch /\ opened'[r].asset = opened[r].asset
         /\ \A x \in Fill!Run \ {r} : opened'[x] = opened[x]
BY DEF RunTypes, RunRow, Fill!Closed

LEMMA LeaveEffect ==
  ASSUME JobTypes, WorkerTypes, NEW w \in Worker, NEW left, Fill!Leave(w, left)
  PROVE  OnlyOf(w) /\ job'[w] = Fill!Idle /\ doing'[w] = "idle" /\ pick'[w] = {} /\ hand'[w] = {}
BY DEF JobTypes, WorkerTypes, Fill!Leave, Fill!Goto, Fill!With, OnlyOf, Same

\* What a call, a description that is not one, or the next result makes of its run.
LEMMA AnswerEffect ==
  ASSUME Bounded, WatchInv, NEW w \in Worker,
         Fill!Apply(w) \/ Fill!Call(w) \/ Fill!Ready(w) \/ Fill!Abandon(w)
  PROVE  opened' = opened \/ \E r \in hand[w] \ hand'[w], cost \in Nat,
                          ends \in {"succeeded", "failed", "skipped"} :
                         r \in Fill!Run /\ opened' = Fill!Closed(r, ends, cost)
<1>1. hand[w] \subseteq Fill!Run /\ Fill!Run \subseteq Nat
  BY RunsAreNumbers DEF WatchInv, FillTypes, WorkerTypes
<1>2. hand[w] # {} => Fill!Min(hand[w]) \in hand[w] /\ Fill!Min(hand[w]) \in Fill!Run
  BY <1>1, LeastIn
<1>3. doing[w] \in {"off", "bare", "ready", "call"} => hand[w] # {}
  BY DEF WatchInv, HandFits
<1>4. CASE Fill!Call(w)
  <2>1. hand'[w] = {}
    BY <1>4, LeaveEffect DEF WatchInv, FillTypes, WorkerTypes, Fill!Call, Fill!With
  <2> QED BY <1>2, <1>3, <1>4, <2>1 DEF Fill!Call, Fill!OneCost
<1>5. CASE Fill!Ready(w)
  <2>1. opened' = opened \/ hand'[w] = {}
    BY <1>5 DEF WatchInv, FillTypes, WorkerTypes, Fill!Ready, Fill!With
  <2> QED BY <1>2, <1>3, <1>5, <2>1 DEF Fill!Ready
<1>6. CASE Fill!Abandon(w)
  <2>1. opened' = opened \/ (hand[w] # {} /\ hand'[w] = hand[w] \ {Fill!Min(hand[w])})
    BY SMTT(60), <1>6 DEF WatchInv, FillTypes, WorkerTypes, Fill!Abandon, Fill!With
  <2> QED BY <1>2, <1>6, <2>1 DEF Fill!Abandon
<1>7. CASE Fill!Apply(w)
  <2>1. hand[w] # {} /\ hand'[w] = hand[w] \ {Fill!Min(hand[w])} /\ batch[w] \in Fill!Batch
    BY <1>7 DEF WatchInv, FillTypes, WorkerTypes, StageFits, Fill!Apply, Fill!ToApply,
       Fill!With, Collecting
  <2>2. sent[batch[w]].says[Fill!Min(hand[w])] \in Fill!Answer
    BY <1>2, <2>1 DEF WatchInv, FillTypes, SentTypes
  <2>3. \A answer \in Fill!Answer :
          /\ Fill!Outcome(answer).state \in {"succeeded", "failed", "skipped"}
          /\ Fill!Outcome(answer).cost \in Nat
    BY DEF Fill!Outcome, Fill!Answer
  <2> QED BY <1>2, <1>7, <2>1, <2>2, <2>3 DEF Fill!Apply, Fill!ToApply
<1> QED BY <1>4, <1>5, <1>6, <1>7

Ends(w) ==
  \/ Fill!Complete(w) \/ Fill!Cut(w) \/ Fill!Charge(w) \/ Fill!Post(w) \/ Fill!EnqueueCollect(w)
  \/ Fill!Close(w) \/ Fill!Abandon(w) \/ Fill!Poll(w) \/ Fill!Apply(w) \/ Fill!NextSlice(w)
  \/ Fill!Ready(w) \/ Fill!Call(w)

LEMMA EndsClose ==
  ASSUME Bounded, WatchInv, NEW w \in Worker, Ends(w)
  PROVE  OnlyCloses(w) /\ job'[w] \in {job[w], Fill!Idle}
<1> USE DEF WatchInv, FillTypes
<1>1. CASE \E left : Fill!Leave(w, left)
  <2>1. OnlyOf(w) /\ job'[w] = Fill!Idle /\ doing'[w] = "idle" /\ pick'[w] = {} /\ hand'[w] = {}
    BY <1>1, LeaveEffect
  <2>2. CASE Fill!Close(w)
    <3>1. \A r \in Fill!Run : opened'[r] = opened[r] \/
           /\ r \in hand[w] /\ opened'[r].state = "failed"
           /\ opened'[r].batch = opened[r].batch /\ opened'[r].asset = opened[r].asset
      BY <2>2 DEF Fill!Close
    <3>2. doing[w] \in Writing
      BY <2>2 DEF Fill!Close, Writing, Holding
    <3> QED BY <2>1, <3>1, <3>2 DEF OnlyCloses, Holding, Reading, Slicing
  <2>3. CASE Fill!Apply(w) \/ Fill!Abandon(w) \/ Fill!Ready(w) \/ Fill!Call(w)
    <3>1. doing[w] \in Writing
      BY <2>3 DEF Fill!Apply, Fill!Abandon, Fill!Ready, Fill!Call, Writing, Holding,
         Reading
    <3> QED
      BY <2>1, <2>3, <3>1, AnswerEffect, ClosedEffect DEF OnlyCloses, Holding, Reading,
         Slicing
  <2>4. CASE UNCHANGED opened
    BY <2>1, <2>4 DEF OnlyCloses, Holding, Reading, Slicing
  <2> QED
    BY <2>2, <2>3, <2>4 DEF Ends, Fill!Complete, Fill!Cut, Fill!Charge, Fill!Post,
       Fill!EnqueueCollect, Fill!Poll, Fill!NextSlice, Fill!rows
<1>2. CASE /\ ~ \E left : Fill!Leave(w, left)
           /\ Fill!Charge(w) \/ Fill!Post(w) \/ Fill!EnqueueCollect(w) \/ Fill!Poll(w)
              \/ Fill!NextSlice(w)
  <2>1. OnlyOf(w) /\ hand'[w] \subseteq hand[w] /\ UNCHANGED <<opened, job, pick>>
    BY <1>2 DEF JobTypes, WorkerTypes, OnlyOf, Same, Fill!Charge, Fill!Post,
       Fill!EnqueueCollect, Fill!Poll, Fill!NextSlice, Fill!Goto, Fill!With, Fill!rows
  <2>2. /\ doing'[w] \in Holding => doing[w] \in Holding
        /\ doing'[w] \in Reading => doing[w] \in Reading /\ batch'[w] = batch[w]
        /\ doing'[w] \in Slicing => doing[w] \in Slicing
    BY <1>2 DEF WorkerTypes, Fill!Charge, Fill!Post, Fill!EnqueueCollect, Fill!Poll,
       Fill!NextSlice, Fill!Goto, Holding, Reading, Slicing
  <2> QED BY <2>1, <2>2 DEF OnlyCloses
<1>3. CASE /\ ~ \E left : Fill!Leave(w, left)
           /\ Fill!Apply(w) \/ Fill!Abandon(w) \/ Fill!Ready(w) \/ Fill!Call(w)
  <2>1. OnlyOf(w) /\ hand'[w] \subseteq hand[w] /\ UNCHANGED <<job, pick>>
    BY <1>3 DEF JobTypes, WorkerTypes, OnlyOf, Same, Fill!Apply, Fill!Abandon,
       Fill!Ready, Fill!Call, Fill!Goto, Fill!With
  <2>2. /\ doing'[w] \in Holding => doing[w] \in Holding
        /\ doing'[w] \in Reading => doing[w] \in Reading /\ batch'[w] = batch[w]
        /\ doing'[w] \in Slicing => doing[w] \in Slicing
    BY <1>3 DEF WorkerTypes, Fill!Apply, Fill!Abandon, Fill!Ready, Fill!Call, Fill!Goto,
       Fill!With, Holding, Reading, Slicing
  <2>3. doing[w] \in Writing
    BY <1>3 DEF Fill!Apply, Fill!Abandon, Fill!Ready, Fill!Call, Writing, Holding, Reading
  <2> QED BY <1>3, <2>1, <2>2, <2>3, AnswerEffect, ClosedEffect DEF OnlyCloses
<1> QED
  BY <1>1, <1>2, <1>3 DEF Ends, Fill!Complete, Fill!Cut, Fill!Close

LEMMA SubmitEnds ==
  ASSUME Bounded, WatchInv, SubmitInv, NEW w \in Worker, Ends(w)
  PROVE  SubmitInv'
<1> SUFFICES ASSUME ~ lapsed' PROVE SliceInv'
  BY DEF SubmitInv
<1>1. SliceInv
  BY DEF SubmitInv, Ends, Fill!Complete, Fill!Cut, Fill!Charge, Fill!Post,
     Fill!EnqueueCollect, Fill!Close, Fill!Abandon, Fill!Poll, Fill!Apply,
     Fill!NextSlice, Fill!Ready, Fill!Call, Fill!history
<1>2. OnlyCloses(w) /\ job'[w] \in {job[w], Fill!Idle}
  BY EndsClose
<1>3. OneWorkerEach'
  BY <1>1, <1>2 DEF SliceInv, OneWorkerEach, OnlyCloses, OnlyOf, Same
<1> QED BY <1>1, <1>2, <1>3, ClosingStep DEF WatchInv, FillTypes, WorkerTypes

LEMMA SubmitBegin ==
  ASSUME Bounded, WatchInv, SubmitInv, NEW w \in Worker, NEW j \in jobs, Fill!Begin(w, j)
  PROVE  SubmitInv'
<1> SUFFICES ASSUME ~ lapsed' PROVE SliceInv'
  BY DEF SubmitInv
<1>1. SliceInv /\ \A v \in Worker : job[v] # j
  BY DEF SubmitInv, Fill!Begin
<1>2. OnlyOf(w) /\ job'[w] = j
  BY DEF WatchInv, FillTypes, JobTypes, WorkerTypes, Fill!Begin, OnlyOf, Same, Fill!Goto
<1>3. OneWorkerEach'
  BY <1>1, <1>2 DEF SliceInv, OneWorkerEach, OnlyOf, Same
<1>4. doing'[w] \in {"list", "gather", "start"}
  BY DEF WatchInv, FillTypes, WorkerTypes, Fill!Begin, Fill!Goto, Fill!FirstStep
<1>5. OnlyCloses(w)
  BY <1>2, <1>4 DEF OnlyCloses, Fill!Begin, Fill!rows, Holding, Reading, Slicing
<1> QED BY <1>1, <1>3, <1>5, ClosingStep DEF WatchInv, FillTypes, WorkerTypes

LEMMA SubmitList ==
  ASSUME Bounded, WatchInv, SubmitInv, NEW w \in Worker, Fill!List(w)
  PROVE  SubmitInv'
<1> SUFFICES ASSUME ~ lapsed' PROVE SliceInv'
  BY DEF SubmitInv
<1>1. SliceInv /\ hand[w] = {} /\ doing[w] = "list"
  BY DEF SubmitInv, Fill!List, Fill!history, WatchInv, HandFits
<1>2. OnlyOf(w) /\ UNCHANGED <<opened, hand, job>>
  BY DEF WatchInv, FillTypes, WorkerTypes, Fill!List, OnlyOf, Same, Fill!Goto, Fill!rows
<1>3. \A r \in Fill!Run : Counts(r) => opened[r].asset \notin pick'[w] \/ doing'[w] \notin Slicing
  <2>1. \A r \in Fill!Run : Counts(r) => opened[r].asset \notin Fill!FirstOf(Fill!Outstanding)
    BY DEF Counts, Fill!FirstOf, Fill!Outstanding, Fill!Reached
  <2> QED BY <2>1 DEF WatchInv, FillTypes, WorkerTypes, Fill!List, Fill!Goto, Slicing
<1>4. OneWorkerEach' /\ AbsentIsBlank' /\ CountsOnce'
  BY <1>1, <1>2 DEF SliceInv, OneWorkerEach, AbsentIsBlank, CountsOnce, Counts
<1>5. HeldIsOpen' /\ HeldOnce' /\ CollectedIsOpen'
  BY <1>1, <1>2 DEF SliceInv, HeldIsOpen, HeldOnce, CollectedIsOpen, OnlyOf, Same
<1>6. SliceIsApart' /\ SliceIsNew'
  BY <1>1, <1>2, <1>3 DEF SliceInv, SliceIsApart, SliceIsNew, Counts, OnlyOf, Same
<1> QED BY <1>4, <1>5, <1>6 DEF SliceInv

LEMMA SubmitOpen ==
  ASSUME Bounded, WatchInv, SubmitInv, NEW w \in Worker, Fill!Open(w)
  PROVE  SubmitInv'
<1> SUFFICES ASSUME ~ lapsed' PROVE SliceInv'
  BY DEF SubmitInv
<1> DEFINE r == Fill!Min(Fill!Fresh)
           a == Fill!Min(pick[w])
<1>1. SliceInv
  BY DEF SubmitInv, Fill!Open, Fill!history
<1>2. r \in Fill!Run /\ opened[r].state = "absent" /\ a \in pick[w]
      /\ hand \in [Worker -> SUBSET Fill!Run]
  BY RunsAreNumbers, LeastIn DEF WatchInv, FillTypes, WorkerTypes, Fill!Fresh, Fill!Open
<1>3. /\ OnlyOf(w) /\ hand'[w] = hand[w] \cup {r} /\ pick'[w] = pick[w] \ {a}
      /\ doing[w] = "open" /\ doing'[w] \in {"open", "post"} /\ job'[w] = job[w]
  BY DEF WatchInv, FillTypes, WorkerTypes, Fill!Open, OnlyOf, Same, Fill!Goto, Fill!With
<1>4. Opens(w, r, a)
  <2>1. opened' = [opened EXCEPT ![r] = Fill!Opened(a)]
    BY DEF Fill!Open
  <2> HIDE DEF r, a
  <2> QED
    BY <1>2, <1>3, <2>1 DEF WatchInv, FillTypes, RunTypes, RunRow, Opens, Fill!Opened,
       Holding
<1> HIDE DEF r, a
<1>5. /\ OneWorkerEach' /\ HeldIsOpen' /\ HeldOnce' /\ CollectedIsOpen' /\ CountsOnce'
      /\ AbsentIsBlank' /\ \A s \in Fill!Run : Counts(s)' => Counts(s) /\ s # r
      /\ \A v \in Worker : doing[v] \in Writing => r \notin hand[v]
  BY <1>1, <1>4, OpeningStep
<1>6. /\ opened'[r].asset = a /\ \A s \in Fill!Run \ {r} : opened'[s] = opened[s]
      /\ \A v \in Worker : doing[v] \in Slicing => r \notin hand[v]
  BY <1>4, <1>5 DEF Opens, Writing, Holding, Slicing
<1>7. SliceIsApart'
  <2> SUFFICES ASSUME NEW v \in Worker, doing'[v] \in Slicing, NEW x \in hand'[v]
               PROVE  /\ opened'[x].asset \notin pick'[v]
                      /\ \A s \in hand'[v] : opened'[x].asset = opened'[s].asset => x = s
    BY DEF SliceIsApart
  <2>1. CASE v = w
    BY <1>1, <1>2, <1>3, <1>6, <2>1 DEF SliceInv, SliceIsApart, Slicing
  <2>2. CASE v # w
    BY <1>1, <1>2, <1>3, <1>6, <2>2 DEF SliceInv, SliceIsApart, OnlyOf, Same
  <2> QED BY <2>1, <2>2
<1>8. SliceIsNew'
  <2> SUFFICES ASSUME NEW v \in Worker, doing'[v] \in Slicing, NEW x \in Fill!Run, Counts(x)'
               PROVE  /\ opened'[x].asset \notin pick'[v]
                      /\ \A s \in hand'[v] : opened'[s].asset # opened'[x].asset
    BY DEF SliceIsNew
  <2>1. Counts(x) /\ opened'[x] = opened[x]
    BY <1>5, <1>6
  <2>2. CASE v = w
    BY <1>1, <1>2, <1>3, <1>6, <2>1, <2>2 DEF SliceInv, SliceIsNew, Slicing
  <2>3. CASE v # w
    BY <1>1, <1>2, <1>3, <1>6, <2>1, <2>3 DEF SliceInv, SliceIsNew, OnlyOf, Same
  <2> QED BY <2>2, <2>3
<1> QED BY <1>5, <1>7, <1>8 DEF SliceInv

LEMMA SubmitStartOne ==
  ASSUME Bounded, WatchInv, SubmitInv, NEW w \in Worker, Fill!StartOne(w)
  PROVE  SubmitInv'
<1> SUFFICES ASSUME ~ lapsed' PROVE SliceInv'
  BY DEF SubmitInv
<1> DEFINE r == Fill!Min(Fill!Fresh)
           a == job[w][2]
<1>1. SliceInv
  BY DEF SubmitInv, Fill!StartOne, Fill!history
<1>2. r \in Fill!Run /\ opened[r].state = "absent" /\ hand \in [Worker -> SUBSET Fill!Run]
  BY RunsAreNumbers, LeastIn DEF WatchInv, FillTypes, WorkerTypes, Fill!Fresh,
     Fill!StartOne
<1>3. /\ OnlyOf(w) /\ hand'[w] = {r} /\ doing'[w] \in {"off", "bare", "ready"}
      /\ job'[w] = job[w]
  BY DEF WatchInv, FillTypes, WorkerTypes, Fill!StartOne, OnlyOf, Same, Fill!Goto,
     Fill!With
<1>4. Opens(w, r, a)
  <2>1. opened' = [opened EXCEPT ![r] = Fill!Opened(a)]
    BY DEF Fill!StartOne
  <2> HIDE DEF r, a
  <2> QED
    BY <1>2, <1>3, <2>1 DEF WatchInv, FillTypes, RunTypes, RunRow, Opens, Fill!Opened,
       Holding
<1> HIDE DEF r, a
<1>5. /\ OneWorkerEach' /\ HeldIsOpen' /\ HeldOnce' /\ CollectedIsOpen' /\ CountsOnce'
      /\ AbsentIsBlank' /\ \A s \in Fill!Run : Counts(s)' => Counts(s) /\ s # r
      /\ \A v \in Worker : doing[v] \in Writing => r \notin hand[v]
  BY <1>1, <1>4, OpeningStep
<1>6. /\ \A s \in Fill!Run \ {r} : opened'[s] = opened[s]
      /\ \A v \in Worker : doing'[v] \in Slicing =>
           v # w /\ doing[v] \in Slicing /\ r \notin hand[v]
  BY <1>3, <1>4, <1>5 DEF Opens, OnlyOf, Same, Writing, Holding, Slicing
<1>7. SliceIsApart'
  BY <1>1, <1>2, <1>3, <1>6 DEF SliceInv, SliceIsApart, OnlyOf, Same
<1>8. SliceIsNew'
  BY <1>1, <1>2, <1>3, <1>5, <1>6 DEF SliceInv, SliceIsNew, OnlyOf, Same
<1> QED BY <1>5, <1>7, <1>8 DEF SliceInv

LEMMA SubmitGather ==
  ASSUME Bounded, WatchInv, SubmitInv, NEW w \in Worker, Fill!Gather(w)
  PROVE  SubmitInv'
<1> SUFFICES ASSUME ~ lapsed' PROVE SliceInv'
  BY DEF SubmitInv
<1>1. SliceInv
  BY DEF SubmitInv, Fill!Gather, Fill!history
<1>2. /\ OnlyOf(w) /\ UNCHANGED <<opened, job>> /\ batch'[w] = batch[w]
      /\ hand'[w] = {r \in Fill!Run : opened[r].batch = batch[w] /\ opened[r].state = "running"}
      /\ doing'[w] \in {"poll", "abandon"}
  BY DEF WatchInv, FillTypes, WorkerTypes, Fill!Gather, OnlyOf, Same, Fill!Goto,
     Fill!With, Fill!rows
<1>3. OneWorkerEach' /\ AbsentIsBlank' /\ CountsOnce'
  BY <1>1, <1>2 DEF SliceInv, OneWorkerEach, AbsentIsBlank, CountsOnce, Counts
<1>4. HeldIsOpen' /\ HeldOnce'
  BY <1>1, <1>2 DEF SliceInv, HeldIsOpen, HeldOnce, OnlyOf, Same, Holding
<1>5. CollectedIsOpen'
  BY <1>1, <1>2 DEF SliceInv, CollectedIsOpen, OnlyOf, Same
<1>6. SliceIsApart' /\ SliceIsNew'
  BY <1>1, <1>2 DEF SliceInv, SliceIsApart, SliceIsNew, Counts, OnlyOf, Same, Slicing
<1> QED BY <1>3, <1>4, <1>5, <1>6 DEF SliceInv

LEMMA SubmitAttachBatch ==
  ASSUME Bounded, WatchInv, SubmitInv, NEW w \in Worker, Fill!AttachBatch(w)
  PROVE  SubmitInv'
<1> SUFFICES ASSUME ~ lapsed' PROVE SliceInv'
  BY DEF SubmitInv
<1>1. SliceInv
  BY DEF SubmitInv, Fill!AttachBatch, Fill!history
<1>2. /\ OnlyOf(w) /\ UNCHANGED <<hand, job>> /\ doing[w] = "attach" /\ doing'[w] = "collect"
      /\ hand \in [Worker -> SUBSET Fill!Run] /\ batch[w] \in Fill!Batch
  BY DEF WatchInv, FillTypes, WorkerTypes, StageFits, Fill!AttachBatch, OnlyOf, Same,
     Fill!Goto
<1>3. \A r \in Fill!Run :
        /\ opened'[r].asset = opened[r].asset /\ opened'[r].state = opened[r].state
        /\ opened'[r].batch = IF r \in hand[w] THEN batch[w] ELSE opened[r].batch
  BY DEF WatchInv, FillTypes, RunTypes, RunRow, Fill!AttachBatch
<1>4. \A v \in Worker : doing'[v] \in Writing =>
        v # w /\ doing[v] \in Writing /\ \A r \in hand[v] : r \notin hand[w]
  BY <1>1, <1>2, HandsApart DEF OnlyOf, Same, Writing, Holding, Reading
<1>5. \A v \in Worker : doing'[v] \notin Slicing
  <2>1. \A v \in Worker : doing[v] \in Slicing => job[v] = Fill!Submission
    BY DEF WatchInv, StageFits, Slicing, Submitting
  <2>2. \A v \in Worker : doing[v] \in Slicing => v = w
    BY <1>1, <1>2, <2>1, KindsDiffer DEF SliceInv, OneWorkerEach, Slicing
  <2> QED BY <1>2, <2>2 DEF OnlyOf, Same, Slicing
<1>6. OneWorkerEach' /\ AbsentIsBlank'
  BY <1>1, <1>2, <1>3 DEF SliceInv, OneWorkerEach, AbsentIsBlank, HeldIsOpen, Holding
<1>7. HeldIsOpen' /\ HeldOnce' /\ CollectedIsOpen'
  BY <1>1, <1>2, <1>3, <1>4 DEF SliceInv, HeldIsOpen, HeldOnce, CollectedIsOpen, OnlyOf,
     Same, Writing
<1>8. CountsOnce'
  <2> SUFFICES ASSUME NEW r \in Fill!Run, NEW s \in Fill!Run, Counts(r)', Counts(s)',
                      opened[r].asset = opened[s].asset
               PROVE  r = s
    BY <1>3 DEF CountsOnce
  <2>1. \A x \in Fill!Run : Counts(x)' => x \in hand[w] \/ Counts(x)
    BY <1>3 DEF Counts
  <2>2. CASE r \in hand[w] /\ s \in hand[w]
    BY <1>1, <1>2, <2>2 DEF SliceInv, SliceIsApart, Slicing
  <2> QED BY <1>1, <1>2, <2>1, <2>2 DEF SliceInv, SliceIsNew, CountsOnce, Slicing
<1>9. SliceIsApart' /\ SliceIsNew'
  BY <1>5 DEF SliceIsApart, SliceIsNew
<1> QED BY <1>6, <1>7, <1>8, <1>9 DEF SliceInv

LEMMA SubmitStep ==
  ASSUME Bounded, WatchInv, SubmitInv, [Fill!Next]_(Fill!vars)
  PROVE  SubmitInv'
<1>1. CASE UNCHANGED <<opened, Fill!worker, Fill!history>>
  BY <1>1 DEF Fill!worker, Fill!history, SubmitInv, SliceInv, OneWorkerEach, HeldIsOpen,
     HeldOnce, CollectedIsOpen, SliceIsApart, SliceIsNew, CountsOnce, Counts,
     AbsentIsBlank
<1>2. ASSUME NEW w \in Worker, Fill!Step(w) \/ Fill!Cut(w) PROVE SubmitInv'
  BY <1>2, SubmitBegin, SubmitEnds, SubmitList, SubmitOpen, SubmitStartOne, SubmitGather,
     SubmitAttachBatch DEF Fill!Step, Ends
<1>3. CASE Outside
  BY <1>1, <1>3, OutsideEffect
<1> QED BY <1>1, <1>2, <1>3 DEF Fill!Next, Outside, Fill!vars, Fill!rows

LEMMA Submitted == ASSUME SubmitInv, RunTypes PROVE OneSubmission
<1> SUFFICES ASSUME ~ lapsed, NEW r \in Fill!Run, NEW s \in Fill!Run, r # s,
                    opened[r].asset = opened[s].asset, opened[r].batch # 0, opened[s].batch # 0
             PROVE  {opened[r].state, opened[s].state} \cap {"failed", "skipped"} # {}
  BY DEF OneSubmission, Fill!OneSubmission
<1>1. \A x \in Fill!Run : opened[x].batch # 0 =>
        Counts(x) \/ opened[x].state \in {"failed", "skipped"}
  BY DEF RunTypes, RunRow, Counts, SubmitInv, SliceInv, AbsentIsBlank
<1>2. ~ (Counts(r) /\ Counts(s))
  BY DEF SubmitInv, SliceInv, CountsOnce
<1> QED BY <1>1, <1>2

\* While each job has one worker, no asset is in two batches that count: the list of
\* a submission leaves out every asset whose run is open or succeeded.
THEOREM OneSubmissionAlways == Bounded => (Fill!Spec => []OneSubmission)
<1> SUFFICES ASSUME Bounded PROVE Fill!Spec => []OneSubmission
  OBVIOUS
<1>1. Fill!Init => WatchInv /\ SubmitInv
  BY WatchInitially, SubmitInitially
<1>2. WatchInv /\ SubmitInv /\ [Fill!Next]_(Fill!vars) => (WatchInv /\ SubmitInv)'
  BY WatchStep, SubmitStep
<1>3. WatchInv /\ SubmitInv => OneSubmission
  BY Submitted DEF WatchInv, FillTypes
<1> QED BY <1>1, <1>2, <1>3, PTL DEF Fill!Spec

----------------------------------------------------------------------------
(* What a backfill costs.                                                  *)

AnyOf(s) == CHOOSE x \in s : TRUE

\* sum has the sums of f over the subsets of S.
Adds(f, S, sum) ==
  sum = [s \in SUBSET S |-> IF s = {} THEN 0 ELSE f[AnyOf(s)] + sum[s \ {AnyOf(s)}]]

Total(f, S) == (CHOOSE sum : Adds(f, S, sum))[S]

LEMMA OneLess ==
  ASSUME NEW S, IsFiniteSet(S), NEW s \in SUBSET S, s # {}
  PROVE  /\ AnyOf(s) \in s /\ s \ {AnyOf(s)} \in SUBSET S
         /\ Cardinality(s) \in Nat /\ Cardinality(s) # 0
         /\ Cardinality(s \ {AnyOf(s)}) = Cardinality(s) - 1
<1>1. AnyOf(s) \in s
  BY DEF AnyOf
<1>2. IsFiniteSet(s) /\ Cardinality(s) \in Nat
  BY FS_Subset, FS_CardinalityType
<1>3. Cardinality(s) # 0 /\ Cardinality(s \ {AnyOf(s)}) = Cardinality(s) - 1
  BY <1>1, <1>2, FS_EmptySet, FS_RemoveElement
<1> QED BY <1>1, <1>2, <1>3

LEMMA PartsAreCounted ==
  ASSUME NEW S, IsFiniteSet(S)
  PROVE  \A s \in SUBSET S : Cardinality(s) \in Nat /\ (Cardinality(s) = 0 <=> s = {})
<1> TAKE s \in SUBSET S
<1>1. IsFiniteSet(s)
  BY FS_Subset
<1> QED BY <1>1, FS_EmptySet, FS_CardinalityType

LEMMA SumExists ==
  ASSUME NEW S, IsFiniteSet(S), NEW f
  PROVE  \E sum : Adds(f, S, sum)
<1> DEFINE Rec(h, s) == h[s] = IF s = {} THEN 0 ELSE f[AnyOf(s)] + h[s \ {AnyOf(s)}]
           Upto(h, n) == /\ h = [s \in SUBSET S |-> h[s]]
                         /\ \A s \in SUBSET S : Cardinality(s) <= n => Rec(h, s)
           P == {n \in Nat : \E h : Upto(h, n)}
<1>1. \A s \in SUBSET S : Cardinality(s) \in Nat /\ (Cardinality(s) = 0 => s = {})
  BY PartsAreCounted
<1>2. 0 \in P
  <2> DEFINE g == [s \in SUBSET S |-> 0]
  <2>1. Upto(g, 0)
    BY <1>1
  <2> HIDE DEF Upto, g
  <2> QED BY <2>1
<1>3. ASSUME NEW n \in Nat, n \in P PROVE n + 1 \in P
  <2>1. PICK h : Upto(h, n)
    BY <1>3
  <2> DEFINE g == [s \in SUBSET S |->
               IF Cardinality(s) <= n THEN h[s] ELSE f[AnyOf(s)] + h[s \ {AnyOf(s)}]]
  <2>2. ASSUME NEW s \in SUBSET S, Cardinality(s) <= n + 1 PROVE Rec(g, s)
    <3>1. CASE s = {}
      <4>1. Cardinality(s) = 0 /\ Cardinality(s) <= n
        BY <3>1, FS_EmptySet
      <4>2. g[s] = h[s] /\ h[s] = 0
        BY <2>1, <3>1, <4>1
      <4> QED BY <3>1, <4>2
    <3>2. CASE s # {}
      <4>1. /\ s \ {AnyOf(s)} \in SUBSET S /\ Cardinality(s) \in Nat
            /\ Cardinality(s \ {AnyOf(s)}) = Cardinality(s) - 1
        BY <3>2, OneLess
      <4>2. g[s \ {AnyOf(s)}] = h[s \ {AnyOf(s)}]
        BY <2>2, <4>1
      <4>3. CASE Cardinality(s) <= n
        BY <2>1, <4>2, <4>3
      <4>4. CASE ~ Cardinality(s) <= n
        BY <3>2, <4>2, <4>4
      <4> QED BY <4>3, <4>4
    <3> QED BY <3>1, <3>2
  <2>3. g = [s \in SUBSET S |-> g[s]]
    OBVIOUS
  <2> HIDE DEF g, Rec
  <2>4. Upto(g, n + 1)
    BY <2>2, <2>3
  <2> HIDE DEF Upto
  <2> QED BY <2>4
<1>4. PICK h : Upto(h, Cardinality(S))
  <2> HIDE DEF P
  <2>1. Cardinality(S) \in P
    BY <1>1, <1>2, <1>3, CountingUp
  <2> QED BY <2>1 DEF P
<1>5. \A s \in SUBSET S : Cardinality(s) <= Cardinality(S)
  BY FS_Subset
<1>6. \A s \in SUBSET S : h[s] = IF s = {} THEN 0 ELSE f[AnyOf(s)] + h[s \ {AnyOf(s)}]
  BY <1>4, <1>5
<1>7. h = [s \in SUBSET S |-> h[s]]
  BY <1>4
<1>8. Adds(f, S, h)
  BY <1>6, <1>7 DEF Adds
<1> QED BY <1>8

\* Two sums, where what is added differs for one element at most.
LEMMA SumsDiffer ==
  ASSUME NEW S, IsFiniteSet(S), NEW f \in [S -> Int], NEW g \in [S -> Int],
         NEW x, \A y \in S \ {x} : g[y] = f[y],
         NEW h, Adds(f, S, h), NEW k, Adds(g, S, k)
  PROVE  \A s \in SUBSET S : /\ h[s] \in Int /\ k[s] \in Int
                             /\ k[s] = h[s] + (IF x \in s THEN g[x] - f[x] ELSE 0)
<1> DEFINE Differ(s) == /\ h[s] \in Int /\ k[s] \in Int
                        /\ k[s] = h[s] + (IF x \in s THEN g[x] - f[x] ELSE 0)
           P == {n \in Nat : \A s \in SUBSET S : Cardinality(s) = n => Differ(s)}
<1>1. \A s \in SUBSET S : /\ h[s] = IF s = {} THEN 0 ELSE f[AnyOf(s)] + h[s \ {AnyOf(s)}]
                          /\ k[s] = IF s = {} THEN 0 ELSE g[AnyOf(s)] + k[s \ {AnyOf(s)}]
  BY DEF Adds
<1>2. \A s \in SUBSET S : Cardinality(s) \in Nat /\ (Cardinality(s) = 0 => s = {})
  BY PartsAreCounted
<1>3. 0 \in P
  <2> SUFFICES ASSUME NEW s \in SUBSET S, Cardinality(s) = 0 PROVE Differ(s)
    OBVIOUS
  <2>1. s = {}
    BY <1>2
  <2>2. h[s] = 0 /\ k[s] = 0
    BY <1>1, <2>1
  <2> QED BY <2>1, <2>2
<1>4. ASSUME NEW n \in Nat, n \in P PROVE n + 1 \in P
  <2> SUFFICES ASSUME NEW s \in SUBSET S, Cardinality(s) = n + 1 PROVE Differ(s)
    OBVIOUS
  <2> DEFINE y == AnyOf(s)
             r == s \ {y}
  <2>1. s # {}
    BY FS_EmptySet
  <2>2. y \in s /\ r \in SUBSET S /\ Cardinality(r) = n
    BY <2>1, OneLess
  <2>3. Differ(r)
    BY <1>4, <2>2
  <2>4. h[s] = f[y] + h[r] /\ k[s] = g[y] + k[r]
    BY <1>1, <2>1
  <2>5. f[y] \in Int /\ g[y] \in Int /\ (y # x => g[y] = f[y])
    BY <2>2
  <2>6. x \in s <=> x \in r \/ x = y
    BY <2>2
  <2>7. y \notin r
    OBVIOUS
  <2> HIDE DEF y, r
  <2> QED BY <2>3, <2>4, <2>5, <2>6, <2>7
<1> HIDE DEF P
<1>5. Nat \subseteq P
  BY <1>3, <1>4, CountingUp
<1> QED BY <1>2, <1>5 DEF P

LEMMA TotalIs ==
  ASSUME NEW S, IsFiniteSet(S), NEW f \in [S -> Int], NEW sum, Adds(f, S, sum)
  PROVE  Total(f, S) = sum[S] /\ sum[S] \in Int
<1> DEFINE h == CHOOSE adds : Adds(f, S, adds)
<1>1. Adds(f, S, h)
  BY SumExists
<1> HIDE DEF h
<1>2. \A s \in SUBSET S : /\ h[s] \in Int /\ sum[s] \in Int
        /\ sum[s] = h[s] + (IF S \in s THEN f[S] - f[S] ELSE 0)
  BY <1>1, SumsDiffer
<1>3. CASE S \notin S
  BY <1>2, <1>3 DEF Total, h
<1>4. CASE S \in S
  BY <1>2, <1>4 DEF Total, h
<1> QED BY <1>3, <1>4

LEMMA TotalMoves ==
  ASSUME NEW S, IsFiniteSet(S), NEW f \in [S -> Int], NEW g \in [S -> Int],
         NEW x \in S, \A y \in S \ {x} : g[y] = f[y]
  PROVE  Total(f, S) \in Int /\ Total(g, S) = Total(f, S) + g[x] - f[x]
<1>1. PICK h : Adds(f, S, h)
  BY SumExists
<1>2. PICK k : Adds(g, S, k)
  BY SumExists
<1>3. k[S] = h[S] + (g[x] - f[x]) /\ h[S] \in Int
  BY <1>1, <1>2, SumsDiffer
<1>4. Total(f, S) = h[S] /\ Total(g, S) = k[S]
  BY <1>1, <1>2, TotalIs
<1>5. f[x] \in Int /\ g[x] \in Int
  OBVIOUS
<1> QED BY <1>3, <1>4, <1>5

LEMMA TotalIsZero ==
  ASSUME NEW S, IsFiniteSet(S), NEW f \in [S -> Int], \A y \in S : f[y] = 0
  PROVE  Total(f, S) = 0
<1> DEFINE none == [s \in SUBSET S |-> 0]
<1>1. \A s \in SUBSET S : s # {} => AnyOf(s) \in S /\ s \ {AnyOf(s)} \in SUBSET S
  BY OneLess
<1>2. Adds(f, S, none)
  BY <1>1 DEF Adds
<1> QED BY <1>2, TotalIs

LEMMA Spread ==
  ASSUME NEW u \in Nat, NEW q \in Nat, NEW r \in Nat, NEW m \in Nat
  PROVE  (u + q) * m + r = u * m + (q * m + r)
<1>1. (u + q) * m = u * m + q * m
  OBVIOUS
<1>2. u * m \in Nat /\ q * m \in Nat
  OBVIOUS
<1> DEFINE um == u * m
           qm == q * m
           t == (u + q) * m
<1>3. um \in Nat /\ qm \in Nat /\ t = um + qm
  BY <1>1, <1>2
<1> HIDE DEF um, qm, t
<1>4. t + r = um + (qm + r)
  BY <1>3
<1> QED BY <1>4 DEF um, qm, t

\* What is carried and what is charged.
LEMMA Carries ==
  ASSUME NEW u \in Nat, NEW n \in Nat, NEW m \in Nat, m # 0
  PROVE  /\ n \div m \in Nat /\ n % m \in Nat
         /\ (u + n \div m) * m + (n % m) = u * m + n
<1>1. n \div m \in Nat /\ n % m \in Nat
  OBVIOUS
<1>2. n = (n \div m) * m + (n % m)
  OBVIOUS
<1> DEFINE q == n \div m
           r == n % m
<1>3. q \in Nat /\ r \in Nat /\ n = q * m + r
  BY <1>1, <1>2
<1> HIDE DEF q, r
<1>4. (u + q) * m + r = u * m + n
  BY <1>3, Spread
<1> QED BY <1>1, <1>4 DEF q, r

\* What is charged in is a number, and there are finitely many workers.
Metered == MICRO \in Nat /\ MICRO # 0 /\ IsFiniteSet(Worker)

Cost == [r \in Fill!Run |-> opened[r].cost]

LEMMA CostsAre ==
  ASSUME Bounded
  PROVE  /\ RunTypes => Fill!Costs = Total(Cost, Fill!Run)
         /\ RunTypes' => Fill!Costs' = Total(Cost', Fill!Run)
<1> DEFINE Sums(rows) == CHOOSE iter : iter = [s \in SUBSET Fill!Run |->
             IF s = {} THEN 0
             ELSE rows[CHOOSE x \in s : TRUE].cost + iter[s \ {CHOOSE x \in s : TRUE}]]
           CostOf(rows) == [r \in Fill!Run |-> rows[r].cost]
<1>1. IsFiniteSet(Fill!Run)
  BY FS_Interval DEF Bounded, Fill!Run
<1>2. ASSUME NEW rows \in [Fill!Run -> RunRow]
      PROVE  Sums(rows)[Fill!Run] = Total(CostOf(rows), Fill!Run)
  <2>1. PICK h : Adds(CostOf(rows), Fill!Run, h)
    BY <1>1, SumExists
  <2>2. \A s \in SUBSET Fill!Run : s # {} => CostOf(rows)[AnyOf(s)] = rows[AnyOf(s)].cost
    BY <1>1, OneLess
  <2>3. h = [s \in SUBSET Fill!Run |->
               IF s = {} THEN 0 ELSE rows[AnyOf(s)].cost + h[s \ {AnyOf(s)}]]
    BY <2>1, <2>2 DEF Adds
  <2> DEFINE sum == Sums(rows)
  <2>4. sum = [s \in SUBSET Fill!Run |->
                 IF s = {} THEN 0 ELSE rows[AnyOf(s)].cost + sum[s \ {AnyOf(s)}]]
    BY ZenonT(60), <2>3 DEF AnyOf
  <2> HIDE DEF sum
  <2>5. Adds(CostOf(rows), Fill!Run, sum)
    BY <2>2, <2>4 DEF Adds
  <2>6. CostOf(rows) \in [Fill!Run -> Int]
    BY <1>2 DEF RunRow
  <2> HIDE DEF CostOf
  <2>7. Total(CostOf(rows), Fill!Run) = sum[Fill!Run]
    BY <1>1, <2>5, <2>6, TotalIs
  <2> QED BY <2>7 DEF sum
<1>3. Fill!Costs = Sums(opened)[Fill!Run] /\ Fill!Costs' = Sums(opened')[Fill!Run]
  BY DEF Fill!Costs, Fill!MapThenSumSet, Fill!MapThenFoldSet
<1>4. Cost = CostOf(opened) /\ Cost' = CostOf(opened')
  BY DEF Cost
<1> HIDE DEF Sums, CostOf
<1> QED BY <1>2, <1>3, <1>4 DEF RunTypes

LEMMA InHandIs ==
  ASSUME Metered
  PROVE  /\ spend \in [Worker -> Nat] => Fill!InHand = Total(spend, Worker)
         /\ spend' \in [Worker -> Nat] => Fill!InHand' = Total(spend', Worker)
BY DEF Fill!InHand, Fill!MapThenSumSet, Fill!MapThenFoldSet, Total, Adds, AnyOf

LEMMA CostMoves ==
  ASSUME Bounded, RunTypes, RunTypes', NEW r \in Fill!Run,
         \A x \in Fill!Run \ {r} : opened'[x].cost = opened[x].cost
  PROVE  /\ Fill!Costs \in Int /\ opened[r].cost \in Nat
         /\ Fill!Costs' = Fill!Costs + opened'[r].cost - opened[r].cost
<1>1. IsFiniteSet(Fill!Run)
  BY FS_Interval DEF Bounded, Fill!Run
<1> DEFINE f == Cost
           g == Cost'
<1>2. f \in [Fill!Run -> Int] /\ g \in [Fill!Run -> Int] /\ opened[r].cost \in Nat
  BY DEF Cost, RunTypes, RunRow
<1>3. f[r] = opened[r].cost /\ g[r] = opened'[r].cost /\ \A x \in Fill!Run \ {r} : g[x] = f[x]
  BY DEF Cost
<1>4. Fill!Costs = Total(f, Fill!Run) /\ Fill!Costs' = Total(g, Fill!Run)
  BY CostsAre
<1> HIDE DEF f, g
<1>5. /\ Total(f, Fill!Run) \in Int
      /\ Total(g, Fill!Run) = Total(f, Fill!Run) + g[r] - f[r]
  BY <1>1, <1>2, <1>3, TotalMoves
<1> QED BY <1>2, <1>3, <1>4, <1>5

LEMMA CostStays ==
  ASSUME Bounded, RunTypes, RunTypes', \A x \in Fill!Run : opened'[x].cost = opened[x].cost
  PROVE  Fill!Costs' = Fill!Costs /\ Fill!Costs \in Int
<1>1. Cost' = Cost /\ Cost \in [Fill!Run -> Int]
  BY DEF Cost, RunTypes, RunRow
<1>2. IsFiniteSet(Fill!Run)
  BY FS_Interval DEF Bounded, Fill!Run
<1>3. Total(Cost, Fill!Run) \in Int
  BY <1>1, <1>2, SumExists, TotalIs
<1> QED BY <1>1, <1>3, CostsAre

LEMMA InHandMoves ==
  ASSUME Metered, spend \in [Worker -> Nat], spend' \in [Worker -> Nat], NEW w \in Worker,
         \A v \in Worker \ {w} : spend'[v] = spend[v]
  PROVE  /\ Fill!InHand \in Int /\ spend[w] \in Nat
         /\ Fill!InHand' = Fill!InHand + spend'[w] - spend[w]
<1> DEFINE f == spend
           g == spend'
<1>1. f \in [Worker -> Int] /\ g \in [Worker -> Int] /\ \A v \in Worker \ {w} : g[v] = f[v]
  OBVIOUS
<1>2. Fill!InHand = Total(f, Worker) /\ Fill!InHand' = Total(g, Worker)
  BY InHandIs
<1> HIDE DEF f, g
<1>3. Total(f, Worker) \in Int /\ Total(g, Worker) = Total(f, Worker) + g[w] - f[w]
  BY <1>1, TotalMoves DEF Metered
<1> QED BY <1>2, <1>3 DEF f, g


SpendTypes == used \in Nat /\ remainder \in Nat /\ spend \in [Worker -> Nat]

\* Only between a result and its charge there is something in a worker's hand.
SpendsAtOnce == \A w \in Worker : spend[w] # 0 => doing[w] \in {"apply", "charge"}

\* A run has cost nothing before it is closed.
OpenIsFree == \A r \in Fill!Run : opened[r].state \in {"absent", "running"} => opened[r].cost = 0

SpendInv ==
  /\ SpendTypes /\ SpendIsSeen
  /\ ~ lapsed => SpendsAtOnce /\ OpenIsFree

SameCosts == \A r \in Fill!Run : opened'[r].cost = opened[r].cost

\* A step that costs nothing and charges nothing.
Unbilled == SameCosts /\ UNCHANGED <<used, remainder, spend, lost>>

LEMMA HeldIsFree ==
  ASSUME SubmitInv, SpendInv, ~ lapsed, NEW w \in Worker, doing[w] \in Writing,
         NEW r \in hand[w], r \in Fill!Run
  PROVE  opened[r].cost = 0
BY DEF SubmitInv, SpendInv, SliceInv, HeldIsOpen, CollectedIsOpen, Writing, OpenIsFree

LEMMA ClosedCosts ==
  ASSUME RunTypes, NEW r \in Fill!Run, NEW ends, NEW cost, opened' = Fill!Closed(r, ends, cost)
  PROVE  /\ opened'[r].cost = cost
         /\ \A x \in Fill!Run \ {r} : opened'[x].cost = opened[x].cost
BY DEF RunTypes, RunRow, Fill!Closed

LEMMA LeaveSpends ==
  ASSUME SpendTypes, NEW w \in Worker, NEW left, Fill!Leave(w, left)
  PROVE  spend' = [spend EXCEPT ![w] = 0] /\ (spend[w] = 0 => spend' = spend)
BY DEF SpendTypes, Fill!Leave

\* Whatever is not a result, a charge or a loss.
Asides(w) ==
  \/ \E j \in jobs : Fill!Begin(w, j)
  \/ Fill!Complete(w) \/ Fill!List(w) \/ Fill!Open(w) \/ Fill!Post(w) \/ Fill!AttachBatch(w)
  \/ Fill!EnqueueCollect(w) \/ Fill!Close(w) \/ Fill!Gather(w) \/ Fill!Abandon(w)
  \/ Fill!Poll(w) \/ Fill!NextSlice(w) \/ Fill!StartOne(w) \/ Fill!Ready(w)

LEMMA AsidesAreFree ==
  ASSUME Bounded, WatchInv, SubmitInv, SpendInv, NEW w \in Worker, Asides(w), ~ lapsed'
  PROVE  Unbilled
<1> USE DEF WatchInv, FillTypes
<1>1. ~ lapsed
  BY DEF Asides, Fill!Begin, Fill!Complete, Fill!List, Fill!Open, Fill!Post,
     Fill!AttachBatch, Fill!EnqueueCollect, Fill!Close, Fill!Gather, Fill!Abandon,
     Fill!Poll, Fill!NextSlice, Fill!StartOne, Fill!Ready, Fill!history
<1>2. UNCHANGED <<used, remainder, lost>>
  BY DEF Asides, Fill!Begin, Fill!Complete, Fill!List, Fill!Open, Fill!Post,
     Fill!AttachBatch, Fill!EnqueueCollect, Fill!Close, Fill!Gather, Fill!Abandon,
     Fill!Poll, Fill!NextSlice, Fill!StartOne, Fill!Ready, Fill!history, Fill!rows
<1>3. spend' = spend
  <2>1. CASE \E left : Fill!Leave(w, left)
    <3>1. doing[w] \notin {"apply", "charge"}
      BY DEF Asides, Fill!Begin, Fill!Complete, Fill!List, Fill!Open, Fill!Post,
         Fill!AttachBatch, Fill!EnqueueCollect, Fill!Close, Fill!Gather, Fill!Abandon,
         Fill!Poll, Fill!NextSlice, Fill!StartOne, Fill!Ready
    <3> QED BY <1>1, <2>1, <3>1, LeaveSpends DEF SpendInv, SpendsAtOnce
  <2>2. CASE ~ \E left : Fill!Leave(w, left)
    BY <2>2 DEF Asides, Fill!Begin, Fill!Complete, Fill!List, Fill!Open, Fill!Post,
       Fill!AttachBatch, Fill!EnqueueCollect, Fill!Close, Fill!Gather, Fill!Abandon,
       Fill!Poll, Fill!NextSlice, Fill!StartOne, Fill!Ready
  <2> QED BY <2>1, <2>2
<1>4. SameCosts
  <2>1. CASE UNCHANGED opened
    BY <2>1 DEF SameCosts
  <2>2. CASE Fill!Close(w) \/ Fill!AttachBatch(w)
    BY <2>2 DEF SameCosts, Fill!Close, Fill!AttachBatch, RunTypes, RunRow
  <2>3. CASE Fill!Open(w) \/ Fill!StartOne(w)
    <3> DEFINE r == Fill!Min(Fill!Fresh)
    <3>1. r \in Fill!Run /\ opened[r].state = "absent"
      BY <2>3, RunsAreNumbers, LeastIn DEF Fill!Fresh, Fill!Open, Fill!StartOne
    <3>2. opened[r].cost = 0
      BY <1>1, <3>1 DEF SpendInv, OpenIsFree
    <3>3. \E a : opened' = [opened EXCEPT ![r] = Fill!Opened(a)]
      BY <2>3 DEF Fill!Open, Fill!StartOne
    <3> HIDE DEF r
    <3> QED BY <3>1, <3>2, <3>3 DEF SameCosts, RunTypes, Fill!Opened
  <2>4. CASE (Fill!Ready(w) \/ Fill!Abandon(w)) /\ opened' # opened
    <3> DEFINE r == Fill!Min(hand[w])
    <3>1. \E ends : opened' = Fill!Closed(r, ends, 0)
      BY <2>4 DEF Fill!Ready, Fill!Abandon
    <3>2. hand[w] # {} /\ doing[w] \in Writing
      BY <2>4 DEF Fill!Ready, Fill!Abandon, HandFits, Writing, Holding, Reading
    <3>3. hand[w] \subseteq Fill!Run /\ Fill!Run \subseteq Nat
      BY RunsAreNumbers DEF WorkerTypes
    <3>4. r \in hand[w] /\ r \in Fill!Run
      BY <3>2, <3>3, LeastIn
    <3>5. opened[r].cost = 0
      BY <1>1, <3>2, <3>4, HeldIsFree
    <3> HIDE DEF r
    <3> QED BY <3>1, <3>4, <3>5, ClosedCosts DEF SameCosts
  <2> QED
    BY <2>1, <2>2, <2>3, <2>4 DEF Asides, Fill!Begin, Fill!Complete, Fill!List, Fill!Post,
       Fill!EnqueueCollect, Fill!Gather, Fill!Poll, Fill!NextSlice, Fill!rows
<1> QED BY <1>2, <1>3, <1>4 DEF Unbilled

LEMMA UnbilledIsSeen ==
  ASSUME Bounded, Metered, RunTypes, RunTypes', SpendInv, Unbilled, ~ lapsed' => ~ lapsed
  PROVE  SpendTypes' /\ SpendIsSeen'
<1>1. SpendTypes'
  BY DEF SpendInv, SpendTypes, Unbilled
<1>2. Fill!Costs' = Fill!Costs
  BY CostStays DEF Unbilled, SameCosts
<1>3. Fill!InHand' = Fill!InHand
  BY <1>1, InHandIs DEF SpendInv, SpendTypes, Unbilled
<1> QED BY <1>1, <1>2, <1>3 DEF SpendInv, SpendIsSeen, Fill!SpendIsSeen, Unbilled

LEMMA ChargeTypes ==
  ASSUME Metered, SpendTypes, NEW w \in Worker, Fill!Charge(w)
  PROVE  /\ SpendTypes' /\ spend' = [spend EXCEPT ![w] = 0]
         /\ used' * MICRO + remainder' = used * MICRO + (spend[w] + remainder)
<1> DEFINE n == spend[w] + remainder
<1>1. n \in Nat /\ used \in Nat /\ spend' = [spend EXCEPT ![w] = 0]
  BY DEF SpendTypes, Fill!Charge
<1>2. used' = used + n \div MICRO /\ remainder' = n % MICRO
  BY DEF Fill!Charge, Fill!Remainder
<1> HIDE DEF n
<1>3. /\ n \div MICRO \in Nat /\ n % MICRO \in Nat
      /\ (used + n \div MICRO) * MICRO + (n % MICRO) = used * MICRO + n
  BY <1>1, Carries DEF Metered
<1>4. SpendTypes'
  BY <1>1, <1>2, <1>3 DEF SpendTypes
<1> QED BY <1>1, <1>2, <1>3, <1>4 DEF n

LEMMA SpendTypesStep ==
  ASSUME Bounded, Metered, WatchInv, SpendTypes, [Fill!Next]_(Fill!vars)
  PROVE  SpendTypes'
<1>1. CASE UNCHANGED <<used, remainder, spend>>
  BY <1>1 DEF SpendTypes
<1>2. CASE Outside
  BY <1>1, <1>2, OutsideEffect DEF Outside, Fill!Ask, Fill!Enqueue, Fill!Withdraw,
     Fill!AskOne, Fill!Derive, Fill!BatchEnds, Fill!rows, Fill!worker
<1>3. ASSUME NEW w \in Worker, Fill!Step(w) \/ Fill!Cut(w) PROVE SpendTypes'
  <2>1. CASE Fill!Charge(w)
    BY <2>1, ChargeTypes
  <2>2. CASE UNCHANGED <<used, remainder>> /\ \E left : Fill!Leave(w, left)
    BY SMTT(60), <2>2 DEF SpendTypes, Fill!Leave
  <2>3. CASE Fill!Apply(w)
    <3>1. hand[w] \subseteq Fill!Run /\ Fill!Run \subseteq Nat /\ batch[w] \in Fill!Batch
      BY <2>3, RunsAreNumbers DEF WatchInv, FillTypes, WorkerTypes, StageFits, Collecting,
         Fill!Apply
    <3>2. Fill!Min(hand[w]) \in Fill!Run
      BY <2>3, <3>1, LeastIn DEF Fill!Apply, Fill!ToApply
    <3>3. sent[batch[w]].says[Fill!Min(hand[w])] \in Fill!Answer
      BY <3>1, <3>2 DEF WatchInv, FillTypes, SentTypes
    <3>4. \A answer \in Fill!Answer : Fill!Outcome(answer).cost \in Nat
      BY DEF Fill!Outcome, Fill!Answer
    <3> QED BY <2>3, <3>3, <3>4 DEF SpendTypes, Fill!Apply, Fill!ToApply
  <2>4. CASE Fill!Call(w)
    BY <1>1, <2>2, <2>4 DEF SpendTypes, Fill!Call, Fill!OneCost
  <2> QED
    BY <1>1, <1>3, <2>1, <2>2, <2>3, <2>4 DEF Fill!Step, Fill!Begin, Fill!Complete,
       Fill!List, Fill!Open, Fill!Post, Fill!AttachBatch, Fill!EnqueueCollect,
       Fill!Close, Fill!Gather, Fill!Abandon, Fill!Poll, Fill!NextSlice, Fill!StartOne,
       Fill!Ready, Fill!Cut, Fill!rows
<1> QED BY <1>1, <1>2, <1>3 DEF Fill!Next, Outside, Fill!vars, Fill!rows, Fill!worker

LEMMA SpendAsides ==
  ASSUME Bounded, Metered, WatchInv, SubmitInv, SpendInv, FillTypes',
         NEW w \in Worker, Asides(w)
  PROVE  SpendIsSeen' /\ (~ lapsed' => SpendsAtOnce' /\ OpenIsFree')
<1> SUFFICES ASSUME ~ lapsed' PROVE SpendIsSeen' /\ SpendsAtOnce' /\ OpenIsFree'
  BY DEF SpendIsSeen, Fill!SpendIsSeen
<1>1. ~ lapsed
  BY DEF Asides, Fill!Begin, Fill!Complete, Fill!List, Fill!Open, Fill!Post,
     Fill!AttachBatch, Fill!EnqueueCollect, Fill!Close, Fill!Gather, Fill!Abandon,
     Fill!Poll, Fill!NextSlice, Fill!StartOne, Fill!Ready, Fill!history
<1>2. Unbilled
  BY AsidesAreFree
<1>3. SpendIsSeen'
  BY <1>1, <1>2, UnbilledIsSeen DEF WatchInv, FillTypes
<1>4. doing[w] \notin {"apply", "charge"}
  BY DEF Asides, Fill!Begin, Fill!Complete, Fill!List, Fill!Open, Fill!Post,
     Fill!AttachBatch, Fill!EnqueueCollect, Fill!Close, Fill!Gather, Fill!Abandon,
     Fill!Poll, Fill!NextSlice, Fill!StartOne, Fill!Ready
<1>5. \A v \in Worker \ {w} : doing'[v] = doing[v]
  BY DEF WatchInv, FillTypes, WorkerTypes, Asides, Fill!Begin, Fill!Complete, Fill!List,
     Fill!Open, Fill!Post, Fill!AttachBatch, Fill!EnqueueCollect, Fill!Close,
     Fill!Gather, Fill!Abandon, Fill!Poll, Fill!NextSlice, Fill!StartOne, Fill!Ready,
     Fill!Goto, Fill!Leave
<1>6. SpendsAtOnce'
  BY <1>1, <1>2, <1>4, <1>5 DEF SpendInv, SpendsAtOnce, Unbilled
<1>7. \A r \in Fill!Run : opened'[r].state \in {"absent", "running"} =>
        opened[r].state \in {"absent", "running"}
  <2>1. CASE Ends(w)
    BY <2>1, EndsClose DEF OnlyCloses
  <2>2. CASE Fill!AttachBatch(w)
    BY <2>2 DEF Fill!AttachBatch, WatchInv, FillTypes, RunTypes, RunRow
  <2>3. CASE Fill!Open(w) \/ Fill!StartOne(w)
    <3> DEFINE r == Fill!Min(Fill!Fresh)
    <3>1. r \in Fill!Run /\ opened[r].state = "absent"
      BY <2>3, RunsAreNumbers, LeastIn DEF Fill!Fresh, Fill!Open, Fill!StartOne
    <3>2. \E a : opened' = [opened EXCEPT ![r] = Fill!Opened(a)]
      BY <2>3 DEF Fill!Open, Fill!StartOne
    <3> HIDE DEF r
    <3> QED BY <3>1, <3>2 DEF WatchInv, FillTypes, RunTypes
  <2>4. CASE UNCHANGED opened
    BY <2>4
  <2> QED
    BY <2>1, <2>2, <2>3, <2>4 DEF Asides, Ends, Fill!Begin, Fill!List, Fill!Gather,
       Fill!rows
<1>8. OpenIsFree'
  BY <1>1, <1>2, <1>7 DEF SpendInv, OpenIsFree, Unbilled, SameCosts
<1> QED BY <1>3, <1>6, <1>8

\* A result, a charge or a loss.
Bills(w) == Fill!Apply(w) \/ Fill!Call(w) \/ Fill!Charge(w) \/ Fill!Cut(w)

LEMMA BillsOwn ==
  ASSUME Bounded, WatchInv, SpendInv, ~ lapsed, NEW w \in Worker, Bills(w)
  PROVE  SpendsAtOnce' /\ OpenIsFree' /\ \A v \in Worker \ {w} : spend'[v] = spend[v]
<1> USE DEF WatchInv, FillTypes, WorkerTypes, SpendInv, SpendTypes
<1>1. \A v \in Worker \ {w} : spend'[v] = spend[v] /\ doing'[v] = doing[v]
  BY DEF Bills, Fill!Apply, Fill!Call, Fill!Charge, Fill!Cut, Fill!Leave, Fill!Goto
<1>2. spend'[w] # 0 => doing'[w] \in {"apply", "charge"}
  BY DEF Bills, Fill!Apply, Fill!Call, Fill!Charge, Fill!Cut, Fill!Leave, Fill!Goto,
     SpendsAtOnce
<1>3. OnlyCloses(w)
  BY EndsClose DEF Bills, Ends
<1>4. OpenIsFree'
  BY <1>3 DEF OnlyCloses, OpenIsFree
<1>5. SpendsAtOnce'
  BY <1>1, <1>2 DEF SpendsAtOnce
<1> QED BY <1>1, <1>4, <1>5

LEMMA SpendBills ==
  ASSUME Bounded, Metered, WatchInv, SubmitInv, SpendInv, FillTypes', SpendTypes',
         NEW w \in Worker, Bills(w)
  PROVE  SpendIsSeen' /\ (~ lapsed' => SpendsAtOnce' /\ OpenIsFree')
<1> SUFFICES ASSUME ~ lapsed' PROVE SpendIsSeen' /\ SpendsAtOnce' /\ OpenIsFree'
  BY DEF SpendIsSeen, Fill!SpendIsSeen
<1>1. ~ lapsed
  BY DEF Bills, Fill!Apply, Fill!Call, Fill!Charge, Fill!Cut, Fill!history
<1>2. SpendsAtOnce' /\ OpenIsFree' /\ \A v \in Worker \ {w} : spend'[v] = spend[v]
  BY <1>1, BillsOwn
<1>3. /\ Fill!InHand \in Int /\ spend[w] \in Nat /\ spend'[w] \in Nat
      /\ Fill!InHand' = Fill!InHand + spend'[w] - spend[w]
  BY <1>2, InHandMoves DEF SpendInv, SpendTypes
<1>4. RunTypes /\ RunTypes'
  BY DEF WatchInv, FillTypes
<1> DEFINE owed == used * MICRO + remainder
           tallies == owed + Fill!InHand <= Fill!Costs /\ (~ lost => owed + Fill!InHand = Fill!Costs)
<1>5. tallies /\ owed \in Int /\ (tallies' => SpendIsSeen')
  BY <1>1 DEF SpendInv, SpendTypes, SpendIsSeen, Fill!SpendIsSeen, Metered
<1>6. CASE Fill!Charge(w)
  <2>1. spend'[w] = 0 /\ used' * MICRO + remainder' = used * MICRO + (spend[w] + remainder)
    BY <1>6, ChargeTypes DEF SpendInv, SpendTypes
  <2>2. owed' = owed + spend[w]
    <3>1. used * MICRO \in Int /\ remainder \in Int
      BY DEF SpendInv, SpendTypes, Metered
    <3> QED BY <1>3, <2>1, <3>1
  <2>3. Fill!Costs' = Fill!Costs /\ lost' = lost
    BY <1>4, <1>6, CostStays DEF Fill!Charge, Fill!history
  <2> HIDE DEF owed
  <2>5. owed' + Fill!InHand' = owed + Fill!InHand
    BY <1>3, <1>5, <2>1, <2>2
  <2>6. tallies'
    BY <1>5, <2>3, <2>5
  <2> QED BY <1>2, <1>5, <2>6
<1>7. CASE Fill!Cut(w)
  <2>1. /\ spend'[w] = 0 /\ UNCHANGED <<used, remainder, opened>>
        /\ lost' = (lost \/ spend[w] # 0)
    BY <1>7 DEF SpendInv, SpendTypes, Fill!Cut, Fill!Leave, Fill!rows
  <2>2. Fill!Costs' = Fill!Costs /\ Fill!Costs \in Int /\ owed' = owed
    BY <1>4, <2>1, CostStays
  <2>3. ~ lost' => ~ lost /\ spend[w] = 0
    BY <2>1
  <2> HIDE DEF owed
  <2>6. tallies'
    BY <1>3, <1>5, <2>1, <2>2, <2>3
  <2> QED BY <1>2, <1>5, <2>6
<1>8. CASE Fill!Apply(w) \/ Fill!Call(w)
  <2> DEFINE r == Fill!Min(hand[w])
  <2>1. hand[w] \subseteq Fill!Run /\ Fill!Run \subseteq Nat
    BY RunsAreNumbers DEF WatchInv, FillTypes, WorkerTypes
  <2>2. hand[w] # {} /\ doing[w] \in Writing
    BY <1>8 DEF WatchInv, HandFits, Fill!Apply, Fill!ToApply, Fill!Call, Writing, Holding,
       Reading
  <2>3. r \in hand[w] /\ r \in Fill!Run
    BY <2>1, <2>2, LeastIn
  <2>4. opened[r].cost = 0
    BY <1>1, <2>2, <2>3, HeldIsFree
  <2>5. doing[w] = "call" => spend[w] = 0
    BY <1>1 DEF SpendInv, SpendsAtOnce
  <2>6. /\ UNCHANGED <<used, remainder, lost>>
        /\ \E cost \in Nat : \E ends :
             opened' = Fill!Closed(r, ends, cost) /\ spend'[w] = spend[w] + cost
    <3>1. UNCHANGED <<used, remainder, lost>>
      BY SMTT(60), <1>8 DEF Fill!Apply, Fill!Call, Fill!history
    <3>2. CASE Fill!Apply(w)
      <4>1. sent[batch[w]].says[r] \in Fill!Answer
        BY <2>3, <3>2 DEF WatchInv, FillTypes, WorkerTypes, SentTypes, StageFits,
           Collecting, Fill!Apply
      <4>2. \A answer \in Fill!Answer : Fill!Outcome(answer).cost \in Nat
        BY DEF Fill!Outcome, Fill!Answer
      <4> QED
        BY <3>1, <3>2, <4>1, <4>2 DEF Fill!Apply, Fill!ToApply, SpendInv, SpendTypes
    <3>3. CASE Fill!Call(w)
      <4>1. spend[w] = 0
        BY <2>5, <3>3 DEF Fill!Call
      <4>2. CASE \E left : Fill!Leave(w, left) /\ opened' = Fill!Closed(r, "failed", 0)
        BY <3>1, <4>1, <4>2 DEF Fill!Leave, SpendInv, SpendTypes
      <4> QED
        BY <3>1, <3>3, <4>1, <4>2 DEF Fill!Call, Fill!OneCost, SpendInv, SpendTypes
    <3> QED BY <1>8, <3>2, <3>3
  <2>7. PICK cost \in Nat : \E ends :
          opened' = Fill!Closed(r, ends, cost) /\ spend'[w] = spend[w] + cost
    BY <2>6
  <2> HIDE DEF r
  <2>8. opened'[r].cost = cost /\ \A x \in Fill!Run \ {r} : opened'[x].cost = opened[x].cost
    BY <1>4, <2>3, <2>7, ClosedCosts
  <2>9. Fill!Costs \in Int /\ Fill!Costs' = Fill!Costs + cost
    BY <1>4, <2>3, <2>4, <2>8, CostMoves
  <2>10. owed' = owed /\ lost' = lost
    BY <2>6
  <2> HIDE DEF owed
  <2>11. Fill!InHand' = Fill!InHand + cost
    BY <1>3, <2>7
  <2>12. tallies'
    BY <1>3, <1>5, <2>9, <2>10, <2>11
  <2> QED BY <1>2, <1>5, <2>12
<1> QED BY <1>6, <1>7, <1>8 DEF Bills

LEMMA SpendStep ==
  ASSUME Bounded, Metered, WatchInv, SubmitInv, SpendInv, [Fill!Next]_(Fill!vars)
  PROVE  SpendInv'
<1>1. FillTypes' /\ SpendTypes'
  BY WatchStep, SpendTypesStep DEF WatchInv, SpendInv
<1>2. CASE Outside \/ UNCHANGED Fill!vars
  <2>1. UNCHANGED <<opened, used, remainder, spend, doing, lapsed, lost>>
    BY <1>2, OutsideEffect DEF Outside, Fill!Ask, Fill!Enqueue, Fill!Withdraw,
       Fill!AskOne, Fill!Derive, Fill!BatchEnds, Fill!rows, Fill!worker, Fill!history,
       Fill!vars
  <2>2. Unbilled
    BY <2>1 DEF Unbilled, SameCosts
  <2>3. SpendIsSeen'
    BY <1>1, <2>1, <2>2, UnbilledIsSeen DEF WatchInv, FillTypes
  <2> QED BY <1>1, <2>1, <2>3 DEF SpendInv, SpendsAtOnce, OpenIsFree
<1>3. ASSUME NEW w \in Worker, Fill!Step(w) \/ Fill!Cut(w) PROVE SpendInv'
  BY <1>1, <1>3, SpendAsides, SpendBills DEF SpendInv, Fill!Step, Asides, Bills
<1> QED BY <1>2, <1>3 DEF Fill!Next, Outside

LEMMA SpendInitially ==
  ASSUME Bounded, Metered, Fill!Init PROVE SpendInv
<1>1. RunTypes /\ \A r \in Fill!Run : opened[r].cost = 0
  BY WatchInitially DEF WatchInv, FillTypes, Fill!Init, Fill!NoRun
<1>2. IsFiniteSet(Fill!Run)
  BY FS_Interval DEF Bounded, Fill!Run
<1>3. Fill!Costs = 0
  BY <1>1, <1>2, CostsAre, TotalIsZero DEF Cost
<1>4. spend \in [Worker -> Nat] /\ \A w \in Worker : spend[w] = 0
  BY DEF Fill!Init
<1>5. Fill!InHand = 0
  BY <1>4, InHandIs, TotalIsZero DEF Metered
<1> QED
  BY <1>1, <1>3, <1>4, <1>5 DEF Metered, Fill!Init, SpendInv, SpendTypes, SpendsAtOnce,
     OpenIsFree, SpendIsSeen, Fill!SpendIsSeen

\* While each job had one worker, the month's spend, with what workers have still to
\* charge, is what the runs say they cost, to the fraction, and no less unless a worker
\* died before its charge.
THEOREM SpendIsSeenAlways == Bounded /\ Metered => (Fill!Spec => []SpendIsSeen)
<1> SUFFICES ASSUME Bounded, Metered PROVE Fill!Spec => []SpendIsSeen
  OBVIOUS
<1>1. Fill!Init => WatchInv /\ SubmitInv /\ SpendInv
  BY WatchInitially, SubmitInitially, SpendInitially
<1>2. WatchInv /\ SubmitInv /\ SpendInv /\ [Fill!Next]_(Fill!vars)
        => (WatchInv /\ SubmitInv /\ SpendInv)'
  BY WatchStep, SubmitStep, SpendStep
<1>3. SpendInv => SpendIsSeen
  BY DEF SpendInv
<1> QED BY <1>1, <1>2, <1>3, PTL DEF Fill!Spec
=============================================================================
