------------------------- MODULE WebhookOutboxProofs -------------------------
(***************************************************************************)
(* What a receiver may rely on, for any number of dispatchers, events and   *)
(* assets, however often a dispatcher dies and a dead event is revived.     *)
(*                                                                          *)
(* An event is sent after a claim, and the claim's conditions on the rows   *)
(* of other events are those of a snapshot that may be old by then.  What   *)
(* makes this sound is that the snapshot found every earlier event of the   *)
(* asset delivered or dead, that a row says so only of an event that was    *)
(* received or given up (StateIsTrue), and that neither is ever undone:     *)
(* an event found ready stays ready (Ready), through the claim (Candidates) *)
(* and the sending (Sending), whatever is reclaimed or revived meanwhile.   *)
(***************************************************************************)
EXTENDS WebhookOutbox, TLAPS

\* Every earlier event of the asset was received or given up at some time.
Ready(e) == e \in Published /\ Earlier(e) \subseteq got \cup forgone

\* Events are published in the order of their numbers.
InSequence == \A e \in Published, f \in Event : f < e => f \in Published

\* The rows of a subscription are those of its published events, until the
\* subscription is removed and all of them with it.
RowsThere ==
  /\ \A e \in Event : state[e] # "absent" => sub # "removed"
  /\ \A e \in Published : sub # "removed" => state[e] # "absent"

Candidates == \A d \in Dispatcher : \A e \in cand[d] : Ready(e)

Sending ==
  \A d \in Dispatcher, e \in Event :
    /\ out[d][e] # "none" => Ready(e)
    /\ out[d][e] = "accepted" => e \in got

IndInv ==
  /\ TypeOK /\ InSequence /\ RowsThere /\ StateIsTrue /\ Candidates /\ Sending

----------------------------------------------------------------------------
LEMMA TypeInit == Init => TypeOK
BY OutboxAssumption DEF Init, TypeOK, StreamInit, Nothing

LEMMA TypeStep == TypeOK /\ [Next]_vars => TypeOK'
<1> SUFFICES ASSUME TypeOK, [Next]_vars PROVE TypeOK' OBVIOUS
<1> USE DEF TypeOK
<1>1. ASSUME NEW e \in Event, NEW a \in Asset, Emit(e, a) PROVE TypeOK'
  <2>1. about' \in [Event -> Asset \cup {NoAsset}] /\ got' = got /\ forgone' = forgone
    BY <1>1 DEF Emit, Publish
  <2>2. state' \in [Event -> {"absent", "pending", "delivering", "delivered", "failed", "dead"}]
    BY <1>1 DEF Emit
  <2> QED BY <1>1, <2>1, <2>2 DEF Emit, subVars, runVars
<1>2. ASSUME NEW e \in Event, Mature(e) \/ GrowOld(e) \/ Revive(e) PROVE TypeOK'
  <2>1. CASE Mature(e)
    BY <2>1 DEF Mature, streamVars, subVars, runVars
  <2>2. CASE GrowOld(e)
    BY <2>2 DEF GrowOld, streamVars, subVars, runVars
  <2>3. CASE Revive(e)
    <3>1. revivals' \in 0..MaxRevivals
      BY <2>3, OutboxAssumption DEF Revive
    <3>2. /\ state' \in [Event -> {"absent", "pending", "delivering", "delivered", "failed", "dead"}]
          /\ attempts' \in [Event -> Nat] /\ due' \in [Event -> BOOLEAN]
      BY <2>3 DEF Revive
    <3> QED BY <2>3, <3>1, <3>2 DEF Revive, streamVars, subVars, runVars
  <2> QED BY <1>2, <2>1, <2>2, <2>3
<1>3. CASE Reactivate \/ Unsubscribe
  BY <1>3 DEF Reactivate, Unsubscribe, streamVars, rowVars, runVars
<1>4. ASSUME NEW d \in Dispatcher, Look(d) PROVE TypeOK'
  BY <1>4 DEF Look, Stale, Claimable, Published, streamVars, rowVars, subVars
<1>5. ASSUME NEW d \in Dispatcher, Take(d) PROVE TypeOK'
  BY <1>5 DEF Take, streamVars, subVars, Waiting
<1>6. ASSUME NEW d \in Dispatcher, NEW e \in Event, Answer(d, e) PROVE TypeOK'
  BY <1>6 DEF Answer, rowVars, subVars
<1>7. ASSUME NEW d \in Dispatcher, NEW e \in Event,
             RecordAccepted(d, e) \/ RecordRefused(d, e) \/ RecordNothing(d, e)
      PROVE  TypeOK'
  <2>1. /\ pc' \in [Dispatcher -> {"idle", "claim", "send"}]
        /\ out' \in [Dispatcher -> [Event -> {"none", "sending", "accepted", "refused"}]]
    <3>1. Noted(d, e)
      BY <1>7 DEF RecordAccepted, RecordRefused, RecordNothing
    <3>2. pc' \in [Dispatcher -> {"idle", "claim", "send"}]
      BY <3>1 DEF Noted
    <3>3. out' \in [Dispatcher -> [Event -> {"none", "sending", "accepted", "refused"}]]
      BY <3>1 DEF Noted
    <3> QED BY <3>2, <3>3
  <2>2. CASE RecordAccepted(d, e) \/ RecordNothing(d, e)
    BY SMTT(60), <2>1, <2>2 DEF RecordAccepted, RecordNothing, streamVars, rowVars, subVars
  <2>3. CASE RecordRefused(d, e)
    <3>1. /\ state' \in [Event -> {"absent", "pending", "delivering", "delivered", "failed", "dead"}]
          /\ due' \in [Event -> BOOLEAN]
      BY <2>3 DEF RecordRefused, StateAfter
    <3>2. forgone' \subseteq Event /\ failures' \in Nat /\ sub' \in {"active", "disabled", "removed"}
      BY <2>3 DEF RecordRefused
    <3> QED BY <2>1, <2>3, <3>1, <3>2 DEF RecordRefused
  <2> QED BY <1>7, <2>2, <2>3
<1>8. ASSUME NEW d \in Dispatcher, Crash(d) PROVE TypeOK'
  BY <1>8, OutboxAssumption DEF Crash, Nothing, streamVars, rowVars, subVars
<1>9. CASE UNCHANGED vars
  BY <1>9 DEF vars, streamVars, rowVars, subVars, runVars
<1> QED BY <1>1, <1>2, <1>3, <1>4, <1>5, <1>6, <1>7, <1>8, <1>9 DEF Next, Pass, Record

----------------------------------------------------------------------------
(* What is ready stays so.                                                 *)

\* A step of the stream publishes the next event, or adds to what was received
\* and given up.
LEMMA ReadyStays ==
  ASSUME TypeOK, InSequence, NEW e \in Event, Ready(e),
         got \subseteq got', forgone \subseteq forgone',
         \/ about' = about
         \/ \E n \in Event, a \in Asset : Publish(n, a)
  PROVE  Ready(e)'
<1>1. CASE about' = about
  BY <1>1 DEF Ready, Published, Earlier
<1>2. ASSUME NEW n \in Event, NEW a \in Asset, Publish(n, a) PROVE Ready(e)'
  <2>1. n \notin Published /\ about' = [about EXCEPT ![n] = a]
    BY <1>2 DEF Publish
  <2>2. e \in Published /\ n # e /\ ~ (n < e)
    BY <2>1 DEF Ready, InSequence
  <2>3. Earlier(e)' = Earlier(e)
    BY <2>1, <2>2 DEF Earlier, Published, TypeOK
  <2>4. e \in Published'
    BY <2>1, <2>2 DEF Published, TypeOK
  <2> QED BY <2>3, <2>4 DEF Ready
<1> QED BY <1>1, <1>2

\* A claim's snapshot finds ready what it takes for claimable.
LEMMA ClaimableIsReady ==
  ASSUME IndInv,
         NEW e \in Claimable([f \in Event |-> IF f \in Stale THEN "failed" ELSE state[f]])
  PROVE  Ready(e)
<1> DEFINE view == [f \in Event |-> IF f \in Stale THEN "failed" ELSE state[f]]
<1>1. e \in Published /\ sub = "active" /\ ~ Blocked(view, e)
  BY DEF Claimable
<1>2. ASSUME NEW f \in Earlier(e) PROVE f \in got \cup forgone
  <2>1. f \in Published /\ f \in Event /\ about[f] = about[e]
    BY DEF Earlier, Published
  <2>2. view[f] \notin Waiting /\ view[f] # "delivering"
    BY <1>1, <1>2, <2>1 DEF Blocked
  <2>3. state[f] = view[f]
    BY <2>1, <2>2 DEF Waiting
  <2>4. state[f] # "absent"
    BY <1>1, <2>1 DEF IndInv, RowsThere
  <2>5. state[f] \in {"delivered", "dead"}
    BY <2>1, <2>2, <2>3, <2>4 DEF IndInv, TypeOK, Waiting
  <2> QED BY <2>1, <2>5 DEF IndInv, StateIsTrue
<1> QED BY <1>1, <1>2 DEF Ready

----------------------------------------------------------------------------
LEMMA IndInit == Init => IndInv
<1> SUFFICES ASSUME Init PROVE IndInv OBVIOUS
<1>1. TypeOK
  BY TypeInit
<1>2. Published = {}
  BY DEF Init, StreamInit, Published
<1> QED BY <1>1, <1>2 DEF IndInv, Init, InSequence, RowsThere, StateIsTrue, Candidates, Sending, Nothing

LEMMA SequenceStep ==
  ASSUME TypeOK, InSequence,
         \/ about' = about
         \/ \E n \in Event, a \in Asset : Publish(n, a)
  PROVE  InSequence'
<1>1. CASE about' = about
  BY <1>1 DEF InSequence, Published
<1>2. ASSUME NEW n \in Event, NEW a \in Asset, Publish(n, a) PROVE InSequence'
  <2>1. Published' = Published \cup {n}
    BY <1>2, OutboxAssumption DEF Publish, Published, TypeOK
  <2> QED BY <2>1, <1>2 DEF Publish, InSequence
<1> QED BY <1>1, <1>2

LEMMA IndStep == IndInv /\ [Next]_vars => IndInv'
<1> SUFFICES ASSUME IndInv, [Next]_vars PROVE IndInv' OBVIOUS
<1>t. TypeOK /\ TypeOK'
  BY TypeStep DEF IndInv
<1>a. ASSUME NEW e \in Event, NEW a \in Asset, Emit(e, a) PROVE IndInv'
  <2>1. Publish(e, a) /\ got' = got /\ forgone' = forgone /\ sub' = sub /\ sub = "active"
        /\ cand' = cand /\ out' = out /\ state' = [state EXCEPT ![e] = "pending"]
    BY <1>a DEF Emit, Publish, subVars, runVars
  <2>2. \A f \in Event : Ready(f) => Ready(f)'
    BY <2>1, <1>t, ReadyStays DEF IndInv
  <2>3. Published' = Published \cup {e}
    BY <2>1, <1>t, OutboxAssumption DEF Publish, Published, TypeOK
  <2>4. InSequence'
    BY <2>1, <1>t, SequenceStep DEF IndInv
  <2>5. RowsThere' /\ StateIsTrue'
    BY <2>1, <2>3, <1>t DEF IndInv, RowsThere, StateIsTrue, TypeOK, Published
  <2>6. Candidates'
    BY <2>1, <2>2, <1>t DEF IndInv, Candidates, TypeOK
  <2>7. Sending'
    BY <2>1, <2>2 DEF IndInv, Sending
  <2> QED BY <1>t, <2>4, <2>5, <2>6, <2>7 DEF IndInv
<1>b. ASSUME about' = about, got' = got, forgone' = forgone, sub' = sub,
             out' = out \/ \E d \in Dispatcher : out' = [out EXCEPT ![d] = Nothing],
             \A d \in Dispatcher : cand'[d] \in {cand[d], {}},
             \A e \in Event : state'[e] = state[e] \/ (state[e] = "dead" /\ state'[e] = "pending")
      PROVE  IndInv'
  \* Time, a revival, a crash: nothing is found ready or sent.
  <2>1. \A f \in Event : Ready(f)' = Ready(f)
    BY <1>b DEF Ready, Published, Earlier
  <2>2. InSequence' /\ RowsThere' /\ StateIsTrue'
    BY <1>b DEF IndInv, InSequence, RowsThere, StateIsTrue, Published
  <2>3. Candidates'
    BY <1>b, <2>1, <1>t DEF IndInv, Candidates, TypeOK
  <2>4. Sending'
    BY <1>b, <2>1, <1>t DEF IndInv, Sending, TypeOK, Nothing
  <2> QED BY <1>t, <2>2, <2>3, <2>4 DEF IndInv
<1>c. ASSUME NEW e \in Event, Mature(e) \/ GrowOld(e) \/ Revive(e) PROVE IndInv'
  <2>1. /\ about' = about /\ got' = got /\ forgone' = forgone /\ sub' = sub
        /\ out' = out /\ cand' = cand
    BY <1>c DEF Mature, GrowOld, Revive, streamVars, subVars, runVars
  <2>2. \A f \in Event : state'[f] = state[f] \/ (state[f] = "dead" /\ state'[f] = "pending")
    BY <1>c, <1>t DEF Mature, GrowOld, Revive, TypeOK
  <2> QED BY <2>1, <2>2, <1>b
<1>d. ASSUME NEW d \in Dispatcher, Crash(d) PROVE IndInv'
  <2>1. /\ about' = about /\ got' = got /\ forgone' = forgone /\ sub' = sub /\ state' = state
        /\ out' = [out EXCEPT ![d] = Nothing] /\ cand' = [cand EXCEPT ![d] = {}]
    BY <1>d DEF Crash, streamVars, rowVars, subVars
  <2> QED BY <2>1, <1>b, <1>t DEF TypeOK
<1>e. CASE Reactivate \/ Unsubscribe
  <2>1. /\ about' = about /\ got' = got /\ forgone' = forgone /\ out' = out /\ cand' = cand
        /\ \/ sub = "disabled" /\ sub' = "active" /\ state' = state
           \/ sub' = "removed" /\ state' = [e \in Event |-> "absent"]
    BY <1>e DEF Reactivate, Unsubscribe, streamVars, rowVars, runVars
  <2>2. \A f \in Event : Ready(f)' = Ready(f)
    BY <2>1 DEF Ready, Published, Earlier
  <2>3. InSequence' /\ RowsThere' /\ StateIsTrue'
    BY <2>1 DEF IndInv, InSequence, RowsThere, StateIsTrue, Published
  <2>4. Candidates' /\ Sending'
    BY <2>1, <2>2, <1>t DEF IndInv, Candidates, Sending, TypeOK
  <2> QED BY <1>t, <2>3, <2>4 DEF IndInv
<1>f. ASSUME NEW d \in Dispatcher, Look(d) PROVE IndInv'
  <2> DEFINE view == [f \in Event |-> IF f \in Stale THEN "failed" ELSE state[f]]
  <2>1. /\ about' = about /\ got' = got /\ forgone' = forgone /\ out' = out /\ sub' = sub
        /\ state' = state /\ cand' = [cand EXCEPT ![d] = Claimable(view)]
    BY <1>f DEF Look, streamVars, rowVars, subVars
  <2>2. \A f \in Event : Ready(f)' = Ready(f)
    BY <2>1 DEF Ready, Published, Earlier
  <2>3. InSequence' /\ RowsThere' /\ StateIsTrue'
    BY <2>1 DEF IndInv, InSequence, RowsThere, StateIsTrue, Published
  <2>4. \A f \in Claimable(view) : f \in Event /\ Ready(f)
    BY ClaimableIsReady DEF Claimable, Published
  <2>5. Candidates'
    BY <2>1, <2>2, <2>4, <1>t DEF IndInv, Candidates, TypeOK
  <2>6. Sending'
    BY <2>1, <2>2 DEF IndInv, Sending
  <2> QED BY <1>t, <2>3, <2>5, <2>6 DEF IndInv
<1>g. ASSUME NEW d \in Dispatcher, Take(d) PROVE IndInv'
  <2>1. PICK batch \in SUBSET {e \in cand[d] : due[e] /\ (state[e] \in Waiting \/ e \in {f \in stale[d] : state[f] = "delivering"})} :
          /\ state' = [e \in Event |-> IF e \in batch THEN "delivering"
                         ELSE IF e \in {f \in stale[d] : state[f] = "delivering"} THEN "failed" ELSE state[e]]
          /\ out' = [out EXCEPT ![d] = [e \in Event |-> IF e \in batch THEN "sending" ELSE "none"]]
    BY <1>g DEF Take
  <2>2. /\ about' = about /\ got' = got /\ forgone' = forgone /\ sub' = sub
        /\ cand' = [cand EXCEPT ![d] = {}]
    BY <1>g DEF Take, streamVars, subVars
  <2>3. \A f \in Event : Ready(f)' = Ready(f)
    BY <2>2 DEF Ready, Published, Earlier
  <2>4. \A f \in batch : Ready(f)
    BY <2>1 DEF IndInv, Candidates
  <2>5. \A f \in Event : /\ state'[f] = "absent" <=> state[f] = "absent"
                         /\ state'[f] \in {"delivered", "dead"} => state'[f] = state[f]
    BY <2>1, <1>t DEF Waiting, TypeOK
  <2>6. InSequence' /\ RowsThere' /\ StateIsTrue'
    BY <2>2, <2>5 DEF IndInv, InSequence, RowsThere, StateIsTrue, Published
  <2>7. Candidates'
    BY <2>2, <2>3, <1>t DEF IndInv, Candidates, TypeOK
  <2>8. Sending'
    BY <2>1, <2>2, <2>3, <2>4, <1>t DEF IndInv, Sending, TypeOK
  <2> QED BY <1>t, <2>6, <2>7, <2>8 DEF IndInv
<1>h. ASSUME NEW d \in Dispatcher, NEW e \in Event, Answer(d, e) PROVE IndInv'
  <2>1. PICK status \in {"2xx", "3xx", "error"} :
          /\ out' = [out EXCEPT ![d][e] = IF Accepts(status) THEN "accepted" ELSE "refused"]
          /\ got' \in IF status = "2xx" THEN {got \cup {e}} ELSE {got, got \cup {e}}
    BY <1>h DEF Answer
  <2>2. /\ about' = about /\ forgone' = forgone /\ sub' = sub /\ state' = state /\ cand' = cand
        /\ out[d][e] = "sending" /\ got \subseteq got'
    BY <1>h, <2>1 DEF Answer, rowVars, subVars
  <2>3. \A f \in Event : Ready(f) => Ready(f)'
    BY <2>2, <1>t, ReadyStays DEF IndInv
  <2>4. InSequence' /\ RowsThere' /\ StateIsTrue'
    BY <2>2 DEF IndInv, InSequence, RowsThere, StateIsTrue, Published
  <2>5. Candidates'
    BY <2>2, <2>3, <1>t DEF IndInv, Candidates, TypeOK
  <2>6. Sending'
    BY <2>1, <2>2, <2>3, <1>t DEF IndInv, Sending, TypeOK, Accepts
  <2> QED BY <1>t, <2>4, <2>5, <2>6 DEF IndInv
<1>i. ASSUME NEW d \in Dispatcher, NEW e \in Event,
             RecordAccepted(d, e) \/ RecordRefused(d, e) \/ RecordNothing(d, e)
      PROVE  IndInv'
  <2>1. /\ about' = about /\ got' = got /\ forgone \subseteq forgone' /\ cand' = cand
        /\ out' = [out EXCEPT ![d][e] = "none"]
    BY <1>i DEF RecordAccepted, RecordRefused, RecordNothing, Noted, streamVars
  <2>2. \A f \in Event : Ready(f) => Ready(f)'
    BY <2>1, <1>t, ReadyStays DEF IndInv
  <2>3. StateIsTrue'
    BY <1>i, <2>1, <1>t DEF IndInv, StateIsTrue, Sending, TypeOK, StateAfter,
       RecordAccepted, RecordRefused, RecordNothing, rowVars, streamVars
  <2>4. /\ \A f \in Event : state'[f] = "absent" <=> state[f] = "absent"
        /\ sub' = sub \/ (state[e] # "absent" /\ sub' = "disabled")
    BY <1>i, <1>t DEF RecordAccepted, RecordRefused, RecordNothing, rowVars, subVars, StateAfter, TypeOK
  <2>5. InSequence' /\ RowsThere'
    BY <2>1, <2>4 DEF IndInv, InSequence, RowsThere, Published
  <2>6. Candidates'
    BY <2>1, <2>2, <1>t DEF IndInv, Candidates, TypeOK
  <2>7. Sending'
    BY <2>1, <2>2, <1>t DEF IndInv, Sending, TypeOK
  <2> QED BY <1>t, <2>3, <2>5, <2>6, <2>7 DEF IndInv
<1>j. CASE UNCHANGED vars
  BY <1>j, <1>b DEF vars, streamVars, rowVars, subVars, runVars
<1> QED
  BY <1>a, <1>c, <1>d, <1>e, <1>f, <1>g, <1>h, <1>i, <1>j DEF Next, Pass, Record

\* The inductive invariant of the outbox: what is a candidate or being sent is
\* ready, whatever became of its row and its siblings' since the snapshot.
THEOREM OutboxInvariance == Spec => []IndInv
BY IndInit, IndStep, PTL DEF Spec

\* Whichever late answer wrote a row (delivered and failed go by id), it says
\* delivered only of an event the receiver has, and dead of one given up.
THEOREM StateIsTrueAlways == Spec => []StateIsTrue
<1>1. IndInv => StateIsTrue
  BY DEF IndInv
<1> QED BY <1>1, OutboxInvariance, PTL

----------------------------------------------------------------------------
(* The refinement.                                                         *)

LEMMA StreamStep ==
  ASSUME IndInv, [Next]_vars
  PROVE  [StreamNext]_streamVars
<1>1. ASSUME NEW e \in Event, NEW a \in Asset, Emit(e, a) PROVE StreamNext
  BY <1>1 DEF Emit, StreamNext
<1>2. ASSUME NEW d \in Dispatcher, NEW e \in Event, Answer(d, e) PROVE [StreamNext]_streamVars
  <2>1. e \in Published /\ Earlier(e) \subseteq got \cup forgone
    BY <1>2 DEF Answer, IndInv, Sending, Ready
  <2>2. about' = about /\ forgone' = forgone /\ (got' = got \/ got' = got \cup {e})
    BY <1>2 DEF Answer
  <2>3. CASE got' = got \cup {e}
    BY <2>1, <2>2, <2>3 DEF Receive, StreamNext
  <2> QED BY <2>2, <2>3 DEF streamVars
<1>3. ASSUME NEW d \in Dispatcher, NEW e \in Event, RecordRefused(d, e)
      PROVE  [StreamNext]_streamVars
  <2>1. e \in Published
    BY <1>3 DEF RecordRefused, IndInv, Sending, Ready
  <2>2. about' = about /\ got' = got /\ (forgone' = forgone \/ forgone' = forgone \cup {e})
    BY <1>3 DEF RecordRefused
  <2>3. CASE forgone' = forgone \cup {e}
    BY <2>1, <2>2, <2>3 DEF Abandon, StreamNext
  <2> QED BY <2>2, <2>3 DEF streamVars
<1>4. ASSUME NEW d \in Dispatcher, Look(d) \/ Take(d) \/ Crash(d) PROVE UNCHANGED streamVars
  BY <1>4 DEF Look, Take, Crash
<1>5. ASSUME NEW d \in Dispatcher, NEW e \in Event, RecordAccepted(d, e) \/ RecordNothing(d, e)
      PROVE  UNCHANGED streamVars
  BY <1>5 DEF RecordAccepted, RecordNothing
<1>6. ASSUME NEW e \in Event, Mature(e) \/ GrowOld(e) \/ Revive(e) PROVE UNCHANGED streamVars
  BY <1>6 DEF Mature, GrowOld, Revive
<1>7. ASSUME Reactivate \/ Unsubscribe \/ UNCHANGED vars PROVE UNCHANGED streamVars
  BY <1>7 DEF Reactivate, Unsubscribe, vars
<1> QED BY <1>1, <1>2, <1>3, <1>4, <1>5, <1>6, <1>7 DEF Next, Pass, Record

\* The outbox implements the ordered stream: an answer is a receipt, a
\* dead-letter an abandonment, an enqueue a publication, the rest stutters.
THEOREM KeepsOrderAlways == Spec => KeepsOrder
<1>1. Init => StreamInit
  BY DEF Init
<1> QED BY <1>1, StreamStep, OutboxInvariance, PTL DEF Spec, KeepsOrder, StreamSpec
=============================================================================
