--------------------------- MODULE OrderedDelivery ---------------------------
(***************************************************************************)
(* What the webhook outbox promises the receiver of a subscription: an      *)
(* event first reaches it only after every earlier event of the same asset  *)
(* did, or was abandoned.  Repetitions come in any order.                   *)
(***************************************************************************)
EXTENDS Naturals

CONSTANTS Asset, MaxEvents, NoAsset

Event == 1..MaxEvents

VARIABLES
  about,     \* each event's asset, NoAsset while it is not published
  got,       \* events the receiver has had at least once
  forgone    \* events that were abandoned at some time

streamVars == <<about, got, forgone>>

Published == {e \in Event : about[e] # NoAsset}

\* The events of the same asset that were published before e.
Earlier(e) == {f \in Published : f < e /\ about[f] = about[e]}

StreamInit ==
  /\ about = [e \in Event |-> NoAsset]
  /\ got = {} /\ forgone = {}

Publish(e, a) ==
  /\ e \notin Published /\ \A f \in Event : f < e => f \in Published
  /\ about' = [about EXCEPT ![e] = a]
  /\ UNCHANGED <<got, forgone>>

Receive(e) ==
  /\ e \in Published
  /\ e \in got \/ Earlier(e) \subseteq got \cup forgone
  /\ got' = got \cup {e}
  /\ UNCHANGED <<about, forgone>>

Abandon(e) ==
  /\ e \in Published
  /\ forgone' = forgone \cup {e}
  /\ UNCHANGED <<about, got>>

StreamNext ==
  \E e \in Event : Receive(e) \/ Abandon(e) \/ \E a \in Asset : Publish(e, a)

StreamSpec == StreamInit /\ [][StreamNext]_streamVars
=============================================================================
