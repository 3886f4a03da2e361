-------------------------------- MODULE Orders --------------------------------
(***************************************************************************)
(* One order (dam-db/src/orders.rs), the requests that decide and fulfil it *)
(* (dam-api/src/orders.rs), and its pickups, which are share links          *)
(* (dam-db/src/shares.rs) that recipients download through                  *)
(* (dam-api/src/shares.rs).                                                 *)
(*                                                                          *)
(* A request reads the order, and later writes it by id; transactions are   *)
(* READ COMMITTED, so what it read may be gone.  A step ends with a read    *)
(* that decides, or with a commit.                                          *)
(***************************************************************************)
EXTENDS Naturals, FiniteSets

CONSTANTS
  Actor,       \* requests that can be under way together
  Link, NoLink

VARIABLES
  state,    \* the order's state
  link,     \* its share_link_id
  window,   \* the pickup window: closed (no decision yet), open, over
  made,     \* links that were created
  live,     \* those not revoked
  taken,    \* those downloaded through
  doing,    \* each actor's step
  seen,     \* the state and link it last read
  raced,    \* a decision was begun while another was under way (history)
  doubled   \* a pickup was begun while another was being made (history)

orderVars == <<state, link, window, made, live, taken, doing, seen, raced, doubled>>

Decision == {"approve", "reject", "cancel"}

OrderInit ==
  /\ state = "submitted" /\ link = NoLink /\ window = "closed"
  /\ made = {} /\ live = {} /\ taken = {}
  /\ doing = [a \in Actor |-> "idle"]
  /\ seen = [a \in Actor |-> [state |-> "submitted", link |-> NoLink]]
  /\ raced = FALSE /\ doubled = FALSE

Turns(a, step) == doing' = [doing EXCEPT ![a] = step]

See(a) == seen' = [seen EXCEPT ![a] = [state |-> state, link |-> link]]

Busy(a, steps) == \E b \in Actor \ {a} : doing[b] \in steps

----------------------------------------------------------------------------
(* Decisions.                                                              *)

\* approve, reject and cancel read the order, and refuse any but a submitted
\* one (approve also one with items the approver may not see, cancel one that
\* is somebody else's).
Judge(a) ==
  /\ doing[a] = "idle" /\ state = "submitted"
  /\ \E d \in Decision : Turns(a, d)
  /\ See(a)
  /\ raced' = (raced \/ Busy(a, Decision))
  /\ UNCHANGED <<state, link, window, made, live, taken, doubled>>

\* Their UPDATE is by id.
Approve(a) ==
  /\ doing[a] = "approve"
  /\ state' = "approved" /\ window' = "open"
  /\ Turns(a, "approved")
  /\ UNCHANGED <<link, made, live, taken, seen, raced, doubled>>

Refuse(a) ==
  /\ doing[a] \in {"reject", "cancel"}
  /\ state' = IF doing[a] = "reject" THEN "rejected" ELSE "cancelled"
  /\ Turns(a, "idle")
  /\ UNCHANGED <<link, window, made, live, taken, seen, raced, doubled>>

----------------------------------------------------------------------------
(* Pickups.                                                                *)

Making == {"pickup", "mark_ready", "replace_pickup"}

\* make_pickup, the second transaction of an approval or the one of a fulfil:
\* its first read.
Pickup(a) ==
  /\ doing[a] \in {"idle", "approved"}
  /\ See(a) /\ Turns(a, "pickup")
  /\ doubled' = (doubled \/ Busy(a, Making))
  /\ UNCHANGED <<state, link, window, made, live, taken, raced>>

\* Another transaction has revoked the same link and not ended: revoke_on waits.
RevokeWaits(a) ==
  seen[a].link \in live /\ \E b \in Actor \ {a} :
    doing[b] \in {"mark_ready", "replace_pickup"} /\ seen[b].link = seen[a].link

\* revoke_on, create_on, and the read of mark_ready or replace_pickup, which
\* refuses the states that are not its own.
Recheck(a) ==
  LET step == IF seen[a].state = "approved" THEN "mark_ready" ELSE "replace_pickup"
      own  == IF step = "mark_ready" THEN {"approved"} ELSE {"ready", "collected"} IN
  /\ doing[a] = "pickup" /\ ~ RevokeWaits(a)
  /\ Turns(a, IF state \in own THEN step ELSE "idle")
  /\ UNCHANGED <<state, link, window, made, live, taken, seen, raced, doubled>>

\* The bug: the link it replaces stays good.
PreviousKept(a) == {}

Previous(a) == {seen[a].link}

\* The UPDATE, and the commit of all of it.
Ready(a) ==
  /\ doing[a] \in {"mark_ready", "replace_pickup"}
  /\ made # Link
  /\ LET l == CHOOSE new \in Link : new \notin made IN
       /\ made' = made \cup {l}
       /\ live' = (live \ Previous(a)) \cup {l}
       /\ link' = l
  /\ state' = "ready"
  /\ Turns(a, "idle")
  /\ UNCHANGED <<window, taken, seen, raced, doubled>>

\* A request ends at any step: its process, its connection or a statement.
Abort(a) ==
  /\ doing[a] # "idle" /\ Turns(a, "idle")
  /\ UNCHANGED <<state, link, window, made, live, taken, seen, raced, doubled>>

----------------------------------------------------------------------------
(* Links.                                                                  *)

\* revoke, from the list of shares.
Revoke(l) ==
  /\ l \in live /\ live' = live \ {l}
  /\ UNCHANGED <<state, link, window, made, taken, doing, seen, raced, doubled>>

\* expires_at, of the order and of every pickup it has.
WindowEnds ==
  /\ window = "open" /\ window' = "over"
  /\ UNCHANGED <<state, link, made, live, taken, doing, seen, raced, doubled>>

Live(l) == l \in live /\ window = "open"

\* A recipient's link resolves, and it is the pickup of the order.
Resolve(a, l) ==
  /\ doing[a] = "idle" /\ Live(l) /\ l = link
  /\ See(a) /\ Turns(a, "collect")
  /\ UNCHANGED <<state, link, window, made, live, taken, raced, doubled>>

\* consume_download and mark_collected, in one transaction; a link that died
\* since gives nothing.
Collect(a) ==
  /\ doing[a] = "collect" /\ Live(seen[a].link)
  /\ taken' = taken \cup {seen[a].link}
  /\ state' = IF state \in {"ready", "collected"} THEN "collected" ELSE state
  /\ Turns(a, "idle")
  /\ UNCHANGED <<link, window, made, live, seen, raced, doubled>>

OrderNext ==
  \/ \E a \in Actor :
       \/ Judge(a) \/ Approve(a) \/ Refuse(a)
       \/ Pickup(a) \/ Recheck(a) \/ Ready(a) \/ Abort(a) \/ Collect(a)
       \/ \E l \in Link : Resolve(a, l)
  \/ \E l \in Link : Revoke(l)
  \/ WindowEnds

OrderSpec == OrderInit /\ [][OrderNext]_orderVars

----------------------------------------------------------------------------
(* Properties.                                                             *)

OrderTypeOK ==
  /\ state \in {"submitted", "approved", "rejected", "cancelled", "ready", "collected"}
  /\ link \in Link \cup {NoLink} /\ window \in {"closed", "open", "over"}
  /\ made \subseteq Link /\ live \subseteq made /\ taken \subseteq made
  /\ doing \in [Actor -> {"idle", "approved", "collect"} \cup Decision \cup Making]
  /\ seen \in [Actor -> [state : STRING, link : Link \cup {NoLink}]]
  /\ raced \in BOOLEAN /\ doubled \in BOOLEAN

\* Revoking an order's pickup closes it: no other link of it is good, unless
\* two pickups were being made at once.
OnlyItsLink == ~ doubled => live \subseteq {link}

\* What was not approved cannot be downloaded, unless two decisions overlapped.
OnlyIfApproved == ~ raced => (live # {} => state \in {"approved", "ready", "collected"})

\* "leaving it collected would say somebody had taken what this link points at"
CollectedIsTrue == ~ doubled => (state = "collected" => link \in taken)

\* The order says what its links are good for.
OrderIsTrue == OnlyItsLink /\ OnlyIfApproved /\ CollectedIsTrue
=============================================================================
