----------------------------- MODULE AuditChain -----------------------------
(***************************************************************************)
(* The governance record of one tenant (dam-db/src/audit.rs): record, which *)
(* appends an entry inside its caller's transaction, and verify, which      *)
(* walks the log in pages.  The table's rules refuse UPDATE and DELETE      *)
(* (migration 0007); what they cannot refuse, a superuser's hand, is an     *)
(* action of the environment.                                               *)
(*                                                                          *)
(* The digest (dam-core/src/audit.rs) covers every column, the predecessor's *)
(* digest among them, in a form no two entries share: it is the tuple of    *)
(* what it covers.  A body stands for all the columns but seq and prev.     *)
(***************************************************************************)
EXTENDS Naturals, FiniteSets

CONSTANTS
  Tx, NoTx,     \* transactions that record
  Body,         \* what transactions record ...
  FalseBody,    \* ... and what a hand writes over it
  BATCH,        \* VERIFY_BATCH
  MaxSeq,       \* bound on the numbers drawn
  MaxTampers    \* bound on what is done to the table by hand

ASSUME AuditAssumption == NoTx \notin Tx /\ BATCH \in Nat \ {0}

VARIABLES
  log,       \* the committed rows
  drawn,     \* the last number of the table's sequence
  lock,      \* who holds the table's advisory lock
  tx,        \* each transaction: its step, the row it prepared, its own rows
  walk,      \* the verification under way
  genuine,   \* the rows committed before the table was tampered with
  tampers

auditVars == <<log, drawn, lock, tx, walk, genuine, tampers>>

NoHash == <<>>

Hash(seq, body, prev) == <<seq, body, prev>>

Entry(seq, body, prev) ==
  [seq |-> seq, body |-> body, prev |-> prev, hash |-> Hash(seq, body, prev)]

\* recomputed_hash
Recomputed(r) == Hash(r.seq, r.body, r.prev)

Below(S, n) == {r \in S : r.seq < n}

Newest(S) == CHOOSE r \in S : \A q \in S : q.seq <= r.seq

\* WHERE seq < n ORDER BY seq DESC LIMIT 1
HashBefore(S, n) ==
  IF Below(S, n) = {} THEN NoHash ELSE Newest(Below(S, n)).hash

\* WHERE seq >= n ORDER BY seq LIMIT BATCH
Page(S, n) ==
  {r \in S : r.seq >= n /\ Cardinality({q \in S : n <= q.seq /\ q.seq < r.seq}) < BATCH}

Closed == [step |-> "closed", next |-> {}, own |-> {}]

Resting ==
  [step |-> "resting", from |-> 0, ahead |-> FALSE, cursor |-> 0, expected |-> NoHash,
   page |-> {}, full |-> FALSE, read |-> {}]

AuditInit ==
  /\ log = {} /\ drawn = 0 /\ lock = NoTx
  /\ tx = [t \in Tx |-> Closed]
  /\ walk = Resting
  /\ genuine = {} /\ tampers = 0

----------------------------------------------------------------------------
(* record.                                                                 *)

Goes(t, step, next, own) == tx' = [tx EXCEPT ![t] = [step |-> step, next |-> next, own |-> own]]

Begin(t) ==
  /\ tx[t].step = "closed"
  /\ Goes(t, "open", {}, {})
  /\ UNCHANGED <<log, drawn, lock, walk, genuine, tampers>>

\* The bug: outside a transaction the lock ends with the statement that took it.
LockedAnyway(t) == TRUE

\* pg_advisory_xact_lock: waits for another transaction, not for its own.
MayLock(t) == lock \in {NoTx, t}

Lock(t) ==
  /\ tx[t].step = "open" /\ MayLock(t)
  /\ lock' = t
  /\ Goes(t, "locked", {}, tx[t].own)
  /\ UNCHANGED <<log, drawn, walk, genuine, tampers>>

\* One statement draws the number and reads the end of the chain: what is
\* committed and what this transaction has inserted.
Prepare(t) ==
  /\ tx[t].step = "locked" /\ drawn < MaxSeq
  /\ drawn' = drawn + 1
  /\ \E body \in Body :
       Goes(t, "prepared",
            {Entry(drawn + 1, body, HashBefore(log \cup tx[t].own, drawn + 1))}, tx[t].own)
  /\ UNCHANGED <<log, lock, walk, genuine, tampers>>

\* The insert, and the end of the savepoint: the caller may go on and record more.
Insert(t) ==
  /\ tx[t].step = "prepared"
  /\ Goes(t, "open", {}, tx[t].own \cup tx[t].next)
  /\ UNCHANGED <<log, drawn, lock, walk, genuine, tampers>>

Released(t) == IF lock = t THEN NoTx ELSE lock

Commit(t) ==
  /\ tx[t].step = "open"
  /\ log' = log \cup tx[t].own
  /\ genuine' = IF tampers = 0 THEN genuine \cup tx[t].own ELSE genuine
  /\ lock' = Released(t)
  /\ tx' = [tx EXCEPT ![t] = Closed]
  /\ UNCHANGED <<drawn, walk, tampers>>

\* The governed action fails, or its process dies, at any step: the number it
\* drew stays drawn.
Rollback(t) ==
  /\ tx[t].step # "closed"
  /\ lock' = Released(t)
  /\ tx' = [tx EXCEPT ![t] = Closed]
  /\ UNCHANGED <<log, drawn, walk, genuine, tampers>>

----------------------------------------------------------------------------
(* verify; the extract that export takes is its anchor and its first page.  *)

\* The row before from_seq.  ahead: from_seq lies past the number after the
\* last row, so that rows may yet come in between.
Anchor(from) ==
  /\ walk.step = "resting"
  /\ walk' = [Resting EXCEPT
       !.step = "page", !.from = from, !.cursor = from,
       !.expected = HashBefore(log, from),
       !.ahead = from # 0 /\ \A r \in log : r.seq + 1 < from]
  /\ UNCHANGED <<log, drawn, lock, tx, genuine, tampers>>

ReadPage ==
  /\ walk.step = "page"
  /\ walk' = [walk EXCEPT
       !.page = Page(log, walk.cursor),
       !.full = Cardinality(Page(log, walk.cursor)) = BATCH,
       !.step = IF Page(log, walk.cursor) = {} THEN "intact" ELSE "check"]
  /\ UNCHANGED <<log, drawn, lock, tx, genuine, tampers>>

\* The bug: the numbers are expected to be contiguous.
SoundByNumber(r) ==
  r.hash = Recomputed(r) /\ r.prev = walk.expected /\ (walk.read # {} => r.seq = walk.cursor)

\* The bug: each row is checked by itself.
SoundAlone(r) == r.hash = Recomputed(r)

\* Neither Altered nor Unlinked.
Sound(r) == r.hash = Recomputed(r) /\ r.prev = walk.expected

AfterPage == IF walk.full THEN "page" ELSE "intact"

Check ==
  /\ walk.step = "check"
  /\ \E r \in walk.page :
       /\ \A q \in walk.page : r.seq <= q.seq
       /\ walk' = IF Sound(r)
                  THEN [walk EXCEPT
                          !.cursor = r.seq + 1, !.expected = r.hash,
                          !.page = @ \ {r}, !.read = @ \cup {r},
                          !.step = IF walk.page = {r} THEN AfterPage ELSE "check"]
                  ELSE [walk EXCEPT !.step = "broken"]
  /\ UNCHANGED <<log, drawn, lock, tx, genuine, tampers>>

Rest ==
  /\ walk.step \in {"intact", "broken"}
  /\ walk' = Resting
  /\ UNCHANGED <<log, drawn, lock, tx, genuine, tampers>>

----------------------------------------------------------------------------
(* The environment: a superuser drops the rules and edits committed rows.    *)

Tampered(S) ==
  /\ tampers < MaxTampers /\ tampers' = tampers + 1
  /\ log' = S
  /\ UNCHANGED <<drawn, lock, tx, walk, genuine>>

Excise(r) == Tampered(log \ {r})

Alter(r, body) == Tampered((log \ {r}) \cup {[r EXCEPT !.body = body]})

\* ... with its digest made anew, as who knows the formula would do.
Reseal(r, body) == Tampered((log \ {r}) \cup {Entry(r.seq, body, r.prev)})

\* ... or a row is made up in a gap, with its link in order.
Forge(seq, body) ==
  /\ \A r \in log : r.seq # seq
  /\ \E r \in log : seq < r.seq
  /\ Tampered(log \cup {Entry(seq, body, HashBefore(log, seq))})

AuditNext ==
  \/ \E t \in Tx :
       Begin(t) \/ Lock(t) \/ Prepare(t) \/ Insert(t) \/ Commit(t) \/ Rollback(t)
  \/ \E from \in 0..MaxSeq : Anchor(from)
  \/ ReadPage \/ Check \/ Rest
  \/ \E r \in log : Excise(r)
  \/ \E r \in log, body \in FalseBody : Alter(r, body) \/ Reseal(r, body)
  \/ \E seq \in 1..MaxSeq, body \in FalseBody : Forge(seq, body)

AuditSpec == AuditInit /\ [][AuditNext]_auditVars

----------------------------------------------------------------------------
(* Properties.                                                             *)

\* Steps, the lock and the counters; rows are what Entry makes of the numbers.
AuditTypeOK ==
  /\ drawn \in 0..MaxSeq /\ tampers \in 0..MaxTampers /\ lock \in Tx \cup {NoTx}
  /\ \A t \in Tx : tx[t].step \in {"closed", "open", "locked", "prepared"}
  /\ walk.step \in {"resting", "page", "check", "intact", "broken"}
  /\ walk.ahead \in BOOLEAN /\ walk.full \in BOOLEAN
  /\ \A r \in log \cup genuine : r.seq \in 1..drawn /\ r.body \in Body \cup FalseBody

Chained(S) ==
  \A r \in S : r.hash = Recomputed(r) /\ r.prev = HashBefore(S, r.seq)

\* "The chain has to be serialised, or it forks": whatever transactions overlap,
\* fail, or record twice, every committed row links to the one right before it.
NoFork == tampers = 0 => Chained(log)

\* "Tamper evidence for an entry nobody touched [is] the failure that teaches a
\* reader to distrust the alarm": numbers lost to a rollback and rows committed
\* during the walk break nothing.  A walk that starts past the next number may
\* miss a row committed between its anchor and its first page.
NoFalseAlarm == walk.step = "broken" /\ tampers = 0 => walk.ahead

UpTo(S, r) == {q \in S : q.seq <= r.seq}

\* A genuine row vouches for all before it: a walk from the start that accepts
\* one has read just the genuine rows up to it, whatever was removed, altered,
\* resealed or made up.  (Rows removed from the end leave nothing to vouch.)
Vouched ==
  walk.from = 0 => \A g \in genuine \cap walk.read : UpTo(walk.read, g) = UpTo(genuine, g)
=============================================================================
