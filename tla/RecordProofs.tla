----------------------------- MODULE RecordProofs -----------------------------
(***************************************************************************)
(* What is proved of the audit chain, for any transactions, page size and  *)
(* tampering: no fork, no false alarm, and that a genuine row vouches for   *)
(* all before it.  And of an upload of one client at a time, for any file   *)
(* and part sizes, finalisations and sweeps: what is assembled is the       *)
(* client's file, and what is acknowledged is stored.                       *)
(***************************************************************************)
EXTENDS MCRecords, WellFoundedInduction, FiniteSetTheorems, SequenceTheorems, TLAPS

IsRow(r) ==
  /\ r = [seq |-> r.seq, body |-> r.body, prev |-> r.prev, hash |-> r.hash]
  /\ r.seq \in Nat

\* seq is the primary key.
Keyed(S) == \A r, q \in S : r.seq = q.seq => r = q

\* Every row of T comes after every row of S.
Before(S, T) == \A r \in S, q \in T : r.seq < q.seq

Rows(S) == IsFiniteSet(S) /\ Keyed(S) /\ \A r \in S : IsRow(r)

Shape ==
  /\ drawn \in Nat /\ tampers \in Nat
  /\ Rows(log) /\ \A r \in log : r.seq <= drawn
  /\ tx = [t \in Tx |-> [step |-> tx[t].step, next |-> tx[t].next, own |-> tx[t].own]]

\* Only the holder of the lock has drawn a number or inserted a row.
Held ==
  \A t \in Tx :
    /\ tx[t].step \in {"locked", "prepared"} \/ tx[t].own # {} => lock = t
    /\ tx[t].step = "closed" => tx[t].own = {}

\* What is not committed yet comes after all that is.
Pending ==
  \A t \in Tx :
    /\ Rows(tx[t].own) /\ Before(log, tx[t].own)
    /\ \A r \in tx[t].own : r.seq <= drawn
    /\ tx[t].step = "prepared" =>
         \E n : /\ tx[t].next = {n} /\ IsRow(n) /\ n.seq <= drawn
                /\ Before(log \cup tx[t].own, {n})
                /\ tampers = 0 =>
                     n.hash = Recomputed(n) /\ n.prev = HashBefore(log \cup tx[t].own, n.seq)

LogLinked ==
  /\ tampers = 0 => genuine = log /\ Chained(log) /\ \A t \in Tx : Chained(log \cup tx[t].own)
  /\ Rows(genuine) /\ Chained(genuine)

LogInv == Shape /\ Held /\ Pending /\ LogLinked

----------------------------------------------------------------------------
(* The rows before a row.                                                  *)

\* What comes later does not change what was before.
LEMMA LaterRows ==
  ASSUME NEW S, NEW T, NEW n \in Nat,
         \A r \in S : r.seq \in Nat, \A q \in T : q.seq \in Nat /\ q.seq >= n
  PROVE  HashBefore(S \cup T, n) = HashBefore(S, n)
<1>1. Below(S \cup T, n) = Below(S, n)
  BY DEF Below
<1> QED BY <1>1 DEF HashBefore

\* A chain goes on with a row that links to its end.
LEMMA ChainGrows ==
  ASSUME NEW S, \A r \in S : IsRow(r), Chained(S),
         NEW n, IsRow(n), Before(S, {n}),
         n.hash = Recomputed(n), n.prev = HashBefore(S, n.seq)
  PROVE  Chained(S \cup {n})
<1>1. ASSUME NEW r \in S PROVE HashBefore(S \cup {n}, r.seq) = HashBefore(S, r.seq)
  <2>1. r.seq < n.seq /\ r.seq \in Nat /\ n.seq \in Nat
    BY DEF Before, IsRow
  <2>2. \A q \in {n} : q.seq \in Nat /\ q.seq >= r.seq
    BY <2>1
  <2>3. \A x \in S : x.seq \in Nat
    BY DEF IsRow
  <2> QED BY ZenonT(60), <2>1, <2>2, <2>3, LaterRows
<1>2. HashBefore(S \cup {n}, n.seq) = HashBefore(S, n.seq)
  <2>1. \A q \in {n} : q.seq \in Nat /\ q.seq >= n.seq
    BY DEF IsRow
  <2>2. \A x \in S : x.seq \in Nat
    BY DEF IsRow
  <2> QED BY <2>1, <2>2, LaterRows
<1> QED BY <1>1, <1>2 DEF Chained

\* A nonempty set of rows with numbers below a bound has a newest one.
LEMMA NewestExists ==
  ASSUME NEW S, S # {}, NEW n \in Nat, \A r \in S : r.seq \in Nat /\ r.seq < n
  PROVE  Newest(S) \in S /\ \A q \in S : q.seq <= Newest(S).seq
<1> DEFINE gaps == {n - r.seq : r \in S}
<1>1. gaps \subseteq Nat /\ gaps # {}
  OBVIOUS
<1>2. \E g \in gaps : \A x \in gaps : ~ (<<x, g>> \in OpToRel(<, Nat))
  BY <1>1, NatLessThanWellFounded, WFMin, Zenon
<1>3. PICK g \in gaps : \A x \in gaps : ~ (<<x, g>> \in OpToRel(<, Nat))
  BY <1>2
<1>4. PICK r \in S : g = n - r.seq
  OBVIOUS
<1>5. ASSUME NEW q \in S PROVE q.seq <= r.seq
  <2>1. n - q.seq \in gaps
    OBVIOUS
  <2>2. ~ (n - q.seq < g)
    BY <1>1, <1>3, <2>1 DEF OpToRel
  <2> QED BY <1>4, <2>2
<1> HIDE DEF gaps
<1>6. \E x \in S : \A q \in S : q.seq <= x.seq
  BY <1>5
<1> QED BY <1>6 DEF Newest

\* Right after a row, it is the row before.
LEMMA NextAfter ==
  ASSUME NEW S, \A r \in S : IsRow(r), Keyed(S), NEW r \in S
  PROVE  HashBefore(S, r.seq + 1) = r.hash
<1>1. r \in Below(S, r.seq + 1) /\ \A q \in Below(S, r.seq + 1) : q.seq <= r.seq
  BY DEF Below, IsRow
<1>2. Below(S, r.seq + 1) \subseteq S
  BY DEF Below
<1>3. Newest(Below(S, r.seq + 1)) \in Below(S, r.seq + 1)
      /\ \A q \in Below(S, r.seq + 1) : q.seq <= Newest(Below(S, r.seq + 1)).seq
  BY <1>1 DEF Newest
<1>4. Newest(Below(S, r.seq + 1)) = r
  BY <1>1, <1>2, <1>3 DEF Keyed, IsRow
<1> QED BY <1>1, <1>4 DEF HashBefore

\* A digest says what it covers.
LEMMA HashSays ==
  ASSUME NEW r, IsRow(r), r.hash = Recomputed(r)
  PROVE  /\ r.hash # NoHash
         /\ \A q : IsRow(q) /\ q.hash = Recomputed(q) /\ q.hash = r.hash => q = r
<1>1. r.hash # NoHash
  BY DEF Recomputed, Hash, NoHash
<1>2. ASSUME NEW q, IsRow(q), q.hash = Recomputed(q), q.hash = r.hash PROVE q = r
  BY <1>2 DEF Recomputed, Hash, IsRow
<1> QED BY <1>1, <1>2

LEMMA EntryIsRow ==
  ASSUME NEW seq \in Nat, NEW body, NEW prev
  PROVE  /\ IsRow(Entry(seq, body, prev))
         /\ Entry(seq, body, prev).seq = seq /\ Entry(seq, body, prev).prev = prev
         /\ Entry(seq, body, prev).hash = Recomputed(Entry(seq, body, prev))
BY DEF IsRow, Entry, Recomputed

----------------------------------------------------------------------------
(* The log.                                                                *)

\* What tampering may make of the rows: no number is used twice or is new.
Edited(S) == Rows(S) /\ \A r \in S : \E q \in log : r.seq <= q.seq

LEMMA TampersEdit ==
  ASSUME Shape,
         \/ \E r \in log : Excise(r)
         \/ \E r \in log, body \in FalseBody : Alter(r, body) \/ Reseal(r, body)
         \/ \E seq \in 1..MaxSeq, body \in FalseBody : Forge(seq, body)
  PROVE  \E S : Tampered(S) /\ Edited(S)
<1>0. Rows(log) /\ IsFiniteSet(log) /\ Keyed(log) /\ \A r \in log : IsRow(r) /\ r.seq <= r.seq
  BY DEF Shape, Rows, IsRow
<1>1. ASSUME NEW r \in log, Excise(r) PROVE \E S : Tampered(S) /\ Edited(S)
  <2>1. IsFiniteSet(log \ {r})
    BY <1>0, FS_Subset, log \ {r} \subseteq log
  <2> QED BY <1>0, <1>1, <2>1 DEF Excise, Edited, Rows, Keyed
<1>2. ASSUME NEW r \in log, NEW x, IsRow(x), x.seq = r.seq, Tampered((log \ {r}) \cup {x})
      PROVE  \E S : Tampered(S) /\ Edited(S)
  <2>1. IsFiniteSet(log \ {r})
    BY <1>0, FS_Subset, log \ {r} \subseteq log
  <2>2. IsFiniteSet((log \ {r}) \cup {x})
    BY <2>1, FS_AddElement
  <2>3. Keyed((log \ {r}) \cup {x})
    BY <1>0, <1>2 DEF Keyed
  <2> QED BY <1>0, <1>2, <2>2, <2>3 DEF Edited, Rows
<1>3. ASSUME NEW r \in log, NEW body \in FalseBody, Alter(r, body)
      PROVE  \E S : Tampered(S) /\ Edited(S)
  <2>1. IsRow([r EXCEPT !.body = body]) /\ [r EXCEPT !.body = body].seq = r.seq
    BY <1>0 DEF IsRow
  <2> QED BY <1>2, <1>3, <2>1 DEF Alter
<1>4. ASSUME NEW r \in log, NEW body \in FalseBody, Reseal(r, body)
      PROVE  \E S : Tampered(S) /\ Edited(S)
  <2>1. r.seq \in Nat
    BY <1>0 DEF IsRow
  <2>2. IsRow(Entry(r.seq, body, r.prev)) /\ Entry(r.seq, body, r.prev).seq = r.seq
    BY <2>1, EntryIsRow
  <2> QED BY <1>2, <1>4, <2>2 DEF Reseal
<1>5. ASSUME NEW seq \in 1..MaxSeq, NEW body \in FalseBody, Forge(seq, body)
      PROVE  \E S : Tampered(S) /\ Edited(S)
  <2> DEFINE x == Entry(seq, body, HashBefore(log, seq))
  <2>1. seq \in Nat
    OBVIOUS
  <2>2. IsRow(x) /\ x.seq = seq
    BY <2>1, EntryIsRow
  <2> HIDE DEF x
  <2>3. Tampered(log \cup {x}) /\ (\A r \in log : r.seq # seq) /\ \E r \in log : seq < r.seq
    BY <1>5 DEF Forge, x
  <2>4. PICK q \in log : seq < q.seq
    BY <2>3
  <2>5. IsFiniteSet(log \cup {x})
    BY <1>0, FS_AddElement
  <2>6. Keyed(log \cup {x})
    BY <1>0, <2>2, <2>3 DEF Keyed
  <2>7. \A r \in log \cup {x} : \E y \in log : r.seq <= y.seq
    BY <1>0, <2>1, <2>2, <2>4 DEF IsRow
  <2> QED BY <1>0, <2>2, <2>3, <2>5, <2>6, <2>7 DEF Edited, Rows
<1> QED BY <1>1, <1>3, <1>4, <1>5

LEMMA LogInit == AuditInit => LogInv
<1> SUFFICES ASSUME AuditInit PROVE LogInv
  OBVIOUS
<1> USE DEF AuditInit, Closed, Resting
<1>0. Rows({})
  BY FS_EmptySet DEF Rows, Keyed
<1>1. Shape
  BY <1>0 DEF Shape
<1>2. Held
  BY DEF Held
<1>3. Pending
  BY <1>0 DEF Pending, Before
<1>4. LogLinked
  BY <1>0 DEF LogLinked, Chained
<1> QED BY <1>1, <1>2, <1>3, <1>4 DEF LogInv

LEMMA CommitStep ==
  ASSUME LogInv, NEW t \in Tx, Commit(t)
  PROVE  LogInv'
<1> USE DEF Closed
<1>0. /\ Shape /\ Held /\ Pending /\ LogLinked
      /\ tx[t].step = "open" /\ log' = log \cup tx[t].own
      /\ genuine' = (IF tampers = 0 THEN genuine \cup tx[t].own ELSE genuine)
      /\ lock' = Released(t) /\ tx' = [tx EXCEPT ![t] = Closed]
      /\ drawn' = drawn /\ tampers' = tampers
  BY DEF LogInv, Commit
<1>1. tx'[t] = Closed /\ \A u \in Tx : u # t => tx'[u] = tx[u]
  BY <1>0 DEF Shape
<1>2. ASSUME NEW u \in Tx, u # t, tx[u].step \in {"locked", "prepared"} \/ tx[u].own # {}
      PROVE  tx[t].own = {} /\ lock = u
  BY <1>0, <1>2 DEF Held
<1>3. Rows(log')
  <2>1. Rows(log) /\ Rows(tx[t].own) /\ Before(log, tx[t].own)
    BY <1>0 DEF Shape, Pending
  <2>2. IsFiniteSet(log \cup tx[t].own)
    BY <2>1, FS_Union DEF Rows
  <2>3. Keyed(log \cup tx[t].own)
    <3> SUFFICES ASSUME NEW r \in log \cup tx[t].own, NEW q \in log \cup tx[t].own,
                        r.seq = q.seq
                 PROVE  r = q
      BY DEF Keyed
    <3>1. r.seq \in Nat /\ q.seq \in Nat
      BY <2>1 DEF Rows, IsRow
    <3> QED BY <2>1, <3>1 DEF Rows, Keyed, Before
  <2> QED BY <1>0, <2>1, <2>2, <2>3 DEF Rows
<1>4. Shape'
  <2>1. \A r \in log' : r.seq <= drawn'
    BY <1>0 DEF Shape, Pending
  <2> QED BY <1>0, <1>3, <2>1 DEF Shape
<1>5. Held'
  BY <1>0, <1>1, <1>2 DEF Held, Released
<1>6. Pending'
  <2> SUFFICES ASSUME NEW u \in Tx PROVE
         /\ Rows(tx'[u].own) /\ Before(log', tx'[u].own)
         /\ \A r \in tx'[u].own : r.seq <= drawn'
         /\ tx'[u].step = "prepared" =>
              \E n : /\ tx'[u].next = {n} /\ IsRow(n) /\ n.seq <= drawn'
                     /\ Before(log' \cup tx'[u].own, {n})
                     /\ tampers' = 0 => n.hash = Recomputed(n)
                                        /\ n.prev = HashBefore(log' \cup tx'[u].own, n.seq)
    BY DEF Pending, Recomputed
  <2>1. CASE u = t
    BY <1>1, <2>1, FS_EmptySet DEF Rows, Keyed, Before
  <2>2. CASE u # t /\ tx[t].own = {}
    <3>1. log' = log /\ tx'[u] = tx[u]
      BY <1>0, <1>1, <2>2
    <3> QED BY <1>0, <3>1 DEF Pending
  <2>3. CASE u # t /\ tx[t].own # {}
    <3>1. tx'[u] = tx[u] /\ tx[u].own = {} /\ tx[u].step # "prepared"
      BY <1>1, <1>2, <2>3
    <3> QED BY <3>1, FS_EmptySet DEF Rows, Keyed, Before
  <2> QED BY <2>1, <2>2, <2>3
<1>7. LogLinked'
  <2>1. tampers' # 0 => genuine' = genuine
    BY <1>0
  <2>2. ASSUME tampers' = 0
        PROVE  genuine' = log' /\ Chained(log') /\ \A u \in Tx : Chained(log' \cup tx'[u].own)
    <3>1. Chained(log') /\ genuine' = log'
      BY <1>0, <2>2 DEF LogLinked
    <3>2. ASSUME NEW u \in Tx PROVE Chained(log' \cup tx'[u].own)
      <4>1. CASE tx'[u].own = {}
        BY <3>1, <4>1
      <4>2. CASE tx'[u].own # {}
        <5>1. u # t /\ tx'[u] = tx[u] /\ tx[u].own # {}
          BY <1>1, <4>2
        <5>2. log' = log
          BY <1>0, <1>2, <5>1
        <5> QED BY <1>0, <2>2, <5>1, <5>2 DEF LogLinked
      <4> QED BY <4>1, <4>2
    <3> QED BY <3>1, <3>2
  <2>3. Rows(genuine') /\ Chained(genuine')
    BY <1>0, <1>3, <2>1, <2>2 DEF LogLinked
  <2> QED BY <2>2, <2>3 DEF LogLinked
<1> QED BY <1>4, <1>5, <1>6, <1>7 DEF LogInv

LEMMA RollbackStep ==
  ASSUME LogInv, NEW t \in Tx, Rollback(t)
  PROVE  LogInv'
<1> USE DEF Closed
<1>0. /\ Shape /\ Held /\ Pending /\ LogLinked
      /\ lock' = Released(t) /\ tx' = [tx EXCEPT ![t] = Closed]
      /\ log' = log /\ genuine' = genuine
      /\ drawn' = drawn /\ tampers' = tampers
  BY DEF LogInv, Rollback
<1>1. tx'[t] = Closed /\ \A u \in Tx : u # t => tx'[u] = tx[u]
  BY <1>0 DEF Shape
<1>2. Shape'
  BY <1>0 DEF Shape
<1>3. Held'
  BY <1>0, <1>1 DEF Held, Released
<1>4. Pending'
  <2>1. Rows({}) /\ Before(log', {})
    BY FS_EmptySet DEF Rows, Keyed, Before
  <2> QED BY <1>0, <1>1, <2>1 DEF Pending, Before, Recomputed, HashBefore, Newest, Below
<1>5. LogLinked'
  <2>1. log' \cup {} = log
    BY <1>0
  <2>2. tampers' = 0 => \A u \in Tx : Chained(log' \cup tx'[u].own)
    <3>1. log' \cup tx'[t].own = log
      BY <1>1, <2>1
    <3>2. \A u \in Tx : u # t => log' \cup tx'[u].own = log \cup tx[u].own
      BY <1>0, <1>1
    <3> QED BY <1>0, <3>1, <3>2 DEF LogLinked
  <2> QED BY <1>0, <2>2 DEF LogLinked
<1> QED BY <1>2, <1>3, <1>4, <1>5 DEF LogInv

LEMMA PrepareStep ==
  ASSUME LogInv, NEW t \in Tx, Prepare(t)
  PROVE  LogInv'
<1> DEFINE S == log \cup tx[t].own
<1>0. /\ Shape /\ Held /\ Pending /\ LogLinked
      /\ tx[t].step = "locked" /\ lock = t
      /\ log' = log /\ genuine' = genuine /\ lock' = lock
      /\ drawn' = drawn + 1 /\ tampers' = tampers
  BY DEF LogInv, Prepare, Held
<1>1. PICK body \in Body :
        Goes(t, "prepared", {Entry(drawn + 1, body, HashBefore(S, drawn + 1))}, tx[t].own)
  BY DEF Prepare
<1> DEFINE n == Entry(drawn + 1, body, HashBefore(S, drawn + 1))
<1>2. /\ tx'[t].own = tx[t].own /\ tx'[t].step = "prepared" /\ tx'[t].next = {n}
      /\ \A u \in Tx : u # t => tx'[u] = tx[u]
  BY <1>0, <1>1 DEF Shape, Goes
<1>3. IsRow(n) /\ n.seq = drawn + 1 /\ n.hash = Recomputed(n) /\ n.prev = HashBefore(S, n.seq)
  <2>1. drawn + 1 \in Nat
    BY <1>0 DEF Shape
  <2> QED BY <2>1, EntryIsRow
<1> HIDE DEF n, S
<1>4. drawn \in Nat /\ \A r \in S : r.seq <= drawn /\ r.seq \in Nat
  BY <1>0 DEF Shape, Pending, S, Rows, IsRow
<1>5. Shape'
  <2>1. \A r \in log' : r.seq <= drawn'
    BY <1>0, <1>4 DEF S
  <2>2. tx' = [u \in Tx |-> [step |-> tx'[u].step, next |-> tx'[u].next, own |-> tx'[u].own]]
    BY <1>0, <1>1 DEF Shape, Goes
  <2> QED BY <1>0, <1>4, <2>1, <2>2 DEF Shape
<1>6. Held'
  BY <1>0, <1>2 DEF Held
<1>7. Pending'
  <2> SUFFICES ASSUME NEW u \in Tx PROVE
         /\ Rows(tx'[u].own) /\ Before(log', tx'[u].own)
         /\ \A r \in tx'[u].own : r.seq <= drawn'
         /\ tx'[u].step = "prepared" =>
              \E x : /\ tx'[u].next = {x} /\ IsRow(x) /\ x.seq <= drawn'
                     /\ Before(log' \cup tx'[u].own, {x})
                     /\ tampers' = 0 => x.hash = Recomputed(x)
                                        /\ x.prev = HashBefore(log' \cup tx'[u].own, x.seq)
    BY DEF Pending, Recomputed
  <2>1. tx'[u].own = tx[u].own
    BY <1>2
  <2>2. Rows(tx'[u].own) /\ Before(log', tx'[u].own)
    BY <1>0, <2>1 DEF Pending
  <2>3. \A r \in tx[u].own : r.seq <= drawn /\ r.seq \in Nat
    BY <1>0 DEF Pending, Rows, IsRow
  <2>4. \A r \in tx'[u].own : r.seq <= drawn'
    BY <1>0, <1>4, <2>1, <2>3
  <2>5. CASE u = t
    <3>1. Before(log' \cup tx'[u].own, {n})
      BY <1>0, <1>3, <1>4, <2>1, <2>5 DEF Before, S
    <3>2. n.seq <= drawn'
      BY <1>0, <1>3, <1>4
    <3> QED BY <1>0, <1>2, <1>3, <2>1, <2>2, <2>4, <2>5, <3>1, <3>2 DEF S
  <2>6. CASE u # t
    <3>1. tx'[u].step # "prepared"
      BY <1>0, <1>2, <2>6 DEF Held
    <3> QED BY <2>2, <2>4, <3>1
  <2> QED BY <2>5, <2>6
<1>8. LogLinked'
  <2>1. \A u \in Tx : log' \cup tx'[u].own = log \cup tx[u].own
    BY <1>0, <1>2
  <2> QED BY <1>0, <2>1 DEF LogLinked
<1> QED BY <1>5, <1>6, <1>7, <1>8 DEF LogInv

LEMMA InsertStep ==
  ASSUME LogInv, NEW t \in Tx, Insert(t)
  PROVE  LogInv'
<1>0. /\ Shape /\ Held /\ Pending /\ LogLinked
      /\ tx[t].step = "prepared" /\ lock = t
      /\ Goes(t, "open", {}, tx[t].own \cup tx[t].next)
      /\ log' = log /\ genuine' = genuine /\ lock' = lock
      /\ drawn' = drawn /\ tampers' = tampers
  BY DEF LogInv, Insert, Held
<1>1. PICK n : /\ tx[t].next = {n} /\ IsRow(n) /\ n.seq <= drawn
               /\ Before(log \cup tx[t].own, {n})
               /\ tampers = 0 =>
                    n.hash = Recomputed(n) /\ n.prev = HashBefore(log \cup tx[t].own, n.seq)
  BY <1>0 DEF Pending
<1>2. /\ tx'[t].own = tx[t].own \cup {n} /\ tx'[t].step = "open"
      /\ \A u \in Tx : u # t => tx'[u] = tx[u]
  BY <1>0, <1>1 DEF Shape, Goes
<1>3. \A u \in Tx : u # t => tx[u].own = {} /\ tx[u].step \notin {"locked", "prepared"}
  BY <1>0 DEF Held
<1>4. Rows(tx[t].own) /\ Before(log, tx[t].own) /\ \A r \in tx[t].own : r.seq <= drawn
  BY <1>0 DEF Pending
<1>5. Shape'
  <2>1. tx' = [u \in Tx |-> [step |-> tx'[u].step, next |-> tx'[u].next, own |-> tx'[u].own]]
    BY <1>0 DEF Shape, Goes
  <2> QED BY <1>0, <2>1 DEF Shape
<1>6. Held'
  BY <1>0, <1>2 DEF Held
<1>7. Pending'
  <2>1. Rows(tx[t].own \cup {n})
    <3>1. IsFiniteSet(tx[t].own \cup {n})
      BY <1>4, FS_AddElement DEF Rows
    <3>2. \A r \in tx[t].own : r.seq # n.seq
      BY <1>1, <1>4 DEF Rows, Before, IsRow
    <3> QED BY <1>1, <1>4, <3>1, <3>2 DEF Rows, Keyed
  <2>2. Before(log, tx[t].own \cup {n}) /\ \A r \in tx[t].own \cup {n} : r.seq <= drawn
    BY <1>1, <1>4 DEF Before
  <2>3. Rows({}) /\ Before(log, {})
    BY FS_EmptySet DEF Rows, Keyed, Before
  <2> QED BY <1>0, <1>2, <1>3, <2>1, <2>2, <2>3 DEF Pending, Before
<1>8. LogLinked'
  <2>1. ASSUME tampers = 0 PROVE \A u \in Tx : Chained(log' \cup tx'[u].own)
    <3>1. Chained((log \cup tx[t].own) \cup {n})
      <4>1. \A r \in log \cup tx[t].own : IsRow(r)
        BY <1>0, <1>4 DEF Shape, Rows
      <4>2. Chained(log \cup tx[t].own)
        BY <1>0, <2>1 DEF LogLinked
      <4> QED BY <1>1, <2>1, <4>1, <4>2, ChainGrows
    <3>2. log' \cup tx'[t].own = (log \cup tx[t].own) \cup {n}
      BY <1>0, <1>2
    <3>3. \A u \in Tx : u # t => log' \cup tx'[u].own = log \cup tx[u].own
      BY <1>0, <1>2
    <3> QED BY <1>0, <2>1, <3>1, <3>2, <3>3 DEF LogLinked
  <2> QED BY <1>0, <2>1 DEF LogLinked
<1> QED BY <1>5, <1>6, <1>7, <1>8 DEF LogInv

LEMMA EditStep ==
  ASSUME LogInv, NEW S, Tampered(S), Edited(S)
  PROVE  LogInv'
<1>0. /\ Shape /\ Held /\ Pending /\ LogLinked
      /\ log' = S /\ tampers' = tampers + 1 /\ tampers' # 0 /\ tampers' \in Nat
      /\ genuine' = genuine /\ lock' = lock /\ drawn' = drawn /\ tx' = tx
  BY DEF LogInv, Shape, Tampered
<1>1. Rows(S) /\ \A r \in S : r.seq \in Nat /\ \E q \in log : r.seq <= q.seq
  BY DEF Edited, Rows, IsRow
<1>2. Rows(log) /\ \A q \in log : q.seq \in Nat
  BY <1>0 DEF Shape, Rows, IsRow
<1>3. Shape'
  <2>1. \A r \in log' : r.seq <= drawn'
    BY <1>0, <1>1, <1>2 DEF Shape
  <2> QED BY <1>0, <1>1, <2>1 DEF Shape
<1>4. Held'
  BY <1>0 DEF Held
<1>5. ASSUME NEW T, Before(log, T), \A r \in T : r.seq \in Nat PROVE Before(S, T)
  BY <1>1, <1>2, <1>5 DEF Before
<1>6. Pending'
  <2> SUFFICES ASSUME NEW t \in Tx PROVE
         /\ Rows(tx[t].own) /\ Before(S, tx[t].own)
         /\ \A r \in tx[t].own : r.seq <= drawn
         /\ tx[t].step = "prepared" =>
              \E n : /\ tx[t].next = {n} /\ IsRow(n) /\ n.seq <= drawn
                     /\ Before(S \cup tx[t].own, {n})
    BY <1>0 DEF Pending
  <2>1. /\ Rows(tx[t].own) /\ Before(log, tx[t].own)
        /\ \A r \in tx[t].own : r.seq <= drawn /\ r.seq \in Nat
    BY <1>0 DEF Pending, Rows, IsRow
  <2>2. Before(S, tx[t].own)
    BY <1>5, <2>1
  <2>3. ASSUME tx[t].step = "prepared"
        PROVE  \E n : /\ tx[t].next = {n} /\ IsRow(n) /\ n.seq <= drawn
                      /\ Before(S \cup tx[t].own, {n})
    <3>1. PICK n : tx[t].next = {n} /\ IsRow(n) /\ n.seq <= drawn
                   /\ Before(log \cup tx[t].own, {n})
      BY <1>0, <2>3 DEF Pending
    <3>2. Before(S, {n})
      BY <1>5, <3>1 DEF Before, IsRow
    <3> QED BY <3>1, <3>2 DEF Before
  <2> QED BY <2>1, <2>2, <2>3
<1>7. LogLinked'
  BY <1>0 DEF LogLinked
<1> QED BY <1>3, <1>4, <1>6, <1>7 DEF LogInv

LEMMA BeginLockStep ==
  ASSUME LogInv, NEW t \in Tx, Begin(t) \/ Lock(t)
  PROVE  LogInv'
<1>0. /\ Shape /\ Held /\ Pending /\ LogLinked
      /\ log' = log /\ genuine' = genuine
      /\ drawn' = drawn /\ tampers' = tampers
  BY DEF LogInv, Begin, Lock
<1>1. /\ \A u \in Tx : tx'[u].own = tx[u].own /\ (u # t => tx'[u] = tx[u])
      /\ tx'[t].step \in {"open", "locked"}
      /\ tx' = [u \in Tx |-> [step |-> tx'[u].step, next |-> tx'[u].next, own |-> tx'[u].own]]
  <2>1. CASE Begin(t)
    BY <1>0, <2>1 DEF Begin, Goes, Shape, Held
  <2>2. CASE Lock(t)
    BY <1>0, <2>2 DEF Lock, Goes, Shape
  <2> QED BY <2>1, <2>2
<1>2. Shape'
  BY <1>0, <1>1 DEF Shape
<1>3. Held'
  <2>1. CASE Begin(t)
    BY <1>0, <1>1, <2>1 DEF Begin, Held, Goes, Shape
  <2>2. CASE Lock(t)
    <3>1. \A u \in Tx : u # t => tx[u].step \notin {"locked", "prepared"} /\ tx[u].own = {}
      BY <1>0, <2>2, AuditAssumption DEF Lock, MayLock, Held
    <3>2. lock' = t
      BY <2>2 DEF Lock
    <3> QED BY <1>0, <1>1, <3>1, <3>2 DEF Held
  <2> QED BY SMTT(60), <2>1, <2>2
<1>4. Pending'
  BY ZenonT(60), <1>0, <1>1 DEF Pending
<1>5. LogLinked'
  <2>1. \A u \in Tx : log' \cup tx'[u].own = log \cup tx[u].own
    BY <1>0, <1>1
  <2> QED BY <1>0, <2>1 DEF LogLinked
<1> QED BY <1>2, <1>3, <1>4, <1>5 DEF LogInv

Walk == (\E from \in 0..MaxSeq : Anchor(from)) \/ ReadPage \/ Check \/ Rest

LEMMA WalkKeepsLog ==
  ASSUME LogInv, Walk
  PROVE  LogInv'
<1>0. /\ Shape /\ Held /\ Pending /\ LogLinked /\ lock' = lock /\ tx' = tx
      /\ log' = log /\ genuine' = genuine /\ drawn' = drawn /\ tampers' = tampers
  BY DEF LogInv, Walk, Anchor, ReadPage, Check, Rest
<1> QED BY <1>0 DEF LogInv, Shape, Held, Pending, LogLinked

\* The log's part of every step.
LEMMA LogStep == LogInv /\ [AuditNext]_auditVars => LogInv'
<1> SUFFICES ASSUME LogInv, [AuditNext]_auditVars PROVE LogInv'
  OBVIOUS
<1>1. ASSUME NEW t \in Tx,
             Begin(t) \/ Lock(t) \/ Prepare(t) \/ Insert(t) \/ Commit(t) \/ Rollback(t)
      PROVE  LogInv'
  BY <1>1, BeginLockStep, PrepareStep, InsertStep, CommitStep, RollbackStep
<1>2. ASSUME Walk PROVE LogInv'
  BY <1>2, WalkKeepsLog
<1>3. ASSUME \/ \E r \in log : Excise(r)
             \/ \E r \in log, body \in FalseBody : Alter(r, body) \/ Reseal(r, body)
             \/ \E seq \in 1..MaxSeq, body \in FalseBody : Forge(seq, body)
      PROVE  LogInv'
  BY <1>3, TampersEdit, EditStep DEF LogInv
<1>4. ASSUME UNCHANGED auditVars PROVE LogInv'
  BY <1>4 DEF auditVars, LogInv, Shape, Held, Pending, LogLinked
<1> QED BY <1>1, <1>2, <1>3, <1>4 DEF AuditNext, Walk

\* No fork, for any number of transactions, records in each, and rollbacks: the
\* lock is held to the end of the transaction that reads the tail.
THEOREM NoForkAlways == AuditSpec => []NoFork
<1>1. AuditInit => LogInv
  BY LogInit
<1>2. LogInv /\ [AuditNext]_auditVars => LogInv'
  BY LogStep
<1>3. LogInv => NoFork
  BY DEF LogInv, LogLinked, NoFork
<1> QED BY <1>1, <1>2, <1>3, PTL DEF AuditSpec

----------------------------------------------------------------------------
(* The walk.                                                               *)

Stepping == walk.step \in {"page", "check"}

WalkShape ==
  /\ walk = [step |-> walk.step, from |-> walk.from, ahead |-> walk.ahead,
             cursor |-> walk.cursor, expected |-> walk.expected, page |-> walk.page,
             full |-> walk.full, read |-> walk.read]
  /\ walk.cursor \in Nat
  /\ Keyed(walk.page) /\ \A r \in walk.page : IsRow(r) /\ walk.cursor <= r.seq
  /\ \A r \in walk.read : IsRow(r) /\ r.seq < walk.cursor /\ r.hash = Recomputed(r)
  /\ tampers = 0 => walk.page \subseteq log /\ walk.read \subseteq log

\* The walk is where the log is: what it expects next is what comes next, and
\* nothing will come before it any more.
InStep ==
  tampers = 0 /\ ~ walk.ahead =>
    /\ walk.step # "broken"
    /\ Stepping =>
         /\ walk.expected = HashBefore(log, walk.cursor)
         /\ walk.cursor = 0 \/ \E r \in log : walk.cursor <= r.seq + 1
         /\ \A b \in walk.page, r \in log :
              walk.cursor <= r.seq /\ r.seq <= b.seq => r \in walk.page

\* What a walk from the start has read ends in what it expects.
ReadEnds ==
  walk.from = 0 /\ Stepping =>
    \/ walk.read = {} /\ walk.expected = NoHash
    \/ \E l \in walk.read : walk.expected = l.hash /\ \A q \in walk.read : q.seq <= l.seq

WalkInv == WalkShape /\ InStep /\ ReadEnds /\ Vouched

AuditInv == LogInv /\ WalkInv

LEMMA WalkInit == AuditInit => WalkInv
<1> SUFFICES ASSUME AuditInit PROVE WalkInv
  OBVIOUS
<1> USE DEF AuditInit, Resting
<1>1. WalkShape
  BY DEF WalkShape, Keyed
<1>2. InStep
  BY DEF InStep, Stepping
<1>3. ReadEnds
  BY DEF ReadEnds, Stepping
<1>4. Vouched
  BY DEF Vouched
<1> QED BY <1>1, <1>2, <1>3, <1>4 DEF WalkInv

\* A walk that only moves on keeps what was read vouched for.
LEMMA AnchorStep ==
  ASSUME AuditInv, NEW from \in 0..MaxSeq, Anchor(from)
  PROVE  WalkInv'
<1>0. /\ LogInv /\ WalkInv /\ from \in Nat
      /\ log' = log /\ genuine' = genuine /\ tampers' = tampers
      /\ \A r \in log : r.seq \in Nat
  BY DEF AuditInv, Anchor, LogInv, Shape, Rows, IsRow
<1> DEFINE a == from # 0 /\ \A r \in log : r.seq + 1 < from
           h == HashBefore(log, from)
<1>1. walk' = [step |-> "page", from |-> from, ahead |-> a, cursor |-> from, expected |-> h,
               page |-> {}, full |-> FALSE, read |-> {}]
  <2> DEFINE aa == a
  <2>1. walk' = [Resting EXCEPT !.step = "page", !.from = from, !.cursor = from,
                                !.expected = h, !.ahead = aa]
    BY DEF Anchor
  <2> HIDE DEF a, aa, h
  <2>2. aa = a
    BY DEF aa
  <2>3. walk' = [step |-> "page", from |-> from, ahead |-> aa, cursor |-> from, expected |-> h,
                 page |-> {}, full |-> FALSE, read |-> {}]
    BY <2>1 DEF Resting
  <2> QED BY <2>2, <2>3
<1>2. /\ walk'.step = "page" /\ walk'.from = from /\ walk'.ahead = a /\ walk'.cursor = from
      /\ walk'.expected = h /\ walk'.page = {} /\ walk'.read = {}
  <2> HIDE DEF a, h
  <2> QED BY <1>1
<1>3. WalkShape'
  <2>1. walk' = [step |-> walk'.step, from |-> walk'.from, ahead |-> walk'.ahead,
             cursor |-> walk'.cursor, expected |-> walk'.expected, page |-> walk'.page,
             full |-> walk'.full, read |-> walk'.read]
    <3> HIDE DEF a, h
    <3> QED BY <1>1
  <2> QED BY <1>0, <1>2, <2>1 DEF WalkShape, Keyed
<1>4. InStep'
  <2>1. ~ walk'.ahead => from = 0 \/ \E r \in log : from <= r.seq + 1
    <3>1. ~ walk'.ahead => ~ a
      <4> HIDE DEF a
      <4> QED BY <1>2, Zenon
    <3>2. ~ a => from = 0 \/ \E r \in log : from <= r.seq + 1
      BY <1>0
    <3> QED BY <3>1, <3>2
  <2> HIDE DEF a
  <2> QED BY <1>0, <1>2, <2>1 DEF InStep, Stepping
<1>5. ReadEnds'
  <2>1. from = 0 => h = NoHash
    BY <1>0 DEF HashBefore, Below
  <2> HIDE DEF a, h
  <2> QED BY <1>2, <2>1 DEF ReadEnds
<1>6. Vouched'
  <2> HIDE DEF a, h
  <2> QED BY <1>2 DEF Vouched
<1> QED BY <1>3, <1>4, <1>5, <1>6 DEF WalkInv

LEMMA ReadStep ==
  ASSUME AuditInv, ReadPage
  PROVE  WalkInv'
<1> DEFINE P == Page(log, walk.cursor)
<1>0. /\ LogInv /\ WalkShape /\ InStep /\ ReadEnds /\ Vouched /\ Shape
      /\ log' = log /\ genuine' = genuine /\ tampers' = tampers /\ walk.step = "page"
      /\ walk' = [walk EXCEPT !.page = P, !.full = Cardinality(P) = BATCH,
                              !.step = IF P = {} THEN "intact" ELSE "check"]
  BY DEF AuditInv, ReadPage, LogInv, WalkInv
<1>1. /\ P \subseteq log /\ \A r \in P : walk.cursor <= r.seq
      /\ \A b \in P, r \in log : walk.cursor <= r.seq /\ r.seq <= b.seq => r \in P
  <2>1. P \subseteq log /\ \A r \in P : r.seq >= walk.cursor
    BY DEF Page
  <2>2. walk.cursor \in Nat /\ Rows(log) /\ \A r \in log : r.seq \in Nat
    BY <1>0 DEF WalkShape, Shape, Rows, IsRow
  <2>3. ASSUME NEW b \in P, NEW r \in log, walk.cursor <= r.seq, r.seq <= b.seq
        PROVE  r \in P
    <3> DEFINE A == {q \in log : walk.cursor <= q.seq /\ q.seq < r.seq}
               B == {q \in log : walk.cursor <= q.seq /\ q.seq < b.seq}
    <3>1. A \subseteq B
      BY <2>1, <2>2, <2>3
    <3>2. IsFiniteSet(B) /\ IsFiniteSet(A)
      BY <2>2, FS_Subset, A \subseteq log, B \subseteq log DEF Rows
    <3>3. Cardinality(A) <= Cardinality(B) /\ Cardinality(A) \in Nat /\ Cardinality(B) \in Nat
      BY <3>1, <3>2, FS_Subset, FS_CardinalityType
    <3>4. Cardinality(B) < BATCH
      BY DEF Page
    <3>5. Cardinality(A) < BATCH
      BY <3>3, <3>4, AuditAssumption
    <3> QED BY <2>2, <2>3, <3>5 DEF Page
  <2> QED BY <2>1, <2>2, <2>3
<1> HIDE DEF P
<1>2. /\ walk'.page = P /\ walk'.step \in {"intact", "check"}
      /\ walk'.from = walk.from /\ walk'.ahead = walk.ahead /\ walk'.cursor = walk.cursor
      /\ walk'.expected = walk.expected /\ walk'.read = walk.read
      /\ walk' = [step |-> walk'.step, from |-> walk'.from, ahead |-> walk'.ahead,
             cursor |-> walk'.cursor, expected |-> walk'.expected, page |-> walk'.page,
             full |-> walk'.full, read |-> walk'.read]
  <2> DEFINE full == Cardinality(P) = BATCH
             step == IF P = {} THEN "intact" ELSE "check"
  <2>1. step \in {"intact", "check"}
    OBVIOUS
  <2>2. walk' = [walk EXCEPT !.page = P, !.full = full, !.step = step]
    BY <1>0
  <2> HIDE DEF full, step
  <2> QED BY <1>0, <2>1, <2>2 DEF WalkShape
<1>3. WalkShape'
  BY <1>0, <1>1, <1>2 DEF WalkShape, Shape, Rows, Keyed
<1>4. InStep'
  BY <1>0, <1>1, <1>2 DEF InStep, Stepping
<1>5. ReadEnds'
  BY <1>0, <1>2 DEF ReadEnds, Stepping
<1>6. Vouched'
  BY <1>0, <1>2 DEF Vouched
<1> QED BY <1>3, <1>4, <1>5, <1>6 DEF WalkInv

\* A row that a walk accepts is the row its neighbour's digest names.
LEMMA CheckStep ==
  ASSUME AuditInv, Check
  PROVE  WalkInv'
<1>0. /\ LogInv /\ WalkShape /\ InStep /\ ReadEnds /\ Vouched /\ Shape /\ LogLinked
      /\ log' = log /\ genuine' = genuine /\ tampers' = tampers /\ walk.step = "check"
  BY DEF AuditInv, Check, LogInv, WalkInv
<1>1. PICK r \in walk.page :
        /\ \A q \in walk.page : r.seq <= q.seq
        /\ walk' = IF Sound(r)
                  THEN [walk EXCEPT
                          !.cursor = r.seq + 1, !.expected = r.hash,
                          !.page = @ \ {r}, !.read = @ \cup {r},
                          !.step = IF walk.page = {r} THEN AfterPage ELSE "check"]
                  ELSE [walk EXCEPT !.step = "broken"]
  BY DEF Check
<1>2. /\ IsRow(r) /\ r.seq \in Nat /\ walk.cursor <= r.seq /\ walk.cursor \in Nat
      /\ tampers = 0 => r \in log
      /\ \A q \in log : IsRow(q) /\ q.seq \in Nat
  BY <1>0, <1>1 DEF WalkShape, IsRow, Shape, Rows
\* In step, the row read next is the row that comes next.
<1>3. tampers = 0 /\ ~ walk.ahead =>
        Sound(r) /\ HashBefore(log, r.seq) = walk.expected
  <2> SUFFICES ASSUME tampers = 0, ~ walk.ahead
               PROVE  Sound(r) /\ HashBefore(log, r.seq) = walk.expected
    OBVIOUS
  <2>1. Below(log, r.seq) = Below(log, walk.cursor)
    <3>1. ASSUME NEW q \in log, q.seq < r.seq PROVE q.seq < walk.cursor
      <4>1. SUFFICES ASSUME walk.cursor <= q.seq PROVE FALSE
        BY <1>2
      <4>2. q \in walk.page
        BY <1>0, <1>1, <1>2, <3>1, <4>1 DEF InStep, Stepping
      <4> QED BY <1>1, <1>2, <3>1, <4>2
    <3> QED BY <1>2, <3>1 DEF Below
  <2>2. HashBefore(log, r.seq) = walk.expected
    BY <1>0, <2>1 DEF HashBefore, InStep, Stepping
  <2>3. r.hash = Recomputed(r) /\ r.prev = HashBefore(log, r.seq)
    BY <1>0, <1>2 DEF LogLinked, Chained
  <2> QED BY <2>2, <2>3 DEF Sound
<1>4. CASE ~ Sound(r)
  <2>1. /\ walk' = [walk EXCEPT !.step = "broken"]
        /\ walk'.step = "broken" /\ walk'.from = walk.from /\ walk'.ahead = walk.ahead
        /\ walk'.cursor = walk.cursor /\ walk'.page = walk.page /\ walk'.read = walk.read
        /\ walk' = [step |-> walk'.step, from |-> walk'.from, ahead |-> walk'.ahead,
             cursor |-> walk'.cursor, expected |-> walk'.expected, page |-> walk'.page,
             full |-> walk'.full, read |-> walk'.read]
    BY <1>0, <1>1, <1>4 DEF WalkShape
  <2>2. WalkShape'
    BY <1>0, <2>1 DEF WalkShape
  <2>3. InStep'
    BY <1>0, <1>3, <1>4, <2>1 DEF InStep, Stepping
  <2>4. ReadEnds'
    BY <2>1 DEF ReadEnds, Stepping
  <2>5. Vouched'
    BY <1>0, <2>1 DEF Vouched
  <2> QED BY <2>2, <2>3, <2>4, <2>5 DEF WalkInv
<1>5. CASE Sound(r)
  <2>0. r.hash = Recomputed(r) /\ r.prev = walk.expected
    BY <1>5 DEF Sound
  <2>1. /\ walk'.step \in {"page", "check", "intact"}
        /\ walk'.from = walk.from /\ walk'.ahead = walk.ahead
        /\ walk'.cursor = r.seq + 1 /\ walk'.expected = r.hash
        /\ walk'.page = walk.page \ {r} /\ walk'.read = walk.read \cup {r}
        /\ walk' = [step |-> walk'.step, from |-> walk'.from, ahead |-> walk'.ahead,
             cursor |-> walk'.cursor, expected |-> walk'.expected, page |-> walk'.page,
             full |-> walk'.full, read |-> walk'.read]
    <3> DEFINE step == IF walk.page = {r} THEN AfterPage ELSE "check"
    <3>1. step \in {"page", "check", "intact"}
      BY DEF AfterPage
    <3>2. walk' = [walk EXCEPT !.cursor = r.seq + 1, !.expected = r.hash,
                               !.page = walk.page \ {r}, !.read = walk.read \cup {r},
                               !.step = step]
      BY <1>1, <1>5
    <3> HIDE DEF step
    <3> QED BY <1>0, <3>1, <3>2 DEF WalkShape
  <2>2. WalkShape'
    <3>1. Keyed(walk'.page) /\ \A q \in walk'.page : IsRow(q) /\ walk'.cursor <= q.seq
      <4>1. ASSUME NEW q \in walk'.page PROVE IsRow(q) /\ walk'.cursor <= q.seq
        <5>1. q \in walk.page /\ q # r /\ IsRow(q) /\ q.seq # r.seq /\ r.seq <= q.seq
          BY <1>0, <1>1, <2>1 DEF WalkShape, Keyed
        <5>2. q.seq \in Nat
          BY <5>1 DEF IsRow
        <5> QED BY <1>2, <2>1, <5>1, <5>2
      <4> QED BY <1>0, <2>1, <4>1 DEF WalkShape, Keyed
    <3>2. \A q \in walk'.read : IsRow(q) /\ q.seq < walk'.cursor /\ q.hash = Recomputed(q)
      <4>1. ASSUME NEW q \in walk.read PROVE q.seq < r.seq + 1
        <5>1. q.seq < walk.cursor /\ q.seq \in Nat
          BY <1>0 DEF WalkShape, IsRow
        <5> QED BY <1>2, <5>1
      <4> QED BY <1>0, <1>2, <2>0, <2>1, <4>1 DEF WalkShape
    <3>3. walk'.cursor \in Nat
      BY <1>2, <2>1
    <3>4. tampers' = 0 => walk'.page \subseteq log' /\ walk'.read \subseteq log'
      BY <1>0, <1>2, <2>1 DEF WalkShape
    <3> QED BY <2>1, <3>1, <3>2, <3>3, <3>4 DEF WalkShape, Recomputed
  <2>3. InStep'
    <3> SUFFICES ASSUME tampers = 0, ~ walk.ahead
                 PROVE  /\ walk'.expected = HashBefore(log, walk'.cursor)
                        /\ \E q \in log : walk'.cursor <= q.seq + 1
                        /\ \A b \in walk'.page, q \in log :
                             walk'.cursor <= q.seq /\ q.seq <= b.seq => q \in walk'.page
      BY <1>0, <2>1 DEF InStep
    <3>1. walk'.expected = HashBefore(log, walk'.cursor)
      BY <1>0, <1>2, <2>1, NextAfter DEF Shape, Rows
    <3>2. \E q \in log : walk'.cursor <= q.seq + 1
      BY <1>2, <2>1
    <3>3. ASSUME NEW b \in walk'.page, NEW q \in log, walk'.cursor <= q.seq, q.seq <= b.seq
          PROVE  q \in walk'.page
      <4>1. walk.cursor <= q.seq /\ q # r
        BY <1>2, <2>1, <3>3
      <4>2. q \in walk.page
        BY <1>0, <2>1, <3>3, <4>1 DEF InStep, Stepping
      <4> QED BY <2>1, <4>1, <4>2
    <3> QED BY <3>1, <3>2, <3>3
  <2>4. ReadEnds'
    <3>1. \A q \in walk.read : q.seq <= r.seq
      <4> SUFFICES ASSUME NEW q \in walk.read PROVE q.seq <= r.seq
        OBVIOUS
      <4>1. q.seq < walk.cursor /\ q.seq \in Nat
        BY <1>0 DEF WalkShape, IsRow
      <4> QED BY <1>2, <4>1
    <3> QED BY <1>2, <2>1, <3>1 DEF ReadEnds
  <2>5. Vouched'
    <3> SUFFICES ASSUME walk.from = 0, NEW g \in genuine, g \in walk.read \cup {r}
                 PROVE  UpTo(walk.read \cup {r}, g) = UpTo(genuine, g)
      BY <1>0, <2>1 DEF Vouched, UpTo
    <3>1. /\ Keyed(genuine) /\ \A q \in genuine : IsRow(q) /\ q.seq \in Nat
          /\ \A q \in genuine : q.hash = Recomputed(q) /\ q.prev = HashBefore(genuine, q.seq)
      BY <1>0 DEF LogLinked, Rows, IsRow, Chained
    <3>2. \A q \in walk.read : IsRow(q) /\ q.seq \in Nat /\ q.seq < r.seq /\ q.hash = Recomputed(q)
      <4> SUFFICES ASSUME NEW q \in walk.read
                   PROVE  IsRow(q) /\ q.seq \in Nat /\ q.seq < r.seq /\ q.hash = Recomputed(q)
        OBVIOUS
      <4>1. IsRow(q) /\ q.seq < walk.cursor /\ q.hash = Recomputed(q) /\ q.seq \in Nat
        BY <1>0 DEF WalkShape, IsRow
      <4> QED BY <1>2, <4>1
    <3>3. CASE g \in walk.read
      <4>1. UpTo(walk.read, g) = UpTo(genuine, g)
        BY <1>0, <3>3 DEF Vouched
      <4>2. UpTo(walk.read \cup {r}, g) = UpTo(walk.read, g)
        BY <1>2, <3>2, <3>3 DEF UpTo
      <4> QED BY <4>1, <4>2
    <3>4. CASE g = r
      <4>1. r.prev = HashBefore(genuine, r.seq) /\ r \in genuine
        BY <3>1, <3>4
      <4>2. UpTo(walk.read \cup {r}, r) = walk.read \cup {r}
        BY <1>2, <3>2 DEF UpTo
      <4>3. UpTo(genuine, r) = Below(genuine, r.seq) \cup {r}
        BY <1>2, <3>1, <4>1 DEF UpTo, Below, Keyed
      <4>4. walk.read = Below(genuine, r.seq)
        <5>1. CASE Below(genuine, r.seq) = {}
          <6>1. walk.expected = NoHash
            BY <2>0, <4>1, <5>1 DEF HashBefore
          <6>2. \A l \in walk.read : l.hash # NoHash
            BY <3>2, HashSays
          <6> QED BY <1>0, <5>1, <6>1, <6>2 DEF ReadEnds, Stepping
        <5>2. CASE Below(genuine, r.seq) # {}
          <6> DEFINE N == Newest(Below(genuine, r.seq))
          <6>1. Below(genuine, r.seq) \subseteq genuine
                /\ \A q \in Below(genuine, r.seq) : q.seq \in Nat /\ q.seq < r.seq
            BY <3>1 DEF Below
          <6>2. N \in Below(genuine, r.seq) /\ \A q \in Below(genuine, r.seq) : q.seq <= N.seq
            BY <1>2, <5>2, <6>1, NewestExists
          <6>3. walk.expected = N.hash
            BY <2>0, <4>1, <5>2 DEF HashBefore
          <6> HIDE DEF N
          <6>4. N \in genuine /\ IsRow(N) /\ N.hash = Recomputed(N) /\ N.hash # NoHash
                /\ N.seq < r.seq /\ N.seq \in Nat
            BY <3>1, <6>1, <6>2, HashSays
          <6>5. PICK l \in walk.read : walk.expected = l.hash /\ \A q \in walk.read : q.seq <= l.seq
            BY <1>0, <6>3, <6>4 DEF ReadEnds, Stepping
          <6>6. l = N
            BY <3>2, <6>3, <6>4, <6>5, HashSays
          <6>7. UpTo(walk.read, N) = UpTo(genuine, N)
            BY <1>0, <6>4, <6>5, <6>6 DEF Vouched
          <6>8. UpTo(walk.read, N) = walk.read
            BY <6>5, <6>6 DEF UpTo
          <6>9. UpTo(genuine, N) = Below(genuine, r.seq)
            BY <1>2, <3>1, <6>2, <6>4 DEF UpTo, Below
          <6> QED BY <6>7, <6>8, <6>9
        <5> QED BY <5>1, <5>2
      <4> QED BY <3>4, <4>2, <4>3, <4>4
    <3> QED BY <3>3, <3>4
  <2> QED BY <2>2, <2>3, <2>4, <2>5 DEF WalkInv
<1> QED BY <1>4, <1>5

\* What is committed under a walk comes after all it has seen.
LEMMA CommitUnderWalk ==
  ASSUME AuditInv, NEW t \in Tx, Commit(t)
  PROVE  WalkInv'
<1> DEFINE new == tx[t].own
<1>0. /\ WalkShape /\ InStep /\ ReadEnds /\ Vouched /\ Shape /\ LogLinked
      /\ log' = log \cup new /\ walk' = walk /\ tampers' = tampers
      /\ genuine' = (IF tampers = 0 THEN genuine \cup new ELSE genuine)
      /\ Rows(new) /\ Before(log, new)
  BY DEF AuditInv, Commit, LogInv, WalkInv, Pending
<1> HIDE DEF new
<1>1. /\ \A r \in log : r.seq \in Nat /\ IsRow(r)
      /\ \A r \in new : r.seq \in Nat /\ IsRow(r)
      /\ \A r \in log, q \in new : r.seq < q.seq
  BY <1>0 DEF Shape, Rows, IsRow, Before
<1>2. WalkShape'
  BY <1>0 DEF WalkShape
<1>3. InStep'
  <2> SUFFICES ASSUME tampers = 0, ~ walk.ahead, Stepping
               PROVE  /\ walk.expected = HashBefore(log', walk.cursor)
                      /\ walk.cursor = 0 \/ \E r \in log' : walk.cursor <= r.seq + 1
                      /\ \A b \in walk.page, r \in log' :
                           walk.cursor <= r.seq /\ r.seq <= b.seq => r \in walk.page
    BY <1>0 DEF InStep, Stepping
  <2>1. walk.cursor \in Nat /\ \A r \in new : r.seq >= walk.cursor
    BY <1>0, <1>1 DEF InStep, WalkShape
  <2>2. HashBefore(log \cup new, walk.cursor) = HashBefore(log, walk.cursor)
    BY <1>1, <2>1, LaterRows
  <2>3. ASSUME NEW b \in walk.page, NEW r \in log', walk.cursor <= r.seq, r.seq <= b.seq
        PROVE  r \in walk.page
    <3>1. b \in log
      BY <1>0 DEF WalkShape
    <3>2. r \in log
      BY <1>0, <1>1, <2>3, <3>1
    <3> QED BY <1>0, <2>3, <3>2 DEF InStep
  <2> QED BY <1>0, <2>2, <2>3 DEF InStep
<1>4. ReadEnds'
  BY <1>0 DEF ReadEnds, Stepping
<1>5. Vouched'
  <2> SUFFICES ASSUME walk.from = 0, tampers = 0, NEW g \in genuine \cup new, g \in walk.read
               PROVE  UpTo(walk.read, g) = UpTo(genuine \cup new, g)
    BY <1>0 DEF Vouched, UpTo
  <2>1. genuine = log /\ walk.read \subseteq log
    BY <1>0 DEF LogLinked, WalkShape
  <2>2. g \in genuine /\ g.seq \in Nat
    BY <1>1, <2>1
  <2>3. UpTo(genuine \cup new, g) = UpTo(genuine, g)
    BY <1>1, <2>1, <2>2 DEF UpTo
  <2> QED BY <1>0, <2>2, <2>3 DEF Vouched
<1> QED BY <1>2, <1>3, <1>4, <1>5 DEF WalkInv

\* Tampering changes neither what was read nor what was genuine.
LEMMA EditUnderWalk ==
  ASSUME AuditInv, NEW S, Tampered(S)
  PROVE  WalkInv'
<1>0. /\ WalkShape /\ ReadEnds /\ Vouched
      /\ tampers' # 0 /\ walk' = walk /\ genuine' = genuine
  BY DEF AuditInv, LogInv, WalkInv, Shape, Tampered
<1>1. WalkShape'
  BY <1>0 DEF WalkShape
<1>2. InStep' /\ ReadEnds' /\ Vouched'
  BY <1>0 DEF InStep, ReadEnds, Stepping, Vouched
<1> QED BY <1>1, <1>2 DEF WalkInv

LEMMA WalkStep == AuditInv /\ [AuditNext]_auditVars => WalkInv'
<1> SUFFICES ASSUME AuditInv, [AuditNext]_auditVars PROVE WalkInv'
  OBVIOUS
<1>1. ASSUME UNCHANGED <<log, walk, genuine, tampers>> PROVE WalkInv'
  BY <1>1 DEF AuditInv, WalkInv, WalkShape, InStep, ReadEnds, Stepping, Vouched
<1>2. ASSUME NEW t \in Tx,
             Begin(t) \/ Lock(t) \/ Prepare(t) \/ Insert(t) \/ Commit(t) \/ Rollback(t)
      PROVE  WalkInv'
  <2>1. CASE Commit(t)
    BY <2>1, CommitUnderWalk
  <2>2. CASE Begin(t) \/ Lock(t) \/ Prepare(t) \/ Insert(t) \/ Rollback(t)
    BY <1>1, <2>2 DEF Begin, Lock, Prepare, Insert, Rollback
  <2> QED BY <1>2, <2>1, <2>2
<1>3. ASSUME NEW from \in 0..MaxSeq, Anchor(from) PROVE WalkInv'
  BY <1>3, AnchorStep
<1>4. ASSUME ReadPage PROVE WalkInv'
  BY <1>4, ReadStep
<1>5. ASSUME Check PROVE WalkInv'
  BY <1>5, CheckStep
<1>6. ASSUME Rest PROVE WalkInv'
  <2>1. walk' = Resting /\ tampers' = tampers
    BY <1>6 DEF Rest
  <2>2. WalkShape' /\ InStep' /\ ReadEnds' /\ Vouched'
    BY <2>1 DEF Resting, WalkShape, Keyed, InStep, ReadEnds, Stepping, Vouched
  <2> QED BY <2>2 DEF WalkInv
<1>7. ASSUME \/ \E r \in log : Excise(r)
             \/ \E r \in log, body \in FalseBody : Alter(r, body) \/ Reseal(r, body)
             \/ \E seq \in 1..MaxSeq, body \in FalseBody : Forge(seq, body)
      PROVE  WalkInv'
  BY <1>7, TampersEdit, EditUnderWalk DEF AuditInv, LogInv
<1>8. CASE UNCHANGED auditVars
  BY <1>1, <1>8 DEF auditVars
<1> QED BY <1>2, <1>3, <1>4, <1>5, <1>6, <1>7, <1>8 DEF AuditNext

LEMMA AuditInvariant == AuditSpec => []AuditInv
<1>1. AuditInit => AuditInv
  BY LogInit, WalkInit DEF AuditInv
<1>2. AuditInv /\ [AuditNext]_auditVars => AuditInv'
  BY LogStep, WalkStep DEF AuditInv
<1> QED BY <1>1, <1>2, PTL DEF AuditSpec

\* An untouched log never fails its verification, whatever is committed, rolled
\* back or still pending under the walk, for every page size.
THEOREM NoFalseAlarmAlways == AuditSpec => []NoFalseAlarm
<1>1. AuditInv => NoFalseAlarm
  BY DEF AuditInv, WalkInv, InStep, NoFalseAlarm
<1> QED BY <1>1, AuditInvariant, PTL

\* A genuine row that a walk from the start accepts has exactly the genuine rows
\* before it, for any number of removals, alterations, new seals and forgeries.
THEOREM VouchedAlways == AuditSpec => []Vouched
<1>1. AuditInv => Vouched
  BY DEF AuditInv, WalkInv
<1> QED BY <1>1, AuditInvariant, PTL

----------------------------------------------------------------------------
(* Uploads: sequences, and pieces of the file.                             *)

\* Induction, with a set for what holds of a number.
LEMMA CountingUp ==
  ASSUME NEW P, 0 \in P, \A n \in Nat : n \in P => n + 1 \in P
  PROVE  Nat \subseteq P
<1> SUFFICES ASSUME Nat \ P # {} PROVE FALSE
  OBVIOUS
<1>1. PICK k \in Nat \ P : \A m \in Nat \ P : ~ (<<m, k>> \in OpToRel(<, Nat))
  BY NatLessThanWellFounded, WFMin, Zenon
<1>a. k \in Nat /\ k \notin P
  BY <1>1, Zenon
<1>2. k # 0 /\ k - 1 \in Nat
  BY <1>a
<1>3. CASE k - 1 \in P
  <2>1. (k - 1) + 1 = k
    BY <1>2
  <2>2. k \in P
    BY <1>2, <1>3, <2>1
  <2> QED BY <1>a, <2>2
<1>4. CASE k - 1 \notin P
  <2>1. <<k - 1, k>> \in OpToRel(<, Nat)
    BY <1>a, <1>2 DEF OpToRel
  <2> QED BY <1>1, <1>2, <1>4, <2>1
<1> QED BY <1>3, <1>4

\* f has the first sequences of ss put together.
Joins(f, ss, n) == f = [i \in 1..n |-> IF i = 1 THEN ss[i] ELSE f[i - 1] \o ss[i]]

LEMMA JoinsExist ==
  ASSUME NEW ss, NEW n \in Nat
  PROVE  \E f : Joins(f, ss, n)
<1> DEFINE P == {m \in Nat : \E f : Joins(f, ss, m)}
<1>1. 0 \in P
  <2>1. Joins([i \in 1..0 |-> <<>>], ss, 0)
    BY DEF Joins
  <2> QED BY <2>1
<1>2. ASSUME NEW m \in Nat, m \in P PROVE m + 1 \in P
  <2>1. PICK f : Joins(f, ss, m)
    BY <1>2
  <2> DEFINE last == IF m = 0 THEN ss[1] ELSE f[m] \o ss[m + 1]
             g == [i \in 1..(m + 1) |-> IF i = m + 1 THEN last ELSE f[i]]
  <2>2. \A i \in 1..m : f[i] = IF i = 1 THEN ss[i] ELSE f[i - 1] \o ss[i]
    BY <2>1 DEF Joins
  <2>3. ASSUME NEW i \in 1..(m + 1)
        PROVE  g[i] = IF i = 1 THEN ss[i] ELSE g[i - 1] \o ss[i]
    <3>1. CASE i = m + 1
      <4>1. i # 1 => i - 1 \in 1..m /\ g[i - 1] = f[m] /\ m # 0
        BY <3>1
      <4> QED BY <3>1, <4>1
    <3>2. CASE i # m + 1
      <4>1. i \in 1..m /\ g[i] = f[i] /\ (i # 1 => i - 1 \in 1..m /\ g[i - 1] = f[i - 1])
        BY <3>2
      <4> QED BY <2>2, <4>1
    <3> QED BY <3>1, <3>2
  <2>4. g = [i \in 1..(m + 1) |-> IF i = 1 THEN ss[i] ELSE g[i - 1] \o ss[i]]
    <3> DEFINE h == [i \in 1..(m + 1) |-> IF i = 1 THEN ss[i] ELSE g[i - 1] \o ss[i]]
    <3>1. g = [i \in 1..(m + 1) |-> g[i]] /\ h = [i \in 1..(m + 1) |-> h[i]]
      OBVIOUS
    <3>2. \A i \in 1..(m + 1) : g[i] = h[i]
      BY <2>3
    <3> HIDE DEF g, h
    <3>3. g = h
      BY <3>1, <3>2
    <3> QED BY <3>3 DEF h
  <2>5. Joins(g, ss, m + 1)
    <3> HIDE DEF g
    <3> QED BY <2>4 DEF Joins
  <2> QED BY <2>5
<1>3. Nat \subseteq P
  <2> HIDE DEF P
  <2> QED BY <1>1, <1>2, CountingUp
<1> QED BY <1>3

\* f and g have the same values up to n.
Agree(f, g, n) == \A i \in 1..n : f[i] = g[i]

LEMMA JoinsAgree ==
  ASSUME NEW ss, NEW tt, NEW m \in Nat, NEW n \in Nat, m <= n,
         NEW f, NEW g, Joins(f, ss, m), Joins(g, tt, n), Agree(ss, tt, m)
  PROVE  Agree(f, g, m)
<1> USE DEF Agree
<1> DEFINE P == {k \in Nat : k \in 1..m => f[k] = g[k]}
<1>1. /\ \A i \in 1..m : f[i] = IF i = 1 THEN ss[i] ELSE f[i - 1] \o ss[i]
      /\ \A i \in 1..n : g[i] = IF i = 1 THEN tt[i] ELSE g[i - 1] \o tt[i]
  BY DEF Joins
<1>2. 0 \in P
  OBVIOUS
<1>3. ASSUME NEW k \in Nat, k \in P PROVE k + 1 \in P
  <2> SUFFICES ASSUME k + 1 \in 1..m PROVE f[k + 1] = g[k + 1]
    OBVIOUS
  <2>1. k + 1 \in 1..n /\ tt[k + 1] = ss[k + 1]
    OBVIOUS
  <2>2. CASE k = 0
    BY <1>1, <2>1, <2>2
  <2>3. CASE k # 0
    <3>1. f[k] = g[k] /\ (k + 1) - 1 = k /\ k + 1 # 1
      BY <1>3, <2>3
    <3>2. f[k + 1] = f[k] \o ss[k + 1] /\ g[k + 1] = g[k] \o tt[k + 1]
      BY <1>1, <2>1, <3>1
    <3> QED BY <2>1, <3>1, <3>2
  <2> QED BY <2>2, <2>3
<1>4. Nat \subseteq P
  <2> HIDE DEF P
  <2> QED BY <1>2, <1>3, CountingUp
<1> QED BY <1>4

LEMMA FlatIs ==
  ASSUME NEW ss \in Seq(Seq(Nat)), NEW f, Joins(f, ss, Len(ss))
  PROVE  FlattenSeq(ss) = IF ss = <<>> THEN <<>> ELSE f[Len(ss)]
<1>1. CASE Len(ss) = 0
  BY <1>1, EmptySeq DEF FlattenSeq
<1>2. CASE Len(ss) # 0
  <2> DEFINE g == CHOOSE g : g = [i \in 1..Len(ss) |->
                                   IF i = 1 THEN ss[i] ELSE g[i - 1] \o ss[i]]
  <2>1. FlattenSeq(ss) = g[Len(ss)]
    BY SMTT(60), <1>2 DEF FlattenSeq
  <2>2. Joins(g, ss, Len(ss))
    BY DEF Joins
  <2> HIDE DEF g
  <2>3. f[Len(ss)] = g[Len(ss)]
    <3>1. Agree(ss, ss, Len(ss)) /\ Len(ss) \in Nat /\ Len(ss) <= Len(ss)
      BY DEF Agree
    <3>2. Agree(f, g, Len(ss))
      BY <2>2, <3>1, JoinsAgree
    <3> QED BY <1>2, <3>1, <3>2 DEF Agree
  <2> QED BY <1>2, <2>1, <2>3
<1> QED BY <1>1, <1>2

\* Sequences put together, one more at the end.
LEMMA FlatGrows ==
  ASSUME NEW ss \in Seq(Seq(Nat)), NEW x \in Seq(Nat)
  PROVE  FlattenSeq(Append(ss, x)) = FlattenSeq(ss) \o x
<1> DEFINE tt == Append(ss, x)
           n  == Len(ss)
<1>1. /\ tt \in Seq(Seq(Nat)) /\ Len(tt) = n + 1 /\ n \in Nat
      /\ tt[n + 1] = x /\ \A i \in 1..n : tt[i] = ss[i]
  OBVIOUS
<1>2. PICK f : Joins(f, ss, n)
  BY <1>1, JoinsExist
<1>a. n + 1 \in Nat /\ n <= n + 1
  BY <1>1
<1>3. PICK g : Joins(g, tt, n + 1)
  <2> HIDE DEF tt, n
  <2> QED BY <1>a, JoinsExist
<1>4. Agree(f, g, n)
  <2> HIDE DEF tt, n
  <2>1. Agree(ss, tt, n)
    BY <1>1 DEF Agree
  <2> DEFINE top == n + 1
  <2>2. n \in Nat /\ top \in Nat /\ n <= top /\ Joins(g, tt, top) /\ Joins(f, ss, n)
    BY <1>1, <1>2, <1>3, <1>a
  <2> HIDE DEF top
  <2> QED BY <2>1, <2>2, JoinsAgree
<1>5. FlattenSeq(ss) = IF ss = <<>> THEN <<>> ELSE f[n]
  BY <1>2, FlatIs
<1>6. FlattenSeq(tt) = g[n + 1]
  <2> HIDE DEF tt, n
  <2>1. tt # <<>>
    BY <1>1, EmptySeq
  <2> QED BY <1>1, <1>3, <2>1, FlatIs
<1>7. g[n + 1] = IF n = 0 THEN x ELSE g[n] \o x
  <2> HIDE DEF tt, n
  <2>1. n + 1 \in 1..(n + 1) /\ (n + 1) - 1 = n /\ (n + 1 = 1 <=> n = 0)
    BY <1>1
  <2>2. g[n + 1] = IF n + 1 = 1 THEN tt[n + 1] ELSE g[(n + 1) - 1] \o tt[n + 1]
    BY <1>3, <2>1 DEF Joins
  <2> QED BY <1>1, <2>1, <2>2
<1>8. CASE n = 0
  <2>1. ss = <<>> /\ FlattenSeq(ss) = <<>>
    BY <1>5, <1>8, EmptySeq
  <2> QED BY <1>6, <1>7, <1>8, <2>1
<1>9. CASE n # 0
  <2>1. ss # <<>> /\ f[n] = g[n]
    BY <1>1, <1>4, <1>9 DEF Agree
  <2> QED BY <1>5, <1>6, <1>7, <1>9, <2>1
<1> QED BY <1>8, <1>9

LEMMA SeqJoinSets ==
  ASSUME NEW a \in Seq(Nat), NEW b \in Seq(Nat)
  PROVE  ToSet(a \o b) = ToSet(a) \cup ToSet(b)
<1>1. /\ Len(a) \in Nat /\ Len(b) \in Nat /\ Len(a \o b) = Len(a) + Len(b)
      /\ DOMAIN a = 1..Len(a) /\ DOMAIN b = 1..Len(b)
      /\ DOMAIN (a \o b) = 1..(Len(a) + Len(b))
  OBVIOUS
<1>2. \A i \in 1..Len(a) : i \in DOMAIN (a \o b) /\ (a \o b)[i] = a[i]
  OBVIOUS
<1>3. \A i \in 1..Len(b) :
        Len(a) + i \in DOMAIN (a \o b) /\ (a \o b)[Len(a) + i] = b[i]
  OBVIOUS
<1>4. \A i \in DOMAIN (a \o b) : i \in 1..Len(a) \/ \E k \in 1..Len(b) : i = Len(a) + k
  <2> TAKE i \in DOMAIN (a \o b)
  <2>1. i \in 1..(Len(a) + Len(b))
    BY <1>1
  <2>2. i > Len(a) => i - Len(a) \in 1..Len(b) /\ i = Len(a) + (i - Len(a))
    BY <1>1, <2>1
  <2> QED BY <1>1, <2>1, <2>2
<1>5. ASSUME NEW x PROVE x \in ToSet(a \o b) <=> x \in ToSet(a) \/ x \in ToSet(b)
  <2>1. /\ x \in ToSet(a) <=> \E i \in 1..Len(a) : a[i] = x
        /\ x \in ToSet(b) <=> \E i \in 1..Len(b) : b[i] = x
        /\ x \in ToSet(a \o b) <=> \E i \in DOMAIN (a \o b) : (a \o b)[i] = x
    BY <1>1 DEF ToSet
  <2> QED BY ZenonT(60), <2>1, <1>2, <1>3, <1>4
<1> QED BY <1>5

\* What is in them all put together is what is in each.
LEMMA FlatHolds ==
  ASSUME NEW ss \in Seq(Seq(Nat))
  PROVE  /\ FlattenSeq(ss) \in Seq(Nat)
         /\ ToSet(FlattenSeq(ss)) = UNION {ToSet(ss[j]) : j \in DOMAIN ss}
<1> DEFINE n == Len(ss)
           Has(s, k) == s \in Seq(Nat) /\ ToSet(s) = UNION {ToSet(ss[j]) : j \in 1..k}
<1>a. n \in Nat
  OBVIOUS
<1>1. PICK f : Joins(f, ss, n)
  BY <1>a, JoinsExist
<1> DEFINE P == {k \in Nat : k + 1 \in 1..n => Has(f[k + 1], k + 1)}
<1>2. \A i \in 1..n : f[i] = IF i = 1 THEN ss[i] ELSE f[i - 1] \o ss[i]
  BY <1>1 DEF Joins
<1>3. \A j \in 1..n : ss[j] \in Seq(Nat)
  OBVIOUS
<1>4. 0 \in P
  <2> SUFFICES ASSUME 1 \in 1..n PROVE Has(f[1], 1)
    OBVIOUS
  <2>1. f[1] = ss[1] /\ 1..1 = {1}
    BY <1>2
  <2> QED BY <1>3, <2>1
<1>5. ASSUME NEW k \in Nat, k \in P PROVE k + 1 \in P
  <2>a. (k + 1) + 1 = k + 2 /\ k + 1 \in Nat
    OBVIOUS
  <2> SUFFICES ASSUME k + 2 \in 1..n PROVE Has(f[k + 2], k + 2)
    BY <2>a
  <2>1. k + 1 \in 1..n /\ Has(f[k + 1], k + 1) /\ ss[k + 2] \in Seq(Nat)
    BY SMTT(60), <1>3, <1>5
  <2>b. (k + 2) - 1 = k + 1 /\ k + 2 # 1
    OBVIOUS
  <2>c. f[k + 2] = IF k + 2 = 1 THEN ss[k + 2] ELSE f[(k + 2) - 1] \o ss[k + 2]
    BY <1>2
  <2>2. f[k + 2] = f[k + 1] \o ss[k + 2]
    BY <2>b, <2>c
  <2>3. \A a, b \in Seq(Nat) : ToSet(a \o b) = ToSet(a) \cup ToSet(b)
    BY SeqJoinSets
  <2>4. ToSet(f[k + 2]) = ToSet(f[k + 1]) \cup ToSet(ss[k + 2])
    BY <2>1, <2>2, <2>3
  <2>5. 1..(k + 2) = 1..(k + 1) \cup {k + 2}
    OBVIOUS
  <2>6. f[k + 2] \in Seq(Nat)
    BY <2>1, <2>2
  <2> QED BY SMTT(60), <2>1, <2>4, <2>5, <2>6
<1>6. Nat \subseteq P
  <2> HIDE DEF P
  <2> QED BY <1>4, <1>5, CountingUp
<1>7. CASE n = 0
  <2>1. ss = <<>> /\ FlattenSeq(ss) = <<>>
    BY <1>1, <1>7, FlatIs, EmptySeq
  <2>2. DOMAIN ss = {} /\ ToSet(<<>>) = {} /\ <<>> \in Seq(Nat)
    BY <2>1 DEF ToSet
  <2>3. UNION {ToSet(ss[j]) : j \in DOMAIN ss} = {}
    BY <2>2
  <2> QED BY <2>1, <2>2, <2>3
<1>8. CASE n # 0
  <2>1. n - 1 \in Nat /\ (n - 1) + 1 = n /\ n \in 1..n
    BY <1>8
  <2>2. Has(f[n], n)
    BY <1>6, <2>1
  <2>3. FlattenSeq(ss) = f[n]
    BY <1>1, <1>8, FlatIs
  <2>4. DOMAIN ss = 1..n
    OBVIOUS
  <2> QED BY <2>2, <2>3, <2>4
<1> QED BY <1>7, <1>8

LEMMA FileIs ==
  ASSUME NEW b \in Nat, NEW n \in Nat
  PROVE  /\ File(b, n) \in Seq(Nat) /\ Len(File(b, n)) = n
         /\ \A i \in 1..n : File(b, n)[i] = b + i
         /\ ToSet(File(b, n)) = (b + 1)..(b + n)
<1>1. File(b, n) \in Seq(Nat) /\ Len(File(b, n)) = n /\ DOMAIN File(b, n) = 1..n
  BY DEF File
<1>2. \A i \in 1..n : File(b, n)[i] = b + i
  BY DEF File
<1>3. \A x \in (b + 1)..(b + n) : x - b \in 1..n /\ x = b + (x - b)
  OBVIOUS
<1>4. \A i \in 1..n : b + i \in (b + 1)..(b + n)
  OBVIOUS
<1>5. ASSUME NEW x PROVE x \in ToSet(File(b, n)) <=> x \in (b + 1)..(b + n)
  <2>1. x \in ToSet(File(b, n)) <=> \E i \in 1..n : File(b, n)[i] = x
    BY <1>1 DEF ToSet
  <2> QED BY <2>1, <1>2, <1>3, <1>4
<1>6. ToSet(File(b, n)) = (b + 1)..(b + n)
  BY <1>5
<1> QED BY <1>1, <1>2, <1>6

LEMMA FileNone == \A b : File(b, 0) = <<>>
BY DEF File

\* Pieces of the file that meet make a piece.
LEMMA FileJoins ==
  ASSUME NEW b \in Nat, NEW n \in Nat, NEW m \in Nat
  PROVE  File(b, n) \o File(b + n, m) = File(b, n + m)
<1> DEFINE x == File(b, n)
           y == File(b + n, m)
           z == File(b, n + m)
<1>a. b + n \in Nat /\ n + m \in Nat
  OBVIOUS
<1>1. /\ x \in Seq(Nat) /\ Len(x) = n /\ \A i \in 1..n : x[i] = b + i
      /\ y \in Seq(Nat) /\ Len(y) = m /\ \A i \in 1..m : y[i] = (b + n) + i
      /\ z \in Seq(Nat) /\ Len(z) = n + m /\ \A i \in 1..(n + m) : z[i] = b + i
  BY <1>a, FileIs
<1> HIDE DEF x, y, z
<1>2. x \o y \in Seq(Nat) /\ Len(x \o y) = n + m
  BY ZenonT(60), <1>1, ConcatProperties
<1>3. ASSUME NEW i \in 1..(n + m) PROVE (x \o y)[i] = z[i]
  <2>1. CASE i <= n
    <3>1. i \in 1..n /\ i \in 1..(Len(x) + Len(y)) /\ i <= Len(x)
      BY <1>1, <2>1
    <3>2. (x \o y)[i] = x[i]
      BY <1>1, <3>1, ConcatProperties
    <3> QED BY <1>1, <3>1, <3>2
  <2>2. CASE i > n
    <3>a. i \in Nat /\ i \in 1..(Len(x) + Len(y)) /\ ~ (i <= Len(x))
      BY <1>1, <2>2
    <3>1. i - n \in 1..m /\ (b + n) + (i - n) = b + i
      BY <2>2
    <3>2. (x \o y)[i] = y[i - n]
      BY <1>1, <3>a, ConcatProperties
    <3> QED BY <1>1, <3>1, <3>2
  <2>3. i <= n \/ i > n
    OBVIOUS
  <2> QED BY <2>1, <2>2, <2>3
<1>4. x \o y = z
  BY <1>1, <1>2, <1>3, SeqEqual
<1> QED BY <1>4 DEF x, y, z

----------------------------------------------------------------------------
(* Uploads: the invariant.                                                 *)

\* One client at a time, and four kinds of process.
OneClient ==
  /\ \A p, q \in Patcher : p = q
  /\ Patcher \cap (Deleter \cup Finisher \cup Reaper) = {}
  /\ Finisher \cap (Deleter \cup Reaper) = {}

Sessions ==
  [status : {"active", "completed", "terminated"}, declared : Nat \ {0}, offset : Nat,
   up : Nat, parts : Seq(Seq(Nat)), tail : Nat]

Uploads == [open : BOOLEAN, parts : Seq(Seq(Nat))]

UploadTypes ==
  /\ row \in Sessions
  /\ tail \in Seq(Nat) /\ staging \in Seq(Nat)
  /\ begun \in Seq(Uploads)
  /\ DOMAIN pc = Proc
  /\ sess \in [Proc -> Sessions]
  /\ buf \in [Proc -> Seq(Nat)]

\* The bytes of the session's file that are not in its tail.
Base(s) == s.offset - s.tail

\* The parts of s spell the first n bytes of the file.
Spelt(s, n) == FlattenSeq(s.parts) = File(0, n)

\* The tail object t, if it is there, has n bytes or more from b on.
TailFrom(t, b, n, most) == t # <<>> => \E k \in n..most : t = File(b, k)

Fine(s, t) ==
  /\ s.tail <= s.offset /\ s.offset <= s.declared
  /\ s.up = 0 => s.parts = <<>>
  /\ Spelt(s, Base(s))
  /\ s.tail > 0 => TailFrom(t, Base(s), s.tail, s.declared - Base(s))

RowFine == row.status = "active" => Fine(row, tail)

\* Where a process of its kind can be, and that its copy is of this upload.
InPlace(p) ==
  /\ p \in Patcher  => pc[p] \in {"idle", "read", "put", "begin", "part", "clear", "save"}
  /\ p \in Finisher => pc[p] \in {"idle", "copy", "flush", "part", "finish", "clear", "save"}
  /\ p \in Deleter \cup Reaper =>
       pc[p] \in {"idle", "head", "abort", "drop", "unstage", "end"}
  /\ pc[p] # "idle" => sess[p].declared = row.declared

Filled == {"put", "begin", "part", "clear"}

\* What a PATCH has in hand continues what its copy of the row has.
ChunkFits(p) ==
  LET s == sess[p]
      n == Len(buf[p])
  IN
  p \in Patcher /\ pc[p] # "idle" =>
    /\ s.status = "active" /\ s.offset <= s.declared
    /\ s.up = 0 => s.parts = <<>>
    /\ pc[p] = "begin" => s.up = 0
    /\ pc[p] \in {"part", "clear"} => s.up # 0
    /\ pc[p] = "read" =>
         /\ n > 0 /\ s.tail > 0 /\ n + s.tail <= s.offset
         /\ buf[p] = File(s.offset - n, n)
         /\ Spelt(s, s.offset - n - s.tail)
         /\ TailFrom(tail, s.offset - n - s.tail, s.tail, s.declared - (s.offset - n - s.tail))
    /\ pc[p] \in Filled =>
         /\ n > s.tail /\ n <= s.offset
         /\ buf[p] = File(s.offset - n, n)
         /\ Spelt(s, IF pc[p] = "clear" THEN s.offset ELSE s.offset - n)
    /\ pc[p] = "save" => Fine(s, tail)

\* An active row is still the one the PATCH has loaded.
RowWaits(p) ==
  LET s == sess[p]
      n == Len(buf[p])
  IN
  p \in Patcher /\ pc[p] # "idle" /\ row.status = "active" =>
    /\ pc[p] = "read" => row.offset = s.offset - n /\ row.tail = s.tail
    /\ pc[p] \in Filled => row.offset < s.offset /\ Base(row) = s.offset - n
    /\ pc[p] = "save" => row.offset < s.offset \/ s = row

\* What a finalisation puts together is all there is.
Assembles(p) ==
  LET s == sess[p] IN
  p \in Finisher /\ pc[p] # "idle" =>
    /\ s.status = "completed" /\ s.offset = s.declared
    /\ pc[p] \in {"copy", "flush"} => Fine(s, tail)
    /\ pc[p] = "copy" => s.up = 0
    /\ pc[p] = "flush" => s.tail > 0
    /\ pc[p] = "part" => FlattenSeq(s.parts) \o buf[p] = File(0, s.declared)
    /\ pc[p] = "finish" => Spelt(s, s.declared)
    /\ row.status = "active" => row.offset = row.declared

SoundAt(p) == InPlace(p) /\ ChunkFits(p) /\ RowWaits(p) /\ Assembles(p)

\* Beside a finalisation a PATCH has nothing to send.
AllSent ==
  \A f \in Finisher, p \in Patcher : pc[f] # "idle" /\ pc[p] # "idle" =>
    pc[p] = "save" /\ sess[p].offset = sess[p].declared

UploadInv ==
  UploadTypes /\ RowFine /\ (\A p \in Proc : SoundAt(p)) /\ AllSent /\ AssembledIsFile

Undeleted == row.status # "terminated"

\* Who has staged the file has, and of a whole upload.
HasStaged ==
  /\ row.status = "completed" => staging # <<>> /\ row.offset = row.declared
  /\ \A f \in Finisher : pc[f] \in {"clear", "save"} => staging # <<>>

\* The parts s names are there.
PartsHeld(s) ==
  s.up # 0 =>
    /\ s.up \in DOMAIN begun
    /\ Len(s.parts) <= Len(begun[s.up].parts)
    /\ \A i \in 1..Len(s.parts) : begun[s.up].parts[i] = s.parts[i]

AllOpen == \A u \in DOMAIN begun : begun[u].open

\* The bytes the row's tail had are in a part that no row names.
Moved ==
  \E u \in DOMAIN begun : \E j \in DOMAIN begun[u].parts :
    (Base(row) + 1)..row.offset \subseteq ToSet(begun[u].parts[j])

TailKept == row.tail > 0 => tail # <<>> \/ Moved

Loaded == {"read", "put", "begin", "part"}

PatchKeeps(p) ==
  p \in Patcher /\ pc[p] # "idle" =>
    /\ PartsHeld(sess[p])
    /\ pc[p] \in Loaded =>
         /\ sess[p].parts = row.parts /\ sess[p].tail = row.tail
         /\ sess[p].up = row.up \/ (pc[p] = "part" /\ row.up = 0)
         /\ pc[p] # "read" /\ row.tail > 0 => tail # <<>>
    /\ pc[p] = "clear" =>
         /\ sess[p].parts # <<>>
         /\ begun[sess[p].up].parts[Len(sess[p].parts)] = buf[p]
    /\ pc[p] = "save" => sess[p] = row \/ (sess[p].tail > 0 => tail # <<>>)

FinishKeeps(f) ==
  f \in Finisher =>
    /\ pc[f] \in {"copy", "flush", "part"} =>
         sess[f].parts = row.parts /\ sess[f].up = row.up /\ sess[f].tail = row.tail
    /\ pc[f] = "part" => tail # <<>>

Holding ==
  /\ AllOpen /\ PartsHeld(row) /\ TailKept
  /\ \A p \in Proc : PatchKeeps(p) /\ FinishKeeps(p)

Kept == staging = <<>> => Holding

FinalInv == UploadInv /\ Undeleted /\ HasStaged /\ Kept


USE DEF store, uploadVars

LEMMA PartsType ==
  ASSUME NEW ss \in Seq(Seq(Nat)), NEW x \in Seq(Nat), NEW i \in Nat \ {0}
  PROVE  (IF i <= Len(ss) THEN [ss EXCEPT ![i] = x] ELSE Append(ss, x)) \in Seq(Seq(Nat))
OBVIOUS

LEMMA BegunType ==
  ASSUME NEW b \in Seq(Uploads), NEW u
  PROVE  /\ [b EXCEPT ![u].open = FALSE] \in Seq(Uploads)
         /\ \A x \in Seq(Seq(Nat)) : [b EXCEPT ![u].parts = x] \in Seq(Uploads)
         /\ Append(b, [open |-> TRUE, parts |-> <<>>]) \in Seq(Uploads)
<1>0. b \in [1..Len(b) -> Uploads] /\ Len(b) \in Nat
  OBVIOUS
<1>1. \A y \in Uploads : u \in 1..Len(b) => [b EXCEPT ![u] = y] \in Seq(Uploads)
  BY <1>0
<1>a. Append(b, [open |-> TRUE, parts |-> <<>>]) \in Seq(Uploads)
  <2>1. [open |-> TRUE, parts |-> <<>>] \in Uploads
    BY DEF Uploads
  <2> QED BY <2>1
<1>2. CASE u \in DOMAIN b
  <2>1. b[u] \in Uploads
    BY <1>2
  <2>2. [b[u] EXCEPT !.open = FALSE] \in Uploads
    BY <2>1 DEF Uploads
  <2>3. \A x \in Seq(Seq(Nat)) : [b[u] EXCEPT !.parts = x] \in Uploads
    BY <2>1 DEF Uploads
  <2>4. u \in 1..Len(b)
    BY <1>0, <1>2
  <2>5. [b EXCEPT ![u] = [b[u] EXCEPT !.open = FALSE]] \in Seq(Uploads)
    BY <1>1, <2>2, <2>4
  <2>6. \A x \in Seq(Seq(Nat)) : [b EXCEPT ![u] = [b[u] EXCEPT !.parts = x]] \in Seq(Uploads)
    BY <1>1, <2>3, <2>4
  <2> QED BY <2>5, <2>6, <1>a
<1>3. CASE u \notin DOMAIN b
  <2>1. [b EXCEPT ![u].open = FALSE] = b
    BY <1>0, <1>3
  <2>2. \A x : [b EXCEPT ![u].parts = x] = b
    BY <1>0, <1>3
  <2> QED BY <2>1, <2>2, <1>a
<1> QED BY <1>2, <1>3

\* A step keeps the types.
LEMMA UploadTypesStep ==
  ASSUME UploadTypes, NEW p \in Proc, Act(p) PROVE UploadTypes'
<1> USE DEF UploadTypes, Proceed
<1>0. /\ sess[p] \in Sessions /\ buf[p] \in Seq(Nat)
      /\ Len(buf[p]) \in Nat /\ Len(begun) \in Nat /\ <<>> \in Seq(Nat)
      /\ <<>> \in Seq(Seq(Nat))
  OBVIOUS
<1>1. ASSUME NEW n \in 0..Size, LoadPatch(p, n) PROVE UploadTypes'
  <2>1. row.offset \in Nat /\ n \in Nat /\ row.offset + n \in Nat
    BY SMTT(60) DEF Sessions
  <2>2. File(row.offset, n) \in Seq(Nat)
    BY <2>1, FileIs
  <2>3. [row EXCEPT !.offset = @ + n] \in Sessions
    BY <2>1 DEF Sessions
  <2> QED BY <1>1, <2>2, <2>3 DEF LoadPatch
<1>2. CASE ReadTail(p)
  <2>1. tail \o buf[p] \in Seq(Nat)
    BY <1>0, ConcatProperties
  <2> QED BY <1>2, <2>1 DEF ReadTail
<1>3. CASE PutTail(p)
  <2>1. [sess[p] EXCEPT !.tail = Len(buf[p])] \in Sessions
    BY <1>0 DEF Sessions
  <2> QED BY <1>0, <1>3, <2>1 DEF PutTail
<1>4. CASE BeginUpload(p)
  <2> DEFINE n == Len(begun) + 1
  <2>1. n \in Nat
    BY <1>0
  <2>2. [sess[p] EXCEPT !.up = n] \in Sessions
    <3> HIDE DEF n
    <3> QED BY <1>0, <2>1 DEF Sessions
  <2>3. begun' \in Seq(Uploads)
    BY <1>4, BegunType DEF BeginUpload
  <2> QED BY <1>4, <2>2, <2>3 DEF BeginUpload
<1>5. CASE UploadPart(p)
  <2> DEFINE up == sess[p].up
             number == Len(sess[p].parts) + 1
             old == begun[up].parts
             new == IF number <= Len(old) THEN [old EXCEPT ![number] = buf[p]]
                                          ELSE Append(old, buf[p])
  <2>1. sess[p].parts \in Seq(Seq(Nat)) /\ number \in Nat \ {0} /\ up \in Nat
    BY SMTT(60), <1>0 DEF Sessions
  <2>2. Append(sess[p].parts, buf[p]) \in Seq(Seq(Nat))
    BY <1>0, <2>1
  <2>3. [sess[p] EXCEPT !.parts = Append(@, buf[p])] \in Sessions
    BY <1>0, <2>2 DEF Sessions
  <2>4. ASSUME up \in DOMAIN begun
        PROVE  [begun EXCEPT ![up].parts = new] \in Seq(Uploads)
    <3>1. begun[up] \in Uploads
      BY <2>4
    <3>2. old \in Seq(Seq(Nat))
      BY <3>1 DEF Uploads
    <3> HIDE DEF old, number, up
    <3>3. new \in Seq(Seq(Nat))
      BY <1>0, <2>1, <3>2, PartsType
    <3> HIDE DEF new
    <3> QED BY <3>3, BegunType
  <2>5. ASSUME up \notin DOMAIN begun PROVE [begun EXCEPT ![up].parts = new] = begun
    BY <2>5
  <2>6. begun' = [begun EXCEPT ![up].parts = new] \/ begun' = begun
    BY <1>5 DEF UploadPart
  <2>7. begun' \in Seq(Uploads)
    BY <2>4, <2>5, <2>6
  <2>8. sess' = sess \/ sess' = [sess EXCEPT ![p] = [sess[p] EXCEPT !.parts = Append(@, buf[p])]]
    BY <1>5 DEF UploadPart
  <2>9. sess' \in [Proc -> Sessions]
    BY <2>3, <2>8
  <2>10. UNCHANGED <<row, tail, staging, requested, buf>> /\ DOMAIN pc' = Proc
    BY <1>5 DEF UploadPart
  <2> QED BY <2>7, <2>9, <2>10
<1>6. CASE ClearTail(p)
  <2>1. [sess[p] EXCEPT !.tail = 0] \in Sessions
    BY <1>0 DEF Sessions
  <2> QED BY <1>6, <2>1 DEF ClearTail
<1>7. CASE Save(p)
  BY <1>0, <1>7 DEF Save
<1>8. CASE LoadFinish(p)
  <2>1. [row EXCEPT !.status = "completed"] \in Sessions
    BY DEF Sessions
  <2> QED BY <1>8, <2>1 DEF LoadFinish
<1>9. CASE CopyTail(p)
  BY <1>9 DEF CopyTail
<1>10. CASE FlushTail(p)
  BY <1>10 DEF FlushTail
<1>11. CASE Finish(p)
  <2>1. sess[p].parts \in Seq(Seq(Nat)) /\ sess[p].up \in Nat
    BY <1>0 DEF Sessions
  <2>2. FlattenSeq(sess[p].parts) \in Seq(Nat)
    BY <2>1, FlatHolds
  <2>3. [begun EXCEPT ![sess[p].up].open = FALSE]
          \in Seq(Uploads)
    BY BegunType
  <2> QED BY <1>11, <2>2, <2>3 DEF Finish
<1>12. CASE LoadDelete(p) \/ LoadExpired(p) \/ HeadStaging(p)
  BY <1>12 DEF LoadDelete, LoadExpired, HeadStaging
<1>13. CASE AbortUpload(p)
  <2>1. [begun EXCEPT ![sess[p].up].open = FALSE]
          \in Seq(Uploads)
    BY BegunType
  <2> QED BY <1>13, <2>1 DEF AbortUpload
<1>14. CASE DropTail(p) \/ DropStaging(p) \/ Stop(p)
  BY <1>0, <1>14 DEF DropTail, DropStaging, Stop
<1>15. CASE EndRemoval(p)
  <2> DEFINE base == IF p \in Deleter THEN sess[p] ELSE row
  <2>1. base \in Sessions
    BY <1>0
  <2>2. [base EXCEPT !.status = "terminated", !.up = 0, !.parts = <<>>, !.tail = 0] \in Sessions
    BY <1>0, <2>1 DEF Sessions
  <2> QED BY <1>15, <2>2 DEF EndRemoval
<1> QED BY <1>1, <1>2, <1>3, <1>4, <1>5, <1>6, <1>7, <1>8, <1>9, <1>10, <1>11, <1>12,
           <1>13, <1>14, <1>15 DEF Act

LEMMA UploadInitially == ASSUME UploadInit PROVE UploadInv
<1> DEFINE none == New(1)
<1>1. PICK n \in 1..Size : row = New(n)
  BY DEF UploadInit
<1>2. n \in Nat \ {0}
  OBVIOUS
<1>3. New(n) \in Sessions /\ New(1) \in Sessions
  BY <1>2 DEF New, Sessions
<1>4. UploadTypes
  BY <1>1, <1>3 DEF UploadTypes, UploadInit
<1>5. FlattenSeq(<<>>) = <<>>
  BY DEF FlattenSeq
<1>6. RowFine
  BY <1>1, <1>2, <1>5, FileNone DEF RowFine, Fine, Spelt, Base, New
<1>7. /\ \A p \in Proc : pc[p] = "idle"
      /\ staging = <<>>
  BY DEF UploadInit
<1>8. ASSUME NEW p \in Proc PROVE SoundAt(p)
  BY <1>7 DEF SoundAt, InPlace, ChunkFits, RowWaits, Assembles
<1>9. AllSent /\ AssembledIsFile
  BY <1>7 DEF AllSent, AssembledIsFile, Proc
<1> QED BY <1>4, <1>6, <1>8, <1>9 DEF UploadInv

\* Without a tail object nothing is claimed of it.
LEMMA Emptied ==
  ASSUME NEW s, NEW t, NEW u, u = t \/ u = <<>>
  PROVE  /\ Fine(s, t) => Fine(s, u)
         /\ \A b, n, m : TailFrom(t, b, n, m) => TailFrom(u, b, n, m)
<1>1. \A b, n, m : TailFrom(t, b, n, m) => TailFrom(u, b, n, m)
  BY DEF TailFrom
<1> QED BY <1>1 DEF Fine

\* A process that another's step leaves where it is.
LEMMA Undisturbed ==
  ASSUME UploadInv, NEW q \in Proc,
         pc'[q] = pc[q], sess'[q] = sess[q], buf'[q] = buf[q],
         row'.declared = row.declared,
         q \in Patcher => row' = row \/ row'.status # "active",
         q \in Patcher \/ (q \in Finisher /\ pc[q] # "idle") => tail' = tail \/ tail' = <<>>,
         q \in Finisher /\ pc[q] # "idle" /\ row'.status = "active" =>
           row'.offset = row'.declared
  PROVE  SoundAt(q)'
<1>1. InPlace(q) /\ ChunkFits(q) /\ RowWaits(q) /\ Assembles(q)
  BY DEF UploadInv, SoundAt
<1>2. InPlace(q)'
  BY <1>1 DEF InPlace
<1>3. ChunkFits(q)'
  BY <1>1, Emptied DEF ChunkFits, Spelt
<1>4. RowWaits(q)'
  BY <1>1 DEF RowWaits, Base
<1>5. Assembles(q)'
  BY <1>1, Emptied DEF Assembles, Spelt
<1> QED BY <1>2, <1>3, <1>4, <1>5 DEF SoundAt

\* What a PATCH that is not about to save has loaded was not all.
LEMMA NotAllYet ==
  ASSUME UploadInv, NEW p \in Patcher, pc[p] # "idle", row.status = "active",
         row.offset = row.declared
  PROVE  pc[p] = "save" /\ sess[p].offset = sess[p].declared
<1>1. p \in Proc /\ InPlace(p) /\ ChunkFits(p) /\ RowWaits(p)
  BY DEF UploadInv, SoundAt, Proc
<1>2. /\ sess[p].declared = row.declared /\ row.offset \in Nat /\ sess[p].offset \in Nat
      /\ Len(buf[p]) \in Nat /\ row.declared \in Nat
  BY SMTT(60), <1>1 DEF UploadInv, UploadTypes, Sessions, InPlace
<1> QED BY <1>1, <1>2 DEF InPlace, ChunkFits, RowWaits, Filled, Fine

LEMMA AllSentStep ==
  ASSUME OneClient, UploadInv, NEW p \in Proc, Act(p) PROVE AllSent'
<1> SUFFICES ASSUME NEW f \in Finisher, NEW c \in Patcher, pc'[f] # "idle", pc'[c] # "idle"
             PROVE  pc'[c] = "save" /\ sess'[c].offset = sess'[c].declared
  BY DEF AllSent
<1>1. /\ f \in Proc /\ c \in Proc /\ f # c /\ f \notin Deleter \cup Reaper
      /\ c \notin Deleter \cup Reaper /\ c \notin Finisher /\ f \notin Patcher
  BY DEF OneClient, Proc
<1>2. \A q \in Proc : q # p => pc'[q] = pc[q] /\ sess'[q] = sess[q]
  BY DEF Act, UploadInv, UploadTypes, Proceed, LoadPatch, ReadTail, PutTail, BeginUpload,
     UploadPart, ClearTail, Save, LoadFinish, CopyTail, FlushTail, Finish, LoadDelete,
     LoadExpired, HeadStaging, AbortUpload, DropTail, DropStaging, EndRemoval, Stop
<1>3. pc[f] # "idle" /\ pc[c] # "idle" => pc[c] = "save" /\ sess[c].offset = sess[c].declared
  BY DEF UploadInv, AllSent
<1>4. InPlace(f) /\ InPlace(c) /\ Assembles(f)
  BY <1>1 DEF UploadInv, SoundAt
<1>5. CASE p # f /\ p # c
  BY <1>1, <1>2, <1>3, <1>5
<1>6. CASE p = c
  <2>1. pc[f] # "idle"
    BY <1>1, <1>2, <1>6
  <2>2. CASE pc[c] # "idle"
    <3>1. pc[c] = "save"
      BY SMTT(60), <1>3, <2>1, <2>2
    <3>2. Save(p) \/ Stop(p)
      BY <3>1, <1>1, <1>6 DEF Act, LoadPatch, ReadTail, PutTail, BeginUpload, UploadPart,
         ClearTail, LoadFinish, CopyTail, FlushTail, Finish, LoadDelete, LoadExpired,
         HeadStaging, AbortUpload, DropTail, DropStaging, EndRemoval
    <3>3. pc'[c] = "idle"
      BY <3>2, <1>1, <1>6 DEF Save, Stop, Proceed, UploadInv, UploadTypes
    <3> QED BY <3>3
  <2>3. CASE pc[c] = "idle"
    <3>1. PICK n \in 0..Size : LoadPatch(p, n)
      BY <2>3, <1>1, <1>6 DEF Act, ReadTail, PutTail, BeginUpload, UploadPart, ClearTail,
         Save, LoadFinish, CopyTail, FlushTail, Finish, LoadDelete, LoadExpired,
         HeadStaging, AbortUpload, DropTail, DropStaging, EndRemoval, Stop
    <3>2. row.status = "active" /\ Fits(row, n) /\ row.offset = row.declared
      BY <3>1, <2>1, <1>4 DEF LoadPatch, Assembles
    <3>3. row.offset \in Nat /\ row.declared \in Nat /\ n \in Nat
      BY DEF UploadInv, UploadTypes, Sessions
    <3>4. n = 0
      BY <3>2, <3>3 DEF Fits
    <3>5. pc'[c] = "save" /\ sess'[c] = [row EXCEPT !.offset = @ + n]
      BY <3>1, <3>4, <1>1, <1>6 DEF LoadPatch, Proceed, UploadInv, UploadTypes
    <3> QED BY SMTT(60), <3>2, <3>3, <3>4, <3>5 DEF UploadInv, UploadTypes, Sessions
  <2> QED BY <2>2, <2>3
<1>7. CASE p = f
  <2>1. pc[c] # "idle" /\ pc'[c] = pc[c] /\ sess'[c] = sess[c]
    BY <1>1, <1>2, <1>7
  <2>2. CASE pc[f] # "idle"
    BY <1>3, <2>1, <2>2
  <2>3. CASE pc[f] = "idle"
    <3>1. LoadFinish(p)
      BY <2>3, <1>1, <1>7 DEF Act, LoadPatch, ReadTail, PutTail, BeginUpload, UploadPart,
         ClearTail, Save, CopyTail, FlushTail, Finish, LoadDelete, LoadExpired,
         HeadStaging, AbortUpload, DropTail, DropStaging, EndRemoval, Stop
    <3> QED BY SMTT(60), <3>1, <2>1, NotAllYet DEF LoadFinish
  <2> QED BY <2>2, <2>3
<1> QED BY <1>5, <1>6, <1>7

LEMMA LoadPatchStep ==
  ASSUME OneClient, UploadInv, NEW p \in Proc, NEW n \in 0..Size, LoadPatch(p, n)
  PROVE  RowFine' /\ AssembledIsFile' /\ \A q \in Proc : SoundAt(q)'
<1> DEFINE s == [row EXCEPT !.offset = @ + n]
           b == File(row.offset, n)
<1>1. /\ p \in Patcher /\ p \notin Finisher /\ p \notin Deleter \cup Reaper
      /\ pc[p] = "idle" /\ row.status = "active" /\ row.offset + n <= row.declared
      /\ Fine(row, tail)
  BY DEF LoadPatch, OneClient, UploadInv, RowFine, Fits
<1>2. /\ sess'[p] = s /\ buf'[p] = b
      /\ pc'[p] = IF n = 0 THEN "save" ELSE IF row.tail > 0 THEN "read" ELSE StoreStep(row, b)
      /\ UNCHANGED <<row, tail, staging>>
  BY DEF LoadPatch, Proceed, UploadInv, UploadTypes
<1>3. \A q \in Proc : q # p => pc'[q] = pc[q] /\ sess'[q] = sess[q] /\ buf'[q] = buf[q]
  BY DEF LoadPatch, Proceed, UploadInv, UploadTypes
<1>4. /\ row.offset \in Nat /\ n \in Nat /\ row.tail \in Nat /\ row.declared \in Nat
      /\ row.tail <= row.offset /\ (row.up = 0 => row.parts = <<>>)
      /\ Spelt(row, row.offset - row.tail)
      /\ row.tail > 0 =>
           TailFrom(tail, row.offset - row.tail, row.tail, row.declared - (row.offset - row.tail))
  BY <1>1 DEF UploadInv, UploadTypes, Sessions, Fine, Base
<1>5. /\ s.status = "active" /\ s.declared = row.declared /\ s.offset = row.offset + n
      /\ s.up = row.up /\ s.parts = row.parts /\ s.tail = row.tail /\ Len(b) = n
      /\ s.offset - n = row.offset
  <2>1. row \in Sessions
    BY DEF UploadInv, UploadTypes
  <2>2. /\ s.status = "active" /\ s.declared = row.declared /\ s.offset = row.offset + n
        /\ s.up = row.up /\ s.parts = row.parts /\ s.tail = row.tail
    BY <1>1, <2>1 DEF Sessions
  <2>3. Len(b) = n
    BY <1>4, FileIs
  <2>4. s.offset - n = row.offset
    BY <1>4, <2>2
  <2> QED BY <2>2, <2>3, <2>4
<1>6. n = 0 => s = row
  BY <1>4 DEF UploadInv, UploadTypes, Sessions
<1>7. StoreStep(row, b) \in {"put", "begin", "part"} /\
      (StoreStep(row, b) = "begin" => row.up = 0) /\ (StoreStep(row, b) = "part" => row.up # 0)
  BY DEF StoreStep
<1> HIDE DEF s, b
<1>8. ASSUME NEW q \in Proc, q # p PROVE SoundAt(q)'
  <2>1. q \in Finisher /\ pc[q] # "idle" /\ row'.status = "active" => row'.offset = row'.declared
    BY <1>2 DEF UploadInv, SoundAt, Assembles
  <2> QED BY <1>2, <1>3, <1>8, <2>1, Undisturbed
<1>9. InPlace(p)'
  BY <1>1, <1>2, <1>5, <1>7 DEF InPlace
<1>10. ChunkFits(p)'
  <2>1. CASE n = 0
    BY <1>1, <1>2, <1>4, <1>5, <1>6, <2>1 DEF ChunkFits, Filled, Fine
  <2>2. CASE n # 0 /\ row.tail > 0
    <3>1. pc'[p] = "read" /\ buf'[p] = b /\ sess'[p] = s /\ tail' = tail /\ b = File(row.offset, n)
      BY <1>2, <2>2 DEF b
    <3>2. /\ n > 0 /\ s.tail > 0 /\ n + s.tail <= s.offset /\ s.offset <= s.declared
          /\ s.offset - n - s.tail = row.offset - row.tail
      BY <1>1, <1>4, <1>5, <2>2
    <3> QED BY <1>4, <1>5, <2>2, <3>1, <3>2 DEF ChunkFits, Filled, Spelt
  <2>3. CASE n # 0 /\ row.tail = 0
    BY <1>1, <1>2, <1>4, <1>5, <1>7, <2>3 DEF ChunkFits, Filled, Spelt, b
  <2> QED BY <1>4, <2>1, <2>2, <2>3
<1>11. RowWaits(p)'
  BY <1>1, <1>2, <1>4, <1>5, <1>6, <1>7 DEF RowWaits, Filled, Base
<1>12. Assembles(p)'
  BY <1>1 DEF Assembles
<1>13. RowFine' /\ AssembledIsFile'
  BY <1>2 DEF UploadInv, RowFine, AssembledIsFile
<1> QED BY <1>8, <1>9, <1>10, <1>11, <1>12, <1>13 DEF SoundAt

LEMMA ReadTailStep ==
  ASSUME OneClient, UploadInv, NEW p \in Proc, ReadTail(p)
  PROVE  RowFine' /\ AssembledIsFile' /\ \A q \in Proc : SoundAt(q)'
<1> DEFINE s == sess[p]
           n == Len(buf[p])
           b == tail \o buf[p]
<1>1. /\ pc[p] = "read" /\ InPlace(p) /\ ChunkFits(p) /\ RowWaits(p)
      /\ s \in Sessions /\ buf[p] \in Seq(Nat) /\ n \in Nat /\ tail \in Seq(Nat)
      /\ s.offset \in Nat /\ s.tail \in Nat /\ s.declared \in Nat
  BY SMTT(60) DEF ReadTail, UploadInv, UploadTypes, SoundAt, Sessions
<1>2. p \in Patcher /\ p \notin Finisher /\ p \notin Deleter \cup Reaper
  BY <1>1 DEF InPlace, OneClient, Proc
<1>3. /\ sess'[p] = s /\ UNCHANGED <<row, tail, staging>>
      /\ \/ pc'[p] = "idle"
         \/ TailAgrees(s) /\ buf'[p] = b /\ pc'[p] = StoreStep(s, b)
  BY DEF ReadTail, Proceed, UploadInv, UploadTypes
<1>4. \A q \in Proc : q # p => pc'[q] = pc[q] /\ sess'[q] = sess[q] /\ buf'[q] = buf[q]
  BY DEF ReadTail, Proceed, UploadInv, UploadTypes
<1>5. ASSUME NEW q \in Proc, q # p PROVE SoundAt(q)'
  <2>1. q \in Finisher /\ pc[q] # "idle" /\ row'.status = "active" => row'.offset = row'.declared
    BY <1>3 DEF UploadInv, SoundAt, Assembles
  <2> QED BY <1>3, <1>4, <1>5, <2>1, Undisturbed
<1>6. RowFine' /\ AssembledIsFile'
  BY <1>3 DEF UploadInv, RowFine, AssembledIsFile
<1>7. Assembles(p)'
  BY <1>2 DEF Assembles
<1>8. CASE pc'[p] = "idle"
  BY <1>2, <1>5, <1>6, <1>7, <1>8 DEF SoundAt, InPlace, ChunkFits, RowWaits
<1>9. CASE TailAgrees(s) /\ buf'[p] = b /\ pc'[p] = StoreStep(s, b)
  <2> DEFINE c == s.offset - n - s.tail
  <2>1. /\ s.status = "active" /\ s.offset <= s.declared /\ (s.up = 0 => s.parts = <<>>)
        /\ n > 0 /\ s.tail > 0 /\ n + s.tail <= s.offset /\ buf[p] = File(s.offset - n, n)
        /\ Spelt(s, c) /\ TailFrom(tail, c, s.tail, s.declared - c)
    BY <1>1, <1>2 DEF ChunkFits
  <2>2. c \in Nat /\ c + s.tail = s.offset - n /\ c = s.offset - (s.tail + n) /\ s.tail + n \in Nat
    BY SMTT(60), <1>1, <2>1
  <2>3. Len(tail) = s.tail /\ tail # <<>>
    BY <1>9, <2>1 DEF TailAgrees
  <2>4. PICK k \in s.tail..(s.declared - c) : tail = File(c, k)
    BY <2>1, <2>3 DEF TailFrom
  <2>5. k = s.tail
    <3>1. k \in Nat
      BY <1>1, <2>2, <2>4
    <3>2. Len(File(c, k)) = k
      BY <2>2, <3>1, FileIs
    <3> QED BY <2>3, <2>4, <3>2
  <2>6. b = File(c, s.tail + n)
    <3>1. tail = File(c, s.tail) /\ buf[p] = File(c + s.tail, n)
      BY <2>1, <2>2, <2>4, <2>5
    <3>2. c \in Nat /\ s.tail \in Nat /\ n \in Nat
      BY <1>1, <2>2
    <3>3. File(c, s.tail) \o File(c + s.tail, n) = File(c, s.tail + n)
      <4> HIDE DEF c, n, s
      <4> QED BY <3>2, FileJoins
    <3> QED BY <3>1, <3>3
  <2>7. Len(b) = s.tail + n
    BY <2>2, <2>6, FileIs
  <2>8. StoreStep(s, b) \in {"put", "begin", "part"} /\
        (StoreStep(s, b) = "begin" => s.up = 0) /\ (StoreStep(s, b) = "part" => s.up # 0)
    BY DEF StoreStep
  <2> HIDE DEF s, b, c
  <2>9. InPlace(p)'
    BY <1>1, <1>2, <1>3, <1>9, <2>8 DEF InPlace, s
  <2>10. ChunkFits(p)'
    <3>1. sess'[p] = s /\ buf'[p] = b /\ Len(b) = s.tail + n /\ pc'[p] \in {"put", "begin", "part"}
      BY <1>3, <1>9, <2>7, <2>8
    <3>2. /\ s.tail + n > s.tail /\ s.tail + n <= s.offset
          /\ b = File(s.offset - (s.tail + n), s.tail + n)
          /\ FlattenSeq(s.parts) = File(0, s.offset - (s.tail + n))
      BY <1>1, <2>1, <2>2, <2>6 DEF Spelt
    <3> HIDE DEF n
    <3> QED BY <2>1, <2>8, <1>9, <3>1, <3>2 DEF ChunkFits, Filled, Spelt
  <2>11. RowWaits(p)'
    <3>1. row.status = "active" => row.offset = s.offset - n /\ row.tail = s.tail
      BY <1>1, <1>2 DEF RowWaits, s
    <3>2. /\ sess'[p] = s /\ row' = row /\ Len(buf'[p]) = s.tail + n
          /\ pc'[p] \in {"put", "begin", "part"}
      BY <1>3, <1>9, <2>7, <2>8
    <3>3. row.status = "active" => row.offset < s.offset /\ Base(row) = s.offset - (s.tail + n)
      BY <1>1, <2>1, <3>1 DEF Base
    <3> HIDE DEF n
    <3> QED BY <3>2, <3>3 DEF RowWaits, Filled, Base
  <2> QED BY <1>5, <1>6, <1>7, <2>9, <2>10, <2>11 DEF SoundAt
<1> QED BY <1>3, <1>8, <1>9

LEMMA PutTailStep ==
  ASSUME OneClient, UploadInv, NEW p \in Proc, PutTail(p)
  PROVE  RowFine' /\ AssembledIsFile' /\ \A q \in Proc : SoundAt(q)'
<1> DEFINE s == sess[p]
           b == buf[p]
           n == Len(b)
           c == s.offset - n
<1>1. /\ pc[p] = "put" /\ InPlace(p) /\ ChunkFits(p) /\ RowWaits(p)
      /\ s \in Sessions /\ b \in Seq(Nat) /\ n \in Nat /\ row \in Sessions
      /\ s.offset \in Nat /\ s.tail \in Nat /\ s.declared \in Nat
      /\ row.offset \in Nat /\ row.tail \in Nat
  BY SMTT(60) DEF PutTail, UploadInv, UploadTypes, SoundAt, Sessions
<1>2. p \in Patcher /\ p \notin Finisher /\ p \notin Deleter \cup Reaper
  BY <1>1 DEF InPlace, OneClient, Proc
<1>3. /\ sess'[p] = [s EXCEPT !.tail = n] /\ UNCHANGED <<row, staging>>
      /\ tail' = b /\ pc'[p] = "save" /\ buf'[p] = b
  BY DEF PutTail, Proceed, UploadInv, UploadTypes
<1>4. \A q \in Proc : q # p => pc'[q] = pc[q] /\ sess'[q] = sess[q] /\ buf'[q] = buf[q]
  BY DEF PutTail, Proceed, UploadInv, UploadTypes
<1>5. /\ s.status = "active" /\ s.offset <= s.declared /\ (s.up = 0 => s.parts = <<>>)
      /\ n > s.tail /\ n <= s.offset /\ b = File(c, n) /\ Spelt(s, c)
      /\ s.declared = row.declared
      /\ row.status = "active" => row.offset < s.offset /\ Base(row) = c
  BY <1>1, <1>2 DEF ChunkFits, RowWaits, Filled, InPlace
<1>6. ASSUME NEW q \in Proc, q # p PROVE SoundAt(q)'
  <2>1. q \notin Patcher /\ ~ (q \in Finisher /\ pc[q] # "idle")
    BY <1>1, <1>2, <1>6 DEF OneClient, UploadInv, AllSent
  <2> QED BY <1>3, <1>4, <1>6, <2>1, Undisturbed
<1>7. \A m, k : n \in k..m => TailFrom(b, c, k, m)
  BY <1>5 DEF TailFrom
<1>8. sess'[p].tail = n /\ sess'[p].offset = s.offset /\ sess'[p].status = "active" /\
      sess'[p].declared = s.declared /\ sess'[p].parts = s.parts /\ sess'[p].up = s.up
  BY <1>1, <1>3, <1>5 DEF Sessions
<1> HIDE DEF s, b, n, c
<1>9. c \in Nat /\ c + n = s.offset /\ c = s.offset - n
  BY <1>1, <1>5 DEF c
<1>10. Fine(sess'[p], tail')
  <2>1. TailFrom(b, c, n, s.declared - c)
    <3>1. n \in n..(s.declared - c)
      BY <1>1, <1>5, <1>9
    <3> QED BY <1>7, <3>1
  <2> QED BY <1>1, <1>3, <1>5, <1>8, <1>9, <2>1 DEF Fine, Base, Spelt
<1>11. RowFine'
  <2> SUFFICES ASSUME row.status = "active" PROVE Fine(row, b)
    BY <1>3 DEF RowFine
  <2>1. Fine(row, tail) /\ row.offset < s.offset /\ Base(row) = c
    BY <1>5 DEF UploadInv, RowFine
  <2>2. row.tail <= n /\ n <= row.declared - c
    <3>1. row.offset - row.tail = c /\ row.declared = s.declared /\ s.offset <= s.declared
      BY <1>5, <2>1 DEF Base
    <3> QED BY SMTT(60), <1>1, <1>9, <2>1, <3>1
  <2>3. TailFrom(b, c, row.tail, row.declared - c)
    <3>1. n \in row.tail..(row.declared - c)
      BY <1>1, <1>5, <1>9, <2>2
    <3> QED BY <1>7, <3>1
  <2> QED BY <2>1, <2>3 DEF Fine
<1>12. SoundAt(p)'
  BY <1>1, <1>2, <1>3, <1>5, <1>8, <1>10 DEF SoundAt, InPlace, ChunkFits, RowWaits, Assembles, Filled
<1>13. AssembledIsFile'
  BY <1>3 DEF UploadInv, AssembledIsFile
<1> QED BY <1>6, <1>11, <1>12, <1>13

\* What a step leaves alone that writes no row.
LEMMA OthersSound ==
  ASSUME UploadInv, NEW p \in Proc, row' = row, tail' = tail \/ tail' = <<>>,
         \A q \in Proc : q # p => pc'[q] = pc[q] /\ sess'[q] = sess[q] /\ buf'[q] = buf[q]
  PROVE  RowFine' /\ \A q \in Proc : q # p => SoundAt(q)'
<1>1. RowFine'
  BY Emptied DEF UploadInv, RowFine
<1>2. ASSUME NEW q \in Proc, q # p PROVE SoundAt(q)'
  <2>1. q \in Finisher /\ pc[q] # "idle" /\ row'.status = "active" => row'.offset = row'.declared
    BY DEF UploadInv, SoundAt, Assembles
  <2> QED BY <1>2, <2>1, Undisturbed
<1> QED BY <1>1, <1>2

\* A process that gives up, or that is not of the kinds that matter.
LEMMA BystanderSound ==
  ASSUME OneClient, UploadInv, NEW p \in Proc, row'.declared = row.declared,
         sess'[p].declared = row.declared \/ pc'[p] = "idle",
         \/ pc'[p] = "idle"
         \/ p \in Deleter \cup Reaper /\ pc'[p] \in {"head", "abort", "drop", "unstage", "end"}
  PROVE  SoundAt(p)'
BY DEF SoundAt, InPlace, ChunkFits, RowWaits, Assembles, OneClient

LEMMA BeginUploadStep ==
  ASSUME OneClient, UploadInv, NEW p \in Proc, BeginUpload(p)
  PROVE  RowFine' /\ AssembledIsFile' /\ \A q \in Proc : SoundAt(q)'
<1> DEFINE s == sess[p]
<1>1. /\ pc[p] = "begin" /\ InPlace(p) /\ ChunkFits(p) /\ RowWaits(p)
      /\ s \in Sessions /\ Len(begun) \in Nat
  BY DEF BeginUpload, UploadInv, UploadTypes, SoundAt
<1>2. p \in Patcher /\ p \notin Finisher /\ p \notin Deleter \cup Reaper
  BY <1>1 DEF InPlace, OneClient, Proc
<1>3. /\ sess'[p] = [s EXCEPT !.up = Len(begun) + 1] /\ UNCHANGED <<row, tail, staging>>
      /\ pc'[p] = "part" /\ buf'[p] = buf[p]
  BY DEF BeginUpload, Proceed, UploadInv, UploadTypes
<1>4. \A q \in Proc : q # p => pc'[q] = pc[q] /\ sess'[q] = sess[q] /\ buf'[q] = buf[q]
  BY DEF BeginUpload, Proceed, UploadInv, UploadTypes
<1>5. /\ sess'[p].tail = s.tail /\ sess'[p].offset = s.offset /\ sess'[p].status = s.status
      /\ sess'[p].declared = s.declared /\ sess'[p].parts = s.parts /\ sess'[p].up # 0
  BY <1>1, <1>3 DEF Sessions
<1>6. InPlace(p)'
  BY <1>1, <1>2, <1>3, <1>5 DEF InPlace
<1>7. ChunkFits(p)'
  BY <1>1, <1>2, <1>3, <1>5 DEF ChunkFits, Filled, Spelt
<1>8. RowWaits(p)'
  BY <1>1, <1>2, <1>3, <1>5 DEF RowWaits, Filled, Base
<1>9. Assembles(p)' /\ AssembledIsFile'
  BY <1>2, <1>3 DEF Assembles, UploadInv, AssembledIsFile
<1> QED BY <1>3, <1>4, <1>6, <1>7, <1>8, <1>9, OthersSound DEF SoundAt

LEMMA UploadPartStep ==
  ASSUME OneClient, UploadInv, NEW p \in Proc, UploadPart(p)
  PROVE  RowFine' /\ AssembledIsFile' /\ \A q \in Proc : SoundAt(q)'
<1> DEFINE s == sess[p]
           b == buf[p]
           n == Len(b)
           t == sess'[p]
<1>1. /\ pc[p] = "part" /\ InPlace(p) /\ ChunkFits(p) /\ RowWaits(p) /\ Assembles(p)
      /\ s \in Sessions /\ b \in Seq(Nat) /\ n \in Nat
  BY DEF UploadPart, UploadInv, UploadTypes, SoundAt
<1>2. UNCHANGED <<row, tail, staging>> /\ buf'[p] = b
  BY DEF UploadPart
<1>3. \A q \in Proc : q # p => pc'[q] = pc[q] /\ sess'[q] = sess[q] /\ buf'[q] = buf[q]
  BY DEF UploadPart, Proceed, UploadInv, UploadTypes
<1>4. RowFine' /\ AssembledIsFile' /\ \A q \in Proc : q # p => SoundAt(q)'
  BY <1>2, <1>3, OthersSound DEF UploadInv, AssembledIsFile
<1>5. CASE pc'[p] = "idle"
  BY <1>2, <1>4, <1>5, BystanderSound
<1>6. CASE /\ t = [s EXCEPT !.parts = Append(@, b)]
           /\ pc'[p] = IF p \in Finisher THEN "finish" ELSE IF s.tail > 0 THEN "clear" ELSE "save"
  <2>1. /\ t.tail = s.tail /\ t.offset = s.offset /\ t.status = s.status
        /\ t.declared = s.declared /\ t.parts = Append(s.parts, b) /\ t.up = s.up
        /\ s.parts \in Seq(Seq(Nat)) /\ s.offset \in Nat /\ s.tail \in Nat /\ s.declared \in Nat
    BY <1>1, <1>6 DEF Sessions
  <2>2. FlattenSeq(t.parts) = FlattenSeq(s.parts) \o b
    BY <1>1, <2>1, FlatGrows
  <2>3. CASE p \in Finisher
    <3>1. p \notin Patcher /\ p \notin Deleter \cup Reaper
      BY <2>3 DEF OneClient
    <3>2. FlattenSeq(s.parts) \o b = File(0, s.declared)
      BY <1>1, <2>3 DEF Assembles
    <3>3. InPlace(p)' /\ Assembles(p)'
      BY <1>1, <1>2, <1>6, <2>1, <2>2, <2>3, <3>1, <3>2 DEF InPlace, Assembles, Spelt
    <3> QED BY <1>4, <3>1, <3>3 DEF SoundAt, ChunkFits, RowWaits
  <2>4. CASE p \notin Finisher
    <3>1. p \in Patcher /\ p \notin Deleter \cup Reaper
      BY <1>1, <2>4 DEF InPlace, OneClient, Proc
    <3>2. /\ s.status = "active" /\ s.offset <= s.declared /\ s.up # 0
          /\ n > s.tail /\ n <= s.offset /\ b = File(s.offset - n, n)
          /\ FlattenSeq(s.parts) = File(0, s.offset - n)
      BY <1>1, <3>1 DEF ChunkFits, Filled, Spelt
    <3>3. FlattenSeq(t.parts) = File(0, s.offset)
      <4> DEFINE c == s.offset - n
      <4>1. c \in Nat /\ n \in Nat /\ 0 + c = c /\ c + n = s.offset
        BY <1>1, <2>1, <3>2
      <4>2. File(0, c) \o File(c, n) = File(0, c + n)
        <5> HIDE DEF c, n
        <5> QED BY ZenonT(60), <4>1, FileJoins
      <4> QED BY <2>2, <3>2, <4>1, <4>2
    <3>4. InPlace(p)'
      BY <1>1, <1>2, <1>6, <2>1, <2>4, <3>1 DEF InPlace
    <3> HIDE DEF s, t
    <3>5. ChunkFits(p)'
      <4>1. CASE s.tail > 0
        <5>1. pc'[p] = "clear" /\ buf'[p] = b
          BY <1>2, <1>6, <2>4, <4>1
        <5> QED BY <5>1, <2>1, <3>2, <3>3 DEF ChunkFits, Filled, Spelt, t
      <4>2. CASE ~ s.tail > 0
        <5>1. pc'[p] = "save" /\ s.tail = 0
          BY <1>6, <2>1, <2>4, <4>2
        <5>2. Base(t) = s.offset
          BY <2>1, <5>1 DEF Base
        <5>3. Fine(t, tail')
          BY <2>1, <3>2, <3>3, <5>1, <5>2 DEF Fine, Spelt
        <5> QED BY <5>1, <5>3, <2>1, <3>2 DEF ChunkFits, Filled, t
      <4> QED BY <4>1, <4>2
    <3>6. RowWaits(p)'
      <4>1. row.status = "active" => row.offset < s.offset /\ Base(row) = s.offset - n
        BY <1>1, <3>1 DEF RowWaits, Filled, s
      <4> QED BY <1>2, <1>6, <2>1, <2>4, <4>1 DEF RowWaits, Filled, Base, t
    <3> QED BY <1>4, <2>4, <3>4, <3>5, <3>6 DEF SoundAt, Assembles
  <2> QED BY <2>3, <2>4
<1>7. QED
  BY <1>5, <1>6 DEF UploadPart, Proceed, UploadInv, UploadTypes

LEMMA ClearTailStep ==
  ASSUME OneClient, UploadInv, NEW p \in Proc, ClearTail(p)
  PROVE  RowFine' /\ AssembledIsFile' /\ \A q \in Proc : SoundAt(q)'
<1> DEFINE s == sess[p]
           t == sess'[p]
<1>1. /\ pc[p] = "clear" /\ InPlace(p) /\ ChunkFits(p) /\ RowWaits(p) /\ Assembles(p)
      /\ s \in Sessions
  BY DEF ClearTail, UploadInv, UploadTypes, SoundAt
<1>2. UNCHANGED <<row, staging>> /\ tail' = <<>> /\ pc'[p] = "save" /\ t = [s EXCEPT !.tail = 0]
  BY DEF ClearTail, Proceed, UploadInv, UploadTypes
<1>3. \A q \in Proc : q # p => pc'[q] = pc[q] /\ sess'[q] = sess[q] /\ buf'[q] = buf[q]
  BY DEF ClearTail, Proceed, UploadInv, UploadTypes
<1>4. RowFine' /\ AssembledIsFile' /\ \A q \in Proc : q # p => SoundAt(q)'
  BY <1>2, <1>3, OthersSound DEF UploadInv, AssembledIsFile
<1>5. /\ t.tail = 0 /\ t.offset = s.offset /\ t.status = s.status
      /\ t.declared = s.declared /\ t.parts = s.parts /\ t.up = s.up
      /\ s.offset \in Nat
  BY <1>1, <1>2 DEF Sessions
<1>6. InPlace(p)' /\ Assembles(p)'
  BY <1>1, <1>2, <1>5 DEF InPlace, Assembles, OneClient, Proc
<1>7. CASE p \in Patcher
  <2>1. /\ s.status = "active" /\ s.offset <= s.declared /\ s.up # 0 /\ Spelt(s, s.offset)
        /\ row.status = "active" => row.offset < s.offset
    BY <1>1, <1>7 DEF ChunkFits, RowWaits, Filled
  <2>2. Base(t) = s.offset
    BY <1>5 DEF Base
  <2> HIDE DEF s, t
  <2>3. Fine(t, tail')
    BY <1>5, <2>1, <2>2 DEF Fine, Spelt
  <2> QED BY ZenonT(60), <1>2, <1>4, <1>5, <1>6, <2>1, <2>3 DEF SoundAt, ChunkFits, RowWaits, Filled, t
<1>8. CASE p \notin Patcher
  BY <1>4, <1>6, <1>8 DEF SoundAt, ChunkFits, RowWaits
<1> QED BY <1>7, <1>8

LEMMA SaveStep ==
  ASSUME OneClient, UploadInv, NEW p \in Proc, Save(p)
  PROVE  RowFine' /\ AssembledIsFile' /\ \A q \in Proc : SoundAt(q)'
<1>1. /\ pc[p] = "save" /\ InPlace(p) /\ ChunkFits(p) /\ Assembles(p)
  BY DEF Save, UploadInv, SoundAt
<1>2. /\ row' = sess[p] /\ UNCHANGED <<tail, staging>> /\ pc'[p] = "idle"
      /\ row'.declared = row.declared
      /\ \A q \in Proc : q # p => pc'[q] = pc[q] /\ sess'[q] = sess[q] /\ buf'[q] = buf[q]
  BY <1>1 DEF Save, Proceed, UploadInv, UploadTypes, InPlace
<1>3. AssembledIsFile'
  BY <1>2 DEF UploadInv, AssembledIsFile
<1>4. SoundAt(p)'
  BY <1>2, BystanderSound
<1>5. CASE p \in Patcher
  <2>1. Fine(sess[p], tail)
    BY <1>1, <1>5 DEF ChunkFits
  <2>2. ASSUME NEW q \in Proc, q # p PROVE SoundAt(q)'
    <3>1. q \notin Patcher
      BY <1>5, <2>2 DEF OneClient
    <3>2. q \in Finisher /\ pc[q] # "idle" => sess[p].offset = sess[p].declared
      BY <1>1, <1>5 DEF UploadInv, AllSent
    <3> QED BY <1>2, <2>2, <3>1, <3>2, Undisturbed
  <2> QED BY <1>2, <1>3, <1>4, <2>1, <2>2 DEF RowFine
<1>6. CASE p \in Finisher
  <2>1. row'.status # "active"
    BY <1>1, <1>2, <1>6 DEF Assembles
  <2> QED BY <1>2, <1>3, <1>4, <2>1, Undisturbed DEF RowFine
<1> QED BY <1>1, <1>5, <1>6 DEF InPlace, Proc

LEMMA LoadFinishStep ==
  ASSUME OneClient, UploadInv, NEW p \in Proc, LoadFinish(p)
  PROVE  RowFine' /\ AssembledIsFile' /\ \A q \in Proc : SoundAt(q)'
<1> DEFINE s == [row EXCEPT !.status = "completed"]
<1>1. /\ p \in Finisher /\ p \notin Patcher /\ p \notin Deleter \cup Reaper
      /\ row.status = "active" /\ row.offset = row.declared /\ row \in Sessions /\ Fine(row, tail)
  BY DEF LoadFinish, OneClient, UploadInv, UploadTypes, RowFine
<1>2. /\ sess'[p] = s /\ pc'[p] = AssembleStep(row) /\ UNCHANGED <<row, tail, staging>>
      /\ \A q \in Proc : q # p => pc'[q] = pc[q] /\ sess'[q] = sess[q] /\ buf'[q] = buf[q]
  BY DEF LoadFinish, Proceed, UploadInv, UploadTypes
<1>3. RowFine' /\ AssembledIsFile' /\ \A q \in Proc : q # p => SoundAt(q)'
  BY <1>2, OthersSound DEF UploadInv, AssembledIsFile
<1>4. /\ s.status = "completed" /\ s.declared = row.declared /\ s.offset = row.offset
      /\ s.up = row.up /\ s.parts = row.parts /\ s.tail = row.tail
      /\ row.offset \in Nat /\ row.tail \in Nat
  BY <1>1 DEF Sessions
<1> HIDE DEF s
<1>5. Fine(s, tail)
  BY <1>1, <1>4 DEF Fine, Base, Spelt
<1>6. /\ pc'[p] \in {"copy", "flush", "finish"}
      /\ pc'[p] = "copy" => s.up = 0
      /\ pc'[p] = "flush" => s.tail > 0
      /\ pc'[p] = "finish" => Base(s) = s.declared
  BY <1>1, <1>2, <1>4 DEF AssembleStep, Base
<1>7. InPlace(p)'
  BY <1>1, <1>2, <1>4, <1>6 DEF InPlace
<1>8. Assembles(p)'
  BY <1>1, <1>2, <1>4, <1>5, <1>6 DEF Assembles, Fine
<1> QED BY <1>1, <1>3, <1>7, <1>8 DEF SoundAt, ChunkFits, RowWaits

\* What a finalisation of a complete upload finds in the tail is the rest of the file.
LEMMA RestIsThere ==
  ASSUME NEW s \in Sessions, s.offset = s.declared, Fine(s, tail), s.tail > 0, tail # <<>>
  PROVE  /\ tail = File(Base(s), s.tail) /\ Base(s) \in Nat /\ s.tail \in Nat
         /\ Base(s) + s.tail = s.declared
<1>1. s.offset \in Nat /\ s.tail \in Nat /\ s.tail <= s.offset
  BY DEF Sessions, Fine
<1>2. Base(s) \in Nat /\ s.declared - Base(s) = s.tail /\ Base(s) + s.tail = s.declared
  BY <1>1 DEF Base
<1>3. PICK k \in s.tail..(s.declared - Base(s)) : tail = File(Base(s), k)
  BY DEF Fine, TailFrom
<1>4. k = s.tail
  BY <1>1, <1>2, <1>3
<1> QED BY <1>1, <1>2, <1>3, <1>4

LEMMA CopyTailStep ==
  ASSUME OneClient, UploadInv, NEW p \in Proc, CopyTail(p)
  PROVE  RowFine' /\ AssembledIsFile' /\ \A q \in Proc : SoundAt(q)'
<1> DEFINE s == sess[p]
<1>1. pc[p] = "copy" /\ InPlace(p) /\ Assembles(p) /\ s \in Sessions
  BY DEF CopyTail, UploadInv, UploadTypes, SoundAt
<1>2. p \in Finisher /\ p \notin Patcher /\ p \notin Deleter \cup Reaper
  BY <1>1 DEF InPlace, OneClient, Proc
<1>3. /\ UNCHANGED <<row, tail, sess, buf>>
      /\ \/ pc'[p] = "idle" /\ staging' = staging
         \/ pc'[p] = "clear" /\ tail # <<>> /\ staging' = tail
      /\ \A q \in Proc : q # p => pc'[q] = pc[q]
  BY DEF CopyTail, Proceed, UploadInv, UploadTypes
<1>4. RowFine' /\ \A q \in Proc : q # p => SoundAt(q)'
  BY <1>3, OthersSound
<1>5. /\ s.status = "completed" /\ s.offset = s.declared /\ Fine(s, tail) /\ s.up = 0
      /\ s.declared = row.declared /\ (row.status = "active" => row.offset = row.declared)
  BY <1>1, <1>2 DEF Assembles, InPlace
<1>6. ASSUME tail # <<>> PROVE tail = File(0, row.declared)
  <2>1. s.offset \in Nat /\ s.tail \in Nat /\ s.offset # 0 /\ s.tail <= s.offset
    BY <1>1, <1>5 DEF Sessions, Fine
  <2>2. Base(s) \in Nat
    BY <2>1 DEF Base
  <2>3. Base(s) = 0
    <3>1. s.parts = <<>> /\ FlattenSeq(s.parts) = File(0, Base(s))
      BY <1>5 DEF Fine, Spelt
    <3>2. FlattenSeq(<<>>) = <<>>
      BY DEF FlattenSeq
    <3>3. Len(File(0, Base(s))) = Base(s)
      BY <2>2, FileIs
    <3> QED BY <3>1, <3>2, <3>3
  <2>4. s.tail > 0 /\ s.tail = s.declared
    BY <1>5, <2>1, <2>3 DEF Base
  <2>5. tail = File(Base(s), s.tail)
    BY <1>1, <1>5, <1>6, <2>4, RestIsThere
  <2> QED BY <1>5, <2>3, <2>4, <2>5
<1>7. AssembledIsFile'
  BY <1>3, <1>6 DEF UploadInv, AssembledIsFile
<1>8. SoundAt(p)'
  BY <1>1, <1>2, <1>3, <1>5 DEF SoundAt, InPlace, Assembles, ChunkFits, RowWaits
<1> QED BY <1>4, <1>7, <1>8

LEMMA FlushTailStep ==
  ASSUME OneClient, UploadInv, NEW p \in Proc, FlushTail(p)
  PROVE  RowFine' /\ AssembledIsFile' /\ \A q \in Proc : SoundAt(q)'
<1> DEFINE s == sess[p]
<1>1. pc[p] = "flush" /\ InPlace(p) /\ Assembles(p) /\ s \in Sessions
  BY DEF FlushTail, UploadInv, UploadTypes, SoundAt
<1>2. p \in Finisher /\ p \notin Patcher /\ p \notin Deleter \cup Reaper
  BY <1>1 DEF InPlace, OneClient, Proc
<1>3. /\ UNCHANGED <<row, tail, staging, sess>> /\ buf'[p] = tail
      /\ pc'[p] = "idle" \/ (pc'[p] = "part" /\ tail # <<>>)
      /\ \A q \in Proc : q # p => pc'[q] = pc[q] /\ buf'[q] = buf[q]
  BY DEF FlushTail, Proceed, UploadInv, UploadTypes
<1>4. RowFine' /\ AssembledIsFile' /\ \A q \in Proc : q # p => SoundAt(q)'
  BY <1>3, OthersSound DEF UploadInv, AssembledIsFile
<1>5. /\ s.status = "completed" /\ s.offset = s.declared /\ Fine(s, tail) /\ s.tail > 0
      /\ s.declared = row.declared /\ (row.status = "active" => row.offset = row.declared)
  BY <1>1, <1>2 DEF Assembles, InPlace
<1>6. ASSUME tail # <<>> PROVE FlattenSeq(s.parts) \o tail = File(0, s.declared)
  <2>1. /\ tail = File(Base(s), s.tail) /\ Base(s) \in Nat /\ s.tail \in Nat
        /\ Base(s) + s.tail = s.declared
    BY <1>1, <1>5, <1>6, RestIsThere
  <2>2. FlattenSeq(s.parts) = File(0, Base(s))
    BY <1>5 DEF Fine, Spelt
  <2>3. File(0, Base(s)) \o File(0 + Base(s), s.tail) = File(0, Base(s) + s.tail)
    BY <2>1, FileJoins
  <2>4. 0 + Base(s) = Base(s)
    BY <2>1
  <2> QED BY <2>1, <2>2, <2>3, <2>4
<1>7. SoundAt(p)'
  BY <1>1, <1>2, <1>3, <1>5, <1>6 DEF SoundAt, InPlace, Assembles, ChunkFits, RowWaits
<1> QED BY <1>4, <1>7

LEMMA FinishStep ==
  ASSUME OneClient, UploadInv, NEW p \in Proc, Finish(p)
  PROVE  RowFine' /\ AssembledIsFile' /\ \A q \in Proc : SoundAt(q)'
<1> DEFINE s == sess[p]
<1>1. pc[p] = "finish" /\ InPlace(p) /\ Assembles(p)
  BY DEF Finish, UploadInv, SoundAt
<1>2. p \in Finisher /\ p \notin Patcher /\ p \notin Deleter \cup Reaper
  BY <1>1 DEF InPlace, OneClient, Proc
<1>3. /\ UNCHANGED <<row, tail, sess, buf>>
      /\ \/ pc'[p] = "idle" /\ staging' = staging
         \/ pc'[p] \in {"clear", "save"} /\ staging' = FlattenSeq(s.parts)
      /\ \A q \in Proc : q # p => pc'[q] = pc[q]
  BY DEF Finish, Proceed, UploadInv, UploadTypes
<1>4. RowFine' /\ \A q \in Proc : q # p => SoundAt(q)'
  BY <1>3, OthersSound
<1>5. /\ s.status = "completed" /\ s.offset = s.declared /\ Spelt(s, s.declared)
      /\ s.declared = row.declared /\ (row.status = "active" => row.offset = row.declared)
  BY <1>1, <1>2 DEF Assembles, InPlace
<1>6. AssembledIsFile'
  BY <1>3, <1>5 DEF UploadInv, AssembledIsFile, Spelt
<1>7. SoundAt(p)'
  BY <1>1, <1>2, <1>3, <1>5 DEF SoundAt, InPlace, Assembles, ChunkFits, RowWaits
<1> QED BY <1>4, <1>6, <1>7

\* DELETE and the sweep.
Removal(p) ==
  \/ LoadDelete(p) \/ LoadExpired(p) \/ HeadStaging(p)
  \/ AbortUpload(p) \/ DropTail(p) \/ DropStaging(p)

LEMMA RemovalStep ==
  ASSUME OneClient, UploadInv, NEW p \in Proc, Removal(p)
  PROVE  RowFine' /\ AssembledIsFile' /\ \A q \in Proc : SoundAt(q)'
<1> USE DEF Removal
<1>1. InPlace(p)
  BY DEF UploadInv, SoundAt
<1>2. row' = row /\ (tail' = tail \/ tail' = <<>>) /\ (staging' = staging \/ staging' = <<>>)
  BY DEF LoadDelete, LoadExpired, HeadStaging, AbortUpload, DropTail, DropStaging
<1>3. \A q \in Proc : q # p => pc'[q] = pc[q] /\ sess'[q] = sess[q] /\ buf'[q] = buf[q]
  BY DEF LoadDelete, LoadExpired, HeadStaging, AbortUpload, DropTail, DropStaging,
     Proceed, UploadInv, UploadTypes
<1>4. p \in Deleter \cup Reaper
  BY <1>1 DEF LoadDelete, LoadExpired, HeadStaging, AbortUpload, DropTail, DropStaging,
     InPlace, Proc
<1>5. pc'[p] \in {"idle", "head", "abort", "drop", "unstage", "end"}
  BY DEF LoadDelete, LoadExpired, HeadStaging, AbortUpload, DropTail, DropStaging,
     Proceed, TerminateStep, UploadInv, UploadTypes
<1>6. sess'[p].declared = row.declared
  <2>1. CASE LoadDelete(p) \/ LoadExpired(p)
    BY <2>1 DEF LoadDelete, LoadExpired, UploadInv, UploadTypes
  <2>2. CASE HeadStaging(p) \/ AbortUpload(p) \/ DropTail(p) \/ DropStaging(p)
    <3>1. pc[p] # "idle" /\ sess' = sess
      BY <2>2 DEF HeadStaging, AbortUpload, DropTail, DropStaging
    <3> QED BY <1>1, <3>1 DEF InPlace
  <2> QED BY <2>1, <2>2
<1>7. AssembledIsFile'
  BY <1>2 DEF UploadInv, AssembledIsFile
<1> QED BY <1>2, <1>3, <1>4, <1>5, <1>6, <1>7, OthersSound, BystanderSound

LEMMA EndStep ==
  ASSUME OneClient, UploadInv, NEW p \in Proc, EndRemoval(p)
  PROVE  RowFine' /\ AssembledIsFile' /\ \A q \in Proc : SoundAt(q)'
<1>1. pc[p] = "end" /\ InPlace(p)
  BY DEF EndRemoval, UploadInv, SoundAt
<1>2. p \in Deleter \cup Reaper
  BY <1>1 DEF InPlace, Proc
<1>3. row \in Sessions /\ sess[p] \in Sessions /\ sess[p].declared = row.declared
  BY <1>1 DEF InPlace, UploadInv, UploadTypes
<1>4. row'.status # "active" /\ row'.declared = row.declared
  BY <1>2, <1>3 DEF EndRemoval, Sessions
<1>5. /\ UNCHANGED <<tail, staging, sess, buf>> /\ pc'[p] = "idle"
      /\ \A q \in Proc : q # p => pc'[q] = pc[q]
  BY DEF EndRemoval, Proceed, UploadInv, UploadTypes
<1>6. RowFine' /\ AssembledIsFile' /\ SoundAt(p)'
  BY <1>4, <1>5, BystanderSound DEF UploadInv, RowFine, AssembledIsFile
<1>7. ASSUME NEW q \in Proc, q # p PROVE SoundAt(q)'
  BY <1>4, <1>5, <1>7, Undisturbed
<1> QED BY <1>6, <1>7

LEMMA StopStep ==
  ASSUME OneClient, UploadInv, NEW p \in Proc, Stop(p)
  PROVE  RowFine' /\ AssembledIsFile' /\ \A q \in Proc : SoundAt(q)'
<1>1. /\ UNCHANGED <<row, tail, staging, sess, buf>> /\ pc'[p] = "idle"
      /\ \A q \in Proc : q # p => pc'[q] = pc[q]
  BY DEF Stop, Proceed, UploadInv, UploadTypes
<1>2. AssembledIsFile' /\ SoundAt(p)'
  BY <1>1, BystanderSound DEF UploadInv, AssembledIsFile
<1> QED BY <1>1, <1>2, OthersSound

LEMMA UploadStep ==
  ASSUME OneClient, UploadInv, NEW p \in Proc, Act(p) PROVE UploadInv'
<1>1. UploadTypes' /\ AllSent'
  BY UploadTypesStep, AllSentStep DEF UploadInv
<1>2. RowFine' /\ AssembledIsFile' /\ \A q \in Proc : SoundAt(q)'
  BY LoadPatchStep, ReadTailStep, PutTailStep, BeginUploadStep, UploadPartStep, ClearTailStep,
     SaveStep, LoadFinishStep, CopyTailStep, FlushTailStep, FinishStep, RemovalStep, EndStep,
     StopStep DEF Act, Removal
<1> QED BY <1>1, <1>2 DEF UploadInv

LEMMA StagedStays ==
  ASSUME FinalInv, row' = row, staging' = staging,
         \A f \in Finisher : pc'[f] = pc[f] \/ pc'[f] \notin {"clear", "save"} \/ staging # <<>>
  PROVE  Undeleted' /\ HasStaged'
BY DEF FinalInv, Undeleted, HasStaged

LEMMA StillOpen == FinalInv /\ staging = <<>> => row.status = "active" /\ row \in Sessions
BY DEF FinalInv, Undeleted, HasStaged, UploadInv, UploadTypes, Sessions

\* What a step leaves alone that changes neither the row nor an object.
LEMMA KeptOthers ==
  ASSUME FinalInv, NEW p \in Proc, UNCHANGED <<row, tail, begun, staging>>,
         \A q \in Proc : q # p => pc'[q] = pc[q] /\ sess'[q] = sess[q] /\ buf'[q] = buf[q],
         staging = <<>> => PatchKeeps(p)' /\ FinishKeeps(p)'
  PROVE  Kept'
<1> SUFFICES ASSUME staging = <<>>
             PROVE  Holding'
  BY DEF Kept, Holding
<1>1. AllOpen /\ PartsHeld(row) /\ TailKept /\ \A q \in Proc : PatchKeeps(q) /\ FinishKeeps(q)
  BY DEF FinalInv, Kept, Holding
<1>2. AllOpen' /\ PartsHeld(row)' /\ TailKept'
  BY <1>1 DEF AllOpen, PartsHeld, TailKept, Moved, Base
<1>3. ASSUME NEW q \in Proc, q # p PROVE PatchKeeps(q)' /\ FinishKeeps(q)'
  BY SMTT(60), <1>1, <1>3 DEF PatchKeeps, FinishKeeps, PartsHeld
<1> QED BY <1>2, <1>3 DEF Holding

LEMMA StopKept ==
  ASSUME OneClient, FinalInv, NEW p \in Proc, UNCHANGED <<row, tail, begun, staging>>,
         pc'[p] = "idle",
         \A q \in Proc : q # p => pc'[q] = pc[q] /\ sess'[q] = sess[q] /\ buf'[q] = buf[q]
  PROVE  Undeleted' /\ HasStaged' /\ Kept'
<1>1. PatchKeeps(p)' /\ FinishKeeps(p)'
  BY DEF PatchKeeps, FinishKeeps
<1>2. Undeleted' /\ HasStaged'
  BY StagedStays DEF Proc
<1> QED BY <1>1, <1>2, KeptOthers

LEMMA LoadPatchKept ==
  ASSUME OneClient, FinalInv, NEW p \in Proc, NEW n \in 0..Size, LoadPatch(p, n)
  PROVE  Undeleted' /\ HasStaged' /\ Kept'
<1> DEFINE s == [row EXCEPT !.offset = @ + n]
           b == File(row.offset, n)
<1>1. p \in Patcher /\ p \notin Finisher
  BY DEF LoadPatch, OneClient
<1>2. /\ sess'[p] = s /\ UNCHANGED <<row, tail, begun, staging>>
      /\ pc'[p] = IF n = 0 THEN "save" ELSE IF row.tail > 0 THEN "read" ELSE StoreStep(row, b)
      /\ \A q \in Proc : q # p => pc'[q] = pc[q] /\ sess'[q] = sess[q] /\ buf'[q] = buf[q]
  BY DEF LoadPatch, Proceed, FinalInv, UploadInv, UploadTypes
<1>3. Undeleted' /\ HasStaged'
  BY <1>1, <1>2, StagedStays DEF Proc
<1>4. ASSUME staging = <<>> PROVE PatchKeeps(p)' /\ FinishKeeps(p)'
  <2>1. row \in Sessions /\ PartsHeld(row)
    BY <1>4, StillOpen DEF FinalInv, Kept, Holding
  <2>2. s.up = row.up /\ s.parts = row.parts /\ s.tail = row.tail /\ (n = 0 => s = row)
    BY <2>1 DEF Sessions
  <2>3. StoreStep(row, b) \in {"put", "begin", "part"}
    BY DEF StoreStep
  <2> HIDE DEF s, b
  <2>4. PartsHeld(sess[p])'
    BY <1>2, <2>1, <2>2 DEF PartsHeld
  <2>5. PatchKeeps(p)'
    BY <1>2, <2>1, <2>2, <2>3, <2>4 DEF PatchKeeps, Loaded, PartsHeld
  <2> QED BY <1>1, <2>5 DEF FinishKeeps
<1> QED BY <1>2, <1>3, <1>4, KeptOthers

LEMMA ReadTailKept ==
  ASSUME OneClient, FinalInv, NEW p \in Proc, ReadTail(p)
  PROVE  Undeleted' /\ HasStaged' /\ Kept'
<1>1. pc[p] = "read" /\ InPlace(p) /\ ChunkFits(p) /\ tail \in Seq(Nat)
  BY DEF ReadTail, FinalInv, UploadInv, UploadTypes, SoundAt
<1>2. p \in Patcher /\ p \notin Finisher
  BY <1>1 DEF InPlace, OneClient, Proc
<1>3. /\ UNCHANGED <<row, tail, begun, staging, sess>>
      /\ pc'[p] = "idle" \/ (TailAgrees(sess[p]) /\ pc'[p] \in {"put", "begin", "part"})
      /\ \A q \in Proc : q # p => pc'[q] = pc[q] /\ buf'[q] = buf[q]
  BY DEF ReadTail, StoreStep, Proceed, FinalInv, UploadInv, UploadTypes
<1>4. CASE pc'[p] = "idle"
  BY <1>3, <1>4, StopKept
<1>5. CASE TailAgrees(sess[p]) /\ pc'[p] \in {"put", "begin", "part"}
  <2>1. Undeleted' /\ HasStaged'
    BY <1>2, <1>3, StagedStays DEF Proc
  <2>2. tail # <<>>
    BY <1>1, <1>2, <1>5 DEF TailAgrees, ChunkFits
  <2>3. ASSUME staging = <<>> PROVE PatchKeeps(p)' /\ FinishKeeps(p)'
    <3>1. PatchKeeps(p)
      BY <2>3 DEF FinalInv, Kept, Holding
    <3> QED BY <1>1, <1>2, <1>3, <1>5, <2>2, <3>1 DEF PatchKeeps, FinishKeeps, PartsHeld, Loaded
  <2> QED BY <1>3, <2>1, <2>3, KeptOthers
<1> QED BY <1>3, <1>4, <1>5

\* A PATCH at a step where it has something in hand is alone.
LEMMA PatchAlone ==
  ASSUME OneClient, UploadInv, NEW p \in Patcher, pc[p] # "idle", pc[p] # "save",
         NEW q \in Proc, q # p
  PROVE  q \notin Patcher /\ (q \in Finisher => pc[q] = "idle")
BY DEF OneClient, UploadInv, AllSent

LEMMA PutTailKept ==
  ASSUME OneClient, FinalInv, NEW p \in Proc, PutTail(p)
  PROVE  Undeleted' /\ HasStaged' /\ Kept'
<1> DEFINE s == sess[p]
<1>1. /\ pc[p] = "put" /\ InPlace(p) /\ ChunkFits(p) /\ s \in Sessions /\ buf[p] \in Seq(Nat)
  BY DEF PutTail, FinalInv, UploadInv, UploadTypes, SoundAt
<1>2. p \in Patcher /\ p \notin Finisher
  BY <1>1 DEF InPlace, OneClient, Proc
<1>3. /\ UNCHANGED <<row, begun, staging>> /\ tail' = buf[p] /\ pc'[p] = "save"
      /\ sess'[p] = [s EXCEPT !.tail = Len(buf[p])]
      /\ \A q \in Proc : q # p => pc'[q] = pc[q] /\ sess'[q] = sess[q] /\ buf'[q] = buf[q]
  BY DEF PutTail, Proceed, FinalInv, UploadInv, UploadTypes
<1>4. Undeleted' /\ HasStaged'
  BY <1>2, <1>3, StagedStays DEF Proc
<1>5. tail' # <<>>
  <2>1. Len(buf[p]) > s.tail /\ s.tail \in Nat /\ Len(buf[p]) \in Nat
    BY <1>1, <1>2 DEF ChunkFits, Filled, Sessions
  <2> QED BY <1>3, <2>1
<1>6. ASSUME staging = <<>> PROVE Holding'
  <2>1. AllOpen /\ PartsHeld(row) /\ PatchKeeps(p)
    BY <1>6 DEF FinalInv, Kept, Holding
  <2>2. sess'[p].up = s.up /\ sess'[p].parts = s.parts
    BY <1>1, <1>3 DEF Sessions
  <2>3. PatchKeeps(p)' /\ FinishKeeps(p)'
    BY <1>1, <1>2, <1>3, <1>5, <2>1, <2>2 DEF PatchKeeps, FinishKeeps, PartsHeld, Loaded
  <2>4. ASSUME NEW q \in Proc, q # p PROVE PatchKeeps(q)' /\ FinishKeeps(q)'
    <3>1. q \notin Patcher /\ (q \in Finisher => pc'[q] = "idle")
      BY <1>1, <1>2, <1>3, <2>4, PatchAlone DEF FinalInv
    <3> QED BY <3>1 DEF PatchKeeps, FinishKeeps
  <2>5. AllOpen' /\ PartsHeld(row)' /\ TailKept'
    BY <1>3, <1>5, <2>1 DEF AllOpen, PartsHeld, TailKept
  <2> QED BY <2>3, <2>4, <2>5 DEF Holding
<1> QED BY <1>3, <1>4, <1>6 DEF Kept, Holding

LEMMA BeginUploadKept ==
  ASSUME OneClient, FinalInv, NEW p \in Proc, BeginUpload(p)
  PROVE  Undeleted' /\ HasStaged' /\ Kept'
<1> DEFINE s == sess[p]
           m == Len(begun)
<1>1. /\ pc[p] = "begin" /\ InPlace(p) /\ ChunkFits(p) /\ s \in Sessions
      /\ begun \in Seq(Uploads) /\ m \in Nat
  BY DEF BeginUpload, FinalInv, UploadInv, UploadTypes, SoundAt
<1>2. p \in Patcher /\ p \notin Finisher /\ s.up = 0 /\ s.parts = <<>>
  BY <1>1 DEF InPlace, ChunkFits, OneClient, Proc
<1>3. /\ UNCHANGED <<row, tail, staging>> /\ pc'[p] = "part"
      /\ begun' = Append(begun, [open |-> TRUE, parts |-> <<>>])
      /\ sess'[p] = [s EXCEPT !.up = m + 1]
      /\ \A q \in Proc : q # p => pc'[q] = pc[q] /\ sess'[q] = sess[q] /\ buf'[q] = buf[q]
  BY DEF BeginUpload, Proceed, FinalInv, UploadInv, UploadTypes
<1>4. Undeleted' /\ HasStaged'
  BY <1>2, <1>3, StagedStays DEF Proc
<1>5. /\ DOMAIN begun = 1..m /\ DOMAIN begun' = 1..(m + 1)
      /\ \A u \in 1..m : begun'[u] = begun[u]
      /\ begun'[m + 1] = [open |-> TRUE, parts |-> <<>>]
  BY <1>1, <1>3
<1>6. ASSUME staging = <<>> PROVE Holding'
  <2>1. AllOpen /\ PartsHeld(row) /\ TailKept /\ PatchKeeps(p) /\ \A q \in Proc : FinishKeeps(q)
    BY <1>6 DEF FinalInv, Kept, Holding
  <2>2. sess'[p].up = m + 1 /\ sess'[p].parts = <<>> /\ sess'[p].tail = s.tail
    BY <1>1, <1>2, <1>3 DEF Sessions
  <2>3. AllOpen'
    BY <1>1, <1>5, <2>1 DEF AllOpen
  <2>4. PartsHeld(row)'
    BY <1>1, <1>3, <1>5, <2>1 DEF PartsHeld
  <2>5. TailKept'
    BY <1>1, <1>3, <1>5, <2>1 DEF TailKept, Moved, Base
  <2>6. /\ s.parts = row.parts /\ s.tail = row.tail /\ s.up = row.up
        /\ row.tail > 0 => tail # <<>>
    BY <1>1, <1>2, <2>1 DEF PatchKeeps, Loaded
  <2>7. PartsHeld(sess[p])'
    <3>1. m + 1 \in DOMAIN begun' /\ Len(sess'[p].parts) = 0 /\ Len(begun'[m + 1].parts) = 0
      BY <1>1, <1>5, <2>2
    <3> QED BY <2>2, <3>1 DEF PartsHeld
  <2>8. PatchKeeps(p)'
    BY <1>2, <1>3, <2>2, <2>6, <2>7 DEF PatchKeeps
  <2>9. FinishKeeps(p)'
    BY <1>2 DEF FinishKeeps
  <2>10. ASSUME NEW q \in Proc, q # p PROVE PatchKeeps(q)' /\ FinishKeeps(q)'
    <3>1. q \notin Patcher /\ (q \in Finisher => pc'[q] = "idle")
      BY <1>1, <1>2, <1>3, <2>10, PatchAlone DEF FinalInv
    <3> QED BY <3>1 DEF PatchKeeps, FinishKeeps
  <2> QED BY <2>3, <2>4, <2>5, <2>8, <2>9, <2>10 DEF Holding
<1> QED BY <1>3, <1>4, <1>6 DEF Kept, Holding

\* A number within a list is replaced, the next one appended.
LEMMA PutPart ==
  ASSUME NEW ss \in Seq(Seq(Nat)), NEW x \in Seq(Nat), NEW k \in Nat, k <= Len(ss), NEW tt,
         tt = IF k + 1 <= Len(ss) THEN [ss EXCEPT ![k + 1] = x] ELSE Append(ss, x)
  PROVE  /\ Len(ss) <= Len(tt) /\ k + 1 <= Len(tt) /\ tt[k + 1] = x
         /\ \A i \in 1..k : tt[i] = ss[i]
<1>1. Len(ss) \in Nat /\ k + 1 \in 1..(Len(ss) + 1)
  OBVIOUS
<1>2. CASE k + 1 <= Len(ss)
  BY <1>1, <1>2
<1>3. CASE ~ (k + 1 <= Len(ss))
  <2>1. k = Len(ss) /\ tt = Append(ss, x)
    BY <1>1, <1>3
  <2> QED BY <1>1, <2>1
<1> QED BY <1>2, <1>3

LEMMA Appended ==
  ASSUME NEW ss \in Seq(Seq(Nat)), NEW x \in Seq(Nat)
  PROVE  LET tt == Append(ss, x) IN
         /\ Len(tt) = Len(ss) + 1 /\ tt # <<>> /\ tt[Len(ss) + 1] = x
         /\ \A i \in 1..Len(ss) : tt[i] = ss[i]
<1> DEFINE tt == Append(ss, x)
<1>1. /\ Len(tt) = Len(ss) + 1 /\ Len(ss) \in Nat /\ tt[Len(ss) + 1] = x
      /\ \A i \in 1..Len(ss) : tt[i] = ss[i]
  OBVIOUS
<1>2. tt # <<>>
  <2>1. Len(tt) # 0 /\ Len(<<>>) = 0
    BY <1>1
  <2> HIDE DEF tt
  <2> QED BY <2>1
<1> QED BY <1>1, <1>2

\* What an uploaded part does to the uploads.
LEMMA PartLands ==
  ASSUME FinalInv, AllOpen, NEW p \in Proc, UploadPart(p), PartsHeld(sess[p]), sess[p].up # 0
  PROVE  LET s == sess[p]
             n == Len(s.parts)
         IN
         /\ pc'[p] = IF p \in Finisher THEN "finish" ELSE IF s.tail > 0 THEN "clear" ELSE "save"
         /\ sess'[p] = [s EXCEPT !.parts = Append(@, buf[p])]
         /\ n \in Nat /\ s.up \in DOMAIN begun /\ DOMAIN begun' = DOMAIN begun /\ AllOpen'
         /\ \A u \in DOMAIN begun : u # s.up => begun'[u] = begun[u]
         /\ n + 1 <= Len(begun'[s.up].parts) /\ begun'[s.up].parts[n + 1] = buf[p]
         /\ \A i \in 1..n : begun'[s.up].parts[i] = begun[s.up].parts[i]
<1> DEFINE s == sess[p]
           n == Len(s.parts)
           old == begun[s.up].parts
           new == IF n + 1 <= Len(old) THEN [old EXCEPT ![n + 1] = buf[p]] ELSE Append(old, buf[p])
<1>1. /\ begun \in Seq(Uploads) /\ s \in Sessions /\ buf[p] \in Seq(Nat)
      /\ DOMAIN pc = Proc /\ sess \in [Proc -> Sessions]
  BY DEF FinalInv, UploadInv, UploadTypes
<1>2. s.up \in DOMAIN begun /\ n <= Len(old) /\ begun[s.up].open
  BY DEF PartsHeld, AllOpen
<1>3. begun[s.up] \in Uploads /\ n \in Nat
  BY <1>1, <1>2 DEF Sessions
<1>4. old \in Seq(Seq(Nat))
  BY <1>3 DEF Uploads
<1>5. /\ begun' = [begun EXCEPT ![s.up].parts = new]
      /\ sess'[p] = [s EXCEPT !.parts = Append(@, buf[p])]
      /\ pc'[p] = IF p \in Finisher THEN "finish" ELSE IF s.tail > 0 THEN "clear" ELSE "save"
  BY <1>1, <1>2 DEF UploadPart, Proceed
<1> HIDE DEF new
<1>6. /\ DOMAIN begun' = DOMAIN begun /\ begun'[s.up] = [begun[s.up] EXCEPT !.parts = new]
      /\ \A u \in DOMAIN begun : u # s.up => begun'[u] = begun[u]
  <2> HIDE DEF s
  <2> QED BY <1>1, <1>2, <1>5
<1>7. begun'[s.up].parts = new /\ begun'[s.up].open = begun[s.up].open
  BY <1>3, <1>6 DEF Uploads
<1>8. AllOpen'
  BY <1>2, <1>6, <1>7 DEF AllOpen
<1>9. n + 1 <= Len(new) /\ new[n + 1] = buf[p] /\ \A i \in 1..n : new[i] = old[i]
  <2> HIDE DEF n, old
  <2> QED BY <1>1, <1>2, <1>3, <1>4, PutPart DEF new
<1> QED BY ZenonT(60), <1>2, <1>3, <1>5, <1>6, <1>7, <1>8, <1>9

\* Parts that are named are not replaced.
LEMMA HeldAlong ==
  ASSUME FinalInv, AllOpen, NEW p \in Proc, UploadPart(p), PartsHeld(sess[p]), sess[p].up # 0,
         NEW r \in Sessions, PartsHeld(r), r.up # 0 => r.up = sess[p].up /\ r.parts = sess[p].parts
  PROVE  r.up # 0 =>
           /\ r.up \in DOMAIN begun'
           /\ Len(r.parts) <= Len(begun'[r.up].parts)
           /\ \A i \in 1..Len(r.parts) : begun'[r.up].parts[i] = r.parts[i]
<1> SUFFICES ASSUME r.up # 0
             PROVE  /\ r.up \in DOMAIN begun'
                    /\ Len(r.parts) <= Len(begun'[r.up].parts)
                    /\ \A i \in 1..Len(r.parts) : begun'[r.up].parts[i] = r.parts[i]
  OBVIOUS
<1> DEFINE m == Len(begun'[r.up].parts)
<1>1. /\ Len(r.parts) \in Nat /\ r.up \in DOMAIN begun' /\ Len(r.parts) + 1 <= m
      /\ \A i \in 1..Len(r.parts) : begun'[r.up].parts[i] = begun[r.up].parts[i]
  <2>1. r.up = sess[p].up /\ r.parts = sess[p].parts
    OBVIOUS
  <2>2. /\ Len(sess[p].parts) \in Nat /\ sess[p].up \in DOMAIN begun'
        /\ Len(sess[p].parts) + 1 <= Len(begun'[sess[p].up].parts)
        /\ \A i \in 1..Len(sess[p].parts) :
             begun'[sess[p].up].parts[i] = begun[sess[p].up].parts[i]
    BY PartLands
  <2> QED BY <2>1, <2>2
<1>2. \A i \in 1..Len(r.parts) : begun[r.up].parts[i] = r.parts[i]
  BY DEF PartsHeld
<1>3. m \in Nat
  <2>1. begun' \in Seq(Uploads)
    BY UploadTypesStep DEF FinalInv, UploadInv, Act, UploadTypes
  <2>2. begun'[r.up] \in Uploads
    BY <1>1, <2>1
  <2> QED BY <2>2 DEF Uploads
<1> HIDE DEF m
<1>4. Len(r.parts) <= m
  BY <1>1, <1>3
<1> QED BY <1>1, <1>2, <1>4 DEF m

LEMMA PatchPartKept ==
  ASSUME OneClient, FinalInv, NEW p \in Proc, p \in Patcher, UploadPart(p)
  PROVE  Undeleted' /\ HasStaged' /\ Kept'
<1> DEFINE s == sess[p]
<1>1. /\ pc[p] = "part" /\ ChunkFits(p) /\ s \in Sessions /\ buf[p] \in Seq(Nat)
      /\ p \notin Finisher
  BY DEF UploadPart, FinalInv, UploadInv, UploadTypes, SoundAt, OneClient
<1>2. s.up # 0
  BY <1>1 DEF ChunkFits
<1>3. /\ UNCHANGED <<row, tail, staging>>
      /\ \A q \in Proc : q # p => pc'[q] = pc[q] /\ sess'[q] = sess[q] /\ buf'[q] = buf[q]
      /\ buf'[p] = buf[p]
  BY DEF UploadPart, Proceed, FinalInv, UploadInv, UploadTypes
<1>4. Undeleted' /\ HasStaged'
  BY <1>1, <1>3, StagedStays DEF Proc
<1>5. ASSUME staging = <<>> PROVE Holding'
  <2>1. AllOpen /\ PartsHeld(row) /\ PatchKeeps(p) /\ row \in Sessions
    BY <1>5, StillOpen DEF FinalInv, Kept, Holding
  <2>2. /\ PartsHeld(s) /\ s.parts = row.parts /\ s.tail = row.tail /\ (s.up = row.up \/ row.up = 0)
        /\ row.tail > 0 => tail # <<>>
    BY <1>1, <2>1 DEF PatchKeeps, Loaded
  <2>3. PartsHeld(row)'
    <3>1. row.up # 0 =>
           /\ row.up \in DOMAIN begun'
           /\ Len(row.parts) <= Len(begun'[row.up].parts)
           /\ \A i \in 1..Len(row.parts) : begun'[row.up].parts[i] = row.parts[i]
      BY <1>2, <2>1, <2>2, HeldAlong
    <3> QED BY <1>3, <3>1 DEF PartsHeld
  <2>4. AllOpen' /\ TailKept'
    BY <1>2, <1>3, <2>1, <2>2, PartLands DEF TailKept
  <2> DEFINE n == Len(s.parts)
  <2>5. /\ n \in Nat /\ n + 1 <= Len(begun'[s.up].parts) /\ begun'[s.up].parts[n + 1] = buf[p]
        /\ \A i \in 1..n : begun'[s.up].parts[i] = s.parts[i]
        /\ s.up \in DOMAIN begun' /\ sess'[p] = [s EXCEPT !.parts = Append(@, buf[p])]
        /\ pc'[p] = IF s.tail > 0 THEN "clear" ELSE "save"
    <3>1. \A i \in 1..n : begun[s.up].parts[i] = s.parts[i]
      BY <1>2, <2>2 DEF PartsHeld
    <3> QED BY ZenonT(60), <1>1, <1>2, <2>1, <2>2, <3>1, PartLands
  <2>6. /\ sess'[p].up = s.up /\ sess'[p].tail = s.tail /\ sess'[p].parts = Append(s.parts, buf[p])
        /\ Len(sess'[p].parts) = n + 1 /\ sess'[p].parts # <<>> /\ sess'[p].parts[n + 1] = buf[p]
        /\ \A i \in 1..n : sess'[p].parts[i] = s.parts[i]
    <3>1. s.parts \in Seq(Seq(Nat))
      BY <1>1 DEF Sessions
    <3>2. sess'[p].up = s.up /\ sess'[p].tail = s.tail /\ sess'[p].parts = Append(s.parts, buf[p])
      BY <1>1, <2>5 DEF Sessions
    <3>3. LET tt == Append(s.parts, buf[p]) IN
            /\ Len(tt) = n + 1 /\ tt # <<>> /\ tt[n + 1] = buf[p]
            /\ \A i \in 1..n : tt[i] = s.parts[i]
      BY <1>1, <3>1, Appended
    <3> QED BY <3>2, <3>3
  <2> HIDE DEF s, n
  <2>7. PartsHeld(sess[p])'
    <3>1. \A i \in 1..(n + 1) : begun'[s.up].parts[i] = sess'[p].parts[i]
      BY <2>5, <2>6
    <3> QED BY <2>5, <2>6, <3>1 DEF PartsHeld
  <2>8. PatchKeeps(p)'
    BY <1>3, <2>5, <2>6, <2>7 DEF PatchKeeps, Loaded
  <2>9. ASSUME NEW q \in Proc, q # p PROVE PatchKeeps(q)' /\ FinishKeeps(q)'
    <3>1. q \notin Patcher /\ (q \in Finisher => pc'[q] = "idle")
      BY <1>1, <1>3, <2>9, PatchAlone DEF FinalInv
    <3> QED BY <3>1 DEF PatchKeeps, FinishKeeps
  <2> QED BY <1>1, <2>3, <2>4, <2>8, <2>9 DEF FinishKeeps, Holding
<1> QED BY <1>3, <1>4, <1>5 DEF Kept, Holding

\* A PATCH beside a finalisation has nothing to save.
LEMMA NothingToSave ==
  ASSUME OneClient, UploadInv, row.status = "active", NEW f \in Finisher, pc[f] # "idle",
         NEW q \in Patcher, pc[q] # "idle"
  PROVE  pc[q] = "save" /\ sess[q] = row
<1>1. /\ pc[q] = "save" /\ sess[q].offset = sess[q].declared
      /\ q \in Proc /\ f \in Proc
  BY DEF UploadInv, AllSent, Proc
<1>2. /\ row.offset < sess[q].offset \/ sess[q] = row
      /\ row.offset = row.declared /\ sess[q].declared = row.declared
  BY <1>1 DEF UploadInv, SoundAt, RowWaits, Assembles, InPlace
<1>3. row.offset \in Nat
  BY DEF UploadInv, UploadTypes, Sessions
<1> QED BY <1>1, <1>2, <1>3

LEMMA FinishPartKept ==
  ASSUME OneClient, FinalInv, NEW p \in Proc, p \in Finisher, UploadPart(p)
  PROVE  Undeleted' /\ HasStaged' /\ Kept'
<1> DEFINE s == sess[p]
<1>1. /\ pc[p] = "part" /\ s \in Sessions /\ p \notin Patcher /\ begun \in Seq(Uploads)
  BY DEF UploadPart, FinalInv, UploadInv, UploadTypes, OneClient
<1>2. /\ UNCHANGED <<row, tail, staging>> /\ pc'[p] \in {"idle", "finish"}
      /\ \A q \in Proc : q # p => pc'[q] = pc[q] /\ sess'[q] = sess[q] /\ buf'[q] = buf[q]
  BY DEF UploadPart, Proceed, FinalInv, UploadInv, UploadTypes
<1>3. Undeleted' /\ HasStaged'
  BY <1>2, StagedStays DEF Proc
<1>4. PatchKeeps(p)' /\ FinishKeeps(p)'
  BY <1>1, <1>2 DEF PatchKeeps, FinishKeeps
<1>5. CASE s.up = 0
  <2>1. 0 \notin DOMAIN begun
    BY <1>1
  <2>2. begun' = begun
    BY <1>1, <1>5, <2>1 DEF UploadPart
  <2> QED BY <1>2, <1>3, <1>4, <2>2, KeptOthers
<1>6. CASE s.up # 0
  <2> SUFFICES ASSUME staging = <<>>
               PROVE  Holding'
    BY <1>2, <1>3 DEF Kept, Holding
  <2>1. /\ AllOpen /\ PartsHeld(row) /\ row \in Sessions /\ row.status = "active"
        /\ \A q \in Proc : FinishKeeps(q)
    BY StillOpen DEF FinalInv, Kept, Holding
  <2>2. s.parts = row.parts /\ s.up = row.up /\ tail # <<>>
    BY <1>1, <2>1 DEF FinishKeeps
  <2>3. PartsHeld(s)
    BY <2>1, <2>2 DEF PartsHeld
  <2>4. /\ row.up # 0 =>
           /\ row.up \in DOMAIN begun'
           /\ Len(row.parts) <= Len(begun'[row.up].parts)
           /\ \A i \in 1..Len(row.parts) : begun'[row.up].parts[i] = row.parts[i]
        /\ AllOpen'
    BY ZenonT(60), <1>6, <2>1, <2>2, <2>3, HeldAlong, PartLands
  <2>5. PartsHeld(row)' /\ TailKept'
    BY <1>2, <2>2, <2>4 DEF PartsHeld, TailKept
  <2>6. ASSUME NEW q \in Proc, q # p PROVE PatchKeeps(q)' /\ FinishKeeps(q)'
    <3>1. FinishKeeps(q)'
      BY <1>2, <2>1, <2>6 DEF FinishKeeps
    <3>2. CASE q \in Patcher /\ pc[q] # "idle"
      <4>1. pc'[q] = "save" /\ sess'[q] = row'
        BY <1>1, <1>2, <2>1, <2>6, <3>2, NothingToSave DEF FinalInv
      <4>2. PartsHeld(sess[q])'
        BY <2>5, <4>1 DEF PartsHeld
      <4> QED BY <3>1, <4>1, <4>2 DEF PatchKeeps, Loaded
    <3>3. CASE ~ (q \in Patcher /\ pc[q] # "idle")
      BY <1>2, <2>6, <3>1, <3>3 DEF PatchKeeps
    <3> QED BY <3>2, <3>3
  <2> QED BY <1>4, <2>4, <2>5, <2>6 DEF Holding
<1> QED BY <1>5, <1>6

LEMMA ClearTailKept ==
  ASSUME OneClient, FinalInv, NEW p \in Proc, ClearTail(p)
  PROVE  Undeleted' /\ HasStaged' /\ Kept'
<1> DEFINE s == sess[p]
           b == buf[p]
           n == Len(b)
<1>1. /\ pc[p] = "clear" /\ InPlace(p) /\ ChunkFits(p) /\ RowWaits(p) /\ s \in Sessions
      /\ b \in Seq(Nat) /\ n \in Nat
  BY DEF ClearTail, FinalInv, UploadInv, UploadTypes, SoundAt
<1>2. /\ UNCHANGED <<row, begun, staging>> /\ tail' = <<>> /\ pc'[p] = "save"
      /\ sess'[p] = [s EXCEPT !.tail = 0]
      /\ \A q \in Proc : q # p => pc'[q] = pc[q] /\ sess'[q] = sess[q] /\ buf'[q] = buf[q]
  BY DEF ClearTail, Proceed, FinalInv, UploadInv, UploadTypes
<1>3. p \in Finisher => staging # <<>>
  BY <1>1 DEF FinalInv, HasStaged
<1>4. Undeleted' /\ HasStaged'
  BY <1>2, <1>3, StagedStays DEF Proc
<1>5. ASSUME staging = <<>>
      PROVE  Holding'
  <2>1. /\ AllOpen /\ PartsHeld(row) /\ PatchKeeps(p) /\ row \in Sessions /\ row.status = "active"
    BY <1>5, StillOpen DEF FinalInv, Kept, Holding
  <2>2. p \in Patcher /\ p \notin Finisher
    BY <1>1, <1>3, <1>5 DEF InPlace, Proc
  <2>3. /\ PartsHeld(s) /\ s.parts # <<>> /\ begun[s.up].parts[Len(s.parts)] = b
    BY <1>1, <2>1, <2>2 DEF PatchKeeps
  <2>4. /\ s.up # 0 /\ n <= s.offset /\ b = File(s.offset - n, n)
        /\ row.offset < s.offset /\ Base(row) = s.offset - n /\ s.offset \in Nat /\ row.offset \in Nat
        /\ s.parts \in Seq(Seq(Nat))
    BY <1>1, <2>1, <2>2 DEF ChunkFits, RowWaits, Filled, Sessions
  <2>5. (Base(row) + 1)..row.offset \subseteq ToSet(b)
    <3> DEFINE c == s.offset - n
    <3>1. c \in Nat /\ c + n = s.offset
      BY <1>1, <2>4
    <3>2. ToSet(File(c, n)) = (c + 1)..(c + n)
      <4> HIDE DEF c, n
      <4> QED BY <1>1, <3>1, FileIs
    <3>3. (c + 1)..row.offset \subseteq (c + 1)..(c + n)
      BY <2>4, <3>1
    <3> QED BY <2>4, <3>2, <3>3
  <2>6. Moved'
    <3> DEFINE u == s.up
               j == Len(s.parts)
    <3>1. u \in DOMAIN begun /\ j \in 1..Len(begun[u].parts)
      <4>1. j \in Nat \ {0} /\ begun \in Seq(Uploads)
        BY <2>3, <2>4 DEF FinalInv, UploadInv, UploadTypes
      <4>2. u \in DOMAIN begun /\ j <= Len(begun[u].parts)
        BY <2>3, <2>4 DEF PartsHeld
      <4>3. begun[u] \in Uploads
        BY <4>1, <4>2
      <4>4. Len(begun[u].parts) \in Nat
        BY <4>3 DEF Uploads
      <4> QED BY <4>1, <4>2, <4>4
    <3>2. begun[u] \in Uploads
      BY <3>1 DEF FinalInv, UploadInv, UploadTypes
    <3>3. j \in DOMAIN begun[u].parts
      BY <3>1, <3>2 DEF Uploads
    <3>4. begun[u].parts[j] = b
      BY <2>3
    <3> QED BY <1>2, <2>5, <3>1, <3>3, <3>4 DEF Moved, Base
  <2>7. AllOpen' /\ PartsHeld(row)' /\ TailKept'
    BY <1>2, <2>1, <2>6 DEF AllOpen, PartsHeld, TailKept
  <2>8. sess'[p].tail = 0 /\ sess'[p].up = s.up /\ sess'[p].parts = s.parts
    BY <1>1, <1>2 DEF Sessions
  <2>9. PatchKeeps(p)' /\ FinishKeeps(p)'
    BY <1>2, <2>2, <2>3, <2>8 DEF PatchKeeps, FinishKeeps, PartsHeld, Loaded
  <2>10. ASSUME NEW q \in Proc, q # p PROVE PatchKeeps(q)' /\ FinishKeeps(q)'
    <3>1. q \notin Patcher /\ (q \in Finisher => pc'[q] = "idle")
      BY <1>1, <1>2, <2>2, <2>10, PatchAlone DEF FinalInv
    <3> QED BY <3>1 DEF PatchKeeps, FinishKeeps
  <2> QED BY <2>7, <2>9, <2>10 DEF Holding
<1> QED BY <1>2, <1>4, <1>5 DEF Kept, Holding

LEMMA SaveKept ==
  ASSUME OneClient, FinalInv, NEW p \in Proc, Save(p)
  PROVE  Undeleted' /\ HasStaged' /\ Kept'
<1>1. /\ pc[p] = "save" /\ InPlace(p) /\ ChunkFits(p) /\ Assembles(p)
  BY DEF Save, FinalInv, UploadInv, SoundAt
<1>2. /\ UNCHANGED <<tail, begun, staging, sess, buf>> /\ row' = sess[p] /\ pc'[p] = "idle"
      /\ \A q \in Proc : q # p => pc'[q] = pc[q]
  BY DEF Save, Proceed, FinalInv, UploadInv, UploadTypes
<1>3. \A f \in Finisher : pc'[f] = pc[f] \/ pc'[f] = "idle"
  BY <1>2 DEF Proc
<1>4. CASE p \in Finisher
  <2>1. staging # <<>> /\ row'.status = "completed" /\ row'.offset = row'.declared
    BY <1>1, <1>2, <1>4 DEF FinalInv, HasStaged, Assembles
  <2> QED BY <1>2, <2>1 DEF Undeleted, HasStaged, Kept, Holding
<1>5. CASE p \in Patcher
  <2>1. row'.status = "active"
    BY <1>1, <1>2, <1>5 DEF ChunkFits
  <2>2. Undeleted' /\ HasStaged'
    BY <1>2, <1>3, <2>1 DEF Undeleted, HasStaged, FinalInv
  <2>3. ASSUME staging = <<>>
        PROVE  Holding'
    <3>1. /\ AllOpen /\ TailKept /\ row.status = "active"
          /\ \A q \in Proc : PatchKeeps(q) /\ FinishKeeps(q)
      BY <2>3, StillOpen DEF FinalInv, Kept, Holding
    <3>2. PartsHeld(sess[p]) /\ (sess[p] = row \/ (sess[p].tail > 0 => tail # <<>>))
      BY <1>1, <1>5, <3>1 DEF PatchKeeps
    <3>3. AllOpen' /\ PartsHeld(row)'
      BY <1>2, <3>1, <3>2 DEF AllOpen, PartsHeld
    <3>4. TailKept'
      BY <1>2, <3>1, <3>2 DEF TailKept, Moved, Base
    <3>5. ASSUME NEW q \in Proc PROVE PatchKeeps(q)'
      <4>1. q \in Patcher => q = p
        BY <1>5 DEF OneClient
      <4> QED BY <1>2, <4>1 DEF PatchKeeps
    <3>6. ASSUME NEW q \in Proc PROVE FinishKeeps(q)'
      <4>1. CASE q \in Finisher /\ pc'[q] # "idle"
        <5>1. q # p /\ pc[q] # "idle" /\ pc'[q] = pc[q]
          BY <1>2, <4>1
        <5>2. sess[p] = row
          BY <1>1, <1>5, <3>1, <4>1, <5>1, NothingToSave DEF FinalInv
        <5> QED BY <1>2, <3>1, <5>1, <5>2 DEF FinishKeeps
      <4>2. CASE ~ (q \in Finisher /\ pc'[q] # "idle")
        BY <4>2 DEF FinishKeeps
      <4> QED BY <4>1, <4>2
    <3> QED BY <3>3, <3>4, <3>5, <3>6 DEF Holding
  <2> QED BY <1>2, <2>2, <2>3 DEF Kept, Holding
<1> QED BY <1>1, <1>4, <1>5 DEF InPlace, Proc

LEMMA LoadFinishKept ==
  ASSUME OneClient, FinalInv, NEW p \in Proc, LoadFinish(p)
  PROVE  Undeleted' /\ HasStaged' /\ Kept'
<1>1. p \in Finisher /\ p \notin Patcher /\ row \in Sessions
  BY DEF LoadFinish, OneClient, FinalInv, UploadInv, UploadTypes
<1>2. /\ UNCHANGED <<row, tail, begun, staging>> /\ pc'[p] \in {"copy", "flush", "finish"}
      /\ sess'[p] = [row EXCEPT !.status = "completed"]
      /\ \A q \in Proc : q # p => pc'[q] = pc[q] /\ sess'[q] = sess[q] /\ buf'[q] = buf[q]
  BY DEF LoadFinish, AssembleStep, Proceed, FinalInv, UploadInv, UploadTypes
<1>3. Undeleted' /\ HasStaged'
  BY <1>2, StagedStays DEF Proc
<1>4. PatchKeeps(p)' /\ FinishKeeps(p)'
  BY <1>1, <1>2 DEF PatchKeeps, FinishKeeps, Sessions
<1> QED BY <1>2, <1>3, <1>4, KeptOthers

LEMMA CopyTailKept ==
  ASSUME OneClient, FinalInv, NEW p \in Proc, CopyTail(p)
  PROVE  Undeleted' /\ HasStaged' /\ Kept'
<1>1. /\ UNCHANGED <<row, tail, begun, sess, buf>>
      /\ \/ pc'[p] = "idle" /\ staging' = staging
         \/ pc'[p] = "clear" /\ staging' # <<>>
      /\ \A q \in Proc : q # p => pc'[q] = pc[q]
  BY DEF CopyTail, Proceed, FinalInv, UploadInv, UploadTypes
<1>2. CASE pc'[p] = "idle" /\ staging' = staging
  BY <1>1, <1>2, StopKept
<1>3. CASE staging' # <<>>
  BY <1>1, <1>3 DEF FinalInv, Undeleted, HasStaged, Kept, Holding
<1> QED BY <1>1, <1>2, <1>3

LEMMA FlushTailKept ==
  ASSUME OneClient, FinalInv, NEW p \in Proc, FlushTail(p)
  PROVE  Undeleted' /\ HasStaged' /\ Kept'
<1>1. pc[p] = "flush" /\ InPlace(p)
  BY DEF FlushTail, FinalInv, UploadInv, SoundAt
<1>2. p \in Finisher /\ p \notin Patcher
  BY <1>1 DEF InPlace, OneClient, Proc
<1>3. /\ UNCHANGED <<row, tail, begun, staging, sess>>
      /\ pc'[p] = "idle" \/ (pc'[p] = "part" /\ tail # <<>>)
      /\ \A q \in Proc : q # p => pc'[q] = pc[q] /\ buf'[q] = buf[q]
  BY DEF FlushTail, Proceed, FinalInv, UploadInv, UploadTypes
<1>4. Undeleted' /\ HasStaged'
  BY <1>3, StagedStays DEF Proc
<1>5. ASSUME staging = <<>> PROVE PatchKeeps(p)' /\ FinishKeeps(p)'
  <2>1. FinishKeeps(p)
    BY <1>5 DEF FinalInv, Kept, Holding
  <2> QED BY <1>1, <1>2, <1>3, <2>1 DEF PatchKeeps, FinishKeeps
<1> QED BY <1>3, <1>4, <1>5, KeptOthers

LEMMA FinishKept ==
  ASSUME OneClient, FinalInv, NEW p \in Proc, Finish(p)
  PROVE  Undeleted' /\ HasStaged' /\ Kept'
<1>1. pc[p] = "finish" /\ InPlace(p) /\ Assembles(p) /\ sess[p] \in Sessions
  BY DEF Finish, FinalInv, UploadInv, UploadTypes, SoundAt
<1>2. p \in Finisher
  BY <1>1 DEF InPlace, Proc
<1>3. FlattenSeq(sess[p].parts) # <<>>
  <2>1. FlattenSeq(sess[p].parts) = File(0, sess[p].declared) /\ sess[p].declared \in Nat \ {0}
    BY <1>1, <1>2 DEF Assembles, Spelt, Sessions
  <2>2. Len(File(0, sess[p].declared)) # 0
    BY <2>1, FileIs
  <2> QED BY <2>1, <2>2
<1>4. /\ UNCHANGED <<row, tail, sess, buf>>
      /\ \/ pc'[p] = "idle" /\ staging' = staging /\ begun' = begun
         \/ staging' # <<>>
      /\ \A q \in Proc : q # p => pc'[q] = pc[q]
  BY <1>3 DEF Finish, Proceed, FinalInv, UploadInv, UploadTypes
<1>5. CASE pc'[p] = "idle" /\ staging' = staging /\ begun' = begun
  BY <1>4, <1>5, StopKept
<1>6. CASE staging' # <<>>
  BY <1>4, <1>6 DEF FinalInv, Undeleted, HasStaged, Kept, Holding
<1> QED BY <1>4, <1>5, <1>6

LEMMA FinalStep ==
  ASSUME OneClient, FinalInv, NEW p \in Patcher \cup Finisher, Act(p) PROVE FinalInv'
<1>1. p \in Proc /\ p \notin Deleter \cup Reaper
  BY DEF Proc, OneClient
<1>2. UploadInv'
  BY <1>1, UploadStep DEF FinalInv
<1>3. CASE \/ \E n \in 0..Size : LoadPatch(p, n)
           \/ ReadTail(p) \/ PutTail(p) \/ BeginUpload(p) \/ UploadPart(p) \/ ClearTail(p) \/ Save(p)
  <2>1. UploadPart(p) => Undeleted' /\ HasStaged' /\ Kept'
    BY <1>1, PatchPartKept, FinishPartKept
  <2> QED BY <1>1, <1>2, <1>3, <2>1, LoadPatchKept, ReadTailKept, PutTailKept, BeginUploadKept,
             ClearTailKept, SaveKept DEF FinalInv
<1>4. CASE LoadFinish(p) \/ CopyTail(p) \/ FlushTail(p) \/ Finish(p)
  BY <1>1, <1>2, <1>4, LoadFinishKept, CopyTailKept, FlushTailKept, FinishKept DEF FinalInv
<1>5. CASE Stop(p)
  <2>1. /\ UNCHANGED <<row, tail, begun, staging, sess, buf>> /\ pc'[p] = "idle"
        /\ \A q \in Proc : q # p => pc'[q] = pc[q]
    BY <1>1, <1>5 DEF Stop, Proceed, FinalInv, UploadInv, UploadTypes
  <2> QED BY <1>1, <1>2, <2>1, StopKept DEF FinalInv
<1>6. CASE \/ LoadDelete(p) \/ LoadExpired(p) \/ HeadStaging(p)
           \/ AbortUpload(p) \/ DropTail(p) \/ DropStaging(p) \/ EndRemoval(p)
  <2>1. InPlace(p)
    BY <1>1 DEF FinalInv, UploadInv, SoundAt
  <2> QED BY <1>1, <1>6, <2>1 DEF InPlace, LoadDelete, LoadExpired, HeadStaging, AbortUpload,
             DropTail, DropStaging, EndRemoval
<1> QED BY <1>3, <1>4, <1>5, <1>6 DEF Act

LEMMA FinalInitially == ASSUME UploadInit PROVE FinalInv
<1>1. /\ row.status = "active" /\ row.up = 0 /\ row.tail = 0 /\ begun = <<>>
      /\ \A p \in Proc : pc[p] = "idle"
  BY DEF UploadInit, New
<1>2. DOMAIN begun = {}
  BY <1>1
<1>3. Undeleted /\ HasStaged
  BY <1>1 DEF Undeleted, HasStaged, Proc
<1>4. Kept
  BY <1>1, <1>2 DEF Kept, Holding, AllOpen, PartsHeld, TailKept, PatchKeeps, FinishKeeps
<1> QED BY <1>3, <1>4, UploadInitially DEF FinalInv

\* What is in a part of an open upload is stored.
LEMMA PartIsStored ==
  ASSUME begun \in Seq(Uploads), AllOpen, NEW u \in DOMAIN begun, NEW j \in DOMAIN begun[u].parts
  PROVE  ToSet(begun[u].parts[j]) \subseteq BytesStored
<1>1. begun[u] \in Uploads
  OBVIOUS
<1>2. ToSet(FlattenSeq(begun[u].parts)) =
        UNION {ToSet(begun[u].parts[i]) : i \in DOMAIN begun[u].parts}
  BY <1>1, FlatHolds DEF Uploads
<1> QED BY <1>2 DEF BytesStored, AllOpen

LEMMA FinalIsStored == FinalInv => PrefixIsStored
<1> SUFFICES ASSUME FinalInv, NEW i \in 1..row.offset PROVE i \in BytesStored
  BY DEF PrefixIsStored
<1>1. /\ row \in Sessions /\ row.offset \in Nat /\ row.declared \in Nat /\ row.tail \in Nat
      /\ row.parts \in Seq(Seq(Nat)) /\ begun \in Seq(Uploads) /\ i \in Nat /\ i # 0
  BY DEF FinalInv, UploadInv, UploadTypes, Sessions
<1>2. row.status \in {"active", "completed"} /\ (row.status = "active" => Fine(row, tail))
  BY <1>1 DEF Sessions, FinalInv, Undeleted, UploadInv, RowFine
<1>3. CASE staging # <<>>
  <2>1. row.offset <= row.declared
    BY <1>1, <1>2 DEF Fine, FinalInv, HasStaged
  <2>2. staging = File(0, row.declared)
    BY <1>3 DEF FinalInv, UploadInv, AssembledIsFile
  <2>3. ToSet(staging) = (0 + 1)..(0 + row.declared)
    BY <1>1, <2>2, FileIs
  <2>4. i \in (0 + 1)..(0 + row.declared)
    BY <1>1, <2>1
  <2> QED BY <2>3, <2>4 DEF BytesStored
<1>4. CASE staging = <<>>
  <2>1. Fine(row, tail) /\ AllOpen /\ PartsHeld(row) /\ TailKept
    BY <1>4, <1>2, StillOpen DEF FinalInv, Kept, Holding
  <2> DEFINE c == Base(row)
  <2>2. c \in Nat /\ c + row.tail = row.offset
    BY <1>1, <2>1 DEF Base, Fine
  <2>3. CASE i <= c
    <3>1. FlattenSeq(row.parts) = File(0, c)
      BY <2>1 DEF Fine, Spelt
    <3>2. i \in ToSet(FlattenSeq(row.parts))
      <4>1. ToSet(File(0, c)) = (0 + 1)..(0 + c)
        BY <2>2, FileIs
      <4>2. i \in (0 + 1)..(0 + c)
        BY <1>1, <2>2, <2>3
      <4> QED BY <3>1, <4>1, <4>2
    <3>3. PICK j \in DOMAIN row.parts : i \in ToSet(row.parts[j])
      BY <1>1, <3>2, FlatHolds
    <3>4. row.up # 0
      BY <2>1, <3>3 DEF Fine
    <3>5. /\ row.up \in DOMAIN begun /\ Len(row.parts) <= Len(begun[row.up].parts)
          /\ j \in 1..Len(row.parts) /\ begun[row.up].parts[j] = row.parts[j]
      <4>1. j \in 1..Len(row.parts)
        BY <1>1, <3>3
      <4> QED BY <2>1, <3>4, <4>1 DEF PartsHeld
    <3>6. begun[row.up] \in Uploads
      BY <1>1, <3>5
    <3>7. j \in DOMAIN begun[row.up].parts
      <4>1. begun[row.up].parts \in Seq(Seq(Nat)) /\ Len(row.parts) \in Nat
        BY SMTT(60), <1>1, <3>6 DEF Uploads
      <4> QED BY <3>5, <4>1
    <3> QED BY <1>1, <2>1, <3>3, <3>5, <3>7, PartIsStored
  <2>4. CASE i > c
    <3>1. row.tail > 0 /\ i \in (c + 1)..row.offset
      BY <1>1, <2>2, <2>4
    <3>2. CASE tail # <<>>
      <4>1. PICK k \in row.tail..(row.declared - c) : tail = File(c, k)
        BY <2>1, <3>1, <3>2 DEF Fine, TailFrom
      <4>2. k \in Nat /\ k >= row.tail
        BY <1>1, <2>2, <4>1
      <4>3. ToSet(tail) = (c + 1)..(c + k)
        BY <2>2, <4>1, <4>2, FileIs
      <4>4. i \in (c + 1)..(c + k)
        BY <1>1, <2>2, <3>1, <4>2
      <4> QED BY <4>3, <4>4 DEF BytesStored
    <3>3. CASE Moved
      <4>1. PICK u \in DOMAIN begun : \E j \in DOMAIN begun[u].parts :
              (c + 1)..row.offset \subseteq ToSet(begun[u].parts[j])
        BY <3>3 DEF Moved
      <4>2. PICK j \in DOMAIN begun[u].parts : (c + 1)..row.offset \subseteq ToSet(begun[u].parts[j])
        BY <4>1
      <4> QED BY <1>1, <2>1, <3>1, <4>2, PartIsStored
    <3> QED BY <2>1, <3>1, <3>2, <3>3 DEF TailKept
  <2> QED BY <1>1, <2>2, <2>3, <2>4
<1> QED BY <1>3, <1>4

LEMMA CompletedHasFile == FinalInv => CompletedIsStaged
BY DEF FinalInv, HasStaged, UploadInv, AssembledIsFile, CompletedIsStaged

----------------------------------------------------------------------------
(* The records together.                                                   *)

\* A file that is only finalised keeps more than one that may be removed.
RecordInv == UploadInv /\ (part = "finals" => FinalInv)

LEMMA UploadIdle ==
  ASSUME UNCHANGED uploadVars PROVE (UploadInv => UploadInv') /\ (FinalInv => FinalInv')
<1>1. UploadInv => UploadInv'
  BY DEF UploadInv, UploadTypes, RowFine, SoundAt, InPlace, ChunkFits, RowWaits, Assembles,
     AllSent, AssembledIsFile
<1>2. FinalInv => Undeleted' /\ HasStaged' /\ Kept'
  BY DEF FinalInv, Undeleted, HasStaged, Kept, Holding, AllOpen, PartsHeld, TailKept, Moved,
     PatchKeeps, FinishKeeps, Base
<1> QED BY <1>1, <1>2 DEF FinalInv

LEMMA RecordInvariant == OneClient => (AnySpec => []RecordInv)
<1> SUFFICES ASSUME OneClient PROVE AnySpec => []RecordInv
  OBVIOUS
<1>1. AnyInit => RecordInv
  BY UploadInitially, FinalInitially DEF AnyInit, RecordInv
<1>2. RecordInv /\ [AnyNext]_<<part, uploadVars, askVars, auditVars, orderVars>> => RecordInv'
  <2> SUFFICES ASSUME RecordInv, [AnyNext]_<<part, uploadVars, askVars, auditVars, orderVars>>
               PROVE  RecordInv'
    OBVIOUS
  <2>1. part' = part
    BY DEF AnyNext
  <2>2. CASE UNCHANGED uploadVars
    BY <2>1, <2>2, UploadIdle DEF RecordInv
  <2>3. CASE part = "upload" /\ \E p \in Proc \ Second : Act(p)
    BY <2>1, <2>3, UploadStep DEF RecordInv
  <2>4. CASE part = "finals" /\ \E p \in Patcher \cup Finisher : Act(p)
    BY <2>1, <2>4, FinalStep DEF RecordInv, FinalInv
  <2> QED BY <2>2, <2>3, <2>4 DEF AnyNext
<1> QED BY <1>1, <1>2, PTL DEF AnySpec

\* While one client sends at a time, what is assembled is the client's file,
\* whatever requests and finalisations died on the way and whatever is removed
\* meanwhile; a completed upload has it in staging, however many finalisations
\* overlap.
THEOREM StagedIsFileAlways == OneClient => (AnySpec => []StagedIsFile)
<1>1. RecordInv => StagedIsFile
  BY CompletedHasFile DEF RecordInv, UploadInv, StagedIsFile
<1> QED BY <1>1, RecordInvariant, PTL

\* While one client sends at a time and nothing is removed, every byte the offset
\* acknowledges is in an object or an open multipart upload.
THEOREM OffsetIsStoredAlways == OneClient => (AnySpec => []OffsetIsStored)
<1>1. RecordInv => OffsetIsStored
  BY FinalIsStored DEF RecordInv, OffsetIsStored
<1> QED BY <1>1, RecordInvariant, PTL
=============================================================================
