---------------------------- MODULE UploadSession ----------------------------
(***************************************************************************)
(* One resumable upload: the engine (dam-store/src/resumable.rs), the TUS   *)
(* handlers that load and save its row (dam-api/src/tus.rs,                 *)
(* dam-db/src/uploads.rs), the assembly that finalisation begins with and   *)
(* the sweep of abandoned uploads (dam-pipeline).                           *)
(*                                                                          *)
(* A request loads the row, works on its copy of it, calls the object store *)
(* one operation at a time and writes the copy back; there is no lock and   *)
(* no version on the row.  One action is one statement or one store call.   *)
(*                                                                          *)
(* A byte is its position in the client's file, an object is the sequence   *)
(* of its bytes, <<>> an object that does not exist; an etag is the part's  *)
(* content.  The client is honest: what it sends at an offset are the bytes *)
(* its file has there.                                                      *)
(***************************************************************************)
EXTENDS Naturals, Sequences, SequencesExt

CONSTANTS
  Patcher,   \* concurrent PATCH requests
  Deleter,   \* concurrent DELETE requests
  Finisher,  \* concurrent runs of the finalise job, as far as the assembly
  Reaper,    \* concurrent sweeps of abandoned uploads
  Size,      \* bound: the longest file
  MinPart,   \* MIN_PART_SIZE
  MaxBegun   \* bound: multipart uploads opened in a behaviour

Proc == Patcher \cup Deleter \cup Finisher \cup Reaper

VARIABLES
  row,        \* the row of upload_sessions
  tail,       \* the tail object
  staging,    \* the staging object
  begun,      \* the multipart uploads opened on the staging key
  requested,  \* a finalise job was queued
  pc,         \* the step each process is at
  sess,       \* its ResumableSession
  buf         \* the bytes in its hand

store == <<tail, staging, begun>>
uploadVars == <<row, store, requested, pc, sess, buf>>

Step == {"idle", "read", "put", "begin", "part", "clear", "save",
         "copy", "flush", "finish", "head", "abort", "drop", "unstage", "end"}

\* n bytes of the client's file, from an offset on.
File(offset, n) == [i \in 1..n |-> offset + i]

New(n) ==
  [status |-> "active", declared |-> n, offset |-> 0, up |-> 0, parts |-> <<>>, tail |-> 0]

UploadInit ==
  /\ \E n \in 1..Size : row = New(n)
  /\ tail = <<>> /\ staging = <<>> /\ begun = <<>>
  /\ requested = FALSE
  /\ pc   = [p \in Proc |-> "idle"]
  /\ sess = [p \in Proc |-> New(1)]
  /\ buf  = [p \in Proc |-> <<>>]

Proceed(p, step) == pc' = [pc EXCEPT ![p] = step]

----------------------------------------------------------------------------
(* PATCH.                                                                  *)

\* The bug: the offset is acknowledged and a small chunk kept in the process.
StoreInMemory(s, b) ==
  IF Len(b) < MinPart THEN "save" ELSE IF s.up = 0 THEN "begin" ELSE "part"

\* A buffer that is large enough becomes a part, a smaller one the new tail.
StoreStep(s, b) ==
  IF Len(b) < MinPart THEN "put" ELSE IF s.up = 0 THEN "begin" ELSE "part"

\* The bug: the declared length is for the client's information.
FitsAlways(s, n) == TRUE

\* The chunk stays within the declared length.
Fits(s, n) == s.offset + n <= s.declared

\* load, require_active, and the checks of offset and declared length; a
\* chunk that fails one of them changes nothing.  Local fields that no store
\* call reads (offset, status) are advanced here and seen when saved.
LoadPatch(p, n) ==
  /\ p \in Patcher /\ pc[p] = "idle"
  /\ row.status = "active"
  /\ Fits(row, n)
  /\ sess' = [sess EXCEPT ![p] = [row EXCEPT !.offset = @ + n]]
  /\ buf'  = [buf EXCEPT ![p] = File(row.offset, n)]
  /\ Proceed(p, IF n = 0 THEN "save"
                ELSE IF row.tail > 0 THEN "read"
                ELSE StoreStep(row, File(row.offset, n)))
  /\ UNCHANGED <<row, store, requested>>

\* The bug: whatever is in the tail is taken for the session's.
TailTrusted(s) == tail # <<>>

\* The tail object has the length the session records (and exists).
TailAgrees(s) == Len(tail) = s.tail

\* Tail first, then the new chunk.  A disagreement refuses the chunk.
ReadTail(p) ==
  /\ pc[p] = "read"
  /\ IF TailAgrees(sess[p])
       THEN /\ buf' = [buf EXCEPT ![p] = tail \o @]
            /\ Proceed(p, StoreStep(sess[p], tail \o buf[p]))
       ELSE Proceed(p, "idle") /\ UNCHANGED buf
  /\ UNCHANGED <<row, store, requested, sess>>

PutTail(p) ==
  /\ pc[p] = "put"
  /\ tail' = buf[p]
  /\ sess' = [sess EXCEPT ![p].tail = Len(buf[p])]
  /\ Proceed(p, "save")
  /\ UNCHANGED <<row, staging, begun, requested, buf>>

\* upload_parts opens the multipart upload ...
BeginUpload(p) ==
  /\ pc[p] = "begin" /\ Len(begun) < MaxBegun
  /\ begun' = Append(begun, [open |-> TRUE, parts |-> <<>>])
  /\ sess'  = [sess EXCEPT ![p].up = Len(begun) + 1]
  /\ Proceed(p, "part")
  /\ UNCHANGED <<row, tail, staging, requested, buf>>

\* ... and uploads the buffer under the next number of the session's list,
\* over what a request that was never saved put there.
UploadPart(p) ==
  LET up     == sess[p].up
      number == Len(sess[p].parts) + 1
      old    == begun[up].parts
  IN
  /\ pc[p] = "part"
  /\ IF begun[up].open
       THEN /\ begun' = [begun EXCEPT ![up].parts =
                           IF number <= Len(old) THEN [old EXCEPT ![number] = buf[p]]
                                                 ELSE Append(old, buf[p])]
            /\ sess'  = [sess EXCEPT ![p].parts = Append(@, buf[p])]
            /\ Proceed(p, IF p \in Finisher THEN "finish"
                          ELSE IF sess[p].tail > 0 THEN "clear" ELSE "save")
       ELSE Proceed(p, "idle") /\ UNCHANGED <<begun, sess>>
  /\ UNCHANGED <<row, tail, staging, requested, buf>>

ClearTail(p) ==
  /\ pc[p] = "clear"
  /\ tail' = <<>>
  /\ sess' = [sess EXCEPT ![p].tail = 0]
  /\ Proceed(p, "save")
  /\ UNCHANGED <<row, staging, begun, requested, buf>>

\* uploads::save: every field, by upload_id, whatever the row says now; then,
\* after the last chunk, a finalise job, unless it cannot be queued.
Save(p) ==
  /\ pc[p] = "save"
  /\ row' = sess[p]
  /\ requested' \in {requested, requested \/ (p \in Patcher /\ sess[p].offset = sess[p].declared)}
  /\ Proceed(p, "idle")
  /\ UNCHANGED <<store, sess, buf>>

----------------------------------------------------------------------------
(* The finalise job, as far as resumable::complete and the save after it.  *)

\* Everything is in the tail, or there are parts and perhaps a tail.
AssembleStep(s) ==
  IF s.up = 0 THEN "copy" ELSE IF s.tail > 0 THEN "flush" ELSE "finish"

\* An upload that is not active, or not complete, is left alone.
LoadFinish(p) ==
  /\ p \in Finisher /\ pc[p] = "idle" /\ requested
  /\ row.status = "active" /\ row.offset = row.declared
  /\ sess' = [sess EXCEPT ![p] = [row EXCEPT !.status = "completed"]]
  /\ Proceed(p, AssembleStep(row))
  /\ UNCHANGED <<row, store, requested, buf>>

CopyTail(p) ==
  /\ pc[p] = "copy"
  /\ IF tail # <<>>
       THEN staging' = tail /\ Proceed(p, "clear")
       ELSE Proceed(p, "idle") /\ UNCHANGED staging
  /\ UNCHANGED <<row, tail, begun, requested, sess, buf>>

FlushTail(p) ==
  /\ pc[p] = "flush"
  /\ buf' = [buf EXCEPT ![p] = tail]
  /\ Proceed(p, IF tail # <<>> THEN "part" ELSE "idle")
  /\ UNCHANGED <<row, store, requested, sess>>

\* The store assembles the listed parts if the upload is open, it holds them
\* and none but the last is below the minimum; the upload is gone then.
Finish(p) ==
  LET up    == sess[p].up
      parts == sess[p].parts
      fine  == /\ begun[up].open
               /\ Len(begun[up].parts) >= Len(parts)
               /\ \A i \in 1..Len(parts) :
                    /\ begun[up].parts[i] = parts[i]
                    /\ i < Len(parts) => Len(parts[i]) >= MinPart
  IN
  /\ pc[p] = "finish"
  /\ IF fine
       THEN /\ staging' = FlattenSeq(parts)
            /\ begun' = [begun EXCEPT ![up].open = FALSE]
            /\ Proceed(p, IF sess[p].tail > 0 THEN "clear" ELSE "save")
       ELSE Proceed(p, "idle") /\ UNCHANGED <<staging, begun>>
  /\ UNCHANGED <<row, tail, requested, sess, buf>>

----------------------------------------------------------------------------
(* DELETE, and the sweep of an upload whose expires_at has passed: the     *)
(* store first, then the row.                                              *)

TerminateStep(s) == IF s.up # 0 THEN "abort" ELSE "drop"

\* A completed upload may be deleted too.
LoadDelete(p) ==
  /\ p \in Deleter /\ pc[p] = "idle"
  /\ row.status # "terminated"
  /\ sess' = [sess EXCEPT ![p] = row]
  /\ Proceed(p, TerminateStep(row))
  /\ UNCHANGED <<row, store, requested, buf>>

\* reapable: an active row, at whatever moment it expires.
LoadExpired(p) ==
  /\ p \in Reaper /\ pc[p] = "idle"
  /\ row.status = "active"
  /\ sess' = [sess EXCEPT ![p] = row]
  /\ Proceed(p, "head")
  /\ UNCHANGED <<row, store, requested, buf>>

\* sweep_tenant: an object in staging is rescued (or deferred), no object
\* means there is nothing to rescue.
HeadStaging(p) ==
  /\ pc[p] = "head"
  /\ IF staging # <<>>
       THEN requested' \in {requested, TRUE} /\ Proceed(p, "idle")
       ELSE Proceed(p, TerminateStep(sess[p])) /\ UNCHANGED requested
  /\ UNCHANGED <<row, store, sess, buf>>

AbortUpload(p) ==
  /\ pc[p] = "abort"
  /\ begun' = [begun EXCEPT ![sess[p].up].open = FALSE]
  /\ Proceed(p, "drop")
  /\ UNCHANGED <<row, tail, staging, requested, sess, buf>>

DropTail(p) ==
  /\ pc[p] = "drop"
  /\ tail' = <<>>
  /\ Proceed(p, "unstage")
  /\ UNCHANGED <<row, staging, begun, requested, sess, buf>>

DropStaging(p) ==
  /\ pc[p] = "unstage"
  /\ staging' = <<>>
  /\ Proceed(p, "end")
  /\ UNCHANGED <<row, tail, begun, requested, sess, buf>>

\* DELETE saves its copy over the row; reap_one writes an active row only.
EndRemoval(p) ==
  /\ pc[p] = "end"
  /\ LET base == IF p \in Deleter THEN sess[p] ELSE row IN
     row' = IF p \in Reaper /\ row.status # "active" THEN row
            ELSE [base EXCEPT !.status = "terminated", !.up = 0, !.parts = <<>>, !.tail = 0]
  /\ Proceed(p, "idle")
  /\ UNCHANGED <<store, requested, sess, buf>>

\* A process dies, its client disconnects, or a call fails: it stops there.
Stop(p) ==
  /\ pc[p] # "idle"
  /\ Proceed(p, "idle")
  /\ UNCHANGED <<row, store, requested, sess, buf>>

----------------------------------------------------------------------------
Act(p) ==
  \/ \E n \in 0..Size : LoadPatch(p, n)
  \/ ReadTail(p) \/ PutTail(p) \/ BeginUpload(p) \/ UploadPart(p)
  \/ ClearTail(p) \/ Save(p)
  \/ LoadFinish(p) \/ CopyTail(p) \/ FlushTail(p) \/ Finish(p)
  \/ LoadDelete(p) \/ LoadExpired(p) \/ HeadStaging(p)
  \/ AbortUpload(p) \/ DropTail(p) \/ DropStaging(p) \/ EndRemoval(p)
  \/ Stop(p)

UploadNext == \E p \in Proc : Act(p)

UploadSpec == UploadInit /\ [][UploadNext]_uploadVars

----------------------------------------------------------------------------
(* Properties.                                                             *)

Session ==
  [status : {"active", "completed", "terminated"}, declared : 1..Size, offset : 0..Size,
   up : 0..MaxBegun, parts : Seq(Seq(1..Size)), tail : 0..Size]

TypeOK ==
  /\ row \in Session
  /\ tail \in Seq(1..Size) /\ Len(tail) <= Size
  /\ staging \in Seq(1..Size)
  /\ begun \in Seq([open : BOOLEAN, parts : Seq(Seq(1..Size))])
  /\ requested \in BOOLEAN
  /\ pc \in [Proc -> Step]
  /\ sess \in [Proc -> Session]
  /\ buf \in [Proc -> Seq(1..Size)]

\* What is assembled is the client's file, also after chunks whose request
\* died at any of its steps and was sent again ("a wrong object under a
\* content-addressed key is worse than a failed upload", patch).
AssembledIsFile == staging # <<>> => staging = File(0, row.declared)

\* The bytes of objects and open uploads.
BytesStored ==
  ToSet(tail) \cup ToSet(staging) \cup
  UNION {ToSet(FlattenSeq(begun[u].parts)) : u \in {v \in DOMAIN begun : begun[v].open}}

\* Every byte the offset acknowledges is in the store, whatever died: the
\* row is saved after the bytes land, and no copy of a byte is removed before
\* the next one exists (patch_upload, "never before"; finalise's module doc).
PrefixIsStored == \A i \in 1..row.offset : i \in BytesStored

\* A completed upload's bytes are in staging, for finalisation to promote;
\* the sweep must not take them ("Finalise, or reclaim - never both").
CompletedIsStaged == row.status = "completed" => staging = File(0, row.declared)

\* When nothing is working on it, an active upload can take its next chunk:
\* "a node that dies must not take the upload with it" (resumable.rs).
Resumable ==
  /\ row.status = "active"
  /\ \A p \in Proc : pc[p] = "idle"
  => row.tail = 0 \/ TailAgrees(row)
=============================================================================
