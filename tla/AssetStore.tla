----------------------------- MODULE AssetStore -----------------------------
(***************************************************************************)
(* tools/assets.py: the tools service's index of staged media, kept in     *)
(* memory under one lock, and the private files it names.  Bytes arrive    *)
(* outside the lock, so a reservation stands for them meanwhile; time, a   *)
(* failed upload and a restart of the service take assets away again.      *)
(* ToolApprovals composes it with the approvals that name its assets.      *)
(***************************************************************************)
EXTENDS Integers, FiniteSets, FiniteSetsExt

CONSTANTS
  Asset,             \* bound: the asset ids ever drawn; none is drawn twice
  SizeOf,            \* declared size of each
  Uploader,          \* handler threads with an upload
  UPLOAD_SLOTS, MAX_STAGED_ASSETS, MAX_TOTAL_BYTES

ASSUME AssetConstants ==
  /\ SizeOf \in [Asset -> Nat]
  /\ UPLOAD_SLOTS \in Nat /\ MAX_STAGED_ASSETS \in Nat /\ MAX_TOTAL_BYTES \in Nat

VARIABLES
  record,  \* _records: "unused", "reserved", "ready", or "gone" for good
  file,    \* the spool file: "none", "partial" or "whole"
  expired, \* recorded assets whose expires_at has passed
  upload   \* each uploader's place and its asset

assetVars == <<record, file, expired, upload>>

NoUpload == [pc |-> "idle", asset |-> {}]
Recorded == {a \in Asset : record[a] \in {"reserved", "ready"}}
Bytes(A) == MapThenSumSet(LAMBDA a : SizeOf[a], A)
Uploading == {u \in Uploader : upload[u].pc # "idle"}
AtUpload(u, pc, a) == upload[u].pc = pc /\ upload[u].asset = {a}
Uploads(u, pc) == upload' = [upload EXCEPT ![u].pc = pc]
EndUpload(u) == upload' = [upload EXCEPT ![u] = NoUpload]

(* What is left once the assets of A are dropped from the index, with      *)
(* their files.                                                            *)
RecordLess(A) == [a \in Asset |-> IF a \in A \cap Recorded THEN "gone" ELSE record[a]]
FileLess(A) == [a \in Asset |-> IF a \in A \cap Recorded THEN "none" ELSE file[a]]
Cleanup == record' = RecordLess(expired) /\ file' = FileLess(expired) /\ expired' = {}
Remove(A) ==
  record' = RecordLess(A) /\ file' = FileLess(A) /\ expired' = expired \ A

AssetInit ==
  /\ record = [a \in Asset |-> "unused"]
  /\ file = [a \in Asset |-> "none"]
  /\ expired = {}
  /\ upload = [u \in Uploader |-> NoUpload]

-----------------------------------------------------------------------------
(* Reservations count: their bytes are on the way.                         *)
Counted(kept) == kept

(* stage, under the lock: what has expired makes room, then the quota is   *)
(* checked with the reservations of the other uploads.                     *)
Reserve(u, a) ==
  LET kept == Recorded \ expired IN
  /\ upload[u].pc = "idle"
  /\ Cardinality(Uploading) < UPLOAD_SLOTS
  /\ record[a] = "unused"
  /\ Cardinality(Counted(kept)) < MAX_STAGED_ASSETS
  /\ Bytes(Counted(kept)) + SizeOf[a] <= MAX_TOTAL_BYTES
  /\ record' = [RecordLess(expired) EXCEPT ![a] = "reserved"]
  /\ file' = FileLess(expired)
  /\ expired' = {}
  /\ upload' = [upload EXCEPT ![u] = [pc |-> "open", asset |-> {a}]]

ReserveRefused(u) ==
  /\ upload[u].pc = "idle"
  /\ Cleanup
  /\ UNCHANGED upload

OpenFile(u, a) ==
  /\ AtUpload(u, "open", a)
  /\ file' = [file EXCEPT ![a] = "partial"]
  /\ Uploads(u, "write")
  /\ UNCHANGED <<record, expired>>

(* A cleanup may have unlinked the file under the writer.                  *)
WriteDone(u, a) ==
  /\ AtUpload(u, "write", a)
  /\ file' = [file EXCEPT ![a] = IF @ = "partial" THEN "whole" ELSE @]
  /\ Uploads(u, "finalize")
  /\ UNCHANGED <<record, expired>>

(* The client stopped early: the file goes first, then the reservation.    *)
WriteFails(u, a) ==
  /\ AtUpload(u, "write", a)
  /\ file' = [file EXCEPT ![a] = "none"]
  /\ Uploads(u, "abort")
  /\ UNCHANGED <<record, expired>>

Abort(u, a) ==
  /\ AtUpload(u, "abort", a)
  /\ record' = RecordLess({a}) /\ expired' = expired \ {a}
  /\ EndUpload(u)
  /\ UNCHANGED file

(* Wrong: the reservation is not looked at again.                          *)
FinalizeAnyway(u, a) ==
  /\ AtUpload(u, "finalize", a)
  /\ record' = [record EXCEPT ![a] = "ready"]
  /\ EndUpload(u)
  /\ UNCHANGED <<file, expired>>

(* Only if the reservation survived; otherwise the written file is dropped. *)
Finalize(u, a) ==
  /\ AtUpload(u, "finalize", a)
  /\ IF a \in Recorded
       THEN record' = [record EXCEPT ![a] = "ready"] /\ UNCHANGED file
       ELSE file' = [file EXCEPT ![a] = "none"] /\ UNCHANGED record
  /\ EndUpload(u)
  /\ UNCHANGED expired

UploadStep(u) ==
  \/ ReserveRefused(u)
  \/ \E a \in Asset : Reserve(u, a) \/ OpenFile(u, a) \/ WriteDone(u, a) \/ WriteFails(u, a)
                      \/ Abort(u, a) \/ Finalize(u, a)

AssetExpires(a) ==
  /\ a \in Recorded \ expired
  /\ expired' = expired \cup {a}
  /\ UNCHANGED <<record, file, upload>>

(* service_actions: the hourly sweep.                                      *)
Sweep == Cleanup /\ UNCHANGED upload

(* describe cleans up first; a miss is the same error for every reason.    *)
Described(a) == record[a] = "ready" /\ a \notin expired
Describe == Cleanup /\ UNCHANGED upload
Delete(A) == Remove(A) /\ UNCHANGED upload

(* The index dies with the process; the next one empties the directory.    *)
AssetCrash ==
  /\ record' = RecordLess(Asset) /\ expired' = {}
  /\ upload' = [u \in Uploader |-> NoUpload]
  /\ UNCHANGED file

CleanStart == file' = [a \in Asset |-> "none"] /\ UNCHANGED <<record, expired, upload>>

-----------------------------------------------------------------------------
AssetTypeOK ==
  /\ record \in [Asset -> {"unused", "reserved", "ready", "gone"}]
  /\ file \in [Asset -> {"none", "partial", "whole"}]
  /\ expired \subseteq Asset
  /\ upload \in [Uploader -> [pc : {"idle", "open", "write", "abort", "finalize"},
                              asset : SUBSET Asset]]

(* An asset offered to the tools has all its bytes on disk.                *)
ReadyIsWhole == \A a \in Asset : record[a] = "ready" => file[a] = "whole"
=============================================================================
