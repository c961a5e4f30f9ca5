----------------------------- MODULE DatasetStore -----------------------------
(***************************************************************************)
(* The datasets on disk: a built-in dataset, which every construction of   *)
(* a DatasetRegistry regenerates unless its manifest is the current one    *)
(* (datasets/registry.py), and an uploaded one (datasets/upload.py and     *)
(* api/datasets.py).                                                       *)
(*                                                                         *)
(* Builders are the server's threads that construct registries: Main does  *)
(* when the server imports its routers, the others while they serve a      *)
(* request.  Directories are changed one entry at a time, and nothing      *)
(* locks them.                                                             *)
(***************************************************************************)
EXTENDS Naturals

CONSTANTS
  Tables,      \* the tables of a dataset: one Parquet file each
  Manifest,    \* its manifest.json
  Builders,    \* threads that construct a DatasetRegistry
  Main         \* the one that imports the server

ASSUME StoreAssumption ==
  /\ Tables # {}
  /\ Manifest \notin Tables
  /\ Main \in Builders

VARIABLES
  exists,      \* the directory of the built-in dataset is there
  store,       \* what each of its entries is
  builder,     \* where each construction is, and the entries it still has to do
  serving,     \* the server takes requests
  upload       \* the uploaded dataset, on disk and in _custom_datasets

storeVars == <<exists, store, builder, serving, upload>>

Entries == Tables \cup {Manifest}

(* old: written by other code, a spec_hash that is not the current one or  *)
(* none at all; torn: a manifest that is not complete JSON.                *)
Contents == {"absent", "old", "torn", "current"}

BuilderPc == {"idle", "decided", "wiping", "making", "seeding", "writing"}

(* withdrawn: deleted by another request before its own has registered it. *)
UploadPc == {"none", "converting", "registering", "withdrawn", "accepted", "refused",
             "deleted", "lost"}

StoreTypeOK ==
  /\ exists \in BOOLEAN
  /\ store \in [Entries -> Contents]
  /\ builder \in [Builders -> [pc : BuilderPc, todo : SUBSET Entries]]
  /\ serving \in BOOLEAN
  /\ upload \in [pc : UploadPc, disk : SUBSET Entries, custom : BOOLEAN]

Idle == [pc |-> "idle", todo |-> {}]

NoUpload == [pc |-> "none", disk |-> {}, custom |-> FALSE]

(* What an earlier version of the server, or one that was killed, leaves.  *)
Leftover(s) ==
  /\ s \in [Entries -> Contents]
  /\ \A t \in Tables : s[t] # "torn"
  /\ s[Manifest] = "old" => \A t \in Tables : s[t] = "old"
  /\ s[Manifest] = "current" => \A t \in Tables : s[t] = "current"

StoreInit ==
  /\ store \in {s \in [Entries -> Contents] : Leftover(s)}
  /\ exists \in BOOLEAN
  /\ ~exists => \A e \in Entries : store[e] = "absent"
  /\ builder = [b \in Builders |-> Idle]
  /\ serving = FALSE
  /\ upload = NoUpload

At(b, pc) == builder[b].pc = pc

Move(b, pc, todo) == builder' = [builder EXCEPT ![b] = [pc |-> pc, todo |-> todo]]

Present == {e \in Entries : store[e] # "absent"}

(* resolve_dataset and get_dataset need a manifest they can parse.         *)
Readable == store[Manifest] \in {"old", "current"}
------------------------------------------------------------------------------
(* DatasetRegistry.__init__, _ensure_builtin_datasets.  A request makes    *)
(* its own registry; Main's is made before the server takes requests.      *)

Construct(b) ==
  /\ At(b, "idle")
  /\ serving \/ b = Main
  /\ IF store[Manifest] = "current"
     THEN serving' = TRUE /\ UNCHANGED builder
     ELSE Move(b, "decided", {}) /\ UNCHANGED serving
  /\ UNCHANGED <<exists, store, upload>>

(* shutil.rmtree lists the directory first, if there still is one.         *)
BeginWipe(b) ==
  /\ At(b, "decided")
  /\ IF exists THEN Move(b, "wiping", Present) ELSE Move(b, "making", {})
  /\ UNCHANGED <<exists, store, serving, upload>>

Unlink(b, e) ==
  /\ At(b, "wiping") /\ e \in builder[b].todo
  /\ store' = [store EXCEPT ![e] = "absent"]
  /\ Move(b, "wiping", builder[b].todo \ {e})
  /\ UNCHANGED <<exists, serving, upload>>

(* The listings of other wipers are of a directory that is gone.           *)
RemoveDir(b) ==
  /\ At(b, "wiping") /\ builder[b].todo = {}
  /\ exists /\ Present = {}
  /\ exists' = FALSE
  /\ builder' = [c \in Builders |->
                   IF c = b THEN [pc |-> "making", todo |-> {}]
                   ELSE IF At(c, "wiping") THEN [pc |-> "wiping", todo |-> {}]
                   ELSE builder[c]]
  /\ UNCHANGED <<store, serving, upload>>

(* An entry or the directory is gone already, a file came after the        *)
(* listing, or the disk refuses: rmtree raises out of the constructor.     *)
WipeRaises(b) ==
  /\ At(b, "wiping")
  /\ Move(b, "idle", {})
  /\ UNCHANGED <<exists, store, serving, upload>>

(* Mutant: the manifest is written before the tables are copied.           *)
MakeDirManifestFirst(b) ==
  /\ At(b, "making")
  /\ exists' = TRUE
  /\ store' = [store EXCEPT ![Manifest] = "current"]
  /\ Move(b, "seeding", Tables)
  /\ UNCHANGED <<serving, upload>>

MakeDir(b) ==
  /\ At(b, "making")
  /\ exists' = TRUE
  /\ Move(b, "seeding", Tables)
  /\ UNCHANGED <<store, serving, upload>>

(* _seed_builtin_dataset: a COPY for each table, the manifest last.        *)
CopyTable(b, t) ==
  /\ At(b, "seeding") /\ t \in builder[b].todo
  /\ exists
  /\ store' = [store EXCEPT ![t] = "current"]
  /\ Move(b, "seeding", builder[b].todo \ {t})
  /\ UNCHANGED <<exists, serving, upload>>

OpenManifest(b) ==
  /\ At(b, "seeding") /\ builder[b].todo = {}
  /\ exists
  /\ store' = [store EXCEPT ![Manifest] = "torn"]
  /\ Move(b, "writing", {})
  /\ UNCHANGED <<exists, serving, upload>>

(* What is written to a file that was unlinked in the meantime is lost.    *)
WriteManifest(b) ==
  /\ At(b, "writing")
  /\ store' = [store EXCEPT ![Manifest] = IF @ = "torn" THEN "current" ELSE @]
  /\ Move(b, "idle", {})
  /\ serving' = TRUE
  /\ UNCHANGED <<exists, upload>>

(* Any failure of the seeding is logged; the constructor returns.          *)
SeedFails(b) ==
  /\ builder[b].pc \in {"seeding", "writing"}
  /\ Move(b, "idle", {})
  /\ serving' = TRUE
  /\ UNCHANGED <<exists, store, upload>>
------------------------------------------------------------------------------
(* DatasetUploadHandler.process_upload and the delete endpoint.  The id is *)
(* new, so the directory is the upload's own.                              *)

(* get_dataset: the memory of the API's own registry first, then the disk. *)
Gettable == upload.custom \/ Manifest \in upload.disk

BeginUpload ==
  /\ serving /\ upload.pc = "none"
  /\ upload' = [upload EXCEPT !.pc = "converting"]
  /\ UNCHANGED <<exists, store, builder, serving>>

ConvertTable(t) ==
  /\ upload.pc = "converting" /\ t \notin upload.disk
  /\ upload' = [upload EXCEPT !.disk = @ \cup {t}]
  /\ UNCHANGED <<exists, store, builder, serving>>

(* Mutant: the manifest does not wait for the conversions.                 *)
WriteUploadManifestEarly ==
  /\ upload.pc = "converting"
  /\ upload' = [upload EXCEPT !.disk = @ \cup {Manifest}, !.pc = "registering"]
  /\ UNCHANGED <<exists, store, builder, serving>>

WriteUploadManifest ==
  /\ upload.pc = "converting" /\ Tables \subseteq upload.disk
  /\ upload' = [upload EXCEPT !.disk = @ \cup {Manifest}, !.pc = "registering"]
  /\ UNCHANGED <<exists, store, builder, serving>>

(* register_dataset, then the response; whether the files are still there  *)
(* is not looked at.                                                       *)
RegisterUpload ==
  /\ upload.pc \in {"registering", "withdrawn"}
  /\ upload' = [upload EXCEPT !.custom = TRUE,
                   !.pc = IF @ = "registering" THEN "accepted" ELSE "deleted"]
  /\ UNCHANGED <<exists, store, builder, serving>>

(* An extension that is not allowed, too many bytes, a rejected archive, a *)
(* collision of table names, a file DuckDB cannot read, a full disk.  The  *)
(* directory is removed as far as the disk lets it.                        *)
RefuseUpload(left) ==
  /\ serving /\ upload.pc \in {"none", "converting"}
  /\ left \subseteq upload.disk
  /\ upload' = [upload EXCEPT !.disk = left, !.pc = "refused"]
  /\ UNCHANGED <<exists, store, builder, serving>>

(* The directory goes, errors ignored; _custom_datasets keeps the entry.   *)
(* The listing shows an upload as soon as its manifest is there.           *)
DeleteUpload(left) ==
  /\ serving /\ Gettable
  /\ left \subseteq upload.disk
  /\ upload' = [upload EXCEPT !.disk = left,
                   !.pc = IF @ \in {"registering", "withdrawn"} THEN "withdrawn" ELSE "deleted"]
  /\ UNCHANGED <<exists, store, builder, serving>>

(* The server is killed, and its threads with it.                          *)
StopStore ==
  /\ serving' = FALSE
  /\ builder' = [b \in Builders |-> Idle]
  /\ upload' = [upload EXCEPT !.custom = FALSE,
                   !.pc = IF @ \in {"converting", "registering"} THEN "lost"
                          ELSE IF @ = "withdrawn" THEN "deleted" ELSE @]
  /\ UNCHANGED <<exists, store>>

BuilderStep(b) ==
  \/ Construct(b) \/ BeginWipe(b) \/ RemoveDir(b) \/ WipeRaises(b)
  \/ MakeDir(b) \/ OpenManifest(b) \/ WriteManifest(b) \/ SeedFails(b)
  \/ \E e \in Entries : Unlink(b, e)
  \/ \E t \in Tables : CopyTable(b, t)

StoreNext ==
  \/ \E b \in Builders : BuilderStep(b)
  \/ BeginUpload \/ WriteUploadManifest \/ RegisterUpload
  \/ \E t \in Tables : ConvertTable(t)
  \/ \E left \in SUBSET Entries : RefuseUpload(left) \/ DeleteUpload(left)
  \/ StopStore

StoreSpec == StoreInit /\ [][StoreNext]_storeVars
------------------------------------------------------------------------------
(* registry.py: "Ensures every registered dataset points to real manifests *)
(* and physical Parquet files".  Whatever was left on the disk and         *)
(* whenever the server was killed, a current manifest no constructor will  *)
(* look behind again stands for a complete dataset.                        *)
RegisteredIsReal ==
  (\A b \in Builders : At(b, "idle")) /\ store[Manifest] = "current"
    => \A t \in Tables : store[t] = "current"

(* An upload that was accepted is found after any restart, and one that is *)
(* found has all its tables, whether or not its request was answered.      *)
UploadIsWhole ==
  /\ upload.pc = "accepted" => Manifest \in upload.disk
  /\ Gettable /\ upload.pc \notin {"withdrawn", "deleted"} => Tables \subseteq upload.disk
==============================================================================
