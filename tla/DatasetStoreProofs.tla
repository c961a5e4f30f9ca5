-------------------------- MODULE DatasetStoreProofs --------------------------
(***************************************************************************)
(* Proofs about DatasetStore, for every set of tables.  Three invariants:  *)
(* nothing of an earlier version is left once the server takes requests,   *)
(* whoever constructs registries (NothingOldServed); a single constructor  *)
(* leaves complete datasets only (RegisteredIsReal); and an upload is      *)
(* never half of one (UploadIsWhole).                                      *)
(***************************************************************************)
EXTENDS DatasetStore, TLAPS

NoOld == \A e \in Entries : store[e] # "old"

(* Nothing old survives a wipe, and the server takes requests only after   *)
(* one, or after it has found the current manifest.                        *)
FreshInv ==
  /\ StoreTypeOK
  /\ \A t \in Tables : store[t] # "torn"
  /\ ~exists => \A e \in Entries : store[e] = "absent"
  /\ store[Manifest] = "current" => NoOld
  /\ serving => NoOld
  /\ \A b \in Builders : builder[b].pc \in {"making", "seeding", "writing"} => NoOld

(* FreshInv holds at first: a leftover with a current manifest is current. *)
LEMMA FreshInit == StoreInit => FreshInv
<1> SUFFICES ASSUME StoreInit PROVE FreshInv
  OBVIOUS
<1>1. StoreTypeOK
  BY DEF StoreInit, StoreTypeOK, Idle, NoUpload, BuilderPc, UploadPc
<1>2. Leftover(store)
  BY DEF StoreInit
<1>3. store[Manifest] = "current" => NoOld
  BY <1>2 DEF Leftover, NoOld, Entries
<1> QED
  BY <1>1, <1>2, <1>3 DEF FreshInv, StoreInit, Leftover, Idle

(* A step that leaves the entries alone keeps FreshInv if what it moves to *)
(* is allowed with them.                                                   *)
LEMMA FreshMove ==
  ASSUME FreshInv, UNCHANGED store, exists' \in BOOLEAN, serving' \in BOOLEAN,
         builder' \in [Builders -> [pc : BuilderPc, todo : SUBSET Entries]],
         upload' \in [pc : UploadPc, disk : SUBSET Entries, custom : BOOLEAN],
         ~exists' => \A e \in Entries : store[e] = "absent",
         serving' => NoOld,
         \A b \in Builders : builder'[b].pc \in {"making", "seeding", "writing"} => NoOld
  PROVE  FreshInv'
BY DEF FreshInv, StoreTypeOK, NoOld

(* The store and the builders after a construction or an upload step.      *)
LEMMA FreshBuilderStep ==
  ASSUME FreshInv, NEW b \in Builders, BuilderStep(b)
  PROVE  FreshInv'
<1> USE DEF FreshInv, StoreTypeOK, Move, At
<1>1. CASE Construct(b)
  <2>1. CASE store[Manifest] = "current"
    BY <1>1, <2>1, FreshMove DEF Construct
  <2>2. CASE store[Manifest] # "current"
    <3>1. builder' = [builder EXCEPT ![b] = [pc |-> "decided", todo |-> {}]]
      BY <1>1, <2>2 DEF Construct
    <3> QED
      BY <1>1, <2>2, <3>1, FreshMove DEF Construct, BuilderPc
  <2> QED
    BY <2>1, <2>2
<1>2. CASE BeginWipe(b)
  <2>1. NoOld \/ exists
    BY DEF NoOld
  <2> QED
    BY <1>2, <2>1, FreshMove DEF BeginWipe, BuilderPc, Present
<1>3. CASE RemoveDir(b)
  <2>1. \A e \in Entries : store[e] = "absent"
    BY <1>3 DEF RemoveDir, Present
  <2>2. builder' \in [Builders -> [pc : BuilderPc, todo : SUBSET Entries]]
    BY <1>3 DEF RemoveDir, BuilderPc
  <2> QED
    BY <1>3, <2>1, <2>2, FreshMove DEF RemoveDir, NoOld
<1>4. CASE WipeRaises(b)
  BY <1>4, FreshMove DEF WipeRaises, BuilderPc
<1>5. CASE MakeDir(b)
  BY <1>5, FreshMove DEF MakeDir, BuilderPc, Entries
<1>6. CASE SeedFails(b)
  BY <1>6, FreshMove DEF SeedFails, BuilderPc
<1>7. CASE OpenManifest(b)
  <2>1. NoOld'
    BY <1>7 DEF OpenManifest, NoOld, Entries
  <2> QED
    BY <1>7, <2>1, StoreAssumption DEF OpenManifest, Contents, BuilderPc, Entries
<1>8. CASE WriteManifest(b)
  <2>1. NoOld'
    BY <1>8 DEF WriteManifest, NoOld, Entries
  <2>2. ~exists => \A e \in Entries : store'[e] = "absent"
    BY <1>8 DEF WriteManifest, Entries
  <2> QED
    BY <1>8, <2>1, <2>2, StoreAssumption DEF WriteManifest, Contents, BuilderPc, Entries
<1>9. ASSUME NEW e \in Entries, Unlink(b, e) PROVE FreshInv'
  <2>1. NoOld => NoOld'
    BY <1>9 DEF Unlink, NoOld
  <2> QED
    BY <1>9, <2>1, StoreAssumption DEF Unlink, Contents, BuilderPc, Entries
<1>10. ASSUME NEW t \in Tables, CopyTable(b, t) PROVE FreshInv'
  <2>1. NoOld'
    BY <1>10 DEF CopyTable, NoOld
  <2> QED
    BY <1>10, <2>1, StoreAssumption DEF CopyTable, Contents, BuilderPc, Entries
<1> QED
  BY <1>1, <1>2, <1>3, <1>4, <1>5, <1>6, <1>7, <1>8, <1>9, <1>10 DEF BuilderStep

(* Killing the server leaves the entries as they are.                      *)
LEMMA FreshStop == FreshInv /\ StopStore => FreshInv'
<1> SUFFICES ASSUME FreshInv, StopStore PROVE FreshInv'
  OBVIOUS
<1>1. builder' \in [Builders -> [pc : BuilderPc, todo : SUBSET Entries]]
  BY DEF StopStore, Idle, BuilderPc
<1>2. upload' \in [pc : UploadPc, disk : SUBSET Entries, custom : BOOLEAN]
  BY DEF StopStore, FreshInv, StoreTypeOK, UploadPc
<1> QED
  BY <1>1, <1>2, FreshMove DEF StopStore, FreshInv, StoreTypeOK, Idle

UploadStep ==
  \/ BeginUpload \/ WriteUploadManifest \/ RegisterUpload
  \/ \E t \in Tables : ConvertTable(t)
  \/ \E left \in SUBSET Entries : RefuseUpload(left) \/ DeleteUpload(left)

(* An upload step changes the upload alone, and keeps its type.            *)
LEMMA UploadStepAlone ==
  ASSUME upload \in [pc : UploadPc, disk : SUBSET Entries, custom : BOOLEAN], UploadStep
  PROVE  /\ UNCHANGED <<exists, store, builder, serving>>
         /\ upload' \in [pc : UploadPc, disk : SUBSET Entries, custom : BOOLEAN]
<1>1. CASE BeginUpload
  BY <1>1 DEF BeginUpload, UploadPc
<1>2. CASE WriteUploadManifest
  BY <1>2 DEF WriteUploadManifest, UploadPc, Entries
<1>3. CASE RegisterUpload
  BY <1>3 DEF RegisterUpload, UploadPc
<1>4. ASSUME NEW t \in Tables, ConvertTable(t)
      PROVE  /\ UNCHANGED <<exists, store, builder, serving>>
             /\ upload' \in [pc : UploadPc, disk : SUBSET Entries, custom : BOOLEAN]
  BY <1>4 DEF ConvertTable, UploadPc, Entries
<1>5. ASSUME NEW left \in SUBSET Entries, RefuseUpload(left) \/ DeleteUpload(left)
      PROVE  /\ UNCHANGED <<exists, store, builder, serving>>
             /\ upload' \in [pc : UploadPc, disk : SUBSET Entries, custom : BOOLEAN]
  BY <1>5 DEF RefuseUpload, DeleteUpload, UploadPc
<1> QED
  BY <1>1, <1>2, <1>3, <1>4, <1>5 DEF UploadStep

(* Every step of the store is a construction's, the upload's, or the end.  *)
LEMMA StoreSteps ==
  StoreNext => (\E b \in Builders : BuilderStep(b)) \/ UploadStep \/ StopStore
BY DEF StoreNext, UploadStep

(* Every step keeps FreshInv.                                              *)
LEMMA FreshNext == FreshInv /\ [StoreNext]_storeVars => FreshInv'
<1> SUFFICES ASSUME FreshInv, [StoreNext]_storeVars PROVE FreshInv'
  OBVIOUS
<1>1. CASE UNCHANGED storeVars
  BY <1>1 DEF storeVars, FreshInv, StoreTypeOK, NoOld
<1>2. CASE UploadStep
  <2>1. /\ UNCHANGED <<exists, store, builder, serving>>
        /\ upload' \in [pc : UploadPc, disk : SUBSET Entries, custom : BOOLEAN]
    BY <1>2, UploadStepAlone DEF FreshInv, StoreTypeOK
  <2> QED
    BY <2>1, FreshMove DEF FreshInv, StoreTypeOK
<1> QED
  BY <1>1, <1>2, FreshBuilderStep, FreshStop, StoreSteps

(* Whoever constructs registries, and whatever was left on the disk: once  *)
(* the server takes requests no entry is of an earlier version, and a      *)
(* manifest that is current is never beside one that is.                   *)
THEOREM NothingOldServed == StoreSpec => []FreshInv
<1>1. StoreInit => FreshInv
  BY FreshInit
<1>2. FreshInv /\ [StoreNext]_storeVars => FreshInv'
  BY FreshNext
<1> QED
  BY <1>1, <1>2, PTL DEF StoreSpec
------------------------------------------------------------------------------
(* What is current when, with one constructor at a time: its own decision  *)
(* that the manifest is not current stays true until it has written one.   *)
WholeInv ==
  /\ store[Manifest] = "current" => \A t \in Tables : store[t] = "current"
  /\ builder[Main].pc # "idle" => store[Manifest] # "current"
  /\ builder[Main].pc = "seeding" => \A t \in Tables \ builder[Main].todo : store[t] = "current"
  /\ builder[Main].pc = "writing" => \A t \in Tables : store[t] = "current"

(* A step of the only constructor keeps WholeInv.                          *)
LEMMA WholeMainStep ==
  ASSUME StoreTypeOK, WholeInv, BuilderStep(Main)
  PROVE  WholeInv'
<1> USE StoreAssumption DEF StoreTypeOK, WholeInv, Move, At
<1>1. CASE Construct(Main)
  <2>1. CASE store[Manifest] = "current"
    BY <1>1, <2>1 DEF Construct
  <2>2. CASE store[Manifest] # "current"
    BY <1>1, <2>2 DEF Construct
  <2> QED
    BY <2>1, <2>2
<1>2. CASE BeginWipe(Main)
  BY <1>2 DEF BeginWipe
<1>3. CASE RemoveDir(Main)
  BY <1>3 DEF RemoveDir
<1>4. CASE WipeRaises(Main)
  BY <1>4 DEF WipeRaises
<1>5. CASE MakeDir(Main)
  BY <1>5 DEF MakeDir
<1>6. CASE SeedFails(Main)
  BY <1>6 DEF SeedFails
<1>7. CASE OpenManifest(Main)
  BY <1>7 DEF OpenManifest, Entries
<1>8. CASE WriteManifest(Main)
  BY <1>8 DEF WriteManifest, Entries
<1>9. ASSUME NEW e \in Entries, Unlink(Main, e) PROVE WholeInv'
  BY <1>9 DEF Unlink, Entries
<1>10. ASSUME NEW t \in Tables, CopyTable(Main, t) PROVE WholeInv'
  BY <1>10 DEF CopyTable, Entries
<1> QED
  BY <1>1, <1>2, <1>3, <1>4, <1>5, <1>6, <1>7, <1>8, <1>9, <1>10 DEF BuilderStep

(* With the server alone, a current manifest always stands for a complete  *)
(* dataset, whatever was left on the disk, and however often and wherever  *)
(* its construction was killed or failed.                                  *)
THEOREM AloneRegisteredIsReal ==
  ASSUME Builders = {Main}
  PROVE  StoreSpec => []RegisteredIsReal
<1>1. StoreInit => WholeInv
  BY StoreAssumption DEF StoreInit, Leftover, WholeInv, Idle
<1>2. ASSUME FreshInv, WholeInv, [StoreNext]_storeVars PROVE WholeInv'
  <2>1. CASE UNCHANGED storeVars
    BY <1>2, <2>1 DEF storeVars, WholeInv
  <2>2. CASE BuilderStep(Main)
    BY <1>2, <2>2, WholeMainStep DEF FreshInv
  <2>3. CASE UploadStep
    <3>1. UNCHANGED <<exists, store, builder, serving>>
      BY <1>2, <2>3, UploadStepAlone DEF FreshInv, StoreTypeOK
    <3> QED
      BY <1>2, <3>1 DEF WholeInv
  <2>4. CASE StopStore
    BY <1>2, <2>4, StoreAssumption DEF StopStore, Idle, WholeInv
  <2> QED
    BY <1>2, <2>1, <2>2, <2>3, <2>4, StoreSteps
<1>3. WholeInv => RegisteredIsReal
  BY DEF WholeInv, RegisteredIsReal
<1>4. StoreSpec => []FreshInv
  BY NothingOldServed
<1>5. FreshInv /\ WholeInv /\ [StoreNext]_storeVars => WholeInv'
  BY <1>2
<1> QED
  BY <1>1, <1>3, <1>4, <1>5, PTL DEF StoreSpec
------------------------------------------------------------------------------
(* Where the upload is, and what of it is on the disk then.                *)
UploadInv ==
  /\ upload.pc \in {"none", "converting", "refused"} => Manifest \notin upload.disk /\ ~upload.custom
  /\ upload.pc \in {"registering", "accepted"} => Manifest \in upload.disk
  /\ upload.pc \notin {"withdrawn", "deleted"} /\ Manifest \in upload.disk => Tables \subseteq upload.disk
  /\ upload.pc \notin {"withdrawn", "deleted"} /\ upload.custom => Manifest \in upload.disk

(* An upload step keeps UploadInv.                                         *)
LEMMA UploadStepKeeps ==
  ASSUME upload \in [pc : UploadPc, disk : SUBSET Entries, custom : BOOLEAN],
         UploadInv, UploadStep
  PROVE  UploadInv'
<1> USE StoreAssumption DEF UploadInv
<1>1. CASE BeginUpload
  BY <1>1 DEF BeginUpload
<1>2. CASE WriteUploadManifest
  BY <1>2 DEF WriteUploadManifest
<1>3. CASE RegisterUpload
  BY <1>3 DEF RegisterUpload
<1>4. ASSUME NEW t \in Tables, ConvertTable(t) PROVE UploadInv'
  BY <1>4 DEF ConvertTable
<1>5. ASSUME NEW left \in SUBSET Entries, RefuseUpload(left) PROVE UploadInv'
  BY <1>5 DEF RefuseUpload
<1>6. ASSUME NEW left \in SUBSET Entries, DeleteUpload(left) PROVE UploadInv'
  BY <1>6 DEF DeleteUpload
<1> QED
  BY <1>1, <1>2, <1>3, <1>4, <1>5, <1>6 DEF UploadStep

(* An accepted upload is found after any restart, and one that is found    *)
(* has all its tables, whatever the constructions of registries do.        *)
THEOREM UploadAlwaysWhole == StoreSpec => []UploadIsWhole
<1>1. StoreInit => UploadInv
  BY DEF StoreInit, NoUpload, UploadInv
<1>2. ASSUME FreshInv, UploadInv, [StoreNext]_storeVars PROVE UploadInv'
  <2>1. CASE UNCHANGED upload
    BY <1>2, <2>1 DEF UploadInv
  <2>2. ASSUME NEW b \in Builders, BuilderStep(b) PROVE UNCHANGED upload
    BY <2>2 DEF BuilderStep, Construct, BeginWipe, RemoveDir, WipeRaises, MakeDir,
                OpenManifest, WriteManifest, SeedFails, Unlink, CopyTable
  <2>3. CASE UploadStep
    BY <1>2, <2>3, UploadStepKeeps DEF FreshInv, StoreTypeOK
  <2>4. CASE StopStore
    BY <1>2, <2>4 DEF StopStore, FreshInv, StoreTypeOK, UploadInv, UploadPc
  <2> QED
    BY <1>2, <2>1, <2>2, <2>3, <2>4, StoreSteps DEF storeVars
<1>3. UploadInv => UploadIsWhole
  BY DEF UploadInv, UploadIsWhole, Gettable
<1>4. StoreSpec => []FreshInv
  BY NothingOldServed
<1>5. FreshInv /\ UploadInv /\ [StoreNext]_storeVars => UploadInv'
  BY <1>2
<1> QED
  BY <1>1, <1>3, <1>4, <1>5, PTL DEF StoreSpec
==============================================================================
