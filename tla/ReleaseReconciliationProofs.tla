------------------------ MODULE ReleaseReconciliationProofs ------------------------
(***************************************************************************)
(* Proofs about ReleaseReconciliation for any assets, builds, tag objects  *)
(* and invocations, and any number of mishaps: ReconciliationInv is        *)
(* inductive and implies the four safety properties.                       *)
(***************************************************************************)
EXTENDS ReleaseReconciliation, TLAPS

-----------------------------------------------------------------------------
(* The invariant from which the four safety properties are proved. *)
Whole(b) == (\A n \in Asset : release.assets[n] = b) /\ release.assets[Foreign] = None

(* A final invocation is about all assets. *)
FinalOfAll ==
    \A i \in Invocation \ Drafting :
        run[i].pc # "idle" => run[i].local = Asset /\ run[i].expected = Asset

(* Only a final invocation freezes. *)
DraftingFreezesNot == \A i \in Drafting \cap Invocation : run[i].pc \notin {"retag", "finalize", "final"}

(* The release is there from the moment an invocation worked on it; before that,
   nothing of it is. *)
Working == {"created", "upload", "recheck", "retag", "finalize", "final", "bind", "done"}
WorkedOnExists == \A i \in Invocation : run[i].pc \in Working => release.exists
NothingBefore == ~release.exists => release = NoRelease

FrozenIsNoDraft == release.immutable => ~release.draft

(* Without an edit by hand, what the recheck saw is there until the release is frozen. *)
RecheckedStays ==
    ~edited => \A i \in Invocation \ Drafting :
        run[i].pc \in {"retag", "finalize"} => Whole(run[i].build)

(* Without an edit by hand, an asset has one uploader, and is there. *)
OneUploader ==
    ~edited =>
        /\ \A i \in Invocation : \A n \in run[i].uploaded : release.assets[n] # None
        /\ \A i, j \in Invocation : i # j => run[i].uploaded \cap run[j].uploaded = {}

ReconciliationInv ==
    /\ TypeOK
    /\ FinalOfAll /\ DraftingFreezesNot /\ WorkedOnExists /\ NothingBefore /\ FrozenIsNoDraft
    /\ RecheckedStays /\ OneUploader
    /\ SuccessIsExact /\ VerifiedRelease /\ FrozenFromOneBuild

-----------------------------------------------------------------------------
USE AssetAssumption, MishapAssumption, PromotedAssumption, MarkerAssumption

\* The initial state satisfies the invariant.
LEMMA InitInv ==
  ASSUME Init
  PROVE  ReconciliationInv
  <1>1. NoRelease \in Release
    BY DEF NoRelease, Release
  <1>2. \A b \in Build : Idle(b) \in Run
    BY DEF Idle, Run, Step
  <1>a. run \in [Invocation -> Run]
    BY <1>2 DEF Init
  <1>b. tag \in TagObject /\ mishaps \in 0 .. MaximumMishaps /\ proof \in TagObject \cup {None, Torn}
    BY DEF Init
  <1>c. release \in Release /\ enabled \in BOOLEAN /\ attested \in BOOLEAN /\ edited \in BOOLEAN
    BY <1>1, Zenon DEF Init
  <1>3. TypeOK
    BY <1>a, <1>b, <1>c DEF TypeOK
  <1>4. \A i \in Invocation : run[i].pc = "idle" /\ run[i].uploaded = {}
    BY DEF Init, Idle
  <1>5. FinalOfAll /\ DraftingFreezesNot /\ WorkedOnExists /\ NothingBefore /\ FrozenIsNoDraft
    BY <1>4 DEF Init, FinalOfAll, DraftingFreezesNot, WorkedOnExists, NothingBefore, FrozenIsNoDraft, Working, NoRelease
  <1>6. RecheckedStays /\ OneUploader
    BY <1>4 DEF RecheckedStays, OneUploader
  <1>7. SuccessIsExact /\ VerifiedRelease /\ FrozenFromOneBuild
    BY <1>4 DEF Init, SuccessIsExact, VerifiedRelease, FrozenFromOneBuild, NoRelease
  <1>8. QED
    BY <1>3, <1>5, <1>6, <1>7 DEF ReconciliationInv

-----------------------------------------------------------------------------
(* A step of one invocation that leaves the release alone.  `Advances' is what
   such a step has to keep to. *)
Advances(i) ==
    /\ UNCHANGED <<release, attested, edited>>
    /\ attested => proof' = proof
    /\ TypeOK'
    /\ \A j \in Invocation \ {i} : run'[j] = run[j]
    /\ run'[i].build = run[i].build
    /\ run'[i].uploaded \subseteq run[i].uploaded
    /\ i \notin Drafting /\ run'[i].pc # "idle" => run'[i].local = Asset /\ run'[i].expected = Asset
    /\ i \in Drafting => run'[i].pc \notin {"retag", "finalize", "final"}
    /\ run'[i].pc \in Working => release.exists
    /\ i \notin Drafting /\ run'[i].pc \in {"retag", "finalize"} /\ ~edited => Whole(run[i].build)
    /\ i \notin Drafting /\ run'[i].pc \in {"bind", "done"} =>
          /\ ~release.draft /\ release.immutable /\ release.promoted
          /\ Whole(run[i].build)

\* Such a step preserves the invariant.
LEMMA AdvancesInv ==
  ASSUME ReconciliationInv, NEW i \in Invocation, Advances(i)
  PROVE  ReconciliationInv'
  <1>1. TypeOK'
    BY DEF Advances
  <1>2. \A j \in Invocation : run'[j].build = run[j].build /\ run'[j].uploaded \subseteq run[j].uploaded
    BY DEF Advances
  <1>3. FinalOfAll' /\ DraftingFreezesNot' /\ WorkedOnExists'
    BY DEF Advances, ReconciliationInv, FinalOfAll, DraftingFreezesNot, WorkedOnExists
  <1>4. NothingBefore' /\ FrozenIsNoDraft'
    BY DEF Advances, ReconciliationInv, NothingBefore, FrozenIsNoDraft
  <1>5. RecheckedStays'
    BY DEF Advances, ReconciliationInv, RecheckedStays, Whole
  <1>6. OneUploader'
    BY <1>2 DEF Advances, ReconciliationInv, OneUploader
  <1>7. SuccessIsExact'
    BY DEF Advances, ReconciliationInv, SuccessIsExact, Whole
  <1>8. VerifiedRelease' /\ FrozenFromOneBuild'
    BY DEF Advances, ReconciliationInv, VerifiedRelease, FrozenFromOneBuild
  <1>9. QED
    BY <1>1, <1>3, <1>4, <1>5, <1>6, <1>7, <1>8 DEF ReconciliationInv

(* What a step that ends with an error, or goes on, does to the invocations. *)
LEMMA StopRun ==
  ASSUME TypeOK, NEW i \in Invocation, Stop(i)
  PROVE  /\ run' \in [Invocation -> Run]
         /\ \A j \in Invocation \ {i} : run'[j] = run[j]
         /\ run'[i] = Idle(run[i].build)
         /\ run'[i].pc = "idle" /\ run'[i].build = run[i].build /\ run'[i].uploaded = {}
  BY DEF TypeOK, Stop, Idle, Run, Step

LEMMA GoToRun ==
  ASSUME TypeOK, NEW i \in Invocation, NEW pc \in Step, GoTo(i, pc)
  PROVE  /\ run' \in [Invocation -> Run]
         /\ \A j \in Invocation \ {i} : run'[j] = run[j]
         /\ run'[i].pc = pc /\ run'[i].build = run[i].build
         /\ run'[i].local = run[i].local /\ run'[i].expected = run[i].expected
         /\ run'[i].uploaded = run[i].uploaded
  BY DEF TypeOK, GoTo, Run

LEMMA SpendBound ==
  ASSUME TypeOK, NEW mishap, Spend(mishap)
  PROVE  mishaps' \in 0 .. MaximumMishaps
  <1>1. mishaps \in 0 .. MaximumMishaps
    BY DEF TypeOK
  <1>2. QED
    BY <1>1 DEF Spend

\* A step that only ends an invocation preserves the invariant.
LEMMA StopInv ==
  ASSUME ReconciliationInv, NEW i \in Invocation, Stop(i),
         UNCHANGED <<remote, proof, attested, edited>>, mishaps' \in 0 .. MaximumMishaps
  PROVE  ReconciliationInv'
  <1>1. TypeOK
    BY DEF ReconciliationInv
  <1>2. TypeOK'
    BY <1>1, StopRun DEF TypeOK, remote
  <1>3. Advances(i)
    BY <1>1, <1>2, StopRun DEF Advances, remote, Working
  <1>4. QED
    BY <1>3, AdvancesInv

\* Checks before the release is looked at.
LEMMA EarlyCheckInv ==
  ASSUME ReconciliationInv, NEW i \in Invocation,
         CheckPolicy(i) \/ ReadTag(i) \/ FindNone(i) \/ Retag(i)
  PROVE  ReconciliationInv'
  <1>0. TypeOK
    BY DEF ReconciliationInv
  <1>1. CASE Stop(i) /\ UNCHANGED <<remote, proof, attested, mishaps, edited>>
    BY <1>0, <1>1, StopInv DEF TypeOK
  <1>2. CASE CheckPolicy(i) /\ GoTo(i, "tag")
    <2>1. TypeOK'
      BY <1>0, <1>2, GoToRun DEF TypeOK, CheckPolicy, remote, Step
    <2>2. Advances(i)
      BY <1>0, <1>2, <2>1, GoToRun DEF Advances, CheckPolicy, remote, Working, Step, ReconciliationInv, FinalOfAll,
         DraftingFreezesNot
    <2>3. QED
      BY <2>2, AdvancesInv
  <1>3. CASE ReadTag(i) /\ run' = [run EXCEPT ![i].pc = "lookup", ![i].bound = tag]
    <2>r. run[i] \in Run /\ tag \in TagObject /\ run \in [Invocation -> Run]
      BY <1>0 DEF TypeOK
    <2>b. [run[i] EXCEPT !.pc = "lookup", !.bound = tag] \in Run
      BY <2>r DEF Run, Step
    <2>c. run' = [run EXCEPT ![i] = [run[i] EXCEPT !.pc = "lookup", !.bound = tag]]
      BY <1>3, <2>r DEF Run
    <2>a. run' \in [Invocation -> Run]
      BY <2>r, <2>b, <2>c
    <2>1. TypeOK'
      BY <1>0, <1>3, <2>a DEF TypeOK, ReadTag, remote
    <2>2. Advances(i)
      BY <1>0, <1>3, <2>1 DEF TypeOK, Advances, ReadTag, remote, Working, Step, ReconciliationInv, FinalOfAll,
         DraftingFreezesNot
    <2>3. QED
      BY <2>2, AdvancesInv
  <1>4. CASE FindNone(i)
    <2>1. TypeOK'
      BY <1>0, <1>4, GoToRun DEF TypeOK, FindNone, remote, Step
    <2>2. Advances(i)
      BY <1>0, <1>4, <2>1, GoToRun DEF Advances, FindNone, remote, Working, Step, ReconciliationInv, FinalOfAll,
         DraftingFreezesNot
    <2>3. QED
      BY <2>2, AdvancesInv
  <1>5. CASE Retag(i) /\ GoTo(i, "finalize")
    <2>1. TypeOK'
      BY <1>0, <1>5, GoToRun DEF TypeOK, Retag, remote, Step
    <2>2. Advances(i)
      BY <1>0, <1>5, <2>1, GoToRun DEF Advances, Retag, remote, Working, Step, ReconciliationInv, FinalOfAll,
         WorkedOnExists, RecheckedStays, DraftingFreezesNot
    <2>3. QED
      BY <2>2, AdvancesInv
  <1>6. QED
    BY <1>1, <1>2, <1>3, <1>4, <1>5 DEF CheckPolicy, ReadTag, Retag, Demand

\* The beginning of an invocation.
LEMMA BeginInv ==
  ASSUME ReconciliationInv, NEW i \in Invocation, Begin(i)
  PROVE  ReconciliationInv'
  <1>0. TypeOK /\ run[i] \in Run /\ run \in [Invocation -> Run] /\ proof \in TagObject \cup {None}
    BY DEF ReconciliationInv, TypeOK, Begin
  <1>1. PICK local \in SUBSET Asset, expected \in SUBSET Asset :
           /\ i \notin Drafting => local = Asset /\ expected = local
           /\ run' = [run EXCEPT ![i] = [@ EXCEPT !.pc = "policy", !.local = local,
                                                  !.expected = expected, !.bound = proof]]
    BY DEF Begin
  <1>2. [run[i] EXCEPT !.pc = "policy", !.local = local, !.expected = expected, !.bound = proof] \in Run
    BY <1>0 DEF Run, Step
  <1>3. run' \in [Invocation -> Run]
    BY <1>0, <1>1, <1>2
  <1>4. TypeOK'
    BY <1>0, <1>3 DEF TypeOK, Begin, remote
  <1>5. Advances(i)
    BY <1>0, <1>1, <1>4 DEF Advances, Begin, remote, Run, Working
  <1>6. QED
    BY <1>5, AdvancesInv

\* The first look at a release that is there.
LEMMA ExamineInv ==
  ASSUME ReconciliationInv, NEW i \in Invocation, Examine(i)
  PROVE  ReconciliationInv'
  <1>0. TypeOK /\ run[i] \in Run /\ run \in [Invocation -> Run]
    BY DEF ReconciliationInv, TypeOK
  <1>1. CASE Stop(i)
    BY <1>0, <1>1, StopInv DEF TypeOK, Examine
  <1>2. CASE ~Stop(i)
    <2>1. PICK missing \in SUBSET Asset, pc \in {"recheck", "upload"} :
             run' = [run EXCEPT ![i].pc = pc, ![i].todo = missing]
      BY <1>0, <1>2 DEF Examine, Run
    <2>2. [run[i] EXCEPT !.pc = pc, !.todo = missing] \in Run
      BY <1>0 DEF Run, Step
    <2>3. run' = [run EXCEPT ![i] = [run[i] EXCEPT !.pc = pc, !.todo = missing]]
      BY <1>0, <2>1 DEF Run
    <2>4. run' \in [Invocation -> Run]
      BY <1>0, <2>2, <2>3
    <2>5. TypeOK'
      BY <1>0, <2>4 DEF TypeOK, Examine, remote
    <2>6. Advances(i)
      BY <1>0, <2>3, <2>5 DEF Advances, Examine, remote, Run, Working, ReconciliationInv, FinalOfAll
    <2>7. QED
      BY <2>6, AdvancesInv
  <1>3. QED
    BY <1>1, <1>2

\* The second look: a final invocation goes on only with every asset of its build.
LEMMA RecheckInv ==
  ASSUME ReconciliationInv, NEW i \in Invocation, Recheck(i)
  PROVE  ReconciliationInv'
  <1>0. TypeOK
    BY DEF ReconciliationInv
  <1>1. CASE Stop(i)
    BY <1>0, <1>1, StopInv DEF TypeOK, Recheck
  <1>2. CASE ~Stop(i)
    <2>1. PICK pc \in {"bind", "retag", "final"} :
             /\ GoTo(i, pc)
             /\ i \in Drafting <=> pc = "bind"
      BY <1>2 DEF Recheck, Demand
    <2>2. release.exists /\ (i \notin Drafting => Observed = run[i].expected /\ Identical(i, run[i].local))
      BY <1>2 DEF Recheck, Demand
    <2>3. i \notin Drafting => Whole(run[i].build)
      BY <1>0, <2>2 DEF ReconciliationInv, FinalOfAll, Whole, Observed, Identical, Name, Recheck
    <2>4. TypeOK'
      BY <1>0, <2>1, GoToRun DEF TypeOK, Recheck, remote, Step
    <2>5. Advances(i)
      BY <1>0, <2>1, <2>2, <2>3, <2>4, GoToRun DEF Advances, Recheck, remote, Step, ReconciliationInv, FinalOfAll
    <2>6. QED
      BY <2>5, AdvancesInv
  <1>3. QED
    BY <1>1, <1>2

\* The last look: what it accepts is frozen.
LEMMA FinalCheckInv ==
  ASSUME ReconciliationInv, NEW i \in Invocation, FinalCheck(i)
  PROVE  ReconciliationInv'
  <1>0. TypeOK
    BY DEF ReconciliationInv
  <1>1. CASE Stop(i)
    BY <1>0, <1>1, StopInv DEF TypeOK, FinalCheck
  <1>2. CASE ~Stop(i)
    <2>1. /\ GoTo(i, "bind") /\ i \notin Drafting
          /\ release.exists /\ ~release.draft /\ release.immutable /\ release.promoted
          /\ Observed = run[i].local /\ Identical(i, run[i].local)
      BY <1>2 DEF FinalCheck, Demand, ValidRelease, ReconciliationInv, DraftingFreezesNot
    <2>2. Whole(run[i].build)
      BY <1>0, <2>1 DEF ReconciliationInv, FinalOfAll, Whole, Observed, Identical, Name, FinalCheck
    <2>3. TypeOK'
      BY <1>0, <2>1, GoToRun DEF TypeOK, FinalCheck, remote, Step
    <2>4. Advances(i)
      BY <1>0, <2>1, <2>2, <2>3, GoToRun DEF Advances, FinalCheck, remote, Step, ReconciliationInv, FinalOfAll
    <2>5. QED
      BY <2>4, AdvancesInv
  <1>3. QED
    BY <1>1, <1>2

\* The durable proof is written, or a write is torn.
LEMMA BindInv ==
  ASSUME ReconciliationInv, NEW i \in Invocation, Bind(i) \/ TearProof(i)
  PROVE  ReconciliationInv'
  <1>0. TypeOK /\ run[i] \in Run
    BY DEF ReconciliationInv, TypeOK
  <1>1. attested => proof # None
    BY DEF ReconciliationInv, VerifiedRelease
  <1>2. proof' \in TagObject \cup {None, Torn}
    BY <1>0 DEF TypeOK, Bind, TearProof, Run
  <1>3. mishaps' \in 0 .. MaximumMishaps
    BY <1>0, SpendBound DEF TypeOK, Bind, TearProof
  <1>4. CASE Stop(i)
    <2>1. TypeOK'
      BY <1>0, <1>2, <1>3, <1>4, StopRun DEF TypeOK, Bind, TearProof, remote
    <2>2. Advances(i)
      BY <1>0, <1>1, <1>4, <2>1, StopRun DEF Advances, Bind, TearProof, remote, Working
    <2>3. QED
      BY <2>2, AdvancesInv
  <1>5. CASE ~Stop(i)
    <2>1. GoTo(i, "done") /\ run[i].pc = "bind" /\ Bind(i)
      BY <1>5 DEF Bind, TearProof, Demand
    <2>2. TypeOK'
      BY <1>0, <1>2, <1>3, <2>1, GoToRun DEF TypeOK, Bind, remote, Step
    <2>3. Advances(i)
      BY <1>0, <1>1, <2>1, <2>2, GoToRun DEF Advances, Bind, remote, Step, Working, ReconciliationInv,
         FinalOfAll, WorkedOnExists, SuccessIsExact, Whole
    <2>4. QED
      BY <2>3, AdvancesInv
  <1>6. QED
    BY <1>4, <1>5


-----------------------------------------------------------------------------
(* A step that adds to a release that is not frozen. *)
Adds(i) ==
    /\ ~release.immutable /\ ~release'.immutable
    /\ release.exists => release'.exists
    /\ ~release'.exists => release' = NoRelease
    /\ \A n \in Asset : release.assets[n] # None => release'.assets[n] = release.assets[n]
    /\ release'.assets[Foreign] = release.assets[Foreign]
    /\ UNCHANGED <<proof, attested, edited>>
    /\ TypeOK'
    /\ \A j \in Invocation \ {i} : run'[j] = run[j]
    /\ run'[i].build = run[i].build
    /\ run'[i].pc \notin {"retag", "finalize", "final", "bind", "done"}
    /\ run'[i].uploaded \subseteq Asset
    /\ \A n \in run'[i].uploaded \ run[i].uploaded : release.assets[n] = None /\ release'.assets[n] # None
    /\ i \notin Drafting /\ run'[i].pc # "idle" => run'[i].local = Asset /\ run'[i].expected = Asset
    /\ run'[i].pc \in Working => release'.exists

\* Such a step preserves the invariant.
LEMMA AddsInv ==
  ASSUME ReconciliationInv, NEW i \in Invocation, Adds(i)
  PROVE  ReconciliationInv'
  <1>0. TypeOK /\ \A j \in Invocation : run[j] \in Run
    BY DEF ReconciliationInv, TypeOK
  <1>1. TypeOK'
    BY DEF Adds
  <1>2. FinalOfAll' /\ DraftingFreezesNot' /\ WorkedOnExists'
    BY DEF Adds, ReconciliationInv, FinalOfAll, DraftingFreezesNot, WorkedOnExists
  <1>3. NothingBefore' /\ FrozenIsNoDraft'
    BY DEF Adds, NothingBefore, FrozenIsNoDraft
  <1>4. RecheckedStays'
    <2>1. SUFFICES ASSUME ~edited', NEW j \in Invocation \ Drafting, run'[j].pc \in {"retag", "finalize"}
                   PROVE  Whole(run[j].build)' /\ run'[j].build = run[j].build
      BY DEF RecheckedStays, Whole
    <2>2. j # i /\ run'[j] = run[j] /\ Whole(run[j].build)
      BY <2>1 DEF Adds, ReconciliationInv, RecheckedStays
    <2>3. run[j].build # None
      BY <1>0 DEF Run
    <2>4. QED
      BY <2>2, <2>3 DEF Adds, Whole
  <1>5. OneUploader'
    <2>1. SUFFICES ASSUME ~edited
                   PROVE  OneUploader'
      BY DEF Adds, OneUploader
    <2>2. \A j \in Invocation : \A n \in run'[j].uploaded :
             \/ n \in run[j].uploaded /\ release.assets[n] # None
             \/ j = i /\ release.assets[n] = None /\ release'.assets[n] # None
      BY <2>1 DEF Adds, ReconciliationInv, OneUploader
    <2>3. \A j \in Invocation : \A n \in run'[j].uploaded : release'.assets[n] # None
      BY <1>0, <2>1, <2>2 DEF Adds, Run
    <2>4. \A j, k \in Invocation : j # k => run[j].uploaded \cap run[k].uploaded = {}
      BY <2>1 DEF ReconciliationInv, OneUploader
    <2>5. \A j, k \in Invocation : j # k => run'[j].uploaded \cap run'[k].uploaded = {}
      BY <2>2, <2>4
    <2>6. QED
      BY <2>3, <2>5 DEF OneUploader
  <1>6. SuccessIsExact'
    BY DEF Adds, ReconciliationInv, SuccessIsExact
  <1>7. VerifiedRelease' /\ FrozenFromOneBuild'
    BY DEF Adds, ReconciliationInv, VerifiedRelease, FrozenFromOneBuild
  <1>8. QED
    BY <1>1, <1>2, <1>3, <1>4, <1>5, <1>6, <1>7 DEF ReconciliationInv

\* A draft is created where there was nothing.
LEMMA CreatedRelease ==
  ASSUME ReconciliationInv, ~release.exists, release' = DraftCreated
  PROVE  /\ release' \in Release /\ release'.exists /\ ~release.immutable /\ ~release'.immutable
         /\ \A n \in Name : release.assets[n] = None /\ release'.assets[n] = None
  <1>1. release = NoRelease
    BY DEF ReconciliationInv, NothingBefore
  <1>2. QED
    BY <1>1 DEF NoRelease, DraftCreated, Release

LEMMA CreateInv ==
  ASSUME ReconciliationInv, NEW i \in Invocation, Create(i)
  PROVE  ReconciliationInv'
  <1>0. TypeOK /\ run[i] \in Run
    BY DEF ReconciliationInv, TypeOK
  <1>1. CASE release.exists
    <2>1. Stop(i) /\ UNCHANGED <<remote, proof, attested, edited>> /\ mishaps' \in 0 .. MaximumMishaps
      BY <1>0, <1>1 DEF Create, Demand, remote, TypeOK
    <2>2. QED
      BY <2>1, StopInv
  <1>2. CASE ~release.exists
    <2>1. release' = DraftCreated /\ GoTo(i, "created") /\ run[i].pc = "create"
      BY <1>2 DEF Create, Demand
    <2>2. TypeOK'
      BY <1>0, <1>2, <2>1, GoToRun, CreatedRelease DEF TypeOK, Create, Step
    <2>3. Adds(i)
      BY <1>0, <1>2, <2>1, <2>2, GoToRun, CreatedRelease
         DEF Adds, Create, Step, Name, ReconciliationInv, FinalOfAll, Run
    <2>4. QED
      BY <2>3, AddsInv
  <1>3. QED
    BY <1>1, <1>2

\* An asset is added, whole or not.
LEMMA AddedAsset ==
  ASSUME ReconciliationInv, NEW n \in Asset, NEW value \in Build \cup {Partial}, Accepts(n),
         release' = [release EXCEPT !.assets[n] = value]
  PROVE  /\ release' \in Release /\ release.exists /\ release'.exists
         /\ ~release.immutable /\ ~release'.immutable
         /\ release.assets[n] = None /\ release'.assets[n] = value /\ value # None
         /\ \A m \in Name \ {n} : release'.assets[m] = release.assets[m]
  BY DEF ReconciliationInv, TypeOK, Release, Accepts, Name

LEMMA UploadInv ==
  ASSUME ReconciliationInv, NEW i \in Invocation, Upload(i)
  PROVE  ReconciliationInv'
  <1>0. TypeOK /\ run[i] \in Run /\ run \in [Invocation -> Run]
    BY DEF ReconciliationInv, TypeOK
  <1>1. CASE Stop(i) /\ UNCHANGED release
    BY <1>0, <1>1, StopInv DEF TypeOK, Upload, remote
  <1>2. CASE ~(Stop(i) /\ UNCHANGED release)
    <2>1. PICK n \in Asset, pc \in {"recheck", "upload"} :
             /\ Accepts(n)
             /\ release' = [release EXCEPT !.assets[n] = run[i].build]
             /\ run' = [run EXCEPT ![i].todo = @ \ {n}, ![i].uploaded = @ \cup {n}, ![i].pc = pc]
      BY <1>0, <1>2 DEF Upload, Run
    <2>2. [run[i] EXCEPT !.todo = @ \ {n}, !.uploaded = @ \cup {n}, !.pc = pc] \in Run
      BY <1>0 DEF Run, Step
    <2>3. run' = [run EXCEPT ![i] = [run[i] EXCEPT !.todo = @ \ {n}, !.uploaded = @ \cup {n}, !.pc = pc]]
      BY <1>0, <2>1 DEF Run
    <2>4. run' \in [Invocation -> Run]
      BY <1>0, <2>2, <2>3
    <2>5. /\ \A j \in Invocation \ {i} : run'[j] = run[j]
          /\ run'[i].pc = pc /\ run'[i].build = run[i].build
          /\ run'[i].uploaded = run[i].uploaded \cup {n}
          /\ run'[i].local = run[i].local /\ run'[i].expected = run[i].expected
          /\ run[i].build \in Build /\ run[i].uploaded \subseteq Asset
      BY <1>0, <2>3 DEF Run
    <2>6. TypeOK'
      BY <1>0, <2>1, <2>4, <2>5, AddedAsset DEF TypeOK, Upload
    <2>7. Adds(i)
      BY <1>0, <2>1, <2>5, <2>6, AddedAsset DEF Adds, Upload, Name, ReconciliationInv, FinalOfAll
    <2>8. QED
      BY <2>7, AddsInv
  <1>3. QED
    BY <1>1, <1>2

LEMMA BreakUploadInv ==
  ASSUME ReconciliationInv, NEW i \in Invocation, BreakUpload(i)
  PROVE  ReconciliationInv'
  <1>0. TypeOK /\ mishaps' \in 0 .. MaximumMishaps
    BY SpendBound DEF ReconciliationInv, BreakUpload
  <1>1. PICK n \in Asset : Accepts(n) /\ release' = [release EXCEPT !.assets[n] = Partial]
    BY DEF BreakUpload
  <1>2. Stop(i) /\ UNCHANGED <<tag, enabled, proof, attested, edited>>
    BY DEF BreakUpload
  <1>3. TypeOK'
    BY <1>0, <1>1, <1>2, AddedAsset, StopRun DEF TypeOK
  <1>4. Adds(i)
    BY <1>0, <1>1, <1>2, <1>3, AddedAsset, StopRun DEF Adds, Name, Working
  <1>5. QED
    BY <1>4, AddsInv


-----------------------------------------------------------------------------
\* The release is frozen, if the policy says so, as the recheck left it.
LEMMA FreezeInv ==
  ASSUME ReconciliationInv, NEW i \in Invocation, run[i].pc = "finalize",
         release' = Published, UNCHANGED <<proof, attested, edited>>, TypeOK',
         \A j \in Invocation \ {i} : run'[j] = run[j],
         run'[i].build = run[i].build, run'[i].pc \in {"final", "idle"},
         run'[i].pc = "final" => run'[i].local = run[i].local /\ run'[i].expected = run[i].expected,
         run'[i].uploaded \subseteq run[i].uploaded
  PROVE  ReconciliationInv'
  <1>0. TypeOK /\ release \in Release /\ i \notin Drafting /\ release.exists
    BY DEF ReconciliationInv, TypeOK, DraftingFreezesNot, WorkedOnExists, Working
  <1>1. /\ release'.exists /\ release'.assets = release.assets /\ ~release'.draft
        /\ release'.promoted = release.promoted
        /\ ~release.draft => release' = release
        /\ release.immutable => release' = release
    BY <1>0 DEF Published, Release, ReconciliationInv, FrozenIsNoDraft
  <1>2. FinalOfAll' /\ DraftingFreezesNot' /\ WorkedOnExists' /\ NothingBefore' /\ FrozenIsNoDraft'
    BY <1>0, <1>1 DEF ReconciliationInv, FinalOfAll, DraftingFreezesNot, WorkedOnExists, NothingBefore,
       FrozenIsNoDraft
  <1>3. RecheckedStays'
    BY <1>1 DEF ReconciliationInv, RecheckedStays, Whole
  <1>4. OneUploader'
    <2>1. \A j \in Invocation : run'[j].uploaded \subseteq run[j].uploaded
      OBVIOUS
    <2>2. QED
      BY <1>1, <2>1 DEF ReconciliationInv, OneUploader
  <1>5. SuccessIsExact'
    BY <1>1 DEF ReconciliationInv, SuccessIsExact
  <1>6. VerifiedRelease'
    BY <1>1 DEF ReconciliationInv, VerifiedRelease
  <1>7. FrozenFromOneBuild'
    <2>1. SUFFICES ASSUME ~edited
                   PROVE  \E b \in Build : Whole(b)
      BY <1>1 DEF FrozenFromOneBuild, Whole
    <2>2. Whole(run[i].build) /\ run[i].build \in Build
      BY <1>0, <2>1 DEF ReconciliationInv, RecheckedStays, TypeOK, Run
    <2>3. QED
      BY <2>2
  <1>8. QED
    BY <1>2, <1>3, <1>4, <1>5, <1>6, <1>7 DEF ReconciliationInv

LEMMA PublishedRelease ==
  ASSUME TypeOK, release' = Published
  PROVE  release' \in Release
  BY DEF TypeOK, Published, Release

LEMMA FinalizeInv ==
  ASSUME ReconciliationInv, NEW i \in Invocation, Finalize(i)
  PROVE  ReconciliationInv'
  <1>0. TypeOK
    BY DEF ReconciliationInv
  <1>1. TypeOK'
    BY <1>0, GoToRun, PublishedRelease DEF TypeOK, Finalize, Step
  <1>2. QED
    BY <1>0, <1>1, GoToRun, FreezeInv DEF Finalize, Step

\* Each of the three calls had its effect, and the invocation ends.
LEMMA LoseAnswerInv ==
  ASSUME ReconciliationInv, NEW i \in Invocation, LoseAnswer(i)
  PROVE  ReconciliationInv'
  <1>0. TypeOK /\ mishaps' \in 0 .. MaximumMishaps
    BY SpendBound DEF ReconciliationInv, LoseAnswer
  <1>1. Stop(i) /\ UNCHANGED <<tag, enabled, proof, attested, edited>>
    BY DEF LoseAnswer
  <1>2. CASE ~release.exists /\ release' = DraftCreated
    <2>1. TypeOK'
      BY <1>0, <1>1, <1>2, CreatedRelease, StopRun DEF TypeOK
    <2>2. Adds(i)
      BY <1>0, <1>1, <1>2, <2>1, CreatedRelease, StopRun DEF Adds, Name, Working
    <2>3. QED
      BY <2>2, AddsInv
  <1>3. CASE \E n \in Asset : Accepts(n) /\ release' = [release EXCEPT !.assets[n] = run[i].build]
    <2>1. PICK n \in Asset : Accepts(n) /\ release' = [release EXCEPT !.assets[n] = run[i].build]
      BY <1>3
    <2>2. run[i].build \in Build
      BY <1>0 DEF TypeOK, Run
    <2>3. TypeOK'
      BY <1>0, <1>1, <2>1, <2>2, AddedAsset, StopRun DEF TypeOK
    <2>4. Adds(i)
      BY <1>0, <1>1, <2>1, <2>2, <2>3, AddedAsset, StopRun DEF Adds, Name, Working
    <2>5. QED
      BY <2>4, AddsInv
  <1>4. CASE run[i].pc = "finalize" /\ release' = Published
    <2>1. TypeOK'
      BY <1>0, <1>1, <1>4, PublishedRelease, StopRun DEF TypeOK
    <2>2. QED
      BY <1>0, <1>1, <1>4, <2>1, StopRun, FreezeInv
  <1>5. QED
    BY <1>2, <1>3, <1>4 DEF LoseAnswer

\* The attestation is verified.
LEMMA AttestInv ==
  ASSUME ReconciliationInv, Attest
  PROVE  ReconciliationInv'
  <1>0. TypeOK /\ proof \in Promoted /\ release.tagged = proof
    BY DEF ReconciliationInv, Attest
  <1>1. PICK i \in Invocation \ Drafting : run[i].pc = "done"
    BY DEF Attest
  <1>2. release.immutable /\ Whole(run[i].build) /\ run[i].build \in Build
    BY <1>0, <1>1 DEF ReconciliationInv, SuccessIsExact, Whole, TypeOK, Run
  <1>3. VerifiedRelease'
    BY <1>0, <1>2 DEF VerifiedRelease, Attest, remote, Whole
  <1>4. TypeOK'
    <2>1. attested' \in BOOLEAN
      BY Zenon DEF Attest
    <2>2. QED
      BY <1>0, <2>1 DEF TypeOK, Attest, remote
  <1>5. QED
    BY <1>3, <1>4 DEF Attest, remote, ReconciliationInv, FinalOfAll, DraftingFreezesNot, WorkedOnExists,
       NothingBefore, FrozenIsNoDraft, RecheckedStays, OneUploader, SuccessIsExact, FrozenFromOneBuild, Whole

\* The tag is moved, or the policy of the repository is switched.
LEMMA RepositoryInv ==
  ASSUME ReconciliationInv, MoveTag \/ SwitchPolicy
  PROVE  ReconciliationInv'
  <1>0. TypeOK /\ mishaps' \in 0 .. MaximumMishaps
    BY SpendBound DEF ReconciliationInv, MoveTag, SwitchPolicy
  <1>1. tag' \in TagObject
    BY <1>0 DEF TypeOK, MoveTag, SwitchPolicy
  <1>2. enabled' \in BOOLEAN
    BY <1>0, Zenon DEF TypeOK, MoveTag, SwitchPolicy
  <1>3. TypeOK' /\ UNCHANGED <<release, proof, run, attested, edited>>
    BY <1>0, <1>1, <1>2 DEF TypeOK, MoveTag, SwitchPolicy
  <1>4. QED
    BY <1>3 DEF ReconciliationInv, FinalOfAll, DraftingFreezesNot, WorkedOnExists,
       NothingBefore, FrozenIsNoDraft, RecheckedStays, OneUploader, SuccessIsExact, VerifiedRelease,
       FrozenFromOneBuild, Whole

\* The draft is changed by hand: it is not frozen, so nothing was reported of it.
LEMMA EditDraftInv ==
  ASSUME ReconciliationInv, EditDraft
  PROVE  ReconciliationInv'
  <1>0. TypeOK /\ release \in Release /\ mishaps' \in 0 .. MaximumMishaps
    BY SpendBound DEF ReconciliationInv, EditDraft, TypeOK
  <1>1. release.exists /\ ~release.immutable /\ edited' /\ UNCHANGED <<tag, enabled, proof, run, attested>>
    BY DEF EditDraft
  <1>2. release' \in Release /\ release'.exists /\ ~release'.immutable
    <2>1. CASE release' = [release EXCEPT !.promoted = ~@]
      BY <1>0, <1>1, <2>1 DEF Release
    <2>2. CASE \E n \in Name, b \in Build \cup {None} : release' = [release EXCEPT !.assets[n] = b]
      BY <1>0, <1>1, <2>2 DEF Release
    <2>3. QED
      BY <2>1, <2>2 DEF EditDraft, Name, Observed
  <1>3. TypeOK'
    <2>1. edited' \in BOOLEAN
      BY Zenon DEF EditDraft
    <2>2. QED
      BY <1>0, <1>1, <1>2, <2>1 DEF TypeOK
  <1>4. FinalOfAll' /\ DraftingFreezesNot' /\ WorkedOnExists' /\ NothingBefore' /\ FrozenIsNoDraft'
    BY <1>1, <1>2 DEF ReconciliationInv, FinalOfAll, DraftingFreezesNot, WorkedOnExists, NothingBefore,
       FrozenIsNoDraft
  <1>5. RecheckedStays' /\ OneUploader' /\ FrozenFromOneBuild'
    BY <1>1 DEF RecheckedStays, OneUploader, FrozenFromOneBuild
  <1>6. SuccessIsExact' /\ VerifiedRelease'
    BY <1>1, <1>2 DEF ReconciliationInv, SuccessIsExact, VerifiedRelease
  <1>7. QED
    BY <1>3, <1>4, <1>5, <1>6 DEF ReconciliationInv

-----------------------------------------------------------------------------
\* Every step preserves the invariant.
LEMMA NextInv ==
  ASSUME ReconciliationInv, [Next]_vars
  PROVE  ReconciliationInv'
  <1>1. CASE UNCHANGED vars
    BY <1>1 DEF vars, ReconciliationInv, TypeOK, FinalOfAll, DraftingFreezesNot, WorkedOnExists,
       NothingBefore, FrozenIsNoDraft, RecheckedStays, OneUploader, SuccessIsExact, VerifiedRelease,
       FrozenFromOneBuild, Whole
  <1>2. CASE \E i \in Invocation : Call(i)
    BY <1>2, EarlyCheckInv, CreateInv, ExamineInv, UploadInv, RecheckInv, FinalizeInv, FinalCheckInv, BindInv
       DEF Call
  <1>3. CASE \E i \in Invocation : Crash(i)
    <2>1. PICK i \in Invocation : Crash(i)
      BY <1>3
    <2>2. TypeOK /\ mishaps' \in 0 .. MaximumMishaps
      BY <2>1, SpendBound DEF ReconciliationInv, Crash
    <2>3. QED
      BY <2>1, <2>2, StopInv DEF Crash
  <1>4. QED
    BY <1>1, <1>2, <1>3, BeginInv, LoseAnswerInv, BreakUploadInv, BindInv, AttestInv, RepositoryInv,
       EditDraftInv DEF Next

\* ReconciliationInv, with type correctness, holds in every reachable state.
THEOREM ReconciliationInvariant == Spec => []ReconciliationInv
  <1>1. Init => ReconciliationInv
    BY InitInv
  <1>2. ReconciliationInv /\ [Next]_vars => ReconciliationInv'
    BY NextInv
  <1>3. QED
    BY <1>1, <1>2, PTL DEF Spec

\* A successful final invocation reports what is, and what remains: the release is frozen
\* with the bytes it was given.
THEOREM SuccessExact == Spec => []SuccessIsExact
  <1>1. ReconciliationInv => SuccessIsExact
    BY DEF ReconciliationInv
  <1>2. QED
    BY <1>1, ReconciliationInvariant, PTL

\* An attested release is complete, of one build, and frozen on the promoted tag object.
THEOREM AttestedRelease == Spec => []VerifiedRelease
  <1>1. ReconciliationInv => VerifiedRelease
    BY DEF ReconciliationInv
  <1>2. QED
    BY <1>1, ReconciliationInvariant, PTL

\* Invocations with different bytes do not mix them in a frozen release.
THEOREM FrozenOfOneBuild == Spec => []FrozenFromOneBuild
  <1>1. ReconciliationInv => FrozenFromOneBuild
    BY DEF ReconciliationInv
  <1>2. QED
    BY <1>1, ReconciliationInvariant, PTL

\* An asset is claimed by one invocation.
THEOREM OneGuard == Spec => []GuardClaimedOnce
  <1>1. ReconciliationInv => GuardClaimedOnce
    BY DEF ReconciliationInv, OneUploader, GuardClaimedOnce
  <1>2. QED
    BY <1>1, ReconciliationInvariant, PTL

================================================================================
