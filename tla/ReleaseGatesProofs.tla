-------------------------- MODULE ReleaseGatesProofs --------------------------
(***************************************************************************)
(* Proofs about ReleaseGates for any commits, edits, reports, requests and *)
(* advisories, and any number of gates: GatesInv is inductive and implies  *)
(* that what a gate accepts was of the requested commit, of the dispatched *)
(* digest, fresh, free of blocking advisories, from one core run, and      *)
(* signed once, by the pinned key.                                         *)
(***************************************************************************)
EXTENDS ReleaseGates, TLAPS, SequenceTheorems, WellFoundedInduction

-----------------------------------------------------------------------------
Contents == UNION {{content.version, content.core, content.text, content.graph} :
                   content \in Commit \cup Edit}

PromotionPc == {"digest", "head", "clean", "version", "load"}
IntentPc == {"head", "clean", "lock", "metadata", "write", "output"}
DocsPc == {"config", "head", "clean", "text", "source", "literal", "replace", "close", "archive"}
ScanPc == {"head", "inputs", "graph", "scan"}
Pc == {"idle"} \cup PromotionPc \cup IntentPc \cup DocsPc \cup ScanPc

Run == [gate : {"none", "promotion", "intent", "docs", "scan"}, pc : Pc,
        request : Request \cup {None}, now : Nat, clean : BOOLEAN, read : Seq(Contents),
        moved : SUBSET Pc, replaced : SUBSET Pc]

Types ==
    /\ head \in Commit /\ files \in Commit \cup Edit
    /\ report \in Report
    /\ clock \in Nat
    /\ run \in Run

Still(pcs) == run.moved \cap pcs = {}

(* Where a promotion is, what it has seen of the tree and of the report. *)
PromotionRun ==
    run.gate = "promotion" =>
        /\ run.pc \in PromotionPc
        /\ DispatchAccepted(run.request.dispatch)
        /\ At("clean") /\ Still({"clean"}) => head = Requested
        /\ At("version") /\ Still({"clean", "version"}) => files = Requested
        /\ At("load") /\ Still({"clean", "version"}) =>
              Requested.version = run.request.dispatch.version
        /\ ~At("digest") /\ run.replaced \subseteq {"digest"} => report = run.request.report

(* Where a release intent is, and what it has read. *)
IntentRun ==
    run.gate = "intent" =>
        /\ run.pc \in IntentPc
        /\ run.pc \in {"head", "clean", "lock"} => Len(run.read) = 0
        /\ run.pc \in {"metadata", "write", "output"} => Len(run.read) = 1
        /\ At("clean") /\ Still({"clean"}) => head = Requested
        /\ At("lock") /\ Still({"clean", "lock"}) => files = Requested
        /\ At("metadata") /\ Still({"clean", "lock"}) => run.read[1] = Requested.core
        /\ At("metadata") /\ Still({"clean", "lock", "metadata"}) => files = Requested
        /\ run.pc \in {"write", "output"} /\ Still({"clean", "lock", "metadata"}) =>
              run.read[1] = Requested.core /\ Requested.version = "1.0.0"

(* Where a documentation build is, and what it has read, the configuration first. *)
DocsRun ==
    run.gate = "docs" =>
        /\ run.pc \in DocsPc
        /\ At("config") => Len(run.read) = 0
        /\ run.pc \in {"head", "clean", "text"} => Len(run.read) = 1
        /\ At("source") => Len(run.read) = 2
        /\ run.pc \in {"literal", "replace", "close", "archive"} => Len(run.read) = 3
        /\ At("head") /\ Still({"head"}) => run.read[1] = files.version
        /\ At("clean") /\ Still({"head", "clean"}) =>
              head = Requested /\ run.read[1] = files.version
        /\ run.pc \in {"text", "source"} /\ run.clean /\ Still({"head", "clean", "text", "source"}) =>
              files = Requested
        /\ run.clean /\ Still({"head", "clean", "text", "source"}) =>
              /\ run.pc \in {"text", "source", "literal", "replace", "close", "archive"} =>
                    run.read[1] = Requested.version
              /\ run.pc \in {"source", "literal", "replace", "close", "archive"} =>
                    run.read[2] = Requested.text
              /\ run.pc \in {"literal", "replace", "close", "archive"} =>
                    run.read[3] = Requested.version

(* Where a dependency scan is, and the graph it works on. *)
ScanRun ==
    run.gate = "scan" =>
        /\ run.pc \in ScanPc
        /\ run.pc \in {"head", "inputs", "graph"} => Len(run.read) = 0
        /\ At("scan") => Len(run.read) = 1
        /\ At("graph") /\ Still({"graph"}) => files.graph = Requested.graph
        /\ At("scan") /\ Still({"graph"}) => run.read[1] = Requested.graph

RunInv ==
    /\ run.gate = "none" => At("idle")
    /\ PromotionRun /\ IntentRun /\ DocsRun /\ ScanRun

ResultsInv == FromOneCommit /\ PromotionIsRequested /\ PromotionFresh /\ ScanBlocks

GatesInv == Types /\ RunInv /\ ResultsInv

-----------------------------------------------------------------------------
USE RequestAssumption, ReportAssumption, GateAssumption, AgeAssumption

\* The idle run has the type of runs.
LEMMA IdleType == Idle \in Run /\ Idle.gate = "none" /\ Idle.pc = "idle" /\ Idle.moved = {}
  <1>1. <<>> \in Seq(Contents)
    OBVIOUS
  <1>2. QED
    BY <1>1 DEF Idle, Run, Pc

\* What is read of a tree has the type of contents.
LEMMA ReadType ==
  ASSUME Types
  PROVE  {files.version, files.core, files.text, files.graph} \subseteq Contents
  BY DEF Types, Contents

LEMMA InitInv ==
  ASSUME Init
  PROVE  GatesInv
  <1>1. Types
    BY IdleType DEF Init, Types
  <1>2. RunInv
    BY IdleType DEF Init, RunInv, At, PromotionRun, IntentRun, DocsRun, ScanRun
  <1>3. ResultsInv
    BY DEF Init, ResultsInv, FromOneCommit, PromotionOfCommit, IntentOfCommit, BundleOfCommit,
           PromotionIsRequested, PromotionFresh, ScanBlocks, AcceptedBy
  <1>4. QED
    BY <1>1, <1>2, <1>3 DEF GatesInv

-----------------------------------------------------------------------------
(* The shape of a run's steps. *)

\* A run that ends is idle.
LEMMA EndStep ==
  ASSUME End
  PROVE  run' \in Run /\ RunInv'
  BY IdleType DEF End, RunInv, At, PromotionRun, IntentRun, DocsRun, ScanRun

\* A run that goes on keeps what it has.
LEMMA GoToStep ==
  ASSUME run \in Run, NEW pc \in Pc, GoTo(pc)
  PROVE  /\ run' \in Run /\ run'.pc = pc
         /\ run'.gate = run.gate /\ run'.request = run.request /\ run'.clean = run.clean
         /\ run'.read = run.read /\ run'.moved = run.moved /\ run'.replaced = run.replaced
         /\ run'.now = run.now
  BY DEF GoTo, Run

\* A run that reads adds to what it has read.
LEMMA ReadStep ==
  ASSUME run \in Run, NEW pc \in Pc, NEW value \in Contents, Read(value, pc)
  PROVE  /\ run' \in Run /\ run'.pc = pc
         /\ run'.gate = run.gate /\ run'.request = run.request /\ run'.clean = run.clean
         /\ run'.moved = run.moved /\ run'.replaced = run.replaced
         /\ Len(run'.read) = Len(run.read) + 1 /\ run'.read[Len(run.read) + 1] = value
         /\ \A i \in 1 .. Len(run.read) : run'.read[i] = run.read[i]
         /\ Len(run.read) \in Nat
  <1> DEFINE longer == Append(run.read, value)
  <1>1. run.read \in Seq(Contents)
    BY DEF Run
  <1>2. /\ longer \in Seq(Contents)
        /\ Len(longer) = Len(run.read) + 1 /\ longer[Len(run.read) + 1] = value
        /\ \A i \in 1 .. Len(run.read) : longer[i] = run.read[i]
        /\ Len(run.read) \in Nat
    BY <1>1, AppendProperties, LenProperties
  <1>3. run' = [run EXCEPT !.read = longer, !.pc = pc]
    BY DEF Read
  <1> HIDE DEF longer
  <1>4. QED
    BY <1>2, <1>3 DEF Run

\* Results that do not change keep what was shown of them.
LEMMA ResultsStay ==
  ASSUME ResultsInv, UNCHANGED results
  PROVE  ResultsInv'
  BY DEF results, ResultsInv, FromOneCommit, PromotionOfCommit, IntentOfCommit, BundleOfCommit,
         PromotionIsRequested, PromotionFresh, ScanBlocks, AcceptedBy

\* A step that ends a run and leaves the results preserves the invariant.
LEMMA EndInv ==
  ASSUME GatesInv, End, UNCHANGED <<tree, report, clock, results>>
  PROVE  GatesInv'
  BY EndStep, ResultsStay DEF GatesInv, Types, tree

-----------------------------------------------------------------------------
(* The steps that leave tree, report and results alone. *)

LEMMA StartInv ==
  ASSUME GatesInv, Start
  PROVE  GatesInv'
  <1>1. UNCHANGED <<tree, report, clock, evidence, intent, bundle>> /\ accepted' = None
    BY DEF Start
  <1>2. PICK request \in Request :
            /\ request.gate = "promotion" => DispatchAccepted(request.dispatch)
            /\ run' = [Idle EXCEPT !.gate = request.gate, !.pc = First[request.gate],
                                   !.request = request, !.now = clock]
    BY DEF Start
  <1>3. request.gate \in {"promotion", "intent", "docs", "scan"}
    OBVIOUS
  <1>4. /\ run'.gate = request.gate /\ run'.request = request
        /\ run'.pc = First[request.gate] /\ run'.read = <<>>
    BY <1>2 DEF Idle
  <1>5. /\ request.gate = "promotion" => run'.pc = "digest"
        /\ request.gate = "intent" => run'.pc = "head"
        /\ request.gate = "docs" => run'.pc = "config"
        /\ request.gate = "scan" => run'.pc = "head"
    BY <1>4 DEF First
  <1>6. run' \in Run
    <2>1. clock \in Nat
      BY DEF GatesInv, Types
    <2>2. First[request.gate] \in Pc
      BY <1>3 DEF First, Pc, PromotionPc, IntentPc, DocsPc, ScanPc
    <2>3. QED
      BY <1>2, <1>3, <2>1, <2>2, IdleType DEF Run, Idle
  <1>7. Len(run'.read) = 0
    BY <1>4
  <1>8. PromotionRun' /\ IntentRun' /\ DocsRun' /\ ScanRun'
    BY <1>2, <1>3, <1>4, <1>5, <1>7
    DEF PromotionRun, IntentRun, DocsRun, ScanRun, PromotionPc, IntentPc, DocsPc, ScanPc, At
  <1>9. ResultsInv'
    BY <1>1 DEF GatesInv, ResultsInv, FromOneCommit, PromotionOfCommit, IntentOfCommit,
                BundleOfCommit, PromotionIsRequested, PromotionFresh, ScanBlocks, AcceptedBy
  <1>10. QED
    BY <1>1, <1>3, <1>4, <1>6, <1>8, <1>9 DEF GatesInv, Types, RunInv, At, tree

\* A run that goes on, once its claims are shown.
LEMMA GoInv ==
  ASSUME GatesInv, run' \in Run, RunInv', UNCHANGED <<tree, report, clock, results>>
  PROVE  GatesInv'
  BY ResultsStay DEF GatesInv, Types, tree

LEMMA CheckDigestInv ==
  ASSUME GatesInv, CheckDigest
  PROVE  GatesInv'
  <1>1. At("digest") /\ UNCHANGED <<tree, report, clock, results>>
    BY DEF CheckDigest
  <1>2. CASE report = run.request.report /\ GoTo("head")
    <2>1. "head" \in Pc /\ run \in Run
      BY DEF Pc, PromotionPc, GatesInv, Types
    <2>2. /\ run' \in Run /\ run'.pc = "head" /\ run'.gate = run.gate /\ run'.request = run.request
          /\ run'.moved = run.moved /\ run'.replaced = run.replaced
      BY <1>2, <2>1, GoToStep
    <2>3. run.gate \notin {"intent", "docs", "scan"}
      BY <1>1 DEF GatesInv, RunInv, IntentRun, DocsRun, ScanRun, At, IntentPc, DocsPc, ScanPc
    <2>4. RunInv'
      BY <1>1, <1>2, <2>2, <2>3
      DEF GatesInv, RunInv, PromotionRun, IntentRun, DocsRun, ScanRun, At, PromotionPc
    <2>5. QED
      BY <1>1, <2>2, <2>4, GoInv
  <1>3. CASE End
    BY <1>1, <1>3, EndInv
  <1>4. QED
    BY <1>2, <1>3 DEF CheckDigest, Demand

LEMMA CheckHeadInv ==
  ASSUME GatesInv, CheckHead
  PROVE  GatesInv'
  <1>1. At("head") /\ UNCHANGED <<tree, report, clock, results>>
    BY DEF CheckHead
  <1>2. CASE head = Requested /\ GoTo(AfterHead[run.gate])
    <2>1. run \in Run
      BY DEF GatesInv, Types
    <2>2. run.gate \in {"promotion", "intent", "docs", "scan"}
      BY <1>1, <2>1 DEF GatesInv, RunInv, At, Run
    <2>3. AfterHead[run.gate] = IF run.gate = "scan" THEN "inputs" ELSE "clean"
      BY <2>2 DEF AfterHead
    <2>4. AfterHead[run.gate] \in Pc
      BY <2>3 DEF Pc, PromotionPc, ScanPc
    <2>5. /\ run' \in Run /\ run'.pc = AfterHead[run.gate]
          /\ run'.gate = run.gate /\ run'.request = run.request /\ run'.read = run.read
          /\ run'.moved = run.moved /\ run'.replaced = run.replaced
      BY <1>2, <2>1, <2>4, GoToStep
    <2>6. PromotionRun' /\ IntentRun'
      BY <1>1, <1>2, <2>3, <2>5
      DEF GatesInv, RunInv, PromotionRun, IntentRun, At, Still, Requested, PromotionPc,
          IntentPc, tree
    <2>7. DocsRun' /\ ScanRun'
      BY <1>1, <1>2, <2>3, <2>5
      DEF GatesInv, RunInv, DocsRun, ScanRun, At, Still, Requested, DocsPc, ScanPc, tree
    <2>8. RunInv'
      BY <2>2, <2>5, <2>6, <2>7 DEF RunInv
    <2>9. QED
      BY <1>1, <2>5, <2>8, GoInv
  <1>3. CASE End
    BY <1>1, <1>3, EndInv
  <1>4. QED
    BY <1>2, <1>3 DEF CheckHead, Demand

\* The gate that is at a step.
LEMMA GateAt ==
  ASSUME GatesInv
  PROVE  /\ run \in Run
         /\ run.pc \in {"digest", "version", "load"} => run.gate = "promotion"
         /\ run.pc \in {"lock", "metadata", "write", "output"} => run.gate = "intent"
         /\ run.pc \in {"config", "text", "source", "literal", "replace", "close", "archive"} =>
               run.gate = "docs"
         /\ run.pc \in {"inputs", "graph", "scan"} => run.gate = "scan"
         /\ run.pc = "clean" => run.gate \in {"promotion", "intent", "docs"}
  <1>1. run \in Run
    BY DEF GatesInv, Types
  <1>2. run.gate \in {"none", "promotion", "intent", "docs", "scan"}
    BY <1>1 DEF Run
  <1>3. /\ run.gate = "none" => run.pc = "idle"
        /\ run.gate = "promotion" => run.pc \in PromotionPc
        /\ run.gate = "intent" => run.pc \in IntentPc
        /\ run.gate = "docs" => run.pc \in DocsPc
        /\ run.gate = "scan" => run.pc \in ScanPc
    BY DEF GatesInv, RunInv, At, PromotionRun, IntentRun, DocsRun, ScanRun
  <1>4. QED
    BY <1>1, <1>2, <1>3 DEF PromotionPc, IntentPc, DocsPc, ScanPc

\* Only the claims about the gate that runs matter.
LEMMA RunOf ==
  ASSUME \/ run'.gate = "promotion" /\ PromotionRun'
         \/ run'.gate = "intent" /\ IntentRun'
         \/ run'.gate = "docs" /\ DocsRun'
         \/ run'.gate = "scan" /\ ScanRun'
  PROVE  RunInv'
  BY DEF RunInv, PromotionRun, IntentRun, DocsRun, ScanRun

LEMMA CheckCleanInv ==
  ASSUME GatesInv, CheckClean
  PROVE  GatesInv'
  <1>1. At("clean") /\ UNCHANGED <<tree, report, clock, results>>
    BY DEF CheckClean
  <1>2. CASE /\ files = head \/ run.gate = "docs"
             /\ run' = [run EXCEPT !.pc = AfterClean[run.gate], !.clean = (files = head)]
    <2>1. run \in Run /\ run.gate \in {"promotion", "intent", "docs"}
      BY <1>1, GateAt DEF At
    <2>2. /\ run.gate = "promotion" => AfterClean[run.gate] = "version"
          /\ run.gate = "intent" => AfterClean[run.gate] = "lock"
          /\ run.gate = "docs" => AfterClean[run.gate] = "text"
      BY DEF AfterClean
    <2>3. AfterClean[run.gate] \in Pc
      BY <2>1, <2>2 DEF Pc, PromotionPc, IntentPc, DocsPc
    <2>4. /\ run' \in Run /\ run'.pc = AfterClean[run.gate]
          /\ run'.gate = run.gate /\ run'.request = run.request /\ run'.read = run.read
          /\ run'.moved = run.moved /\ run'.replaced = run.replaced
      BY <1>2, <2>1, <2>3 DEF Run
    <2>5. run'.clean <=> files = head
      BY <1>2, <2>1 DEF Run
    <2>6. CASE run.gate = "promotion"
      <3>1. PromotionRun'
        BY <1>1, <1>2, <2>2, <2>4, <2>6
        DEF GatesInv, RunInv, PromotionRun, At, Still, Requested, PromotionPc, tree
      <3>2. QED
        BY <1>1, <2>4, <2>6, <3>1, RunOf, GoInv
    <2>7. CASE run.gate = "intent"
      <3>1. IntentRun'
        BY <1>1, <1>2, <2>2, <2>4, <2>7
        DEF GatesInv, RunInv, IntentRun, At, Still, Requested, IntentPc, tree
      <3>2. QED
        BY <1>1, <2>4, <2>7, <3>1, RunOf, GoInv
    <2>8. CASE run.gate = "docs"
      <3>1. DocsRun'
        BY <1>1, <2>2, <2>4, <2>5, <2>8
        DEF GatesInv, RunInv, DocsRun, At, Still, Requested, DocsPc, tree
      <3>2. QED
        BY <1>1, <2>4, <2>8, <3>1, RunOf, GoInv
    <2>9. QED
      BY <2>1, <2>6, <2>7, <2>8
  <1>3. CASE End
    BY <1>1, <1>3, EndInv
  <1>4. QED
    BY <1>2, <1>3 DEF CheckClean

LEMMA CheckVersionInv ==
  ASSUME GatesInv, CheckVersion
  PROVE  GatesInv'
  <1>1. At("version") /\ UNCHANGED <<tree, report, clock, results>>
    BY DEF CheckVersion
  <1>2. CASE files.version = run.request.dispatch.version /\ GoTo("load")
    <2>1. run \in Run /\ run.gate = "promotion" /\ "load" \in Pc
      BY <1>1, GateAt DEF At, Pc, PromotionPc
    <2>2. /\ run' \in Run /\ run'.pc = "load" /\ run'.gate = run.gate
          /\ run'.request = run.request /\ run'.moved = run.moved /\ run'.replaced = run.replaced
      BY <1>2, <2>1, GoToStep
    <2>3. PromotionRun'
      BY <1>1, <1>2, <2>1, <2>2
      DEF GatesInv, RunInv, PromotionRun, At, Still, Requested, PromotionPc, tree
    <2>4. QED
      BY <1>1, <2>1, <2>2, <2>3, RunOf, GoInv
  <1>3. CASE End
    BY <1>1, <1>3, EndInv
  <1>4. QED
    BY <1>2, <1>3 DEF CheckVersion, Demand

LEMMA ReadLockInv ==
  ASSUME GatesInv, ReadLock
  PROVE  GatesInv'
  <1>1. At("lock") /\ UNCHANGED <<tree, report, clock, results>>
    BY DEF ReadLock
  <1>2. CASE Read(files.core, "metadata")
    <2>1. /\ run \in Run /\ run.gate = "intent" /\ "metadata" \in Pc
          /\ files.core \in Contents
      BY <1>1, GateAt, ReadType DEF At, Pc, IntentPc, GatesInv
    <2>2. Len(run.read) = 0
      BY <1>1, <2>1 DEF GatesInv, RunInv, IntentRun, At
    <2>3. /\ run' \in Run /\ run'.pc = "metadata" /\ run'.gate = run.gate
          /\ run'.request = run.request /\ run'.moved = run.moved
          /\ Len(run'.read) = 1 /\ run'.read[1] = files.core
      BY <1>2, <2>1, <2>2, ReadStep
    <2>4. IntentRun'
      BY <1>1, <2>1, <2>3
      DEF GatesInv, RunInv, IntentRun, At, Still, Requested, IntentPc, tree
    <2>5. QED
      BY <1>1, <2>1, <2>3, <2>4, RunOf, GoInv
  <1>3. CASE End
    BY <1>1, <1>3, EndInv
  <1>4. QED
    BY <1>2, <1>3 DEF ReadLock

LEMMA CheckMetadataInv ==
  ASSUME GatesInv, CheckMetadata
  PROVE  GatesInv'
  <1>1. At("metadata") /\ UNCHANGED <<tree, report, clock, results>>
    BY DEF CheckMetadata
  <1>2. CASE files.version = "1.0.0" /\ GoTo("write")
    <2>1. run \in Run /\ run.gate = "intent" /\ "write" \in Pc
      BY <1>1, GateAt DEF At, Pc, IntentPc
    <2>2. /\ run' \in Run /\ run'.pc = "write" /\ run'.gate = run.gate /\ run'.read = run.read
          /\ run'.request = run.request /\ run'.moved = run.moved
      BY <1>2, <2>1, GoToStep
    <2>3. IntentRun'
      BY <1>1, <1>2, <2>1, <2>2
      DEF GatesInv, RunInv, IntentRun, At, Still, Requested, IntentPc, tree
    <2>4. QED
      BY <1>1, <2>1, <2>2, <2>3, RunOf, GoInv
  <1>3. CASE End
    BY <1>1, <1>3, EndInv
  <1>4. QED
    BY <1>2, <1>3 DEF CheckMetadata, Demand

-----------------------------------------------------------------------------
(* The documentation's reads. *)

LEMMA ReadConfigInv ==
  ASSUME GatesInv, ReadConfig
  PROVE  GatesInv'
  <1>1. /\ At("config") /\ Read(files.version, "head")
        /\ UNCHANGED <<tree, report, clock, results>>
    BY DEF ReadConfig
  <1>2. /\ run \in Run /\ run.gate = "docs" /\ "head" \in Pc
        /\ files.version \in Contents
    BY <1>1, GateAt, ReadType DEF At, Pc, DocsPc, GatesInv
  <1>3. Len(run.read) = 0
    BY <1>1, <1>2 DEF GatesInv, RunInv, DocsRun, At
  <1>4. /\ run' \in Run /\ run'.pc = "head" /\ run'.gate = run.gate
        /\ run'.request = run.request /\ run'.moved = run.moved /\ run'.clean = run.clean
        /\ Len(run'.read) = 1 /\ run'.read[1] = files.version
        /\ \A i \in 1 .. 0 : run'.read[i] = run.read[i]
    BY <1>1, <1>2, <1>3, ReadStep
  <1>5. DocsRun'
    BY <1>1, <1>2, <1>4
    DEF GatesInv, RunInv, DocsRun, At, Still, Requested, DocsPc, tree
  <1>6. QED
    BY <1>1, <1>2, <1>4, <1>5, RunOf, GoInv

LEMMA ReadTextInv ==
  ASSUME GatesInv, ReadText
  PROVE  GatesInv'
  <1>1. /\ At("text") /\ Read(files.text, "source")
        /\ UNCHANGED <<tree, report, clock, results>>
    BY DEF ReadText
  <1>2. /\ run \in Run /\ run.gate = "docs" /\ "source" \in Pc
        /\ files.text \in Contents
    BY <1>1, GateAt, ReadType DEF At, Pc, DocsPc, GatesInv
  <1>3. Len(run.read) = 1
    BY <1>1, <1>2 DEF GatesInv, RunInv, DocsRun, At
  <1>4. /\ run' \in Run /\ run'.pc = "source" /\ run'.gate = run.gate
        /\ run'.request = run.request /\ run'.moved = run.moved /\ run'.clean = run.clean
        /\ Len(run'.read) = 2 /\ run'.read[2] = files.text
        /\ \A i \in 1 .. 1 : run'.read[i] = run.read[i]
    BY <1>1, <1>2, <1>3, ReadStep
  <1>5. DocsRun'
    BY <1>1, <1>2, <1>4
    DEF GatesInv, RunInv, DocsRun, At, Still, Requested, DocsPc, tree
  <1>6. QED
    BY <1>1, <1>2, <1>4, <1>5, RunOf, GoInv

LEMMA ReadSourceInv ==
  ASSUME GatesInv, ReadSource
  PROVE  GatesInv'
  <1>1. /\ At("source") /\ Read(files.version, "literal")
        /\ UNCHANGED <<tree, report, clock, results>>
    BY DEF ReadSource
  <1>2. /\ run \in Run /\ run.gate = "docs" /\ "literal" \in Pc
        /\ files.version \in Contents
    BY <1>1, GateAt, ReadType DEF At, Pc, DocsPc, GatesInv
  <1>3. Len(run.read) = 2
    BY <1>1, <1>2 DEF GatesInv, RunInv, DocsRun, At
  <1>4. /\ run' \in Run /\ run'.pc = "literal" /\ run'.gate = run.gate
        /\ run'.request = run.request /\ run'.moved = run.moved /\ run'.clean = run.clean
        /\ Len(run'.read) = 3 /\ run'.read[3] = files.version
        /\ \A i \in 1 .. 2 : run'.read[i] = run.read[i]
    BY <1>1, <1>2, <1>3, ReadStep
  <1>5. DocsRun'
    BY <1>1, <1>2, <1>4
    DEF GatesInv, RunInv, DocsRun, At, Still, Requested, DocsPc, tree
  <1>6. QED
    BY <1>1, <1>2, <1>4, <1>5, RunOf, GoInv

LEMMA CheckLiteralInv ==
  ASSUME GatesInv, CheckLiteral
  PROVE  GatesInv'
  <1>1. At("literal") /\ UNCHANGED <<tree, report, clock, results>>
    BY DEF CheckLiteral
  <1>2. CASE GoTo("replace")
    <2>1. run \in Run /\ run.gate = "docs" /\ "replace" \in Pc
      BY <1>1, GateAt DEF At, Pc, DocsPc
    <2>2. /\ run' \in Run /\ run'.pc = "replace" /\ run'.gate = run.gate /\ run'.read = run.read
          /\ run'.request = run.request /\ run'.moved = run.moved /\ run'.clean = run.clean
      BY <1>2, <2>1, GoToStep
    <2>3. DocsRun'
      BY <1>1, <2>1, <2>2
      DEF GatesInv, RunInv, DocsRun, At, Still, Requested, DocsPc, tree
    <2>4. QED
      BY <1>1, <2>1, <2>2, <2>3, RunOf, GoInv
  <1>3. CASE End
    BY <1>1, <1>3, EndInv
  <1>4. QED
    BY <1>2, <1>3 DEF CheckLiteral, Demand

-----------------------------------------------------------------------------
(* The steps that write: what they write is what the run has seen. *)

\* What is left alone among the results keeps what was shown of it.
LEMMA PartsStay ==
  ASSUME ResultsInv
  PROVE  /\ UNCHANGED accepted => PromotionOfCommit' /\ PromotionIsRequested' /\ PromotionFresh'
         /\ UNCHANGED intent => IntentOfCommit'
         /\ UNCHANGED bundle => BundleOfCommit'
         /\ UNCHANGED evidence => ScanBlocks'
  BY DEF ResultsInv, FromOneCommit, PromotionOfCommit, IntentOfCommit, BundleOfCommit,
         PromotionIsRequested, PromotionFresh, ScanBlocks, AcceptedBy

\* What another gate accepts is no promotion.
LEMMA OtherAccepted ==
  ASSUME run \in Run, run.gate # "promotion", NEW value, Accept(value)
  PROVE  PromotionOfCommit' /\ PromotionIsRequested' /\ PromotionFresh'
  <1>1. accepted'.gate # "promotion"
    BY DEF Accept
  <1>2. QED
    BY <1>1 DEF PromotionOfCommit, PromotionIsRequested, PromotionFresh, AcceptedBy

LEMMA WriteIntentInv ==
  ASSUME GatesInv, WriteIntent
  PROVE  GatesInv'
  <1>1. /\ At("write") /\ GoTo("output")
        /\ intent' = [commit |-> Requested, core |-> run.read[1], moved |-> run.moved]
        /\ UNCHANGED <<tree, report, clock, accepted, evidence, bundle>>
    BY DEF WriteIntent
  <1>2. run \in Run /\ run.gate = "intent" /\ "output" \in Pc
    BY <1>1, GateAt DEF At, Pc, IntentPc
  <1>3. /\ run' \in Run /\ run'.pc = "output" /\ run'.gate = run.gate /\ run'.read = run.read
        /\ run'.request = run.request /\ run'.moved = run.moved
    BY <1>1, <1>2, GoToStep
  <1>4. IntentRun'
    BY <1>1, <1>2, <1>3
    DEF GatesInv, RunInv, IntentRun, At, Still, Requested, IntentPc, tree
  <1>5. IntentOfCommit'
    BY <1>1, <1>2 DEF GatesInv, RunInv, IntentRun, At, Still, IntentOfCommit
  <1>6. ResultsInv'
    BY <1>1, <1>5, PartsStay DEF GatesInv, ResultsInv, FromOneCommit
  <1>7. QED
    BY <1>1, <1>2, <1>3, <1>4, <1>6, RunOf DEF GatesInv, Types, tree

LEMMA AppendOutputsInv ==
  ASSUME GatesInv, AppendOutputs
  PROVE  GatesInv'
  <1>1. /\ At("output") /\ End /\ Accept([intent |-> intent, commit |-> Requested])
        /\ UNCHANGED <<tree, report, clock, evidence, intent, bundle>>
    BY DEF AppendOutputs
  <1>2. run \in Run /\ run.gate # "promotion"
    BY <1>1, GateAt DEF At
  <1>3. ResultsInv'
    BY <1>1, <1>2, PartsStay, OtherAccepted DEF GatesInv, ResultsInv, FromOneCommit
  <1>4. QED
    BY <1>1, <1>3, EndStep DEF GatesInv, Types, tree

\* The archive that is written holds what was read.
LEMMA BundleInv ==
  ASSUME GatesInv, NEW pc \in {"close", "archive"}, NEW whole \in BOOLEAN,
         run.pc \in {"replace", "close"}, GoTo(pc), bundle' = Archive(whole),
         UNCHANGED <<tree, report, clock, accepted, evidence, intent>>
  PROVE  GatesInv'
  <1>1. run \in Run /\ run.gate = "docs" /\ pc \in Pc
    BY GateAt DEF Pc, DocsPc
  <1>2. /\ run' \in Run /\ run'.pc = pc /\ run'.gate = run.gate /\ run'.read = run.read
        /\ run'.request = run.request /\ run'.moved = run.moved /\ run'.clean = run.clean
    BY <1>1, GoToStep
  <1>3. DocsRun'
    BY <1>1, <1>2
    DEF GatesInv, RunInv, DocsRun, At, Still, Requested, DocsPc, tree
  <1>4. /\ bundle'.commit = Requested /\ bundle'.clean = run.clean /\ bundle'.moved = run.moved
        /\ bundle'.config = run.read[1] /\ bundle'.text = run.read[2] /\ bundle'.source = run.read[3]
    BY DEF Archive
  <1>5. run.clean /\ Still({"head", "clean", "text", "source"}) =>
            /\ run.read[1] = Requested.version /\ run.read[2] = Requested.text
            /\ run.read[3] = Requested.version
    BY <1>1 DEF GatesInv, RunInv, DocsRun
  <1>6. BundleOfCommit'
    BY <1>4, <1>5 DEF Still, BundleOfCommit
  <1>7. ResultsInv'
    BY <1>6, PartsStay DEF GatesInv, ResultsInv, FromOneCommit
  <1>8. QED
    BY <1>1, <1>2, <1>3, <1>7, RunOf DEF GatesInv, Types, tree

LEMMA VerifyArchiveInv ==
  ASSUME GatesInv, VerifyArchive
  PROVE  GatesInv'
  <1>1. /\ At("archive") /\ End /\ (UNCHANGED accepted \/ Accept(bundle))
        /\ UNCHANGED <<tree, report, clock, evidence, intent, bundle>>
    BY DEF VerifyArchive
  <1>2. run \in Run /\ run.gate # "promotion"
    BY <1>1, GateAt DEF At
  <1>3. ResultsInv'
    BY <1>1, <1>2, PartsStay, OtherAccepted DEF GatesInv, ResultsInv, FromOneCommit
  <1>4. QED
    BY <1>1, <1>3, EndStep DEF GatesInv, Types, tree

-----------------------------------------------------------------------------
(* The dependency scan. *)

LEMMA CheckInputsInv ==
  ASSUME GatesInv, CheckInputs
  PROVE  GatesInv'
  <1>1. At("inputs") /\ UNCHANGED <<tree, report, clock, results>>
    BY DEF CheckInputs
  <1>2. CASE files.graph = Requested.graph /\ GoTo("graph")
    <2>1. run \in Run /\ run.gate = "scan" /\ "graph" \in Pc
      BY <1>1, GateAt DEF At, Pc, ScanPc
    <2>2. /\ run' \in Run /\ run'.pc = "graph" /\ run'.gate = run.gate /\ run'.read = run.read
          /\ run'.request = run.request /\ run'.moved = run.moved
      BY <1>2, <2>1, GoToStep
    <2>3. ScanRun'
      BY <1>1, <1>2, <2>1, <2>2
      DEF GatesInv, RunInv, ScanRun, At, Still, Requested, ScanPc, tree
    <2>4. QED
      BY <1>1, <2>1, <2>2, <2>3, RunOf, GoInv
  <1>3. CASE End
    BY <1>1, <1>3, EndInv
  <1>4. QED
    BY <1>2, <1>3 DEF CheckInputs, Demand

LEMMA ExportGraphInv ==
  ASSUME GatesInv, ExportGraph
  PROVE  GatesInv'
  <1>1. /\ At("graph") /\ Read(files.graph, "scan")
        /\ UNCHANGED <<tree, report, clock, results>>
    BY DEF ExportGraph
  <1>2. /\ run \in Run /\ run.gate = "scan" /\ "scan" \in Pc
        /\ files.graph \in Contents
    BY <1>1, GateAt, ReadType DEF At, Pc, ScanPc, GatesInv
  <1>3. Len(run.read) = 0
    BY <1>1, <1>2 DEF GatesInv, RunInv, ScanRun, At
  <1>4. /\ run' \in Run /\ run'.pc = "scan" /\ run'.gate = run.gate
        /\ run'.request = run.request /\ run'.moved = run.moved
        /\ Len(run'.read) = 1 /\ run'.read[1] = files.graph
    BY <1>1, <1>2, <1>3, ReadStep
  <1>5. ScanRun'
    BY <1>1, <1>2, <1>4
    DEF GatesInv, RunInv, ScanRun, At, Still, Requested, ScanPc, tree
  <1>6. QED
    BY <1>1, <1>2, <1>4, <1>5, RunOf, GoInv

LEMMA ScanInv ==
  ASSUME GatesInv, Scan
  PROVE  GatesInv'
  <1> DEFINE graph == run.read[1]
             found == [commit |-> Requested, passed |-> Blocking(graph) = {}, moved |-> run.moved]
  <1>1. /\ At("scan") /\ End
        /\ UNCHANGED <<tree, report, clock, intent, bundle>>
    BY DEF Scan
  <1>2. run \in Run /\ run.gate = "scan"
    BY <1>1, GateAt DEF At
  <1>3. UNCHANGED accepted \/ Accept(found)
    BY DEF Scan
  <1>4. UNCHANGED evidence \/ (graph # {} /\ evidence' = found)
    BY DEF Scan
  <1>5. ScanBlocks'
    <2>1. CASE UNCHANGED evidence
      BY <2>1, PartsStay DEF GatesInv
    <2>2. CASE graph # {} /\ evidence' = found
      <3>1. Still({"graph"}) => graph = Requested.graph
        BY <1>1, <1>2 DEF GatesInv, RunInv, ScanRun, At
      <3>2. evidence'.commit = Requested /\ evidence'.moved = run.moved
        BY <2>2
      <3>3. evidence'.passed = (Blocking(graph) = {})
        BY <2>2
      <3>4. evidence'.passed => Blocking(graph) = {}
        BY <3>3, Zenon
      <3>5. Blocking(graph) = {} => \A package \in graph : Advisory[package] \subseteq NonBlocking
        BY DEF Blocking
      <3>6. QED
        BY <2>2, <3>1, <3>2, <3>4, <3>5 DEF ScanBlocks, Still
    <2>3. QED
      BY <1>4, <2>1, <2>2
  <1>6. ResultsInv'
    BY <1>1, <1>2, <1>3, <1>5, PartsStay, OtherAccepted DEF GatesInv, ResultsInv, FromOneCommit
  <1>7. QED
    BY <1>1, <1>6, EndStep DEF GatesInv, Types, tree

-----------------------------------------------------------------------------
(* The promotion: what the rules for reports add up to. *)

\* An accepted report names the dispatched repository at the dispatched commit.
LEMMA NamesDispatched ==
  ASSUME NEW sent \in Report, NEW dispatch, NEW now,
         DispatchAccepted(dispatch), ReportAccepted(sent, dispatch, now)
  PROVE  \E i \in 1 .. 5 : /\ sent.repositories[i].id = dispatch.repository
                           /\ sent.repositories[i].commit = dispatch.commit
  <1>1. RepositoriesAccepted(sent.repositories, dispatch)
    BY DEF ReportAccepted
  <1>2. DOMAIN sent.repositories = 1 .. 5
    BY <1>1 DEF RepositoriesAccepted
  <1>3. dispatch.repository \in {sent.repositories[i].id : i \in DOMAIN sent.repositories}
    BY <1>1 DEF RepositoriesAccepted, DispatchAccepted
  <1>4. PICK i \in 1 .. 5 : sent.repositories[i].id = dispatch.repository
    BY <1>2, <1>3
  <1>5. sent.repositories[i] = [id |-> dispatch.repository, commit |-> dispatch.commit,
                                version |-> dispatch.version, tag |-> dispatch.tag]
    BY <1>1, <1>2, <1>4 DEF RepositoriesAccepted
  <1>6. sent.repositories[i].commit = dispatch.commit
    BY <1>5
  <1> HIDE ReportAssumption
  <1>7. QED
    BY <1>4, <1>6, Zenon

\* The bounds on release, window and domains bound the age of each domain's evidence.
LEMMA FreshReport ==
  ASSUME NEW sent \in Report, NEW dispatch, NEW now \in Nat, ReportAccepted(sent, dispatch, now),
         NEW d \in PromotionDomain
  PROVE  /\ sent.domains[d].image = sent.contract.image
         /\ sent.domains[d].image = dispatch.image
         /\ sent.contract.released <= sent.domains[d].started
         /\ now - sent.domains[d].started <= MaximumAge
         /\ sent.domains[d].finished <= now
  <1>1. /\ ContractAccepted(sent.contract, dispatch, now)
        /\ WindowAccepted(sent.window, sent.contract.released, now)
        /\ DomainsAccepted(sent.domains, sent.window, dispatch.image)
    BY DEF ReportAccepted
  <1>2. d \in DOMAIN sent.domains
    BY <1>1 DEF DomainsAccepted, Domain
  <1>3. /\ sent.domains[d].started \in Int /\ sent.domains[d].finished \in Int
        /\ sent.contract.released \in Int
        /\ sent.window.started \in Int /\ sent.window.finished \in Int
    BY <1>2
  <1>4. /\ sent.domains[d].image = dispatch.image /\ sent.contract.image = dispatch.image
        /\ sent.window.started <= sent.domains[d].started
        /\ sent.domains[d].finished <= sent.window.finished
    BY <1>1 DEF DomainsAccepted, ContractAccepted
  <1>5. /\ now - sent.contract.released <= MaximumAge
        /\ sent.contract.released <= sent.window.started
        /\ sent.window.finished <= now
    BY <1>1 DEF ContractAccepted, WindowAccepted
  <1> HIDE ReportAssumption
  <1>6. /\ sent.contract.released <= sent.domains[d].started
        /\ sent.domains[d].finished <= now
    BY <1>3, <1>4, <1>5
  <1>7. now - sent.domains[d].started <= MaximumAge
    BY <1>3, <1>4, <1>5
  <1>8. QED
    BY <1>4, <1>6, <1>7

LEMMA PromoteInv ==
  ASSUME GatesInv, Promote
  PROVE  GatesInv'
  <1> DEFINE value == [report |-> report, request |-> run.request, at |-> run.now,
                       moved |-> run.moved, replaced |-> run.replaced]
  <1>1. /\ At("load") /\ End
        /\ UNCHANGED <<tree, report, clock, evidence, intent, bundle>>
    BY DEF Promote
  <1>2. run \in Run /\ run.gate = "promotion" /\ run.now \in Nat /\ report \in Report
    BY <1>1, GateAt DEF At, Run, GatesInv, Types
  <1>3. CASE UNCHANGED accepted
    <2>1. ResultsInv'
      BY <1>1, <1>3, ResultsStay DEF GatesInv, results
    <2>2. QED
      BY <1>1, <2>1, EndStep DEF GatesInv, Types, tree
  <1>4. CASE ReportAccepted(report, run.request.dispatch, run.now) /\ Accept(value)
    <2>1. AcceptedBy("promotion")' = value \/ AcceptedBy("promotion")' = None
      <3>1. accepted' = [gate |-> "promotion", of |-> value]
        BY <1>2, <1>4 DEF Accept
      <3>2. accepted'.gate = "promotion" /\ accepted'.of = value
        BY <3>1
      <3>3. QED
        BY <3>2 DEF AcceptedBy
    <2>2. DispatchAccepted(run.request.dispatch)
      BY <1>2 DEF GatesInv, RunInv, PromotionRun
    <2>3. PromotionOfCommit'
      BY <1>1, <1>2, <2>1
      DEF PromotionOfCommit, GatesInv, RunInv, PromotionRun, At, Still, Requested
    <2>4. PromotionIsRequested'
      BY <1>1, <1>2, <1>4, <2>1, <2>2, NamesDispatched
      DEF PromotionIsRequested, GatesInv, RunInv, PromotionRun, At
    <2>5. PromotionFresh'
      BY <1>2, <1>4, <2>1, FreshReport DEF PromotionFresh
    <2>6. ResultsInv'
      BY <1>1, <2>3, <2>4, <2>5, PartsStay DEF GatesInv, ResultsInv, FromOneCommit
    <2>7. QED
      BY <1>1, <2>6, EndStep DEF GatesInv, Types, tree
  <1>5. QED
    BY <1>3, <1>4 DEF Promote

-----------------------------------------------------------------------------
(* Gates that read only what was downloaded, and the world. *)

LEMMA VerifyInv ==
  ASSUME GatesInv, VerifyCore \/ VerifySignature
  PROVE  GatesInv'
  <1>1. /\ UNCHANGED <<tree, report, clock, run, evidence, intent, bundle>>
        /\ accepted'.gate # "promotion"
    BY DEF VerifyCore, VerifySignature
  <1>2. PromotionOfCommit' /\ PromotionIsRequested' /\ PromotionFresh'
    BY <1>1 DEF PromotionOfCommit, PromotionIsRequested, PromotionFresh, AcceptedBy
  <1>3. ResultsInv'
    BY <1>1, <1>2, PartsStay DEF GatesInv, ResultsInv, FromOneCommit
  <1>4. RunInv'
    BY <1>1
    DEF GatesInv, RunInv, PromotionRun, IntentRun, DocsRun, ScanRun, At, Still, Requested, tree
  <1>5. QED
    BY <1>1, <1>3, <1>4 DEF GatesInv, Types, tree

\* Whatever becomes of the tree, the step at which it did is remembered.
LEMMA MovedInv ==
  ASSUME GatesInv, Moved, head' \in Commit, files' \in Commit \cup Edit,
         UNCHANGED <<report, clock, results>>
  PROVE  GatesInv'
  <1>1. run \in Run
    BY DEF GatesInv, Types
  <1>2. CASE run = Idle
    <2>1. run' = Idle
      BY <1>2 DEF Moved
    <2>2. RunInv'
      BY <2>1, IdleType DEF RunInv, At, PromotionRun, IntentRun, DocsRun, ScanRun
    <2>3. QED
      BY <1>1, <1>2, <2>1, <2>2, ResultsStay DEF GatesInv, Types
  <1>3. CASE run # Idle
    <2>1. run' = [run EXCEPT !.moved = @ \cup {run.pc}]
      BY <1>3 DEF Moved
    <2>2. /\ run' \in Run /\ run'.moved = run.moved \cup {run.pc}
          /\ run'.pc = run.pc /\ run'.gate = run.gate /\ run'.request = run.request
          /\ run'.read = run.read /\ run'.clean = run.clean /\ run'.replaced = run.replaced
      BY <1>1, <2>1 DEF Run
    <2>3. PromotionRun' /\ IntentRun'
      BY <2>2 DEF GatesInv, RunInv, PromotionRun, IntentRun, At, Still, Requested
    <2>4. DocsRun' /\ ScanRun'
      BY <2>2 DEF GatesInv, RunInv, DocsRun, ScanRun, At, Still, Requested
    <2>5. RunInv'
      BY <2>2, <2>3, <2>4 DEF GatesInv, RunInv, At
    <2>6. QED
      BY <2>2, <2>5, ResultsStay DEF GatesInv, Types
  <1>4. QED
    BY <1>2, <1>3

\* The same for the report.
LEMMA ReplaceReportInv ==
  ASSUME GatesInv, ReplaceReport
  PROVE  GatesInv'
  <1>1. run \in Run /\ report' \in Report /\ UNCHANGED <<tree, clock, results>>
    BY DEF GatesInv, Types, ReplaceReport
  <1>2. CASE run = Idle
    <2>1. run' = Idle
      BY <1>2 DEF ReplaceReport
    <2>2. RunInv'
      BY <2>1, IdleType DEF RunInv, At, PromotionRun, IntentRun, DocsRun, ScanRun
    <2>3. QED
      BY <1>1, <1>2, <2>1, <2>2, ResultsStay DEF GatesInv, Types, tree
  <1>3. CASE run # Idle
    <2>1. run' = [run EXCEPT !.replaced = @ \cup {run.pc}]
      BY <1>3 DEF ReplaceReport
    <2>2. /\ run' \in Run /\ run'.replaced = run.replaced \cup {run.pc}
          /\ run'.pc = run.pc /\ run'.gate = run.gate /\ run'.request = run.request
          /\ run'.read = run.read /\ run'.clean = run.clean /\ run'.moved = run.moved
      BY <1>1, <2>1 DEF Run
    <2>3. PromotionRun' /\ IntentRun'
      BY <1>1, <2>2
      DEF GatesInv, RunInv, PromotionRun, IntentRun, At, Still, Requested, tree
    <2>4. DocsRun' /\ ScanRun'
      BY <1>1, <2>2 DEF GatesInv, RunInv, DocsRun, ScanRun, At, Still, Requested, tree
    <2>5. RunInv'
      BY <2>2, <2>3, <2>4 DEF GatesInv, RunInv, At
    <2>6. QED
      BY <1>1, <2>2, <2>5, ResultsStay DEF GatesInv, Types, tree
  <1>4. QED
    BY <1>2, <1>3

LEMMA WorldInv ==
  ASSUME GatesInv, World
  PROVE  GatesInv'
  <1>1. CASE Tick
    <2>1. clock' = clock + 1 /\ UNCHANGED <<tree, report, run, results>>
      BY <1>1 DEF Tick
    <2>2. RunInv'
      BY <2>1
      DEF GatesInv, RunInv, PromotionRun, IntentRun, DocsRun, ScanRun, At, Still, Requested, tree
    <2>3. QED
      BY <2>1, <2>2, ResultsStay DEF GatesInv, Types, tree
  <1>2. CASE Checkout \/ EditTree
    BY <1>2, MovedInv DEF Checkout, EditTree, GatesInv, Types
  <1>3. CASE ReplaceReport
    BY <1>3, ReplaceReportInv
  <1>4. CASE Crash
    BY <1>4, EndInv DEF Crash
  <1>5. QED
    BY <1>1, <1>2, <1>3, <1>4 DEF World

-----------------------------------------------------------------------------
LEMMA NextInv ==
  ASSUME GatesInv, [Next]_vars
  PROVE  GatesInv'
  <1>1. CASE Start \/ CheckHead \/ CheckClean
    BY <1>1, StartInv, CheckHeadInv, CheckCleanInv
  <1>2. CASE PromotionStep
    BY <1>2, CheckDigestInv, CheckVersionInv, PromoteInv DEF PromotionStep
  <1>3. CASE IntentStep
    BY <1>3, ReadLockInv, CheckMetadataInv, WriteIntentInv, AppendOutputsInv DEF IntentStep
  <1>4. CASE DocsStep
    <2>1. CASE ReplaceBundle
      BY <2>1, BundleInv DEF ReplaceBundle, At
    <2>2. CASE CloseBundle
      BY <2>2, BundleInv DEF CloseBundle, At
    <2>3. QED
      BY <1>4, <2>1, <2>2, ReadConfigInv, ReadTextInv, ReadSourceInv, CheckLiteralInv,
         VerifyArchiveInv DEF DocsStep
  <1>5. CASE ScanStep
    BY <1>5, CheckInputsInv, ExportGraphInv, ScanInv DEF ScanStep
  <1>6. CASE VerifyCore \/ VerifySignature
    BY <1>6, VerifyInv
  <1>7. CASE World
    BY <1>7, WorldInv
  <1>8. CASE UNCHANGED vars
    <2>1. UNCHANGED <<tree, report, clock, run, results>>
      BY <1>8 DEF vars, tree, results
    <2>2. RunInv'
      BY <2>1
      DEF GatesInv, RunInv, PromotionRun, IntentRun, DocsRun, ScanRun, At, Still, Requested, tree
    <2>3. QED
      BY <2>1, <2>2, ResultsStay DEF GatesInv, Types, tree
  <1>9. QED
    BY <1>1, <1>2, <1>3, <1>4, <1>5, <1>6, <1>7, <1>8 DEF Next

(* A gate at any of its steps knows what it has seen of tree and report, whatever was
   edited, checked out or replaced in between. *)
THEOREM GatesInvariant == Spec => []GatesInv
  <1>1. Init => GatesInv
    BY InitInv
  <1>2. GatesInv /\ [Next]_vars => GatesInv'
    BY NextInv
  <1>3. QED
    BY <1>1, <1>2, PTL DEF Spec

(* Promotions, intents and documentation are of the requested commit, although the tree
   was read file by file, unless it moved at one of the steps that are named. *)
THEOREM FromOneCommitAlways == Spec => []FromOneCommit
  <1>1. GatesInv => FromOneCommit
    BY DEF GatesInv, ResultsInv
  <1>2. QED
    BY <1>1, GatesInvariant, PTL

(* The promoted report is the dispatched one unless it was replaced between its two reads,
   and names the dispatched commit. *)
THEOREM PromotionIsRequestedAlways == Spec => []PromotionIsRequested
  <1>1. GatesInv => PromotionIsRequested
    BY DEF GatesInv, ResultsInv
  <1>2. QED
    BY <1>1, GatesInvariant, PTL

(* For reports with any times: every domain's evidence of a promotion is of the dispatched
   image, begun after the release and no older than the limit. *)
THEOREM PromotionFreshAlways == Spec => []PromotionFresh
  <1>1. GatesInv => PromotionFresh
    BY DEF GatesInv, ResultsInv
  <1>2. QED
    BY <1>1, GatesInvariant, PTL

(* A passed scan's commit has dependencies, none with a blocking advisory, unless the tree
   moved between the comparison and the export of the graph. *)
THEOREM ScanBlocksAlways == Spec => []ScanBlocks
  <1>1. GatesInv => ScanBlocks
    BY DEF GatesInv, ResultsInv
  <1>2. QED
    BY <1>1, GatesInvariant, PTL

-----------------------------------------------------------------------------
(* The core's release. *)

\* An accepted directory binds every artifact to its candidate's run.
LEMMA AcceptableIsOneRun ==
  ASSUME NEW directory \in AcceptableCore, NEW name \in CandidateAsset
  PROVE  directory[name].run = directory["candidate"].run
  <1>1. directory \in Directory /\ CandidateAccepted(directory)
    BY DEF AcceptableCore, CoreAccepted
  <1>2. directory["candidate"].artifacts[name] = directory[name]
    BY <1>1 DEF CandidateAccepted
  <1>3. directory["candidate"].artifacts[name].run = directory["candidate"].run
    BY <1>1, CandidateAssumption
  <1>4. QED
    BY <1>2, <1>3

-----------------------------------------------------------------------------
(* Induction, over sets of numbers: the well-founded order of the naturals has a least
   element in every set, so a set that is closed under the successor is all of them. *)
LEMMA LeastNatural ==
    ASSUME NEW T, T \subseteq Nat, T # {}
    PROVE  \E n \in T : \A m \in T : n <= m
<1> DEFINE Below == {p \in Nat \X Nat : p[1] < p[2]}
<1>1. IsWellFoundedOn(Below, Nat)
  <2>1. OpToRel(<, Nat) = Below
    BY Zenon DEF OpToRel
  <2> QED
    BY <2>1, NatLessThanWellFounded, Zenon
<1>2. PICK n \in T : \A m \in T : ~(<<m, n>> \in Below)
  <2> HIDE DEF Below
  <2> QED
    BY <1>1, WFMin, Zenon
<1>3. ASSUME NEW m \in T PROVE n <= m
  <2>1. m \in Nat /\ n \in Nat
    OBVIOUS
  <2>2. <<m, n>> \in Nat \X Nat
    BY <2>1
  <2>3. ~(m < n)
    <3>1. <<m, n>> \notin Below
      BY <1>2
    <3> QED
      BY <2>2, <3>1
  <2> QED
    BY <2>1, <2>3
<1> QED
  BY <1>3

\* A set that holds 0 and every successor holds all of them.
LEMMA SetInduction ==
    ASSUME NEW S, 0 \in S, \A n \in Nat : n \in S => n + 1 \in S
    PROVE  Nat \subseteq S
<1> DEFINE T == Nat \ S
<1> SUFFICES ASSUME T # {} PROVE FALSE
  OBVIOUS
<1>1. PICK n \in T : \A m \in T : n <= m
  BY LeastNatural
<1>2. n # 0
  OBVIOUS
<1>3. n - 1 \in Nat /\ n - 1 \notin T
  BY <1>1, <1>2
<1> QED
  BY <1>3


(* The recursion that concatenates sequences has a solution, and FlattenSeq is it. *)
LEMMA FlattenExists ==
    ASSUME NEW seqs, NEW n \in Nat
    PROVE  \E g : g = [i \in 1 .. n |-> IF i = 1 THEN seqs[i] ELSE g[i - 1] \o seqs[i]]
<1> DEFINE E(g, m) == [i \in 1 .. m |-> IF i = 1 THEN seqs[i] ELSE g[i - 1] \o seqs[i]]
           S == {m \in Nat : \E g : g = E(g, m)}
<1>1. 0 \in S
  <2> DEFINE g == [i \in 1 .. 0 |-> 0]
  <2>1. g = E(g, 0)
    OBVIOUS
  <2> QED
    BY <2>1
<1>2. ASSUME NEW m \in Nat, m \in S PROVE m + 1 \in S
  <2>1. PICK g : g = E(g, m)
    BY <1>2
  <2> DEFINE e == IF m + 1 = 1 THEN seqs[m + 1] ELSE g[m] \o seqs[m + 1]
             h == [i \in 1 .. m + 1 |-> IF i = m + 1 THEN e ELSE g[i]]
  <2>2. h = E(h, m + 1)
    <3>1. ASSUME NEW i \in 1 .. m + 1 PROVE h[i] = E(h, m + 1)[i]
      <4>1. CASE i = m + 1
        BY <4>1
      <4>2. CASE i # m + 1
        <5>1. i \in 1 .. m /\ (i # 1 => i - 1 \in 1 .. m /\ i - 1 # m + 1 /\ i - 1 \in 1 .. m + 1)
          BY <4>2
        <5>2. g[i] = E(g, m)[i]
          BY <2>1, Zenon
        <5> QED
          BY <5>1, <5>2, <4>2
      <4> QED
        BY <4>1, <4>2
    <3> QED
      BY <3>1
  <2>3. \E f : f = E(f, m + 1)
    <3> HIDE DEF h, E
    <3> QED
      BY <2>2, Zenon
  <2>4. m + 1 \in Nat
    OBVIOUS
  <2> HIDE DEF E
  <2> QED
    BY <2>3, <2>4, Zenon
<1>3. Nat \subseteq S
  BY <1>1, <1>2, SetInduction
<1> QED
  BY <1>3

\* What is chosen for FlattenSeq is that solution, at the last position.
LEMMA Flatten ==
    ASSUME NEW seqs, Len(seqs) \in Nat \ {0}
    PROVE  \E g : /\ g = [i \in 1 .. Len(seqs) |-> IF i = 1 THEN seqs[i] ELSE g[i - 1] \o seqs[i]]
                  /\ FlattenSeq(seqs) = g[Len(seqs)]
<1> DEFINE g == CHOOSE f : f = [i \in 1 .. Len(seqs) |-> IF i = 1 THEN seqs[i] ELSE f[i - 1] \o seqs[i]]
<1>1. g = [i \in 1 .. Len(seqs) |-> IF i = 1 THEN seqs[i] ELSE g[i - 1] \o seqs[i]]
  BY FlattenExists, Zenon
<1>2. FlattenSeq(seqs) = g[Len(seqs)]
  BY Zenon DEF FlattenSeq
<1> QED
  BY <1>1, <1>2, Zenon

\* What a concatenation of two sequences holds, by position.
LEMMA Joined ==
    ASSUME NEW S, NEW s \in Seq(S), NEW t \in Seq(S)
    PROVE  /\ s \o t \in Seq(S)
           /\ Len(s) \in Nat /\ Len(t) \in Nat
           /\ Len(s \o t) = Len(s) + Len(t)
           /\ \A i \in 1 .. Len(s) : (s \o t)[i] = s[i]
           /\ \A i \in 1 .. Len(t) : (s \o t)[Len(s) + i] = t[i]
<1>1. Len(s) \in Nat /\ Len(t) \in Nat
  OBVIOUS
<1>2. \A i \in 1 .. Len(t) : Len(s) + i \in 1 .. Len(s) + Len(t) /\ ~(Len(s) + i <= Len(s))
                             /\ Len(s) + i - Len(s) = i
  BY <1>1
<1> QED
  BY <1>1, <1>2, ConcatProperties

-----------------------------------------------------------------------------
(* The signatures.  The lines GnuPG writes. *)
Tags == AllowedTag \cup {"BADSIG", "EXPKEYSIG"}
Arguments(signature) ==
    {"none", signature.key, signature, [key |-> signature.primary, usable |-> TRUE]}
Written(signature) == [tag : Tags, of : Arguments(signature)]

(* About one signature it writes NEWSIG first, then the key, then the verdict. *)
LEMMA LinesAre ==
    ASSUME NEW signature, signature.verdict \in {"good", "bad", "expired"}
    PROVE  /\ LinesOf(signature) \in Seq(Written(signature))
           /\ Len(LinesOf(signature)) \in Nat /\ Len(LinesOf(signature)) >= 3
           /\ LinesOf(signature)[1].tag = "NEWSIG"
           /\ signature.verdict = "bad" => LinesOf(signature)[3].tag = "BADSIG"
           /\ signature.verdict = "expired" => LinesOf(signature)[3].tag = "EXPKEYSIG"
           /\ signature.verdict = "good" =>
                 /\ Len(LinesOf(signature)) >= 5
                 /\ LinesOf(signature)[5].tag = "VALIDSIG"
                 /\ LinesOf(signature)[5].of = signature
<1> DEFINE line(tag, of) == [tag |-> tag, of |-> of]
           start == <<line("NEWSIG", "none"),
                      line("KEY_CONSIDERED", [key |-> signature.primary, usable |-> TRUE])>>
           good == <<line("SIG_ID", "none"), line("GOODSIG", signature.key),
                     line("VALIDSIG", signature)>>
           trust == IF signature.trusted THEN <<line("TRUST_ULTIMATE", "none")>> ELSE <<>>
           bad == <<line("BADSIG", signature.key)>>
           expired == <<line("EXPKEYSIG", signature.key), line("VALIDSIG", signature)>>
<1>1. start \in Seq(Written(signature)) /\ Len(start) = 2 /\ start[1].tag = "NEWSIG"
  BY DEF Written, Arguments, Tags, AllowedTag
<1>2. good \in Seq(Written(signature)) /\ Len(good) = 3 /\ good[3] = line("VALIDSIG", signature)
  BY DEF Written, Arguments, Tags, AllowedTag
<1>3. trust \in Seq(Written(signature)) /\ Len(trust) \in Nat
  <2>1. CASE signature.trusted
    <3>1. line("TRUST_ULTIMATE", "none") \in Written(signature)
      BY DEF Written, Arguments, Tags, AllowedTag
    <3>2. trust = <<line("TRUST_ULTIMATE", "none")>>
      BY <2>1
    <3> QED
      BY <3>1, <3>2
  <2>2. CASE ~signature.trusted
    <3>1. trust = <<>>
      BY <2>2
    <3> QED
      BY <3>1
  <2> QED
    BY <2>1, <2>2
<1>4. bad \in Seq(Written(signature)) /\ Len(bad) = 1 /\ bad[1].tag = "BADSIG"
  BY DEF Written, Arguments, Tags, AllowedTag
<1>5. expired \in Seq(Written(signature)) /\ Len(expired) = 2 /\ expired[1].tag = "EXPKEYSIG"
  BY DEF Written, Arguments, Tags, AllowedTag
<1> DEFINE outcome == [good |-> good \o trust, bad |-> bad, expired |-> expired]
           rest == outcome[signature.verdict]
<1>6. LinesOf(signature) = start \o rest
  BY Zenon DEF LinesOf
<1> DEFINE W == Written(signature)
           valid == line("VALIDSIG", signature)
<1>7. good \in Seq(W) /\ Len(good) = 3 /\ good[3] = valid
  BY <1>2
<1> HIDE DEF start, good, trust, bad, expired, W, line, valid
<1>8. /\ good \o trust \in Seq(W) /\ Len(good \o trust) >= 3
      /\ (good \o trust)[3] = valid
  <2>1. trust \in Seq(W) /\ Len(trust) \in Nat
    BY <1>3 DEF W
  <2>2. /\ good \o trust \in Seq(W) /\ Len(good \o trust) = Len(good) + Len(trust)
        /\ \A i \in 1 .. Len(good) : (good \o trust)[i] = good[i]
    BY <1>7, <2>1, Joined, Zenon
  <2> QED
    BY <1>7, <2>1, <2>2
<1>9. /\ rest \in Seq(W) /\ Len(rest) \in Nat \ {0}
      /\ signature.verdict = "bad" => rest[1].tag = "BADSIG"
      /\ signature.verdict = "expired" => rest[1].tag = "EXPKEYSIG"
      /\ signature.verdict = "good" => Len(rest) >= 3 /\ rest[3] = valid
  <2>1. CASE signature.verdict = "good"
    <3>1. rest = good \o trust
      BY <2>1
    <3>2. rest \in Seq(W) /\ Len(rest) >= 3 /\ rest[3] = valid
      BY <1>8, <3>1
    <3> HIDE DEF rest
    <3>3. Len(rest) \in Nat \ {0}
      BY <3>2
    <3> QED
      BY <2>1, <3>2, <3>3
  <2>2. CASE signature.verdict = "bad"
    <3>1. rest = bad
      BY <2>2
    <3>2. rest \in Seq(W) /\ Len(rest) \in Nat \ {0} /\ rest[1].tag = "BADSIG"
      BY <1>4, <3>1 DEF W
    <3> HIDE DEF rest
    <3> QED
      BY <2>2, <3>2
  <2>3. CASE signature.verdict = "expired"
    <3>1. rest = expired
      BY <2>3
    <3>2. rest \in Seq(W) /\ Len(rest) \in Nat \ {0} /\ rest[1].tag = "EXPKEYSIG"
      BY <1>5, <3>1 DEF W
    <3> HIDE DEF rest
    <3> QED
      BY <2>3, <3>2
  <2> QED
    BY <2>1, <2>2, <2>3
<1> HIDE DEF rest
<1>10. /\ start \o rest \in Seq(W) /\ Len(start \o rest) = 2 + Len(rest)
       /\ (start \o rest)[1] = start[1] /\ (start \o rest)[3] = rest[1]
       /\ Len(rest) >= 3 => (start \o rest)[5] = rest[3]
  <2>1. start \in Seq(W) /\ Len(start) = 2
    BY <1>1 DEF W
  <2>2. /\ start \o rest \in Seq(W) /\ Len(start \o rest) = Len(start) + Len(rest)
        /\ \A i \in 1 .. Len(start) : (start \o rest)[i] = start[i]
        /\ \A i \in 1 .. Len(rest) : (start \o rest)[Len(start) + i] = rest[i]
    <3>1. rest \in Seq(W)
      BY <1>9
    <3>2. start \in Seq(W)
      BY <2>1
    <3> HIDE DEF outcome
    <3> QED
      BY <3>1, <3>2, Joined
  <2> QED
    BY <1>9, <2>1, <2>2
<1>11. valid.tag = "VALIDSIG" /\ valid.of = signature
  BY DEF valid, line
<1> QED
  BY <1>1, <1>6, <1>9, <1>10, <1>11 DEF W

LEMMA SeqOfSubset ==
    ASSUME NEW S, NEW T, S \subseteq T, NEW s \in Seq(S)
    PROVE  s \in Seq(T)
OBVIOUS

(* About a file: nothing if it is empty, the lines of its one signature, and otherwise
   NEWSIG at least twice, by induction over its signatures. *)
LEMMA StatusLines ==
    ASSUME NEW signatures \in Signatures
    PROVE  /\ Len(signatures) = 0 => StatusOf(signatures) = <<>>
           /\ Len(signatures) = 1 => StatusOf(signatures) = LinesOf(signatures[1])
           /\ Len(signatures) >= 2 =>
                 \E i, j \in DOMAIN StatusOf(signatures) :
                    /\ i # j
                    /\ StatusOf(signatures)[i].tag = "NEWSIG"
                    /\ StatusOf(signatures)[j].tag = "NEWSIG"
<1> DEFINE n == Len(signatures)
           lines == [i \in DOMAIN signatures |-> LinesOf(signatures[i])]
           X == UNION {Written(signatures[i]) : i \in 1 .. n}
           Starts(s) == s \in Seq(X) /\ Len(s) \in Nat \ {0} /\ s[1].tag = "NEWSIG"
<1>1. n \in Nat /\ DOMAIN signatures = 1 .. n
  BY SignatureAssumption
<1>2. ASSUME NEW i \in 1 .. n PROVE lines[i] = LinesOf(signatures[i]) /\ Starts(lines[i])
  <2>1. signatures[i].verdict \in {"good", "bad", "expired"}
    BY <1>1, SignatureAssumption
  <2>2. lines[i] = LinesOf(signatures[i])
    BY <1>1
  <2> HIDE DEF lines
  <2>3. lines[i] \in Seq(Written(signatures[i])) /\ Len(lines[i]) >= 3 /\ lines[i][1].tag = "NEWSIG"
    <3> DEFINE s == signatures[i]
    <3> HIDE DEF s
    <3>1. s.verdict \in {"good", "bad", "expired"}
      BY <2>1 DEF s
    <3>2. LinesOf(s) \in Seq(Written(s)) /\ Len(LinesOf(s)) >= 3 /\ LinesOf(s)[1].tag = "NEWSIG"
      BY <3>1, LinesAre
    <3> QED
      BY <2>2, <3>2 DEF s
  <2>4. Written(signatures[i]) \subseteq X
    OBVIOUS
  <2> HIDE DEF X
  <2>5. lines[i] \in Seq(X)
    BY <2>3, <2>4, SeqOfSubset
  <2> QED
    BY <2>2, <2>3, <2>5
<1>3. Len(lines) = n
  BY <1>1
<1>4. StatusOf(signatures) = FlattenSeq(lines)
  BY DEF StatusOf
<1> HIDE DEF lines, X
<1>5. CASE n = 0
  <2>1. lines = <<>>
    BY <1>1, <1>5 DEF lines
  <2>2. FlattenSeq(lines) = lines
    BY <1>3, <1>5 DEF FlattenSeq
  <2> QED
    BY <1>4, <1>5, <2>1, <2>2
<1>6. CASE n # 0
  <2>1. PICK g : /\ g = [i \in 1 .. n |-> IF i = 1 THEN lines[i] ELSE g[i - 1] \o lines[i]]
                 /\ FlattenSeq(lines) = g[n]
    <3>1. Len(lines) \in Nat \ {0}
      BY <1>1, <1>3, <1>6
    <3> QED
      BY <1>3, <3>1, Flatten
  <2>2. ASSUME NEW m \in 1 .. n
        PROVE  g[m] = IF m = 1 THEN lines[m] ELSE g[m - 1] \o lines[m]
    BY <2>1
  <2> DEFINE S == {m \in Nat : m \in 1 .. n => Starts(g[m])}
  <2>3. 0 \in S
    OBVIOUS
  <2>4. ASSUME NEW m \in Nat, m \in S PROVE m + 1 \in S
    <3> SUFFICES ASSUME m + 1 \in 1 .. n PROVE Starts(g[m + 1])
      BY <1>1
    <3>1. CASE m = 0
      BY <1>2, <2>2, <3>1
    <3>2. CASE m # 0
      <4>1. m \in 1 .. n /\ m + 1 # 1 /\ (m + 1) - 1 = m
        BY <1>1, <3>2
      <4>2. Starts(g[m]) /\ Starts(lines[m + 1])
        BY <1>2, <2>4, <4>1
      <4>3. g[m + 1] = g[m] \o lines[m + 1]
        BY <2>2, <4>1
      <4> DEFINE s == g[m]
                 t == lines[m + 1]
      <4> HIDE DEF s, t
      <4>4. Starts(s) /\ Starts(t)
        BY <4>2 DEF s, t
      <4>5. s \o t \in Seq(X) /\ Len(s \o t) = Len(s) + Len(t) /\ (s \o t)[1] = s[1]
        BY <4>4, Joined
      <4>6. Starts(s \o t)
        BY <4>4, <4>5
      <4> QED
        BY <4>3, <4>6 DEF s, t
    <3> QED
      BY <3>1, <3>2
  <2>5. \A m \in 1 .. n : Starts(g[m])
    <3>1. Nat \subseteq S
      BY <2>3, <2>4, SetInduction
    <3> QED
      BY <1>1, <3>1
  <2>6. ASSUME n = 1 PROVE StatusOf(signatures) = LinesOf(signatures[1])
    BY <1>2, <1>4, <2>1, <2>2, <2>6
  <2>7. ASSUME n >= 2
        PROVE  \E i, j \in DOMAIN StatusOf(signatures) :
                  /\ i # j
                  /\ StatusOf(signatures)[i].tag = "NEWSIG"
                  /\ StatusOf(signatures)[j].tag = "NEWSIG"
    <3>1. n - 1 \in 1 .. n /\ n \in 1 .. n /\ n # 1
      BY <1>1, <2>7
    <3>2. Starts(g[n - 1]) /\ Starts(lines[n]) /\ g[n] = g[n - 1] \o lines[n]
      BY <1>2, <2>2, <2>5, <3>1
    <3> DEFINE s == g[n - 1]
               t == lines[n]
    <3>3. StatusOf(signatures) = s \o t
      BY <1>4, <2>1, <3>2
    <3> HIDE DEF s, t
    <3>4. Starts(s) /\ Starts(t)
      BY <3>2 DEF s, t
    <3>5. /\ s \o t \in Seq(X) /\ Len(s \o t) = Len(s) + Len(t)
          /\ (s \o t)[1] = s[1] /\ (s \o t)[Len(s) + 1] = t[1]
      BY <3>4, Joined
    <3>6. 1 \in DOMAIN (s \o t) /\ Len(s) + 1 \in DOMAIN (s \o t) /\ 1 # Len(s) + 1
      BY <3>4, <3>5
    <3>7. \E i, j \in DOMAIN (s \o t) :
              i # j /\ (s \o t)[i].tag = "NEWSIG" /\ (s \o t)[j].tag = "NEWSIG"
      BY <3>4, <3>5, <3>6
    <3> QED
      BY <3>3, <3>7
  <2> QED
    BY <1>6, <2>6, <2>7, Zenon
<1> QED
  BY <1>5, <1>6

(* What the script takes for proven is one good signature by the pinned primary key. *)
LEMMA AcceptableIsSigned ==
    ASSUME NEW signatures \in AcceptableSignature
    PROVE  /\ Len(signatures) = 1
           /\ signatures[1].verdict = "good" /\ signatures[1].primary = Pin
           /\ signatures[1].hash = "SHA512" /\ signatures[1].class = "binary"
<1> DEFINE status == StatusOf(signatures)
           s == signatures[1]
<1>1. signatures \in Signatures /\ Proven(status, Pin)
  BY DEF AcceptableSignature
<1>2. Len(signatures) \in Nat /\ DOMAIN signatures = 1 .. Len(signatures)
  BY <1>1, SignatureAssumption
<1>3. Len(signatures) # 0
  <2>1. status # <<>>
    BY <1>1 DEF Proven
  <2> QED
    BY <1>1, <2>1, StatusLines
<1>4. ~(Len(signatures) >= 2)
  <2> SUFFICES ASSUME Len(signatures) >= 2 PROVE FALSE
    OBVIOUS
  <2>1. PICK i, j \in DOMAIN status : i # j /\ status[i].tag = "NEWSIG" /\ status[j].tag = "NEWSIG"
    BY <1>1, StatusLines
  <2>2. PICK only \in DOMAIN status : Lines(status, {"NEWSIG"}) = {only}
    BY <1>1 DEF Proven, Once
  <2>3. {i, j} \subseteq Lines(status, {"NEWSIG"})
    BY <2>1 DEF Lines
  <2> QED
    BY <2>1, <2>2, <2>3
<1>5. Len(signatures) = 1
  BY <1>2, <1>3, <1>4
<1>6. status = LinesOf(s)
  BY <1>1, <1>5, StatusLines
<1>7. s.verdict \in {"good", "bad", "expired"}
  BY <1>1, <1>2, <1>5, SignatureAssumption
<1> HIDE DEF status, s
<1>8. /\ 3 \in DOMAIN status
      /\ s.verdict = "bad" => status[3].tag = "BADSIG"
      /\ s.verdict = "expired" => status[3].tag = "EXPKEYSIG"
  <2>1. /\ LinesOf(s) \in Seq(Written(s)) /\ Len(LinesOf(s)) >= 3
        /\ s.verdict = "bad" => LinesOf(s)[3].tag = "BADSIG"
        /\ s.verdict = "expired" => LinesOf(s)[3].tag = "EXPKEYSIG"
    BY <1>7, LinesAre
  <2> QED
    BY <1>6, <2>1
<1>9. s.verdict = "good"
  <2>1. status[3].tag \in AllowedTag
    BY <1>1, <1>8 DEF Proven
  <2> QED
    BY <1>7, <1>8, <2>1 DEF AllowedTag
<1>10. 5 \in DOMAIN status /\ status[5].tag = "VALIDSIG" /\ status[5].of = s
  <2>1. /\ LinesOf(s) \in Seq(Written(s)) /\ Len(LinesOf(s)) >= 5
        /\ LinesOf(s)[5].tag = "VALIDSIG" /\ LinesOf(s)[5].of = s
    BY <1>7, <1>9, LinesAre
  <2> QED
    BY <1>6, <2>1
<1>11. The(status, "VALIDSIG") = s
  <2>1. Once(status, "VALIDSIG")
    BY <1>1 DEF Proven
  <2>2. Lines(status, {"VALIDSIG"}) = {5}
    BY <1>10, <2>1 DEF Once, Lines
  <2> QED
    BY <1>10, <2>2 DEF The
<1>12. ValidAccepted(s, Pin)
  BY <1>1, <1>11 DEF Proven
<1> QED
  BY <1>5, <1>9, <1>12 DEF ValidAccepted, s

-----------------------------------------------------------------------------
\* What stands accepted of the core, or of a signature, was acceptable: no other gate writes
\* under their names.
CoreAcceptable == accepted # None /\ accepted.gate = "core" => accepted.of \in AcceptableCore
SignatureAcceptable ==
    accepted # None /\ accepted.gate = "signature" => accepted.of \in AcceptableSignature
Acceptable == CoreAcceptable /\ SignatureAcceptable

\* A gate that runs accepts under its own name.
LEMMA AcceptAsGate ==
  ASSUME GatesInv, NEW value, Accept(value)
  PROVE  Acceptable'
  <1>1. run.gate \notin {"core", "signature"} /\ accepted'.gate = run.gate
    BY DEF GatesInv, Types, Run, Accept
  <1>2. QED
    BY <1>1 DEF Acceptable, CoreAcceptable, SignatureAcceptable

LEMMA AcceptableNext ==
  ASSUME GatesInv, Acceptable, [Next]_vars
  PROVE  Acceptable'
  <1>1. CASE UNCHANGED accepted
    BY <1>1 DEF Acceptable, CoreAcceptable, SignatureAcceptable
  <1>2. CASE accepted' = None
    BY <1>2 DEF Acceptable, CoreAcceptable, SignatureAcceptable
  <1>3. CASE \E value : Accept(value)
    BY <1>3, AcceptAsGate
  <1>4. CASE VerifyCore
    <2>1. PICK directory \in AcceptableCore : accepted' = [gate |-> "core", of |-> directory]
      BY <1>4 DEF VerifyCore
    <2>2. accepted'.of \in AcceptableCore /\ accepted'.gate = "core"
      BY <2>1
    <2>3. QED
      BY <2>2 DEF Acceptable, CoreAcceptable, SignatureAcceptable
  <1>5. CASE VerifySignature
    <2>1. PICK signatures \in AcceptableSignature :
              accepted' = [gate |-> "signature", of |-> signatures]
      BY <1>5 DEF VerifySignature
    <2>2. accepted'.of \in AcceptableSignature /\ accepted'.gate = "signature"
      BY <2>1
    <2>3. QED
      BY <2>2 DEF Acceptable, CoreAcceptable, SignatureAcceptable
  <1>6. CASE Start
    BY <1>2, <1>6 DEF Start
  <1>7. CASE CheckHead \/ CheckClean
    BY <1>1, <1>7 DEF CheckHead, CheckClean, results
  <1>8. CASE PromotionStep
    BY <1>1, <1>3, <1>8 DEF PromotionStep, CheckDigest, CheckVersion, Promote, results
  <1>9. CASE IntentStep
    BY <1>1, <1>3, <1>9
    DEF IntentStep, ReadLock, CheckMetadata, WriteIntent, AppendOutputs, results
  <1>10. CASE DocsStep
    BY <1>1, <1>3, <1>10
    DEF DocsStep, ReadConfig, ReadText, ReadSource, CheckLiteral, ReplaceBundle, CloseBundle,
        VerifyArchive, results
  <1>11. CASE ScanStep
    BY <1>1, <1>3, <1>11 DEF ScanStep, CheckInputs, ExportGraph, Scan, results
  <1>12. CASE World
    BY <1>1, <1>12 DEF World, Tick, Checkout, EditTree, ReplaceReport, Crash, results
  <1>13. CASE UNCHANGED vars
    BY <1>1, <1>13 DEF vars
  <1>14. QED
    BY <1>4, <1>5, <1>6, <1>7, <1>8, <1>9, <1>10, <1>11, <1>12, <1>13 DEF Next

LEMMA AcceptableAlways == Spec => []Acceptable
  <1>1. Init => Acceptable
    BY DEF Init, Acceptable, CoreAcceptable, SignatureAcceptable
  <1>2. GatesInv /\ Acceptable /\ [Next]_vars => Acceptable'
    BY AcceptableNext
  <1>3. QED
    BY <1>1, <1>2, GatesInvariant, PTL DEF Spec

(* The artifacts of an accepted core release are of one run, although sums and record of a
   mixture can be made again: the candidate binds them, in every directory. *)
THEOREM CoreIsOneRunAlways == Spec => []CoreIsOneRun
  <1>1. Acceptable => CoreIsOneRun
    BY AcceptableIsOneRun DEF Acceptable, CoreAcceptable, CoreIsOneRun, AcceptedBy
  <1>2. QED
    BY <1>1, AcceptableAlways, PTL

(* A file of signatures passes the script only as one good signature over SHA-512 by a key
   of the pinned primary, however many signatures a file may hold and in whatever order. *)
THEOREM SignedByPinnedAlways == Spec => []SignedByPinned
  <1>1. Acceptable => SignedByPinned
    BY AcceptableIsSigned DEF Acceptable, SignatureAcceptable, SignedByPinned, AcceptedBy
  <1>2. QED
    BY <1>1, AcceptableAlways, PTL
================================================================================
