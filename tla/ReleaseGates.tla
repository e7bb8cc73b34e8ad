------------------------------ MODULE ReleaseGates ------------------------------
(***************************************************************************)
(* The gates of a release that read the checked-out source or a downloaded *)
(* file: scripts/verify-release-promotion.py, verify-maintainer-release.py, *)
(* build_docs_bundle.py, scan-dependencies.sh with verify-osv-report.py,   *)
(* verify-public-core-release.py and verify-gpg-status.py.  One runs at a  *)
(* time; between any two of its reads the tree may be edited or another    *)
(* commit checked out, and the report replaced.                            *)
(*                                                                         *)
(* A commit stands for the content of its tree.                            *)
(***************************************************************************)
EXTENDS PromotionReport, CoreRelease, SigningStatus

CONSTANTS
    Commit, Edit,     \* contents of a tree: [version, core, text, graph]
    Request,          \* what a gate may be started with
    Report,           \* promotion reports
    Directory,        \* of downloaded core release assets
    Signatures,       \* what a signature file may hold, in order
    Pin,              \* the pinned primary key
    Advisory,         \* the severities of a package's advisories
    MaximumRuns, MaximumClock, MaximumMishaps,
    None

ASSUME GateAssumption == {MaximumRuns, MaximumClock, MaximumMishaps} \subseteq Nat

(* A gate is started by its name; a report lists repositories and has times. *)
ASSUME RequestAssumption ==
    \A request \in Request : request.gate \in {"promotion", "intent", "docs", "scan"}
ASSUME ReportAssumption ==
    \A sent \in Report :
        /\ DOMAIN sent.repositories = 1 .. Len(sent.repositories)
        /\ {sent.contract.released, sent.window.started, sent.window.finished} \subseteq Int
        /\ \A d \in DOMAIN sent.domains :
              {sent.domains[d].started, sent.domains[d].finished} \subseteq Int
(* The core's release workflow records in a candidate the artifacts of the run that made
   it: its digests cannot be met by another run's. *)
ASSUME CandidateAssumption ==
    \A directory \in Directory :
        LET candidate == directory["candidate"] IN
            \A name \in CandidateAsset : candidate.artifacts[name].run = candidate.run
(* A signature file is a sequence; GnuPG's verdict on a signature is one of three. *)
ASSUME SignatureAssumption ==
    \A signatures \in Signatures :
        /\ Len(signatures) \in Nat /\ DOMAIN signatures = 1 .. Len(signatures)
        /\ \A i \in DOMAIN signatures : signatures[i].verdict \in {"good", "bad", "expired"}

VARIABLES
    head, files,      \* the commit that is checked out, the content that is there
    report,           \* the downloaded promotion report
    clock, runs, mishaps,
    run,              \* the gate that runs
    accepted,         \* what the last gate accepted
    evidence,         \* the file of the dependency scan
    intent,           \* the maintainer's release intent
    bundle            \* the documentation archive at its destination

tree == <<head, files>>
results == <<accepted, evidence, intent, bundle>>
vars == <<head, files, report, clock, runs, mishaps, run, accepted, evidence, intent, bundle>>

First == [promotion |-> "digest", intent |-> "head", docs |-> "config", scan |-> "head"]

\* `moved' and `replaced' remember at which steps the tree or the report changed
Idle == [gate |-> "none", pc |-> "idle", request |-> None, now |-> 0, clean |-> FALSE,
         read |-> <<>>, moved |-> {}, replaced |-> {}]

Init ==
    /\ head \in Commit /\ files = head
    /\ report \in Report
    /\ clock = 0 /\ runs = 0 /\ mishaps = 0
    /\ run = Idle
    /\ accepted = None
    /\ evidence = None /\ intent = None /\ bundle = None

At(pc) == run.pc = pc
Requested == run.request.commit
End == run' = Idle
GoTo(pc) == run' = [run EXCEPT !.pc = pc]
Demand(condition, pc) == IF condition THEN GoTo(pc) ELSE End
Read(value, pc) == run' = [run EXCEPT !.read = Append(@, value), !.pc = pc]
Accept(value) == accepted' = [gate |-> run.gate, of |-> value]
AcceptedBy(gate) == IF accepted # None /\ accepted.gate = gate THEN accepted.of ELSE None

-----------------------------------------------------------------------------
Start ==
    /\ run = Idle
    /\ runs < MaximumRuns /\ runs' = runs + 1
    /\ \E request \in Request :
          /\ request.gate = "promotion" => DispatchAccepted(request.dispatch)
          /\ run' = [Idle EXCEPT !.gate = request.gate, !.pc = First[request.gate],
                                 !.request = request, !.now = clock]
    /\ accepted' = None
    /\ UNCHANGED <<tree, report, clock, mishaps, evidence, intent, bundle>>

(* build, before it looks at the tree's commit. *)
ReadConfig ==
    /\ At("config")
    /\ Read(files.version, "head")
    /\ UNCHANGED <<tree, report, clock, runs, mishaps, results>>

\* Mutant: the digest is not compared.
CheckDigestSkipped ==
    /\ At("digest")
    /\ GoTo("head")
    /\ UNCHANGED <<tree, report, clock, runs, mishaps, results>>

(* sha256_file of the report, which load_json reads again later. *)
CheckDigest ==
    /\ At("digest")
    /\ Demand(report = run.request.report, "head")
    /\ UNCHANGED <<tree, report, clock, runs, mishaps, results>>

AfterHead == [promotion |-> "clean", intent |-> "clean", docs |-> "clean", scan |-> "inputs"]

CheckHead ==
    /\ At("head")
    /\ Demand(head = Requested, AfterHead[run.gate])
    /\ UNCHANGED <<tree, report, clock, runs, mishaps, results>>

AfterClean == [promotion |-> "version", intent |-> "lock", docs |-> "text"]

\* Mutant: the tree may differ from the commit.
CheckCleanSkipped ==
    /\ At("clean")
    /\ run' = [run EXCEPT !.pc = AfterClean[run.gate], !.clean = TRUE]
    /\ UNCHANGED <<tree, report, clock, runs, mishaps, results>>

(* `git status --porcelain'; a documentation bundle may do without. *)
CheckClean ==
    /\ At("clean")
    /\ IF files = head \/ (run.gate = "docs" /\ ~run.request.strict)
       THEN run' = [run EXCEPT !.pc = AfterClean[run.gate], !.clean = (files = head)]
       ELSE End
    /\ UNCHANGED <<tree, report, clock, runs, mishaps, results>>

-----------------------------------------------------------------------------
(* local_version. *)
CheckVersion ==
    /\ At("version")
    /\ Demand(files.version = run.request.dispatch.version, "load")
    /\ UNCHANGED <<tree, report, clock, runs, mishaps, results>>

Promote ==
    /\ At("load")
    /\ IF ReportAccepted(report, run.request.dispatch, run.now)
       THEN Accept([report |-> report, request |-> run.request, at |-> run.now,
                    moved |-> run.moved, replaced |-> run.replaced])
       ELSE UNCHANGED accepted
    /\ End
    /\ UNCHANGED <<tree, report, clock, runs, mishaps, evidence, intent, bundle>>

-----------------------------------------------------------------------------
(* contract_lock and verify_android_release_metadata. *)
ReadLock ==
    /\ At("lock")
    /\ IF files.core # None THEN Read(files.core, "metadata") ELSE End
    /\ UNCHANGED <<tree, report, clock, runs, mishaps, results>>

CheckMetadata ==
    /\ At("metadata")
    /\ Demand(files.version = "1.0.0", "write")
    /\ UNCHANGED <<tree, report, clock, runs, mishaps, results>>

(* write_intent replaces the file; append_outputs may still fail. *)
WriteIntent ==
    /\ At("write")
    /\ intent' = [commit |-> Requested, core |-> run.read[1], moved |-> run.moved]
    /\ GoTo("output")
    /\ UNCHANGED <<tree, report, clock, runs, mishaps, accepted, evidence, bundle>>

AppendOutputs ==
    /\ At("output")
    /\ Accept([intent |-> intent, commit |-> Requested])
    /\ End
    /\ UNCHANGED <<tree, report, clock, runs, mishaps, evidence, intent, bundle>>

-----------------------------------------------------------------------------
(* The documents, then the records, whose declared value is sought in a second read of
   their source. *)
ReadText ==
    /\ At("text")
    /\ Read(files.text, "source")
    /\ UNCHANGED <<tree, report, clock, runs, mishaps, results>>

ReadSource ==
    /\ At("source")
    /\ Read(files.version, "literal")
    /\ UNCHANGED <<tree, report, clock, runs, mishaps, results>>

CheckLiteral ==
    /\ At("literal")
    /\ Demand(files.version = run.read[1], "replace")
    /\ UNCHANGED <<tree, report, clock, runs, mishaps, results>>

Archive(whole) ==
    [commit |-> Requested, clean |-> run.clean, config |-> run.read[1], text |-> run.read[2],
     source |-> run.read[3], moved |-> run.moved, whole |-> whole]

(* os.replace puts the file in place before its buffer is flushed. *)
ReplaceBundle ==
    /\ At("replace")
    /\ bundle' = Archive(FALSE)
    /\ GoTo("close")
    /\ UNCHANGED <<tree, report, clock, runs, mishaps, accepted, evidence, intent>>

CloseBundle ==
    /\ At("close")
    /\ bundle' = Archive(TRUE)
    /\ GoTo("archive")
    /\ UNCHANGED <<tree, report, clock, runs, mishaps, accepted, evidence, intent>>

VerifyArchive ==
    /\ At("archive")
    /\ IF bundle.whole THEN Accept(bundle) ELSE UNCHANGED accepted
    /\ End
    /\ UNCHANGED <<tree, report, clock, runs, mishaps, evidence, intent, bundle>>

-----------------------------------------------------------------------------
NonBlocking == {"LOW", "MEDIUM", "MODERATE", "NONE"}
\* Mutant: only the severities known to be bad block.
BlockingKnown(graph) == {p \in graph : Advisory[p] \cap {"HIGH", "CRITICAL"} # {}}
Blocking(graph) == {p \in graph : Advisory[p] \ NonBlocking # {}}

(* Every input of the build has the blob of the requested commit. *)
CheckInputs ==
    /\ At("inputs")
    /\ Demand(files.graph = Requested.graph, "graph")
    /\ UNCHANGED <<tree, report, clock, runs, mishaps, results>>

ExportGraph ==
    /\ At("graph")
    /\ Read(files.graph, "scan")
    /\ UNCHANGED <<tree, report, clock, runs, mishaps, results>>

(* Evidence is written of a failed scan too. *)
Scan ==
    /\ At("scan")
    /\ LET graph == run.read[1]
           found == [commit |-> Requested, passed |-> Blocking(graph) = {}, moved |-> run.moved]
       IN  IF graph = {}
           THEN UNCHANGED <<evidence, accepted>>
           ELSE /\ evidence' = found
                /\ IF found.passed THEN Accept(found) ELSE UNCHANGED accepted
    /\ End
    /\ UNCHANGED <<tree, report, clock, runs, mishaps, intent, bundle>>

-----------------------------------------------------------------------------
AcceptableCore == {directory \in Directory : CoreAccepted(directory)}
AcceptableSignature == {signatures \in Signatures : Proven(StatusOf(signatures), Pin)}

VerifyCore ==
    /\ run = Idle
    /\ \E directory \in AcceptableCore : accepted' = [gate |-> "core", of |-> directory]
    /\ UNCHANGED <<tree, report, clock, runs, mishaps, run, evidence, intent, bundle>>

VerifySignature ==
    /\ run = Idle
    /\ \E signatures \in AcceptableSignature :
          accepted' = [gate |-> "signature", of |-> signatures]
    /\ UNCHANGED <<tree, report, clock, runs, mishaps, run, evidence, intent, bundle>>

-----------------------------------------------------------------------------
Tick ==
    /\ clock < MaximumClock
    /\ clock' = clock + 1
    /\ UNCHANGED <<tree, report, runs, mishaps, run, results>>

Mishap == mishaps < MaximumMishaps /\ mishaps' = mishaps + 1

Moved == run' = IF run = Idle THEN run ELSE [run EXCEPT !.moved = @ \cup {run.pc}]

Checkout ==
    /\ Mishap
    /\ head' \in Commit /\ files' = head' /\ tree' # tree
    /\ Moved
    /\ UNCHANGED <<report, clock, runs, results>>

EditTree ==
    /\ Mishap
    /\ files' \in Edit
    /\ Moved
    /\ UNCHANGED <<head, report, clock, runs, results>>

ReplaceReport ==
    /\ Mishap
    /\ report' \in Report
    /\ run' = IF run = Idle THEN run ELSE [run EXCEPT !.replaced = @ \cup {run.pc}]
    /\ UNCHANGED <<tree, clock, runs, results>>

(* A gate dies, or its last write fails. *)
Crash ==
    /\ Mishap
    /\ run # Idle
    /\ End
    /\ UNCHANGED <<tree, report, clock, runs, results>>

-----------------------------------------------------------------------------
PromotionStep == CheckDigest \/ CheckVersion \/ Promote
IntentStep == ReadLock \/ CheckMetadata \/ WriteIntent \/ AppendOutputs
DocsStep ==
    \/ ReadConfig \/ ReadText \/ ReadSource \/ CheckLiteral
    \/ ReplaceBundle \/ CloseBundle \/ VerifyArchive
ScanStep == CheckInputs \/ ExportGraph \/ Scan
World == Tick \/ Checkout \/ EditTree \/ ReplaceReport \/ Crash

Next ==
    \/ Start \/ CheckHead \/ CheckClean
    \/ PromotionStep \/ IntentStep \/ DocsStep \/ ScanStep
    \/ VerifyCore \/ VerifySignature
    \/ World

Spec == Init /\ [][Next]_vars

-----------------------------------------------------------------------------
(* What a gate read of the tree is the requested commit's, although every file is read at
   another time, unless the tree moved between the steps that are named: a move before the
   gate looks at the commit is seen, one after its last read does no harm.  The
   documentation configuration is read before the commit is looked at
   (build_docs_bundle.py:200). *)
PromotionOfCommit ==
    LET promotion == AcceptedBy("promotion") IN
        promotion # None /\ promotion.moved \cap {"clean", "version"} = {} =>
            promotion.request.commit.version = promotion.request.dispatch.version

IntentOfCommit ==
    intent # None /\ intent.moved \cap {"clean", "lock", "metadata"} = {} =>
        intent.core = intent.commit.core /\ intent.commit.version = "1.0.0"

BundleOfCommit ==
    bundle # None /\ bundle.clean /\ bundle.moved \cap {"head", "clean", "text", "source"} = {} =>
        /\ bundle.text = bundle.commit.text
        /\ {bundle.config, bundle.source} = {bundle.commit.version}

FromOneCommit == PromotionOfCommit /\ IntentOfCommit /\ BundleOfCommit

(* The report that was promoted is the one whose digest was dispatched, unless the file was
   replaced between its two reads (verify-release-promotion.py:511-523), and names the
   commit that is checked out. *)
PromotionIsRequested ==
    LET promotion == AcceptedBy("promotion") IN
        promotion # None =>
            /\ promotion.replaced \subseteq {"digest"} => promotion.report = promotion.request.report
            /\ \E i \in 1 .. 5 :
                  /\ promotion.report.repositories[i].id = promotion.request.dispatch.repository
                  /\ promotion.report.repositories[i].commit = promotion.request.dispatch.commit

(* All evidence of a promotion is of the dispatched image, was begun after the contract's
   release, and is no older than the limit when the gate starts: three separate checks of
   dates bound what none of them looks at. *)
PromotionFresh ==
    LET promotion == AcceptedBy("promotion") IN
        promotion # None =>
            \A d \in PromotionDomain :
                LET evidenced == promotion.report.domains[d] IN
                    /\ evidenced.image = promotion.report.contract.image
                    /\ evidenced.image = promotion.request.dispatch.image
                    /\ promotion.report.contract.released <= evidenced.started
                    /\ promotion.at - evidenced.started <= MaximumAge
                    /\ evidenced.finished <= promotion.at

(* The evidence of a passed scan is of a commit that has dependencies, none with a blocking
   advisory, and stays so whatever is scanned or edited later; only a move between the
   comparison with the commit's blobs and the export of the graph goes unnoticed. *)
ScanBlocks ==
    evidence # None /\ evidence.passed /\ "graph" \notin evidence.moved =>
        /\ evidence.commit.graph # {}
        /\ \A package \in evidence.commit.graph : Advisory[package] \subseteq NonBlocking

(* Evidence of different release runs is never accepted together, even when the sums and
   the record have been made again over the mixture. *)
CoreIsOneRun ==
    LET directory == AcceptedBy("core") IN
        directory # None =>
            \A name \in CandidateAsset : directory[name].run = directory["candidate"].run

(* One signature, good, binary, over SHA-512, by a key of the pinned primary. *)
SignedByPinned ==
    LET signatures == AcceptedBy("signature") IN
        signatures # None =>
            /\ Len(signatures) = 1
            /\ signatures[1].verdict = "good" /\ signatures[1].primary = Pin
            /\ signatures[1].hash = "SHA512" /\ signatures[1].class = "binary"
================================================================================
