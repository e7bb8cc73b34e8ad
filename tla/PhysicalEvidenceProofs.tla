------------------------- MODULE PhysicalEvidenceProofs -------------------------
(***************************************************************************)
(* Proofs about PhysicalEvidence for any offers, pins, binaries and        *)
(* outcomes, and any number of attempts and mishaps: PhysicalInv is        *)
(* inductive and implies what is claimed of sealed evidence and of the     *)
(* one-time grant.                                                         *)
(***************************************************************************)
EXTENDS PhysicalEvidence, TLAPS

-----------------------------------------------------------------------------
(* What the collector has behind it at each of its steps. *)
Built == {"junit", "validation", "seal"}
Profiled == {"evidence", "junit", "validation", "seal"}
Compared == {"profile", "evidence", "junit", "validation", "seal"}
Rechecked == {"compare", "profile", "evidence", "junit", "validation", "seal"}
Refetched == {"resignature", "recheck"}
Observed == {"recapture", "restatement", "resignature", "recheck", "compare", "profile",
             "evidence", "junit", "validation", "seal"}
Started == {"poll"} \cup Observed
Verified == {"reset", "grant", "start"} \cup Started
Fetched == {"signature", "verify"} \cup Verified
Captured == {"statement"} \cup Fetched
Pc == {"idle", "capture"} \cup Captured

Deployments == {offer.statement.deployment : offer \in Offer}
Statements == {offer.statement : offer \in Offer}

AppState == [phase : {"none", "waiting", "expired", "running"}, run : 0 .. MaximumAttempts,
             began : Nat, consumed : BOOLEAN]
Runs == [Attempt -> [binary : Binary \cup {None}, met : SUBSET Deployments,
                     redeployed : Nat, sent : Nat]]

Types ==
    /\ clock \in Nat /\ served \in Offer /\ installed \in Binary
    /\ app \in AppState
    /\ slot \in [state : {"empty", "staging", "pending", "terminal"}, run : 0 .. MaximumAttempts]
    /\ pipe \in [run : 0 .. MaximumAttempts, staged : BOOLEAN]
    /\ runner = [pc |-> runner.pc, run |-> runner.run, began |-> runner.began,
                 pins |-> runner.pins, statement |-> runner.statement,
                 signature |-> runner.signature, evidence |-> runner.evidence]
    /\ runner.pc \in Pc /\ runner.run \in 0 .. MaximumAttempts
    /\ out = [f \in File \cup {"sums"} |-> out[f]]
    /\ attempts \in 0 .. MaximumAttempts
    /\ ran \in Runs

(* The number of the run, and what is true of a run that was not begun or not started. *)
Numbers ==
    /\ runner.pc = "idle" => runner.run = 0
    /\ runner.pc # "idle" => runner.run = attempts /\ attempts \in Attempt /\ Pinned \in Pins
    /\ app.run <= attempts
    /\ \A a \in Attempt : a > attempts => ran[a].met = {} /\ ran[a].redeployed = 0
    /\ \A a \in Attempt : ran[a].sent > 0 => ran[a].met # {}
    /\ runner.pc \notin {"idle"} \cup Started =>
          /\ app.run < runner.run
          /\ stored # None => stored.run < runner.run
          /\ ran[runner.run].met = {}

(* The application is past this run, and nothing of it changes any more. *)
Finished(a) ==
    /\ a \in Attempt /\ a <= attempts
    /\ app.run = a => app.phase = "none"
    /\ runner.run = a => runner.pc \in Started

(* What an observation says of its run. *)
Honest(observation) ==
    LET run == ran[observation.run] IN
        /\ Finished(observation.run)
        /\ observation.started \in Nat /\ observation.completed \in Nat
        /\ observation.completed <= clock
        /\ run.binary \in Binary
        /\ observation.pins = [application |-> <<run.binary.application, run.binary.build>>,
                               statement |-> run.binary.statement]
        /\ observation.provider.production => run.met # {}

PhoneInv ==
    /\ LatePipeRevivesNothing
    /\ app.phase # "none" =>
          /\ app.run \in Attempt
          /\ ran[app.run].binary \in Binary
          /\ runner.run = app.run => runner.pc \in Started
    /\ stored # None => Honest(stored)

(* The statement was in force when the application started, ... *)
InForce(started) == out["statement"].issued <= started + ClockSkew

StatementInv ==
    /\ runner.pc \in Captured => out["policy"] = Pinned.client
    /\ runner.pc \in Fetched => out["statement"] \in Statements
    /\ runner.pc \in Verified => out["statement"] = Pinned.statement /\ InForce(clock)
    /\ runner.pc \in Started =>
          /\ app.run = runner.run => InForce(app.began)
          /\ stored # None /\ stored.run = runner.run => InForce(stored.started)

(* ... the deployments that were met are those of the two times the collector looked, ... *)
Met == ran[runner.run].met
Redeployed == ran[runner.run].redeployed
Named(statement) == statement.deployment

DeploymentInv ==
    /\ runner.pc \in Fetched \ (Refetched \cup Rechecked) =>
          /\ Redeployed = 0 =>
                /\ served.statement = out["statement"]
                /\ Met \subseteq {Named(out["statement"])}
          /\ Redeployed = 1 => Met \subseteq {Named(out["statement"]), Named(served.statement)}
    /\ runner.pc \in Refetched =>
          Redeployed > 1 \/ Met \subseteq {Named(out["statement"]), Named(runner.statement)}
    /\ runner.pc \in Rechecked => Redeployed > 1 \/ Met \subseteq {Named(out["statement"])}

(* ... and the documents are of this run. *)
ObservationInv ==
    /\ runner.pc \in Observed =>
          /\ Honest(out["observation"])
          /\ out["observation"].run = runner.run
          /\ InForce(out["observation"].started)
    /\ runner.pc \in Rechecked =>
          /\ out["observation"].completed - ClockSkew < out["statement"].expires
          /\ \E i \in DOMAIN out["statement"].clients :
                out["statement"].clients[i] = out["policy"]
    /\ runner.pc \in Compared =>
          /\ PolicyObserved(out["observation"], out["policy"])
          /\ out["observation"].provider.production

DocumentInv ==
    /\ runner.pc \in Profiled =>
          /\ out["profile"].binary = Pinned.binary
          /\ out["profile"].pins = [application |-> <<Pinned.client.application, Pinned.client.build>>,
                                    statement |-> Pinned.statement]
    /\ runner.pc \in Built /\ runner.evidence # None =>
          /\ runner.evidence = out["evidence"]
          /\ \E now \in Nat :
                out["evidence"] = BuildEvidence(out["observation"], out["profile"], now)
    /\ runner.pc \in {"validation", "seal"} /\ Accepted =>
          out["junit"] = [run |-> out["observation"].run, passed |-> TRUE]
    /\ runner.pc = "seal" =>
          /\ Accepted
          /\ out["validation"].valid /\ out["validation"].evidence = out["evidence"]

RunnerInv == StatementInv /\ DeploymentInv /\ ObservationInv /\ DocumentInv

(* What was sealed is of one run, made on what was pinned, within the statement's time. *)
OneRun(sums) ==
    /\ sums["evidence"].observation = sums["observation"]
    /\ sums["evidence"].profile = sums["profile"]
    /\ sums["validation"].valid /\ sums["validation"].evidence = sums["evidence"]
    /\ sums["junit"] = [run |-> sums["observation"].run, passed |-> TRUE]
    /\ EvidenceAccepted(sums["evidence"], sums["profile"])

OnPinned(sums) ==
    LET run == ran[sums["observation"].run] IN
        /\ run.binary = sums["profile"].binary
        /\ \/ run.met = {sums["statement"].deployment}
           \/ run.redeployed > 1

WithinValidity(sums) ==
    /\ sums["statement"].issued <= sums["observation"].started + ClockSkew
    /\ sums["observation"].completed - ClockSkew < sums["statement"].expires
    /\ \E i \in DOMAIN sums["statement"].clients :
          PolicyObserved(sums["observation"], sums["statement"].clients[i])

SumsInv ==
    out["sums"] # None =>
        /\ Finished(out["sums"]["observation"].run)
        /\ OneRun(out["sums"]) /\ OnPinned(out["sums"]) /\ WithinValidity(out["sums"])

PhysicalInv == Types /\ Numbers /\ PhoneInv /\ RunnerInv /\ SumsInv

-----------------------------------------------------------------------------
USE BoundAssumption, OfferAssumption, BinaryAssumption, OutcomeAssumption,
    TimeAssumption, LimitAssumption

LEMMA InitInv ==
  ASSUME Init
  PROVE  PhysicalInv
  <1>1. Types
    BY DEF Init, Types, AppState, Runs, NoApp, EmptySlot, NoPipe, IdleRunner, Attempt, Pc
  <1>2. Numbers
    BY DEF Init, Numbers, NoApp, IdleRunner, Attempt
  <1>3. PhoneInv
    BY DEF Init, PhoneInv, LatePipeRevivesNothing, NoApp
  <1>4. RunnerInv
    BY DEF Init, RunnerInv, StatementInv, DeploymentInv, ObservationInv, DocumentInv, IdleRunner,
           Captured, Fetched, Verified, Started, Observed, Refetched, Rechecked, Compared,
           Profiled, Built
  <1>5. SumsInv
    BY DEF Init, SumsInv, File
  <1>6. QED
    BY <1>1, <1>2, <1>3, <1>4, <1>5 DEF PhysicalInv

-----------------------------------------------------------------------------
(* The collector's steps leave the phone alone. *)
RunnerShape == runner = [pc |-> runner.pc, run |-> runner.run, began |-> runner.began,
                         pins |-> runner.pins, statement |-> runner.statement,
                         signature |-> runner.signature, evidence |-> runner.evidence]
OutShape == out = [f \in File \cup {"sums"} |-> out[f]]

MovesOn ==
    /\ RunnerShape' /\ runner'.pc \in Pc
    /\ \/ runner'.pc = "idle" /\ runner'.run = 0
       \/ /\ runner.pc # "idle" /\ runner'.pc # "idle"
          /\ runner'.run = runner.run /\ runner'.pins = runner.pins
          /\ runner'.pc \in Started <=> runner.pc \in Started

KeepsSums == OutShape' /\ out'["sums"] = out["sums"]

LEMMA GoToStep ==
  ASSUME Types, NEW pc \in Pc, GoTo(pc)
  PROVE  /\ RunnerShape' /\ runner'.pc = pc /\ runner'.pc \in Pc
         /\ runner'.run = runner.run /\ runner'.pins = runner.pins
         /\ runner'.statement = runner.statement /\ runner'.signature = runner.signature
         /\ runner'.evidence = runner.evidence
  BY DEF GoTo, Types, RunnerShape

LEMMA WriteStep ==
  ASSUME Types, NEW f \in File, NEW value, Write(f, value)
  PROVE  /\ KeepsSums /\ out'[f] = value
         /\ \A g \in File \ {f} : out'[g] = out[g]
  BY DEF Write, Types, KeepsSums, OutShape, File

LEMMA KeepStep ==
  ASSUME Types, UNCHANGED out
  PROVE  KeepsSums
  BY DEF Types, KeepsSums, OutShape

\* What the collector does changes nothing about a run that is finished.
LEMMA CollectorStays ==
  ASSUME PhysicalInv, MovesOn, KeepsSums, UNCHANGED <<world, phone, attempts, ran>>
  PROVE  Types' /\ Numbers' /\ PhoneInv' /\ SumsInv'
  <1>1. UNCHANGED <<clock, served, installed, app, slot, pipe, stored, attempts, ran>>
    BY DEF world, phone
  <1>2. Types'
    BY <1>1 DEF PhysicalInv, Types, Numbers, MovesOn, RunnerShape, KeepsSums, OutShape
  <1>3. Numbers'
    BY <1>1 DEF PhysicalInv, Numbers, MovesOn, Pinned
  <1>4. ASSUME NEW a, Finished(a)
        PROVE  Finished(a)'
    BY <1>1, <1>4 DEF Finished, MovesOn, Attempt, Started, Observed
  <1>5. ASSUME NEW observation, Honest(observation)
        PROVE  Honest(observation)'
    BY <1>1, <1>4, <1>5 DEF Honest
  <1>6. PhoneInv'
    BY <1>1, <1>5 DEF PhysicalInv, PhoneInv, LatePipeRevivesNothing, MovesOn, Attempt
  <1>7. SumsInv'
    BY <1>1, <1>4 DEF PhysicalInv, SumsInv, KeepsSums, OneRun, OnPinned, WithinValidity
  <1>8. QED
    BY <1>2, <1>3, <1>6, <1>7

\* An attempt that ends, however it does.
LEMMA EndInv ==
  ASSUME PhysicalInv, End, KeepsSums, UNCHANGED <<world, phone, attempts, ran>>
  PROVE  PhysicalInv'
  <1>1. MovesOn /\ runner'.pc = "idle"
    BY DEF End, MovesOn, RunnerShape, IdleRunner, Pc
  <1>2. RunnerInv'
    BY <1>1
    DEF RunnerInv, StatementInv, DeploymentInv, ObservationInv, DocumentInv,
        Captured, Fetched, Verified, Started, Observed, Refetched, Rechecked, Compared,
        Profiled, Built
  <1>3. QED
    BY <1>1, <1>2, CollectorStays DEF PhysicalInv

\* A collector that moves on, once what it knows is shown.
LEMMA MovesInv ==
  ASSUME PhysicalInv, MovesOn, KeepsSums, UNCHANGED <<world, phone, attempts, ran>>, RunnerInv'
  PROVE  PhysicalInv'
  BY CollectorStays DEF PhysicalInv

\* What is honest stays so, for the steps of the collector.
LEMMA HonestStays ==
  ASSUME PhysicalInv, MovesOn, UNCHANGED <<world, phone, attempts, ran>>,
         NEW observation, Honest(observation)
  PROVE  Honest(observation)'
  BY DEF Honest, Finished, MovesOn, world, phone, Attempt

-----------------------------------------------------------------------------
(* From the capture of the binary to the first look at the gateway. *)

LEMMA CaptureBinaryInv ==
  ASSUME PhysicalInv, CaptureBinary
  PROVE  PhysicalInv'
  <1>1. /\ runner.pc = "capture"
        /\ UNCHANGED <<world, phone, attempts, ran>>
        /\ Types
    BY DEF CaptureBinary, PhysicalInv
  <1>2. KeepsSums /\ (installed = Pinned.binary => out'["policy"] = Pinned.client)
    BY <1>1 DEF CaptureBinary, KeepsSums, OutShape, Types, File
  <1>3. CASE installed = Pinned.binary /\ GoTo("statement")
    <2>1. "statement" \in Pc
      BY DEF Pc, Captured
    <2>2. /\ runner'.pc = "statement" /\ runner'.pins = runner.pins /\ MovesOn
      BY <1>1, <1>3, <2>1, GoToStep DEF MovesOn, Started, Observed
    <2>3. RunnerInv'
      BY <1>2, <1>3, <2>2
      DEF RunnerInv, StatementInv, DeploymentInv, ObservationInv, DocumentInv,
          Pinned, Captured, Fetched, Verified, Started, Observed, Refetched, Rechecked, Compared,
          Profiled, Built
    <2>4. QED
      BY <1>1, <1>2, <2>2, <2>3, MovesInv
  <1>4. CASE End
    BY <1>1, <1>2, <1>4, EndInv
  <1>5. QED
    BY <1>3, <1>4 DEF CaptureBinary, Demand

LEMMA FetchStatementInv ==
  ASSUME PhysicalInv, FetchStatement
  PROVE  PhysicalInv'
  <1>1. /\ runner.pc = "statement" /\ GoTo("signature") /\ Write("statement", served.statement)
        /\ UNCHANGED <<world, phone, attempts, ran>>
        /\ Types
    BY DEF FetchStatement, PhysicalInv
  <1>2. "signature" \in Pc /\ "statement" \in File /\ "policy" \in File
    BY DEF Pc, Captured, Fetched, File
  <1>3. KeepsSums /\ out'["statement"] = served.statement /\ out'["policy"] = out["policy"]
    BY <1>1, <1>2, WriteStep
  <1>4. /\ runner'.pc = "signature" /\ runner'.pins = runner.pins /\ runner'.run = runner.run
        /\ MovesOn
    BY <1>1, <1>2, GoToStep DEF MovesOn, Started, Observed
  <1>5. Met = {}
    BY <1>1 DEF PhysicalInv, Numbers, Started, Observed, Met
  <1>6. served.statement \in Statements
    BY <1>1 DEF Types, Statements
  <1>7. StatementInv' /\ DeploymentInv'
    BY <1>1, <1>3, <1>4, <1>5, <1>6
    DEF PhysicalInv, RunnerInv, StatementInv, DeploymentInv, Pinned, Captured, Fetched, Verified, Started,
        Observed, Refetched, Rechecked, Met, Redeployed, Named, world
  <1>8. ObservationInv' /\ DocumentInv'
    BY <1>4 DEF ObservationInv, DocumentInv, Observed, Rechecked, Compared, Profiled, Built
  <1>9. QED
    BY <1>1, <1>3, <1>4, <1>7, <1>8, MovesInv DEF RunnerInv

LEMMA FetchSignatureInv ==
  ASSUME PhysicalInv, FetchSignature
  PROVE  PhysicalInv'
  <1>1. /\ runner.pc = "signature" /\ GoTo("verify") /\ Write("signature", served.signature)
        /\ UNCHANGED <<world, phone, attempts, ran>>
        /\ Types
    BY DEF FetchSignature, PhysicalInv
  <1>2. "verify" \in Pc /\ {"signature", "statement", "policy"} \subseteq File
    BY DEF Pc, Captured, Fetched, File
  <1>3. KeepsSums /\ out'["statement"] = out["statement"] /\ out'["policy"] = out["policy"]
    BY <1>1, <1>2, WriteStep
  <1>4. /\ runner'.pc = "verify" /\ runner'.pins = runner.pins /\ runner'.run = runner.run
        /\ MovesOn
    BY <1>1, <1>2, GoToStep DEF MovesOn, Started, Observed
  <1>5. StatementInv' /\ DeploymentInv'
    BY <1>1, <1>3, <1>4
    DEF PhysicalInv, RunnerInv, StatementInv, DeploymentInv, Pinned, Captured, Fetched, Verified, Started,
        Observed, Refetched, Rechecked, Met, Redeployed, Named, world
  <1>6. ObservationInv' /\ DocumentInv'
    BY <1>4 DEF ObservationInv, DocumentInv, Observed, Rechecked, Compared, Profiled, Built
  <1>7. QED
    BY <1>1, <1>3, <1>4, <1>5, <1>6, MovesInv DEF RunnerInv

\* Files that verify are in force now.
LEMMA VerifyInv ==
  ASSUME PhysicalInv, Verify
  PROVE  PhysicalInv'
  <1> DEFINE verified == Verifies(out["statement"], out["signature"], Pinned.key, out["policy"],
                                  Pinned, clock)
  <1>1. /\ runner.pc = "verify"
        /\ Write("summary", IF verified THEN Summary(out["statement"]) ELSE None)
        /\ Demand(verified /\ out["statement"] = Pinned.statement, "reset")
        /\ UNCHANGED <<world, phone, attempts, ran>>
        /\ Types
    BY DEF Verify, PhysicalInv
  <1>2. "reset" \in Pc /\ {"summary", "statement", "policy"} \subseteq File
    BY DEF Pc, Captured, Fetched, Verified, File
  <1>3. KeepsSums /\ out'["statement"] = out["statement"] /\ out'["policy"] = out["policy"]
    BY <1>1, <1>2, WriteStep
  <1>4. CASE verified /\ out["statement"] = Pinned.statement /\ GoTo("reset")
    <2>1. /\ runner'.pc = "reset" /\ runner'.pins = runner.pins /\ runner'.run = runner.run
          /\ MovesOn
      BY <1>1, <1>2, <1>4, GoToStep DEF MovesOn, Started, Observed
    <2>2. InForce(clock)
      BY <1>4 DEF Verifies, StatementAccepted, InWindow, InForce
    <2>3. StatementInv' /\ DeploymentInv'
      BY <1>1, <1>3, <1>4, <2>1, <2>2
      DEF PhysicalInv, RunnerInv, StatementInv, DeploymentInv, Pinned, Captured, Fetched, Verified,
          Started, Observed, Refetched, Rechecked, Met, Redeployed, Named, world, InForce
    <2>4. ObservationInv' /\ DocumentInv'
      BY <2>1 DEF ObservationInv, DocumentInv, Observed, Rechecked, Compared, Profiled, Built
    <2>5. QED
      BY <1>1, <1>3, <2>1, <2>3, <2>4, MovesInv DEF RunnerInv
  <1>5. CASE End
    BY <1>1, <1>3, <1>5, EndInv
  <1>6. QED
    BY <1>1, <1>4, <1>5 DEF Demand

-----------------------------------------------------------------------------
(* A step after which what was finished is as it was, and sealed files are untouched. *)
FinishedStays ==
    /\ \A a \in Attempt : Finished(a) =>
          /\ Finished(a)'
          /\ ran'[a].binary = ran[a].binary /\ ran'[a].met = ran[a].met
          /\ ran'[a].redeployed \in Nat /\ ran'[a].redeployed >= ran[a].redeployed
    /\ clock' \in Nat /\ clock' >= clock

LEMMA SumsStay ==
  ASSUME PhysicalInv, FinishedStays, out'["sums"] = out["sums"]
  PROVE  SumsInv'
  <1>1. CASE out["sums"] = None
    BY <1>1 DEF SumsInv
  <1>2. CASE out["sums"] # None
    <2> DEFINE a == out["sums"]["observation"].run
    <2>1. /\ Finished(a) /\ a \in Attempt
          /\ OneRun(out["sums"]) /\ OnPinned(out["sums"]) /\ WithinValidity(out["sums"])
      BY <1>2 DEF PhysicalInv, SumsInv, Finished
    <2>2. /\ Finished(a)'
          /\ ran'[a].binary = ran[a].binary /\ ran'[a].met = ran[a].met
          /\ ran'[a].redeployed \in Nat /\ ran'[a].redeployed >= ran[a].redeployed
      <3>1. PICK b \in Attempt : b = a
        BY <2>1
      <3>2. Finished(b)'
        BY <2>1, <3>1 DEF FinishedStays
      <3>3. b = out'["sums"]["observation"].run
        BY <3>1
      <3>4. QED
        BY <2>1, <3>1, <3>2, <3>3 DEF FinishedStays, Finished
    <2>3. ran[a].redeployed \in Nat
      BY <2>1 DEF PhysicalInv, Types, Runs
    <2>4. OneRun(out["sums"])' /\ WithinValidity(out["sums"])'
      BY <2>1 DEF OneRun, WithinValidity
    <2>5. OnPinned(out["sums"])'
      BY <2>1, <2>2, <2>3 DEF OnPinned
    <2>6. QED
      BY <2>2, <2>4, <2>5 DEF SumsInv
  <1>3. QED
    BY <1>1, <1>2

LEMMA HonestKept ==
  ASSUME PhysicalInv, FinishedStays, NEW observation, Honest(observation)
  PROVE  Honest(observation)'
  <1>1. observation.run \in Attempt /\ Finished(observation.run)
    BY DEF Honest, Finished
  <1>2. Finished(observation.run)'
    BY <1>1 DEF FinishedStays
  <1>3. clock \in Nat
    BY DEF PhysicalInv, Types
  <1>4. QED
    BY <1>1, <1>2, <1>3 DEF Honest, FinishedStays

-----------------------------------------------------------------------------
(* The application is stopped, and started for this run. *)

LEMMA ResetInv ==
  ASSUME PhysicalInv, Reset
  PROVE  PhysicalInv'
  <1>1. /\ runner.pc = "reset"
        /\ UNCHANGED <<clock, served, installed, out, attempts, ran>>
        /\ Types
    BY DEF Reset, PhysicalInv, world
  <1>2. CASE End /\ UNCHANGED phone
    <2>1. KeepsSums
      BY <1>1, KeepStep
    <2>2. QED
      BY <1>1, <1>2, <2>1, EndInv DEF world
  <1>3. CASE app' = NoApp /\ slot' = EmptySlot /\ pipe' = NoPipe /\ stored' = None /\ GoTo("grant")
    <2>1. "grant" \in Pc
      BY DEF Pc, Captured, Fetched, Verified
    <2>2. /\ RunnerShape' /\ runner'.pc = "grant" /\ runner'.pins = runner.pins
          /\ runner'.run = runner.run
      BY <1>1, <1>3, <2>1, GoToStep
    <2>3. Types'
      BY <1>1, <1>3, <2>1, <2>2
      DEF Types, RunnerShape, AppState, NoApp, EmptySlot, NoPipe
    <2>4. Numbers'
      BY <1>1, <1>3, <2>2
      DEF PhysicalInv, Numbers, Pinned, NoApp, Started, Observed, Attempt
    <2>5. PhoneInv'
      BY <1>3 DEF PhoneInv, LatePipeRevivesNothing, NoApp
    <2>6. FinishedStays
      BY <1>1, <1>3, <2>2, SMTT(30)
      DEF FinishedStays, Finished, NoApp, Attempt, Started, Observed, Types, Runs
    <2>7. SumsInv'
      BY <1>1, <2>6, SumsStay
    <2>8. StatementInv' /\ DeploymentInv'
      BY <1>1, <2>2
      DEF PhysicalInv, RunnerInv, StatementInv, DeploymentInv, Pinned, Captured, Fetched, Verified,
          Started, Observed, Refetched, Rechecked, Met, Redeployed, Named, InForce
    <2>9. ObservationInv' /\ DocumentInv'
      BY <2>2 DEF ObservationInv, DocumentInv, Observed, Rechecked, Compared, Profiled, Built
    <2>10. QED
      BY <2>3, <2>4, <2>5, <2>7, <2>8, <2>9 DEF PhysicalInv, RunnerInv
  <1>4. QED
    BY <1>2, <1>3 DEF Reset

LEMMA StreamGrantInv ==
  ASSUME PhysicalInv, StreamGrant
  PROVE  PhysicalInv'
  <1>1. /\ runner.pc = "grant" /\ GoTo("start")
        /\ pipe' = [run |-> runner.run, staged |-> FALSE]
        /\ UNCHANGED <<clock, served, installed, app, slot, stored, out, attempts, ran>>
        /\ Types
    BY DEF StreamGrant, PhysicalInv, world
  <1>2. "start" \in Pc
    BY DEF Pc, Captured, Fetched, Verified
  <1>3. /\ RunnerShape' /\ runner'.pc = "start" /\ runner'.pins = runner.pins
        /\ runner'.run = runner.run
    BY <1>1, <1>2, GoToStep
  <1>4. Types'
    BY <1>1, <1>2, <1>3 DEF Types, RunnerShape
  <1>5. Numbers'
    BY <1>1, <1>3 DEF PhysicalInv, Numbers, Pinned, Started, Observed
  <1>6. FinishedStays
    BY <1>1, <1>3 DEF FinishedStays, Finished, Started, Observed, Types, Runs
  <1>7. PhoneInv'
    <2>1. stored # None => Honest(stored)'
      BY <1>1, <1>6, HonestKept DEF PhysicalInv, PhoneInv
    <2>2. QED
      BY <1>1, <1>3, <2>1
      DEF PhysicalInv, PhoneInv, LatePipeRevivesNothing, Started, Observed
  <1>8. SumsInv'
    BY <1>1, <1>6, SumsStay
  <1>9. StatementInv' /\ DeploymentInv'
    BY <1>1, <1>3
    DEF PhysicalInv, RunnerInv, StatementInv, DeploymentInv, Pinned, Captured, Fetched, Verified,
        Started, Observed, Refetched, Rechecked, Met, Redeployed, Named, InForce
  <1>10. ObservationInv' /\ DocumentInv'
    BY <1>3 DEF ObservationInv, DocumentInv, Observed, Rechecked, Compared, Profiled, Built
  <1>11. QED
    BY <1>4, <1>5, <1>7, <1>8, <1>9, <1>10 DEF PhysicalInv, RunnerInv

LEMMA StartAppInv ==
  ASSUME PhysicalInv, StartApp
  PROVE  PhysicalInv'
  <1>1. /\ runner.pc = "start" /\ GoTo("poll")
        /\ app' = [phase |-> "waiting", run |-> runner.run, began |-> clock, consumed |-> FALSE]
        /\ ran' = [ran EXCEPT ![runner.run].binary = installed]
        /\ UNCHANGED <<clock, served, installed, slot, pipe, stored, out, attempts>>
        /\ Types
    BY DEF StartApp, PhysicalInv, world, NoApp
  <1>2. "poll" \in Pc
    BY DEF Pc, Captured, Fetched, Verified, Started
  <1>3. /\ RunnerShape' /\ runner'.pc = "poll" /\ runner'.pins = runner.pins
        /\ runner'.run = runner.run
    BY <1>1, <1>2, GoToStep
  <1>4. /\ runner.run = attempts /\ runner.run \in Attempt /\ Pinned \in Pins
        /\ stored # None => stored.run < runner.run
        /\ Met = {}
    BY <1>1 DEF PhysicalInv, Numbers, Started, Observed, Met
  <1>5. /\ ran' \in Runs
        /\ ran'[runner.run].binary = installed
        /\ \A a \in Attempt : /\ ran'[a].met = ran[a].met /\ ran'[a].sent = ran[a].sent
                              /\ ran'[a].redeployed = ran[a].redeployed
                              /\ a # runner.run => ran'[a].binary = ran[a].binary
    BY <1>1, <1>4 DEF Types, Runs
  <1>6. Types'
    BY <1>1, <1>2, <1>3, <1>4, <1>5 DEF Types, RunnerShape, AppState, Attempt
  <1>7. Numbers'
    BY <1>1, <1>3, <1>4, <1>5 DEF PhysicalInv, Numbers, Pinned, Started, Observed, Attempt
  <1>8. FinishedStays
    <2>1. ASSUME NEW a \in Attempt, Finished(a)
          PROVE  Finished(a)' /\ a # runner.run
      BY <1>1, <1>3, <2>1 DEF Finished, Started, Observed
    <2>2. ASSUME NEW a \in Attempt
          PROVE  ran[a].redeployed \in Nat
      BY <1>1 DEF Types, Runs
    <2>3. clock' \in Nat /\ clock' >= clock
      BY <1>1 DEF Types
    <2>4. QED
      BY <1>5, <2>1, <2>2, <2>3 DEF FinishedStays
  <1>9. PhoneInv'
    <2>1. stored # None => Honest(stored)'
      BY <1>1, <1>8, HonestKept DEF PhysicalInv, PhoneInv
    <2>2. QED
      BY <1>1, <1>3, <1>4, <1>5, <2>1
      DEF Types, PhoneInv, LatePipeRevivesNothing, Started, Observed
  <1>10. SumsInv'
    BY <1>1, <1>8, SumsStay
  <1>11. StatementInv' /\ DeploymentInv'
    BY <1>1, <1>3, <1>4, <1>5
    DEF PhysicalInv, RunnerInv, StatementInv, DeploymentInv, Pinned, Captured, Fetched, Verified,
        Started, Observed, Refetched, Rechecked, Met, Redeployed, Named, InForce, Attempt
  <1>12. ObservationInv' /\ DocumentInv'
    BY <1>3 DEF ObservationInv, DocumentInv, Observed, Rechecked, Compared, Profiled, Built
  <1>13. QED
    BY <1>6, <1>7, <1>9, <1>10, <1>11, <1>12 DEF PhysicalInv, RunnerInv

-----------------------------------------------------------------------------
(* The observation is taken, and the gateway looked at once more. *)

LEMMA PollInv ==
  ASSUME PhysicalInv, Poll
  PROVE  PhysicalInv'
  <1>1. /\ runner.pc = "poll" /\ GoTo("recapture") /\ Write("observation", stored)
        /\ stored # None /\ stored.run = runner.run
        /\ UNCHANGED <<world, phone, attempts, ran>>
        /\ Types
    BY DEF Poll, PhysicalInv
  <1>2. "recapture" \in Pc /\ {"observation", "statement", "policy"} \subseteq File
    BY DEF Pc, Captured, Fetched, Verified, Started, Observed, File
  <1>3. KeepsSums /\ out'["statement"] = out["statement"] /\ out'["policy"] = out["policy"]
    BY <1>1, <1>2, WriteStep
  <1>4. out'["observation"] = stored
    BY <1>1, <1>2, WriteStep
  <1>5. /\ runner'.pc = "recapture" /\ runner'.pins = runner.pins /\ runner'.run = runner.run
        /\ MovesOn
    BY <1>1, <1>2, GoToStep DEF MovesOn, Started, Observed
  <1>6. StatementInv' /\ DeploymentInv'
    BY <1>1, <1>3, <1>5
    DEF PhysicalInv, RunnerInv, StatementInv, DeploymentInv, Pinned, Captured, Fetched, Verified,
        Started, Observed, Refetched, Rechecked, Met, Redeployed, Named, InForce, world, phone
  <1>7. ObservationInv'
    <2>1. Honest(stored) /\ InForce(stored.started)
      BY <1>1 DEF PhysicalInv, PhoneInv, RunnerInv, StatementInv, Started
    <2>2. PICK observation : observation = stored
      OBVIOUS
    <2>3. Honest(observation)'
      BY <1>1, <1>5, <2>1, <2>2, HonestStays
    <2>4. Honest(out["observation"])'
      BY <1>4, <2>2, <2>3
    <2>5. InForce(out["observation"].started)'
      BY <1>3, <1>4, <2>1 DEF InForce
    <2>6. QED
      BY <1>1, <1>4, <1>5, <2>4, <2>5 DEF ObservationInv, Rechecked, Compared
  <1>8. DocumentInv'
    BY <1>5 DEF DocumentInv, Profiled, Built
  <1>9. QED
    BY <1>1, <1>3, <1>5, <1>6, <1>7, <1>8, MovesInv DEF RunnerInv

\* The observation and the statement that were taken stay what they are.
LEMMA TakenStays ==
  ASSUME PhysicalInv, MovesOn, UNCHANGED <<world, phone, attempts, ran>>,
         runner.pc \in Observed, runner'.pc \in Observed,
         \A f \in {"observation", "statement", "policy"} : out'[f] = out[f]
  PROVE  /\ StatementInv'
         /\ Honest(out["observation"])'
         /\ out'["observation"].run = runner'.run
         /\ InForce(out["observation"].started)'
  <1>1. runner'.run = runner.run /\ runner'.pins = runner.pins
    BY DEF MovesOn, Observed
  <1>2. /\ Honest(out["observation"]) /\ out["observation"].run = runner.run
        /\ InForce(out["observation"].started)
    BY DEF PhysicalInv, RunnerInv, ObservationInv
  <1>3. PICK observation : observation = out["observation"]
    OBVIOUS
  <1>4. Honest(observation)'
    BY <1>2, <1>3, HonestStays
  <1>5. Honest(out["observation"])'
    BY <1>3, <1>4
  <1>6. StatementInv'
    BY <1>1
    DEF PhysicalInv, RunnerInv, StatementInv, Pinned, Captured, Fetched, Verified, Started,
        Observed, InForce, world, phone
  <1>7. QED
    BY <1>1, <1>2, <1>5, <1>6 DEF InForce

LEMMA RecaptureInv ==
  ASSUME PhysicalInv, Recapture
  PROVE  PhysicalInv'
  <1>1. /\ runner.pc = "recapture"
        /\ UNCHANGED <<world, phone, attempts, ran>> /\ UNCHANGED out
        /\ Types
    BY DEF Recapture, PhysicalInv
  <1>2. KeepsSums
    BY <1>1, KeepStep
  <1>3. CASE GoTo("restatement")
    <2>1. "restatement" \in Pc
      BY DEF Pc, Captured, Fetched, Verified, Started, Observed
    <2>2. /\ runner'.pc = "restatement" /\ runner'.pins = runner.pins
          /\ runner'.run = runner.run /\ MovesOn
      BY <1>1, <1>3, <2>1, GoToStep DEF MovesOn, Started, Observed
    <2>3. DeploymentInv'
      BY <1>1, <2>2
      DEF PhysicalInv, RunnerInv, DeploymentInv, Captured, Fetched, Verified,
          Started, Observed, Refetched, Rechecked, Met, Redeployed, Named, world
    <2>4. StatementInv' /\ ObservationInv' /\ DocumentInv'
      BY <1>1, <2>2, TakenStays
      DEF ObservationInv, DocumentInv, Observed, Rechecked, Compared, Profiled, Built
    <2>5. QED
      BY <1>1, <1>2, <2>2, <2>3, <2>4, MovesInv DEF RunnerInv
  <1>4. CASE End
    BY <1>1, <1>2, <1>4, EndInv
  <1>5. QED
    BY <1>3, <1>4 DEF Recapture, Demand

\* Here the second look meets what happened to the gateway.
LEMMA RefetchStatementInv ==
  ASSUME PhysicalInv, RefetchStatement
  PROVE  PhysicalInv'
  <1>1. /\ runner.pc = "restatement"
        /\ runner' = [runner EXCEPT !.statement = served.statement, !.pc = "resignature"]
        /\ UNCHANGED <<world, phone, attempts, ran>> /\ UNCHANGED out
        /\ Types
    BY DEF RefetchStatement, PhysicalInv
  <1>2. KeepsSums
    BY <1>1, KeepStep
  <1>3. /\ runner'.pc = "resignature" /\ runner'.pins = runner.pins
        /\ runner'.run = runner.run /\ runner'.statement = served.statement /\ MovesOn
    BY <1>1
    DEF Types, MovesOn, RunnerShape, Pc, Captured, Fetched, Verified, Started, Observed
  <1>4. runner.run \in Attempt
    BY <1>1 DEF PhysicalInv, Numbers
  <1>5. Redeployed \in Nat
    BY <1>1, <1>4 DEF Types, Runs, Redeployed
  <1>6. Redeployed > 1 \/ Met \subseteq {Named(out["statement"]), Named(served.statement)}
    BY <1>1, <1>5
    DEF PhysicalInv, RunnerInv, DeploymentInv, Fetched, Verified, Started, Observed,
        Refetched, Rechecked
  <1>7. DeploymentInv'
    BY <1>1, <1>3, <1>6
    DEF DeploymentInv, Fetched, Refetched, Rechecked, Met, Redeployed, Named
  <1>8. StatementInv' /\ ObservationInv' /\ DocumentInv'
    BY <1>1, <1>3, TakenStays
    DEF ObservationInv, DocumentInv, Observed, Rechecked, Compared, Profiled, Built
  <1>9. QED
    BY <1>1, <1>2, <1>3, <1>7, <1>8, MovesInv DEF RunnerInv

LEMMA RefetchSignatureInv ==
  ASSUME PhysicalInv, RefetchSignature
  PROVE  PhysicalInv'
  <1>1. /\ runner.pc = "resignature"
        /\ runner' = [runner EXCEPT !.signature = served.signature, !.pc = "recheck"]
        /\ UNCHANGED <<world, phone, attempts, ran>> /\ UNCHANGED out
        /\ Types
    BY DEF RefetchSignature, PhysicalInv
  <1>2. KeepsSums
    BY <1>1, KeepStep
  <1>3. /\ runner'.pc = "recheck" /\ runner'.pins = runner.pins
        /\ runner'.run = runner.run /\ runner'.statement = runner.statement /\ MovesOn
    BY <1>1
    DEF Types, MovesOn, RunnerShape, Pc, Captured, Fetched, Verified, Started, Observed
  <1>4. DeploymentInv'
    BY <1>1, <1>3
    DEF PhysicalInv, RunnerInv, DeploymentInv, Fetched, Refetched, Rechecked, Met, Redeployed,
        Named
  <1>5. StatementInv' /\ ObservationInv' /\ DocumentInv'
    BY <1>1, <1>3, TakenStays
    DEF ObservationInv, DocumentInv, Observed, Rechecked, Compared, Profiled, Built
  <1>6. QED
    BY <1>1, <1>2, <1>3, <1>4, <1>5, MovesInv DEF RunnerInv

\* Both looks saw one statement, which is still in force after the run.
LEMMA RecheckInv ==
  ASSUME PhysicalInv, Recheck
  PROVE  PhysicalInv'
  <1>1. /\ runner.pc = "recheck"
        /\ UNCHANGED <<world, phone, attempts, ran>> /\ UNCHANGED out
        /\ Types
    BY DEF Recheck, PhysicalInv
  <1>2. KeepsSums
    BY <1>1, KeepStep
  <1>3. CASE /\ Verifies(runner.statement, runner.signature, Pinned.key, out["policy"],
                         Pinned, clock)
             /\ runner.statement = out["statement"]
             /\ GoTo("compare")
    <2>1. "compare" \in Pc
      BY DEF Pc, Captured, Fetched, Verified, Started, Observed
    <2>2. /\ runner'.pc = "compare" /\ runner'.pins = runner.pins
          /\ runner'.run = runner.run /\ MovesOn
      BY <1>1, <1>3, <2>1, GoToStep DEF MovesOn, Started, Observed
    <2>3. DeploymentInv'
      BY <1>1, <1>3, <2>2
      DEF PhysicalInv, RunnerInv, DeploymentInv, Fetched, Refetched, Rechecked, Met, Redeployed,
          Named
    <2>4. /\ clock - ClockSkew < out["statement"].expires
          /\ \E i \in DOMAIN out["statement"].clients :
                out["statement"].clients[i] = out["policy"]
      BY <1>3 DEF Verifies, StatementAccepted, InWindow, ClientsAccepted
    <2>5. /\ out["observation"].completed \in Nat /\ out["observation"].completed <= clock
          /\ out["statement"] \in Statements
      BY <1>1
      DEF PhysicalInv, RunnerInv, StatementInv, ObservationInv, Honest, Fetched, Verified,
          Started, Observed
    <2>6. out["statement"].expires \in Int /\ clock \in Nat
      BY <1>1, <2>5, ZenonT(60) DEF Statements, Types
    <2>7. out["observation"].completed - ClockSkew < out["statement"].expires
      BY <2>4, <2>5, <2>6
    <2>8. StatementInv' /\ ObservationInv' /\ DocumentInv'
      BY <1>1, <2>2, <2>4, <2>7, TakenStays
      DEF ObservationInv, DocumentInv, Observed, Rechecked, Compared, Profiled, Built
    <2>9. QED
      BY <1>1, <1>2, <2>2, <2>3, <2>8, MovesInv DEF RunnerInv
  <1>4. CASE End
    BY <1>1, <1>2, <1>4, EndInv
  <1>5. QED
    BY <1>3, <1>4 DEF Recheck, Demand

\* From here on the documents are compared and written, and what is known stays known.
LEMMA KnownStays ==
  ASSUME PhysicalInv, MovesOn, UNCHANGED <<world, phone, attempts, ran>>,
         runner.pc \in Rechecked, runner'.pc \in Compared,
         runner.pc \in Compared \/ ( /\ PolicyObserved(out["observation"], out["policy"])
                                     /\ out["observation"].provider.production ),
         \A f \in {"observation", "statement", "policy"} : out'[f] = out[f]
  PROVE  StatementInv' /\ DeploymentInv' /\ ObservationInv'
  <1>1. runner'.run = runner.run
    BY DEF MovesOn, Rechecked, Compared
  <1>2. DeploymentInv'
    BY <1>1
    DEF PhysicalInv, RunnerInv, DeploymentInv, Fetched, Refetched, Rechecked, Compared, Met,
        Redeployed, Named
  <1>3. /\ runner.pc \in Observed /\ runner'.pc \in Observed
    BY DEF Observed, Rechecked, Compared
  <1>4. /\ out'["observation"].completed - ClockSkew < out'["statement"].expires
        /\ \E i \in DOMAIN out'["statement"].clients :
              out'["statement"].clients[i] = out'["policy"]
    BY DEF PhysicalInv, RunnerInv, ObservationInv
  <1>5. PolicyObserved(out["observation"], out["policy"])
    BY DEF PhysicalInv, RunnerInv, ObservationInv
  <1>6. out["observation"].provider.production
    BY DEF PhysicalInv, RunnerInv, ObservationInv
  <1>7. PolicyObserved(out["observation"], out["policy"])'
    BY <1>5 DEF PolicyObserved
  <1>8. out'["observation"].provider.production
    BY <1>6
  <1>9. QED
    BY <1>2, <1>3, <1>4, <1>7, <1>8, TakenStays DEF ObservationInv

LEMMA CompareInv ==
  ASSUME PhysicalInv, Compare
  PROVE  PhysicalInv'
  <1>1. /\ runner.pc = "compare"
        /\ UNCHANGED <<world, phone, attempts, ran>> /\ UNCHANGED out
        /\ Types
    BY DEF Compare, PhysicalInv
  <1>2. KeepsSums
    BY <1>1, KeepStep
  <1>3. CASE PolicyObserved(out["observation"], out["policy"]) /\ GoTo("profile")
    <2>1. "profile" \in Pc
      BY DEF Pc, Captured, Fetched, Verified, Started, Observed
    <2>2. runner'.pc = "profile" /\ MovesOn
      BY <1>1, <1>3, <2>1, GoToStep DEF MovesOn, Started, Observed
    <2>3. out["observation"].provider.production
      BY <1>3 DEF PolicyObserved
    <2>4. StatementInv' /\ DeploymentInv' /\ ObservationInv'
      BY <1>1, <1>3, <2>2, <2>3, KnownStays DEF Rechecked, Compared
    <2>5. DocumentInv'
      BY <2>2 DEF DocumentInv, Profiled, Built
    <2>6. QED
      BY <1>1, <1>2, <2>2, <2>4, <2>5, MovesInv DEF RunnerInv
  <1>4. CASE End
    BY <1>1, <1>2, <1>4, EndInv
  <1>5. QED
    BY <1>3, <1>4 DEF Compare, Demand

-----------------------------------------------------------------------------
(* The documents are written, and sealed. *)

LEMMA WriteProfileInv ==
  ASSUME PhysicalInv, WriteProfile
  PROVE  PhysicalInv'
  <1>1. /\ runner.pc = "profile" /\ GoTo("evidence")
        /\ UNCHANGED <<world, phone, attempts, ran>>
        /\ Types
    BY DEF WriteProfile, PhysicalInv
  <1>2. "evidence" \in Pc /\ {"observation", "statement", "policy", "profile"} \subseteq File
    BY DEF Pc, Captured, Fetched, Verified, Started, Observed, File
  <1>3. /\ KeepsSums /\ \A f \in {"observation", "statement", "policy"} : out'[f] = out[f]
        /\ out'["profile"].binary = Pinned.binary
        /\ out'["profile"].pins = [application |-> <<Pinned.client.application, Pinned.client.build>>,
                                   statement |-> Pinned.statement]
    BY <1>2, <1>1, WriteStep DEF WriteProfile
  <1>4. runner'.pc = "evidence" /\ runner'.pins = runner.pins /\ MovesOn
    BY <1>1, <1>2, GoToStep DEF MovesOn, Started, Observed
  <1>5. StatementInv' /\ DeploymentInv' /\ ObservationInv'
    BY <1>1, <1>3, <1>4, KnownStays DEF Rechecked, Compared
  <1>6. DocumentInv'
    BY <1>3, <1>4 DEF DocumentInv, Profiled, Built, Pinned
  <1>7. QED
    BY <1>1, <1>3, <1>4, <1>5, <1>6, MovesInv DEF RunnerInv

LEMMA WriteEvidenceInv ==
  ASSUME PhysicalInv, WriteEvidence
  PROVE  PhysicalInv'
  <1> DEFINE built == BuildEvidence(out["observation"], out["profile"], clock)
  <1>1. /\ runner.pc = "evidence"
        /\ UNCHANGED <<world, phone, attempts, ran>>
        /\ Types
    BY DEF WriteEvidence, PhysicalInv
  <1>2. {"observation", "statement", "policy", "profile", "evidence"} \subseteq File
    BY DEF File
  <1>3. /\ KeepsSums
        /\ \A f \in {"observation", "statement", "policy", "profile"} : out'[f] = out[f]
        /\ runner'.evidence # None => runner'.evidence = built /\ out'["evidence"] = built
    <2>1. CASE Write("evidence", built) /\ runner' = [runner EXCEPT !.pc = "junit", !.evidence = built]
      BY <1>1, <1>2, <2>1, WriteStep DEF Types
    <2>2. CASE UNCHANGED out /\ runner' = [runner EXCEPT !.pc = "junit", !.evidence = None]
      BY <1>1, <2>2, KeepStep DEF Types
    <2>3. QED
      BY <2>1, <2>2 DEF WriteEvidence
  <1>4. runner'.pc = "junit" /\ runner'.pins = runner.pins /\ MovesOn
    <2>1. PICK value : runner' = [runner EXCEPT !.pc = "junit", !.evidence = value]
      BY DEF WriteEvidence
    <2>2. QED
      BY <1>1, <2>1
      DEF Types, MovesOn, RunnerShape, Pc, Captured, Fetched, Verified, Started, Observed
  <1>5. StatementInv' /\ DeploymentInv' /\ ObservationInv'
    BY <1>1, <1>3, <1>4, KnownStays DEF Rechecked, Compared
  <1>6. DocumentInv'
    <2>1. /\ out'["profile"].binary = Pinned.binary
          /\ out'["profile"].pins = [application |-> <<Pinned.client.application, Pinned.client.build>>,
                                     statement |-> Pinned.statement]
      BY <1>1, <1>3 DEF PhysicalInv, RunnerInv, DocumentInv, Profiled
    <2>2. runner'.evidence # None =>
             /\ runner'.evidence = out'["evidence"]
             /\ \E now \in Nat :
                   out'["evidence"] = BuildEvidence(out'["observation"], out'["profile"], now)
      BY <1>1, <1>3 DEF Types
    <2>3. QED
      BY <1>4, <2>1, <2>2 DEF DocumentInv, Pinned
  <1>7. QED
    BY <1>1, <1>3, <1>4, <1>5, <1>6, MovesInv DEF RunnerInv

LEMMA WriteJunitInv ==
  ASSUME PhysicalInv, WriteJunit
  PROVE  PhysicalInv'
  <1> DEFINE report == [run |-> IF runner.evidence = None THEN 0 ELSE runner.evidence.run,
                        passed |-> Accepted]
  <1>1. /\ runner.pc = "junit" /\ GoTo("validation") /\ Write("junit", report)
        /\ UNCHANGED <<world, phone, attempts, ran>>
        /\ Types
    BY DEF WriteJunit, PhysicalInv
  <1>2. /\ "validation" \in Pc
        /\ {"observation", "statement", "policy", "profile", "evidence", "junit"} \subseteq File
    BY DEF Pc, Captured, Fetched, Verified, Started, Observed, File
  <1>3. /\ KeepsSums
        /\ \A f \in {"observation", "statement", "policy", "profile", "evidence"} : out'[f] = out[f]
        /\ out'["junit"] = report
    <2> HIDE DEF report
    <2>1. QED
      BY <1>1, <1>2, WriteStep
  <1>4. /\ runner'.pc = "validation" /\ runner'.pins = runner.pins
        /\ runner'.evidence = runner.evidence /\ MovesOn
    BY <1>1, <1>2, GoToStep DEF MovesOn, Started, Observed
  <1>5. StatementInv' /\ DeploymentInv' /\ ObservationInv'
    BY <1>1, <1>3, <1>4, KnownStays DEF Rechecked, Compared
  <1>6. DocumentInv'
    <2>1. /\ out'["profile"].binary = Pinned.binary
          /\ out'["profile"].pins = [application |-> <<Pinned.client.application, Pinned.client.build>>,
                                     statement |-> Pinned.statement]
      BY <1>1, <1>3 DEF PhysicalInv, RunnerInv, DocumentInv, Profiled
    <2>2. runner.evidence # None =>
             /\ runner.evidence = out["evidence"]
             /\ \E now \in Nat :
                   out["evidence"] = BuildEvidence(out["observation"], out["profile"], now)
      BY <1>1 DEF PhysicalInv, RunnerInv, DocumentInv, Built
    <2>3. Accepted => out'["junit"] = [run |-> out'["observation"].run, passed |-> TRUE]
      <3>1. SUFFICES ASSUME Accepted
                     PROVE  out'["junit"] = [run |-> out'["observation"].run, passed |-> TRUE]
        OBVIOUS
      <3>2. runner.evidence # None
        BY <3>1 DEF Accepted
      <3>3. runner.evidence.run = out["observation"].run
        <4>1. PICK now \in Nat :
                 runner.evidence = BuildEvidence(out["observation"], out["profile"], now)
          BY <2>2, <3>2
        <4>2. BuildEvidence(out["observation"], out["profile"], now).run = out["observation"].run
          BY DEF BuildEvidence
        <4>3. QED
          BY <4>1, <4>2
      <3>4. Accepted = TRUE
        BY <3>1, Zenon DEF Accepted, EvidenceAccepted, Shaped
      <3>5. report = [run |-> runner.evidence.run, passed |-> TRUE]
        BY <3>2, <3>4, Zenon
      <3>6. QED
        BY <1>3, <3>3, <3>5
    <2>4. Accepted' <=> Accepted
      BY <1>3, <1>4 DEF Accepted
    <2>5. QED
      BY <1>3, <1>4, <2>1, <2>2, <2>3, <2>4 DEF DocumentInv, Pinned
  <1>7. QED
    BY <1>1, <1>3, <1>4, <1>5, <1>6, MovesInv DEF RunnerInv

LEMMA WriteValidationInv ==
  ASSUME PhysicalInv, WriteValidation
  PROVE  PhysicalInv'
  <1> DEFINE number == IF runner.evidence = None THEN 0 ELSE runner.evidence.run
             report == Validation(out["evidence"], number, Accepted)
  <1>1. /\ runner.pc = "validation" /\ Write("validation", report) /\ Demand(Accepted, "seal")
        /\ UNCHANGED <<world, phone, attempts, ran>>
        /\ Types
    BY DEF WriteValidation, PhysicalInv
  <1>2. /\ "seal" \in Pc
        /\ {"observation", "statement", "policy", "profile", "evidence", "junit", "validation"}
              \subseteq File
    BY DEF Pc, Captured, Fetched, Verified, Started, Observed, File
  <1>3. /\ KeepsSums
        /\ \A f \in {"observation", "statement", "policy", "profile", "evidence", "junit"} :
              out'[f] = out[f]
        /\ out'["validation"] = report
    <2> HIDE DEF report
    <2>1. QED
      BY <1>1, <1>2, WriteStep
  <1>4. CASE Accepted /\ GoTo("seal")
    <2>1. /\ runner'.pc = "seal" /\ runner'.pins = runner.pins
          /\ runner'.evidence = runner.evidence /\ MovesOn
      BY <1>1, <1>2, <1>4, GoToStep DEF MovesOn, Started, Observed
    <2>2. StatementInv' /\ DeploymentInv' /\ ObservationInv'
      BY <1>1, <1>3, <2>1, KnownStays DEF Rechecked, Compared
    <2>3. /\ out'["profile"].binary = Pinned.binary
          /\ out'["profile"].pins = [application |-> <<Pinned.client.application, Pinned.client.build>>,
                                     statement |-> Pinned.statement]
      BY <1>1, <1>3 DEF PhysicalInv, RunnerInv, DocumentInv, Profiled
    <2>4. runner.evidence # None =>
             /\ runner.evidence = out["evidence"]
             /\ \E now \in Nat :
                   out["evidence"] = BuildEvidence(out["observation"], out["profile"], now)
      BY <1>1 DEF PhysicalInv, RunnerInv, DocumentInv, Built
    <2>5. out["junit"] = [run |-> out["observation"].run, passed |-> TRUE]
      BY <1>1, <1>4 DEF PhysicalInv, RunnerInv, DocumentInv
    <2>6. report.valid /\ report.evidence = out["evidence"]
      BY <1>4, Zenon DEF Validation
    <2>7. Accepted'
      BY <1>3, <1>4, <2>1 DEF Accepted
    <2>8. DocumentInv'
      <3> HIDE DEF report
      <3>1. out'["validation"].valid /\ out'["validation"].evidence = out'["evidence"]
        BY <1>3, <2>6
      <3>2. QED
        BY <1>3, <2>1, <2>3, <2>4, <2>5, <2>7, <3>1 DEF DocumentInv, Pinned
    <2>9. QED
      BY <1>1, <1>3, <2>1, <2>2, <2>8, MovesInv DEF RunnerInv
  <1>5. CASE End
    BY <1>1, <1>3, <1>5, EndInv
  <1>6. QED
    BY <1>1, <1>4, <1>5 DEF Demand

\* What is sealed is what the collector knows.
LEMMA SealInv ==
  ASSUME PhysicalInv, Seal
  PROVE  PhysicalInv'
  <1> DEFINE sums == [f \in File |-> out[f]]
             run == ran[runner.run]
  <1>1. /\ runner.pc = "seal" /\ End /\ out' = [out EXCEPT !["sums"] = sums]
        /\ UNCHANGED <<world, phone, attempts, ran>>
        /\ Types
    BY DEF Seal, PhysicalInv, Write
  <1>2. OutShape' /\ out'["sums"] = sums
    BY <1>1 DEF Types, OutShape
  <1>3. /\ Honest(out["observation"]) /\ out["observation"].run = runner.run
        /\ InForce(out["observation"].started)
        /\ out["observation"].completed - ClockSkew < out["statement"].expires
        /\ \E i \in DOMAIN out["statement"].clients :
              out["statement"].clients[i] = out["policy"]
        /\ PolicyObserved(out["observation"], out["policy"])
        /\ out["observation"].provider.production
    BY <1>1 DEF PhysicalInv, RunnerInv, ObservationInv, Observed, Rechecked, Compared
  <1>4. /\ out["profile"].binary = Pinned.binary
        /\ out["profile"].pins = [application |-> <<Pinned.client.application, Pinned.client.build>>,
                                  statement |-> Pinned.statement]
        /\ Accepted
        /\ out["junit"] = [run |-> out["observation"].run, passed |-> TRUE]
        /\ out["validation"].valid /\ out["validation"].evidence = out["evidence"]
    BY <1>1 DEF PhysicalInv, RunnerInv, DocumentInv, Profiled, Built
  <1>5. PICK now \in Nat : /\ runner.evidence = out["evidence"]
                           /\ out["evidence"] = BuildEvidence(out["observation"], out["profile"], now)
    BY <1>1, <1>4 DEF PhysicalInv, RunnerInv, DocumentInv, Built, Accepted
  <1>6. EvidenceAccepted(out["evidence"], out["profile"])
    BY <1>4, <1>5 DEF Accepted
  <1>7. OneRun(sums)
    <2>1. /\ BuildEvidence(out["observation"], out["profile"], now).observation = out["observation"]
          /\ BuildEvidence(out["observation"], out["profile"], now).profile = out["profile"]
      BY DEF BuildEvidence
    <2>2. \A f \in {"evidence", "observation", "profile", "validation", "junit"} : sums[f] = out[f]
      BY DEF File
    <2> HIDE DEF sums
    <2>3. QED
      BY <1>4, <1>5, <1>6, <2>1, <2>2 DEF OneRun
  <1>8. OnPinned(sums)
    <2>1. \A f \in {"observation", "profile", "statement"} : sums[f] = out[f]
      BY DEF File
    <2>2. runner.run \in Attempt /\ Pinned \in Pins
      BY <1>1 DEF PhysicalInv, Numbers
    <2>3. run.binary = Pinned.binary
      <3>1. out["evidence"].pins =
               [name \in DOMAIN out["profile"].pins |->
                  [expected |-> out["profile"].pins[name],
                   observed |-> IF name \in DOMAIN out["observation"].pins
                                THEN out["observation"].pins[name] ELSE "absent"]]
        BY <1>5 DEF BuildEvidence
      <3>2. \A name \in PinName :
               /\ out["evidence"].pins[name].expected = out["profile"].pins[name]
               /\ out["evidence"].pins[name].observed = out["evidence"].pins[name].expected
        BY <1>6 DEF EvidenceAccepted, Meaningful, PinsMatch
      <3>3. out["observation"].pins = [application |-> <<run.binary.application, run.binary.build>>,
                                       statement |-> run.binary.statement]
        BY <1>3 DEF Honest
      <3>4. /\ DOMAIN out["observation"].pins = PinName
            /\ DOMAIN out["profile"].pins = PinName
        BY <1>4, <3>3 DEF PinName
      <3>5. \A name \in PinName : out["observation"].pins[name] = out["profile"].pins[name]
        BY <3>1, <3>2, <3>4
      <3>6. /\ <<run.binary.application, run.binary.build>>
                  = <<Pinned.client.application, Pinned.client.build>>
            /\ run.binary.statement = Pinned.statement
        BY <1>4, <3>3, <3>5 DEF PinName
      <3>7. run.binary \in Binary
        BY <1>3 DEF Honest
      <3>8. /\ run.binary = [application |-> run.binary.application, build |-> run.binary.build,
                             statement |-> run.binary.statement]
            /\ Pinned.binary = [application |-> Pinned.client.application,
                                build |-> Pinned.client.build, statement |-> Pinned.statement]
        BY <2>2, <3>7
      <3>9. QED
        BY <3>6, <3>8
    <2>4. run.met # {}
      BY <1>3 DEF Honest
    <2>5. run.redeployed > 1 \/ run.met \subseteq {out["statement"].deployment}
      BY <1>1
      DEF PhysicalInv, RunnerInv, DeploymentInv, Rechecked, Met, Redeployed, Named
    <2>6. run.redeployed > 1 \/ run.met = {out["statement"].deployment}
      BY <2>4, <2>5
    <2> HIDE DEF sums
    <2>7. QED
      BY <1>3, <1>4, <2>1, <2>3, <2>6 DEF OnPinned
  <1>9. WithinValidity(sums)
    <2>1. \A f \in {"observation", "statement"} : sums[f] = out[f]
      BY DEF File
    <2> HIDE DEF sums
    <2>2. \E i \in DOMAIN out["statement"].clients :
             PolicyObserved(out["observation"], out["statement"].clients[i])
      BY <1>3
    <2>3. QED
      BY <1>3, <2>1, <2>2 DEF WithinValidity, InForce
  <1>10. /\ MovesOn /\ runner'.pc = "idle" /\ runner'.run = 0
    BY <1>1 DEF End, MovesOn, RunnerShape, IdleRunner, Pc
  <1>11. /\ UNCHANGED <<clock, served, installed, app, slot, pipe, stored, attempts, ran>>
    BY <1>1 DEF world, phone
  <1>12. FinishedStays
    BY <1>1, <1>10, <1>11, SMTT(30)
    DEF FinishedStays, Finished, Attempt, Types, Runs
  <1>13. Types'
    BY <1>2, <1>10, <1>11 DEF PhysicalInv, Types, Numbers, MovesOn, RunnerShape, OutShape
  <1>14. Numbers'
    BY <1>10, <1>11 DEF PhysicalInv, Numbers
  <1>15. PhoneInv'
    <2>1. stored # None => Honest(stored)'
      BY <1>11, <1>12, HonestKept DEF PhysicalInv, PhoneInv
    <2>2. QED
      BY <1>10, <1>11, <2>1 DEF PhysicalInv, PhoneInv, LatePipeRevivesNothing, Attempt
  <1>16. RunnerInv'
    BY <1>10
    DEF RunnerInv, StatementInv, DeploymentInv, ObservationInv, DocumentInv,
        Captured, Fetched, Verified, Started, Observed, Refetched, Rechecked, Compared,
        Profiled, Built
  <1>17. SumsInv'
    <2>1. sums["observation"] = out["observation"]
      BY DEF File
    <2>2. PICK a \in Attempt : a = runner.run /\ Finished(a)
      BY <1>3 DEF Honest, Finished
    <2>3. Finished(out["sums"]["observation"].run)'
      <3>1. Finished(a)'
        BY <1>12, <2>2 DEF FinishedStays
      <3>2. out'["sums"]["observation"].run = a
        BY <1>2, <1>3, <2>1, <2>2
      <3>3. QED
        BY <3>1, <3>2 DEF Finished
    <2> HIDE DEF sums
    <2>4. OneRun(out["sums"])' /\ OnPinned(out["sums"])' /\ WithinValidity(out["sums"])'
      BY <1>2, <1>7, <1>8, <1>9, <1>11 DEF OneRun, OnPinned, WithinValidity
    <2>5. QED
      BY <2>3, <2>4 DEF SumsInv
  <1>18. QED
    BY <1>13, <1>14, <1>15, <1>16, <1>17 DEF PhysicalInv

-----------------------------------------------------------------------------
(* The phone. *)

LEMMA ObservationStays ==
  ASSUME PhysicalInv, FinishedStays, UNCHANGED <<runner, out>>
  PROVE  ObservationInv'
  <1>1. PICK observation : observation = out["observation"]
    OBVIOUS
  <1>2. runner.pc \in Observed => Honest(observation)'
    BY <1>1, HonestKept DEF PhysicalInv, RunnerInv, ObservationInv
  <1>3. runner.pc \in Observed => Honest(out["observation"])'
    BY <1>1, <1>2
  <1>4. PolicyObserved(out["observation"], out["policy"])
           => PolicyObserved(out["observation"], out["policy"])'
    BY DEF PolicyObserved
  <1>5. QED
    BY <1>3, <1>4 DEF PhysicalInv, RunnerInv, ObservationInv, InForce

\* A phone that waits, gives up or dies tells the collector nothing new.
LEMMA PhoneMovesInv ==
  ASSUME PhysicalInv, Types', LatePipeRevivesNothing',
         UNCHANGED <<clock, served, runner, out, attempts, stored, ran>>,
         \/ app'.run = app.run /\ app'.began = app.began
         \/ app'.run = 0,
         app'.phase # "none" => app.phase # "none" /\ app'.run = app.run
  PROVE  PhysicalInv'
  <1>1. app.run \in Nat /\ app'.run \in Nat /\ runner.run \in Nat
    BY DEF PhysicalInv, Types, AppState
  <1>2. Numbers'
    <2>1. \/ app'.run = app.run
          \/ app'.run = 0 /\ (runner.pc # "idle" => runner.run > 0) /\ attempts >= 0
      BY DEF PhysicalInv, Types, Numbers, Attempt
    <2>2. QED
      BY <1>1, <2>1 DEF PhysicalInv, Types, Numbers, Pinned
  <1>3. FinishedStays
    <2>1. ASSUME NEW a \in Attempt, Finished(a)
          PROVE  Finished(a)' /\ ran[a].redeployed \in Nat
      BY <1>1, <2>1 DEF PhysicalInv, Finished, Types, Runs, Attempt
    <2>2. QED
      BY <2>1 DEF PhysicalInv, FinishedStays, Types
  <1>4. PhoneInv'
    <2>1. stored # None => Honest(stored)'
      BY <1>3, HonestKept DEF PhysicalInv, PhoneInv
    <2>2. QED
      BY <2>1 DEF PhysicalInv, PhoneInv
  <1>5. SumsInv'
    BY <1>3, SumsStay
  <1>6. StatementInv'
    <2>1. runner.pc # "idle" => runner.run # 0
      BY DEF PhysicalInv, Numbers, Attempt
    <2>2. QED
      BY <2>1
      DEF PhysicalInv, RunnerInv, StatementInv, Pinned, Captured, Fetched, Verified, Started,
          Observed, InForce
  <1>7. DeploymentInv' /\ DocumentInv'
    BY DEF PhysicalInv, RunnerInv, DeploymentInv, DocumentInv, Met, Redeployed, Named, Pinned, Accepted
  <1>8. ObservationInv'
    BY <1>3, ObservationStays
  <1>9. QED
    BY <1>2, <1>4, <1>5, <1>6, <1>7, <1>8 DEF PhysicalInv, RunnerInv

LEMMA StageInv ==
  ASSUME PhysicalInv, Stage
  PROVE  PhysicalInv'
  <1>1. /\ UNCHANGED <<clock, served, installed, app, runner, out, attempts, stored, ran>>
        /\ Types /\ LatePipeRevivesNothing
    BY DEF Stage, world, PhysicalInv, PhoneInv
  <1>2. Types'
    <2>1. /\ slot' \in [state : {"empty", "staging", "pending", "terminal"},
                       run : 0 .. MaximumAttempts]
          /\ pipe' \in [run : 0 .. MaximumAttempts, staged : BOOLEAN]
      <3>1. CASE slot.state = "empty"
        BY <1>1, <3>1, ZenonT(60) DEF Stage, Types
      <3>2. CASE slot.state # "empty"
        <4>1. slot' = [slot EXCEPT !.state = "terminal"] /\ pipe' = [run |-> 0, staged |-> FALSE]
          BY <3>2 DEF Stage, NoPipe
        <4>2. QED
          BY <1>1, <4>1 DEF Types
      <3>3. QED
        BY <3>1, <3>2
    <2>2. QED
      BY <1>1, <2>1 DEF Types
  <1>3. LatePipeRevivesNothing'
    BY <1>1 DEF Stage, LatePipeRevivesNothing, Types
  <1>4. QED
    BY <1>1, <1>2, <1>3, PhoneMovesInv

LEMMA DepositInv ==
  ASSUME PhysicalInv, Deposit
  PROVE  PhysicalInv'
  <1>1. /\ UNCHANGED <<clock, served, installed, app, runner, out, attempts, stored, ran>>
        /\ Types /\ LatePipeRevivesNothing
    BY DEF Deposit, world, PhysicalInv, PhoneInv
  <1>2. Types'
    BY <1>1 DEF Deposit, Types, NoPipe
  <1>3. LatePipeRevivesNothing'
    BY <1>1 DEF Deposit, LatePipeRevivesNothing, Types
  <1>4. QED
    BY <1>1, <1>2, <1>3, PhoneMovesInv

LEMMA TakeInv ==
  ASSUME PhysicalInv, Take \/ TakeExpires \/ GiveUp
  PROVE  PhysicalInv'
  <1>1. /\ UNCHANGED <<clock, served, installed, pipe, runner, out, attempts, stored, ran>>
        /\ Types /\ LatePipeRevivesNothing /\ app.phase # "none"
    BY DEF Take, TakeExpires, GiveUp, world, PhysicalInv, PhoneInv
  <1>2. Types' /\ app'.run = app.run /\ app'.began = app.began
    <2>1. /\ app' \in AppState /\ app'.run = app.run /\ app'.began = app.began
          /\ slot' \in [state : {"empty", "staging", "pending", "terminal"},
                       run : 0 .. MaximumAttempts]
      <3>1. CASE Take
        BY <1>1, <3>1 DEF Take, Types, AppState
      <3>2. CASE TakeExpires
        BY <1>1, <3>2 DEF TakeExpires, Types, AppState
      <3>3. CASE GiveUp
        BY <1>1, <3>3 DEF GiveUp, Types, AppState
      <3>4. QED
        BY <3>1, <3>2, <3>3
    <2>2. QED
      BY <1>1, <2>1 DEF Types
  <1>3. LatePipeRevivesNothing'
    BY <1>1 DEF Take, TakeExpires, GiveUp, LatePipeRevivesNothing, Types, AppState
  <1>4. QED
    BY <1>1, <1>2, <1>3, PhoneMovesInv

LEMMA UpdateInv ==
  ASSUME PhysicalInv, Update
  PROVE  PhysicalInv'
  <1>1. /\ UNCHANGED <<clock, served, runner, out, attempts, stored, ran>>
        /\ app' = NoApp /\ slot' = EmptySlot /\ pipe' = NoPipe /\ installed' \in Binary
        /\ Types
    BY DEF Update, PhysicalInv
  <1>2. Types' /\ app'.run = 0 /\ app'.phase = "none"
    BY <1>1 DEF Types, AppState, NoApp, EmptySlot, NoPipe
  <1>3. LatePipeRevivesNothing'
    BY <1>1 DEF LatePipeRevivesNothing, NoApp
  <1>4. QED
    BY <1>1, <1>2, <1>3, PhoneMovesInv

\* A run that has written its observation is over, so it meets nothing any more.
LEMMA AppCallInv ==
  ASSUME PhysicalInv, AppCall
  PROVE  PhysicalInv'
  <1>1. /\ app.phase = "running"
        /\ ran' = [ran EXCEPT ![app.run].met = @ \cup {served.statement.deployment},
                              ![app.run].sent = @ + 1]
        /\ UNCHANGED <<clock, served, installed, app, slot, pipe, stored, runner, out, attempts>>
        /\ Types
    BY DEF AppCall, world, phone, PhysicalInv
  <1>2. /\ app.run \in Attempt /\ app.run <= attempts
        /\ runner.run = app.run => runner.pc \in Started
    BY <1>1 DEF PhysicalInv, PhoneInv, Numbers
  <1>3. served.statement.deployment \in Deployments
    BY <1>1 DEF Types, Deployments
  <1>4. /\ ran' \in Runs
        /\ ran'[app.run].met = ran[app.run].met \cup {served.statement.deployment}
        /\ \A a \in Attempt : /\ ran'[a].binary = ran[a].binary
                              /\ ran'[a].redeployed = ran[a].redeployed
                              /\ a # app.run => ran'[a] = ran[a]
    BY <1>1, <1>2, <1>3 DEF Types, Runs
  <1>5. Types'
    BY <1>1, <1>4 DEF Types
  <1>6. Numbers'
    <2>1. ASSUME NEW a \in Attempt
          PROVE  /\ a > attempts => ran'[a].met = {} /\ ran'[a].redeployed = 0
                 /\ ran'[a].sent > 0 => ran'[a].met # {}
      <3>1. CASE a = app.run
        <4>1. served.statement.deployment \in ran'[a].met
          BY <1>4, <3>1
        <4>2. ~(a > attempts)
          BY <1>1, <1>2, <3>1 DEF Types, Attempt
        <4>3. QED
          BY <4>1, <4>2
      <3>2. CASE a # app.run
        BY <1>4, <3>2 DEF PhysicalInv, Numbers
      <3>3. QED
        BY <3>1, <3>2
    <2>2. runner.pc \notin {"idle"} \cup Started => ran'[runner.run].met = {}
      BY <1>2, <1>4 DEF PhysicalInv, Numbers
    <2>3. QED
      BY <1>1, <2>1, <2>2 DEF PhysicalInv, Numbers, Pinned
  <1>7. FinishedStays
    <2>1. ASSUME NEW a \in Attempt, Finished(a)
          PROVE  Finished(a)' /\ ran'[a] = ran[a] /\ ran[a].redeployed \in Nat
      <3>1. a # app.run
        BY <1>1, <2>1 DEF Finished
      <3>2. Finished(a)'
        BY <1>1, <2>1 DEF Finished
      <3>3. ran[a].redeployed \in Nat
        BY <1>1 DEF Types, Runs
      <3>4. QED
        BY <1>4, <3>1, <3>2, <3>3
    <2>2. clock' \in Nat /\ clock' >= clock
      BY <1>1 DEF Types
    <2>3. QED
      BY <2>1, <2>2 DEF FinishedStays
  <1>8. PhoneInv'
    <2>1. stored # None => Honest(stored)'
      BY <1>1, <1>7, HonestKept DEF PhysicalInv, PhoneInv
    <2>2. QED
      BY <1>1, <1>2, <1>4, <2>1 DEF PhysicalInv, PhoneInv, LatePipeRevivesNothing
  <1>9. SumsInv'
    BY <1>1, <1>7, SumsStay
  <1>10. StatementInv'
    BY <1>1 DEF PhysicalInv, RunnerInv, StatementInv, Pinned, InForce
  <1>11. DocumentInv'
    BY <1>1 DEF PhysicalInv, RunnerInv, DocumentInv, Pinned, Accepted
  <1>12. ObservationInv'
    BY <1>1, <1>7, ObservationStays
  <1>13. DeploymentInv'
    <2>1. runner.pc # "idle" => runner.run \in Attempt
      BY DEF PhysicalInv, Numbers
    <2>2. CASE app.run # runner.run
      BY <1>1, <1>4, <2>1, <2>2
      DEF PhysicalInv, RunnerInv, DeploymentInv, Met, Redeployed, Named, Refetched, Rechecked,
          Fetched, Verified, Started, Observed
    <2>3. CASE app.run = runner.run
      <3>1. runner.pc \notin Observed
        BY <1>1, <2>3 DEF PhysicalInv, RunnerInv, ObservationInv, Honest, Finished
      <3>2. runner.pc \notin Refetched \cup Rechecked
        BY <3>1 DEF Refetched, Rechecked, Observed
      <3>3. Met' = Met \cup {Named(served.statement)} /\ Redeployed' = Redeployed
        BY <1>1, <1>2, <1>4, <2>3 DEF Met, Redeployed, Named
      <3>4. QED
        BY <1>1, <3>2, <3>3
        DEF PhysicalInv, RunnerInv, DeploymentInv, Named
    <2>4. QED
      BY <2>2, <2>3
  <1>14. QED
    BY <1>5, <1>6, <1>8, <1>9, <1>10, <1>11, <1>12, <1>13 DEF PhysicalInv, RunnerInv

\* The observation is written by the run it tells of.
LEMMA AppFinishInv ==
  ASSUME PhysicalInv, AppFinish
  PROVE  PhysicalInv'
  <1>1. /\ app.phase = "running"
        /\ app' = [app EXCEPT !.phase = "none"] /\ slot' = [slot EXCEPT !.state = "terminal"]
        /\ UNCHANGED <<clock, served, installed, pipe, runner, out, attempts, ran>>
        /\ Types
    BY DEF AppFinish, world, PhysicalInv
  <1>2. /\ app.run \in Attempt /\ app.run <= attempts
        /\ runner.run = app.run => runner.pc \in Started
        /\ ran[app.run].binary \in Binary
        /\ ran[app.run].sent > 0 => ran[app.run].met # {}
    BY <1>1 DEF PhysicalInv, PhoneInv, Numbers
  <1>3. /\ stored'.run = app.run /\ stored'.started = app.began /\ stored'.completed = clock
        /\ stored'.pins = [application |-> <<ran[app.run].binary.application,
                                             ran[app.run].binary.build>>,
                           statement |-> ran[app.run].binary.statement]
        /\ stored'.provider.production => ran[app.run].sent > 0
    <2> DEFINE binary == ran[app.run].binary
               application == [id |-> binary.application, build |-> binary.build,
                               channel |-> "production", release |-> TRUE, debuggable |-> FALSE]
               provider(outcome) == [outcome.provider EXCEPT !.production = @ /\ ran[app.run].sent > 0]
               tests(outcome) == [i \in DOMAIN outcome.tests |->
                                    [outcome.tests[i] EXCEPT !.passed = @ /\ ran[app.run].sent = 2]]
               observation(outcome) ==
                  [run |-> app.run, started |-> app.began, completed |-> clock,
                   platform |-> "android_play_integrity", conforms |-> TRUE, secret |-> FALSE,
                   application |-> application, device |-> outcome.device,
                   provider |-> provider(outcome),
                   pins |-> [application |-> <<binary.application, binary.build>>,
                             statement |-> binary.statement],
                   tests |-> tests(outcome)]
    <2>0. PICK outcome \in Outcome : stored' = observation(outcome)
      BY Zenon DEF AppFinish
    <2>1. /\ stored'.run = app.run /\ stored'.started = app.began /\ stored'.completed = clock
          /\ stored'.pins = [application |-> <<binary.application, binary.build>>,
                             statement |-> binary.statement]
          /\ stored'.provider = provider(outcome)
      <3> HIDE DEF application, provider, tests
      <3>1. QED
        BY <2>0
    <2>2. stored'.provider.production => ran[app.run].sent > 0
      <3>1. PICK value : value = (outcome.provider.production /\ ran[app.run].sent > 0)
        OBVIOUS
      <3>2. stored'.provider = [outcome.provider EXCEPT !.production = value]
        BY <2>1, <3>1
      <3>3. stored'.provider.production = value
        BY <3>2
      <3>4. QED
        BY <3>1, <3>3
    <2>3. QED
      BY <2>1, <2>2
  <1>4. Types'
    BY <1>1 DEF Types, AppState
  <1>5. app'.run = app.run /\ app'.began = app.began /\ app'.phase = "none"
    BY <1>1 DEF Types, AppState
  <1>6. Numbers'
    BY <1>1, <1>2, <1>3, <1>5 DEF PhysicalInv, Numbers, Pinned
  <1>7. FinishedStays
    BY <1>1, <1>5 DEF FinishedStays, Finished, Types, Runs
  <1>8. Honest(stored)'
    <2>1. Finished(stored.run)'
      BY <1>1, <1>2, <1>3, <1>5 DEF Finished
    <2>2. app.began \in Nat /\ clock \in Nat
      BY <1>1 DEF Types, AppState
    <2>3. QED
      BY <1>1, <1>2, <1>3, <2>1, <2>2 DEF Honest
  <1>9. PhoneInv'
    <2>1. LatePipeRevivesNothing'
      BY <1>1 DEF LatePipeRevivesNothing, Types
    <2>2. QED
      BY <1>5, <1>8, <2>1 DEF PhoneInv
  <1>10. SumsInv'
    BY <1>1, <1>7, SumsStay
  <1>11. StatementInv'
    BY <1>1, <1>3, <1>5 DEF PhysicalInv, RunnerInv, StatementInv, Pinned, InForce
  <1>12. DeploymentInv' /\ DocumentInv'
    BY <1>1
    DEF PhysicalInv, RunnerInv, DeploymentInv, DocumentInv, Met, Redeployed, Named, Pinned, Accepted
  <1>13. ObservationInv'
    BY <1>1, <1>7, ObservationStays
  <1>14. QED
    BY <1>4, <1>6, <1>9, <1>10, <1>11, <1>12, <1>13 DEF PhysicalInv, RunnerInv

-----------------------------------------------------------------------------
(* Everything around them. *)

LEMMA DispatchInv ==
  ASSUME PhysicalInv, Dispatch
  PROVE  PhysicalInv'
  <1>1. /\ runner.pc = "idle" /\ attempts < MaximumAttempts /\ attempts' = attempts + 1
        /\ UNCHANGED <<clock, served, installed, app, slot, pipe, stored, out, ran>>
        /\ Types
    BY DEF Dispatch, world, phone, PhysicalInv
  <1>2. PICK pins \in Pins :
           runner' = [pc |-> "capture", run |-> attempts + 1, began |-> clock, pins |-> pins,
                      statement |-> None, signature |-> None, evidence |-> None]
    <2>1. PICK pins \in Pins : runner' = [IdleRunner EXCEPT !.pc = "capture", !.run = attempts + 1,
                                                            !.began = clock, !.pins = pins]
      BY DEF Dispatch
    <2>2. QED
      BY <2>1 DEF IdleRunner
  <1>3. attempts \in Nat /\ attempts + 1 \in Attempt
    BY <1>1 DEF Types, Attempt
  <1>4. Types'
    BY <1>1, <1>2, <1>3 DEF Types, Attempt, Pc
  <1>5. \A a \in Attempt : Finished(a) => Finished(a)'
    BY <1>1, <1>2, <1>3 DEF Finished, Attempt, PhysicalInv, Numbers
  <1>6. FinishedStays
    BY <1>1, <1>5 DEF FinishedStays, Types, Runs
  <1>7. stored # None => stored.run \in Attempt /\ stored.run <= attempts
    BY DEF PhysicalInv, PhoneInv, Honest, Finished
  <1>8. Numbers'
    <2>1. /\ runner'.pc = "capture" /\ runner'.run = attempts + 1 /\ runner'.pins \in Pins
      BY <1>2
    <2>2. app.run < attempts + 1 /\ app.run \in Nat
      BY <1>3 DEF PhysicalInv, Numbers, Types, AppState
    <2>3. \A a \in Attempt : a > attempts + 1 => a > attempts
      BY <1>3 DEF Attempt
    <2>4. stored # None => stored.run < attempts + 1
      BY <1>3, <1>7 DEF Attempt
    <2>5. ran[attempts + 1].met = {}
      BY <1>3 DEF PhysicalInv, Numbers
    <2>6. QED
      BY <1>1, <1>3, <2>1, <2>2, <2>3, <2>4, <2>5 DEF PhysicalInv, Numbers, Pinned
  <1>9. PhoneInv'
    <2>1. stored # None => Honest(stored)'
      BY <1>1, <1>6, HonestKept DEF PhysicalInv, PhoneInv
    <2>2. app.run # runner'.run
      BY <1>2, <1>3 DEF PhysicalInv, Numbers, Types, AppState
    <2>3. QED
      BY <1>1, <2>1, <2>2 DEF PhysicalInv, PhoneInv, LatePipeRevivesNothing
  <1>10. SumsInv'
    BY <1>1, <1>6, SumsStay
  <1>11. RunnerInv'
    <2>1. runner'.pc = "capture"
      BY <1>2
    <2>2. QED
      BY <2>1
      DEF RunnerInv, StatementInv, DeploymentInv, ObservationInv, DocumentInv,
          Captured, Fetched, Verified, Started, Observed, Refetched, Rechecked, Compared,
          Profiled, Built
  <1>12. QED
    BY <1>4, <1>8, <1>9, <1>10, <1>11 DEF PhysicalInv

LEMMA EndsInv ==
  ASSUME PhysicalInv, PollEnds \/ Crash
  PROVE  PhysicalInv'
  <1>1. End /\ UNCHANGED <<world, phone, attempts, ran>> /\ UNCHANGED out
    BY DEF PollEnds, Crash
  <1>2. KeepsSums
    BY <1>1, KeepStep DEF PhysicalInv
  <1>3. QED
    BY <1>1, <1>2, EndInv

\* Time does not undo that a statement has been issued.
LEMMA TickInv ==
  ASSUME PhysicalInv, Tick
  PROVE  PhysicalInv'
  <1>1. /\ clock' = clock + 1
        /\ UNCHANGED <<served, installed, app, slot, pipe, stored, runner, out, attempts, ran>>
        /\ Types
    BY DEF Tick, phone, PhysicalInv
  <1>2. Types'
    BY <1>1 DEF Types
  <1>3. Numbers'
    BY <1>1 DEF PhysicalInv, Numbers, Pinned
  <1>4. FinishedStays
    BY <1>1 DEF FinishedStays, Finished, Types, Runs
  <1>5. PhoneInv'
    <2>1. stored # None => Honest(stored)'
      BY <1>1, <1>4, HonestKept DEF PhysicalInv, PhoneInv
    <2>2. QED
      BY <1>1, <2>1 DEF PhysicalInv, PhoneInv, LatePipeRevivesNothing
  <1>6. SumsInv'
    BY <1>1, <1>4, SumsStay
  <1>7. StatementInv'
    <2>1. runner.pc \in Verified => InForce(clock)'
      <3>1. SUFFICES ASSUME runner.pc \in Verified
                     PROVE  InForce(clock)'
        OBVIOUS
      <3>2. InForce(clock) /\ out["statement"] \in Statements
        BY <3>1 DEF PhysicalInv, RunnerInv, StatementInv, Fetched
      <3>3. out["statement"].issued \in Int /\ clock \in Nat
        BY <1>1, <3>2, ZenonT(60) DEF Statements, Types
      <3>4. QED
        BY <1>1, <3>2, <3>3 DEF InForce
    <2>2. QED
      BY <1>1, <2>1 DEF PhysicalInv, RunnerInv, StatementInv, Pinned, InForce
  <1>8. DeploymentInv' /\ DocumentInv'
    BY <1>1
    DEF PhysicalInv, RunnerInv, DeploymentInv, DocumentInv, Met, Redeployed, Named, Pinned, Accepted
  <1>9. ObservationInv'
    BY <1>1, <1>4, ObservationStays
  <1>10. QED
    BY <1>2, <1>3, <1>5, <1>6, <1>7, <1>8, <1>9 DEF PhysicalInv, RunnerInv

\* One redeployment during a run leaves the statement it replaced behind.
LEMMA RedeployInv ==
  ASSUME PhysicalInv, Redeploy
  PROVE  PhysicalInv'
  <1>1. /\ served' \in Offer
        /\ ran' = IF runner.run = 0 THEN ran ELSE [ran EXCEPT ![runner.run].redeployed = @ + 1]
        /\ UNCHANGED <<clock, installed, app, slot, pipe, stored, runner, out, attempts>>
        /\ Types
    BY DEF Redeploy, phone, PhysicalInv
  <1>2. /\ runner.run # 0 => runner.run \in Attempt /\ runner.run = attempts /\ runner.pc # "idle"
        /\ runner.pc # "idle" => runner.run # 0
    BY <1>1 DEF PhysicalInv, Numbers, Types, Attempt
  <1>3. /\ ran' \in Runs
        /\ runner.run # 0 => ran'[runner.run].redeployed = ran[runner.run].redeployed + 1
        /\ \A a \in Attempt : /\ ran'[a].binary = ran[a].binary /\ ran'[a].met = ran[a].met
                              /\ ran'[a].sent = ran[a].sent
                              /\ a # runner.run => ran'[a] = ran[a]
                              /\ ran[a].redeployed \in Nat
    <2>1. CASE runner.run = 0
      BY <1>1, <2>1 DEF Types, Runs
    <2>2. CASE runner.run # 0
      <3>1. ran' = [ran EXCEPT ![runner.run].redeployed = @ + 1] /\ runner.run \in Attempt
        BY <1>1, <1>2, <2>2
      <3>2. QED
        BY <1>1, <3>1 DEF Types, Runs
    <2>3. QED
      BY <2>1, <2>2
  <1>4. Types'
    <2>1. Types /\ served' \in Offer /\ ran' \in Runs
          /\ UNCHANGED <<clock, installed, app, slot, pipe, runner, out, attempts>>
      BY <1>1, <1>3
    <2>2. QED
      BY <2>1 DEF Types
  <1>5. UNCHANGED <<clock, installed, app, slot, pipe, stored, runner, out, attempts>>
    BY <1>1
  <1>6. Numbers'
    <2>1. ASSUME NEW a \in Attempt
          PROVE  /\ a > attempts => ran'[a].met = {} /\ ran'[a].redeployed = 0
                 /\ ran'[a].sent > 0 => ran'[a].met # {}
      <3>1. a > attempts => a # runner.run
        BY <1>1, <1>2 DEF Types, Attempt
      <3>2. QED
        BY <1>3, <3>1 DEF PhysicalInv, Numbers
    <2>2. runner.pc \notin {"idle"} \cup Started => ran'[runner.run].met = {}
      BY <1>2, <1>3 DEF PhysicalInv, Numbers
    <2>3. QED
      BY <1>5, <2>1, <2>2 DEF PhysicalInv, Numbers, Pinned
  <1>7. FinishedStays
    <2>1. ASSUME NEW a \in Attempt, Finished(a)
          PROVE  Finished(a)'
      BY <1>5, <2>1 DEF Finished
    <2>2. ASSUME NEW a \in Attempt
          PROVE  ran'[a].redeployed \in Nat /\ ran'[a].redeployed >= ran[a].redeployed
      <3>1. CASE a = runner.run
        <4>1. a # 0
          BY DEF Attempt
        <4>2. QED
          BY <1>3, <3>1, <4>1
      <3>2. CASE a # runner.run
        BY <1>3, <3>2
      <3>3. QED
        BY <3>1, <3>2
    <2>3. clock' \in Nat /\ clock' >= clock
      BY <1>5 DEF PhysicalInv, Types
    <2>4. QED
      BY <1>3, <2>1, <2>2, <2>3 DEF FinishedStays
  <1>8. PhoneInv'
    <2>1. stored # None => Honest(stored)'
      BY <1>5, <1>7, HonestKept DEF PhysicalInv, PhoneInv
    <2>2. QED
      BY <1>3, <1>5, <2>1 DEF PhysicalInv, PhoneInv, LatePipeRevivesNothing
  <1>9. SumsInv'
    BY <1>5, <1>7, SumsStay
  <1>10. StatementInv'
    BY <1>5 DEF PhysicalInv, RunnerInv, StatementInv, Pinned, InForce
  <1>11. DocumentInv'
    BY <1>5 DEF PhysicalInv, RunnerInv, DocumentInv, Pinned, Accepted
  <1>12. ObservationInv'
    BY <1>5, <1>7, ObservationStays
  <1>13. DeploymentInv'
    <2>1. CASE runner.run = 0
      <3>1. runner.pc = "idle"
        BY <1>2, <2>1
      <3>2. QED
        BY <1>5, <3>1
        DEF DeploymentInv, Fetched, Verified, Started, Observed, Refetched, Rechecked
    <2>2. CASE runner.run # 0
      <3>1. Met' = Met /\ Redeployed' = Redeployed + 1 /\ Redeployed \in Nat
        BY <1>2, <1>3, <1>5, <2>2 DEF Met, Redeployed
      <3>2. QED
        BY <1>5, <3>1 DEF PhysicalInv, RunnerInv, DeploymentInv, Named
    <2>3. QED
      BY <2>1, <2>2
  <1>14. QED
    BY <1>4, <1>6, <1>8, <1>9, <1>10, <1>11, <1>12, <1>13 DEF PhysicalInv, RunnerInv

\* Between steps nothing changes.
LEMMA StutterInv ==
  ASSUME PhysicalInv, UNCHANGED vars
  PROVE  PhysicalInv'
  <1>1. UNCHANGED <<clock, served, installed, app, slot, pipe, stored, runner, out, attempts, ran>>
    BY DEF vars
  <1>2. Types' /\ LatePipeRevivesNothing'
    BY <1>1 DEF PhysicalInv, Types, PhoneInv, LatePipeRevivesNothing
  <1>3. QED
    BY <1>1, <1>2, PhoneMovesInv

-----------------------------------------------------------------------------
LEMMA NextInv ==
  ASSUME PhysicalInv, [Next]_vars
  PROVE  PhysicalInv'
  <1>1. CASE Collect
    BY <1>1, CaptureBinaryInv, FetchStatementInv, FetchSignatureInv, VerifyInv, ResetInv,
       StreamGrantInv, StartAppInv, PollInv, RecaptureInv, RefetchStatementInv,
       RefetchSignatureInv, RecheckInv, CompareInv, WriteProfileInv, WriteEvidenceInv,
       WriteJunitInv, WriteValidationInv, SealInv
    DEF Collect
  <1>2. CASE AppStep \/ TakeExpires
    BY <1>2, StageInv, DepositInv, TakeInv, AppCallInv, AppFinishInv DEF AppStep
  <1>3. CASE Dispatch \/ PollEnds \/ Tick \/ Redeploy \/ Update \/ Crash
    BY <1>3, DispatchInv, EndsInv, TickInv, RedeployInv, UpdateInv
  <1>4. CASE UNCHANGED vars
    BY <1>4, StutterInv
  <1>5. QED
    BY <1>1, <1>2, <1>3, <1>4 DEF Next

(* In every reachable state the collector's knowledge is what its step says. *)
THEOREM PhysicalInvariant == Spec => []PhysicalInv
  BY InitInv, NextInv, PTL DEF Spec

(* Sealed files are of one run: SealedIsOneRun, for any number of attempts and crashes. *)
THEOREM SealedIsOneRunAlways == Spec => []SealedIsOneRun
  <1>1. PhysicalInv => SealedIsOneRun
    <2>1. SUFFICES ASSUME PhysicalInv, Sealed
                   PROVE  /\ out["evidence"].observation = out["observation"]
                          /\ out["evidence"].profile = out["profile"]
                          /\ out["validation"].valid /\ out["validation"].evidence = out["evidence"]
                          /\ out["junit"] = [run |-> out["observation"].run, passed |-> TRUE]
                          /\ EvidenceAccepted(out["evidence"], out["profile"])
      BY DEF SealedIsOneRun
    <2>2. \A f \in {"evidence", "observation", "profile", "validation", "junit"} :
             out["sums"][f] = out[f]
      BY <2>1 DEF Sealed, File
    <2>3. OneRun(out["sums"])
      BY <2>1 DEF Sealed, PhysicalInv, SumsInv
    <2>4. QED
      BY <2>2, <2>3 DEF OneRun
  <1>2. QED
    BY <1>1, PhysicalInvariant, PTL

(* Sealed files tell of the pinned application and deployment: SealedRanOnPinned, for
   any redeployments and updates. *)
THEOREM SealedRanOnPinnedAlways == Spec => []SealedRanOnPinned
  <1>1. PhysicalInv => SealedRanOnPinned
    <2>1. SUFFICES ASSUME PhysicalInv, Sealed
                   PROVE  /\ ran[out["observation"].run].binary = out["profile"].binary
                          /\ \/ ran[out["observation"].run].met = {out["statement"].deployment}
                             \/ ran[out["observation"].run].redeployed > 1
      BY DEF SealedRanOnPinned
    <2>2. \A f \in {"observation", "profile", "statement"} : out["sums"][f] = out[f]
      BY <2>1 DEF Sealed, File
    <2>3. OnPinned(out["sums"])
      BY <2>1 DEF Sealed, PhysicalInv, SumsInv
    <2>4. QED
      BY <2>2, <2>3 DEF OnPinned
  <1>2. QED
    BY <1>1, PhysicalInvariant, PTL

(* Sealed files tell of a run within the statement's validity: SealedWithinValidity, for
   any passing of time. *)
THEOREM SealedWithinValidityAlways == Spec => []SealedWithinValidity
  <1>1. PhysicalInv => SealedWithinValidity
    <2>1. SUFFICES ASSUME PhysicalInv, Sealed
                   PROVE  /\ out["statement"].issued <= out["observation"].started + ClockSkew
                          /\ out["observation"].completed - ClockSkew < out["statement"].expires
                          /\ \E i \in DOMAIN out["statement"].clients :
                                PolicyObserved(out["observation"], out["statement"].clients[i])
      BY DEF SealedWithinValidity
    <2>2. \A f \in {"observation", "statement"} : out["sums"][f] = out[f]
      BY <2>1 DEF Sealed, File
    <2>3. WithinValidity(out["sums"])
      BY <2>1 DEF Sealed, PhysicalInv, SumsInv
    <2>4. QED
      BY <2>2, <2>3 DEF WithinValidity
  <1>2. QED
    BY <1>1, PhysicalInvariant, PTL

(* The slot of a consumed grant is terminal: LatePipeRevivesNothing, however the
   provider's thread and the consumer interleave. *)
THEOREM LatePipeRevivesNothingAlways == Spec => []LatePipeRevivesNothing
  <1>1. PhysicalInv => LatePipeRevivesNothing
    BY DEF PhysicalInv, PhoneInv
  <1>2. QED
    BY <1>1, PhysicalInvariant, PTL
================================================================================
