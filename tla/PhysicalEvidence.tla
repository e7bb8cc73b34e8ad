------------------------------ MODULE PhysicalEvidence ------------------------------
(***************************************************************************)
(* scripts/run-physical-play-integrity.sh: the protected collector drives  *)
(* the conformance application on a phone against a live gateway, and      *)
(* seals the files of an accepted run.  Attempts follow each other in one  *)
(* output directory.  Meanwhile time passes, the gateway is redeployed,    *)
(* the store updates the application, and the collector may die.           *)
(*                                                                         *)
(* Phone and collector share the clock.                                    *)
(***************************************************************************)
EXTENDS GatewayStatement, DeviceEvidence, FiniteSets

CONSTANTS
    Offer,           \* what a gateway may serve: a statement and a signature
    Pins,            \* the protected variables of a workflow run
    Binary,          \* installed APK sets: [application, build, statement]
    Outcome,         \* what the application may find out: see AppFinish
    MaximumAttempts, MaximumClock, MaximumMishaps,
    GrantLife,       \* of the lease's grant: 300 seconds, in ticks
    None

ASSUME BoundAssumption == {MaximumAttempts, MaximumClock, MaximumMishaps, GrantLife} \subseteq Nat

(* Statements have times; the pinned binary is the client's build, made for the statement. *)
ASSUME OfferAssumption ==
    \A offer \in Offer : {offer.statement.issued, offer.statement.expires} \subseteq Int
ASSUME BinaryAssumption ==
    /\ \A binary \in Binary :
          binary = [application |-> binary.application, build |-> binary.build,
                    statement |-> binary.statement]
    /\ \A pins \in Pins :
          pins.binary = [application |-> pins.client.application, build |-> pins.client.build,
                         statement |-> pins.statement]
ASSUME OutcomeAssumption == \A outcome \in Outcome : "production" \in DOMAIN outcome.provider

VARIABLES
    clock, served, installed,
    app,       \* the conformance activity
    slot,      \* OneTimeIdentityGrantSlotState, of the application's process
    pipe,      \* the provider's thread that offers a grant to it
    stored,    \* the observation the application has written
    runner,
    out,       \* the files of the output directory
    attempts, mishaps,
    ran        \* for each attempt: the binary that ran, the deployments it met

phone == <<app, slot, pipe, stored>>
world == <<clock, served, installed>>
vars == <<clock, served, installed, app, slot, pipe, stored, runner, out, attempts, mishaps, ran>>

Attempt == 1 .. MaximumAttempts
NoApp == [phase |-> "none", run |-> 0, began |-> 0, consumed |-> FALSE]
EmptySlot == [state |-> "empty", run |-> 0]
NoPipe == [run |-> 0, staged |-> FALSE]
IdleRunner == [pc |-> "idle", run |-> 0, began |-> 0, pins |-> None, statement |-> None,
               signature |-> None, evidence |-> None]

File == {"binary", "policy", "statement", "signature", "summary", "observation", "profile",
         "evidence", "junit", "validation"}

Init ==
    /\ clock = 0 /\ served \in Offer /\ installed \in Binary
    /\ app = NoApp /\ slot = EmptySlot /\ pipe = NoPipe /\ stored = None
    /\ runner = IdleRunner
    /\ out = [f \in File \cup {"sums"} |-> None]
    /\ attempts = 0 /\ mishaps = 0
    /\ ran = [a \in Attempt |-> [binary |-> None, met |-> {}, redeployed |-> 0, sent |-> 0]]

GoTo(pc) == runner' = [runner EXCEPT !.pc = pc]
End == runner' = IdleRunner
Demand(condition, pc) == IF condition THEN GoTo(pc) ELSE End
Write(f, value) == out' = [out EXCEPT ![f] = value]

Pinned == runner.pins

-----------------------------------------------------------------------------
(* A workflow run passes its coordinates and pins. *)
Dispatch ==
    /\ runner.pc = "idle"
    /\ attempts < MaximumAttempts
    /\ attempts' = attempts + 1
    /\ \E pins \in Pins :
        runner' = [IdleRunner EXCEPT !.pc = "capture", !.run = attempts + 1, !.began = clock,
                                     !.pins = pins]
    /\ UNCHANGED <<world, phone, out, mishaps, ran>>

(* capture_installed_apk_set, which keeps no manifest of another version, and the
   retained client policy. *)
CaptureBinary ==
    /\ runner.pc = "capture"
    /\ out' = [out EXCEPT !["binary"] = IF installed.build = Pinned.client.build THEN installed ELSE @,
                          !["policy"] = IF installed = Pinned.binary THEN Pinned.client ELSE @]
    /\ Demand(installed = Pinned.binary, "statement")
    /\ UNCHANGED <<world, phone, attempts, mishaps, ran>>

(* latchway_capture_gateway_deployment: two requests, which a redeployment may part. *)
FetchStatement ==
    /\ runner.pc = "statement"
    /\ Write("statement", served.statement)
    /\ GoTo("signature")
    /\ UNCHANGED <<world, phone, attempts, mishaps, ran>>

FetchSignature ==
    /\ runner.pc = "signature"
    /\ Write("signature", served.signature)
    /\ GoTo("verify")
    /\ UNCHANGED <<world, phone, attempts, mishaps, ran>>

Verify ==
    /\ runner.pc = "verify"
    /\ LET verified == Verifies(out["statement"], out["signature"], Pinned.key, out["policy"],
                                Pinned, clock)
       IN /\ Write("summary", IF verified THEN Summary(out["statement"]) ELSE None)
          /\ Demand(verified /\ out["statement"] = Pinned.statement, "reset")
    /\ UNCHANGED <<world, phone, attempts, mishaps, ran>>

(* The grant of the lease is still good; the application is stopped and cleared. *)
Reset ==
    /\ runner.pc = "reset"
    /\ IF clock < runner.began + GrantLife
       THEN /\ app' = NoApp /\ slot' = EmptySlot /\ pipe' = NoPipe /\ stored' = None
            /\ GoTo("grant")
       ELSE End /\ UNCHANGED phone
    /\ UNCHANGED <<world, out, attempts, mishaps, ran>>

(* `content write' hands the grant to the provider, which offers it in a thread. *)
StreamGrant ==
    /\ runner.pc = "grant"
    /\ pipe' = [run |-> runner.run, staged |-> FALSE]
    /\ GoTo("start")
    /\ UNCHANGED <<world, app, slot, stored, out, attempts, mishaps, ran>>

(* `am start'. *)
StartApp ==
    /\ runner.pc = "start"
    /\ app' = [NoApp EXCEPT !.phase = "waiting", !.run = runner.run, !.began = clock]
    /\ ran' = [ran EXCEPT ![runner.run].binary = installed]
    /\ GoTo("poll")
    /\ UNCHANGED <<world, slot, pipe, stored, out, attempts, mishaps>>

(* The observation is taken once it is this run's. *)
Poll ==
    /\ runner.pc = "poll"
    /\ stored # None /\ stored.run = runner.run
    /\ Write("observation", stored)
    /\ GoTo("recapture")
    /\ UNCHANGED <<world, phone, attempts, mishaps, ran>>

PollEnds ==
    /\ runner.pc = "poll"
    /\ End
    /\ UNCHANGED <<world, phone, out, attempts, mishaps, ran>>

Recapture ==
    /\ runner.pc = "recapture"
    /\ Demand(installed = Pinned.binary /\ installed = out["binary"], "restatement")
    /\ UNCHANGED <<world, phone, out, attempts, mishaps, ran>>

(* latchway_recheck_gateway_deployment. *)
RefetchStatement ==
    /\ runner.pc = "restatement"
    /\ runner' = [runner EXCEPT !.statement = served.statement, !.pc = "resignature"]
    /\ UNCHANGED <<world, phone, out, attempts, mishaps, ran>>

RefetchSignature ==
    /\ runner.pc = "resignature"
    /\ runner' = [runner EXCEPT !.signature = served.signature, !.pc = "recheck"]
    /\ UNCHANGED <<world, phone, out, attempts, mishaps, ran>>

\* Mutant: the gateway is not looked at again.
RecheckNothing ==
    /\ runner.pc = "recheck"
    /\ GoTo("compare")
    /\ UNCHANGED <<world, phone, out, attempts, mishaps, ran>>

\* Mutant: the statement is compared with the first one, and not verified again.
RecheckUnverified ==
    /\ runner.pc = "recheck"
    /\ Demand(runner.statement = out["statement"] /\ runner.signature = out["signature"], "compare")
    /\ UNCHANGED <<world, phone, out, attempts, mishaps, ran>>

Recheck ==
    /\ runner.pc = "recheck"
    /\ Demand(/\ Verifies(runner.statement, runner.signature, Pinned.key, out["policy"],
                          Pinned, clock)
              /\ runner.statement = out["statement"] /\ runner.signature = out["signature"]
              /\ Summary(runner.statement) = out["summary"],
              "compare")
    /\ UNCHANGED <<world, phone, out, attempts, mishaps, ran>>

(* latchway_verify_observation_against_gateway_policy. *)
PolicyObserved(observation, policy) ==
    /\ observation.platform = policy.platform
    /\ observation.application.id = policy.application
    /\ observation.application.build = policy.build
    /\ observation.application.channel = policy.channel
    /\ observation.provider.name = policy.provider
    /\ observation.provider.production
    /\ observation.provider.hashBound = policy.hashBound
    /\ observation.provider.trust >= policy.trust
    /\ policy.recognized /\ policy.licensed => observation.provider.verdict = "recognized"
    /\ ~policy.debug => ~observation.application.debuggable /\ ~observation.device.debugger

Compare ==
    /\ runner.pc = "compare"
    /\ Demand(PolicyObserved(out["observation"], out["policy"]) /\ out["observation"].device.physical,
              "profile")
    /\ UNCHANGED <<world, phone, out, attempts, mishaps, ran>>

WriteProfile ==
    /\ runner.pc = "profile"
    /\ Write("profile",
             [platform |-> Pinned.client.platform, repository |-> "latchway-android",
              source |-> Pinned.expected, clean |-> TRUE, conforms |-> TRUE,
              pins |-> [application |-> <<Pinned.client.application, Pinned.client.build>>,
                        statement |-> Pinned.statement],
              binary |-> Pinned.binary])
    /\ GoTo("evidence")
    /\ UNCHANGED <<world, phone, attempts, mishaps, ran>>

(* device-evidence.py finalize: evidence is written before it is verified, then the
   report, then the validation; the exit status ends the run or not. *)
WriteEvidence ==
    /\ runner.pc = "evidence"
    /\ LET built == BuildEvidence(out["observation"], out["profile"], clock) IN
        IF Finalizes(out["profile"], out["observation"])
        THEN /\ Write("evidence", built)
             /\ runner' = [runner EXCEPT !.pc = "junit", !.evidence = built]
        ELSE /\ UNCHANGED out
             /\ runner' = [runner EXCEPT !.pc = "junit", !.evidence = None]
    /\ UNCHANGED <<world, phone, attempts, mishaps, ran>>

Accepted == runner.evidence # None /\ EvidenceAccepted(runner.evidence, out["profile"])

WriteJunit ==
    /\ runner.pc = "junit"
    /\ Write("junit", [run |-> IF runner.evidence = None THEN 0 ELSE runner.evidence.run,
                       passed |-> Accepted])
    /\ GoTo("validation")
    /\ UNCHANGED <<world, phone, attempts, mishaps, ran>>

\* Mutant: the exit status of the verification is not heeded.
WriteValidationUnheeded ==
    /\ runner.pc = "validation"
    /\ Write("validation", Validation(out["evidence"],
                                      IF runner.evidence = None THEN 0 ELSE runner.evidence.run,
                                      Accepted))
    /\ GoTo("seal")
    /\ UNCHANGED <<world, phone, attempts, mishaps, ran>>

WriteValidation ==
    /\ runner.pc = "validation"
    /\ Write("validation", Validation(out["evidence"],
                                      IF runner.evidence = None THEN 0 ELSE runner.evidence.run,
                                      Accepted))
    /\ Demand(Accepted, "seal")
    /\ UNCHANGED <<world, phone, attempts, mishaps, ran>>

Seal ==
    /\ runner.pc = "seal"
    /\ Write("sums", [f \in File |-> out[f]])
    /\ End
    /\ UNCHANGED <<world, phone, attempts, mishaps, ran>>

-----------------------------------------------------------------------------
(* OneTimeIdentityGrantSlotState.offer: stage, check, deposit; a failure is terminal. *)
Stage ==
    /\ pipe.run # 0 /\ ~pipe.staged
    /\ IF slot.state = "empty"
       THEN slot' = [slot EXCEPT !.state = "staging"] /\ pipe' = [pipe EXCEPT !.staged = TRUE]
       ELSE slot' = [slot EXCEPT !.state = "terminal"] /\ pipe' = NoPipe
    /\ UNCHANGED <<world, app, stored, runner, out, attempts, mishaps, ran>>

Deposit ==
    /\ pipe.staged
    /\ slot' = IF slot.state = "staging" THEN [state |-> "pending", run |-> pipe.run]
               ELSE [slot EXCEPT !.state = "terminal"]
    /\ pipe' = NoPipe
    /\ UNCHANGED <<world, app, stored, runner, out, attempts, mishaps, ran>>

(* take: the first pending grant, if it is the expected one. *)
Take ==
    /\ app.phase = "waiting"
    /\ slot.state \in {"pending", "terminal"}
    /\ slot' = [slot EXCEPT !.state = "terminal"]
    /\ app' = IF slot.state = "pending" /\ slot.run = app.run
              THEN [app EXCEPT !.phase = "running", !.consumed = TRUE]
              ELSE [app EXCEPT !.phase = "none", !.consumed = TRUE]
    /\ UNCHANGED <<world, pipe, stored, runner, out, attempts, mishaps, ran>>

(* The wait ends without a grant; only then is the slot made terminal. *)
TakeExpires ==
    /\ app.phase = "waiting"
    /\ slot.state \in {"empty", "staging"}
    /\ app' = [app EXCEPT !.phase = "expired"]
    /\ UNCHANGED <<world, slot, pipe, stored, runner, out, attempts, mishaps, ran>>

\* Mutant: the wait ends, and the slot is left as it is.
GiveUpOpen ==
    /\ app.phase = "expired"
    /\ app' = [app EXCEPT !.phase = "none", !.consumed = TRUE]
    /\ UNCHANGED <<world, slot, pipe, stored, runner, out, attempts, mishaps, ran>>

GiveUp ==
    /\ app.phase = "expired"
    /\ slot' = [slot EXCEPT !.state = "terminal"]
    /\ app' = [app EXCEPT !.phase = "none", !.consumed = TRUE]
    /\ UNCHANGED <<world, pipe, stored, runner, out, attempts, mishaps, ran>>

(* The suite talks to the gateway that is there: first for a session, then for the
   tests. *)
AppCall ==
    /\ app.phase = "running"
    /\ ran[app.run].sent < 2
    /\ ran' = [ran EXCEPT ![app.run].met = @ \cup {served.statement.deployment},
                          ![app.run].sent = @ + 1]
    /\ UNCHANGED <<world, phone, runner, out, attempts, mishaps>>

(* writeObservation replaces the file atomically.  Calls not made are failed tests. *)
AppFinish ==
    /\ app.phase = "running"
    /\ \E outcome \in Outcome :
        stored' = [run |-> app.run, started |-> app.began, completed |-> clock,
                   platform |-> "android_play_integrity", conforms |-> TRUE, secret |-> FALSE,
                   application |-> [id |-> ran[app.run].binary.application,
                                    build |-> ran[app.run].binary.build, channel |-> "production",
                                    release |-> TRUE, debuggable |-> FALSE],
                   device |-> outcome.device,
                   provider |-> [outcome.provider EXCEPT !.production = @ /\ ran[app.run].sent > 0],
                   pins |-> [application |-> <<ran[app.run].binary.application,
                                               ran[app.run].binary.build>>,
                             statement |-> ran[app.run].binary.statement],
                   tests |-> [i \in DOMAIN outcome.tests |->
                                [outcome.tests[i] EXCEPT !.passed = @ /\ ran[app.run].sent = 2]]]
    /\ app' = [app EXCEPT !.phase = "none"]
    /\ slot' = [slot EXCEPT !.state = "terminal"]
    /\ UNCHANGED <<world, pipe, runner, out, attempts, mishaps, ran>>

-----------------------------------------------------------------------------
Tick ==
    /\ clock < MaximumClock
    /\ clock' = clock + 1
    /\ UNCHANGED <<served, installed, phone, runner, out, attempts, mishaps, ran>>

Mishap == mishaps < MaximumMishaps /\ mishaps' = mishaps + 1

Redeploy ==
    /\ Mishap
    /\ served' \in Offer \ {served}
    /\ ran' = IF runner.run = 0 THEN ran ELSE [ran EXCEPT ![runner.run].redeployed = @ + 1]
    /\ UNCHANGED <<clock, installed, phone, runner, out, attempts>>

(* An update ends the application's process, and keeps its data. *)
Update ==
    /\ Mishap
    /\ installed' \in Binary \ {installed}
    /\ app' = NoApp /\ slot' = EmptySlot /\ pipe' = NoPipe
    /\ UNCHANGED <<clock, served, stored, runner, out, attempts, ran>>

Crash ==
    /\ Mishap
    /\ runner.pc # "idle"
    /\ End
    /\ UNCHANGED <<world, phone, out, attempts, ran>>

-----------------------------------------------------------------------------
Collect ==
    \/ CaptureBinary \/ FetchStatement \/ FetchSignature \/ Verify \/ Reset \/ StreamGrant
    \/ StartApp \/ Poll \/ Recapture \/ RefetchStatement \/ RefetchSignature \/ Recheck
    \/ Compare \/ WriteProfile \/ WriteEvidence \/ WriteJunit \/ WriteValidation \/ Seal

AppStep == Stage \/ Deposit \/ Take \/ GiveUp \/ AppCall \/ AppFinish

Next ==
    \/ Dispatch \/ Collect \/ PollEnds
    \/ AppStep \/ TakeExpires
    \/ Tick \/ Redeploy \/ Update \/ Crash

Spec == Init /\ [][Next]_vars

-----------------------------------------------------------------------------
TypeOK ==
    /\ clock \in 0 .. MaximumClock
    /\ served \in Offer /\ installed \in Binary
    /\ app.phase \in {"none", "waiting", "expired", "running"}
    /\ slot.state \in {"empty", "staging", "pending", "terminal"}
    /\ runner.run \in 0 .. MaximumAttempts
    /\ DOMAIN out = File \cup {"sums"}
    /\ mishaps \in 0 .. MaximumMishaps

(* The sums verify against the files that are there. *)
Sealed == out["sums"] # None /\ \A f \in File : out["sums"][f] = out[f]

(* Files of an output directory whose sums verify are of one and the same run, whatever
   crashed before or after it: its evidence was built from these very documents and was
   accepted (run-physical-play-integrity.sh:454-484). *)
SealedIsOneRun ==
    Sealed =>
        /\ out["evidence"].observation = out["observation"]
        /\ out["evidence"].profile = out["profile"]
        /\ out["validation"].valid /\ out["validation"].evidence = out["evidence"]
        /\ out["junit"] = [run |-> out["observation"].run, passed |-> TRUE]
        /\ EvidenceAccepted(out["evidence"], out["profile"])

(* The run was made with the pinned application against the pinned deployment: an update,
   or one redeployment, during the run never goes unnoticed.  The gateway is looked at
   before and after, so leaving and returning in between does. *)
SealedRanOnPinned ==
    Sealed =>
        LET run == ran[out["observation"].run] IN
            /\ run.binary = out["profile"].binary
            /\ \/ run.met = {out["statement"].deployment}
               \/ run.redeployed > 1

(* The whole run lies within the validity of the signed statement, which names the
   application that ran. *)
SealedWithinValidity ==
    Sealed =>
        /\ out["statement"].issued <= out["observation"].started + ClockSkew
        /\ out["observation"].completed - ClockSkew < out["statement"].expires
        /\ \E i \in DOMAIN out["statement"].clients :
              PolicyObserved(out["observation"], out["statement"].clients[i])

(* "A consume attempt is terminal even when the writer never arrives or is still staging
   at the deadline.  A late pipe cannot revive the slot." (OneTimeIdentityGrant.kt:257) *)
LatePipeRevivesNothing == app.consumed => slot.state = "terminal"
================================================================================
