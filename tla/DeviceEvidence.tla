------------------------------ MODULE DeviceEvidence ------------------------------
(***************************************************************************)
(* scripts/device-evidence.py: what a physical run's observation and the   *)
(* protected profile must say for the evidence built from them to be       *)
(* release evidence.                                                       *)
(*                                                                         *)
(* Documents are records, and stand for their digests.  What the schema    *)
(* says of shapes and formats is the field `conforms' of a document; what  *)
(* the policy says of values is spelled out.                               *)
(***************************************************************************)
EXTENDS Integers, Sequences

CONSTANTS
    RunLimit,      \* the two-hour evidence window, in ticks
    PromptLimit    \* the hour after the run, in ticks

ASSUME LimitAssumption == RunLimit \in Nat /\ PromptLimit \in Nat

(* PLATFORM_POLICY, of the required tests only those the rules tell apart:
   one that has to succeed, one that has to be refused, and the rotation. *)
Policy ==
    [android_play_integrity |->
        [repository |-> "latchway-android", provider |-> "play_integrity",
         security |-> {"strongbox", "tee", "unknown_secure_hardware"},
         verdict |-> "recognized", error |-> "kotlin"],
     ios_app_attest |->
        [repository |-> "latchway-ios-sdk", provider |-> "app_attest",
         security |-> {"secure_enclave"}, verdict |-> "none", error |-> "swift"],
     react_native_android_play_integrity |->
        [repository |-> "latchway-react-native-sdk", provider |-> "play_integrity",
         security |-> {"strongbox", "tee", "unknown_secure_hardware"},
         verdict |-> "recognized", error |-> "react_native"],
     react_native_ios_app_attest |->
        [repository |-> "latchway-react-native-sdk", provider |-> "app_attest",
         security |-> {"secure_enclave"}, verdict |-> "none", error |-> "react_native"]]

Platform == DOMAIN Policy
RequiredTest == {"authorized", "refused", "rotated"}
PinName == {"application", "statement"}

(* validate_profile. *)
ProfileAccepted(profile) ==
    /\ profile.conforms
    /\ profile.platform \in Platform
    /\ profile.repository = Policy[profile.platform].repository
    /\ profile.clean
    /\ DOMAIN profile.pins = PinName

(* secret_scan: nothing named or spelled like a credential. *)
SecretFree(document) == ~document.secret

(* validate_observation, and the scan of it. *)
ObservationAccepted(observation, platform) ==
    /\ observation.conforms
    /\ observation.platform = platform
    /\ SecretFree(observation)

(* The clocks of semantic_errors. *)
Timely(evidence) ==
    /\ evidence.started <= evidence.completed
    /\ evidence.completed - evidence.started <= RunLimit
    /\ evidence.completed <= evidence.generated
    /\ evidence.generated - evidence.completed <= PromptLimit

(* A release build from the store, on physical hardware. *)
Genuine(evidence) ==
    LET policy == Policy[evidence.platform] IN
        /\ evidence.application.release /\ ~evidence.application.debuggable
        /\ evidence.device.physical /\ ~evidence.device.debugger
        /\ evidence.device.security \in policy.security
        /\ evidence.provider.name = policy.provider
        /\ evidence.provider.production /\ evidence.provider.hashBound
        /\ evidence.provider.verdict = policy.verdict

(* Every pin of the profile was observed, and no other. *)
PinsMatch(evidence, profile) ==
    /\ DOMAIN evidence.pins = PinName
    /\ \A name \in PinName :
          /\ evidence.pins[name].expected = profile.pins[name]
          /\ evidence.pins[name].observed = evidence.pins[name].expected

(* All required tests are there once and passed; refusals were the canonical ones, and
   the rotation changed the credentials of one installation. *)
TestsPassed(evidence) ==
    LET tests == evidence.tests IN
        /\ \A i, j \in DOMAIN tests : tests[i].id = tests[j].id => i = j
        /\ RequiredTest \subseteq {tests[i].id : i \in DOMAIN tests}
        /\ \A i \in DOMAIN tests :
              /\ tests[i].passed
              /\ tests[i].id = "refused" => tests[i].answer = Policy[evidence.platform].error
              /\ tests[i].id = "rotated" => /\ tests[i].answer.before # tests[i].answer.after
                                            /\ tests[i].answer.sameInstallation

(* semantic_errors finds none. *)
Meaningful(evidence, profile) ==
    /\ evidence.platform = profile.platform
    /\ evidence.repository = Policy[evidence.platform].repository
    /\ evidence.source = profile.source /\ evidence.clean
    /\ Timely(evidence)
    /\ Genuine(evidence)
    /\ PinsMatch(evidence, profile)
    /\ TestsPassed(evidence)
    /\ SecretFree(evidence)
    /\ evidence.profile = profile

(* schema_errors finds none. *)
Shaped(evidence) == evidence.conforms

(* build_evidence: merged from both documents, and its own verdict. *)
BuildEvidence(observation, profile, now) ==
    LET draft ==
            [run |-> observation.run, started |-> observation.started,
             completed |-> observation.completed, generated |-> now,
             platform |-> profile.platform, repository |-> profile.repository,
             source |-> profile.source, clean |-> profile.clean,
             application |-> observation.application, device |-> observation.device,
             provider |-> observation.provider,
             pins |-> [name \in DOMAIN profile.pins |->
                          [expected |-> profile.pins[name],
                           observed |-> IF name \in DOMAIN observation.pins
                                        THEN observation.pins[name] ELSE "absent"]],
             tests |-> observation.tests, secret |-> observation.secret,
             conforms |-> observation.conforms,
             observation |-> observation, profile |-> profile,
             binary |-> profile.binary, eligible |-> FALSE]
    IN [draft EXCEPT !.eligible = Shaped(draft) /\ Meaningful(draft, profile)]

(* verify. *)
EvidenceAccepted(evidence, profile) ==
    /\ Shaped(evidence)
    /\ Meaningful(evidence, profile)
    /\ evidence.eligible

(* write_summary: of the evidence file that is there, whichever run wrote it. *)
Validation(file, run, accepted) == [valid |-> accepted, evidence |-> file, run |-> run]

(* main with the command finalize builds evidence only from accepted documents. *)
Finalizes(profile, observation) ==
    ProfileAccepted(profile) /\ ObservationAccepted(observation, profile.platform)
================================================================================
