---------------------------- MODULE MCPhysicalEvidence ----------------------------
(* Instances of PhysicalEvidence for TLC: two deployments, two builds of the
   application. *)
EXTENDS PhysicalEvidence, TLC

Origin == [scheme |-> "https", port |-> 0]
GatewayKey == [curve |-> "P-256", id |-> "gateway"]

Client(build) ==
    [platform |-> "android_play_integrity", application |-> "app", build |-> build,
     provider |-> "play_integrity", channel |-> "production", trust |-> 1,
     recognized |-> TRUE, licensed |-> TRUE, hashBound |-> TRUE, testing |-> FALSE,
     debug |-> FALSE]

IosClient ==
    [Client("1") EXCEPT !.platform = "ios_app_attest", !.provider = "app_attest",
                        !.recognized = FALSE, !.licensed = FALSE]

Statement(deployment, issued, clients) ==
    [deployment |-> deployment, origin |-> Origin, key |-> "k1", issued |-> issued,
     expires |-> issued + MaxValidity, clients |-> clients, regular |-> TRUE,
     canonical |-> TRUE]

Released == Statement("d1", 0, <<Client("1"), IosClient>>)
Successor == Statement("d2", 1, <<Client("1"), Client("2")>>)

Signed(statement, key) == [statement |-> statement, signature |-> [of |-> statement, by |-> key]]

Offers == {Signed(Released, GatewayKey), Signed(Successor, GatewayKey)}

Binaries ==
    {[application |-> "app", build |-> "1", statement |-> Released],
     [application |-> "app", build |-> "2", statement |-> Released]}

PinSets ==
    {[expected |-> [origin |-> Origin, deployment |-> "d1", keyId |-> "k1"], key |-> GatewayKey,
      statement |-> Released, client |-> Client("1"),
      binary |-> CHOOSE b \in Binaries : b.build = "1"]}

Tests(passed) ==
    <<[id |-> "authorized", passed |-> TRUE, answer |-> "none"],
      [id |-> "refused", passed |-> passed, answer |-> "kotlin"],
      [id |-> "rotated", passed |-> TRUE,
       answer |-> [before |-> "c1", after |-> "c2", sameInstallation |-> TRUE]]>>

Phone == [physical |-> TRUE, debugger |-> FALSE, security |-> "tee"]
Trusted == [name |-> "play_integrity", production |-> TRUE, hashBound |-> TRUE,
            verdict |-> "recognized", trust |-> 1]

Outcomes ==
    {[device |-> Phone, provider |-> Trusted, tests |-> Tests(TRUE)],
     [device |-> Phone, provider |-> Trusted, tests |-> Tests(FALSE)]}
================================================================================
