---------------------------- MODULE MCReleaseGates ----------------------------
(* An instance of ReleaseGates for TLC: two commits, an edited tree, and near misses of
   each file. *)
EXTENDS ReleaseGates

Content(version, core, text, graph) ==
    [version |-> version, core |-> core, text |-> text, graph |-> graph]

Good == Content("1.0.0", "core-1", "text-1", {"okhttp", "json"})
Other == Content("0.9.0", "core-2", "text-2", {"okhttp", "old"})
Edited == Content("1.0.0", "core-2", "text-2", {"okhttp"})
Broken == Content("0.9.0", None, "text-1", {})

Commits == {Good, Other}
Edits == {Edited, Broken}

Advisories == [okhttp |-> {"LOW"}, json |-> {}, old |-> {"MODERATE", "CVSS:3"}]

Dispatch(commit, version) ==
    [repository |-> "android", commit |-> commit, workflowCommit |-> commit,
     version |-> version, tag |-> <<"v", version>>, coreTag |-> <<"v", "1.0.0">>,
     image |-> "image-1"]

Coordinate(id, commit, version) ==
    [id |-> id, commit |-> commit, version |-> version, tag |-> <<"v", version>>]

Repositories(commit) ==
    <<Coordinate("core", "other", "1.0.0"), Coordinate("ios", "other", "0.8.0"),
      Coordinate("javascript", "other", "0.8.0"), Coordinate("react_native", "other", "0.8.0"),
      Coordinate("android", commit, commit.version)>>

Measured(started, finished) ==
    [required |-> TRUE, status |-> "passed", started |-> started, finished |-> finished,
     image |-> "image-1"]

Domains(started, finished) ==
    [d \in Domain |->
        IF d \in PromotionDomain THEN Measured(started, finished)
        ELSE Unmeasured(d \in RequiredDomain, IF d \in RequiredDomain THEN "passed" ELSE "unverified")]

Checks ==
    <<[id |-> "a", domain |-> "local_source", required |-> TRUE, status |-> "passed"],
      [id |-> "b", domain |-> "local_promotion", required |-> TRUE, status |-> "passed"],
      [id |-> "c", domain |-> "live_sdk_conformance", required |-> TRUE, status |-> "passed"],
      [id |-> "d", domain |-> "physical_devices", required |-> TRUE, status |-> "passed"],
      [id |-> "e", domain |-> "live_provider", required |-> TRUE, status |-> "passed"],
      [id |-> "f", domain |-> "cloud_deployments", required |-> TRUE, status |-> "passed"],
      [id |-> "g", domain |-> "operational_resilience", required |-> TRUE, status |-> "passed"],
      [id |-> "h", domain |-> "supply_chain", required |-> TRUE, status |-> "passed"],
      [id |-> "i", domain |-> "public_tags", required |-> FALSE, status |-> "unverified"]>>

Promotion(commit, released, started, finished) ==
    [scope |-> "promotion", verdict |-> "passed", conforms |-> TRUE, promotionReady |-> TRUE,
     releaseReady |-> FALSE,
     contract |-> [status |-> "released", coreTag |-> <<"v", "1.0.0">>, image |-> "image-1",
                   released |-> released],
     repositories |-> Repositories(commit),
     window |-> [started |-> started, finished |-> finished],
     domains |-> Domains(started, finished), checks |-> Checks]

Ready == Promotion(Good, 0, 0, 1)
Later == Promotion(Good, 1, 1, 2)

\* of another commit; begun before the release; on another image; with one domain that
\* was measured before the window
Reports ==
    {Ready, Promotion(Other, 0, 0, 1), Promotion(Good, 1, 0, 2),
     [Ready EXCEPT !.domains["physical_devices"].image = "image-2"],
     [Later EXCEPT !.domains["live_provider"].started = 0]}

Requests ==
    [gate : {"promotion"}, commit : {Good}, dispatch : {Dispatch(Good, "1.0.0")}, report : Reports]
    \cup [gate : {"intent", "scan"}, commit : Commits]
    \cup [gate : {"docs"}, commit : {Good}, strict : BOOLEAN]

-----------------------------------------------------------------------------
(* The assets of two runs of the core's release, and directories that mix them; the sums
   and the record are of a run or made again. *)
Run == 1 .. 2

Plain(r) ==
    [contract |-> [run |-> r, of |-> "contract"],
     sbom |-> [run |-> r, of |-> "sbom", packages |-> {"p"}],
     vulnerability |-> [run |-> r, of |-> "vulnerability", severities |-> {"LOW"}],
     license |-> [run |-> r, of |-> "license", severities |-> {}],
     attestation |-> [run |-> r, of |-> "attestation"]]

CandidateOf(r) ==
    [run |-> r, status |-> "passed", version |-> "1.0.0", commit |-> "core-1",
     image |-> "image-1", platforms |-> {"amd64", "arm64"},
     contract |-> [status |-> "released", bundle |-> Plain(r)["contract"]],
     artifacts |-> [name \in CandidateAsset |-> Plain(r)[name]]]

Mixture(from) ==
    [name \in EvidenceAsset |->
        IF name = "candidate" THEN CandidateOf(from[name]) ELSE Plain(from[name])[name]]

RecordOf(assets) ==
    [profile |-> "single_maintainer_v1", commit |-> assets["candidate"].commit,
     image |-> assets["candidate"].image, platforms |-> assets["candidate"].platforms,
     text |-> ReleaseText("core-1", "image-1"), claims |-> {}, assets |-> assets]

Recorded(assets, of) ==
    [name \in EvidenceAsset \cup {"record"} |-> IF name = "record" THEN RecordOf(of) ELSE assets[name]]

Summed(files_, of) ==
    [name \in ExpectedFile |-> IF name = "sums" THEN of ELSE files_[name]]

Directories ==
    {Summed(Recorded(Mixture(from), Mixture(from)), Recorded(Mixture(from), Mixture(from))) :
        from \in [EvidenceAsset -> Run]}
    \cup {Summed(Recorded(Mixture(from), Mixture([a \in EvidenceAsset |-> 1])),
                 Recorded(Mixture(from), Mixture([a \in EvidenceAsset |-> 1]))) :
            from \in [EvidenceAsset -> Run]}

-----------------------------------------------------------------------------
Signature == [verdict : {"good", "bad", "expired"}, primary : {"pinned", "other"},
              key : {"signing"}, version : {4}, trusted : BOOLEAN, algorithm : {"approved", "weak"},
              hash : {"SHA512", "SHA1"}, class : {"binary", "text"}]

SignatureFiles == {<<>>} \cup {<<s>> : s \in Signature} \cup {<<s, t>> : s, t \in Signature}
================================================================================
