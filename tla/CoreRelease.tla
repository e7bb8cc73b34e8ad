------------------------------ MODULE CoreRelease ------------------------------
(***************************************************************************)
(* scripts/verify-public-core-release.py: whether a directory of release   *)
(* assets is one release of the core.                                      *)
(*                                                                         *)
(* A directory maps asset names to contents, which stand for their         *)
(* digests.  One architecture stands for both.                             *)
(***************************************************************************)
EXTENDS FiniteSets

CandidateAsset == {"contract", "sbom", "vulnerability", "license"}
EvidenceAsset == CandidateAsset \cup {"candidate", "attestation"}
ExpectedFile == EvidenceAsset \cup {"sums", "record"}

(* verify_checksums: the exact files, each listed once with its digest. *)
ChecksumsAccepted(directory) ==
    /\ DOMAIN directory = ExpectedFile
    /\ DOMAIN directory["sums"] = ExpectedFile \ {"sums"}
    /\ \A name \in DOMAIN directory["sums"] : directory["sums"][name] = directory[name]

(* verify_scan and verify_sbom. *)
ScanAccepted(scan) == scan.severities \cap {"HIGH", "CRITICAL"} = {}
SbomAccepted(sbom) == sbom.packages # {}

\* Mutant: the candidate's artifacts are not compared with the files.
CandidateUnbound(directory) ==
    LET candidate == directory["candidate"] IN
        /\ candidate.status = "passed" /\ candidate.version = "1.0.0"
        /\ candidate.contract.status = "released"
        /\ Cardinality(candidate.platforms) = 2
        /\ DOMAIN candidate.artifacts = CandidateAsset
        /\ ScanAccepted(directory["vulnerability"]) /\ ScanAccepted(directory["license"])
        /\ SbomAccepted(directory["sbom"])

(* verify_candidate: a passed candidate of this version, and these are its artifacts. *)
CandidateAccepted(directory) ==
    LET candidate == directory["candidate"] IN
        /\ candidate.status = "passed" /\ candidate.version = "1.0.0"
        /\ candidate.contract.status = "released"
        /\ Cardinality(candidate.platforms) = 2
        /\ DOMAIN candidate.artifacts = CandidateAsset
        /\ \A name \in CandidateAsset : candidate.artifacts[name] = directory[name]
        /\ candidate.artifacts["contract"] = candidate.contract.bundle
        /\ ScanAccepted(directory["vulnerability"]) /\ ScanAccepted(directory["license"])
        /\ SbomAccepted(directory["sbom"])

(* release_body and the expected tag message. *)
ReleaseText(commit, image) == <<"v1.0.0", commit, image>>

(* The release record of verify: made for this candidate, listing these assets. *)
RecordAccepted(directory) ==
    LET record == directory["record"]
        candidate == directory["candidate"]
    IN  /\ record.profile = "single_maintainer_v1"
        /\ record.commit = candidate.commit
        /\ record.image = candidate.image /\ record.platforms = candidate.platforms
        /\ record.text = ReleaseText(candidate.commit, candidate.image)
        /\ record.claims = {}
        /\ DOMAIN record.assets = EvidenceAsset
        /\ \A name \in EvidenceAsset : record.assets[name] = directory[name]

CoreAccepted(directory) ==
    /\ ChecksumsAccepted(directory)
    /\ CandidateAccepted(directory)
    /\ RecordAccepted(directory)
================================================================================
