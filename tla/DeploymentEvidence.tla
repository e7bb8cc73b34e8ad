------------------------------ MODULE DeploymentEvidence ------------------------------
(***************************************************************************)
(* scripts/central-deployment-record.py: the upload intent, the deployment *)
(* record and the deployment status of a Maven Central release, and the    *)
(* rules by which one is accepted against the other.                       *)
(*                                                                         *)
(* A file stands for its digest.  The 120 files of a repository are named  *)
(* by the build that made them, a signed bundle by build and signing; a    *)
(* `closed' repository or archive is the exact artifact set, of regular    *)
(* entries within the size bounds, with matching checksum files.           *)
(***************************************************************************)
EXTENDS Naturals, FiniteSets

CONSTANTS
    Build,      \* contents of a reviewed repository
    Signing,    \* runs of the signing process: each makes other signatures
    Key,        \* exported public keys
    Commit,
    None

ASSUME NoneAssumption == None \notin Build \cup Signing \cup Key \cup Commit

Repository == [build : Build, closed : BOOLEAN]
Archive == [build : Build, closed : BOOLEAN]
Bundle == [build : Build, signing : Signing, closed : BOOLEAN]
Inputs == [repository : Repository, archive : Archive, bundle : Bundle, key : Key, commit : Commit]

DeploymentState == {"PENDING", "VALIDATING", "VALIDATED", "PUBLISHING", "PUBLISHED", "FAILED"}

(* The coordinates a deployment reports: some of the five modules, all of them, or one
   that is not among them. *)
Purls == {"some", "all", "foreign"}

(* repository_manifest: its own digest, when the file set is exact. *)
ManifestAccepted(repository) == repository.closed

(* validate_archive: every entry is the repository's; signatures are not looked into. *)
ArchiveAccepted(archive, repository) == archive.closed /\ archive.build = repository.build

InputsAccepted(inputs) ==
    /\ ManifestAccepted(inputs.repository)
    /\ ArchiveAccepted(inputs.archive, inputs.repository)
    /\ ArchiveAccepted(inputs.bundle, inputs.repository)

(* The deterministic name: version and commit, and the digest of the signed bundle. *)
DeploymentName(commit, bundle) == <<commit, bundle>>

(* create_intent, for inputs it accepts. *)
CreateIntent(inputs) ==
    [commit |-> inputs.commit,
     name |-> DeploymentName(inputs.commit, inputs.bundle),
     archive |-> inputs.archive, manifest |-> inputs.repository,
     bundle |-> inputs.bundle, key |-> inputs.key]

(* validate_intent. *)
IntentAccepted(intent) == intent.name = DeploymentName(intent.commit, intent.bundle)

\* Mutant: the files at hand are not looked at.
InputsUnmatched(intent, inputs) == IntentAccepted(intent)

(* validate_intent_inputs: the files at hand are the reviewed ones. *)
InputsMatch(intent, inputs) ==
    /\ IntentAccepted(intent)
    /\ InputsAccepted(inputs)
    /\ intent.archive = inputs.archive /\ intent.manifest = inputs.repository
    /\ intent.bundle = inputs.bundle /\ intent.key = inputs.key

(* record_common and create_record. *)
PortalRecord(intent, id) == [kind |-> "portal", intent |-> intent, id |-> id, manifest |-> None]

(* create_adoption_record, for the manifest that public_manifest_from_evidence returns. *)
AdoptionRecord(intent, manifest) ==
    [kind |-> "adoption", intent |-> intent, id |-> None, manifest |-> manifest]

(* validate_record. *)
RecordAccepted(intent, record) ==
    /\ IntentAccepted(intent)
    /\ record.intent = intent
    /\ \/ record.kind = "portal" /\ record.id # None /\ record.manifest = None
       \/ record.kind = "adoption" /\ record.id = None /\ record.manifest # None

(* validate_portal_status: an answer of the Portal may become a status. *)
AnswerAccepted(intent, record, answer) ==
    /\ RecordAccepted(intent, record) /\ record.kind = "portal"
    /\ answer.id = record.id /\ answer.name = intent.name
    /\ answer.state \in DeploymentState
    /\ answer.purls # "foreign"
    /\ answer.state \in {"VALIDATED", "PUBLISHING", "PUBLISHED"} => answer.purls = "all"
    /\ answer.state = "FAILED" => answer.errors

(* The normalized status: digests of intent and record, and what the Portal said. *)
PortalStatus(intent, record, answer) ==
    [intent |-> intent, record |-> record, state |-> answer.state, purls |-> answer.purls,
     manifest |-> None]

(* create_adoption_status. *)
AdoptionStatusAccepted(intent, record, manifest) ==
    /\ RecordAccepted(intent, record)
    /\ record.kind = "adoption" /\ record.manifest = manifest

AdoptionStatus(intent, record, manifest) ==
    [intent |-> intent, record |-> record, state |-> "PUBLISHED", purls |-> "all",
     manifest |-> manifest]

(* validate_normalized_status. *)
StatusAccepted(intent, record, status) ==
    /\ RecordAccepted(intent, record)
    /\ status.intent = intent /\ status.record = record
    /\ status.purls # "foreign"
    /\ status.state \in {"VALIDATED", "PUBLISHING", "PUBLISHED"} => status.purls = "all"
    /\ IF record.kind = "adoption"
       THEN status.state = "PUBLISHED" /\ status.manifest = record.manifest
       ELSE status.manifest = None

(* The command validate-complete. *)
Complete(intent, record, status, manifest) ==
    /\ StatusAccepted(intent, record, status)
    /\ status.state = "PUBLISHED"
    /\ record.kind = "adoption" => status.manifest = manifest

(* select_deployment: the ids that a listing shows under the exact name.  One is
   adopted, none is waited for, several are refused. *)
Matching(intent, listing) == {row.id : row \in {r \in listing : r.name = intent.name}}

\* Mutant: the file is replaced.
MayOverwrite(file, value) == TRUE

(* write_no_clobber. *)
MayWrite(file, value) == file \in {None, value}
================================================================================
