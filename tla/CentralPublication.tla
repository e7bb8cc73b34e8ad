------------------------------ MODULE CentralPublication ------------------------------
(***************************************************************************)
(* scripts/publish-central.sh (staging) and                                *)
(* scripts/publish-validated-central.sh (publication): jobs that upload a  *)
(* signed bundle to the Central Portal, publish the validated deployment,  *)
(* and keep intent, record and status files from which an interrupted run  *)
(* is resumed.  Every request and every file is a step of its own.         *)
(*                                                                         *)
(* The Portal and the public registry are external.  A deployment appears  *)
(* in the Portal's listing some time after its upload.                     *)
(***************************************************************************)
EXTENDS DeploymentEvidence, Sequences

CONSTANTS
    Supplied,            \* the release inputs a workspace may hold
    Job,
    MaximumUploads,      \* bound on the deployments the Portal takes
    Mishap,              \* what may go wrong: see the actions that spend a mishap
    MaximumMishaps,
    Torn

ASSUME SuppliedAssumption == Supplied \subseteq Inputs
ASSUME BoundAssumption == MaximumUploads \in Nat /\ MaximumMishaps \in Nat
ASSUME TornAssumption == Torn # None

VARIABLES
    inputs,      \* the workspace: repository, archive, signed bundle, public key, commit
    intent, record, status,     \* the durable files
    deployment,  \* the Portal's deployments, in the order of their upload
    public,      \* the public registry
    job,
    attempted,   \* a staging job was started for this intent
    requested,   \* deployments for which publication was requested
    mishaps,     \* mishaps spent
    excuse       \* those that explain a second upload or foreign bytes

files == <<intent, record, status>>
portal == <<deployment, public>>
history == <<attempted, requested, mishaps, excuse>>
vars == <<inputs, intent, record, status, deployment, public, job, attempted, requested, mishaps, excuse>>

Id == 1 .. MaximumUploads

IdleJob == [pc |-> "idle", fresh |-> FALSE, stop |-> FALSE, id |-> None, asked |-> FALSE,
            status |-> None]

Staging == {"public", "adopt", "complete", "record", "lookup", "upload", "relookup", "save",
            "poll", "persist", "copy"}
Publishing == {"watch", "request"}

Init ==
    /\ inputs \in Supplied
    /\ intent = None /\ record = None /\ status = None
    /\ deployment = <<>>
    /\ public = [bundle |-> None, spread |-> "none"]
    /\ job = [j \in Job |-> IdleJob]
    /\ attempted = FALSE /\ requested = {} /\ mishaps = 0 /\ excuse = {}

GoTo(j, pc) == job' = [job EXCEPT ![j].pc = pc]
End(j) == job' = [job EXCEPT ![j] = IdleJob]
Demand(j, condition, pc) == IF condition THEN GoTo(j, pc) ELSE End(j)

(* The Portal's listing, and its answer to a status request. *)
Listing == {[id |-> d, name |-> deployment[d].name] : d \in {e \in DOMAIN deployment : deployment[e].listed}}

Answer(id) ==
    [id |-> id, name |-> deployment[id].name, state |-> deployment[id].state,
     purls |-> IF deployment[id].state \in {"PENDING", "FAILED"} THEN "some" ELSE "all",
     errors |-> TRUE]

Hidden == {d \in DOMAIN deployment : deployment[d].name = intent.name /\ ~deployment[d].listed}

Spend(mishap) ==
    /\ mishap \in Mishap
    /\ mishaps < MaximumMishaps
    /\ mishaps' = mishaps + 1

-----------------------------------------------------------------------------
(* central-deployment-record.py create-intent. *)
WriteIntent ==
    /\ InputsAccepted(inputs)
    /\ intent = None
    /\ intent' = CreateIntent(inputs)
    /\ UNCHANGED <<inputs, record, status, portal, job, history>>

(* publish-central.sh up to the public registry: arguments, and the inputs against the
   intent.  The maintainer claims a fresh intent on the first attempt only. *)
Stage(j) ==
    /\ job[j].pc = "idle"
    /\ intent # None /\ InputsMatch(intent, inputs)
    /\ \E fresh, stop \in BOOLEAN :
        /\ fresh => ~attempted
        /\ job' = [job EXCEPT ![j] = [IdleJob EXCEPT !.pc = "public", !.fresh = fresh, !.stop = stop]]
    /\ attempted' = TRUE
    /\ IF \E k \in Job \ {j} : job[k].pc \in Staging
       THEN Spend("overlap") /\ excuse' = excuse \cup {"overlap"}
       ELSE UNCHANGED <<mishaps, excuse>>
    /\ UNCHANGED <<inputs, files, portal, requested>>

(* Are coordinates of this version public? *)
ReadPublic(j) ==
    /\ job[j].pc = "public"
    /\ GoTo(j, IF public.spread = "none" THEN "record" ELSE "adopt")
    /\ UNCHANGED <<inputs, files, portal, history>>

(* verify-central-release.sh succeeded: all modules are public, byte for byte.  Without
   a record, the public release is adopted. *)
AdoptPublic(j) ==
    /\ job[j].pc = "adopt"
    /\ LET verified == public.spread = "all" /\ public.bundle = inputs.bundle
           kept == IF record = None THEN AdoptionRecord(intent, public.bundle) ELSE record
       IN IF verified
          THEN /\ record' = kept
               /\ Demand(j, RecordAccepted(intent, kept),
                         IF kept.kind = "adoption" THEN "complete" ELSE "record")
          ELSE UNCHANGED record /\ End(j)
    /\ UNCHANGED <<inputs, intent, status, portal, history>>

CompleteAdoption(j) ==
    /\ job[j].pc = "complete"
    /\ LET value == AdoptionStatus(intent, record, public.bundle) IN
        status' = IF /\ record # None
                     /\ AdoptionStatusAccepted(intent, record, public.bundle)
                     /\ MayWrite(status, value)
                  THEN value ELSE status
    /\ End(j)
    /\ UNCHANGED <<inputs, intent, record, portal, history>>

(* An existing record is waited for; nothing is ever uploaded beside it. *)
ReadRecord(j) ==
    /\ job[j].pc = "record"
    /\ IF record = None THEN GoTo(j, "lookup")
       ELSE IF RecordAccepted(intent, record) /\ record.kind = "portal" /\ ~job[j].stop
       THEN job' = [job EXCEPT ![j].pc = "poll", ![j].id = record.id]
       ELSE End(j)
    /\ UNCHANGED <<inputs, files, portal, history>>

(* find_existing_deployment: adopt the one match, refuse several. *)
Lookup(j) ==
    /\ job[j].pc \in {"lookup", "relookup"}
    /\ LET found == Matching(intent, Listing) IN
        /\ found # {}
        /\ IF Cardinality(found) = 1
           THEN job' = [job EXCEPT ![j].pc = "save", ![j].id = CHOOSE d \in found : TRUE]
           ELSE End(j)
    /\ UNCHANGED <<inputs, files, portal, history>>

\* Mutant: only a fresh intent is uploaded.
FindNothingResumed(j) ==
    /\ job[j].pc \in {"lookup", "relookup"}
    /\ Matching(intent, Listing) = {}
    /\ IF job[j].pc = "lookup" /\ job[j].fresh THEN GoTo(j, "upload") ELSE End(j)
    /\ UNCHANGED <<inputs, files, portal, history>>

(* Nothing is listed.  A fresh intent asks once.  Otherwise the lookup is repeated for
   the recovery window, which a deployment's appearance may outlast. *)
FindNothing(j) ==
    /\ job[j].pc \in {"lookup", "relookup"}
    /\ Matching(intent, Listing) = {}
    /\ IF Hidden # {} /\ ~(job[j].pc = "lookup" /\ job[j].fresh)
       THEN Spend("lag") /\ excuse' = excuse \cup {"lag"}
       ELSE UNCHANGED <<mishaps, excuse>>
    /\ IF job[j].pc = "lookup" THEN GoTo(j, "upload") ELSE End(j)
    /\ UNCHANGED <<inputs, files, portal, attempted, requested>>

Uploaded == Append(deployment, [name |-> intent.name, bundle |-> inputs.bundle,
                                state |-> "PENDING", listed |-> FALSE])

Upload(j) ==
    /\ job[j].pc = "upload"
    /\ Len(deployment) < MaximumUploads
    /\ deployment' = Uploaded
    /\ job' = [job EXCEPT ![j].pc = "save", ![j].id = Len(deployment) + 1]
    /\ UNCHANGED <<inputs, files, public, history>>

\* Mutant: an unanswered upload is repeated.
UploadRetried(j) ==
    /\ job[j].pc = "upload"
    /\ Spend("lost answer")
    /\ deployment' \in {deployment} \cup (IF Len(deployment) < MaximumUploads THEN {Uploaded} ELSE {})
    /\ UNCHANGED <<inputs, files, public, job, attempted, requested, excuse>>

(* The upload failed or its answer was lost: reconcile, never repeat. *)
UploadUnclear(j) ==
    /\ job[j].pc = "upload"
    /\ Spend("lost answer")
    /\ deployment' \in {deployment} \cup (IF Len(deployment) < MaximumUploads THEN {Uploaded} ELSE {})
    /\ GoTo(j, "relookup")
    /\ UNCHANGED <<inputs, files, public, attempted, requested, excuse>>

(* create-record: never over a record that differs. *)
SaveRecord(j) ==
    /\ job[j].pc = "save"
    /\ LET value == PortalRecord(intent, job[j].id) IN
        /\ record' = IF MayWrite(record, value) THEN value ELSE record
        /\ Demand(j, MayWrite(record, value) /\ ~job[j].stop, "poll")
    /\ UNCHANGED <<inputs, intent, status, portal, history>>

(* wait_for_deployment: final states are persisted, VALIDATED ends the staging. *)
Poll(j) ==
    /\ job[j].pc = "poll"
    /\ LET answer == Answer(job[j].id)
           accepted == record # None /\ AnswerAccepted(intent, record, answer)
       IN /\ accepted => answer.state # "PENDING" /\ answer.state # "PUBLISHING"
          /\ IF accepted /\ answer.state \in {"PUBLISHED", "FAILED"}
             THEN job' = [job EXCEPT ![j].pc = "persist",
                                     ![j].status = PortalStatus(intent, record, answer)]
             ELSE End(j)
    /\ UNCHANGED <<inputs, files, portal, history>>

(* persist_status compares, or copies: the file is there before it is complete. *)
Persist(j) ==
    /\ job[j].pc = "persist"
    /\ status' = IF status = None THEN Torn ELSE status
    /\ Demand(j, status = None, "copy")
    /\ UNCHANGED <<inputs, intent, record, portal, history>>

Copy(j) ==
    /\ job[j].pc = "copy"
    /\ status' = job[j].status
    /\ End(j)
    /\ UNCHANGED <<inputs, intent, record, portal, history>>

-----------------------------------------------------------------------------
(* publish-validated-central.sh: an existing status is only validated, a portal record
   without one is published. *)
Publish(j) ==
    /\ job[j].pc = "idle"
    /\ intent # None /\ record # None /\ status = None
    /\ RecordAccepted(intent, record) /\ record.kind = "portal"
    /\ job' = [job EXCEPT ![j] = [IdleJob EXCEPT !.pc = "watch", !.id = record.id]]
    /\ UNCHANGED <<inputs, files, portal, history>>

\* Mutant: a status is written while the deployment is still being published.
WatchEarly(j) ==
    /\ job[j].pc = "watch"
    /\ LET answer == Answer(job[j].id)
           accepted == record # None /\ AnswerAccepted(intent, record, answer)
           value == PortalStatus(intent, record, answer)
       IN /\ accepted => answer.state # "PENDING"
          /\ status' = IF accepted /\ answer.state \in {"PUBLISHING", "PUBLISHED"} /\ MayWrite(status, value)
                       THEN value ELSE status
          /\ Demand(j, accepted /\ answer.state = "VALIDATED", "request")
    /\ UNCHANGED <<inputs, intent, record, portal, history>>

Watch(j) ==
    /\ job[j].pc = "watch"
    /\ LET answer == Answer(job[j].id)
           accepted == record # None /\ AnswerAccepted(intent, record, answer)
           value == PortalStatus(intent, record, answer)
       IN /\ accepted => /\ answer.state \notin {"PENDING", "PUBLISHING"}
                         /\ ~(answer.state = "VALIDATED" /\ job[j].asked)
          /\ status' = IF accepted /\ answer.state = "PUBLISHED" /\ MayWrite(status, value)
                       THEN value ELSE status
          /\ Demand(j, accepted /\ answer.state = "VALIDATED", "request")
    /\ UNCHANGED <<inputs, intent, record, portal, history>>

(* The one-way transition, after the bindings were validated once more. *)
Request(j, took) ==
    /\ job[j].pc = "request"
    /\ record # None /\ RecordAccepted(intent, record) /\ record.id = job[j].id
    /\ requested' = requested \cup {job[j].id}
    /\ deployment' = IF took /\ deployment[job[j].id].state = "VALIDATED"
                     THEN [deployment EXCEPT ![job[j].id].state = "PUBLISHING"] ELSE deployment
    /\ UNCHANGED <<inputs, files, public, attempted, excuse>>

(* The Portal answers 204, or refuses what is no longer waiting for the request. *)
RequestAnswered(j) ==
    /\ Request(j, TRUE)
    /\ IF deployment[job[j].id].state = "VALIDATED"
       THEN job' = [job EXCEPT ![j].pc = "watch", ![j].asked = TRUE] ELSE End(j)
    /\ UNCHANGED mishaps

(* The answer was lost: watch, never request again in this invocation. *)
RequestUnclear(j) ==
    /\ \E took \in BOOLEAN : Request(j, took)
    /\ job' = [job EXCEPT ![j].pc = "watch", ![j].asked = TRUE]
    /\ Spend("lost answer")

(* The record went away since it was read. *)
RequestRefused(j) ==
    /\ job[j].pc = "request"
    /\ ~(record # None /\ RecordAccepted(intent, record) /\ record.id = job[j].id)
    /\ End(j)
    /\ UNCHANGED <<inputs, files, portal, history>>

(* The attempts of a polling loop are used up; the last one read a state to wait for. *)
TimeOut(j) ==
    /\ job[j].pc \in {"poll", "watch"}
    /\ deployment[job[j].id].state \in {"PENDING", "PUBLISHING"} \cup (IF job[j].asked THEN {"VALIDATED"} ELSE {})
    /\ End(j)
    /\ UNCHANGED <<inputs, files, portal, history>>

-----------------------------------------------------------------------------
(* The Portal lists what it was sent, validates it, and publishes what it is asked to.
   It refuses a version that is public or about to be. *)
List(d) ==
    /\ ~deployment[d].listed
    /\ deployment' = [deployment EXCEPT ![d].listed = TRUE]
    /\ UNCHANGED <<inputs, files, public, job, history>>

Taken == \E e \in DOMAIN deployment : deployment[e].state \in {"PUBLISHING", "PUBLISHED"}

Validate(d) ==
    /\ deployment[d].state = "PENDING"
    /\ deployment' = [deployment EXCEPT ![d].state = IF Taken THEN "FAILED" ELSE "VALIDATED"]
    /\ UNCHANGED <<inputs, files, public, job, history>>

Reject(d) ==
    /\ Spend("invalid")
    /\ deployment[d].state = "PENDING"
    /\ deployment' = [deployment EXCEPT ![d].state = "FAILED"]
    /\ UNCHANGED <<inputs, files, public, job, attempted, requested, excuse>>

GoPublic(d) ==
    /\ deployment[d].state = "PUBLISHING"
    /\ IF public.spread = "none"
       THEN /\ deployment' = [deployment EXCEPT ![d].state = "PUBLISHED"]
            /\ public' = [bundle |-> deployment[d].bundle, spread |-> "some"]
       ELSE /\ deployment' = [deployment EXCEPT ![d].state = "FAILED"]
            /\ UNCHANGED public
    /\ UNCHANGED <<inputs, files, job, history>>

Spread ==
    /\ public.spread = "some"
    /\ public' = [public EXCEPT !.spread = "all"]
    /\ UNCHANGED <<inputs, files, deployment, job, history>>

-----------------------------------------------------------------------------
Crash(j) ==
    /\ Spend("crash")
    /\ job[j].pc # "idle"
    /\ End(j)
    /\ UNCHANGED <<inputs, files, portal, attempted, requested, excuse>>

(* The workflow artifact or the machine with the record is gone. *)
LoseRecord ==
    /\ Spend("lost record")
    /\ record # None
    /\ record' = None
    /\ excuse' = excuse \cup {"lost record"}
    /\ UNCHANGED <<inputs, intent, status, portal, job, attempted, requested>>

(* Built or signed anew in the same place. *)
Rebuild ==
    /\ Spend("rebuild")
    /\ inputs' \in Supplied \ {inputs}
    /\ excuse' = IF \E j \in Job : job[j].pc \in Staging THEN excuse \cup {"rebuild"} ELSE excuse
    /\ UNCHANGED <<files, portal, job, attempted, requested>>

-----------------------------------------------------------------------------
Work(j) ==
    \/ ReadPublic(j) \/ AdoptPublic(j) \/ CompleteAdoption(j) \/ ReadRecord(j)
    \/ Lookup(j) \/ FindNothing(j) \/ Upload(j) \/ SaveRecord(j)
    \/ Poll(j) \/ Persist(j) \/ Copy(j)
    \/ Watch(j) \/ RequestAnswered(j) \/ RequestRefused(j)

PortalStep ==
    \/ \E d \in DOMAIN deployment : List(d) \/ Validate(d) \/ GoPublic(d)
    \/ Spread

Next ==
    \/ WriteIntent
    \/ \E j \in Job : Stage(j) \/ Publish(j) \/ Work(j) \/ TimeOut(j)
    \/ PortalStep
    \/ \E j \in Job : UploadUnclear(j) \/ RequestUnclear(j) \/ Crash(j)
    \/ \E d \in DOMAIN deployment : Reject(d)
    \/ LoseRecord \/ Rebuild

Spec == Init /\ [][Next]_vars

(* Jobs proceed, the Portal works off what it was sent, and the maintainer repeats
   staging and publication (docs/publishing.md, Failure recovery). *)
FairSpec ==
    /\ Spec
    /\ WF_vars(PortalStep)
    /\ \A j \in Job : WF_vars(Work(j) \/ TimeOut(j))
    /\ SF_vars(\E j \in Job : Stage(j))
    /\ SF_vars(\E j \in Job : Publish(j))

-----------------------------------------------------------------------------
Intent == [commit : Commit, name : Commit \X Bundle, archive : Archive, manifest : Repository,
           bundle : Bundle, key : Key]
Record == [kind : {"portal", "adoption"}, intent : Intent, id : Id \cup {None},
           manifest : Bundle \cup {None}]
Status == [intent : Intent, record : Record, state : DeploymentState, purls : Purls,
           manifest : Bundle \cup {None}]
Deployment == [name : Commit \X Bundle, bundle : Bundle, state : DeploymentState, listed : BOOLEAN]
JobState == [pc : {"idle"} \cup Staging \cup Publishing, fresh : BOOLEAN, stop : BOOLEAN,
             id : Id \cup {None}, asked : BOOLEAN, status : Status \cup {None}]

TypeOK ==
    /\ inputs \in Supplied
    /\ intent \in Intent \cup {None}
    /\ record \in Record \cup {None}
    /\ status \in Status \cup {None, Torn}
    /\ deployment \in Seq(Deployment) /\ Len(deployment) <= MaximumUploads
    /\ public \in [bundle : Bundle \cup {None}, spread : {"none", "some", "all"}]
    /\ job \in [Job -> JobState]
    /\ attempted \in BOOLEAN
    /\ requested \subseteq Id
    /\ mishaps \in 0 .. MaximumMishaps
    /\ excuse \subseteq {"overlap", "lag", "lost record", "rebuild"}

(* Whatever was uploaded, at most one deployment is ever asked to be published unless
   its record was lost: a record is never overwritten, and the request goes to the
   deployment it names (central-deployment-record.py:88-94,
   publish-validated-central.sh:134-137). *)
OneRequested == "lost record" \notin excuse => Cardinality(requested) <= 1

(* "Rerunning an exact promotion is safe across pre-POST, in-POST, response-loss, and
   post-POST crashes" (docs/publishing.md, Failure recovery): a bundle is uploaded a
   second time only if two staging jobs overlapped or the listing lagged behind the
   whole recovery window. *)
OneUpload ==
    excuse \cap {"overlap", "lag"} = {} =>
        \A d, e \in DOMAIN deployment : deployment[d].name = deployment[e].name => d = e

(* The persisted status says what is, and remains, the case. *)
StatusIsTruth ==
    status \notin {None, Torn} =>
        IF status.record.kind = "adoption"
        THEN public.spread = "all" /\ public.bundle = status.manifest
        ELSE deployment[status.record.id].state = status.state

(* Complete evidence (validate-complete) means that the reviewed bundle is public. *)
CompleteIsReviewed ==
    /\ "rebuild" \notin excuse
    /\ status \notin {None, Torn} /\ record # None
    /\ Complete(intent, record, status, public.bundle)
    => public.bundle = intent.bundle

(* What a repetition cannot mend: a torn status, a refused or doubled deployment, other
   release inputs. *)
Obstructed ==
    \/ status = Torn
    \/ Len(deployment) > 1 \/ \E d \in DOMAIN deployment : deployment[d].state = "FAILED"
    \/ intent # None /\ ~InputsMatch(intent, inputs)

(* "Rerunning an exact promotion is safe": and it suffices.  Whatever crashed or was
   lost, an intent ends in the status of a published release. *)
PublishedUnlessObstructed ==
    intent # None ~> Obstructed \/ (status # None /\ status.state = "PUBLISHED")
================================================================================
