-------------------------- MODULE CentralPublicationProofs --------------------------
(***************************************************************************)
(* Proofs about CentralPublication for any jobs, builds, signings and      *)
(* workspaces, and any number of deployments and mishaps: PublicationInv   *)
(* is inductive and implies the four safety properties.                    *)
(***************************************************************************)
EXTENDS CentralPublication, TLAPS, FiniteSetTheorems, SequenceTheorems

-----------------------------------------------------------------------------
(* Before there is an intent nothing is done; before the first attempt nothing is
   uploaded. *)
NothingBefore ==
    /\ intent = None => /\ ~attempted
                        /\ record = None
                        /\ \A j \in Job : job[j].pc = "idle"
    /\ ~attempted => Len(deployment) = 0 /\ \A j \in Job : job[j].pc \notin Staging

(* Every deployment bears the name of the intent, and every id that a job or the record
   holds is a deployment's. *)
NamesOfIntent == \A d \in DOMAIN deployment : deployment[d].name = intent.name

HoldsId == {"save", "poll", "watch", "request"}
IdsExist ==
    /\ \A j \in Job : job[j].pc \in HoldsId => job[j].id \in DOMAIN deployment
    /\ record # None /\ record.kind = "portal" => record.id \in DOMAIN deployment

(* Publication is requested of the deployment that the record names. *)
RequestedIsRecord ==
    "lost record" \notin excuse =>
        requested = {} \/ (record # None /\ requested = {record.id})

(* Jobs that do not overlap know what there is when they upload: nothing. *)
Unexcused == excuse \cap {"overlap", "lag"} = {}

OneStaging ==
    "overlap" \notin excuse =>
        \A j, k \in Job : job[j].pc \in Staging /\ job[k].pc \in Staging => j = k

Early == {"public", "adopt", "record", "lookup"}
FreshIsFirst ==
    "overlap" \notin excuse =>
        \A j \in Job : job[j].fresh /\ job[j].pc \in Early => Len(deployment) = 0

UploadIsFirst ==
    Unexcused => /\ \A j \in Job : job[j].pc = "upload" => Len(deployment) = 0
                 /\ Len(deployment) <= 1

(* Without a rebuild under a staging job, everything is of the reviewed bundle. *)
OfReviewed ==
    "rebuild" \notin excuse =>
        /\ \A j \in Job : job[j].pc \in Staging => inputs.bundle = intent.bundle
        /\ \A d \in DOMAIN deployment : deployment[d].bundle = intent.bundle
        /\ record # None /\ record.kind = "adoption" => record.manifest = intent.bundle

(* What is published is public, and what a status says is final. *)
PublishedIsPublic ==
    \A d \in DOMAIN deployment : deployment[d].state = "PUBLISHED" =>
        public.spread # "none" /\ public.bundle = deployment[d].bundle

AdoptedIsPublic == \A j \in Job : job[j].pc = "complete" => public.spread = "all"

Final == {"PUBLISHED", "FAILED"}
Truth(value, deployments, registry) ==
    IF value.record.kind = "adoption"
    THEN registry.spread = "all" /\ registry.bundle = value.manifest
    ELSE /\ value.record.id \in DOMAIN deployments
         /\ deployments[value.record.id].state = value.state
         /\ value.state \in Final

TruthfulStatus ==
    /\ status \notin {None, Torn} => Truth(status, deployment, public)
    /\ \A j \in Job : job[j].pc \in {"persist", "copy"} => Truth(job[j].status, deployment, public)

PublicationInv ==
    /\ TypeOK
    /\ NothingBefore /\ NamesOfIntent /\ IdsExist
    /\ RequestedIsRecord
    /\ OneStaging /\ FreshIsFirst /\ UploadIsFirst
    /\ OfReviewed
    /\ PublishedIsPublic /\ AdoptedIsPublic /\ TruthfulStatus

-----------------------------------------------------------------------------
USE NoneAssumption, SuppliedAssumption, BoundAssumption, TornAssumption

\* Idle jobs have the type of jobs.
LEMMA IdleJobType == IdleJob \in JobState
  BY DEF IdleJob, JobState

\* The initial state satisfies the invariant.
LEMMA InitInv ==
  ASSUME Init
  PROVE  PublicationInv
  <1>1. job \in [Job -> JobState] /\ \A j \in Job : job[j] = IdleJob
    BY IdleJobType DEF Init
  <1>2. deployment \in Seq(Deployment) /\ Len(deployment) = 0 /\ DOMAIN deployment = {}
    BY DEF Init
  <1>3. inputs \in Supplied /\ intent = None /\ record = None /\ status = None
    BY DEF Init
  <1>4. /\ public \in [bundle : Bundle \cup {None}, spread : {"none", "some", "all"}]
        /\ requested = {} /\ excuse = {} /\ mishaps \in 0 .. MaximumMishaps
    BY DEF Init
  <1>5. attempted = FALSE
    BY DEF Init
  <1>a. attempted \in BOOLEAN
    BY <1>5, Zenon
  <1>6. Len(deployment) <= MaximumUploads
    BY <1>2
  <1>7. TypeOK
    BY <1>1, <1>2, <1>3, <1>4, <1>a, <1>6 DEF TypeOK
  <1>8. \A j \in Job : job[j].pc = "idle"
    BY <1>1 DEF IdleJob
  <1>9. NothingBefore /\ NamesOfIntent /\ IdsExist /\ RequestedIsRecord
    BY <1>2, <1>3, <1>4, <1>5, <1>8
    DEF NothingBefore, NamesOfIntent, IdsExist, HoldsId, RequestedIsRecord, Staging
  <1>10. OneStaging /\ FreshIsFirst /\ UploadIsFirst
    BY <1>2, <1>8 DEF OneStaging, FreshIsFirst, UploadIsFirst, Staging, Early
  <1>11. OfReviewed /\ PublishedIsPublic /\ AdoptedIsPublic /\ TruthfulStatus
    BY <1>2, <1>3, <1>8
    DEF OfReviewed, PublishedIsPublic, AdoptedIsPublic, TruthfulStatus, Staging
  <1>12. QED
    BY <1>7, <1>9, <1>10, <1>11 DEF PublicationInv

-----------------------------------------------------------------------------
(* Most steps add no deployment and start no staging.  What they have to keep to: the
   portal keeps what it has and what is final ... *)
Carries ==
    /\ DOMAIN deployment' = DOMAIN deployment /\ Len(deployment') = Len(deployment)
    /\ \A d \in DOMAIN deployment :
          /\ deployment'[d].name = deployment[d].name
          /\ deployment'[d].bundle = deployment[d].bundle
          /\ deployment[d].state \in Final => deployment'[d].state = deployment[d].state
          /\ deployment'[d].state = "PUBLISHED" =>
                \/ deployment[d].state = "PUBLISHED"
                \/ public'.spread # "none" /\ public'.bundle = deployment[d].bundle
    /\ public.spread # "none" => public'.spread # "none" /\ public'.bundle = public.bundle
    /\ public.spread = "all" => public'.spread = "all"

(* ... a job that moves has learned what its next step rests on ... *)
Moved(j) ==
    LET after == job'[j] IN
        /\ after.pc # "idle" => intent # None
        /\ after.pc \in Staging => job[j].pc \in Staging
        /\ after.pc \in HoldsId => after.id \in DOMAIN deployment
        /\ after.pc \in Early => job[j].pc \in Early /\ after.fresh = job[j].fresh
        /\ after.pc = "upload" => Len(deployment) = 0 \/ excuse' \cap {"overlap", "lag"} # {}
        /\ after.pc = "complete" => public.spread = "all"
        /\ after.pc \in {"persist", "copy"} => Truth(after.status, deployment, public)

(* ... and the files are written once. *)
KeepsRecord ==
    \/ record' = record
    \/ record' = None /\ "lost record" \in excuse'
    \/ /\ record = None /\ intent # None
       /\ record'.kind = "portal" => record'.id \in DOMAIN deployment
       /\ record'.kind = "adoption" /\ "rebuild" \notin excuse => record'.manifest = intent.bundle

KeepsRequest ==
    \/ requested' = requested
    \/ record # None /\ record' = record /\ requested' = requested \cup {record.id}

KeepsStatus ==
    \/ status' = status
    \/ status' \in {None, Torn}
    \/ Truth(status', deployment, public)

Evolves ==
    /\ TypeOK'
    /\ UNCHANGED <<inputs, intent, attempted>>
    /\ excuse \subseteq excuse'
    /\ Carries
    /\ \A j \in Job : job'[j] = job[j] \/ Moved(j)
    /\ KeepsRecord /\ KeepsRequest /\ KeepsStatus

\* What is true of the portal stays true while it carries what it has.
LEMMA TruthStays ==
  ASSUME Carries, NEW value, Truth(value, deployment, public)
  PROVE  Truth(value, deployment', public')
  BY DEF Carries, Truth, Final

\* Such a step preserves the invariant.
LEMMA EvolvesInv ==
  ASSUME PublicationInv, Evolves
  PROVE  PublicationInv'
  <1>1. TypeOK'
    BY DEF Evolves
  <1>2. NothingBefore'
    BY DEF Evolves, PublicationInv, NothingBefore, Moved, Carries, KeepsRecord
  <1>3. NamesOfIntent'
    BY DEF Evolves, PublicationInv, NamesOfIntent, Carries
  <1>4. IdsExist'
    BY DEF Evolves, PublicationInv, IdsExist, Moved, Carries, KeepsRecord
  <1>5. RequestedIsRecord'
    BY DEF Evolves, PublicationInv, RequestedIsRecord, KeepsRecord, KeepsRequest
  <1>6. OneStaging'
    BY DEF Evolves, PublicationInv, OneStaging, Moved
  <1>7. FreshIsFirst'
    BY DEF Evolves, PublicationInv, FreshIsFirst, Moved, Carries
  <1>8. UploadIsFirst'
    BY DEF Evolves, PublicationInv, UploadIsFirst, Unexcused, Moved, Carries
  <1>9. OfReviewed'
    BY DEF Evolves, PublicationInv, OfReviewed, Moved, Carries, KeepsRecord
  <1>10. PublishedIsPublic'
    BY DEF Evolves, PublicationInv, PublishedIsPublic, Carries
  <1>11. AdoptedIsPublic'
    BY DEF Evolves, PublicationInv, AdoptedIsPublic, Moved, Carries
  <1>12. TruthfulStatus'
    <2>1. status' \notin {None, Torn} => Truth(status', deployment', public')
      BY TruthStays DEF Evolves, PublicationInv, TruthfulStatus, KeepsStatus
    <2>2. ASSUME NEW j \in Job, job'[j].pc \in {"persist", "copy"}
          PROVE  Truth(job'[j].status, deployment', public')
      <3>1. Truth(job'[j].status, deployment, public)
        BY <2>2 DEF Evolves, PublicationInv, TruthfulStatus, Moved
      <3>2. QED
        BY <3>1, TruthStays DEF Evolves
    <2>3. QED
      BY <2>1, <2>2 DEF TruthfulStatus
  <1>13. QED
    BY <1>1, <1>2, <1>3, <1>4, <1>5, <1>6, <1>7, <1>8, <1>9, <1>10, <1>11, <1>12
    DEF PublicationInv

-----------------------------------------------------------------------------
(* A job's step on the portal as it is, with the files and the history it leaves. *)
Excuses == {"overlap", "lag", "lost record", "rebuild"}
JobSteps(j) == job' \in [Job -> JobState] /\ \A k \in Job \ {j} : job'[k] = job[k]
KeepsHistory == UNCHANGED <<mishaps, excuse>>
KeepsFiles == UNCHANGED <<record, status>>

\* The types of the state, and what a job in the middle of its work may count on.
LEMMA Basics ==
  ASSUME PublicationInv
  PROVE  /\ job \in [Job -> JobState]
         /\ record \in Record \cup {None} /\ status \in Status \cup {None, Torn}
         /\ mishaps \in 0 .. MaximumMishaps /\ excuse \subseteq Excuses
         /\ inputs \in Inputs /\ intent \in Intent \cup {None}
         /\ public.bundle \in Bundle \cup {None}
         /\ \A j \in Job : job[j].pc # "idle" => intent # None /\ intent \in Intent
         /\ deployment \in Seq(Deployment) /\ DOMAIN deployment \subseteq Id
  <1>1. TypeOK /\ NothingBefore
    BY DEF PublicationInv
  <1>2. /\ job \in [Job -> JobState]
        /\ record \in Record \cup {None} /\ status \in Status \cup {None, Torn}
        /\ mishaps \in 0 .. MaximumMishaps /\ excuse \subseteq Excuses
        /\ inputs \in Inputs /\ intent \in Intent \cup {None}
    BY <1>1 DEF TypeOK, Excuses
  <1>3. public.bundle \in Bundle \cup {None}
    BY <1>1 DEF TypeOK
  <1>4. \A j \in Job : job[j].pc # "idle" => intent # None /\ intent \in Intent
    BY <1>1, <1>2 DEF NothingBefore
  <1>5. deployment \in Seq(Deployment) /\ Len(deployment) <= MaximumUploads
    BY <1>1 DEF TypeOK
  <1>6. DOMAIN deployment \subseteq Id
    BY <1>5, LenProperties DEF Id
  <1>7. QED
    BY <1>2, <1>3, <1>4, <1>5, <1>6

\* A job that goes to a step keeps everything else.
LEMMA GoToStep ==
  ASSUME job \in [Job -> JobState], NEW j \in Job,
         NEW pc \in {"idle"} \cup Staging \cup Publishing, GoTo(j, pc)
  PROVE  /\ JobSteps(j)
         /\ job'[j].pc = pc /\ job'[j].id = job[j].id
         /\ job'[j].fresh = job[j].fresh /\ job'[j].status = job[j].status
  <1>1. job[j] \in JobState
    OBVIOUS
  <1>2. [job[j] EXCEPT !.pc = pc] \in JobState
    BY <1>1 DEF JobState
  <1>3. job' = [job EXCEPT ![j] = [job[j] EXCEPT !.pc = pc]]
    BY DEF GoTo
  <1>4. job'[j] = [job[j] EXCEPT !.pc = pc]
    BY <1>3
  <1>5. JobSteps(j)
    BY <1>2, <1>3 DEF JobSteps
  <1>6. QED
    BY <1>1, <1>4, <1>5 DEF JobState

\* A job that is set to a state is in it.
LEMMA SetStep ==
  ASSUME job \in [Job -> JobState], NEW j \in Job, NEW after \in JobState,
         job' = [job EXCEPT ![j] = after]
  PROVE  JobSteps(j) /\ job'[j] = after
  BY DEF JobSteps

\* A job that ends moves, whatever it rested on.
LEMMA EndStep ==
  ASSUME job \in [Job -> JobState], NEW j \in Job, End(j)
  PROVE  JobSteps(j) /\ Moved(j)
  <1>1. JobSteps(j) /\ job'[j] = IdleJob
    BY SetStep, IdleJobType DEF End
  <1>2. QED
    BY <1>1 DEF Moved, IdleJob, Staging, HoldsId, Early

\* The portal as it is carries what it has.
LEMMA PortalCarries ==
  ASSUME UNCHANGED portal
  PROVE  Carries
  BY DEF portal, Carries

\* A mishap that may be spent leaves the count in its bounds.
LEMMA SpendBound ==
  ASSUME mishaps \in 0 .. MaximumMishaps, NEW mishap, Spend(mishap)
  PROVE  mishaps' \in 0 .. MaximumMishaps
  BY DEF Spend

\* The invariant's class of steps, for a job's step on an unchanged portal.
LEMMA JobEvolves ==
  ASSUME PublicationInv, NEW j \in Job, JobSteps(j), Moved(j),
         UNCHANGED <<inputs, intent, portal, attempted, requested>>,
         mishaps' \in 0 .. MaximumMishaps, excuse \subseteq excuse', excuse' \subseteq Excuses,
         record' \in Record \cup {None}, KeepsRecord,
         status' \in Status \cup {None, Torn}, KeepsStatus
  PROVE  Evolves
  <1>1. Carries
    BY PortalCarries
  <1>2. TypeOK'
    BY DEF PublicationInv, TypeOK, portal, JobSteps, Excuses
  <1>3. \A k \in Job : job'[k] = job[k] \/ Moved(k)
    BY DEF JobSteps
  <1>4. QED
    BY <1>1, <1>2, <1>3 DEF Evolves, KeepsRequest

-----------------------------------------------------------------------------
(* The steps of staging that upload nothing, one lemma each. *)

\* A job that goes to a step, with every file and all history as it was.
LEMMA GoEvolves ==
  ASSUME PublicationInv, NEW j \in Job, NEW pc \in {"idle"} \cup Staging \cup Publishing,
         GoTo(j, pc), Moved(j),
         UNCHANGED <<inputs, files, portal, history>>
  PROVE  Evolves
  <1>1. JobSteps(j)
    BY Basics, GoToStep
  <1>2. KeepsRecord /\ KeepsStatus
    BY DEF KeepsRecord, KeepsStatus, files
  <1>3. QED
    BY <1>1, <1>2, Basics, JobEvolves DEF files, history

\* The same for a job that ends.
LEMMA EndEvolves ==
  ASSUME PublicationInv, NEW j \in Job, End(j),
         UNCHANGED <<inputs, intent, portal, attempted, requested, excuse>>,
         mishaps' \in 0 .. MaximumMishaps,
         record' \in Record \cup {None}, KeepsRecord,
         status' \in Status \cup {None, Torn}, KeepsStatus
  PROVE  Evolves
  BY Basics, EndStep, JobEvolves

\* A job that ends and leaves no trace.
LEMMA EndsQuietly ==
  ASSUME PublicationInv, NEW j \in Job, End(j), UNCHANGED <<inputs, files, portal, history>>
  PROVE  Evolves
  <1>1. KeepsRecord /\ KeepsStatus
    BY DEF KeepsRecord, KeepsStatus, files
  <1>2. QED
    BY <1>1, Basics, EndEvolves DEF files, history

LEMMA ReadPublicEvolves ==
  ASSUME PublicationInv, NEW j \in Job, ReadPublic(j)
  PROVE  Evolves
  <1>1. PICK pc \in {"record", "adopt"} : GoTo(j, pc)
    BY DEF ReadPublic
  <1>2. job'[j].pc = pc /\ job'[j].fresh = job[j].fresh
    BY <1>1, Basics, GoToStep DEF Staging
  <1>3. job[j].pc = "public"
    BY DEF ReadPublic
  <1>4. Moved(j)
    BY <1>1, <1>2, <1>3, Basics DEF Moved, Staging, Early, HoldsId
  <1>5. QED
    BY <1>1, <1>4, GoEvolves DEF ReadPublic, Staging

LEMMA ReadRecordEvolves ==
  ASSUME PublicationInv, NEW j \in Job, ReadRecord(j)
  PROVE  Evolves
  <1>1. job[j].pc = "record"
    BY DEF ReadRecord
  <1>2. CASE record = None
    <2>1. GoTo(j, "lookup")
      BY <1>2 DEF ReadRecord
    <2>2. job'[j].pc = "lookup" /\ job'[j].fresh = job[j].fresh
      BY <2>1, Basics, GoToStep DEF Staging
    <2>3. Moved(j)
      BY <1>1, <2>2, Basics DEF Moved, Staging, Early, HoldsId
    <2>4. QED
      BY <2>1, <2>3, GoEvolves DEF ReadRecord, Staging
  <1>3. CASE record # None /\ RecordAccepted(intent, record) /\ record.kind = "portal" /\ ~job[j].stop
    <2> DEFINE after == [job[j] EXCEPT !.pc = "poll", !.id = record.id]
    <2>1. job' = [job EXCEPT ![j] = after]
      BY <1>3 DEF ReadRecord
    <2>2. record.id \in DOMAIN deployment
      BY <1>3 DEF PublicationInv, IdsExist
    <2>3. after \in JobState /\ after.pc = "poll" /\ after.id = record.id
      BY <2>2, Basics, ZenonT(60) DEF JobState, Staging
    <2>4. JobSteps(j) /\ job'[j] = after
      BY <2>1, <2>3, Basics, SetStep
    <2>5. Moved(j)
      BY <1>1, <2>2, <2>3, <2>4, Basics DEF Moved, Staging, Early, HoldsId
    <2>6. UNCHANGED <<inputs, files, portal, history>>
      BY DEF ReadRecord
    <2>7. KeepsRecord /\ KeepsStatus
      BY <2>6 DEF KeepsRecord, KeepsStatus, files
    <2>8. QED
      BY <2>4, <2>5, <2>6, <2>7, Basics, JobEvolves DEF files, history
  <1>4. CASE /\ record # None
             /\ ~(RecordAccepted(intent, record) /\ record.kind = "portal" /\ ~job[j].stop)
    <2>1. End(j) /\ UNCHANGED <<inputs, files, portal, history>>
      BY <1>4 DEF ReadRecord
    <2>2. QED
      BY <2>1, EndsQuietly
  <1>5. QED
    BY <1>2, <1>3, <1>4

\* What a lookup adopts is a deployment there is.
LEMMA LookupEvolves ==
  ASSUME PublicationInv, NEW j \in Job, Lookup(j)
  PROVE  Evolves
  <1> DEFINE found == Matching(intent, Listing)
             chosen == CHOOSE d \in found : TRUE
             after == [job[j] EXCEPT !.pc = "save", !.id = chosen]
  <1>1. job[j].pc \in {"lookup", "relookup"} /\ found # {}
    BY DEF Lookup
  <1>2. UNCHANGED <<inputs, files, portal, history>>
    BY DEF Lookup
  <1>3. CASE Cardinality(found) = 1
    <2>1. job' = [job EXCEPT ![j] = after]
      BY <1>3 DEF Lookup
    <2>2. chosen \in found
      BY <1>1, Zenon
    <2>3. found \subseteq DOMAIN deployment
      BY DEF Matching, Listing
    <2>4. chosen \in DOMAIN deployment
      BY <2>2, <2>3
    <2> HIDE DEF chosen, found
    <2>5. after \in JobState /\ after.pc = "save" /\ after.id = chosen
      BY <2>4, Basics, ZenonT(60) DEF JobState, Staging
    <2>6. JobSteps(j) /\ job'[j] = after
      BY <2>1, <2>5, Basics, SetStep
    <2>7. Moved(j)
      BY <1>1, <2>4, <2>5, <2>6, Basics DEF Moved, Staging, Early, HoldsId
    <2>8. KeepsRecord /\ KeepsStatus
      BY <1>2 DEF KeepsRecord, KeepsStatus, files
    <2>9. QED
      BY <1>2, <2>6, <2>7, <2>8, Basics, JobEvolves DEF files, history
  <1>4. CASE Cardinality(found) # 1
    <2>1. End(j)
      BY <1>4 DEF Lookup
    <2>2. QED
      BY <1>2, <2>1, EndsQuietly
  <1>5. QED
    BY <1>3, <1>4

\* Whoever goes on to upload found nothing: there is nothing, or the listing lagged.
LEMMA FindNothingEvolves ==
  ASSUME PublicationInv, NEW j \in Job, FindNothing(j)
  PROVE  Evolves
  <1>1. /\ job[j].pc \in {"lookup", "relookup"}
        /\ UNCHANGED <<inputs, files, portal, attempted, requested>>
        /\ Matching(intent, Listing) = {}
    BY DEF FindNothing
  <1>2. /\ mishaps' \in 0 .. MaximumMishaps
        /\ excuse \subseteq excuse' /\ excuse' \subseteq Excuses
    BY Basics, SpendBound DEF FindNothing, Excuses
  <1>3. KeepsRecord /\ KeepsStatus
    BY <1>1 DEF KeepsRecord, KeepsStatus, files
  <1>4. JobSteps(j) /\ Moved(j)
    <2>1. CASE job[j].pc = "lookup"
      <3>1. GoTo(j, "upload")
        BY <2>1 DEF FindNothing
      <3>2. JobSteps(j) /\ job'[j].pc = "upload"
        BY <3>1, Basics, GoToStep DEF Staging
      <3>3. Len(deployment) = 0 \/ excuse' \cap {"overlap", "lag"} # {}
        <4>1. CASE job[j].fresh
          <5>1. "overlap" \notin excuse => Len(deployment) = 0
            BY <2>1, <4>1 DEF PublicationInv, FreshIsFirst, Early
          <5>2. QED
            BY <1>2, <5>1
        <4>2. CASE ~job[j].fresh /\ Hidden # {}
          BY <2>1, <4>2 DEF FindNothing
        <4>3. CASE Hidden = {}
          <5>1. \A d \in DOMAIN deployment : deployment[d].name = intent.name
            BY DEF PublicationInv, NamesOfIntent
          <5>2. \A d \in DOMAIN deployment : deployment[d].listed
            BY <4>3, <5>1 DEF Hidden
          <5>3. \A d \in DOMAIN deployment :
                    [id |-> d, name |-> deployment[d].name] \in Listing
            BY <5>2 DEF Listing
          <5>4. ASSUME NEW d \in DOMAIN deployment
                PROVE  d \in Matching(intent, Listing)
            <6> DEFINE row == [id |-> d, name |-> deployment[d].name]
            <6>1. row \in Listing /\ row.name = intent.name /\ row.id = d
              BY <5>1, <5>3
            <6> HIDE DEF row
            <6>2. QED
              BY <6>1 DEF Matching
          <5>5. DOMAIN deployment = {}
            BY <1>1, <5>4
          <5>6. QED
            BY <5>5, Basics, LenProperties
        <4>4. QED
          BY <4>1, <4>2, <4>3
      <3>4. Moved(j)
        BY <2>1, <3>2, <3>3, Basics DEF Moved, Staging, Early, HoldsId
      <3>5. QED
        BY <3>2, <3>4
    <2>2. CASE job[j].pc # "lookup"
      <3>1. End(j)
        BY <2>2 DEF FindNothing
      <3>2. QED
        BY <3>1, Basics, EndStep
    <2>3. QED
      BY <2>1, <2>2
  <1>5. QED
    BY <1>1, <1>2, <1>3, <1>4, Basics, JobEvolves DEF files

\* What is adopted is public and of the reviewed bundle.
LEMMA AdoptPublicEvolves ==
  ASSUME PublicationInv, NEW j \in Job, AdoptPublic(j)
  PROVE  Evolves
  <1> DEFINE verified == public.spread = "all" /\ public.bundle = inputs.bundle
             kept == IF record = None THEN AdoptionRecord(intent, public.bundle) ELSE record
             goal == IF kept.kind = "adoption" THEN "complete" ELSE "record"
  <1>1. /\ job[j].pc = "adopt"
        /\ UNCHANGED <<inputs, intent, status, portal, history>>
    BY DEF AdoptPublic
  <1>2. KeepsStatus /\ status' \in Status \cup {None, Torn}
    BY <1>1, Basics DEF KeepsStatus
  <1>3. intent # None /\ intent \in Intent
    BY <1>1, Basics
  <1>4. CASE ~verified
    <2>1. End(j) /\ record' = record
      BY <1>4 DEF AdoptPublic
    <2>2. KeepsRecord
      BY <2>1 DEF KeepsRecord
    <2>3. QED
      BY <1>1, <1>2, <2>1, <2>2, Basics, EndEvolves DEF history
  <1>5. CASE verified
    <2>1. /\ record' = kept
          /\ Demand(j, RecordAccepted(intent, kept), goal)
      BY <1>5 DEF AdoptPublic
    <2>2. record = None => kept \in Record /\ kept.kind = "adoption" /\ kept.manifest = public.bundle
      BY <1>3, Basics DEF AdoptionRecord, Record
    <2>3. record' \in Record \cup {None}
      BY <2>1, <2>2, Basics
    <2>4. "rebuild" \notin excuse => public.bundle = intent.bundle
      BY <1>1, <1>5 DEF PublicationInv, OfReviewed, Staging
    <2>5. KeepsRecord
      BY <1>1, <1>3, <2>1, <2>2, <2>4 DEF KeepsRecord, history
    <2>6. JobSteps(j) /\ Moved(j)
      <3>1. CASE GoTo(j, goal)
        <4>1. /\ JobSteps(j)
              /\ job'[j].pc \in {"complete", "record"} /\ job'[j].fresh = job[j].fresh
          BY <3>1, Basics, GoToStep DEF Staging
        <4>2. Moved(j)
          BY <1>1, <1>3, <1>5, <4>1 DEF Moved, Staging, Early, HoldsId
        <4>3. QED
          BY <4>1, <4>2
      <3>2. CASE End(j)
        BY <3>2, Basics, EndStep
      <3>3. QED
        BY <2>1, <3>1, <3>2 DEF Demand
    <2>7. QED
      BY <1>1, <1>2, <2>3, <2>5, <2>6, Basics, JobEvolves DEF history
  <1>6. QED
    BY <1>4, <1>5

\* The status of an adoption says that its manifest is public, as it is.
LEMMA CompleteAdoptionEvolves ==
  ASSUME PublicationInv, NEW j \in Job, CompleteAdoption(j)
  PROVE  Evolves
  <1> DEFINE value == AdoptionStatus(intent, record, public.bundle)
             may == /\ record # None
                    /\ AdoptionStatusAccepted(intent, record, public.bundle)
                    /\ MayWrite(status, value)
  <1>1. /\ job[j].pc = "complete" /\ End(j)
        /\ UNCHANGED <<inputs, intent, record, portal, history>>
        /\ status' = IF may THEN value ELSE status
    BY DEF CompleteAdoption
  <1>2. public.spread = "all"
    BY <1>1 DEF PublicationInv, AdoptedIsPublic
  <1>3. ASSUME may
        PROVE  value \in Status /\ Truth(value, deployment, public)
    <2>1. record \in Record /\ intent \in Intent
      BY <1>1, <1>3, Basics
    <2>2. value \in Status
      BY <2>1, Basics DEF AdoptionStatus, Status, DeploymentState, Purls
    <2>3. Truth(value, deployment, public)
      BY <1>2, <1>3 DEF AdoptionStatus, AdoptionStatusAccepted, Truth
    <2>4. QED
      BY <2>2, <2>3
  <1> HIDE DEF may, value
  <1>4. KeepsStatus /\ status' \in Status \cup {None, Torn}
    BY <1>1, <1>3, Basics DEF KeepsStatus
  <1>5. KeepsRecord
    BY <1>1 DEF KeepsRecord
  <1>6. QED
    BY <1>1, <1>4, <1>5, Basics, EndEvolves DEF history

\* The record that is saved names a deployment there is.
LEMMA SaveRecordEvolves ==
  ASSUME PublicationInv, NEW j \in Job, SaveRecord(j)
  PROVE  Evolves
  <1> DEFINE value == PortalRecord(intent, job[j].id)
             may == MayWrite(record, value)
  <1>1. /\ job[j].pc = "save"
        /\ UNCHANGED <<inputs, intent, status, portal, history>>
        /\ record' = IF may THEN value ELSE record
        /\ Demand(j, may /\ ~job[j].stop, "poll")
    BY DEF SaveRecord
  <1>2. job[j].id \in DOMAIN deployment
    BY <1>1 DEF PublicationInv, IdsExist, HoldsId
  <1>3. intent # None /\ intent \in Intent
    BY <1>1, Basics
  <1>4. value \in Record /\ value.kind = "portal" /\ value.id = job[j].id
    BY <1>2, <1>3, Basics DEF PortalRecord, Record
  <1>5. may => record \in {None, value}
    BY DEF MayWrite
  <1> HIDE DEF value, may
  <1>6. record' \in Record \cup {None} /\ KeepsRecord
    BY <1>1, <1>2, <1>3, <1>4, <1>5, Basics DEF KeepsRecord
  <1>7. KeepsStatus /\ status' \in Status \cup {None, Torn}
    BY <1>1, Basics DEF KeepsStatus
  <1>8. JobSteps(j) /\ Moved(j)
    <2>1. CASE GoTo(j, "poll")
      <3>1. JobSteps(j) /\ job'[j].pc = "poll" /\ job'[j].id = job[j].id
        BY <2>1, Basics, GoToStep DEF Staging
      <3>2. QED
        BY <1>1, <1>2, <1>3, <3>1 DEF Moved, Staging, Early, HoldsId
    <2>2. CASE End(j)
      BY <2>2, Basics, EndStep
    <2>3. QED
      BY <1>1, <2>1, <2>2 DEF Demand
  <1>9. QED
    BY <1>1, <1>6, <1>7, <1>8, Basics, JobEvolves DEF history

\* A final answer of the Portal for the record becomes a true status.
LEMMA AnswerStatus ==
  ASSUME PublicationInv, NEW j \in Job, job[j].pc \in {"poll", "watch"},
         record # None, AnswerAccepted(intent, record, Answer(job[j].id)),
         Answer(job[j].id).state \in Final
  PROVE  LET value == PortalStatus(intent, record, Answer(job[j].id))
         IN value \in Status /\ Truth(value, deployment, public)
  <1> DEFINE answer == Answer(job[j].id)
             value == PortalStatus(intent, record, answer)
  <1>1. job[j].id \in DOMAIN deployment
    BY DEF PublicationInv, IdsExist, HoldsId
  <1>2. /\ answer.id = job[j].id /\ answer.state = deployment[job[j].id].state
        /\ answer.purls \in Purls /\ answer.state \in DeploymentState
    BY DEF Answer, Purls, Final, DeploymentState
  <1>3. record.kind = "portal" /\ record.id = answer.id
    BY DEF AnswerAccepted
  <1>4. record \in Record /\ intent \in Intent
    BY Basics
  <1> HIDE DEF answer
  <1>5. value \in Status
    BY <1>2, <1>4 DEF PortalStatus, Status
  <1>6. Truth(value, deployment, public)
    BY <1>1, <1>2, <1>3 DEF PortalStatus, Truth, answer
  <1>7. QED
    BY <1>5, <1>6 DEF answer

LEMMA PollEvolves ==
  ASSUME PublicationInv, NEW j \in Job, Poll(j)
  PROVE  Evolves
  <1> DEFINE answer == Answer(job[j].id)
             may == /\ record # None /\ AnswerAccepted(intent, record, answer)
                    /\ answer.state \in {"PUBLISHED", "FAILED"}
             value == PortalStatus(intent, record, answer)
             after == [job[j] EXCEPT !.pc = "persist", !.status = value]
  <1>1. job[j].pc = "poll" /\ UNCHANGED <<inputs, files, portal, history>>
    BY DEF Poll
  <1>2. IF may THEN job' = [job EXCEPT ![j] = after] ELSE End(j)
    BY DEF Poll
  <1>3. CASE may
    <2>1. value \in Status /\ Truth(value, deployment, public)
      BY <1>1, <1>3, AnswerStatus DEF Final
    <2> HIDE DEF value
    <2>2. after \in JobState /\ after.pc = "persist" /\ after.status = value
      BY <2>1, Basics DEF JobState, Staging
    <2>3. JobSteps(j) /\ job'[j] = after
      BY <1>2, <1>3, <2>2, Basics, SetStep
    <2>4. Moved(j)
      BY <1>1, <2>1, <2>2, <2>3, Basics DEF Moved, Staging, Early, HoldsId
    <2>5. KeepsRecord /\ KeepsStatus
      BY <1>1 DEF KeepsRecord, KeepsStatus, files
    <2>6. QED
      BY <1>1, <2>3, <2>4, <2>5, Basics, JobEvolves DEF files, history
  <1>4. CASE ~may
    BY <1>1, <1>2, <1>4, EndsQuietly
  <1>5. QED
    BY <1>3, <1>4

LEMMA PersistEvolves ==
  ASSUME PublicationInv, NEW j \in Job, Persist(j)
  PROVE  Evolves
  <1>1. /\ job[j].pc = "persist"
        /\ UNCHANGED <<inputs, intent, record, portal, history>>
        /\ status' = IF status = None THEN Torn ELSE status
        /\ Demand(j, status = None, "copy")
    BY DEF Persist
  <1>2. /\ KeepsRecord /\ KeepsStatus
        /\ record' \in Record \cup {None} /\ status' \in Status \cup {None, Torn}
    BY <1>1, Basics DEF KeepsRecord, KeepsStatus
  <1>3. JobSteps(j) /\ Moved(j)
    <2>1. CASE GoTo(j, "copy")
      <3>1. JobSteps(j) /\ job'[j].pc = "copy" /\ job'[j].status = job[j].status
        BY <2>1, Basics, GoToStep DEF Staging
      <3>2. Truth(job[j].status, deployment, public)
        BY <1>1 DEF PublicationInv, TruthfulStatus
      <3>3. QED
        BY <1>1, <3>1, <3>2, Basics DEF Moved, Staging, Early, HoldsId
    <2>2. CASE End(j)
      BY <2>2, Basics, EndStep
    <2>3. QED
      BY <1>1, <2>1, <2>2 DEF Demand
  <1>4. QED
    BY <1>1, <1>2, <1>3, Basics, JobEvolves DEF history

LEMMA CopyEvolves ==
  ASSUME PublicationInv, NEW j \in Job, Copy(j)
  PROVE  Evolves
  <1>1. /\ job[j].pc = "copy" /\ End(j) /\ status' = job[j].status
        /\ UNCHANGED <<inputs, intent, record, portal, history>>
    BY DEF Copy
  <1>2. Truth(job[j].status, deployment, public)
    BY <1>1 DEF PublicationInv, TruthfulStatus
  <1>3. job[j].status \in Status \cup {None, Torn}
    BY Basics DEF JobState
  <1>4. KeepsRecord /\ KeepsStatus
    BY <1>1, <1>2 DEF KeepsRecord, KeepsStatus
  <1>5. QED
    BY <1>1, <1>3, <1>4, Basics, EndEvolves DEF history

-----------------------------------------------------------------------------
(* The steps of publication, and what ends a job. *)

LEMMA PublishEvolves ==
  ASSUME PublicationInv, NEW j \in Job, Publish(j)
  PROVE  Evolves
  <1> DEFINE after == [IdleJob EXCEPT !.pc = "watch", !.id = record.id]
  <1>1. /\ job' = [job EXCEPT ![j] = after]
        /\ intent # None /\ record # None /\ record.kind = "portal"
        /\ UNCHANGED <<inputs, files, portal, history>>
    BY DEF Publish
  <1>2. record.id \in DOMAIN deployment
    BY <1>1 DEF PublicationInv, IdsExist
  <1>3. after \in JobState /\ after.pc = "watch" /\ after.id = record.id
    BY <1>2, IdleJobType, Basics DEF JobState, Publishing, IdleJob
  <1>4. JobSteps(j) /\ job'[j] = after
    BY <1>1, <1>3, Basics, SetStep
  <1>5. Moved(j)
    BY <1>1, <1>2, <1>3, <1>4 DEF Moved, Staging, Early, HoldsId
  <1>6. KeepsRecord /\ KeepsStatus
    BY <1>1 DEF KeepsRecord, KeepsStatus, files
  <1>7. QED
    BY <1>1, <1>4, <1>5, <1>6, Basics, JobEvolves DEF files, history

LEMMA WatchEvolves ==
  ASSUME PublicationInv, NEW j \in Job, Watch(j)
  PROVE  Evolves
  <1> DEFINE answer == Answer(job[j].id)
             accepted == record # None /\ AnswerAccepted(intent, record, answer)
             value == PortalStatus(intent, record, answer)
             may == accepted /\ answer.state = "PUBLISHED" /\ MayWrite(status, value)
  <1>1. /\ job[j].pc = "watch"
        /\ UNCHANGED <<inputs, intent, record, portal, history>>
        /\ status' = IF may THEN value ELSE status
        /\ Demand(j, accepted /\ answer.state = "VALIDATED", "request")
    BY DEF Watch
  <1>2. may => value \in Status /\ Truth(value, deployment, public)
    BY <1>1, AnswerStatus DEF Final
  <1> HIDE DEF may, value, accepted, answer
  <1>3. /\ KeepsRecord /\ KeepsStatus
        /\ record' \in Record \cup {None} /\ status' \in Status \cup {None, Torn}
    BY <1>1, <1>2, Basics DEF KeepsRecord, KeepsStatus
  <1>4. JobSteps(j) /\ Moved(j)
    <2>1. CASE GoTo(j, "request")
      <3>1. JobSteps(j) /\ job'[j].pc = "request" /\ job'[j].id = job[j].id
        BY <2>1, Basics, GoToStep DEF Publishing
      <3>2. job[j].id \in DOMAIN deployment
        BY <1>1 DEF PublicationInv, IdsExist, HoldsId
      <3>3. QED
        BY <1>1, <3>1, <3>2, Basics DEF Moved, Staging, Early, HoldsId
    <2>2. CASE End(j)
      BY <2>2, Basics, EndStep
    <2>3. QED
      BY <1>1, <2>1, <2>2 DEF Demand
  <1>5. QED
    BY <1>1, <1>3, <1>4, Basics, JobEvolves DEF history

\* A job that crashes, gives up or is refused leaves no trace.
LEMMA EndingEvolves ==
  ASSUME PublicationInv, NEW j \in Job, RequestRefused(j) \/ TimeOut(j) \/ Crash(j)
  PROVE  Evolves
  <1>1. CASE RequestRefused(j)
    BY <1>1, EndsQuietly DEF RequestRefused
  <1>2. CASE TimeOut(j)
    BY <1>2, EndsQuietly DEF TimeOut
  <1>3. CASE Crash(j)
    <2>1. End(j) /\ UNCHANGED <<inputs, files, portal, attempted, requested, excuse>>
      BY <1>3 DEF Crash
    <2>2. mishaps' \in 0 .. MaximumMishaps
      BY <1>3, Basics, SpendBound DEF Crash
    <2>3. KeepsRecord /\ KeepsStatus
      BY <2>1 DEF KeepsRecord, KeepsStatus, files
    <2>4. QED
      BY <2>1, <2>2, <2>3, Basics, EndEvolves DEF files
  <1>4. QED
    BY <1>1, <1>2, <1>3

-----------------------------------------------------------------------------
(* The steps of the Portal. *)

\* A deployment changes its state and nothing else.
LEMMA StateStep ==
  ASSUME PublicationInv, NEW d \in DOMAIN deployment, NEW state \in DeploymentState,
         deployment' = [deployment EXCEPT ![d].state = state]
  PROVE  /\ deployment' \in Seq(Deployment)
         /\ DOMAIN deployment' = DOMAIN deployment /\ Len(deployment') = Len(deployment)
         /\ deployment'[d].state = state
         /\ \A e \in DOMAIN deployment :
               /\ deployment'[e].name = deployment[e].name
               /\ deployment'[e].bundle = deployment[e].bundle
               /\ e # d => deployment'[e].state = deployment[e].state
  <1> DEFINE after == [deployment[d] EXCEPT !.state = state]
  <1>1. deployment \in Seq(Deployment)
    BY Basics
  <1>2. deployment[d] \in Deployment
    BY <1>1
  <1>3. after \in Deployment /\ after.state = state
        /\ after.name = deployment[d].name /\ after.bundle = deployment[d].bundle
    BY <1>2 DEF Deployment
  <1>4. deployment' = [deployment EXCEPT ![d] = after]
    OBVIOUS
  <1> HIDE DEF after
  <1>5. deployment' \in Seq(Deployment) /\ Len(deployment') = Len(deployment)
    BY <1>1, <1>3, <1>4, ExceptSeq
  <1>6. QED
    BY <1>1, <1>3, <1>4, <1>5

\* A step of the Portal alone that carries what there is keeps the invariant.
LEMMA PortalEvolves ==
  ASSUME PublicationInv, Carries, deployment' \in Seq(Deployment),
         public' \in [bundle : Bundle \cup {None}, spread : {"none", "some", "all"}],
         mishaps' \in 0 .. MaximumMishaps,
         UNCHANGED <<inputs, files, job, attempted, requested, excuse>>
  PROVE  Evolves
  <1>1. TypeOK'
    BY DEF PublicationInv, TypeOK, files, Carries
  <1>2. KeepsRecord /\ KeepsRequest /\ KeepsStatus
    BY DEF KeepsRecord, KeepsRequest, KeepsStatus, files
  <1>3. QED
    BY <1>1, <1>2 DEF Evolves, files

LEMMA ListEvolves ==
  ASSUME PublicationInv, NEW d \in DOMAIN deployment, List(d)
  PROVE  Evolves
  <1> DEFINE after == [deployment[d] EXCEPT !.listed = TRUE]
  <1>1. deployment' = [deployment EXCEPT ![d] = after]
        /\ UNCHANGED <<inputs, files, public, job, history>>
    BY DEF List
  <1>2. deployment \in Seq(Deployment) /\ deployment[d] \in Deployment
    BY Basics
  <1>3. after \in Deployment /\ after.state = deployment[d].state
        /\ after.name = deployment[d].name /\ after.bundle = deployment[d].bundle
    BY <1>2 DEF Deployment
  <1> HIDE DEF after
  <1>4. deployment' \in Seq(Deployment) /\ Len(deployment') = Len(deployment)
    BY <1>1, <1>2, <1>3, ExceptSeq
  <1>5. \A e \in DOMAIN deployment :
            /\ deployment'[e].name = deployment[e].name
            /\ deployment'[e].bundle = deployment[e].bundle
            /\ deployment'[e].state = deployment[e].state
    BY <1>1, <1>2, <1>3
  <1>6. Carries
    BY <1>1, <1>2, <1>4, <1>5 DEF Carries
  <1>7. QED
    BY <1>1, <1>4, <1>6, PortalEvolves DEF history, PublicationInv, TypeOK

\* Validation, rejection and a refused publication move what is not final.
LEMMA SettleEvolves ==
  ASSUME PublicationInv, NEW d \in DOMAIN deployment,
         NEW state \in {"VALIDATED", "FAILED"}, deployment[d].state \notin Final,
         deployment' = [deployment EXCEPT ![d].state = state],
         mishaps' \in 0 .. MaximumMishaps,
         UNCHANGED <<inputs, files, public, job, attempted, requested, excuse>>
  PROVE  Evolves
  <1>1. state \in DeploymentState /\ state # "PUBLISHED"
    BY DEF DeploymentState
  <1>2. Carries
    BY <1>1, StateStep DEF Carries
  <1>3. QED
    BY <1>1, <1>2, StateStep, PortalEvolves DEF PublicationInv, TypeOK

LEMMA ValidateEvolves ==
  ASSUME PublicationInv, NEW d \in DOMAIN deployment, Validate(d) \/ Reject(d)
  PROVE  Evolves
  <1>1. deployment[d].state \notin Final
    BY DEF Validate, Reject, Final
  <1>2. mishaps' \in 0 .. MaximumMishaps
    BY Basics, SpendBound DEF Validate, Reject, history
  <1>3. PICK state \in {"VALIDATED", "FAILED"} :
            deployment' = [deployment EXCEPT ![d].state = state]
    BY DEF Validate, Reject
  <1>4. UNCHANGED <<inputs, files, public, job, attempted, requested, excuse>>
    BY DEF Validate, Reject, history
  <1>5. QED
    BY <1>1, <1>2, <1>3, <1>4, SettleEvolves

LEMMA GoPublicEvolves ==
  ASSUME PublicationInv, NEW d \in DOMAIN deployment, GoPublic(d)
  PROVE  Evolves
  <1>1. deployment[d].state = "PUBLISHING" /\ UNCHANGED <<inputs, files, job, history>>
    BY DEF GoPublic
  <1>2. CASE public.spread = "none"
    <2>1. /\ deployment' = [deployment EXCEPT ![d].state = "PUBLISHED"]
          /\ public' = [bundle |-> deployment[d].bundle, spread |-> "some"]
      BY <1>2 DEF GoPublic
    <2>2. "PUBLISHED" \in DeploymentState
      BY DEF DeploymentState
    <2>3. deployment[d].bundle \in Bundle
      <3>1. deployment \in Seq(Deployment)
        BY Basics
      <3>2. deployment[d] \in Deployment
        BY <3>1
      <3>3. QED
        BY <3>2 DEF Deployment
    <2>4. Carries
      BY <1>1, <1>2, <2>1, <2>2, StateStep DEF Carries, Final
    <2>5. QED
      BY <1>1, <2>1, <2>2, <2>3, <2>4, StateStep, Basics, PortalEvolves DEF history
  <1>3. CASE public.spread # "none"
    <2>1. deployment' = [deployment EXCEPT ![d].state = "FAILED"] /\ UNCHANGED public
      BY <1>3 DEF GoPublic
    <2>2. QED
      BY <1>1, <2>1, Basics, SettleEvolves DEF history, Final
  <1>4. QED
    BY <1>2, <1>3

LEMMA SpreadEvolves ==
  ASSUME PublicationInv, Spread
  PROVE  Evolves
  <1>1. /\ public.spread = "some" /\ public' = [public EXCEPT !.spread = "all"]
        /\ UNCHANGED <<inputs, files, deployment, job, history>>
    BY DEF Spread
  <1>2. public \in [bundle : Bundle \cup {None}, spread : {"none", "some", "all"}]
    BY DEF PublicationInv, TypeOK
  <1>3. /\ public' \in [bundle : Bundle \cup {None}, spread : {"none", "some", "all"}]
        /\ public'.bundle = public.bundle /\ public'.spread = "all"
    BY <1>1, <1>2
  <1>4. Carries
    BY <1>1, <1>3 DEF Carries
  <1>5. QED
    BY <1>1, <1>3, <1>4, Basics, PortalEvolves DEF history

\* The request goes to the deployment of the record.
LEMMA RequestEvolves ==
  ASSUME PublicationInv, NEW j \in Job, RequestAnswered(j) \/ RequestUnclear(j)
  PROVE  Evolves
  <1>1. PICK took \in BOOLEAN : Request(j, took)
    BY DEF RequestAnswered, RequestUnclear
  <1>2. /\ job[j].pc = "request" /\ record # None /\ record.id = job[j].id
        /\ requested' = requested \cup {job[j].id}
        /\ UNCHANGED <<inputs, files, public, attempted, excuse>>
    BY <1>1 DEF Request
  <1>3. mishaps' \in 0 .. MaximumMishaps
    BY Basics, SpendBound DEF RequestAnswered, RequestUnclear
  <1>4. job[j].id \in DOMAIN deployment
    BY <1>2 DEF PublicationInv, IdsExist, HoldsId
  <1>5. \/ UNCHANGED deployment
        \/ /\ deployment[job[j].id].state = "VALIDATED"
           /\ deployment' = [deployment EXCEPT ![job[j].id].state = "PUBLISHING"]
    BY <1>1 DEF Request
  <1>6. Carries /\ deployment' \in Seq(Deployment)
    <2>1. CASE UNCHANGED deployment
      BY <1>2, <2>1, Basics, PortalCarries DEF portal
    <2>2. CASE /\ deployment[job[j].id].state = "VALIDATED"
               /\ deployment' = [deployment EXCEPT ![job[j].id].state = "PUBLISHING"]
      <3>1. "PUBLISHING" \in DeploymentState
        BY DEF DeploymentState
      <3>2. QED
        BY <1>2, <1>4, <2>2, <3>1, StateStep, ZenonT(60) DEF Carries, Final
    <2>3. QED
      BY <1>5, <2>1, <2>2
  <1>7. JobSteps(j) /\ Moved(j)
    <2> DEFINE after == [job[j] EXCEPT !.pc = "watch", !.asked = TRUE]
    <2>1. End(j) \/ job' = [job EXCEPT ![j] = after]
      BY DEF RequestAnswered, RequestUnclear
    <2>2. CASE End(j)
      BY <2>2, Basics, EndStep
    <2>3. CASE job' = [job EXCEPT ![j] = after]
      <3>1. after \in JobState /\ after.pc = "watch" /\ after.id = job[j].id
        BY Basics, ZenonT(60) DEF JobState, Publishing
      <3>2. JobSteps(j) /\ job'[j] = after
        BY <2>3, <3>1, Basics, SetStep
      <3>3. QED
        BY <1>2, <1>4, <3>1, <3>2, Basics DEF Moved, Staging, Early, HoldsId
    <2>4. QED
      BY <2>1, <2>2, <2>3
  <1>8. TypeOK'
    BY <1>2, <1>3, <1>4, <1>6, <1>7, Basics
    DEF PublicationInv, TypeOK, files, JobSteps, Carries
  <1>9. \A k \in Job : job'[k] = job[k] \/ Moved(k)
    BY <1>7 DEF JobSteps
  <1>10. QED
    BY <1>2, <1>6, <1>8, <1>9
    DEF Evolves, KeepsRecord, KeepsRequest, KeepsStatus, files

\* A lost record is an excuse.
LEMMA LoseRecordEvolves ==
  ASSUME PublicationInv, LoseRecord
  PROVE  Evolves
  <1>1. /\ record' = None /\ excuse' = excuse \cup {"lost record"}
        /\ UNCHANGED <<inputs, intent, status, portal, job, attempted, requested>>
    BY DEF LoseRecord
  <1>2. mishaps' \in 0 .. MaximumMishaps
    BY Basics, SpendBound DEF LoseRecord
  <1>3. Carries
    BY <1>1, PortalCarries
  <1>4. TypeOK'
    BY <1>1, <1>2 DEF PublicationInv, TypeOK, portal
  <1>5. QED
    BY <1>1, <1>3, <1>4 DEF Evolves, KeepsRecord, KeepsRequest, KeepsStatus

\* Stuttering is such a step.
LEMMA StutterEvolves ==
  ASSUME PublicationInv, UNCHANGED vars
  PROVE  Evolves
  <1>1. UNCHANGED <<inputs, files, portal, job, history>>
    BY DEF vars, files, portal, history
  <1>2. Carries
    BY <1>1, PortalCarries
  <1>3. QED
    BY <1>1, <1>2, Basics, PortalEvolves DEF portal, history, PublicationInv, TypeOK

-----------------------------------------------------------------------------
(* The other steps: the intent, the start of a staging, an upload, a rebuild. *)

\* An intent is written before anything else.
LEMMA WriteIntentInv ==
  ASSUME PublicationInv, WriteIntent
  PROVE  PublicationInv'
  <1>1. /\ intent = None /\ intent' = CreateIntent(inputs)
        /\ UNCHANGED <<inputs, record, status, portal, job, history>>
    BY DEF WriteIntent
  <1>2. /\ ~attempted /\ record = None /\ Len(deployment) = 0
        /\ \A j \in Job : job[j].pc = "idle"
    BY <1>1 DEF PublicationInv, NothingBefore
  <1>3. intent' \in Intent
    BY <1>1, Basics DEF CreateIntent, DeploymentName, Intent, Inputs
  <1>4. DOMAIN deployment = {}
    BY <1>2, Basics, LenProperties
  <1>5. TypeOK'
    BY <1>1, <1>3 DEF PublicationInv, TypeOK, portal, history
  <1>6. NothingBefore' /\ NamesOfIntent' /\ IdsExist' /\ RequestedIsRecord'
    BY <1>1, <1>2, <1>4
    DEF PublicationInv, NothingBefore, NamesOfIntent, IdsExist, RequestedIsRecord,
        HoldsId, Staging, portal, history
  <1>7. OneStaging' /\ FreshIsFirst' /\ UploadIsFirst'
    BY <1>1 DEF PublicationInv, OneStaging, FreshIsFirst, UploadIsFirst, Unexcused, portal, history
  <1>8. OfReviewed'
    BY <1>1, <1>2, <1>4 DEF OfReviewed, Staging, portal
  <1>9. PublishedIsPublic' /\ AdoptedIsPublic' /\ TruthfulStatus'
    BY <1>1 DEF PublicationInv, PublishedIsPublic, AdoptedIsPublic, TruthfulStatus, Truth, portal
  <1>10. QED
    BY <1>5, <1>6, <1>7, <1>8, <1>9 DEF PublicationInv

\* A staging starts from the reviewed inputs, and a fresh one before anything was uploaded.
LEMMA StageInv ==
  ASSUME PublicationInv, NEW j \in Job, Stage(j)
  PROVE  PublicationInv'
  <1>1. /\ intent # None /\ inputs.bundle = intent.bundle /\ attempted' = TRUE
        /\ UNCHANGED <<inputs, files, portal, requested>>
    BY DEF Stage, InputsMatch
  <1>2. PICK fresh \in BOOLEAN, stop \in BOOLEAN :
            /\ fresh => ~attempted
            /\ job' = [job EXCEPT ![j] =
                  [IdleJob EXCEPT !.pc = "public", !.fresh = fresh, !.stop = stop]]
    BY DEF Stage
  <1> DEFINE after == [IdleJob EXCEPT !.pc = "public", !.fresh = fresh, !.stop = stop]
  <1>3. after.pc = "public" /\ after.fresh = fresh
    BY DEF IdleJob
  <1>4. after \in JobState
    BY IdleJobType DEF JobState, Staging, IdleJob
  <1> HIDE DEF after
  <1>5. JobSteps(j) /\ job'[j].pc = "public" /\ job'[j].fresh = fresh
    BY <1>2, <1>3, <1>4, Basics, SetStep DEF after
  <1>6. /\ mishaps' \in 0 .. MaximumMishaps
        /\ excuse \subseteq excuse' /\ excuse' \subseteq excuse \cup {"overlap"}
        /\ "overlap" \notin excuse' => \A k \in Job \ {j} : job[k].pc \notin Staging
    BY Basics, SpendBound DEF Stage
  <1>a. attempted' \in BOOLEAN
    BY <1>1, Zenon
  <1>7. TypeOK'
    BY <1>1, <1>5, <1>6, <1>a DEF PublicationInv, TypeOK, files, portal, JobSteps
  <1>8. NothingBefore' /\ NamesOfIntent' /\ IdsExist' /\ RequestedIsRecord'
    BY <1>1, <1>5, <1>6
    DEF PublicationInv, NothingBefore, NamesOfIntent, IdsExist, RequestedIsRecord,
        HoldsId, files, portal, JobSteps
  <1>9. OneStaging' /\ UploadIsFirst'
    BY <1>1, <1>5, <1>6
    DEF PublicationInv, OneStaging, UploadIsFirst, Unexcused, portal, JobSteps
  <1>10. FreshIsFirst'
    <2>1. fresh => Len(deployment) = 0
      BY <1>2 DEF PublicationInv, NothingBefore
    <2>2. QED
      BY <1>1, <1>5, <1>6, <2>1 DEF PublicationInv, FreshIsFirst, portal, JobSteps
  <1>11. OfReviewed'
    BY <1>1, <1>5, <1>6 DEF PublicationInv, OfReviewed, files, portal, JobSteps
  <1>12. PublishedIsPublic' /\ AdoptedIsPublic' /\ TruthfulStatus'
    BY <1>1, <1>5
    DEF PublicationInv, PublishedIsPublic, AdoptedIsPublic, TruthfulStatus, Truth,
        files, portal, JobSteps
  <1>13. QED
    BY <1>7, <1>8, <1>9, <1>10, <1>11, <1>12 DEF PublicationInv

\* A deployment is added under the name of the intent, by the only staging if none overlap.
LEMMA UploadedInv ==
  ASSUME PublicationInv, NEW j \in Job, job[j].pc = "upload", JobSteps(j),
         Len(deployment) < MaximumUploads, deployment' = Uploaded,
         job'[j].pc \in {"save", "relookup"},
         job'[j].pc = "save" => job'[j].id = Len(deployment) + 1,
         mishaps' \in 0 .. MaximumMishaps,
         UNCHANGED <<inputs, files, public, attempted, requested, excuse>>
  PROVE  PublicationInv'
  <1> DEFINE new == [name |-> intent.name, bundle |-> inputs.bundle,
                     state |-> "PENDING", listed |-> FALSE]
  <1>1. intent # None /\ intent \in Intent /\ inputs \in Inputs /\ attempted
    BY Basics DEF PublicationInv, NothingBefore, Staging
  <1>2. new \in Deployment
    BY <1>1 DEF Deployment, Intent, Inputs, DeploymentState, Bundle
  <1>3. /\ new.name = intent.name /\ new.bundle = inputs.bundle /\ new.state = "PENDING"
        /\ deployment' = Append(deployment, new)
    BY DEF Uploaded
  <1> HIDE DEF new
  <1>4. /\ deployment' \in Seq(Deployment) /\ Len(deployment') = Len(deployment) + 1
        /\ DOMAIN deployment = 1 .. Len(deployment)
        /\ DOMAIN deployment' = 1 .. Len(deployment) + 1
        /\ Len(deployment) \in Nat
        /\ \A d \in DOMAIN deployment : deployment'[d] = deployment[d]
        /\ deployment'[Len(deployment) + 1] = new
    BY <1>2, <1>3, Basics, AppendProperties, LenProperties
  <1>5. /\ DOMAIN deployment \subseteq DOMAIN deployment'
        /\ \A d \in DOMAIN deployment' :
              \/ d \in DOMAIN deployment /\ deployment'[d] = deployment[d]
              \/ deployment'[d] = new
    BY <1>4
  <1>6. TypeOK'
    <2>1. Len(deployment') <= MaximumUploads
      BY <1>4
    <2>2. deployment' \in Seq(Deployment)
      BY <1>4
    <2>3. QED
      BY <2>1, <2>2 DEF PublicationInv, TypeOK, files, JobSteps
  <1>7. NothingBefore'
    BY <1>1 DEF NothingBefore, files
  <1>8. NamesOfIntent'
    BY <1>3, <1>5 DEF PublicationInv, NamesOfIntent, files
  <1>9. IdsExist'
    <2>1. job'[j].pc = "save" => job'[j].id \in DOMAIN deployment'
      BY <1>4
    <2>2. QED
      BY <1>5, <2>1 DEF PublicationInv, IdsExist, files, JobSteps, HoldsId
  <1>10. RequestedIsRecord'
    BY DEF PublicationInv, RequestedIsRecord, files
  <1>11. OneStaging' /\ FreshIsFirst'
    BY DEF PublicationInv, OneStaging, FreshIsFirst, JobSteps, Staging, Early
  <1>12. UploadIsFirst'
    BY <1>4 DEF PublicationInv, OneStaging, UploadIsFirst, Unexcused, JobSteps, Staging
  <1>13. OfReviewed'
    <2>1. "rebuild" \notin excuse => inputs.bundle = intent.bundle
      BY DEF PublicationInv, OfReviewed, Staging
    <2>2. QED
      BY <1>3, <1>5, <2>1 DEF PublicationInv, OfReviewed, files, JobSteps, Staging
  <1>14. PublishedIsPublic' /\ AdoptedIsPublic'
    BY <1>3, <1>5 DEF PublicationInv, PublishedIsPublic, AdoptedIsPublic, JobSteps
  <1>15. TruthfulStatus'
    <2>1. ASSUME NEW value, Truth(value, deployment, public)
          PROVE  Truth(value, deployment', public)
      BY <1>4, <1>5, <2>1 DEF Truth
    <2>2. QED
      BY <2>1 DEF PublicationInv, TruthfulStatus, files, JobSteps
  <1>16. QED
    BY <1>6, <1>7, <1>8, <1>9, <1>10, <1>11, <1>12, <1>13, <1>14, <1>15 DEF PublicationInv

LEMMA UploadInv ==
  ASSUME PublicationInv, NEW j \in Job, Upload(j)
  PROVE  PublicationInv'
  <1> DEFINE after == [job[j] EXCEPT !.pc = "save", !.id = Len(deployment) + 1]
  <1>1. /\ job[j].pc = "upload" /\ Len(deployment) < MaximumUploads
        /\ deployment' = Uploaded /\ job' = [job EXCEPT ![j] = after]
        /\ UNCHANGED <<inputs, files, public, history>>
    BY DEF Upload
  <1>2. Len(deployment) + 1 \in Id
    BY <1>1, Basics, LenProperties DEF Id
  <1>3. after \in JobState /\ after.pc = "save" /\ after.id = Len(deployment) + 1
    BY <1>2, Basics DEF JobState, Staging
  <1>4. JobSteps(j) /\ job'[j] = after
    BY <1>1, <1>3, Basics, SetStep
  <1>5. QED
    BY <1>1, <1>3, <1>4, Basics, UploadedInv DEF history

\* An upload whose answer is lost was taken or was not.
LEMMA UploadUnclearInv ==
  ASSUME PublicationInv, NEW j \in Job, UploadUnclear(j)
  PROVE  PublicationInv'
  <1>1. /\ job[j].pc = "upload" /\ GoTo(j, "relookup")
        /\ UNCHANGED <<inputs, files, public, attempted, requested, excuse>>
        /\ UNCHANGED deployment \/ (Len(deployment) < MaximumUploads /\ deployment' = Uploaded)
    BY DEF UploadUnclear
  <1>2. mishaps' \in 0 .. MaximumMishaps
    BY Basics, SpendBound DEF UploadUnclear
  <1>3. JobSteps(j) /\ job'[j].pc = "relookup"
    BY <1>1, Basics, GoToStep DEF Staging
  <1>4. CASE UNCHANGED deployment
    <2>1. Moved(j)
      BY <1>1, <1>3, Basics DEF Moved, Staging, Early, HoldsId
    <2>2. KeepsRecord /\ KeepsStatus
      BY <1>1 DEF KeepsRecord, KeepsStatus, files
    <2>3. Evolves
      BY <1>1, <1>2, <1>3, <1>4, <2>1, <2>2, Basics, JobEvolves DEF files, portal
    <2>4. QED
      BY <2>3, EvolvesInv
  <1>5. CASE Len(deployment) < MaximumUploads /\ deployment' = Uploaded
    BY <1>1, <1>2, <1>3, <1>5, UploadedInv
  <1>6. QED
    BY <1>1, <1>4, <1>5

\* A rebuild under a staging job is an excuse.
LEMMA RebuildInv ==
  ASSUME PublicationInv, Rebuild
  PROVE  PublicationInv'
  <1>1. /\ inputs' \in Supplied
        /\ UNCHANGED <<files, portal, job, attempted, requested>>
        /\ excuse \subseteq excuse' /\ excuse' \subseteq excuse \cup {"rebuild"}
        /\ "rebuild" \notin excuse' => \A j \in Job : job[j].pc \notin Staging
    BY DEF Rebuild
  <1>2. mishaps' \in 0 .. MaximumMishaps
    BY Basics, SpendBound DEF Rebuild
  <1>3. TypeOK'
    BY <1>1, <1>2 DEF PublicationInv, TypeOK, files, portal
  <1>4. NothingBefore' /\ NamesOfIntent' /\ IdsExist' /\ RequestedIsRecord'
    BY <1>1
    DEF PublicationInv, NothingBefore, NamesOfIntent, IdsExist, RequestedIsRecord, files, portal
  <1>5. OneStaging' /\ FreshIsFirst' /\ UploadIsFirst'
    BY <1>1 DEF PublicationInv, OneStaging, FreshIsFirst, UploadIsFirst, Unexcused, portal
  <1>6. OfReviewed'
    BY <1>1 DEF PublicationInv, OfReviewed, files, portal
  <1>7. PublishedIsPublic' /\ AdoptedIsPublic' /\ TruthfulStatus'
    BY <1>1
    DEF PublicationInv, PublishedIsPublic, AdoptedIsPublic, TruthfulStatus, Truth, files, portal
  <1>8. QED
    BY <1>3, <1>4, <1>5, <1>6, <1>7 DEF PublicationInv

-----------------------------------------------------------------------------
(* Every step preserves the invariant. *)
LEMMA NextInv ==
  ASSUME PublicationInv, [Next]_vars
  PROVE  PublicationInv'
  <1>1. CASE WriteIntent
    BY <1>1, WriteIntentInv
  <1>2. ASSUME NEW j \in Job, Stage(j) \/ Publish(j) \/ Work(j) \/ TimeOut(j)
        PROVE  PublicationInv'
    <2>1. CASE Stage(j)
      BY <2>1, StageInv
    <2>2. CASE Publish(j)
      BY <2>2, PublishEvolves, EvolvesInv
    <2>3. CASE TimeOut(j)
      BY <2>3, EndingEvolves, EvolvesInv
    <2>4. CASE Work(j)
      <3>1. CASE ReadPublic(j) \/ AdoptPublic(j) \/ CompleteAdoption(j) \/ ReadRecord(j)
        BY <3>1, ReadPublicEvolves, AdoptPublicEvolves, CompleteAdoptionEvolves,
           ReadRecordEvolves, EvolvesInv
      <3>2. CASE Lookup(j) \/ FindNothing(j) \/ SaveRecord(j)
        BY <3>2, LookupEvolves, FindNothingEvolves, SaveRecordEvolves, EvolvesInv
      <3>3. CASE Upload(j)
        BY <3>3, UploadInv
      <3>4. CASE Poll(j) \/ Persist(j) \/ Copy(j)
        BY <3>4, PollEvolves, PersistEvolves, CopyEvolves, EvolvesInv
      <3>5. CASE Watch(j) \/ RequestAnswered(j) \/ RequestRefused(j)
        BY <3>5, WatchEvolves, RequestEvolves, EndingEvolves, EvolvesInv
      <3>6. QED
        BY <2>4, <3>1, <3>2, <3>3, <3>4, <3>5 DEF Work
    <2>5. QED
      BY <1>2, <2>1, <2>2, <2>3, <2>4
  <1>3. CASE PortalStep
    BY <1>3, ListEvolves, ValidateEvolves, GoPublicEvolves, SpreadEvolves, EvolvesInv
    DEF PortalStep
  <1>4. ASSUME NEW j \in Job, UploadUnclear(j) \/ RequestUnclear(j) \/ Crash(j)
        PROVE  PublicationInv'
    BY <1>4, UploadUnclearInv, RequestEvolves, EndingEvolves, EvolvesInv
  <1>5. ASSUME NEW d \in DOMAIN deployment, Reject(d)
        PROVE  PublicationInv'
    BY <1>5, ValidateEvolves, EvolvesInv
  <1>6. CASE LoseRecord
    BY <1>6, LoseRecordEvolves, EvolvesInv
  <1>7. CASE Rebuild
    BY <1>7, RebuildInv
  <1>8. CASE UNCHANGED vars
    BY <1>8, StutterEvolves, EvolvesInv
  <1>9. QED
    BY <1>1, <1>2, <1>3, <1>4, <1>5, <1>6, <1>7, <1>8 DEF Next

(* The invariant holds throughout: names, ids, records, requests and statuses of a
   publication belong together whatever crashes, is lost, repeated or overlaps. *)
THEOREM PublicationInvariant == Spec => []PublicationInv
  <1>1. Init => PublicationInv
    BY InitInv
  <1>2. PublicationInv /\ [Next]_vars => PublicationInv'
    BY NextInv
  <1>3. QED
    BY <1>1, <1>2, PTL DEF Spec

(* Publication is requested of one deployment only, for any number of jobs and
   deployments, unless the record was lost. *)
THEOREM OneRequestedAlways == Spec => []OneRequested
  <1>1. PublicationInv => OneRequested
    <2>1. ASSUME RequestedIsRecord, "lost record" \notin excuse
          PROVE  Cardinality(requested) <= 1
      <3>1. CASE requested = {}
        <4>1. Cardinality(requested) = 0
          BY <3>1, FS_EmptySet, Zenon
        <4>2. QED
          BY <4>1
      <3>2. CASE requested = {record.id}
        <4>1. Cardinality(requested) = 1
          BY <3>2, FS_Singleton, Zenon
        <4>2. QED
          BY <4>1
      <3>3. QED
        BY <2>1, <3>1, <3>2 DEF RequestedIsRecord
    <2>2. QED
      BY <2>1 DEF PublicationInv, OneRequested
  <1>2. QED
    BY <1>1, PublicationInvariant, PTL

(* A bundle is uploaded at most once unless stagings overlapped or the listing lagged
   behind the recovery window: however often staging crashes, fails or is repeated. *)
THEOREM OneUploadAlways == Spec => []OneUpload
  <1>1. PublicationInv => OneUpload
    <2>1. ASSUME PublicationInv, Unexcused, NEW d \in DOMAIN deployment, NEW e \in DOMAIN deployment
          PROVE  d = e
      <3>1. deployment \in Seq(Deployment)
        BY <2>1, Basics
      <3>2. Len(deployment) <= 1
        BY <2>1 DEF PublicationInv, UploadIsFirst
      <3>3. QED
        <4>1. d \in 1 .. Len(deployment) /\ e \in 1 .. Len(deployment) /\ Len(deployment) \in Nat
          BY <3>1, LenProperties
        <4>2. QED
          BY <3>2, <4>1
    <2>2. QED
      BY <2>1 DEF OneUpload, Unexcused, PublicationInv
  <1>2. QED
    BY <1>1, PublicationInvariant, PTL

(* What the persisted status says is, and remains, the case. *)
THEOREM StatusIsTruthAlways == Spec => []StatusIsTruth
  <1>1. PublicationInv => StatusIsTruth
    BY DEF PublicationInv, TruthfulStatus, Truth, StatusIsTruth
  <1>2. QED
    BY <1>1, PublicationInvariant, PTL

(* Complete evidence means that the reviewed bundle is public, unless the inputs were
   replaced under a running staging. *)
THEOREM CompleteIsReviewedAlways == Spec => []CompleteIsReviewed
  <1>1. PublicationInv => CompleteIsReviewed
    <2>1. ASSUME PublicationInv, "rebuild" \notin excuse,
                 status \notin {None, Torn}, record # None,
                 Complete(intent, record, status, public.bundle)
          PROVE  public.bundle = intent.bundle
      <3>1. /\ status.record = record /\ status.state = "PUBLISHED"
            /\ Truth(status, deployment, public)
        BY <2>1 DEF PublicationInv, TruthfulStatus, Complete, StatusAccepted
      <3>2. CASE record.kind = "adoption"
        BY <2>1, <3>1, <3>2
        DEF PublicationInv, OfReviewed, Complete, StatusAccepted
      <3>3. CASE record.kind # "adoption"
        <4>1. /\ record.id \in DOMAIN deployment
              /\ deployment[record.id].state = "PUBLISHED"
          BY <3>1, <3>3 DEF Truth
        <4>2. public.bundle = deployment[record.id].bundle
          BY <2>1, <4>1 DEF PublicationInv, PublishedIsPublic
        <4>3. QED
          BY <2>1, <4>1, <4>2 DEF PublicationInv, OfReviewed
      <3>4. QED
        BY <3>2, <3>3
    <2>2. QED
      BY <2>1 DEF CompleteIsReviewed
  <1>2. QED
    BY <1>1, PublicationInvariant, PTL
====
