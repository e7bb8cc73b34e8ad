--------------------------- MODULE ReleaseReconciliation ---------------------------
(***************************************************************************)
(* scripts/reconcile-github-release.py and, after it,                      *)
(* scripts/verify-github-release-attestation.py: invocations on several    *)
(* machines create, resume and freeze one GitHub release.  Every call to   *)
(* GitHub is a step of its own, since other invocations, the maintainer    *)
(* and failures come between two calls.                                    *)
(*                                                                         *)
(* The bytes of an asset are named by the build that made them: builds are *)
(* meant to be reproducible, the script does not rely on it.               *)
(***************************************************************************)
EXTENDS Naturals, FiniteSets

CONSTANTS
    LastAsset,      \* the fixed assets are 1 .. LastAsset, in the order of their names
    Build,          \* the builds whose bytes an invocation may be given
    TagObject,      \* annotated tag objects the tag may name
    Promoted,       \* those with the promoted commit and message
    Invocation,
    Drafting,       \* the invocations with --draft-only
    Mishap,         \* what may go wrong: see the actions that spend a mishap
    MaximumMishaps,
    None, Partial, Torn, Foreign

Asset == 1 .. LastAsset

ASSUME AssetAssumption == LastAsset \in Nat \ {0}
ASSUME MishapAssumption == MaximumMishaps \in Nat
ASSUME PromotedAssumption == Promoted \subseteq TagObject
ASSUME MarkerAssumption ==
    /\ None \notin Build \cup TagObject \cup {Partial, Torn}
    /\ Partial \notin Build
    /\ Torn \notin TagObject
    /\ Foreign \notin Asset

VARIABLES
    release,    \* the release of the tag on GitHub
    tag,        \* the annotated tag object refs/tags/<tag> names
    enabled,    \* the repository makes published releases immutable
    proof,      \* the durable tag-binding file
    run,        \* the invocations
    attested,   \* the release attestation was verified
    mishaps,    \* mishaps spent
    edited      \* the maintainer changed the draft by hand

remote == <<release, tag, enabled>>
vars == <<release, tag, enabled, proof, run, attested, mishaps, edited>>

Name == Asset \cup {Foreign}

NoRelease == [exists |-> FALSE, draft |-> TRUE, immutable |-> FALSE, promoted |-> TRUE,
              assets |-> [n \in Name |-> None], tagged |-> None]

Step == {"idle", "policy", "tag", "lookup", "create", "created", "upload", "recheck", "retag",
         "finalize", "final", "bind", "done"}

Run == [pc : Step, build : Build, local : SUBSET Asset, expected : SUBSET Asset,
        bound : TagObject \cup {None}, todo : SUBSET Asset, uploaded : SUBSET Asset]

(* An invocation that has not begun, or ended with an error. *)
Idle(b) == [pc |-> "idle", build |-> b, local |-> {}, expected |-> {},
            bound |-> None, todo |-> {}, uploaded |-> {}]

Release == [exists : BOOLEAN, draft : BOOLEAN, immutable : BOOLEAN, promoted : BOOLEAN,
            assets : [Name -> Build \cup {None, Partial}], tagged : TagObject \cup {None}]

TypeOK ==
    /\ release \in Release
    /\ tag \in TagObject
    /\ enabled \in BOOLEAN
    /\ proof \in TagObject \cup {None, Torn}
    /\ run \in [Invocation -> Run]
    /\ attested \in BOOLEAN
    /\ mishaps \in 0 .. MaximumMishaps
    /\ edited \in BOOLEAN

Init ==
    /\ release = NoRelease
    /\ tag \in Promoted
    /\ enabled = TRUE
    /\ proof = None
    /\ run \in [Invocation -> {Idle(b) : b \in Build}]
    /\ attested = FALSE
    /\ mishaps = 0
    /\ edited = FALSE

-----------------------------------------------------------------------------
(* What the script decides about what it is shown. *)

Observed == {n \in Name : release.assets[n] # None}

(* validate_release: metadata, no unexpected asset, every asset fully uploaded. *)
ValidRelease(i, allowDraft, requireImmutable) ==
    /\ release.promoted
    /\ release.draft => allowDraft
    /\ requireImmutable => release.immutable
    /\ Observed \subseteq run[i].expected
    /\ \A n \in Observed : release.assets[n] # Partial

\* Mutant: an asset that is there is taken for the right one.
IdenticalByName(i, names) == \A n \in names : release.assets[n] \notin {None, Partial}

(* verify_remote_asset for several assets: size, digest and downloaded bytes. *)
Identical(i, names) == \A n \in names : release.assets[n] = run[i].build

(* validate_tag_binding. *)
TagMatches(i) == tag \in Promoted /\ run[i].bound \in {None, tag}

GoTo(i, pc) == run' = [run EXCEPT ![i].pc = pc]

Stop(i) == run' = [run EXCEPT ![i] = Idle(@.build)]

(* Every check of the script: go on, or end with an error. *)
Demand(i, condition, pc) == IF condition THEN GoTo(i, pc) ELSE Stop(i)

(* The missing assets are uploaded in the order of their names. *)
IsNextUpload(i, n) == n \in run[i].todo /\ \A m \in run[i].todo : n <= m

-----------------------------------------------------------------------------
(* The calls the script makes, as GitHub answers them. *)

(* gh release create --draft --verify-tag. *)
DraftCreated == [NoRelease EXCEPT !.exists = TRUE]

\* Mutant: --clobber.
AcceptsClobber(n) == release.exists /\ ~release.immutable

(* gh release upload without --clobber: a name that is taken is refused, and so
   is any upload to an immutable release. *)
Accepts(n) == release.exists /\ ~release.immutable /\ release.assets[n] = None

(* gh release edit --draft=false: the repository's policy and the tag of this moment. *)
Published ==
    IF release.draft
    THEN [release EXCEPT !.draft = FALSE, !.immutable = enabled, !.tagged = tag]
    ELSE release

-----------------------------------------------------------------------------
(* main up to reconcile: arguments, the durable proof, the local assets.  A final
   invocation is given every fixed asset; a drafting one some of them and the
   names the release may have. *)
Begin(i) ==
    /\ run[i].pc = "idle" /\ proof # Torn
    /\ \E local \in SUBSET Asset \ {{}}, expected \in SUBSET Asset \ {{}} :
        /\ i \notin Drafting => local = Asset /\ expected = local
        /\ run' = [run EXCEPT ![i] = [@ EXCEPT
                        !.pc = "policy", !.local = local, !.expected = expected,
                        !.bound = proof]]
    /\ UNCHANGED <<remote, proof, attested, mishaps, edited>>

CheckPolicy(i) ==
    /\ run[i].pc = "policy"
    /\ Demand(i, enabled, "tag")
    /\ UNCHANGED <<remote, proof, attested, mishaps, edited>>

(* The first reading of the tag, and the comparison of the asset names after it. *)
ReadTag(i) ==
    /\ run[i].pc = "tag"
    /\ IF TagMatches(i) /\ run[i].local \subseteq run[i].expected
       THEN run' = [run EXCEPT ![i].pc = "lookup", ![i].bound = tag]
       ELSE Stop(i)
    /\ UNCHANGED <<remote, proof, attested, mishaps, edited>>

(* release() found nothing ... *)
FindNone(i) ==
    /\ run[i].pc = "lookup" /\ ~release.exists
    /\ GoTo(i, "create")
    /\ UNCHANGED <<remote, proof, attested, mishaps, edited>>

(* ... so the draft is created, unless another invocation was faster. *)
Create(i) ==
    /\ run[i].pc = "create"
    /\ release' = IF release.exists THEN release ELSE DraftCreated
    /\ Demand(i, ~release.exists, "created")
    /\ UNCHANGED <<tag, enabled, proof, attested, mishaps, edited>>

(* release() found one, at once or after its creation: prove every byte that is
   there before anything is uploaded. *)
Examine(i) ==
    /\ run[i].pc \in {"lookup", "created"} /\ release.exists
    /\ LET missing == run[i].local \ Observed
           sound == /\ ValidRelease(i, TRUE, FALSE)
                    /\ Identical(i, run[i].local \cap Observed)
                    /\ missing # {} => release.draft
       IN IF sound
          THEN run' = [run EXCEPT ![i].pc = IF missing = {} THEN "recheck" ELSE "upload",
                                  ![i].todo = missing]
          ELSE Stop(i)
    /\ UNCHANGED <<remote, proof, attested, mishaps, edited>>

Upload(i) ==
    /\ run[i].pc = "upload"
    /\ \E n \in Asset :
        /\ IsNextUpload(i, n)
        /\ IF Accepts(n)
           THEN /\ release' = [release EXCEPT !.assets[n] = run[i].build]
                /\ run' = [run EXCEPT ![i].todo = @ \ {n}, ![i].uploaded = @ \cup {n},
                                      ![i].pc = IF run[i].todo = {n} THEN "recheck" ELSE @]
           ELSE UNCHANGED release /\ Stop(i)
    /\ UNCHANGED <<tag, enabled, proof, attested, mishaps, edited>>

(* The second lookup: everything supplied is there, byte for byte. *)
Recheck(i) ==
    /\ run[i].pc = "recheck"
    /\ LET complete == Observed = run[i].expected
           sound == /\ release.exists
                    /\ ValidRelease(i, TRUE, FALSE)
                    /\ run[i].local \subseteq Observed
                    /\ Identical(i, run[i].local)
                    /\ i \in Drafting => release.draft \/ (complete /\ release.immutable)
                    /\ i \notin Drafting => complete
       IN Demand(i, sound, IF i \in Drafting THEN "bind"
                           ELSE IF release.draft THEN "retag" ELSE "final")
    /\ UNCHANGED <<remote, proof, attested, mishaps, edited>>

(* The tag once more, immediately before the release is frozen. *)
Retag(i) ==
    /\ run[i].pc = "retag"
    /\ Demand(i, TagMatches(i), "finalize")
    /\ UNCHANGED <<remote, proof, attested, mishaps, edited>>

Finalize(i) ==
    /\ run[i].pc = "finalize"
    /\ release' = Published
    /\ GoTo(i, "final")
    /\ UNCHANGED <<tag, enabled, proof, attested, mishaps, edited>>

FinalCheck(i) ==
    /\ run[i].pc = "final"
    /\ LET sound == /\ release.exists
                    /\ ValidRelease(i, FALSE, TRUE)
                    /\ Observed = run[i].local
                    /\ Identical(i, run[i].local)
       IN Demand(i, sound, "bind")
    /\ UNCHANGED <<remote, proof, attested, mishaps, edited>>

\* Mutant: a proof that is there is refused even when it is the same.
BindOnce(i) ==
    /\ run[i].pc = "bind"
    /\ proof' = IF proof = None THEN run[i].bound ELSE proof
    /\ Demand(i, proof = None, "done")
    /\ UNCHANGED <<remote, attested, mishaps, edited>>

(* write_tag_binding: never replaces a proof that differs. *)
Bind(i) ==
    /\ run[i].pc = "bind"
    /\ proof' = IF proof = None THEN run[i].bound ELSE proof
    /\ Demand(i, proof \in {None, run[i].bound}, "done")
    /\ UNCHANGED <<remote, attested, mishaps, edited>>

\* Mutant: any attested tag object will do.
AttestUnchecked ==
    /\ \E i \in Invocation \ Drafting : run[i].pc = "done"
    /\ proof \in Promoted
    /\ attested' = TRUE
    /\ UNCHANGED <<remote, proof, run, mishaps, edited>>

(* verify-github-release-attestation.py, which the workflow runs after a successful
   final invocation: the attested subject is the tag object GitHub froze. *)
Attest ==
    /\ \E i \in Invocation \ Drafting : run[i].pc = "done"
    /\ proof \in Promoted
    /\ release.tagged = proof
    /\ attested' = TRUE
    /\ UNCHANGED <<remote, proof, run, mishaps, edited>>

-----------------------------------------------------------------------------
(* What comes between. *)

Spend(mishap) ==
    /\ mishap \in Mishap
    /\ mishaps < MaximumMishaps
    /\ mishaps' = mishaps + 1

(* A call fails before it has an effect, or the machine is lost. *)
Crash(i) ==
    /\ Spend("crash")
    /\ run[i].pc \notin {"idle", "done"}
    /\ Stop(i)
    /\ UNCHANGED <<remote, proof, attested, edited>>

(* A call had its effect and its answer was lost. *)
LoseAnswer(i) ==
    /\ Spend("lost answer")
    /\ \/ run[i].pc = "create" /\ ~release.exists /\ release' = DraftCreated
       \/ /\ run[i].pc = "upload"
          /\ \E n \in Asset : /\ IsNextUpload(i, n) /\ Accepts(n)
                             /\ release' = [release EXCEPT !.assets[n] = run[i].build]
       \/ run[i].pc = "finalize" /\ release' = Published
    /\ Stop(i)
    /\ UNCHANGED <<tag, enabled, proof, attested, edited>>

(* An upload broke off: GitHub keeps the asset in a state other than "uploaded". *)
BreakUpload(i) ==
    /\ Spend("broken upload")
    /\ run[i].pc = "upload"
    /\ \E n \in Asset : /\ IsNextUpload(i, n) /\ Accepts(n)
                       /\ release' = [release EXCEPT !.assets[n] = Partial]
    /\ Stop(i)
    /\ UNCHANGED <<tag, enabled, proof, attested, edited>>

(* The process ends inside write_bytes. *)
TearProof(i) ==
    /\ Spend("torn proof")
    /\ run[i].pc = "bind" /\ proof = None
    /\ proof' = Torn
    /\ Stop(i)
    /\ UNCHANGED <<remote, attested, edited>>

(* Somebody creates the tag anew.  GitHub locks the tag of an immutable release. *)
MoveTag ==
    /\ Spend("moved tag")
    /\ ~release.immutable
    /\ tag' \in TagObject \ {tag}
    /\ UNCHANGED <<release, enabled, proof, run, attested, edited>>

SwitchPolicy ==
    /\ Spend("policy")
    /\ enabled' = ~enabled
    /\ UNCHANGED <<release, tag, proof, run, attested, edited>>

(* The maintainer renames the draft, adds a file to it or removes one. *)
EditDraft ==
    /\ Spend("edit")
    /\ release.exists /\ ~release.immutable
    /\ release' \in {[release EXCEPT !.promoted = ~@]}
                        \cup {[release EXCEPT !.assets[Foreign] = b] : b \in Build}
                        \cup {[release EXCEPT !.assets[n] = None] : n \in Observed}
    /\ edited' = TRUE
    /\ UNCHANGED <<tag, enabled, proof, run, attested>>

-----------------------------------------------------------------------------
Call(i) ==
    \/ CheckPolicy(i) \/ ReadTag(i) \/ FindNone(i) \/ Create(i) \/ Examine(i) \/ Upload(i)
    \/ Recheck(i) \/ Retag(i) \/ Finalize(i) \/ FinalCheck(i) \/ Bind(i)

Next ==
    \/ \E i \in Invocation : Begin(i) \/ Call(i)
    \/ \E i \in Invocation : Crash(i) \/ LoseAnswer(i) \/ BreakUpload(i) \/ TearProof(i)
    \/ Attest
    \/ MoveTag \/ SwitchPolicy \/ EditDraft

Spec == Init /\ [][Next]_vars

(* An invocation proceeds; a final one that failed is run again, as
   docs/publishing.md:223-227 tells the maintainer to do. *)
FairSpec ==
    /\ Spec
    /\ \A i \in Invocation : WF_vars(Call(i))
    /\ \A i \in Invocation \ Drafting : WF_vars(Begin(i))

-----------------------------------------------------------------------------
(* A final invocation that reports success is right, and stays right: the release is
   frozen with exactly the bytes that it was given (reconcile, lines 401-417). *)
SuccessIsExact ==
    \A i \in Invocation \ Drafting : run[i].pc \in {"bind", "done"} =>
        /\ ~release.draft /\ release.immutable /\ release.promoted
        /\ \A n \in Asset : release.assets[n] = run[i].build
        /\ release.assets[Foreign] = None

(* What the whole chain proves, whatever the maintainer, the tag, the policy and the
   network did: an attested release is immutable, complete, of one build, and was
   frozen on the promoted tag object that the durable proof names. *)
VerifiedRelease ==
    attested =>
        /\ release.immutable
        /\ release.tagged \in Promoted /\ proof = release.tagged
        /\ \E b \in Build : \A n \in Asset : release.assets[n] = b
        /\ release.assets[Foreign] = None

(* Invocations with different bytes do not mix them into a frozen release, whatever the
   order of their uploads; only an edit by hand can (lines 350-355, 377-378). *)
FrozenFromOneBuild ==
    release.immutable /\ ~edited =>
        /\ \E b \in Build : \A n \in Asset : release.assets[n] = b
        /\ release.assets[Foreign] = None

(* "guard_uploaded=true" (line 568) is reported for an asset at most once: two jobs
   never both believe that they were the first. *)
GuardClaimedOnce ==
    ~edited => \A i, j \in Invocation :
        i # j /\ run[i].pc = "done" /\ run[j].pc = "done"
            => run[i].uploaded \cap run[j].uploaded = {}

(* What only a person can resolve. *)
Obstructed(i) ==
    \/ ~enabled
    \/ tag \notin Promoted
    \/ proof \notin {None, tag}
    \/ ~release.promoted \/ release.assets[Foreign] # None
    \/ \E n \in Asset : release.assets[n] \notin {None, run[i].build}
    \/ release.exists /\ ~release.draft /\ (~release.immutable \/ Observed # Asset)

(* A rerun completes what an interrupted invocation left ("Create or resume", line 2):
   a final invocation succeeds unless something on this list is in its way. *)
ResumedUnlessObstructed ==
    \A i \in Invocation \ Drafting : []<>(run[i].pc = "done" \/ Obstructed(i))
================================================================================
