------------------------------ MODULE PromotionReport ------------------------------
(***************************************************************************)
(* scripts/verify-release-promotion.py: when a cross-repository conformance *)
(* report lets a release of this repository be promoted.                   *)
(*                                                                         *)
(* A report stands for its digest; times are the verifier's clock.  The    *)
(* syntax of identifiers and digests is left out.                          *)
(***************************************************************************)
EXTENDS Integers, Sequences

CONSTANT MaximumAge      \* seven days, in ticks

ASSUME AgeAssumption == MaximumAge \in Nat

RepositoryId == {"core", "javascript", "ios", "android", "react_native"}

LocalDomain == {"local_source", "local_promotion", "local_release"}
PromotionDomain == {"live_sdk_conformance", "physical_devices", "live_provider",
                    "cloud_deployments", "operational_resilience", "supply_chain"}
PublicationDomain == {"public_tags", "public_registries"}
Domain == LocalDomain \cup PromotionDomain \cup PublicationDomain
RequiredDomain == {"local_source", "local_promotion"} \cup PromotionDomain
UnverifiedDomain == {"local_release"} \cup PublicationDomain

(* The dispatched coordinates agree with each other. *)
DispatchAccepted(dispatch) ==
    /\ dispatch.repository \in RepositoryId \ {"core"}
    /\ dispatch.workflowCommit = dispatch.commit
    /\ dispatch.tag = <<"v", dispatch.version>>

(* validate_coordinate, of each of the five repositories once; this one's is the
   dispatched one. *)
RepositoriesAccepted(repositories, dispatch) ==
    /\ Len(repositories) = 5
    /\ {repositories[i].id : i \in DOMAIN repositories} = RepositoryId
    /\ \A i \in DOMAIN repositories :
          repositories[i].tag = <<"v", repositories[i].version>>
    /\ \A i \in DOMAIN repositories :
          /\ repositories[i].id = dispatch.repository =>
                repositories[i] = [id |-> dispatch.repository, commit |-> dispatch.commit,
                                   version |-> dispatch.version, tag |-> dispatch.tag]
          /\ repositories[i].id = "core" => repositories[i].tag = dispatch.coreTag

(* validate_contract: released within the last seven days, by the dispatched core
   release and image. *)
ContractAccepted(contract, dispatch, now) ==
    /\ contract.status = "released"
    /\ contract.coreTag = dispatch.coreTag
    /\ contract.image = dispatch.image
    /\ contract.released <= now
    /\ now - contract.released <= MaximumAge

\* Mutant: the window may begin before the contract's release.
WindowBeforeRelease(window, released, now) ==
    /\ window.started < window.finished
    /\ window.finished <= now
    /\ now - window.finished <= MaximumAge
    /\ window.finished - window.started <= MaximumAge

(* validate_window. *)
WindowAccepted(window, released, now) ==
    /\ released <= window.started
    /\ window.started < window.finished
    /\ window.finished <= now
    /\ now - window.finished <= MaximumAge
    /\ window.finished - window.started <= MaximumAge

Unmeasured(required, status) ==
    [required |-> required, status |-> status, started |-> 0, finished |-> 0, image |-> "none"]

(* validate_domains: the eleven domains; those that carry evidence were measured on the
   dispatched image, and the window is exactly their hull. *)
DomainsAccepted(domains, window, image) ==
    /\ DOMAIN domains = Domain
    /\ \A d \in RequiredDomain \ PromotionDomain : domains[d] = Unmeasured(TRUE, "passed")
    /\ \A d \in UnverifiedDomain : domains[d] = Unmeasured(FALSE, "unverified")
    /\ \A d \in PromotionDomain :
          /\ domains[d].required /\ domains[d].status = "passed"
          /\ domains[d].image = image
          /\ window.started <= domains[d].started
          /\ domains[d].started < domains[d].finished
          /\ domains[d].finished <= window.finished
    /\ \E d \in PromotionDomain : domains[d].started = window.started
    /\ \E d \in PromotionDomain : domains[d].finished = window.finished

(* validate_checks: every required domain has a required check, and all its checks
   passed; nothing is claimed of the others. *)
ChecksAccepted(checks) ==
    /\ Len(checks) \in 1 .. 64
    /\ \A i, j \in DOMAIN checks : checks[i].id = checks[j].id => i = j
    /\ \A i \in DOMAIN checks :
          /\ checks[i].domain \in Domain
          /\ IF checks[i].domain \in RequiredDomain
             THEN checks[i].status = "passed"
             ELSE ~checks[i].required /\ checks[i].status = "unverified"
    /\ RequiredDomain =
          {checks[i].domain : i \in {k \in DOMAIN checks : checks[k].required}} \cap RequiredDomain

(* The report's own verdict: ready for promotion, not yet for release. *)
VerdictAccepted(report) ==
    /\ report.scope = "promotion" /\ report.verdict = "passed"
    /\ report.conforms /\ report.promotionReady /\ ~report.releaseReady

(* verify, from the loaded report on. *)
ReportAccepted(report, dispatch, now) ==
    /\ VerdictAccepted(report)
    /\ ContractAccepted(report.contract, dispatch, now)
    /\ RepositoriesAccepted(report.repositories, dispatch)
    /\ WindowAccepted(report.window, report.contract.released, now)
    /\ DomainsAccepted(report.domains, report.window, dispatch.image)
    /\ ChecksAccepted(report.checks)
================================================================================
