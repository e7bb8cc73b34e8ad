--------------------------- MODULE IntegrityProvider ---------------------------
(***************************************************************************)
(* The Play Integrity attestation provider                                 *)
(* (PlayIntegrityAttestationProvider.kt): concurrent attestations share    *)
(* one prepared token provider of Google Play.  Play may declare the       *)
(* provider invalid to any request; whoever learns of it renews the        *)
(* provider under warmUpMutex, unless the generation it observed has been  *)
(* replaced meanwhile.  Requests run outside the mutex.                    *)
(*                                                                         *)
(* Each attestation of the constant set is one call of attest().  A call   *)
(* of warmUp() alone is an attestation cancelled after its warm-up.        *)
(***************************************************************************)
EXTENDS Naturals

CONSTANTS
    Attestation,     \* calls of attest()
    MaximumAttempts  \* PlayIntegrityRetryPolicy.maximumAttempts

ASSUME AttemptsAssumption == MaximumAttempts \in Nat \ {0}

VARIABLES
    prepared,    \* the adapter's flag
    generation,  \* providerGeneration
    provider,    \* the gateway's StandardIntegrityTokenProvider, 0 for null
    call,        \* each attestation's progress
    made,        \* External: token providers Play has prepared, numbered from 1
    refused      \* External: those Play has declared invalid to some request

integrityVars == <<prepared, generation, provider, call, made, refused>>

Ended == {"evidence", "failed", "exhausted"}
CallPc == {"warmUp", "holding", "preparing", "sample", "request", "requested", "resolve"}
             \cup Ended

\* after: where the call goes on once the provider it prepares is ready;
\* seen: the providers Play refused to it (0: there was none to ask).
NewCall == [pc |-> "warmUp", after |-> "sample", attempts |-> 0, observed |-> 0, using |-> 0,
            staleLeft |-> MaximumAttempts, renewed |-> FALSE, seen |-> {}]

CallState == [pc : CallPc, after : {"sample", "stale", "renewed"}, attempts : Nat,
              observed : Nat, using : Nat, staleLeft : Nat, renewed : BOOLEAN, seen : SUBSET Nat]

IntegrityTypeOK ==
    /\ prepared \in BOOLEAN
    /\ generation \in Nat
    /\ provider \in Nat
    /\ made \in Nat
    /\ refused \subseteq Nat
    /\ call \in [Attestation -> CallState]

IntegrityInit ==
    /\ prepared = FALSE
    /\ generation = 0
    /\ provider = 0
    /\ call = [a \in Attestation |-> NewCall]
    /\ made = 0
    /\ refused = {}

--------------------------------------------------------------------------------

\* Mutant: preparations are not serialized.
WarmUpMutexIgnored == TRUE

\* warmUpMutex is held across prepare and its back-off; the gateway's own mutex
\* across the call to Play.
WarmUpMutexFree == \A a \in Attestation : call[a].pc \notin {"holding", "preparing"}
GatewayMutexFree == \A a \in Attestation : call[a].pc # "preparing"

Goto(a, pc) == call' = [call EXCEPT ![a].pc = pc]

\* The call keeps the mutex and prepares a provider.
Prepare(a, after) ==
    call' = [call EXCEPT ![a].pc = "holding", ![a].after = after, ![a].attempts = 0]

\* Mutant: a transient failure is not counted.
AttemptsUncounted(a) == call[a].attempts

\* repeat(maximumAttempts) of runWithRetry.
AttemptsAfter(a) == call[a].attempts + 1

\* A transient failure, at step pc, is retried after a back-off or ends the call.
Retry(a, pc) ==
    \/ /\ AttemptsAfter(a) < MaximumAttempts
       /\ call' = [call EXCEPT ![a].pc = pc, ![a].attempts = AttemptsAfter(a)]
    \/ /\ AttemptsAfter(a) = MaximumAttempts
       /\ Goto(a, "failed")

\* Mutant: a stale observation spends the renewal.
StaleSpendsRenewal(a, observed) ==
    \/ /\ call[a].staleLeft = 0
       /\ Goto(a, "failed")
    \/ /\ call[a].staleLeft > 0
       /\ call' = [call EXCEPT ![a].pc = "request", ![a].attempts = 0, ![a].observed = observed,
                               ![a].staleLeft = @ - 1, ![a].renewed = TRUE]

\* The stale-observation branch of requestToken: the request is made again, under
\* the generation the resolution returned.
Stale(a, observed) ==
    \/ /\ call[a].staleLeft = 0
       /\ Goto(a, "failed")
    \/ /\ call[a].staleLeft > 0
       /\ call' = [call EXCEPT ![a].pc = "request", ![a].attempts = 0,
                               ![a].observed = observed, ![a].staleLeft = @ - 1]

--------------------------------------------------------------------------------

\* warmUp(): prepareLocked returns at once when prepared.
WarmUp(a) ==
    /\ call[a].pc = "warmUp"
    /\ WarmUpMutexFree
    /\ \/ prepared /\ Goto(a, "sample")
       \/ ~prepared /\ Prepare(a, "sample")
    /\ UNCHANGED <<prepared, generation, provider, made, refused>>

\* gateway.prepare() enters the gateway's mutex; a provider already there is kept.
AskProvider(a) ==
    /\ call[a].pc = "holding"
    /\ GatewayMutexFree
    /\ Goto(a, "preparing")
    /\ UNCHANGED <<prepared, generation, provider, made, refused>>

\* The provider is there: prepared, a new generation, and the call goes on.
\* After a renewal the call has spent the one it is allowed.
ProviderReady(a) ==
    /\ call[a].pc = "preparing"
    /\ provider' = IF provider # 0 THEN provider ELSE made + 1
    /\ made' = IF provider # 0 THEN made ELSE made + 1
    /\ prepared' = TRUE
    /\ generation' = generation + 1
    /\ \/ call[a].after = "sample" /\ Goto(a, "sample")
       \/ call[a].after = "stale" /\ Stale(a, generation + 1)
       \/ /\ call[a].after = "renewed"
          /\ call' = [call EXCEPT ![a].pc = "request", ![a].attempts = 0,
                                  ![a].observed = generation + 1, ![a].renewed = TRUE]
    /\ UNCHANGED refused

\* External: Play fails to prepare a provider, transiently or for good.
PrepareFails(a) ==
    /\ call[a].pc = "preparing"
    /\ provider = 0
    /\ Retry(a, "holding") \/ Goto(a, "failed")
    /\ UNCHANGED <<prepared, generation, provider, made, refused>>

\* requestToken samples the generation before it asks for a token.
SampleGeneration(a) ==
    /\ call[a].pc = "sample"
    /\ WarmUpMutexFree
    /\ call' = [call EXCEPT ![a].pc = "request", ![a].attempts = 0,
                            ![a].observed = generation]
    /\ UNCHANGED <<prepared, generation, provider, made, refused>>

\* gateway.request() reads the provider; without one it is invalid at once.
Request(a) ==
    /\ call[a].pc = "request"
    /\ GatewayMutexFree
    /\ call' = [call EXCEPT ![a].pc = IF provider = 0 THEN "resolve" ELSE "requested",
                            ![a].using = provider,
                            ![a].seen = IF provider = 0 THEN @ \cup {0} ELSE @]
    /\ UNCHANGED <<prepared, generation, provider, made, refused>>

\* External: Play answers with a token, acceptable or not, with a failure, or
\* declares the provider invalid.
RequestAnswered(a) ==
    /\ call[a].pc = "requested"
    /\ \/ Goto(a, "evidence") /\ UNCHANGED refused
       \/ Goto(a, "failed") /\ UNCHANGED refused
       \/ Retry(a, "request") /\ UNCHANGED refused
       \/ /\ call' = [call EXCEPT ![a].pc = "resolve", ![a].seen = @ \cup {call[a].using}]
          /\ refused' = refused \cup {call[a].using}
    /\ UNCHANGED <<prepared, generation, provider, made>>

\* Mutant: whoever is refused takes the current provider for the refused one.
ObservationTrusted(a) == FALSE

\* providerGeneration != observedGeneration
ObservationStale(a) == generation # call[a].observed

\* gateway.invalidate()
ProviderDiscarded == 0

\* resolveInvalidProvider, up to the preparation of a provider.
ResolveInvalid(a) ==
    /\ call[a].pc = "resolve"
    /\ WarmUpMutexFree
    /\ \/ /\ ~prepared
          /\ Prepare(a, "stale")
          /\ UNCHANGED <<prepared, provider>>
       \/ /\ prepared /\ ObservationStale(a)
          /\ Stale(a, generation)
          /\ UNCHANGED <<prepared, provider>>
       \/ /\ prepared /\ ~ObservationStale(a) /\ call[a].renewed
          /\ Goto(a, "exhausted")
          /\ UNCHANGED <<prepared, provider>>
       \/ /\ prepared /\ ~ObservationStale(a) /\ ~call[a].renewed
          /\ provider' = ProviderDiscarded
          /\ prepared' = FALSE
          /\ Prepare(a, "renewed")
    /\ UNCHANGED <<generation, made, refused>>

\* The calling coroutine is cancelled at a suspension point and releases its locks.
Cancel(a) ==
    /\ call[a].pc \notin Ended
    /\ Goto(a, "failed")
    /\ UNCHANGED <<prepared, generation, provider, made, refused>>

AttestationStep(a) ==
    \/ WarmUp(a) \/ AskProvider(a) \/ ProviderReady(a) \/ PrepareFails(a)
    \/ SampleGeneration(a) \/ Request(a) \/ RequestAnswered(a) \/ ResolveInvalid(a)

IntegrityNext == \E a \in Attestation : AttestationStep(a) \/ Cancel(a)

IntegritySpec == IntegrityInit /\ [][IntegrityNext]_integrityVars

\* Kotlin's mutexes are fair, coroutines run on, and Play answers every task.
IntegrityFairness == \A a \in Attestation : SF_integrityVars(AttestationStep(a))

IntegrityFairSpec == IntegritySpec /\ IntegrityFairness

--------------------------------------------------------------------------------
(* Properties. *)

\* The generation that attestations compare names the provider their requests use:
\* a refusal of one generation is a refusal of exactly that provider.
GenerationNamesProvider ==
    /\ generation = made
    /\ prepared => provider = generation
    /\ ~prepared => provider = 0

\* A provider is given up only after Play declared it invalid: refusals that
\* arrive late, from attestations that used an earlier one, do not cost a
\* working provider (resolveInvalidProvider's comparison of generations).
OnlyRefusedReplaced == (1 .. made) \ {provider} \subseteq refused

\* An attestation gives up for want of renewals only if the provider it first
\* renewed away and the one it got instead were both refused to it: "a stale
\* observation does not spend this request's one real provider renewal".
ExhaustedSawTwo ==
    \A a \in Attestation : call[a].pc = "exhausted"
        => \E p, q \in call[a].seen \ {0} : p # q

\* Every attestation ends, whatever Play answers and the others do.
AttestationsEnd == \A a \in Attestation : <>(call[a].pc \in Ended)

--------------------------------------------------------------------------------
(* The inductive invariant behind them. *)

Holds(a) == call[a].pc \in {"holding", "preparing"}

\* One call at a time prepares a provider, and only when there is none.
HolderAlone ==
    \A a \in Attestation : Holds(a) => ~prepared /\ \A b \in Attestation : Holds(b) => a = b

PreparedHasProvider == prepared => provider # 0

Asking(a) == call[a].pc \in {"request", "requested", "resolve"}

\* A request uses the provider of the generation it observed, or a later one; a
\* request that found none was made while the observed generation was going.
UsingObserved ==
    \A a \in Attestation :
        /\ Asking(a) => call[a].observed <= generation
        /\ call[a].pc = "requested" => call[a].using \in call[a].observed .. generation
                                       /\ call[a].using # 0
        /\ call[a].pc = "resolve" /\ call[a].using # 0
            => /\ call[a].using \in call[a].observed .. generation
               /\ call[a].using \in refused \cap call[a].seen
        /\ call[a].pc = "resolve" /\ call[a].using = 0
            => ~prepared \/ call[a].observed < generation

\* A call that renewed a provider was refused one of an earlier generation.
RenewedSawRefusal ==
    \A a \in Attestation :
        /\ call[a].renewed => \E p \in call[a].seen : 0 < p /\ p < call[a].observed
        /\ Holds(a) /\ call[a].after = "renewed"
            => \E p \in call[a].seen : 0 < p /\ p <= generation

IntegrityInv ==
    /\ IntegrityTypeOK
    /\ HolderAlone
    /\ PreparedHasProvider
    /\ UsingObserved
    /\ RenewedSawRefusal
    /\ GenerationNamesProvider
    /\ OnlyRefusedReplaced
    /\ ExhaustedSawTwo
================================================================================
