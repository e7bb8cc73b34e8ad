------------------------ MODULE IntegrityProviderProofs ------------------------
(***************************************************************************)
(* Proofs about IntegrityProvider for any number of attestations and any   *)
(* retry policy: IntegrityInv is inductive, and with it no working         *)
(* provider is ever given up.                                              *)
(***************************************************************************)
EXTENDS IntegrityProvider, TLAPS

USE AttemptsAssumption DEF Ended, CallPc, Holds, Asking

\* The initial state satisfies the invariant.
LEMMA IntegrityInitInv ==
  ASSUME IntegrityInit
  PROVE  IntegrityInv
  <1>1. NewCall \in CallState
    BY DEF NewCall, CallState
  <1>2. IntegrityTypeOK
    BY <1>1 DEF IntegrityInit, IntegrityTypeOK
  <1>3. HolderAlone /\ PreparedHasProvider /\ GenerationNamesProvider
    BY DEF IntegrityInit, NewCall, HolderAlone, PreparedHasProvider, GenerationNamesProvider
  <1>4. UsingObserved /\ RenewedSawRefusal /\ ExhaustedSawTwo
    BY DEF IntegrityInit, NewCall, UsingObserved, RenewedSawRefusal, ExhaustedSawTwo
  <1>5. OnlyRefusedReplaced
    BY DEF IntegrityInit, OnlyRefusedReplaced
  <1>6. QED
    BY <1>2, <1>3, <1>4, <1>5 DEF IntegrityInv

\* WarmUp preserves the invariant.
LEMMA WarmUpInv ==
  ASSUME IntegrityInv, NEW a \in Attestation, WarmUp(a)
  PROVE  IntegrityInv'
  <1> USE DEF WarmUp, WarmUpMutexFree, Prepare, Goto
  <1>0. IntegrityTypeOK /\ HolderAlone /\ PreparedHasProvider /\ UsingObserved
        /\ RenewedSawRefusal /\ GenerationNamesProvider /\ OnlyRefusedReplaced /\ ExhaustedSawTwo
    BY DEF IntegrityInv
  <1>1. IntegrityTypeOK'
    BY <1>0 DEF IntegrityTypeOK, CallState
  <1>2. HolderAlone'
    BY <1>0 DEF IntegrityTypeOK, HolderAlone, CallState
  <1>3. PreparedHasProvider'
    BY <1>0 DEF IntegrityTypeOK, PreparedHasProvider, HolderAlone, CallState
  <1>4. UsingObserved'
    BY <1>0 DEF IntegrityTypeOK, UsingObserved, HolderAlone, PreparedHasProvider, GenerationNamesProvider, CallState
  <1>5. RenewedSawRefusal'
    BY <1>0 DEF IntegrityTypeOK, RenewedSawRefusal, UsingObserved, HolderAlone, CallState
  <1>6. GenerationNamesProvider'
    BY <1>0 DEF IntegrityTypeOK, GenerationNamesProvider, HolderAlone, CallState
  <1>7. OnlyRefusedReplaced'
    BY <1>0 DEF IntegrityTypeOK, OnlyRefusedReplaced, GenerationNamesProvider, UsingObserved, HolderAlone, PreparedHasProvider, CallState
  <1>8. ExhaustedSawTwo'
    BY <1>0 DEF IntegrityTypeOK, ExhaustedSawTwo, UsingObserved, RenewedSawRefusal, CallState
  <1>9. QED
    BY <1>1, <1>2, <1>3, <1>4, <1>5, <1>6, <1>7, <1>8 DEF IntegrityInv

\* AskProvider preserves the invariant.
LEMMA AskProviderInv ==
  ASSUME IntegrityInv, NEW a \in Attestation, AskProvider(a)
  PROVE  IntegrityInv'
  <1> USE DEF AskProvider, GatewayMutexFree, Goto
  <1>0. IntegrityTypeOK /\ HolderAlone /\ PreparedHasProvider /\ UsingObserved
        /\ RenewedSawRefusal /\ GenerationNamesProvider /\ OnlyRefusedReplaced /\ ExhaustedSawTwo
    BY DEF IntegrityInv
  <1>1. IntegrityTypeOK'
    BY <1>0 DEF IntegrityTypeOK, CallState
  <1>2. HolderAlone'
    BY <1>0 DEF IntegrityTypeOK, HolderAlone, CallState
  <1>3. PreparedHasProvider'
    BY <1>0 DEF IntegrityTypeOK, PreparedHasProvider, HolderAlone, CallState
  <1>4. UsingObserved'
    BY <1>0 DEF IntegrityTypeOK, UsingObserved, HolderAlone, PreparedHasProvider, GenerationNamesProvider, CallState
  <1>5. RenewedSawRefusal'
    BY <1>0 DEF IntegrityTypeOK, RenewedSawRefusal, UsingObserved, HolderAlone, CallState
  <1>6. GenerationNamesProvider'
    BY <1>0 DEF IntegrityTypeOK, GenerationNamesProvider, HolderAlone, CallState
  <1>7. OnlyRefusedReplaced'
    BY <1>0 DEF IntegrityTypeOK, OnlyRefusedReplaced, GenerationNamesProvider, UsingObserved, HolderAlone, PreparedHasProvider, CallState
  <1>8. ExhaustedSawTwo'
    BY <1>0 DEF IntegrityTypeOK, ExhaustedSawTwo, UsingObserved, RenewedSawRefusal, CallState
  <1>9. QED
    BY <1>1, <1>2, <1>3, <1>4, <1>5, <1>6, <1>7, <1>8 DEF IntegrityInv

\* ProviderReady preserves the invariant.
LEMMA ProviderReadyInv ==
  ASSUME IntegrityInv, NEW a \in Attestation, ProviderReady(a)
  PROVE  IntegrityInv'
  <1> USE DEF ProviderReady, Goto, Stale
  <1>0. IntegrityTypeOK /\ HolderAlone /\ PreparedHasProvider /\ UsingObserved
        /\ RenewedSawRefusal /\ GenerationNamesProvider /\ OnlyRefusedReplaced /\ ExhaustedSawTwo
    BY DEF IntegrityInv
  <1>1. IntegrityTypeOK'
    BY <1>0 DEF IntegrityTypeOK, CallState
  <1>2. HolderAlone'
    BY <1>0 DEF IntegrityTypeOK, HolderAlone, CallState
  <1>3. PreparedHasProvider'
    BY <1>0 DEF IntegrityTypeOK, PreparedHasProvider, HolderAlone, CallState
  <1>4. UsingObserved'
    BY <1>0 DEF IntegrityTypeOK, UsingObserved, HolderAlone, PreparedHasProvider, GenerationNamesProvider, CallState
  <1>5. RenewedSawRefusal'
    BY <1>0 DEF IntegrityTypeOK, RenewedSawRefusal, UsingObserved, HolderAlone, CallState
  <1>6. GenerationNamesProvider'
    BY <1>0 DEF IntegrityTypeOK, GenerationNamesProvider, HolderAlone, CallState
  <1>7. OnlyRefusedReplaced'
    BY <1>0, SMTT(30) DEF IntegrityTypeOK, OnlyRefusedReplaced, GenerationNamesProvider, UsingObserved, HolderAlone, PreparedHasProvider, CallState
  <1>8. ExhaustedSawTwo'
    BY <1>0 DEF IntegrityTypeOK, ExhaustedSawTwo, UsingObserved, RenewedSawRefusal, CallState
  <1>9. QED
    BY <1>1, <1>2, <1>3, <1>4, <1>5, <1>6, <1>7, <1>8 DEF IntegrityInv

\* PrepareFails preserves the invariant.
LEMMA PrepareFailsInv ==
  ASSUME IntegrityInv, NEW a \in Attestation, PrepareFails(a)
  PROVE  IntegrityInv'
  <1> USE DEF PrepareFails, Retry, AttemptsAfter, Goto
  <1>0. IntegrityTypeOK /\ HolderAlone /\ PreparedHasProvider /\ UsingObserved
        /\ RenewedSawRefusal /\ GenerationNamesProvider /\ OnlyRefusedReplaced /\ ExhaustedSawTwo
    BY DEF IntegrityInv
  <1>1. IntegrityTypeOK'
    BY <1>0 DEF IntegrityTypeOK, CallState
  <1>2. HolderAlone'
    BY <1>0 DEF IntegrityTypeOK, HolderAlone, CallState
  <1>3. PreparedHasProvider'
    BY <1>0 DEF IntegrityTypeOK, PreparedHasProvider, HolderAlone, CallState
  <1>4. UsingObserved'
    BY <1>0 DEF IntegrityTypeOK, UsingObserved, HolderAlone, PreparedHasProvider, GenerationNamesProvider, CallState
  <1>5. RenewedSawRefusal'
    BY <1>0 DEF IntegrityTypeOK, RenewedSawRefusal, UsingObserved, HolderAlone, CallState
  <1>6. GenerationNamesProvider'
    BY <1>0 DEF IntegrityTypeOK, GenerationNamesProvider, HolderAlone, CallState
  <1>7. OnlyRefusedReplaced'
    BY <1>0 DEF IntegrityTypeOK, OnlyRefusedReplaced, GenerationNamesProvider, UsingObserved, HolderAlone, PreparedHasProvider, CallState
  <1>8. ExhaustedSawTwo'
    BY <1>0 DEF IntegrityTypeOK, ExhaustedSawTwo, UsingObserved, RenewedSawRefusal, CallState
  <1>9. QED
    BY <1>1, <1>2, <1>3, <1>4, <1>5, <1>6, <1>7, <1>8 DEF IntegrityInv

\* SampleGeneration preserves the invariant.
LEMMA SampleGenerationInv ==
  ASSUME IntegrityInv, NEW a \in Attestation, SampleGeneration(a)
  PROVE  IntegrityInv'
  <1> USE DEF SampleGeneration, WarmUpMutexFree
  <1>0. IntegrityTypeOK /\ HolderAlone /\ PreparedHasProvider /\ UsingObserved
        /\ RenewedSawRefusal /\ GenerationNamesProvider /\ OnlyRefusedReplaced /\ ExhaustedSawTwo
    BY DEF IntegrityInv
  <1>1. IntegrityTypeOK'
    <2>1. call[a] \in CallState
      BY <1>0 DEF IntegrityTypeOK
    <2>2. call'[a] \in CallState
      BY <1>0, <2>1 DEF IntegrityTypeOK, CallState
    <2>3. \A b \in Attestation : b # a => call'[b] = call[b]
      BY <1>0 DEF IntegrityTypeOK
    <2>4. call' \in [Attestation -> CallState]
      BY <1>0, <2>2, <2>3 DEF IntegrityTypeOK
    <2>5. prepared' \in BOOLEAN
      BY <1>0 DEF IntegrityTypeOK
    <2>6. generation' \in Nat /\ provider' \in Nat /\ made' \in Nat /\ refused' \subseteq Nat
      BY <1>0 DEF IntegrityTypeOK
    <2>7. QED
      BY <2>4, <2>5, <2>6 DEF IntegrityTypeOK
  <1>2. HolderAlone'
    BY <1>0 DEF IntegrityTypeOK, HolderAlone, CallState
  <1>3. PreparedHasProvider'
    BY <1>0 DEF IntegrityTypeOK, PreparedHasProvider, HolderAlone, CallState
  <1>4. UsingObserved'
    BY <1>0 DEF IntegrityTypeOK, UsingObserved, HolderAlone, PreparedHasProvider, GenerationNamesProvider, CallState
  <1>5. RenewedSawRefusal'
    BY <1>0 DEF IntegrityTypeOK, RenewedSawRefusal, UsingObserved, HolderAlone, CallState
  <1>6. GenerationNamesProvider'
    BY <1>0 DEF IntegrityTypeOK, GenerationNamesProvider, HolderAlone, CallState
  <1>7. OnlyRefusedReplaced'
    BY <1>0 DEF IntegrityTypeOK, OnlyRefusedReplaced, GenerationNamesProvider, UsingObserved, HolderAlone, PreparedHasProvider, CallState
  <1>8. ExhaustedSawTwo'
    BY <1>0 DEF IntegrityTypeOK, ExhaustedSawTwo, UsingObserved, RenewedSawRefusal, CallState
  <1>9. QED
    BY <1>1, <1>2, <1>3, <1>4, <1>5, <1>6, <1>7, <1>8 DEF IntegrityInv

\* Request preserves the invariant.
LEMMA RequestInv ==
  ASSUME IntegrityInv, NEW a \in Attestation, Request(a)
  PROVE  IntegrityInv'
  <1> USE DEF Request, GatewayMutexFree
  <1>0. IntegrityTypeOK /\ HolderAlone /\ PreparedHasProvider /\ UsingObserved
        /\ RenewedSawRefusal /\ GenerationNamesProvider /\ OnlyRefusedReplaced /\ ExhaustedSawTwo
    BY DEF IntegrityInv
  <1>1. IntegrityTypeOK'
    <2>1. call[a] \in CallState
      BY <1>0 DEF IntegrityTypeOK
    <2>2. call'[a] \in CallState
      BY <1>0, <2>1 DEF IntegrityTypeOK, CallState
    <2>3. \A b \in Attestation : b # a => call'[b] = call[b]
      BY <1>0 DEF IntegrityTypeOK
    <2>4. call' \in [Attestation -> CallState]
      BY <1>0, <2>2, <2>3 DEF IntegrityTypeOK
    <2>5. prepared' \in BOOLEAN
      BY <1>0 DEF IntegrityTypeOK
    <2>6. generation' \in Nat /\ provider' \in Nat /\ made' \in Nat /\ refused' \subseteq Nat
      BY <1>0 DEF IntegrityTypeOK
    <2>7. QED
      BY <2>4, <2>5, <2>6 DEF IntegrityTypeOK
  <1>2. HolderAlone'
    BY <1>0 DEF IntegrityTypeOK, HolderAlone, CallState
  <1>3. PreparedHasProvider'
    BY <1>0 DEF IntegrityTypeOK, PreparedHasProvider, HolderAlone, CallState
  <1>4. UsingObserved'
    BY <1>0 DEF IntegrityTypeOK, UsingObserved, HolderAlone, PreparedHasProvider, GenerationNamesProvider, CallState
  <1>5. RenewedSawRefusal'
    BY <1>0 DEF IntegrityTypeOK, RenewedSawRefusal, UsingObserved, HolderAlone, CallState
  <1>6. GenerationNamesProvider'
    BY <1>0 DEF IntegrityTypeOK, GenerationNamesProvider, HolderAlone, CallState
  <1>7. OnlyRefusedReplaced'
    BY <1>0 DEF IntegrityTypeOK, OnlyRefusedReplaced, GenerationNamesProvider, UsingObserved, HolderAlone, PreparedHasProvider, CallState
  <1>8. ExhaustedSawTwo'
    BY <1>0 DEF IntegrityTypeOK, ExhaustedSawTwo, UsingObserved, RenewedSawRefusal, CallState
  <1>9. QED
    BY <1>1, <1>2, <1>3, <1>4, <1>5, <1>6, <1>7, <1>8 DEF IntegrityInv

\* RequestAnswered preserves the invariant.
LEMMA RequestAnsweredInv ==
  ASSUME IntegrityInv, NEW a \in Attestation, RequestAnswered(a)
  PROVE  IntegrityInv'
  <1> USE DEF RequestAnswered, Retry, AttemptsAfter, Goto
  <1>0. IntegrityTypeOK /\ HolderAlone /\ PreparedHasProvider /\ UsingObserved
        /\ RenewedSawRefusal /\ GenerationNamesProvider /\ OnlyRefusedReplaced /\ ExhaustedSawTwo
    BY DEF IntegrityInv
  <1>1. IntegrityTypeOK'
    BY <1>0 DEF IntegrityTypeOK, CallState
  <1>2. HolderAlone'
    BY <1>0 DEF IntegrityTypeOK, HolderAlone, CallState
  <1>3. PreparedHasProvider'
    BY <1>0 DEF IntegrityTypeOK, PreparedHasProvider, HolderAlone, CallState
  <1>4. UsingObserved'
    BY <1>0 DEF IntegrityTypeOK, UsingObserved, HolderAlone, PreparedHasProvider, GenerationNamesProvider, CallState
  <1>5. RenewedSawRefusal'
    BY <1>0 DEF IntegrityTypeOK, RenewedSawRefusal, UsingObserved, HolderAlone, CallState
  <1>6. GenerationNamesProvider'
    BY <1>0 DEF IntegrityTypeOK, GenerationNamesProvider, HolderAlone, CallState
  <1>7. OnlyRefusedReplaced'
    BY <1>0 DEF IntegrityTypeOK, OnlyRefusedReplaced, GenerationNamesProvider, UsingObserved, HolderAlone, PreparedHasProvider, CallState
  <1>8. ExhaustedSawTwo'
    <2>1. call'[a].pc # "exhausted"
      BY <1>0 DEF IntegrityTypeOK, CallState
    <2>2. \A b \in Attestation : b # a => call'[b] = call[b]
      BY <1>0 DEF IntegrityTypeOK
    <2>3. QED
      BY <1>0, <2>1, <2>2 DEF ExhaustedSawTwo
  <1>9. QED
    BY <1>1, <1>2, <1>3, <1>4, <1>5, <1>6, <1>7, <1>8 DEF IntegrityInv

\* ResolveInvalid preserves the invariant.
LEMMA ResolveInvalidInv ==
  ASSUME IntegrityInv, NEW a \in Attestation, ResolveInvalid(a)
  PROVE  IntegrityInv'
  <1> USE DEF ResolveInvalid, WarmUpMutexFree, Prepare, ObservationStale, Stale, Goto, ProviderDiscarded
  <1>0. IntegrityTypeOK /\ HolderAlone /\ PreparedHasProvider /\ UsingObserved
        /\ RenewedSawRefusal /\ GenerationNamesProvider /\ OnlyRefusedReplaced /\ ExhaustedSawTwo
    BY DEF IntegrityInv
  <1>1. IntegrityTypeOK'
    <2>1. call[a] \in CallState
      BY <1>0 DEF IntegrityTypeOK
    <2>2. call'[a] \in CallState
      BY <1>0, <2>1 DEF IntegrityTypeOK, CallState
    <2>3. \A b \in Attestation : b # a => call'[b] = call[b]
      BY <1>0 DEF IntegrityTypeOK
    <2>4. call' \in [Attestation -> CallState]
      BY <1>0, <2>2, <2>3 DEF IntegrityTypeOK
    <2>5. prepared' \in BOOLEAN
      BY <1>0 DEF IntegrityTypeOK
    <2>6. generation' \in Nat /\ provider' \in Nat /\ made' \in Nat /\ refused' \subseteq Nat
      BY <1>0 DEF IntegrityTypeOK
    <2>7. QED
      BY <2>4, <2>5, <2>6 DEF IntegrityTypeOK
  <1>2. HolderAlone'
    BY <1>0 DEF IntegrityTypeOK, HolderAlone, CallState
  <1>3. PreparedHasProvider'
    BY <1>0 DEF IntegrityTypeOK, PreparedHasProvider, HolderAlone, CallState
  <1>4. UsingObserved'
    BY <1>0 DEF IntegrityTypeOK, UsingObserved, HolderAlone, PreparedHasProvider, GenerationNamesProvider, CallState
  <1>5. RenewedSawRefusal'
    BY <1>0 DEF IntegrityTypeOK, RenewedSawRefusal, UsingObserved, HolderAlone, CallState
  <1>6. GenerationNamesProvider'
    BY <1>0 DEF IntegrityTypeOK, GenerationNamesProvider, HolderAlone, CallState
  <1>7. OnlyRefusedReplaced'
    BY <1>0 DEF IntegrityTypeOK, OnlyRefusedReplaced, GenerationNamesProvider, UsingObserved, HolderAlone, PreparedHasProvider, CallState
  <1>8. ExhaustedSawTwo'
    BY <1>0 DEF IntegrityTypeOK, ExhaustedSawTwo, UsingObserved, RenewedSawRefusal, CallState
  <1>9. QED
    BY <1>1, <1>2, <1>3, <1>4, <1>5, <1>6, <1>7, <1>8 DEF IntegrityInv

\* Cancel preserves the invariant.
LEMMA CancelInv ==
  ASSUME IntegrityInv, NEW a \in Attestation, Cancel(a)
  PROVE  IntegrityInv'
  <1> USE DEF Cancel, Goto
  <1>0. IntegrityTypeOK /\ HolderAlone /\ PreparedHasProvider /\ UsingObserved
        /\ RenewedSawRefusal /\ GenerationNamesProvider /\ OnlyRefusedReplaced /\ ExhaustedSawTwo
    BY DEF IntegrityInv
  <1>1. IntegrityTypeOK'
    BY <1>0 DEF IntegrityTypeOK, CallState
  <1>2. HolderAlone'
    BY <1>0 DEF IntegrityTypeOK, HolderAlone, CallState
  <1>3. PreparedHasProvider'
    BY <1>0 DEF IntegrityTypeOK, PreparedHasProvider, HolderAlone, CallState
  <1>4. UsingObserved'
    BY <1>0 DEF IntegrityTypeOK, UsingObserved, HolderAlone, PreparedHasProvider, GenerationNamesProvider, CallState
  <1>5. RenewedSawRefusal'
    BY <1>0 DEF IntegrityTypeOK, RenewedSawRefusal, UsingObserved, HolderAlone, CallState
  <1>6. GenerationNamesProvider'
    BY <1>0 DEF IntegrityTypeOK, GenerationNamesProvider, HolderAlone, CallState
  <1>7. OnlyRefusedReplaced'
    BY <1>0 DEF IntegrityTypeOK, OnlyRefusedReplaced, GenerationNamesProvider, UsingObserved, HolderAlone, PreparedHasProvider, CallState
  <1>8. ExhaustedSawTwo'
    BY <1>0 DEF IntegrityTypeOK, ExhaustedSawTwo, UsingObserved, RenewedSawRefusal, CallState
  <1>9. QED
    BY <1>1, <1>2, <1>3, <1>4, <1>5, <1>6, <1>7, <1>8 DEF IntegrityInv

\* A step that changes nothing preserves the invariant.
LEMMA IntegrityStutterInv ==
  ASSUME IntegrityInv, UNCHANGED integrityVars
  PROVE  IntegrityInv'
  BY DEF integrityVars, IntegrityInv, IntegrityTypeOK, HolderAlone, PreparedHasProvider,
         UsingObserved, RenewedSawRefusal, GenerationNamesProvider, OnlyRefusedReplaced,
         ExhaustedSawTwo

\* Every step preserves the invariant.
LEMMA IntegrityNextInv ==
  ASSUME IntegrityInv, [IntegrityNext]_integrityVars
  PROVE  IntegrityInv'
  <1>1. CASE UNCHANGED integrityVars
    BY <1>1, IntegrityStutterInv
  <1>2. ASSUME NEW a \in Attestation, AttestationStep(a) \/ Cancel(a)
        PROVE  IntegrityInv'
    <2>1. CASE WarmUp(a)
      BY <2>1, WarmUpInv
    <2>2. CASE AskProvider(a)
      BY <2>2, AskProviderInv
    <2>3. CASE ProviderReady(a)
      BY <2>3, ProviderReadyInv
    <2>4. CASE PrepareFails(a)
      BY <2>4, PrepareFailsInv
    <2>5. CASE SampleGeneration(a)
      BY <2>5, SampleGenerationInv
    <2>6. CASE Request(a)
      BY <2>6, RequestInv
    <2>7. CASE RequestAnswered(a)
      BY <2>7, RequestAnsweredInv
    <2>8. CASE ResolveInvalid(a)
      BY <2>8, ResolveInvalidInv
    <2>9. CASE Cancel(a)
      BY <2>9, CancelInv
    <2>10. QED
      BY <1>2, <2>1, <2>2, <2>3, <2>4, <2>5, <2>6, <2>7, <2>8, <2>9 DEF AttestationStep
  <1>3. QED
    BY <1>1, <1>2 DEF IntegrityNext

\* The invariant holds in every reachable state, whatever the constants.
THEOREM IntegrityInvariant == IntegritySpec => []IntegrityInv
  <1>1. IntegrityInit => IntegrityInv
    BY IntegrityInitInv
  <1>2. IntegrityInv /\ [IntegrityNext]_integrityVars => IntegrityInv'
    BY IntegrityNextInv
  <1>3. QED
    BY <1>1, <1>2, PTL DEF IntegritySpec

\* No attestation makes the adapter give up a provider that Play did not declare
\* invalid, however late its own refusal arrives (resolveInvalidProvider).
THEOREM WorkingProviderKept == IntegritySpec => []OnlyRefusedReplaced
  <1>1. IntegrityInv => OnlyRefusedReplaced
    BY DEF IntegrityInv
  <1>2. QED
    BY <1>1, IntegrityInvariant, PTL

\* An attestation runs out of renewals only after two providers were refused to it:
\* stale observations do not spend the renewal (requestToken).
THEOREM RenewalSpentOnce == IntegritySpec => []ExhaustedSawTwo
  <1>1. IntegrityInv => ExhaustedSawTwo
    BY DEF IntegrityInv
  <1>2. QED
    BY <1>1, IntegrityInvariant, PTL

\* The generation that attestations compare is that of the prepared provider: a refusal
\* is never charged to another provider than the one it was made with
\* (provider and generation are set together under the warm-up mutex).
THEOREM GenerationNamed == IntegritySpec => []GenerationNamesProvider
  <1>1. IntegrityInv => GenerationNamesProvider
    BY DEF IntegrityInv
  <1>2. QED
    BY <1>1, IntegrityInvariant, PTL
================================================================================
