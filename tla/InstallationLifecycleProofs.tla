---------------------- MODULE InstallationLifecycleProofs ----------------------
(***************************************************************************)
(* For every set of keys, clients, tasks and callers, and any number of    *)
(* failures and crashes: LifecycleInv is inductive, a wiped identity stays *)
(* wiped, keys leave the alias only when retired, the slot implements      *)
(* InstallationVault, and the persistence gate is a critical section.      *)
(***************************************************************************)
EXTENDS InstallationLifecycle, TLAPS

USE NoneAssumption, BoundAssumption

\* The conjuncts of the invariant, and the records they speak of.
USE DEF CleanupPc, IoPhase, NoCleanup, NoIo, Grant

\* The initial state satisfies the invariant.
LEMMA InitInv == LifecycleInit => LifecycleInv
  BY DEF LifecycleInit, LifecycleInv, LifecycleTypeOK, CleanupRetired, IoBound, KeysMade,
         StoredKey, Cleared, ClearedClosed, KeyGone, StateMutexFree

\* Open preserves the invariant.
LEMMA OpenInv ==
  ASSUME LifecycleInv, NEW c \in Coord, Open(c)
  PROVE  LifecycleInv'
  <1> USE DEF LifecycleInv, Open
  <1>1. LifecycleTypeOK'
    BY DEF LifecycleTypeOK
  <1>2. CleanupRetired'
    BY DEF LifecycleTypeOK, CleanupRetired
  <1>3. IoBound'
    BY DEF LifecycleTypeOK, IoBound
  <1>4. KeysMade'
    BY DEF LifecycleTypeOK, KeysMade, StoredKey
  <1>5. ClearedClosed'
    BY DEF LifecycleTypeOK, CleanupRetired, KeysMade, Cleared, ClearedClosed, StoredKey, StateMutexFree, KeyGone
  <1>6. KeyGone'
    BY DEF LifecycleTypeOK, KeyGone, KeysMade
  <1>7. QED
    BY <1>1, <1>2, <1>3, <1>4, <1>5, <1>6

\* RejectKey preserves the invariant.
LEMMA RejectKeyInv ==
  ASSUME LifecycleInv, RejectKey
  PROVE  LifecycleInv'
  <1> USE DEF LifecycleInv, RejectKey, MayFail, processVars
  <1>1. LifecycleTypeOK'
    BY DEF LifecycleTypeOK
  <1>2. CleanupRetired'
    BY DEF LifecycleTypeOK, CleanupRetired
  <1>3. IoBound'
    BY DEF LifecycleTypeOK, IoBound
  <1>4. KeysMade'
    BY DEF LifecycleTypeOK, KeysMade, StoredKey
  <1>5. ClearedClosed'
    BY DEF LifecycleTypeOK, CleanupRetired, KeysMade, Cleared, ClearedClosed, StoredKey, StateMutexFree
  <1>6. KeyGone'
    BY DEF LifecycleTypeOK, KeyGone, KeysMade
  <1>7. QED
    BY <1>1, <1>2, <1>3, <1>4, <1>5, <1>6

\* BeginCleanup preserves the invariant.
LEMMA BeginCleanupInv ==
  ASSUME LifecycleInv, NEW x \in Caller, NEW c \in Coord, BeginCleanup(x, c)
  PROVE  LifecycleInv'
  <1> USE DEF LifecycleInv, BeginCleanup, deviceVars
  <1>1. LifecycleTypeOK'
    BY DEF LifecycleTypeOK
  <1>2. CleanupRetired'
    BY DEF LifecycleTypeOK, CleanupRetired
  <1>3. IoBound'
    BY DEF LifecycleTypeOK, IoBound
  <1>4. KeysMade'
    BY DEF LifecycleTypeOK, KeysMade, StoredKey
  <1>5. ClearedClosed'
    BY DEF LifecycleTypeOK, CleanupRetired, KeysMade, Cleared, ClearedClosed, StoredKey, StateMutexFree
  <1>6. KeyGone'
    BY DEF LifecycleTypeOK, KeyGone, KeysMade
  <1>7. QED
    BY <1>1, <1>2, <1>3, <1>4, <1>5, <1>6

\* EnterCleanup preserves the invariant.
LEMMA EnterCleanupInv ==
  ASSUME LifecycleInv, NEW x \in Caller, EnterCleanup(x)
  PROVE  LifecycleInv'
  <1> USE DEF LifecycleInv, EnterCleanup, deviceVars
  <1>1. LifecycleTypeOK'
    BY DEF LifecycleTypeOK
  <1>2. CleanupRetired'
    BY DEF LifecycleTypeOK, CleanupRetired
  <1>3. IoBound'
    BY DEF LifecycleTypeOK, IoBound
  <1>4. KeysMade'
    BY DEF LifecycleTypeOK, KeysMade, StoredKey
  <1>5. ClearedClosed'
    BY DEF LifecycleTypeOK, CleanupRetired, KeysMade, Cleared, ClearedClosed, StoredKey, StateMutexFree
  <1>6. KeyGone'
    BY DEF LifecycleTypeOK, KeyGone, KeysMade
  <1>7. QED
    BY <1>1, <1>2, <1>3, <1>4, <1>5, <1>6

\* ClearState preserves the invariant.
LEMMA ClearStateInv ==
  ASSUME LifecycleInv, NEW x \in Caller, ClearState(x)
  PROVE  LifecycleInv'
  <1> USE DEF LifecycleInv, ClearState, WithoutInstallation, StorageFailure, MayFail
  <1>1. LifecycleTypeOK'
    BY DEF LifecycleTypeOK
  <1>2. CleanupRetired'
    BY DEF LifecycleTypeOK, CleanupRetired
  <1>3. IoBound'
    BY DEF LifecycleTypeOK, IoBound
  <1>4. KeysMade'
    BY DEF LifecycleTypeOK, KeysMade, StoredKey
  <1>5. ClearedClosed'
    BY DEF LifecycleTypeOK, CleanupRetired, KeysMade, Cleared, ClearedClosed, StoredKey, StateMutexFree
  <1>6. KeyGone'
    BY DEF LifecycleTypeOK, KeyGone, KeysMade
  <1>7. QED
    BY <1>1, <1>2, <1>3, <1>4, <1>5, <1>6

\* ResetKey preserves the invariant.
LEMMA ResetKeyInv ==
  ASSUME LifecycleInv, NEW x \in Caller, ResetKey(x)
  PROVE  LifecycleInv'
  <1> USE DEF LifecycleInv, ResetKey, AliasAfterReset, CleanupSucceeds, MayFail
  <1>1. LifecycleTypeOK'
    BY DEF LifecycleTypeOK, CleanupRetired
  <1>2. CleanupRetired'
    BY DEF LifecycleTypeOK, CleanupRetired
  <1>3. IoBound'
    BY DEF LifecycleTypeOK, IoBound
  <1>4. KeysMade'
    BY DEF LifecycleTypeOK, KeysMade, StoredKey, CleanupRetired
  <1>5. ClearedClosed'
    BY DEF LifecycleTypeOK, CleanupRetired, KeysMade, Cleared, ClearedClosed, StoredKey, StateMutexFree
  <1>6. KeyGone'
    BY DEF LifecycleTypeOK, KeyGone, KeysMade, CleanupRetired
  <1>7. QED
    BY <1>1, <1>2, <1>3, <1>4, <1>5, <1>6

\* BeginLoad preserves the invariant.
LEMMA BeginLoadInv ==
  ASSUME LifecycleInv, NEW t \in Task, NEW c \in Coord, BeginLoad(t, c)
  PROVE  LifecycleInv'
  <1> USE DEF LifecycleInv, BeginLoad, LocalIo
  <1>1. LifecycleTypeOK'
    BY DEF LifecycleTypeOK
  <1>2. CleanupRetired'
    BY DEF LifecycleTypeOK, CleanupRetired
  <1>3. IoBound'
    BY DEF LifecycleTypeOK, IoBound
  <1>4. KeysMade'
    BY DEF LifecycleTypeOK, KeysMade, StoredKey
  <1>5. ClearedClosed'
    BY DEF LifecycleTypeOK, CleanupRetired, KeysMade, Cleared, ClearedClosed, StoredKey, StateMutexFree
  <1>6. KeyGone'
    BY DEF LifecycleTypeOK, KeyGone, KeysMade
  <1>7. QED
    BY <1>1, <1>2, <1>3, <1>4, <1>5, <1>6

\* EndLoad preserves the invariant.
LEMMA EndLoadInv ==
  ASSUME LifecycleInv, NEW t \in Task, EndLoad(t)
  PROVE  LifecycleInv'
  <1> USE DEF LifecycleInv, EndLoad, LocalIo
  <1>1. LifecycleTypeOK'
    BY DEF LifecycleTypeOK, StoredKey
  <1>2. CleanupRetired'
    BY DEF LifecycleTypeOK, CleanupRetired
  <1>3. IoBound'
    BY DEF LifecycleTypeOK, IoBound, StoredKey
  <1>4. KeysMade'
    BY DEF LifecycleTypeOK, KeysMade, StoredKey
  <1>5. ClearedClosed'
    BY DEF LifecycleTypeOK, CleanupRetired, KeysMade, Cleared, ClearedClosed, StoredKey, StateMutexFree
  <1>6. KeyGone'
    BY DEF LifecycleTypeOK, KeyGone, KeysMade
  <1>7. QED
    BY <1>1, <1>2, <1>3, <1>4, <1>5, <1>6

\* ClearForeign preserves the invariant.
LEMMA ClearForeignInv ==
  ASSUME LifecycleInv, NEW t \in Task, ClearForeign(t)
  PROVE  LifecycleInv'
  <1> USE DEF LifecycleInv, ClearForeign, WithoutInstallation, LocalIo
  <1>1. LifecycleTypeOK'
    BY DEF LifecycleTypeOK
  <1>2. CleanupRetired'
    BY DEF LifecycleTypeOK, CleanupRetired
  <1>3. IoBound'
    BY DEF LifecycleTypeOK, IoBound
  <1>4. KeysMade'
    BY DEF LifecycleTypeOK, KeysMade, StoredKey
  <1>5. ClearedClosed'
    BY DEF LifecycleTypeOK, CleanupRetired, KeysMade, Cleared, ClearedClosed, StoredKey, StateMutexFree
  <1>6. KeyGone'
    BY DEF LifecycleTypeOK, KeyGone, KeysMade
  <1>7. QED
    BY <1>1, <1>2, <1>3, <1>4, <1>5, <1>6

\* BeginPersist preserves the invariant.
LEMMA BeginPersistInv ==
  ASSUME LifecycleInv, NEW t \in Task, NEW c \in Coord, NEW g \in Grant, BeginPersist(t, c, g)
  PROVE  LifecycleInv'
  <1> USE DEF LifecycleInv, BeginPersist, MayPersist, LocalIo
  <1>1. LifecycleTypeOK'
    BY DEF LifecycleTypeOK
  <1>2. CleanupRetired'
    BY DEF LifecycleTypeOK, CleanupRetired
  <1>3. IoBound'
    BY DEF LifecycleTypeOK, IoBound
  <1>4. KeysMade'
    BY DEF LifecycleTypeOK, KeysMade, StoredKey
  <1>5. ClearedClosed'
    BY DEF LifecycleTypeOK, CleanupRetired, KeysMade, Cleared, ClearedClosed, StoredKey, StateMutexFree
  <1>6. KeyGone'
    BY DEF LifecycleTypeOK, KeyGone, KeysMade
  <1>7. QED
    BY <1>1, <1>2, <1>3, <1>4, <1>5, <1>6

\* Save preserves the invariant.
LEMMA SaveInv ==
  ASSUME LifecycleInv, NEW t \in Task, Save(t)
  PROVE  LifecycleInv'
  <1> USE DEF LifecycleInv, Save, LocalIo
  <1>1. LifecycleTypeOK'
    BY DEF LifecycleTypeOK, IoBound
  <1>2. CleanupRetired'
    BY DEF LifecycleTypeOK, CleanupRetired
  <1>3. IoBound'
    BY DEF LifecycleTypeOK, IoBound
  <1>4. KeysMade'
    BY DEF LifecycleTypeOK, KeysMade, StoredKey, IoBound
  <1>5. ClearedClosed'
    BY DEF LifecycleTypeOK, CleanupRetired, KeysMade, Cleared, ClearedClosed, StoredKey, StateMutexFree
  <1>6. KeyGone'
    BY DEF LifecycleTypeOK, KeyGone, KeysMade
  <1>7. QED
    BY <1>1, <1>2, <1>3, <1>4, <1>5, <1>6

\* EndPersist preserves the invariant.
LEMMA EndPersistInv ==
  ASSUME LifecycleInv, NEW t \in Task, EndPersist(t)
  PROVE  LifecycleInv'
  <1> USE DEF LifecycleInv, EndPersist, LocalIo
  <1>1. LifecycleTypeOK'
    BY DEF LifecycleTypeOK
  <1>2. CleanupRetired'
    BY DEF LifecycleTypeOK, CleanupRetired
  <1>3. IoBound'
    BY DEF LifecycleTypeOK, IoBound
  <1>4. KeysMade'
    BY DEF LifecycleTypeOK, KeysMade, StoredKey
  <1>5. ClearedClosed'
    BY DEF LifecycleTypeOK, CleanupRetired, KeysMade, Cleared, ClearedClosed, StoredKey, StateMutexFree
  <1>6. KeyGone'
    BY DEF LifecycleTypeOK, KeyGone, KeysMade
  <1>7. QED
    BY <1>1, <1>2, <1>3, <1>4, <1>5, <1>6

\* FailIo preserves the invariant.
LEMMA FailIoInv ==
  ASSUME LifecycleInv, NEW t \in Task, FailIo(t)
  PROVE  LifecycleInv'
  <1> USE DEF LifecycleInv, FailIo, StorageFailure, MayFail, LocalIo
  <1>1. LifecycleTypeOK'
    BY DEF LifecycleTypeOK
  <1>2. CleanupRetired'
    BY DEF LifecycleTypeOK, CleanupRetired
  <1>3. IoBound'
    BY DEF LifecycleTypeOK, IoBound
  <1>4. KeysMade'
    BY DEF LifecycleTypeOK, KeysMade, StoredKey
  <1>5. ClearedClosed'
    BY DEF LifecycleTypeOK, CleanupRetired, KeysMade, Cleared, ClearedClosed, StoredKey, StateMutexFree
  <1>6. KeyGone'
    BY DEF LifecycleTypeOK, KeyGone, KeysMade
  <1>7. QED
    BY <1>1, <1>2, <1>3, <1>4, <1>5, <1>6

\* ClearSession preserves the invariant.
LEMMA ClearSessionInv ==
  ASSUME LifecycleInv, NEW g \in Grant, ClearSession(g)
  PROVE  LifecycleInv'
  <1> USE DEF LifecycleInv, ClearSession, StoreBecomes, StorageFailure, MayFail, WithoutSession, processVars
  <1>1. LifecycleTypeOK'
    BY DEF LifecycleTypeOK
  <1>2. CleanupRetired'
    BY DEF LifecycleTypeOK, CleanupRetired
  <1>3. IoBound'
    BY DEF LifecycleTypeOK, IoBound
  <1>4. KeysMade'
    BY DEF LifecycleTypeOK, KeysMade, StoredKey
  <1>5. ClearedClosed'
    BY DEF LifecycleTypeOK, CleanupRetired, KeysMade, Cleared, ClearedClosed, StoredKey, StateMutexFree
  <1>6. KeyGone'
    BY DEF LifecycleTypeOK, KeyGone, KeysMade
  <1>7. QED
    BY <1>1, <1>2, <1>3, <1>4, <1>5, <1>6

\* ClearInstallation preserves the invariant.
LEMMA ClearInstallationInv ==
  ASSUME LifecycleInv, NEW c \in Coord, ClearInstallation(c)
  PROVE  LifecycleInv'
  <1> USE DEF LifecycleInv, ClearInstallation, StoreBecomes, StorageFailure, MayFail, WithoutInstallation, processVars
  <1>1. LifecycleTypeOK'
    BY DEF LifecycleTypeOK
  <1>2. CleanupRetired'
    BY DEF LifecycleTypeOK, CleanupRetired
  <1>3. IoBound'
    BY DEF LifecycleTypeOK, IoBound
  <1>4. KeysMade'
    BY DEF LifecycleTypeOK, KeysMade, StoredKey
  <1>5. ClearedClosed'
    BY DEF LifecycleTypeOK, CleanupRetired, KeysMade, Cleared, ClearedClosed, StoredKey, StateMutexFree
  <1>6. KeyGone'
    BY DEF LifecycleTypeOK, KeyGone, KeysMade
  <1>7. QED
    BY <1>1, <1>2, <1>3, <1>4, <1>5, <1>6

\* Crash preserves the invariant.
LEMMA CrashInv ==
  ASSUME LifecycleInv, Crash
  PROVE  LifecycleInv'
  <1> USE DEF LifecycleInv, Crash, MayFail, ProcessForgotten, deviceVars
  <1>1. LifecycleTypeOK'
    BY DEF LifecycleTypeOK
  <1>2. CleanupRetired'
    BY DEF LifecycleTypeOK, CleanupRetired
  <1>3. IoBound'
    BY DEF LifecycleTypeOK, IoBound
  <1>4. KeysMade'
    BY DEF LifecycleTypeOK, KeysMade, StoredKey
  <1>5. ClearedClosed'
    BY DEF LifecycleTypeOK, CleanupRetired, KeysMade, Cleared, ClearedClosed, StoredKey, StateMutexFree
  <1>6. KeyGone'
    BY DEF LifecycleTypeOK, KeyGone, KeysMade
  <1>7. QED
    BY <1>1, <1>2, <1>3, <1>4, <1>5, <1>6

\* A step that changes nothing preserves the invariant.
LEMMA StutterInv ==
  ASSUME LifecycleInv, UNCHANGED lifecycleVars
  PROVE  LifecycleInv'
  BY DEF lifecycleVars, deviceVars, processVars, LifecycleInv, LifecycleTypeOK, CleanupRetired,
         IoBound, KeysMade, StoredKey, Cleared, ClearedClosed, StateMutexFree, KeyGone

\* Every step preserves the invariant.
LEMMA NextInv ==
  ASSUME LifecycleInv, [LifecycleNext]_lifecycleVars
  PROVE  LifecycleInv'
  <1>1. CASE UNCHANGED lifecycleVars
    BY <1>1, StutterInv
  <1>2. CASE \E c \in Coord : Open(c) \/ ClearInstallation(c)
    BY <1>2, OpenInv, ClearInstallationInv
  <1>3. CASE \E x \in Caller, c \in Coord : BeginCleanup(x, c)
    BY <1>3, BeginCleanupInv
  <1>4. CASE \E x \in Caller : CleanupStep(x)
    BY <1>4, EnterCleanupInv, ClearStateInv, ResetKeyInv DEF CleanupStep
  <1>5. CASE \E t \in Task, c \in Coord : BeginLoad(t, c)
    BY <1>5, BeginLoadInv
  <1>6. CASE \E t \in Task, c \in Coord, g \in Grant : BeginPersist(t, c, g)
    BY <1>6, BeginPersistInv
  <1>7. CASE \E t \in Task : LoadStep(t) \/ PersistStep(t) \/ FailIo(t)
    BY <1>7, EndLoadInv, ClearForeignInv, SaveInv, EndPersistInv, FailIoInv
       DEF LoadStep, PersistStep
  <1>8. CASE \E g \in Grant : ClearSession(g)
    BY <1>8, ClearSessionInv
  <1>9. CASE RejectKey \/ Crash
    BY <1>9, RejectKeyInv, CrashInv
  <1>10. QED
    BY <1>1, <1>2, <1>3, <1>4, <1>5, <1>6, <1>7, <1>8, <1>9 DEF LifecycleNext

\* The inductive invariant, type correctness of every variable included, holds
\* in every reachable state of the slot.
THEOREM LifecycleInvariant == LifecycleSpec => []LifecycleInv
  <1>1. LifecycleInit => LifecycleInv
    BY InitInv
  <1>2. LifecycleInv /\ [LifecycleNext]_lifecycleVars => LifecycleInv'
    BY NextInv
  <1>3. QED
    BY <1>1, <1>2, PTL DEF LifecycleSpec

\* "A late grant can never commit after replacement provisioning has completed":
\* neither the grant nor the key of a wiped identity is ever seen again
\* (InstallationKeyLifecycle.kt:50-54).
THEOREM WipedIdentity == LifecycleSpec => []WipedStaysWiped
  <1>1. LifecycleInv => WipedStaysWiped
    BY DEF LifecycleInv, LifecycleTypeOK, ClearedClosed, Cleared, KeyGone, WipedStaysWiped
  <1>2. QED
    BY <1>1, LifecycleInvariant, PTL

\* A stale client never deletes a replacement key
\* (InstallationKeyLifecycle.kt:117-121).
THEOREM ReplacementKeySafe == LifecycleSpec => KeyLeavesOnlyRetired
  <1> DEFINE Leaves == aliasKey # None /\ aliasKey' # aliasKey
  <1>1. ASSUME LifecycleInv, LifecycleNext, Leaves
        PROVE  aliasKey \in retired \/ injected' # injected
    <2>1. CASE \E c \in Coord : Open(c) \/ ClearInstallation(c)
      BY <1>1, <2>1 DEF Open, ClearInstallation
    <2>2. CASE \E x \in Caller : CleanupStep(x)
      BY <1>1, <2>2 DEF CleanupStep, EnterCleanup, ClearState, ResetKey, AliasAfterReset, CleanupSucceeds,
         LifecycleInv, CleanupRetired, deviceVars
    <2>3. CASE \/ \E t \in Task : LoadStep(t) \/ PersistStep(t) \/ FailIo(t)
               \/ \E t \in Task, c \in Coord : BeginLoad(t, c)
               \/ \E t \in Task, c \in Coord, g \in Grant : BeginPersist(t, c, g)
      BY <1>1, <2>3 DEF LoadStep, PersistStep, EndLoad, ClearForeign, Save, EndPersist, FailIo,
         BeginLoad, BeginPersist, LocalIo
    <2>4. CASE \/ \E x \in Caller, c \in Coord : BeginCleanup(x, c)
               \/ \E g \in Grant : ClearSession(g)
      BY <1>1, <2>4 DEF BeginCleanup, ClearSession, deviceVars
    <2>5. CASE RejectKey \/ Crash
      BY <1>1, <2>5 DEF RejectKey, Crash, MayFail, LifecycleInv, LifecycleTypeOK, deviceVars
    <2>6. QED
      BY <1>1, <2>1, <2>2, <2>3, <2>4, <2>5 DEF LifecycleNext
  <1>2. LifecycleInv /\ [LifecycleNext]_lifecycleVars
          => [Leaves => aliasKey \in retired \/ injected' # injected]_lifecycleVars
    BY <1>1
  <1>3. QED
    BY <1>2, LifecycleInvariant, PTL DEF LifecycleSpec, KeyLeavesOnlyRetired

--------------------------------------------------------------------------------
(* Every step of the slot is a step of the vault, or none. *)

\* A step that leaves alias and file alone, and wipes nobody, is a stutter of the vault.
LEMMA KeepsVault ==
  ASSUME UNCHANGED <<aliasKey, made, wiped>>, store' \in {store, None}
  PROVE  [Vault!VaultNext]_Vault!vaultVars
  BY DEF Vault!VaultNext, Vault!Withdraw, Vault!vaultVars, StoredKey

\* Opening a coordinator provisions a key or is a stutter of the vault.
LEMMA OpenVault ==
  ASSUME LifecycleInv, NEW c \in Coord, Open(c)
  PROVE  [Vault!VaultNext]_Vault!vaultVars
  <1>1. PICK k \in Key : /\ IF aliasKey = None THEN k \notin made ELSE k = aliasKey
                         /\ aliasKey' = k
                         /\ made' = made \cup {k}
    BY DEF Open
  <1>2. CASE aliasKey = None
    <2>1. Vault!Provision(k)
      BY <1>1, <1>2 DEF Open, Vault!Provision, StoredKey
    <2>2. QED
      BY <2>1 DEF Vault!VaultNext
  <1>3. CASE aliasKey # None
    BY <1>1, <1>3 DEF Open, LifecycleInv, KeysMade, Vault!vaultVars, StoredKey
  <1>4. QED
    BY <1>2, <1>3

\* Persisting a grant is a deposit for an identity that has not ended.
LEMMA SaveVault ==
  ASSUME LifecycleInv, NEW t \in Task, Save(t)
  PROVE  [Vault!VaultNext]_Vault!vaultVars
  <1> DEFINE k == io[t].grant.key
  <1>1. k \in Key /\ k \in made \ wiped
    BY DEF LifecycleInv, LifecycleTypeOK, IoBound, KeysMade, ClearedClosed, Cleared,
           StateMutexFree, Save
  <1>2. StoredKey' = k
    BY DEF LifecycleInv, IoBound, Save, StoredKey
  <1>3. Vault!Deposit(k)
    BY <1>1, <1>2 DEF Save, LocalIo, Vault!Deposit
  <1>4. QED
    BY <1>1, <1>3 DEF Vault!VaultNext

\* Resetting the key ends the identity, destroys its key, or is a stutter of the vault.
LEMMA ResetVault ==
  ASSUME LifecycleInv, NEW x \in Caller, ResetKey(x)
  PROVE  [Vault!VaultNext]_Vault!vaultVars
  <1> DEFINE k == coordKey[cleanup[x].coord]
  <1>1. k \in Key /\ k \in made /\ (k \in resetDone => aliasKey # k)
    BY DEF LifecycleInv, LifecycleTypeOK, CleanupRetired, KeysMade, KeyGone, ResetKey
  <1>2. CASE wiped' = wiped \cup {k} /\ ~cleanup[x].failed
    <2>1. StoredKey # k
      BY <1>1, <1>2 DEF LifecycleInv, ClearedClosed, Cleared, ResetKey
    <2>2. aliasKey' = IF aliasKey = k THEN None ELSE aliasKey
      BY <1>1, <1>2 DEF ResetKey, AliasAfterReset, CleanupSucceeds, LifecycleInv, KeyGone
    <2>3. Vault!End(k)
      BY <1>1, <1>2, <2>1, <2>2 DEF ResetKey, Vault!End, StoredKey
    <2>4. QED
      BY <1>1, <2>3 DEF Vault!VaultNext
  <1>3. CASE wiped' = wiped
    <2>1. aliasKey' \in {aliasKey, None}
      BY <1>3 DEF ResetKey, AliasAfterReset, CleanupSucceeds
    <2>2. QED
      BY <1>3, <2>1 DEF ResetKey, Vault!VaultNext, Vault!Destroy, Vault!vaultVars, StoredKey
  <1>4. QED
    BY <1>2, <1>3 DEF ResetKey, CleanupSucceeds

\* The slot implements the abstract installation slot: grants are deposited only
\* for identities whose clean-up is not complete, keys are provisioned only into
\* an empty alias, and an ended identity never returns.
THEOREM ImplementsVault == LifecycleSpec => VaultPromise
  <1>1. LifecycleInit => Vault!VaultInit
    BY DEF LifecycleInit, Vault!VaultInit, StoredKey
  <1>2. ASSUME LifecycleInv, [LifecycleNext]_lifecycleVars
        PROVE  [Vault!VaultNext]_Vault!vaultVars
    <2>1. CASE \E c \in Coord : Open(c)
      BY <2>1, OpenVault, LifecycleInv
    <2>2. CASE \E t \in Task : Save(t)
      BY <2>2, SaveVault, LifecycleInv
    <2>3. CASE \E x \in Caller : ResetKey(x)
      BY <2>3, ResetVault, LifecycleInv
    <2>4. CASE RejectKey
      BY <2>4 DEF RejectKey, Vault!VaultNext, Vault!Destroy, StoredKey
    <2>5. CASE \/ \E c \in Coord : ClearInstallation(c)
               \/ \E g \in Grant : ClearSession(g)
               \/ \E x \in Caller, c \in Coord : BeginCleanup(x, c)
               \/ \E x \in Caller : EnterCleanup(x) \/ ClearState(x)
               \/ Crash
      <3>1. UNCHANGED <<aliasKey, made, wiped>> /\ store' \in {store, None}
        BY <2>5 DEF ClearInstallation, ClearSession, BeginCleanup, EnterCleanup, ClearState,
           Crash, StoreBecomes, WithoutInstallation, WithoutSession, StorageFailure, deviceVars
      <3>2. QED
        BY <3>1, KeepsVault
    <2>6. CASE \/ \E t \in Task, c \in Coord : BeginLoad(t, c)
               \/ \E t \in Task, c \in Coord, g \in Grant : BeginPersist(t, c, g)
               \/ \E t \in Task : LoadStep(t) \/ EndPersist(t) \/ FailIo(t)
      <3>1. UNCHANGED <<aliasKey, made, wiped>> /\ store' \in {store, None}
        BY <2>6 DEF BeginLoad, BeginPersist, LoadStep, EndLoad, ClearForeign, EndPersist,
           FailIo, LocalIo, WithoutInstallation, StorageFailure
      <3>2. QED
        BY <3>1, KeepsVault
    <2>7. CASE UNCHANGED lifecycleVars
      BY <2>7, KeepsVault DEF lifecycleVars, deviceVars
    <2>8. QED
      BY <1>2, <2>1, <2>2, <2>3, <2>4, <2>5, <2>6, <2>7
         DEF LifecycleNext, CleanupStep, PersistStep
  <1>3. QED
    BY <1>1, <1>2, LifecycleInvariant, PTL DEF LifecycleSpec, VaultPromise, Vault!VaultSpec

--------------------------------------------------------------------------------
(* Behind the persistence gate: what a task can rely on from persistIfActive's
   checks to the end of its stateMutex. *)
InGate(t) == io[t].phase \in {"checked", "saved"}

\* One task at a time is in the gate of an identity.
GateAlone ==
    \A t, u \in Task : InGate(t) /\ InGate(u) /\ io[t].grant.key = io[u].grant.key => t = u

\* A signer is invalidated by the clean-up of its own identity only.
InvalidatedRetired == \A c \in invalidated : coordKey[c] \in retired

\* A task that takes the file for foreign has a key, and the file named another.
ForeignIo ==
    \A t \in Task :
        /\ io[t].phase \in {"loading", "foreign"}
            => io[t].coord \in Coord /\ coordKey[io[t].coord] # None
        /\ io[t].phase = "foreign" => io[t].grant.key # coordKey[io[t].coord]

\* A clean-up that has passed the gate of its identity finds nobody in it.
ResetOutside ==
    \A x \in Caller : cleanup[x].pc = "reset" => StateMutexFree(coordKey[cleanup[x].coord])

\* Unless the key policy takes it, the key stays under the alias while a task is in
\* its gate; what the task saved stays in the file, or the file could not be read.
GateBound == \A t \in Task : InGate(t) => aliasKey = io[t].grant.key
SavedStored ==
    \A t \in Task : io[t].phase = "saved" =>
        store = io[t].grant \/ (store = None /\ injected.failure > 0)

GateInv ==
    /\ GateAlone
    /\ InvalidatedRetired
    /\ ForeignIo
    /\ ResetOutside
    /\ MaxKeyRejections = 0 => GateBound /\ SavedStored

\* Open keeps to the gate.
LEMMA OpenGate ==
  ASSUME LifecycleInv, GateInv, NEW c \in Coord, Open(c)
  PROVE  GateInv'
  <1> USE DEF LifecycleInv, LifecycleTypeOK, GateInv, Open
  <1>1. GateAlone'
    BY DEF GateAlone, InGate, StateMutexFree, IoBound
  <1>2. InvalidatedRetired'
    BY DEF InvalidatedRetired, CleanupRetired
  <1>3. ForeignIo'
    BY DEF ForeignIo, StoredKey
  <1>4. ResetOutside'
    BY DEF ResetOutside, StateMutexFree, CleanupRetired, IoBound
  <1>5. ASSUME MaxKeyRejections = 0
        PROVE  GateBound'
    BY <1>5 DEF GateBound, InGate, ResetOutside, StateMutexFree, IoBound
  <1>6. ASSUME MaxKeyRejections = 0
        PROVE  SavedStored'
    BY <1>6 DEF SavedStored, GateAlone, GateBound, InGate, StateMutexFree, StoredKey, IoBound
  <1>7. QED
    BY <1>1, <1>2, <1>3, <1>4, <1>5, <1>6

\* RejectKey keeps to the gate.
LEMMA RejectKeyGate ==
  ASSUME LifecycleInv, GateInv, RejectKey
  PROVE  GateInv'
  <1> USE DEF LifecycleInv, LifecycleTypeOK, GateInv, RejectKey, MayFail, processVars
  <1>1. GateAlone'
    BY DEF GateAlone, InGate, StateMutexFree, IoBound
  <1>2. InvalidatedRetired'
    BY DEF InvalidatedRetired, CleanupRetired
  <1>3. ForeignIo'
    BY DEF ForeignIo, StoredKey
  <1>4. ResetOutside'
    BY DEF ResetOutside, StateMutexFree, CleanupRetired, IoBound
  <1>5. ASSUME MaxKeyRejections = 0
        PROVE  GateBound'
    BY <1>5 DEF GateBound, InGate, ResetOutside, StateMutexFree, IoBound
  <1>6. ASSUME MaxKeyRejections = 0
        PROVE  SavedStored'
    BY <1>6 DEF SavedStored, GateAlone, GateBound, InGate, StateMutexFree, StoredKey, IoBound
  <1>7. QED
    BY <1>1, <1>2, <1>3, <1>4, <1>5, <1>6

\* BeginCleanup keeps to the gate.
LEMMA BeginCleanupGate ==
  ASSUME LifecycleInv, GateInv, NEW x \in Caller, NEW c \in Coord, BeginCleanup(x, c)
  PROVE  GateInv'
  <1> USE DEF LifecycleInv, LifecycleTypeOK, GateInv, BeginCleanup, deviceVars
  <1>1. GateAlone'
    BY DEF GateAlone, InGate, StateMutexFree, IoBound
  <1>2. InvalidatedRetired'
    BY DEF InvalidatedRetired, CleanupRetired
  <1>3. ForeignIo'
    BY DEF ForeignIo, StoredKey
  <1>4. ResetOutside'
    BY DEF ResetOutside, StateMutexFree, CleanupRetired, IoBound
  <1>5. ASSUME MaxKeyRejections = 0
        PROVE  GateBound'
    BY <1>5 DEF GateBound, InGate, ResetOutside, StateMutexFree, IoBound
  <1>6. ASSUME MaxKeyRejections = 0
        PROVE  SavedStored'
    BY <1>6 DEF SavedStored, GateAlone, GateBound, InGate, StateMutexFree, StoredKey, IoBound
  <1>7. QED
    BY <1>1, <1>2, <1>3, <1>4, <1>5, <1>6

\* EnterCleanup keeps to the gate.
LEMMA EnterCleanupGate ==
  ASSUME LifecycleInv, GateInv, NEW x \in Caller, EnterCleanup(x)
  PROVE  GateInv'
  <1> USE DEF LifecycleInv, LifecycleTypeOK, GateInv, EnterCleanup, deviceVars
  <1>1. GateAlone'
    BY DEF GateAlone, InGate, StateMutexFree, IoBound
  <1>2. InvalidatedRetired'
    BY DEF InvalidatedRetired, CleanupRetired
  <1>3. ForeignIo'
    BY DEF ForeignIo, StoredKey
  <1>4. ResetOutside'
    BY DEF ResetOutside, StateMutexFree, CleanupRetired, IoBound
  <1>5. ASSUME MaxKeyRejections = 0
        PROVE  GateBound'
    BY <1>5 DEF GateBound, InGate, ResetOutside, StateMutexFree, IoBound
  <1>6. ASSUME MaxKeyRejections = 0
        PROVE  SavedStored'
    BY <1>6 DEF SavedStored, GateAlone, GateBound, InGate, StateMutexFree, StoredKey, IoBound
  <1>7. QED
    BY <1>1, <1>2, <1>3, <1>4, <1>5, <1>6

\* ClearState keeps to the gate.
LEMMA ClearStateGate ==
  ASSUME LifecycleInv, GateInv, NEW x \in Caller, ClearState(x)
  PROVE  GateInv'
  <1> USE DEF LifecycleInv, LifecycleTypeOK, GateInv, ClearState, WithoutInstallation, StorageFailure, MayFail
  <1>1. GateAlone'
    BY DEF GateAlone, InGate, StateMutexFree, IoBound
  <1>2. InvalidatedRetired'
    BY DEF InvalidatedRetired, CleanupRetired
  <1>3. ForeignIo'
    BY DEF ForeignIo, StoredKey
  <1>4. ResetOutside'
    BY DEF ResetOutside, StateMutexFree, CleanupRetired, IoBound
  <1>5. ASSUME MaxKeyRejections = 0
        PROVE  GateBound'
    BY <1>5 DEF GateBound, InGate, ResetOutside, StateMutexFree, IoBound
  <1>6. ASSUME MaxKeyRejections = 0
        PROVE  SavedStored'
    BY <1>6 DEF SavedStored, GateAlone, GateBound, InGate, StateMutexFree, StoredKey, IoBound
  <1>7. QED
    BY <1>1, <1>2, <1>3, <1>4, <1>5, <1>6

\* ResetKey keeps to the gate.
LEMMA ResetKeyGate ==
  ASSUME LifecycleInv, GateInv, NEW x \in Caller, ResetKey(x)
  PROVE  GateInv'
  <1> USE DEF LifecycleInv, LifecycleTypeOK, GateInv, ResetKey, AliasAfterReset, CleanupSucceeds, MayFail
  <1>1. GateAlone'
    BY DEF GateAlone, InGate, StateMutexFree, IoBound
  <1>2. InvalidatedRetired'
    BY DEF InvalidatedRetired, CleanupRetired
  <1>3. ForeignIo'
    BY DEF ForeignIo, StoredKey
  <1>4. ResetOutside'
    BY DEF ResetOutside, StateMutexFree, CleanupRetired, IoBound
  <1>5. ASSUME MaxKeyRejections = 0
        PROVE  GateBound'
    BY <1>5 DEF GateBound, InGate, ResetOutside, StateMutexFree, IoBound
  <1>6. ASSUME MaxKeyRejections = 0
        PROVE  SavedStored'
    BY <1>6 DEF SavedStored, GateAlone, GateBound, InGate, StateMutexFree, StoredKey, IoBound
  <1>7. QED
    BY <1>1, <1>2, <1>3, <1>4, <1>5, <1>6

\* BeginLoad keeps to the gate.
LEMMA BeginLoadGate ==
  ASSUME LifecycleInv, GateInv, NEW t \in Task, NEW c \in Coord, BeginLoad(t, c)
  PROVE  GateInv'
  <1> USE DEF LifecycleInv, LifecycleTypeOK, GateInv, BeginLoad, LocalIo
  <1>1. GateAlone'
    BY DEF GateAlone, InGate, StateMutexFree, IoBound
  <1>2. InvalidatedRetired'
    BY DEF InvalidatedRetired, CleanupRetired
  <1>3. ForeignIo'
    BY DEF ForeignIo, StoredKey
  <1>4. ResetOutside'
    BY DEF ResetOutside, StateMutexFree, CleanupRetired, IoBound
  <1>5. ASSUME MaxKeyRejections = 0
        PROVE  GateBound'
    BY <1>5 DEF GateBound, InGate, ResetOutside, StateMutexFree, IoBound
  <1>6. ASSUME MaxKeyRejections = 0
        PROVE  SavedStored'
    BY <1>6 DEF SavedStored, GateAlone, GateBound, InGate, StateMutexFree, StoredKey, IoBound
  <1>7. QED
    BY <1>1, <1>2, <1>3, <1>4, <1>5, <1>6

\* EndLoad keeps to the gate.
LEMMA EndLoadGate ==
  ASSUME LifecycleInv, GateInv, NEW t \in Task, EndLoad(t)
  PROVE  GateInv'
  <1> USE DEF LifecycleInv, LifecycleTypeOK, GateInv, EndLoad, LocalIo
  <1>1. GateAlone'
    BY DEF GateAlone, InGate, StateMutexFree, IoBound
  <1>2. InvalidatedRetired'
    BY DEF InvalidatedRetired, CleanupRetired
  <1>3. ForeignIo'
    BY DEF ForeignIo, StoredKey
  <1>4. ResetOutside'
    BY DEF ResetOutside, StateMutexFree, CleanupRetired, IoBound
  <1>5. ASSUME MaxKeyRejections = 0
        PROVE  GateBound'
    BY <1>5 DEF GateBound, InGate, ResetOutside, StateMutexFree, IoBound
  <1>6. ASSUME MaxKeyRejections = 0
        PROVE  SavedStored'
    BY <1>6 DEF SavedStored, GateAlone, GateBound, InGate, StateMutexFree, StoredKey, IoBound
  <1>7. QED
    BY <1>1, <1>2, <1>3, <1>4, <1>5, <1>6

\* ClearForeign keeps to the gate.
LEMMA ClearForeignGate ==
  ASSUME LifecycleInv, GateInv, NEW t \in Task, ClearForeign(t)
  PROVE  GateInv'
  <1> USE DEF LifecycleInv, LifecycleTypeOK, GateInv, ClearForeign, WithoutInstallation, LocalIo
  <1>1. GateAlone'
    BY DEF GateAlone, InGate, StateMutexFree, IoBound
  <1>2. InvalidatedRetired'
    BY DEF InvalidatedRetired, CleanupRetired
  <1>3. ForeignIo'
    BY DEF ForeignIo, StoredKey
  <1>4. ResetOutside'
    BY DEF ResetOutside, StateMutexFree, CleanupRetired, IoBound
  <1>5. ASSUME MaxKeyRejections = 0
        PROVE  GateBound'
    BY <1>5 DEF GateBound, InGate, ResetOutside, StateMutexFree, IoBound
  <1>6. ASSUME MaxKeyRejections = 0
        PROVE  SavedStored'
    BY <1>6 DEF SavedStored, GateAlone, GateBound, InGate, StateMutexFree, StoredKey, IoBound
  <1>7. QED
    BY <1>1, <1>2, <1>3, <1>4, <1>5, <1>6

\* BeginPersist keeps to the gate.
LEMMA BeginPersistGate ==
  ASSUME LifecycleInv, GateInv, NEW t \in Task, NEW c \in Coord, NEW g \in Grant, BeginPersist(t, c, g)
  PROVE  GateInv'
  <1> USE DEF LifecycleInv, LifecycleTypeOK, GateInv, BeginPersist, MayPersist, IsCurrent, LocalIo
  <1>1. GateAlone'
    BY DEF GateAlone, InGate, StateMutexFree, IoBound
  <1>2. InvalidatedRetired'
    BY DEF InvalidatedRetired, CleanupRetired
  <1>3. ForeignIo'
    BY DEF ForeignIo, StoredKey
  <1>4. ResetOutside'
    BY DEF ResetOutside, StateMutexFree, CleanupRetired, IoBound
  <1>5. ASSUME MaxKeyRejections = 0
        PROVE  GateBound'
    BY <1>5 DEF GateBound, InGate, ResetOutside, StateMutexFree, IoBound
  <1>6. ASSUME MaxKeyRejections = 0
        PROVE  SavedStored'
    BY <1>6 DEF SavedStored, GateAlone, GateBound, InGate, StateMutexFree, StoredKey, IoBound
  <1>7. QED
    BY <1>1, <1>2, <1>3, <1>4, <1>5, <1>6

\* Save keeps to the gate.
LEMMA SaveGate ==
  ASSUME LifecycleInv, GateInv, NEW t \in Task, Save(t)
  PROVE  GateInv'
  <1> USE DEF LifecycleInv, LifecycleTypeOK, GateInv, Save, LocalIo
  <1>1. GateAlone'
    BY DEF GateAlone, InGate, StateMutexFree, IoBound
  <1>2. InvalidatedRetired'
    BY DEF InvalidatedRetired, CleanupRetired
  <1>3. ForeignIo'
    BY DEF ForeignIo, StoredKey
  <1>4. ResetOutside'
    BY DEF ResetOutside, StateMutexFree, CleanupRetired, IoBound
  <1>5. ASSUME MaxKeyRejections = 0
        PROVE  GateBound'
    BY <1>5 DEF GateBound, InGate, ResetOutside, StateMutexFree, IoBound
  <1>6. ASSUME MaxKeyRejections = 0
        PROVE  SavedStored'
    BY <1>6 DEF SavedStored, GateAlone, GateBound, InGate, StateMutexFree, StoredKey, IoBound
  <1>7. QED
    BY <1>1, <1>2, <1>3, <1>4, <1>5, <1>6

\* EndPersist keeps to the gate.
LEMMA EndPersistGate ==
  ASSUME LifecycleInv, GateInv, NEW t \in Task, EndPersist(t)
  PROVE  GateInv'
  <1> USE DEF LifecycleInv, LifecycleTypeOK, GateInv, EndPersist, LocalIo
  <1>1. GateAlone'
    BY DEF GateAlone, InGate, StateMutexFree, IoBound
  <1>2. InvalidatedRetired'
    BY DEF InvalidatedRetired, CleanupRetired
  <1>3. ForeignIo'
    BY DEF ForeignIo, StoredKey
  <1>4. ResetOutside'
    BY DEF ResetOutside, StateMutexFree, CleanupRetired, IoBound
  <1>5. ASSUME MaxKeyRejections = 0
        PROVE  GateBound'
    BY <1>5 DEF GateBound, InGate, ResetOutside, StateMutexFree, IoBound
  <1>6. ASSUME MaxKeyRejections = 0
        PROVE  SavedStored'
    BY <1>6 DEF SavedStored, GateAlone, GateBound, InGate, StateMutexFree, StoredKey, IoBound
  <1>7. QED
    BY <1>1, <1>2, <1>3, <1>4, <1>5, <1>6

\* FailIo keeps to the gate.
LEMMA FailIoGate ==
  ASSUME LifecycleInv, GateInv, NEW t \in Task, FailIo(t)
  PROVE  GateInv'
  <1> USE DEF LifecycleInv, LifecycleTypeOK, GateInv, FailIo, StorageFailure, MayFail, LocalIo
  <1>1. GateAlone'
    BY DEF GateAlone, InGate, StateMutexFree, IoBound
  <1>2. InvalidatedRetired'
    BY DEF InvalidatedRetired, CleanupRetired
  <1>3. ForeignIo'
    BY DEF ForeignIo, StoredKey
  <1>4. ResetOutside'
    BY DEF ResetOutside, StateMutexFree, CleanupRetired, IoBound
  <1>5. ASSUME MaxKeyRejections = 0
        PROVE  GateBound'
    BY <1>5 DEF GateBound, InGate, ResetOutside, StateMutexFree, IoBound
  <1>6. ASSUME MaxKeyRejections = 0
        PROVE  SavedStored'
    BY <1>6 DEF SavedStored, GateAlone, GateBound, InGate, StateMutexFree, StoredKey, IoBound
  <1>7. QED
    BY <1>1, <1>2, <1>3, <1>4, <1>5, <1>6

\* ClearSession keeps to the gate.
LEMMA ClearSessionGate ==
  ASSUME LifecycleInv, GateInv, NEW g \in Grant, ClearSession(g)
  PROVE  GateInv'
  <1> USE DEF LifecycleInv, LifecycleTypeOK, GateInv, ClearSession, StoreBecomes, WithoutSession, StorageFailure, MayFail, processVars
  <1>1. GateAlone'
    BY DEF GateAlone, InGate, StateMutexFree, IoBound
  <1>2. InvalidatedRetired'
    BY DEF InvalidatedRetired, CleanupRetired
  <1>3. ForeignIo'
    BY DEF ForeignIo, StoredKey
  <1>4. ResetOutside'
    BY DEF ResetOutside, StateMutexFree, CleanupRetired, IoBound
  <1>5. ASSUME MaxKeyRejections = 0
        PROVE  GateBound'
    BY <1>5 DEF GateBound, InGate, ResetOutside, StateMutexFree, IoBound
  <1>6. ASSUME MaxKeyRejections = 0
        PROVE  SavedStored'
    BY <1>6 DEF SavedStored, GateAlone, GateBound, InGate, StateMutexFree, StoredKey, IoBound
  <1>7. QED
    BY <1>1, <1>2, <1>3, <1>4, <1>5, <1>6

\* ClearInstallation keeps to the gate.
LEMMA ClearInstallationGate ==
  ASSUME LifecycleInv, GateInv, NEW c \in Coord, ClearInstallation(c)
  PROVE  GateInv'
  <1> USE DEF LifecycleInv, LifecycleTypeOK, GateInv, ClearInstallation, StoreBecomes, WithoutInstallation, StorageFailure, MayFail, processVars
  <1>1. GateAlone'
    BY DEF GateAlone, InGate, StateMutexFree, IoBound
  <1>2. InvalidatedRetired'
    BY DEF InvalidatedRetired, CleanupRetired
  <1>3. ForeignIo'
    BY DEF ForeignIo, StoredKey
  <1>4. ResetOutside'
    BY DEF ResetOutside, StateMutexFree, CleanupRetired, IoBound
  <1>5. ASSUME MaxKeyRejections = 0
        PROVE  GateBound'
    BY <1>5 DEF GateBound, InGate, ResetOutside, StateMutexFree, IoBound
  <1>6. ASSUME MaxKeyRejections = 0
        PROVE  SavedStored'
    BY <1>6 DEF SavedStored, GateAlone, GateBound, InGate, StateMutexFree, StoredKey, IoBound
  <1>7. QED
    BY <1>1, <1>2, <1>3, <1>4, <1>5, <1>6

\* Crash keeps to the gate.
LEMMA CrashGate ==
  ASSUME LifecycleInv, GateInv, Crash
  PROVE  GateInv'
  <1> USE DEF LifecycleInv, LifecycleTypeOK, GateInv, Crash, MayFail, ProcessForgotten, deviceVars
  <1>1. GateAlone'
    BY DEF GateAlone, InGate, StateMutexFree, IoBound
  <1>2. InvalidatedRetired'
    BY DEF InvalidatedRetired, CleanupRetired
  <1>3. ForeignIo'
    BY DEF ForeignIo, StoredKey
  <1>4. ResetOutside'
    BY DEF ResetOutside, StateMutexFree, CleanupRetired, IoBound
  <1>5. ASSUME MaxKeyRejections = 0
        PROVE  GateBound'
    BY <1>5 DEF GateBound, InGate, ResetOutside, StateMutexFree, IoBound
  <1>6. ASSUME MaxKeyRejections = 0
        PROVE  SavedStored'
    BY <1>6 DEF SavedStored, GateAlone, GateBound, InGate, StateMutexFree, StoredKey, IoBound
  <1>7. QED
    BY <1>1, <1>2, <1>3, <1>4, <1>5, <1>6

\* A step that changes nothing keeps to the gate, and so does every other.
LEMMA StutterGate ==
  ASSUME GateInv, UNCHANGED lifecycleVars
  PROVE  GateInv'
  BY DEF lifecycleVars, deviceVars, processVars, GateInv, GateAlone, InGate, InvalidatedRetired,
         ForeignIo, ResetOutside, StateMutexFree, GateBound, SavedStored

LEMMA NextGate ==
  ASSUME LifecycleInv, GateInv, [LifecycleNext]_lifecycleVars
  PROVE  GateInv'
  <1>1. CASE UNCHANGED lifecycleVars
    BY <1>1, StutterGate
  <1>2. CASE \E c \in Coord : Open(c) \/ ClearInstallation(c)
    BY <1>2, OpenGate, ClearInstallationGate
  <1>3. CASE \E x \in Caller, c \in Coord : BeginCleanup(x, c)
    BY <1>3, BeginCleanupGate
  <1>4. CASE \E x \in Caller : CleanupStep(x)
    BY <1>4, EnterCleanupGate, ClearStateGate, ResetKeyGate DEF CleanupStep
  <1>5. CASE \E t \in Task, c \in Coord : BeginLoad(t, c)
    BY <1>5, BeginLoadGate
  <1>6. CASE \E t \in Task, c \in Coord, g \in Grant : BeginPersist(t, c, g)
    BY <1>6, BeginPersistGate
  <1>7. CASE \E t \in Task : LoadStep(t) \/ PersistStep(t) \/ FailIo(t)
    BY <1>7, EndLoadGate, ClearForeignGate, SaveGate, EndPersistGate, FailIoGate
       DEF LoadStep, PersistStep
  <1>8. CASE \E g \in Grant : ClearSession(g)
    BY <1>8, ClearSessionGate
  <1>9. CASE RejectKey \/ Crash
    BY <1>9, RejectKeyGate, CrashGate
  <1>10. QED
    BY <1>1, <1>2, <1>3, <1>4, <1>5, <1>6, <1>7, <1>8, <1>9 DEF LifecycleNext

\* persistIfActive is a critical section of its identity: what its checks found, and
\* what it saved, holds to its end, whatever other clients, clean-ups and failures do
\* (InstallationKeyLifecycle.kt:50-67).
THEOREM PersistGate == LifecycleSpec => []GateInv
  <1>1. LifecycleInit => GateInv
    BY DEF LifecycleInit, GateInv, GateAlone, InGate, InvalidatedRetired, ForeignIo,
           ResetOutside, GateBound, SavedStored
  <1>2. LifecycleInv /\ GateInv /\ [LifecycleNext]_lifecycleVars => GateInv'
    BY NextGate
  <1>3. QED
    BY <1>1, <1>2, LifecycleInvariant, PTL DEF LifecycleSpec
================================================================================
