------------------------- MODULE InstallationLifecycle -------------------------
(***************************************************************************)
(* One installation slot of the Android SDK, shared by every SDK client of *)
(* a process: the Keystore alias, the encrypted session file, and the      *)
(* process-wide registry of retired identities that keeps the two          *)
(* consistent (InstallationKeyLifecycle.kt, the clean-up and persistence   *)
(* paths of SessionCoordinator.kt, and the Android signer and store).      *)
(*                                                                         *)
(* Coordinators are created over the alias and stay bound to the key they  *)
(* found there.  Session tasks load and persist grants; callers retire an  *)
(* identity and clean up after it.  What a task obtains from the gateway,  *)
(* and why a caller retires an identity, is module RootSession's business: *)
(* here both may happen at any time.                                       *)
(***************************************************************************)
EXTENDS Naturals

CONSTANTS
    Key,                 \* installation key identities (JKTs)
    Serial,              \* access-token fingerprints of grants
    Coord,               \* SessionCoordinator instances of the process
    Task,                \* session tasks (scope.async in currentSession)
    Caller,              \* application threads inside an SDK call
    None,
    MaxStorageFailures,  \* bound: failed or corrupt store and key operations
    MaxCrashes,          \* bound: process deaths
    MaxKeyRejections     \* bound: keys deleted by createLocked's backing policy

\* A SessionSnapshot, as far as the stores and the retirement registry look at it.
Grant == [key : Key, serial : Serial]

ASSUME NoneAssumption == None \notin Key \cup Coord \cup Grant
ASSUME BoundAssumption ==
    MaxStorageFailures \in Nat /\ MaxCrashes \in Nat /\ MaxKeyRejections \in Nat

VARIABLES
    \* The device.
    aliasKey,    \* key under the Keystore alias
    made,        \* keys generated so far
    store,       \* persisted SessionSnapshot
    \* The process.
    coordKey,    \* signerIdentity of each coordinator, None before it exists
    retired,     \* InstallationKeyRetirements: Retirement.retired
    resetDone,   \* InstallationKeyRetirements: Retirement.keyResetComplete
    invalidated, \* coordinators whose AliasBoundInstallationKey is invalidated
    cleaned,     \* coordinators with revocationCleanupComplete
    cleanup,     \* each caller's progress in cleanupRevokedInstallation
    io,          \* each task's operation on the store
    \* History and bounds.
    wiped,       \* identities whose clean-up some caller saw complete
    injected     \* failures, crashes and key rejections so far

deviceVars == <<aliasKey, made, store>>
processVars == <<coordKey, retired, resetDone, invalidated, cleaned, cleanup, io>>
lifecycleVars == <<deviceVars, processVars, wiped, injected>>

CleanupPc == {"idle", "waiting", "clear", "reset"}
IoPhase == {"idle", "loading", "foreign", "checked", "saved"}

NoCleanup == [pc |-> "idle", coord |-> None, failed |-> FALSE]
NoIo == [phase |-> "idle", coord |-> None, grant |-> None]

LifecycleTypeOK ==
    /\ aliasKey \in Key \cup {None}
    /\ made \subseteq Key
    /\ store \in Grant \cup {None}
    /\ coordKey \in [Coord -> Key \cup {None}]
    /\ retired \subseteq Key
    /\ resetDone \subseteq Key
    /\ invalidated \subseteq Coord
    /\ cleaned \subseteq Coord
    /\ cleanup \in [Caller -> [pc : CleanupPc, coord : Coord \cup {None}, failed : BOOLEAN]]
    /\ io \in [Task -> [phase : IoPhase, coord : Coord \cup {None}, grant : Grant \cup {None}]]
    /\ wiped \subseteq Key
    /\ injected \in [failure : Nat, crash : Nat, rejection : Nat]

LifecycleInit ==
    /\ aliasKey = None
    /\ made = {}
    /\ store = None
    /\ coordKey = [c \in Coord |-> None]
    /\ retired = {}
    /\ resetDone = {}
    /\ invalidated = {}
    /\ cleaned = {}
    /\ cleanup = [x \in Caller |-> NoCleanup]
    /\ io = [t \in Task |-> NoIo]
    /\ wiped = {}
    /\ injected = [failure |-> 0, crash |-> 0, rejection |-> 0]

--------------------------------------------------------------------------------
(* Guards and helpers. *)

\* AliasBoundInstallationKey.isCurrent
IsCurrent(c) == c \notin invalidated /\ aliasKey = coordKey[c]

\* ensureInstallationMayPersist: throwIfInstallationRevoked, ensureSignerCurrent
MayPersist(c) == coordKey[c] \notin retired /\ IsCurrent(c)

\* Mutant: clean-up does not wait for a grant that is being persisted.
StateMutexIgnored(k) == TRUE

\* The identity's stateMutex is held exactly from persistIfActive's check to its end.
StateMutexFree(k) ==
    \A t \in Task : io[t].phase \in {"checked", "saved"} => io[t].grant.key # k

StoredKey == IF store = None THEN None ELSE store.key

\* clearIfInstallation
WithoutInstallation(k) == IF StoredKey = k THEN None ELSE store

\* Mutant: a stored grant is taken for the refused one if its installation matches.
WithoutAnySession(g) == IF StoredKey = g.key THEN None ELSE store

\* clearIfSession
WithoutSession(g) == IF store = g THEN None ELSE store

MayFail(kind, bound) ==
    /\ injected[kind] < bound
    /\ injected' = [injected EXCEPT ![kind] = @ + 1]

\* A store operation that fails leaves the file alone or, when the file does
\* not decrypt, removes it (corruptState).
StorageFailure ==
    /\ MayFail("failure", MaxStorageFailures)
    /\ store' \in {store, None}

--------------------------------------------------------------------------------
(* Coordinators and their key. *)

\* AndroidKeystoreInstallationSigner.create under the alias lock, then a coordinator.
Open(c) ==
    /\ coordKey[c] = None
    /\ \E k \in Key :
        /\ IF aliasKey = None THEN k \notin made ELSE k = aliasKey
        /\ aliasKey' = k
        /\ made' = made \cup {k}
        /\ coordKey' = [coordKey EXCEPT ![c] = k]
    /\ UNCHANGED <<store, retired, resetDone, invalidated, cleaned, cleanup, io, wiped, injected>>

\* createLocked under a policy that refuses software-backed keys: the key is
\* deleted, whoever uses it, and the client is not created.
RejectKey ==
    /\ MayFail("rejection", MaxKeyRejections)
    /\ aliasKey' = None
    /\ UNCHANGED <<made, store, processVars, wiped>>

--------------------------------------------------------------------------------
(* cleanupRevokedInstallation, run by caller x on coordinator c. *)

\* markInstallationRevoked.  The coordinator's own installationRevoked flag is
\* set with the registry entry and every test reads both, so one stands for both.
BeginCleanup(x, c) ==
    /\ cleanup[x] = NoCleanup
    /\ coordKey[c] # None
    /\ retired' = retired \cup {coordKey[c]}
    /\ cleanup' = [cleanup EXCEPT ![x] = [pc |-> "waiting", coord |-> c, failed |-> FALSE]]
    /\ UNCHANGED <<deviceVars, coordKey, resetDone, invalidated, cleaned, io, wiped, injected>>

\* revocationMutex.withLock; a coordinator already cleaned returns at once.
EnterCleanup(x) ==
    LET c == cleanup[x].coord IN
    /\ cleanup[x].pc = "waiting"
    /\ \A y \in Caller : cleanup[y].pc \in {"clear", "reset"} => cleanup[y].coord # c
    /\ cleanup' = [cleanup EXCEPT ![x] = IF c \in cleaned THEN NoCleanup
                                         ELSE [@ EXCEPT !.pc = "clear"]]
    /\ UNCHANGED <<deviceVars, coordKey, retired, resetDone, invalidated, cleaned, io,
                   wiped, injected>>

\* clearPersistedState(signerIdentity) under the identity's stateMutex; a failure
\* is remembered and the key is reset all the same.
ClearState(x) ==
    LET k == coordKey[cleanup[x].coord] IN
    /\ cleanup[x].pc = "clear"
    /\ StateMutexFree(k)
    /\ \E fails \in BOOLEAN :
        /\ IF fails THEN StorageFailure
                    ELSE store' = WithoutInstallation(k) /\ UNCHANGED injected
        /\ cleanup' = [cleanup EXCEPT ![x] =
                        [pc |-> "reset", coord |-> cleanup[x].coord, failed |-> fails]]
    /\ UNCHANGED <<aliasKey, made, coordKey, retired, resetDone, invalidated, cleaned, io, wiped>>

\* Mutant: whatever key is under the alias is deleted.
AliasDeleted(c) == None

\* AliasBoundInstallationKey.reset: only the key the signer was bound to is deleted.
AliasAfterReset(c) == IF aliasKey = coordKey[c] THEN None ELSE aliasKey

\* revocationCleanupComplete = cleanupFailure == null
CleanupSucceeds(x) == ~cleanup[x].failed

\* resetKey under keyResetMutex, then revocationCleanupComplete.
ResetKey(x) ==
    LET c == cleanup[x].coord
        k == coordKey[c] IN
    /\ cleanup[x].pc = "reset"
    /\ cleanup' = [cleanup EXCEPT ![x] = NoCleanup]
    /\ \/ /\ IF k \in resetDone
             THEN UNCHANGED <<aliasKey, invalidated>>
             ELSE /\ aliasKey' = AliasAfterReset(c)
                  /\ invalidated' = invalidated \cup {c}
          /\ resetDone' = resetDone \cup {k}
          /\ IF CleanupSucceeds(x)
             THEN cleaned' = cleaned \cup {c} /\ wiped' = wiped \cup {k}
             ELSE UNCHANGED <<cleaned, wiped>>
          /\ UNCHANGED injected
       \/ /\ k \notin resetDone
          /\ MayFail("failure", MaxStorageFailures)
          /\ invalidated' = invalidated \cup {c}
          /\ UNCHANGED <<aliasKey, resetDone, cleaned, wiped>>
    /\ UNCHANGED <<made, store, coordKey, retired, io>>

--------------------------------------------------------------------------------
(* Store operations of session task t of coordinator c. *)

LocalIo(t, value) ==
    /\ io' = [io EXCEPT ![t] = value]
    /\ UNCHANGED <<aliasKey, made, coordKey, retired, resetDone, invalidated, cleaned,
                   cleanup, wiped>>

\* loadCurrentSignerState, up to stateStore.load().
BeginLoad(t, c) ==
    /\ io[t] = NoIo
    /\ coordKey[c] # None
    /\ MayPersist(c)
    /\ LocalIo(t, [phase |-> "loading", coord |-> c, grant |-> None])
    /\ UNCHANGED <<store, injected>>

\* stateStore.load(): a grant of another key goes on to be cleared.
EndLoad(t) ==
    /\ io[t].phase = "loading"
    /\ LocalIo(t, IF StoredKey \in {None, coordKey[io[t].coord]} THEN NoIo
                  ELSE [phase |-> "foreign", coord |-> io[t].coord, grant |-> store])
    /\ UNCHANGED <<store, injected>>

\* clearPersistedState(stored.installation.dpopJkt)
ClearForeign(t) ==
    /\ io[t].phase = "foreign"
    /\ StateMutexFree(io[t].grant.key)
    /\ store' = WithoutInstallation(io[t].grant.key)
    /\ LocalIo(t, NoIo)
    /\ UNCHANGED injected

\* persistIfActive: the mutex, the retirement check, ensureInstallationMayPersist.
BeginPersist(t, c, g) ==
    /\ io[t] = NoIo
    /\ coordKey[c] # None
    /\ g.key = coordKey[c]
    /\ StateMutexFree(g.key)
    /\ MayPersist(c)
    /\ LocalIo(t, [phase |-> "checked", coord |-> c, grant |-> g])
    /\ UNCHANGED <<store, injected>>

\* Mutant: the result of the commit is ignored, and it did not happen.
SaveUnconfirmed(t) ==
    /\ io[t].phase = "checked"
    /\ LocalIo(t, [io[t] EXCEPT !.phase = "saved"])
    /\ UNCHANGED <<store, injected>>

\* stateStore.save
Save(t) ==
    /\ io[t].phase = "checked"
    /\ store' = io[t].grant
    /\ LocalIo(t, [io[t] EXCEPT !.phase = "saved"])
    /\ UNCHANGED injected

\* The checks after the save, and the end of withLock; whether the grant is
\* handed out is decided by them, the file is not touched.
EndPersist(t) ==
    /\ io[t].phase = "saved"
    /\ LocalIo(t, NoIo)
    /\ UNCHANGED <<store, injected>>

\* An operation that fails, or whose task is cancelled at a suspension point.
FailIo(t) ==
    /\ io[t] # NoIo
    /\ LocalIo(t, NoIo)
    /\ \/ UNCHANGED <<store, injected>>
       \/ io[t].phase \in {"loading", "foreign"} /\ StorageFailure

\* A cleared file, or a failure of the store.
StoreBecomes(value) ==
    \/ store' = value /\ UNCHANGED injected
    \/ StorageFailure

\* clearPersistedSession(fingerprint) of a coordinator bound to the grant's key.
ClearSession(g) ==
    /\ \E c \in Coord : coordKey[c] = g.key
    /\ StateMutexFree(g.key)
    /\ StoreBecomes(WithoutSession(g))
    /\ UNCHANGED <<aliasKey, made, processVars, wiped>>

\* clearPersistedState(signerIdentity) of clearSession().
ClearInstallation(c) ==
    /\ coordKey[c] # None
    /\ StateMutexFree(coordKey[c])
    /\ StoreBecomes(WithoutInstallation(coordKey[c]))
    /\ UNCHANGED <<aliasKey, made, processVars, wiped>>

--------------------------------------------------------------------------------
(* Process death: the device keeps the alias and the file, nothing else. *)

ProcessForgotten ==
    /\ coordKey' = [c \in Coord |-> None]
    /\ retired' = {}
    /\ resetDone' = {}
    /\ invalidated' = {}
    /\ cleaned' = {}
    /\ cleanup' = [x \in Caller |-> NoCleanup]
    /\ io' = [t \in Task |-> NoIo]

Crash ==
    /\ MayFail("crash", MaxCrashes)
    /\ ProcessForgotten
    /\ UNCHANGED <<deviceVars, wiped>>

CleanupStep(x) ==
    \/ EnterCleanup(x)
    \/ ClearState(x)
    \/ ResetKey(x)

LoadStep(t) ==
    \/ EndLoad(t)
    \/ ClearForeign(t)

PersistStep(t) ==
    \/ Save(t)
    \/ EndPersist(t)

LifecycleNext ==
    \/ \E c \in Coord : Open(c) \/ ClearInstallation(c)
    \/ \E x \in Caller, c \in Coord : BeginCleanup(x, c)
    \/ \E x \in Caller : CleanupStep(x)
    \/ \E t \in Task, c \in Coord : BeginLoad(t, c)
    \/ \E t \in Task, c \in Coord, g \in Grant : BeginPersist(t, c, g)
    \/ \E t \in Task : LoadStep(t) \/ PersistStep(t) \/ FailIo(t)
    \/ \E g \in Grant : ClearSession(g)
    \/ RejectKey
    \/ Crash

LifecycleSpec == LifecycleInit /\ [][LifecycleNext]_lifecycleVars

--------------------------------------------------------------------------------
(* Properties. *)

\* An identity whose clean-up completed never comes back: no grant that was in
\* flight, in any client, is persisted for it afterwards, and its key is not
\* under the alias, also after a crash (InstallationKeyLifecycle.kt:50-54).
WipedStaysWiped ==
    \A k \in wiped : aliasKey # k /\ StoredKey # k

\* A stale client never deletes a replacement: the key under the alias leaves it
\* only after its own identity was retired, or because createLocked refused it
\* (InstallationKeyLifecycle.kt:117-121).
KeyLeavesOnlyRetired ==
    [][aliasKey # None /\ aliasKey' # aliasKey
        => aliasKey \in retired \/ injected' # injected]_lifecycleVars

--------------------------------------------------------------------------------
(* The inductive invariant behind WipedStaysWiped. *)

\* A caller inside the clean-up has retired its coordinator's identity.
CleanupRetired ==
    \A x \in Caller : cleanup[x].pc # "idle"
        => cleanup[x].coord \in Coord /\ coordKey[cleanup[x].coord] \in retired

\* What a task persists belongs to its own coordinator's key.
IoBound ==
    \A t \in Task :
        /\ io[t].phase \in {"checked", "saved"}
            => io[t].coord \in Coord /\ io[t].grant \in Grant
               /\ io[t].grant.key = coordKey[io[t].coord]
        /\ io[t].phase = "foreign" => io[t].grant \in Grant

\* Every key in use was generated, so a fresh key is none of them.
KeysMade ==
    /\ {aliasKey, StoredKey} \subseteq made \cup {None}
    /\ \A c \in Coord : coordKey[c] \in made \cup {None}
    /\ retired \cup resetDone \cup wiped \subseteq made

\* The file has been cleared for k by a clean-up that has not failed so far.
Cleared(k) ==
    \/ k \in wiped
    \/ \E x \in Caller :
        cleanup[x].pc = "reset" /\ ~cleanup[x].failed /\ coordKey[cleanup[x].coord] = k

\* From then on no grant of k is on its way into the file.
ClearedClosed ==
    \A k \in Key : Cleared(k)
        => /\ StoredKey # k
           /\ StateMutexFree(k)
           /\ k \in retired \/ \A c \in Coord : coordKey[c] # k

KeyGone == \A k \in resetDone \cup wiped : aliasKey # k

LifecycleInv ==
    /\ LifecycleTypeOK
    /\ CleanupRetired
    /\ IoBound
    /\ KeysMade
    /\ ClearedClosed
    /\ KeyGone

Vault == INSTANCE InstallationVault WITH
    holder <- aliasKey, vault <- StoredKey, used <- made, ended <- wiped

\* The slot keeps the promise of module InstallationVault.
VaultPromise == Vault!VaultSpec
================================================================================
