--------------------------- MODULE ComponentRegistry ---------------------------
(***************************************************************************)
(* The component slot under LatchwayClient (LatchwayClient.kt): the        *)
(* application provisions, opens, uses and revokes a component, with one   *)
(* or several clients.  Provisioning and opening of one definition are     *)
(* serialized by ComponentProvisioningLocks; the registry file, which says *)
(* what a family revocation has to destroy, by ComponentRegistryLocks.     *)
(* Retirement from the registry takes neither the provisioning lock nor    *)
(* the session lock.                                                       *)
(***************************************************************************)
EXTENDS ComponentSession

CONSTANTS MaximumCrashes, MaximumCancels   \* bounds of the model

ASSUME RegistryAssumption == MaximumCrashes \in Nat /\ MaximumCancels \in Nat

VARIABLES
    registry,  \* the definition's entry in the registry file: component and key
    known,     \* component ids the application has learned
    misnamed,  \* components whose entry was replaced under a foreign component's name
    crashes, cancels

vars == <<sessionVars, registry, known, misnamed, crashes, cancels>>

facade == <<registry, known, misnamed, crashes, cancels>>

Entry == [component : Component \cup {None}, key : Key \cup {None}]
NoEntry == [component |-> None, key |-> None]

FacadePc == {"ask", "diagnose", "register", "undoStore", "undoKey", "askById", "askFamily",
             "retire", "retireStore", "retireKey"}

ComponentTypeOK ==
    /\ aliasKey \in Key \cup {None}
    /\ made \subseteq Key
    /\ store \in Snapshot
    /\ coord \in [Coord -> [key : Key \cup {None}, invalidated : BOOLEAN, accepted : BOOLEAN,
                            retired : BOOLEAN, given : BOOLEAN]]
    /\ caller \in [Caller -> [job : Job, pc : {"idle"} \cup SessionPc \cup FacadePc,
                              on : Coord \cup {None}, snap : Snapshot, holds : BOOLEAN,
                              after : {"return", "undoStore", "destroy", "failed"}]]
    /\ issued \in [Component -> Key \cup {None}]
    /\ revoked \cup lost \cup replayed \cup done \cup known \cup misnamed \subseteq Component
    /\ live \in [Component -> 0 .. MaximumToken]
    /\ registry \in Entry
    /\ failures \in 0 .. MaximumFailures
    /\ crashes \in 0 .. MaximumCrashes
    /\ cancels \in 0 .. MaximumCancels

ComponentInit ==
    /\ aliasKey = None
    /\ made = {}
    /\ store = Empty
    /\ coord = [n \in Coord |-> Unopened]
    /\ caller = [x \in Caller |-> Idle]
    /\ issued = [c \in Component |-> None]
    /\ revoked = {}
    /\ live = [c \in Component |-> 0]
    /\ lost = {}
    /\ replayed = {}
    /\ done = {}
    /\ failures = 0
    /\ registry = NoEntry
    /\ known = {}
    /\ misnamed = {}
    /\ crashes = 0
    /\ cancels = 0

--------------------------------------------------------------------------------
(* Helpers. *)

\* ComponentProvisioningLocks, held over the whole of provisionComponent and openComponent.
ProvisioningLockFree == \A y \in Caller : caller[y].job \notin {"provision", "rescind", "open"}

\* ComponentRegistryLocks
RegistryLockFree == \A y \in Caller : caller[y].pc \notin {"retireStore", "retireKey"}

Unused(n) == ~coord[n].given /\ \A y \in Caller : caller[y].on # n

\* AndroidKeystoreInstallationSigner.create: the key under the alias, or a new one.
CreateSigner(n, k) ==
    /\ IF aliasKey # None THEN k = aliasKey ELSE k \notin made
    /\ aliasKey' = k
    /\ made' = made \cup {k}
    /\ coord' = [coord EXCEPT ![n] = [Unopened EXCEPT !.key = k]]

\* Mutant: a component that could not be registered is returned all the same.
ReturnUnregistered(x) ==
    /\ coord' = [coord EXCEPT ![caller[x].on].given = TRUE]
    /\ caller' = [caller EXCEPT ![x] = Idle]

\* registerComponent failed: provisioning revokes the component before it retires the slot.
Unregistered(x) ==
    /\ UNCHANGED coord
    /\ IF caller[x].job = "provision"
       THEN caller' = [caller EXCEPT ![x].job = "rescind", ![x].pc = "lock"]
       ELSE Goto(x, "undoStore")

--------------------------------------------------------------------------------
(* provisionComponent and openComponent. *)

Provision(x, n, k) ==
    /\ caller[x] = Idle
    /\ Unused(n)
    /\ ProvisioningLockFree
    /\ CreateSigner(n, k)
    /\ caller' = [caller EXCEPT ![x] = [Idle EXCEPT !.job = "provision", !.pc = "ask", !.on = n]]
    /\ UNCHANGED <<store, gateway, done, failures, facade>>

OpenComponent(x, n, k) ==
    /\ caller[x] = Idle
    /\ "open" \in Use
    /\ Unused(n)
    /\ ProvisioningLockFree
    /\ CreateSigner(n, k)
    /\ caller' = [caller EXCEPT ![x] = [Idle EXCEPT !.job = "open", !.pc = "lock", !.on = n]]
    /\ UNCHANGED <<store, gateway, done, failures, facade>>

\* A key the policy refuses is deleted, and the operation fails.
KeyRejected ==
    /\ aliasKey # None
    /\ Fails
    /\ aliasKey' = None
    /\ UNCHANGED <<made, store, coord, caller, gateway, done, facade>>

\* The root asks the gateway for a component (SessionCoordinator.provisionComponentClient).
AskComponent(x) ==
    /\ caller[x].pc = "ask"
    /\ \/ \E c \in Component :
             /\ issued[c] = None
             /\ issued' = [issued EXCEPT ![c] = KeyOf(x)]
             /\ caller' = [caller EXCEPT ![x].pc = "lock", ![x].snap.component = c]
       \/ Return(x) /\ UNCHANGED issued
    /\ UNCHANGED <<slot, coord, revoked, live, lost, replayed, done, failures, facade>>

\* component.diagnostics().componentId, from the file, without the session lock.
Diagnose(x) ==
    LET n == caller[x].on
    IN  /\ caller[x].pc = "diagnose"
        /\ \/ /\ Current(n) /\ store # Empty
              /\ caller' = [caller EXCEPT ![x].pc = "register", ![x].snap = store]
              /\ UNCHANGED coord
           \/ /\ ~Current(n) \/ store = Empty
              /\ IF caller[x].job = "provision" THEN Unregistered(x)
                 ELSE Return(x) /\ UNCHANGED coord
        /\ UNCHANGED <<slot, gateway, done, failures, facade>>

\* ComponentRegistry.register replaces the definition's entry; the client is returned.  The
\* id is the one Diagnose read, whosever the file was then, the key is the signer's.
Register(x) ==
    /\ caller[x].pc = "register"
    /\ RegistryLockFree
    /\ \/ /\ registry' = [component |-> caller[x].snap.component, key |-> KeyOf(x)]
          /\ known' = known \cup {caller[x].snap.component}
          /\ misnamed' = IF caller[x].snap.key = KeyOf(x) THEN misnamed
                         ELSE misnamed \cup ({registry.component} \ {None})
          /\ coord' = [coord EXCEPT ![caller[x].on].given = TRUE]
          /\ caller' = [caller EXCEPT ![x] = Idle]
          /\ UNCHANGED failures
       \/ Fails /\ Unregistered(x) /\ UNCHANGED <<registry, known, misnamed>>
    /\ UNCHANGED <<slot, gateway, done, crashes, cancels>>

\* retireUnregisteredComponent: the file, then the key whether or not the file went.
UndoStore(x) ==
    /\ caller[x].pc = "undoStore"
    /\ \/ store' = Empty /\ UNCHANGED failures
       \/ Fails /\ UNCHANGED store
    /\ caller' = [caller EXCEPT ![x].pc = "undoKey", ![x].holds = FALSE]
    /\ UNCHANGED <<aliasKey, made, coord, gateway, done, facade>>

UndoKey(x) ==
    /\ caller[x].pc = "undoKey"
    /\ \/ aliasKey' = WithoutKey(KeyOf(x)) /\ UNCHANGED failures
       \/ Fails /\ UNCHANGED aliasKey
    /\ coord' = [coord EXCEPT ![caller[x].on].invalidated = TRUE]
    /\ caller' = [caller EXCEPT ![x] = Idle]
    /\ UNCHANGED <<made, store, gateway, done, facade>>

--------------------------------------------------------------------------------
(* revokeComponent, revokeCurrentInstallationFamily and terminal answers for the root. *)

RevokeComponent(x, c) ==
    /\ caller[x] = Idle
    /\ "revokeById" \in Use
    /\ c \in known
    /\ caller' = [caller EXCEPT ![x] = [Idle EXCEPT !.job = "revokeById", !.pc = "askById",
                                                    !.snap.component = c]]
    /\ UNCHANGED <<slot, coord, gateway, done, failures, facade>>

\* The gateway revokes it, or says that it had before; other answers end the call.
AskRevokeById(x) ==
    /\ caller[x].pc = "askById"
    /\ \/ revoked' = revoked \cup {caller[x].snap.component} /\ (Goto(x, "retire") \/ Return(x))
       \/ Return(x) /\ UNCHANGED revoked
    /\ UNCHANGED <<slot, coord, issued, live, lost, replayed, done, failures, facade>>

RevokeFamily(x) ==
    /\ caller[x] = Idle
    /\ "family" \in Use
    /\ caller' = [caller EXCEPT ![x] = [Idle EXCEPT !.job = "family", !.pc = "askFamily"]]
    /\ UNCHANGED <<slot, coord, gateway, done, failures, facade>>

\* The descendants are retired whatever the gateway answered.
AskRevokeFamily(x) ==
    /\ caller[x].pc = "askFamily"
    /\ revoked' \in {revoked, {c \in Component : issued[c] # None}}
    /\ Goto(x, "retire")
    /\ UNCHANGED <<slot, coord, issued, live, lost, replayed, done, failures, facade>>

\* ComponentRegistry.retire and retireAll look for the entry.
Retire(x) ==
    /\ caller[x].pc = "retire"
    /\ RegistryLockFree
    /\ \/ /\ registry # NoEntry
          /\ caller[x].job = "family" \/ registry.component = caller[x].snap.component
          /\ caller' = [caller EXCEPT ![x].pc = "retireStore",
                                      ![x].snap.component = registry.component]
          /\ UNCHANGED done
       \/ /\ caller[x].job = "family" => registry = NoEntry
          /\ caller[x].job # "family" => registry.component # caller[x].snap.component
          /\ done' = done \cup ({caller[x].snap.component} \ {None})
          /\ Return(x)
    /\ UNCHANGED <<slot, coord, gateway, failures, facade>>

RetireStore(x) ==
    /\ caller[x].pc = "retireStore"
    /\ \/ store' = Empty /\ Goto(x, "retireKey") /\ UNCHANGED failures
       \/ /\ Fails
          /\ caller' = [caller EXCEPT ![x].pc = "retireKey", ![x].after = "failed"]
          /\ UNCHANGED store
    /\ UNCHANGED <<aliasKey, made, coord, gateway, done, facade>>

\* AndroidKeystoreInstallationSigner.destroy, and the entry goes if all of it went and the
\* file of the registry is written.
RetireKey(x) ==
    /\ caller[x].pc = "retireKey"
    /\ \/ /\ aliasKey' = WithoutKey(registry.key)
          /\ \/ /\ caller[x].after # "failed"
                /\ registry' = NoEntry
                /\ done' = done \cup {registry.component}
                /\ UNCHANGED failures
             \/ caller[x].after = "failed" /\ UNCHANGED <<registry, done, failures>>
             \/ caller[x].after # "failed" /\ Fails /\ UNCHANGED <<registry, done>>
       \/ Fails /\ UNCHANGED <<aliasKey, registry, done>>
    /\ Return(x)
    /\ UNCHANGED <<made, store, coord, gateway, known, misnamed, crashes, cancels>>

--------------------------------------------------------------------------------
(* The environment. *)

\* External: an operator revokes a component.
OperatorRevokes(c) ==
    /\ "operator" \in Use
    /\ issued[c] # None
    /\ revoked' = revoked \cup {c}
    /\ UNCHANGED <<slot, coord, caller, issued, live, lost, replayed, done, failures, facade>>

Unsaved(x) == IF caller[x].pc \in {"preSave", "save"} THEN {caller[x].snap.component} ELSE {}

\* The coroutine is cancelled at a suspension point that is not in a NonCancellable
\* section; a provisioning, and a registration after opening, is undone all the same.
Cancel(x) ==
    /\ cancels < MaximumCancels
    /\ cancels' = cancels + 1
    /\ caller[x].pc \notin {"idle", "destroy", "reset", "undoStore", "undoKey", "retire",
                            "retireStore", "retireKey"}
    /\ lost' = lost \cup Unsaved(x)
    /\ IF caller[x].job = "family" \/ (caller[x].job = "open" /\ caller[x].pc = "register")
       THEN Goto(x, IF caller[x].job = "family" THEN "retire" ELSE "undoStore")
       ELSE Return(x)
    /\ UNCHANGED <<slot, coord, issued, revoked, live, replayed, done, failures,
                   registry, known, misnamed, crashes>>

\* The process dies; the Keystore and the files stay.
Crash ==
    /\ crashes < MaximumCrashes
    /\ crashes' = crashes + 1
    /\ coord' = [n \in Coord |-> Unopened]
    /\ caller' = [x \in Caller |-> Idle]
    /\ lost' = lost \cup UNION {Unsaved(x) : x \in Caller}
    /\ UNCHANGED <<slot, issued, revoked, live, replayed, done, failures,
                   registry, known, misnamed, cancels>>

CallerStep(x) ==
    \/ SessionStep(x) /\ UNCHANGED facade
    \/ AskComponent(x) \/ Diagnose(x) \/ Register(x) \/ UndoStore(x) \/ UndoKey(x)
    \/ AskRevokeById(x) \/ AskRevokeFamily(x) \/ Retire(x) \/ RetireStore(x) \/ RetireKey(x)

ComponentNext ==
    \/ \E x \in Caller :
          \/ CallerStep(x) \/ Cancel(x) \/ RevokeFamily(x)
          \/ \E n \in Coord, job \in Use : Start(x, n, job) /\ UNCHANGED facade
          \/ \E n \in Coord, k \in Key : Provision(x, n, k) \/ OpenComponent(x, n, k)
          \/ \E c \in Component : RevokeComponent(x, c)
    \/ \E c \in Component : OperatorRevokes(c)
    \/ KeyRejected
    \/ Crash

ComponentSpec == ComponentInit /\ [][ComponentNext]_vars

\* Coroutines run on, mutexes are fair and HTTP calls end, by their timeouts at last.
\* Nothing makes the application call.
ComponentFairness == \A x \in Caller : SF_vars(CallerStep(x))

ComponentFairSpec == ComponentSpec /\ ComponentFairness

--------------------------------------------------------------------------------
(* Properties. *)

\* No operation is under way.
Quiet == \A x \in Caller : caller[x].pc \in {"idle", "authorized"}

\* Beside the types: keys come from the Keystore, one coroutine at a time works on the
\* session of a key, what it saves is of its own key, and the file holds what the
\* gateway issued to the key it names.
ComponentInv ==
    /\ ComponentTypeOK
    /\ {aliasKey, store.key, registry.key} \cup {coord[n].key : n \in Coord} \subseteq made \cup {None}
    /\ \A x, y \in Caller :
          caller[x].holds /\ caller[y].holds /\ KeyOf(x) = KeyOf(y) => x = y
    /\ \A x \in Caller :
          caller[x].pc \in {"preSave", "save"} => caller[x].holds /\ caller[x].snap.key = KeyOf(x)
    /\ store # Empty => issued[store.component] = store.key

\* An independently keyed session is never left untracked: when all is quiet, the
\* registry names the key of the usable session on the device, so that a family
\* revocation destroys both (provisionComponent, with a fault or any cancellations; two
\* faults can leave file and key of a component that could not be registered).
Usable == store # Empty /\ store.key = aliasKey
InRegistry == registry.key = store.key
Tracked == Quiet /\ crashes = 0 /\ failures <= 1 /\ Usable => InRegistry

\* A component that was revoked, or retired after a terminal problem, never is usable
\* on the device again: no late answer saves it back under its key.  Those that lost their
\* entry to a registration that read a foreign file are not found by a revocation.
RevokedGone ==
    \A c \in done \ misnamed : ~(store.component = c /\ store.key = aliasKey)

\* A refresh token is presented twice only if the answer that replaced it was lost.
ComponentReplayOnlyAfterLoss == replayed \subseteq lost

\* A key leaves the alias only because a coordinator bound to it, or the registry entry
\* that names it, was retired: stale clients spare the key that replaced theirs.
ComponentKeySpared ==
    [][ aliasKey # None /\ aliasKey' # aliasKey /\ failures' = failures
        => \/ registry.key = aliasKey
           \/ \E n \in Coord : coord[n].key = aliasKey /\ coord'[n].invalidated ]_vars

\* Every operation ends.
CallsEnd == \A x \in Caller : []<>(caller[x].pc \in {"idle", "authorized"})

\* "Applies a trusted terminal component problem and destroys only this component's
\* state": the file that markTerminal destroys is of the component whose request the
\* gateway refused.
TerminalSparesOthers ==
    [][ \A x \in Caller :
            caller[x].job = "terminal" /\ caller[x].pc = "destroy" /\ caller'[x].pc = "reset"
            /\ store' # store => store.component = caller[x].snap.component ]_vars

Slot == INSTANCE ComponentSlot WITH
    holder <- aliasKey, used <- made, bound <- issued, accepted <- live, file <- store,
    ended <- done, untracked <- misnamed

\* The slot keeps the promise of module ComponentSlot: through races, faults, cancellations
\* and crashes, what is saved is the refresh token the gateway accepts then (saveIfCurrent
\* under the session lock), and a component that is ended never is usable again.
SlotPromise == Slot!SlotSpec
================================================================================
