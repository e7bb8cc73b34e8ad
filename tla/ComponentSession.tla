---------------------------- MODULE ComponentSession ----------------------------
(***************************************************************************)
(* The slot of one delegated component on one device, and the coordinators *)
(* of a process that work on it (ComponentSession.kt).  The slot is the    *)
(* Keystore alias of the component definition and one encrypted file with  *)
(* its session.  A coordinator (ComponentSessionCoordinator) is bound to   *)
(* the key it found at its creation; coordinators of one key share the     *)
(* session lock, those of different keys share nothing but the slot.       *)
(*                                                                         *)
(* Provisioning, opening, the registry and the retirement of registered    *)
(* components, which compose these operations, are in ComponentRegistry.   *)
(***************************************************************************)
EXTENDS Naturals

CONSTANTS
    Key,         \* component keys
    Component,   \* component ids the gateway issues
    Coord,       \* instances of ComponentSessionCoordinator
    Caller,      \* coroutines of the application
    None,
    Use,         \* operations that the application calls
    MaximumToken, MaximumFailures   \* bounds of the model

ASSUME ComponentAssumption ==
    /\ None \notin Key \cup Component \cup Coord
    /\ MaximumToken \in Nat /\ MaximumFailures \in Nat

VARIABLES
    aliasKey,    \* the key under the alias, or None
    made,        \* keys generated so far
    store,       \* the component's file
    coord,       \* the coordinators
    caller,      \* what each coroutine is doing
    issued,      \* External: the key of each component the gateway issued, or None
    revoked,     \* External: components the gateway revoked
    live,        \* External: the refresh token it accepts from a component, 0 for none
    lost,        \* components for which an answer with a new token was lost
    replayed,    \* components that presented a spent refresh token
    done,        \* components that a revocation or a terminal problem retired here
    failures     \* faults so far

slot == <<aliasKey, made, store>>
gateway == <<issued, revoked, live, lost, replayed>>
sessionVars == <<slot, coord, caller, gateway, done, failures>>

\* ComponentSessionSnapshot
Snapshot == [key : Key \cup {None}, component : Component \cup {None}, token : 0 .. MaximumToken]
Empty == [key |-> None, component |-> None, token |-> 0]

\* given: a client with this coordinator was returned to the application.
Unopened == [key |-> None, invalidated |-> FALSE, accepted |-> FALSE, retired |-> FALSE,
             given |-> FALSE]

Idle == [job |-> "none", pc |-> "idle", on |-> None, snap |-> Empty, holds |-> FALSE,
         after |-> "return"]

Job == {"none", "provision", "rescind", "open", "authorize", "refresh", "clear", "clearIf",
        "terminal", "revoke", "revokeById", "family"}

SessionPc == {"lock", "ensure", "evict", "load", "send", "sent", "preSave", "save", "postSave",
              "clear", "askRevoke", "destroy", "reset", "final", "authorized"}

\* The component session of a provisioning is undone when a step of it throws.
Undone == {"provision", "rescind"}

--------------------------------------------------------------------------------
(* Helpers. *)

KeyOf(x) == coord[caller[x].on].key

\* AliasBoundInstallationKey.isCurrent
Current(n) == ~coord[n].invalidated /\ aliasKey = coord[n].key

\* Mutant: each coordinator has its own session lock.
SessionLockPerCoordinator(n) == \A y \in Caller : ~(caller[y].holds /\ caller[y].on = n)

\* SessionCoordinationLocks: one lock per signer identity.
SessionLockFree(n) ==
    \A y \in Caller : ~(caller[y].holds /\ coord[caller[y].on].key = coord[n].key)

Goto(x, pc) == caller' = [caller EXCEPT ![x].pc = pc]

\* Mutant: an operation that throws leaves the session lock locked.
ReturnHolding(x) ==
    caller' = [caller EXCEPT ![x] =
        IF @.job \in Undone THEN [@ EXCEPT !.pc = "undoStore"]
        ELSE [Idle EXCEPT !.on = caller[x].on, !.holds = caller[x].holds]]

\* The operation ends or throws and releases the session lock.
Return(x) ==
    caller' = [caller EXCEPT ![x] =
        IF @.job \in Undone THEN [@ EXCEPT !.pc = "undoStore", !.holds = FALSE] ELSE Idle]

Fails == failures < MaximumFailures /\ failures' = failures + 1

\* Mutant: the key is left alone.
KeyKept(k) == aliasKey

\* Mutant: whatever key is under the alias is deleted.
KeyDeleted(k) == None

\* AliasBoundInstallationKey.reset and AndroidKeystoreInstallationSigner.destroy
\* delete the key under the alias only if it is k.
WithoutKey(k) == IF aliasKey = k THEN None ELSE aliasKey

Refreshing(x) == caller[x].job \in {"authorize", "refresh"}

\* A key that was reset or replaced makes ensureSignerCurrent destroy the file and
\* throw COMPONENT_KEY_REPLACED: a refresh takes that for a terminal answer, and
\* openComponent retires the slot.
Evict(x) ==
    caller' = [caller EXCEPT
        ![x].pc = "evict",
        ![x].after = IF caller[x].job = "open" THEN "undoStore"
                     ELSE IF Refreshing(x) /\ caller[x].pc \in {"send", "preSave", "postSave"}
                          THEN "destroy" ELSE "return"]

--------------------------------------------------------------------------------
(* The operations of a coordinator. *)

\* The application calls a client it was given.
Start(x, n, job) ==
    /\ caller[x] = Idle
    /\ coord[n].given
    /\ job \in Use \cap {"authorize", "refresh", "clear", "revoke"}
    /\ caller' = [caller EXCEPT ![x] = [Idle EXCEPT !.job = job, !.pc = "lock", !.on = n]]
    /\ UNCHANGED <<slot, coord, gateway, done, failures>>

\* withSession, up to the first suspension under the lock.
Lock(x) ==
    LET n == caller[x].on
        job == caller[x].job
        Enter(pc) == caller' = [caller EXCEPT ![x].pc = pc, ![x].holds = TRUE]
    IN  /\ caller[x].pc = "lock"
        /\ SessionLockFree(n)
        /\ \/ job = "provision" /\ Enter("send")
           \/ job \in {"open", "clearIf"} /\ Enter("ensure")
           \/ job = "clear" /\ Enter("clear")
           \/ job = "terminal" /\ Enter("destroy")
           \/ Refreshing(x) /\ IF coord[n].retired THEN Return(x) ELSE Enter("ensure")
           \/ /\ job \in {"revoke", "rescind"}
              /\ IF coord[n].retired THEN Return(x)
                 ELSE Enter(IF coord[n].accepted THEN "destroy" ELSE "ensure")
        /\ UNCHANGED <<slot, coord, gateway, done, failures>>

\* ensureSignerCurrent of loadCurrent.
Ensure(x) ==
    /\ caller[x].pc = "ensure"
    /\ IF Current(caller[x].on) THEN Goto(x, "load") ELSE Evict(x)
    /\ UNCHANGED <<slot, coord, gateway, done, failures>>

\* stateStore.destroy() before COMPONENT_KEY_REPLACED is thrown.
EvictState(x) ==
    /\ caller[x].pc = "evict"
    /\ \/ /\ store' = Empty
          /\ IF caller[x].after = "return" THEN Return(x) ELSE Goto(x, caller[x].after)
          /\ UNCHANGED failures
       \/ Fails /\ Return(x) /\ UNCHANGED store
    /\ UNCHANGED <<aliasKey, made, coord, gateway, done>>

\* stateStore.load() of loadCurrent, and what the caller of loadCurrent does with it.
Load(x) ==
    LET job == caller[x].job
        Go(pc, holds) == caller' = [caller EXCEPT ![x].pc = pc, ![x].snap = store,
                                                  ![x].holds = holds]
    IN  /\ caller[x].pc = "load"
        /\ \/ /\ store = Empty
              /\ \/ job = "open" /\ Goto(x, "undoStore")
                 \/ job \in {"revoke", "rescind"} /\ Goto(x, "destroy")
                 \/ job \in {"clearIf", "authorize", "refresh"} /\ Return(x)
              /\ UNCHANGED <<store, failures>>
           \/ /\ store # Empty /\ store.key # KeyOf(x)
              /\ Evict(x)
              /\ UNCHANGED <<store, failures>>
           \/ /\ store # Empty /\ store.key = KeyOf(x)
              /\ \/ job = "open" /\ Go("diagnose", FALSE)
                 \/ job = "authorize" /\ Go("final", FALSE)
                 \/ Refreshing(x) /\ (Go("send", TRUE) \/ Return(x))
                 \/ job \in {"revoke", "rescind"} /\ Go("askRevoke", TRUE)
                 \/ /\ job = "clearIf"
                    /\ IF store.token = caller[x].snap.token /\ store.component = caller[x].snap.component
                       THEN Goto(x, "clear") ELSE Return(x)
              /\ UNCHANGED <<store, failures>>
           \/ /\ store # Empty
              /\ Fails /\ Return(x)
              /\ store' = Empty
        /\ UNCHANGED <<aliasKey, made, coord, gateway, done>>

\* executeDpopControl up to the request: the key is checked before and after the proof
\* is signed, and signing with a lost key fails too.
Send(x) ==
    /\ caller[x].pc = "send"
    /\ \/ Current(caller[x].on) /\ Goto(x, "sent")
       \/ ~Current(caller[x].on) /\ (Evict(x) \/ Return(x))
    /\ UNCHANGED <<slot, coord, gateway, done, failures>>

\* External: the gateway accepts the provisioning grant or rotates the refresh token.
Honours(x) ==
    LET c == caller[x].snap.component
    IN  /\ c \notin revoked
        /\ live[c] < MaximumToken
        /\ IF caller[x].job = "provision" THEN live[c] = 0
           ELSE live[c] # 0 /\ live[c] = caller[x].snap.token

\* The answer to a provisioning exchange or a refresh: a new token, a refusal of one
\* of three kinds, or none.
Answered(x) ==
    LET c == caller[x].snap.component
        Spent == Refreshing(x) /\ live[c] # 0 /\ live[c] # caller[x].snap.token
    IN  /\ caller[x].pc = "sent"
        /\ \/ /\ Honours(x)
              /\ live' = [live EXCEPT ![c] = @ + 1]
              /\ \/ /\ caller' = [caller EXCEPT ![x].pc = "preSave",
                                  ![x].snap = [key |-> KeyOf(x), component |-> c, token |-> live[c] + 1]]
                    /\ UNCHANGED lost
                 \/ Return(x) /\ lost' = lost \cup {c}
              /\ UNCHANGED replayed
           \/ /\ Refreshing(x) /\ c \in revoked
              /\ Goto(x, "destroy")
              /\ UNCHANGED <<live, lost, replayed>>
           \/ /\ Refreshing(x) /\ (Spent \/ live[c] = 0)
              /\ replayed' = IF Spent THEN replayed \cup {c} ELSE replayed
              /\ live' = [live EXCEPT ![c] = 0]
              /\ Goto(x, "clear")
              /\ UNCHANGED lost
           \/ Return(x) /\ UNCHANGED <<live, lost, replayed>>
        /\ UNCHANGED <<slot, coord, issued, revoked, done, failures>>

\* saveIfCurrent: check, save, check.
CheckBefore(x) ==
    /\ caller[x].pc = "preSave"
    /\ IF Current(caller[x].on) THEN Goto(x, "save") ELSE Evict(x)
    /\ UNCHANGED <<slot, coord, gateway, done, failures>>

Save(x) ==
    /\ caller[x].pc = "save"
    /\ \/ store' = caller[x].snap /\ Goto(x, "postSave") /\ UNCHANGED <<failures, lost>>
       \/ /\ Fails /\ Return(x)
          /\ lost' = lost \cup {caller[x].snap.component}
          /\ UNCHANGED store
    /\ UNCHANGED <<aliasKey, made, coord, issued, revoked, live, replayed, done>>

CheckAfter(x) ==
    /\ caller[x].pc = "postSave"
    /\ \/ /\ Current(caller[x].on)
          /\ \/ /\ caller[x].job = "provision"
                /\ caller' = [caller EXCEPT ![x].pc = "diagnose", ![x].holds = FALSE]
             \/ /\ caller[x].job = "authorize"
                /\ caller' = [caller EXCEPT ![x].pc = "final", ![x].holds = FALSE]
             \/ caller[x].job = "refresh" /\ Return(x)
       \/ ~Current(caller[x].on) /\ Evict(x)
    /\ UNCHANGED <<slot, coord, gateway, done, failures>>

\* The end of authorize, outside the session lock: proof, check, headers.
Authorize(x) ==
    /\ caller[x].pc = "final"
    /\ \/ Current(caller[x].on) /\ Goto(x, "authorized")
       \/ ~Current(caller[x].on) /\ (Evict(x) \/ Return(x))
    /\ UNCHANGED <<slot, coord, gateway, done, failures>>

\* The gateway answers the authorized request, at any time later: the authenticator clears
\* the session or refreshes it (its follow-up is another authorize), the interceptor
\* applies a terminal problem.
RequestAnswered(x) ==
    LET Then(job) == caller' = [caller EXCEPT ![x].job = job, ![x].pc = "lock"]
    IN  /\ caller[x].pc = "authorized"
        /\ \/ caller' = [caller EXCEPT ![x] = Idle]
           \/ live[caller[x].snap.component] # caller[x].snap.token /\ Then("clearIf")
           \/ "refresh" \in Use /\ Then("refresh")
           \/ caller[x].snap.component \in revoked /\ Then("terminal")
        /\ UNCHANGED <<slot, coord, gateway, done, failures>>

\* stateStore.clear() of clearSession, of clearSessionIfCurrent and after a refusal.
Clear(x) ==
    /\ caller[x].pc = "clear"
    /\ \/ store' = Empty /\ Return(x) /\ UNCHANGED failures
       \/ Fails /\ Return(x) /\ UNCHANGED store
    /\ UNCHANGED <<aliasKey, made, coord, gateway, done>>

\* revoke(): rootCoordinator.revokeComponent, whose answer may be lost.
AskRevoke(x) ==
    LET c == caller[x].snap.component
    IN  /\ caller[x].pc = "askRevoke"
        /\ \/ /\ revoked' = revoked \cup {c}
              /\ \/ /\ coord' = [coord EXCEPT ![caller[x].on].accepted = c \notin revoked]
                    /\ Goto(x, "destroy")
                 \/ Return(x) /\ UNCHANGED coord
           \/ Return(x) /\ UNCHANGED <<coord, revoked>>
        /\ UNCHANGED <<slot, issued, live, lost, replayed, done, failures>>

\* retireLocal: the file, then the key whether or not the file went.
Destroy(x) ==
    /\ caller[x].pc = "destroy"
    /\ \/ store' = Empty /\ Goto(x, "reset") /\ UNCHANGED failures
       \/ /\ Fails
          /\ caller' = [caller EXCEPT ![x].pc = "reset", ![x].after = "failed"]
          /\ UNCHANGED store
    /\ UNCHANGED <<aliasKey, made, coord, gateway, done>>

Reset(x) ==
    LET n == caller[x].on
    IN  /\ caller[x].pc = "reset"
        /\ \/ /\ aliasKey' = WithoutKey(KeyOf(x))
              /\ coord' = [coord EXCEPT ![n].invalidated = TRUE, ![n].retired = TRUE]
              /\ done' = IF caller[x].after = "failed" THEN done
                         ELSE done \cup ({caller[x].snap.component} \ {None})
              /\ UNCHANGED failures
           \/ /\ Fails
              /\ coord' = [coord EXCEPT ![n].invalidated = TRUE]
              /\ UNCHANGED <<aliasKey, done>>
        /\ Return(x)
        /\ UNCHANGED <<made, store, gateway>>

SessionStep(x) ==
    \/ Lock(x) \/ Ensure(x) \/ EvictState(x) \/ Load(x) \/ Send(x) \/ Answered(x)
    \/ CheckBefore(x) \/ Save(x) \/ CheckAfter(x) \/ Authorize(x) \/ RequestAnswered(x)
    \/ Clear(x) \/ AskRevoke(x) \/ Destroy(x) \/ Reset(x)
================================================================================
