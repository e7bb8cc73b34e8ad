------------------------------ MODULE RootSession ------------------------------
(***************************************************************************)
(* The root session of the SDK (SessionCoordinator.kt): callers of several *)
(* clients share one installation slot.  A call to currentSession joins    *)
(* the task its coordinator has in flight or starts one; tasks of all      *)
(* clients take a process-wide session lock, load the persisted grant and  *)
(* return it, rotate its refresh token, or establish a new session; the    *)
(* grant is persisted through module InstallationLifecycle.  Calls also    *)
(* revoke, mark revoked, clear and close.  The gateway is external.        *)
(*                                                                         *)
(* Time is abstract: a stored grant may be found fresh, due for refresh or *)
(* past its refresh expiry at any load.                                    *)
(***************************************************************************)
EXTENDS InstallationLifecycle

CONSTANTS
    Operations,  \* calls the application makes
    Gateway      \* what the gateway does besides serving: nonce challenges, requests
                 \* that fail, sessions that need renewal, identities it bans

ASSUME OperationsAssumption ==
    Operations \subseteq {"use", "refresh", "revoke", "mark", "clear", "close"}
ASSUME GatewayAssumption == Gateway \subseteq {"nonce", "fail", "renew", "ban"}
ASSUME TaskAssumption == None \notin Task

VARIABLES
    task,    \* inFlightSession and earlier, cancelled tasks not yet finished
    caller,  \* application threads inside an SDK call
    closed,  \* coordinators whose scope was cancelled by close()
    \* The gateway.
    issued,  \* serials of the grants issued so far
    live,    \* grants whose refresh token the gateway honours
    spent,   \* grants whose refresh token was rotated away
    banned,  \* revoked identities
    orphans, \* refresh requests under way although their task was cancelled
    \* History.
    lost,    \* rotated grants whose successor was not persisted by its task
    reused   \* rotated grants whose refresh token was presented again

gatewayVars == <<issued, live, spent, banned, orphans, lost, reused>>
sessionVars == <<task, caller, closed, gatewayVars>>
rootVars == <<lifecycleVars, sessionVars>>

TaskPc == {"idle", "queued", "load", "foreign", "establish", "send", "sent",
           "dead", "renew", "persist", "drop"}
CallerPc == {"idle", "await", "resume", "sent", "dead", "terminal", "cleaning",
             "joining", "wiping"}
Request == {"none", "refresh", "exchange"}

\* stored: the grant the task loaded; grant: the one the gateway answered with.
NoTask == [pc |-> "idle", coord |-> None, force |-> FALSE, request |-> "none",
           stored |-> None, grant |-> None, cancelled |-> FALSE, nonce |-> FALSE]
NoCall == [pc |-> "idle", op |-> "none", coord |-> None, task |-> None, grant |-> None]

\* The shape of the variables that the sessions add.
SessionTypeOK ==
    /\ task \in [Task -> [pc : TaskPc, coord : Coord \cup {None}, force : BOOLEAN,
                          request : Request, stored : Grant \cup {None},
                          grant : Grant \cup {None}, cancelled : BOOLEAN, nonce : BOOLEAN]]
    /\ caller \in [Caller -> [pc : CallerPc, op : Operations \cup {"none"},
                              coord : Coord \cup {None}, task : Task \cup {None},
                              grant : Grant \cup {None}]]
    /\ closed \subseteq Coord
    /\ live \cup spent \cup orphans \cup lost \cup reused \subseteq Grant
    /\ banned \subseteq Key
    /\ issued \subseteq Serial

RootInit ==
    /\ LifecycleInit
    /\ task = [t \in Task |-> NoTask]
    /\ caller = [x \in Caller |-> NoCall]
    /\ closed = {}
    /\ issued = {}
    /\ live = {}
    /\ spent = {}
    /\ banned = {}
    /\ orphans = {}
    /\ lost = {}
    /\ reused = {}

--------------------------------------------------------------------------------
(* Helpers. *)

Retired(c) == coordKey[c] \in retired

\* inFlightSession?.takeIf { it.isActive }
InFlight(c) == {t \in Task : task[t].pc # "idle" /\ task[t].coord = c /\ ~task[t].cancelled}

\* scope.cancel() or inFlightSession.cancel(): noticed at the next suspension point.
Cancelled(c) == [t \in Task |-> IF t \in InFlight(c) THEN [task[t] EXCEPT !.cancelled = TRUE]
                                ELSE task[t]]

\* Mutant: every client has a session lock of its own.
SessionLockPerClient(k) == TRUE

\* SessionCoordinationLocks: held from the start of a task's body to its end.
SessionLockFree(k) ==
    \A t \in Task : task[t].pc \notin {"idle", "queued"} => coordKey[task[t].coord] # k

\* A running step of a task of coordinator c; a cancelled task takes none.
Running(t, pc) == task[t].pc = pc /\ ~task[t].cancelled

Goto(t, pc) == task' = [task EXCEPT ![t].pc = pc]

\* Mutant: a clearSession that joined the task goes on only if the task succeeds.
JoinersForgotten(t, outcome, g) ==
    [x \in Caller |->
        IF caller[x].task # t \/ (caller[x].pc = "joining" /\ outcome # "granted") THEN caller[x]
        ELSE CASE outcome = "granted"  -> [caller[x] EXCEPT !.pc = "resume", !.task = None,
                                                            !.grant = g]
               [] outcome = "terminal" -> [caller[x] EXCEPT !.pc = "terminal", !.task = None]
               [] outcome = "failed"   -> NoCall]

\* Deferred completion: every caller awaiting t goes on with the outcome, and a
\* clearSession that joined it goes on whatever the outcome.
Delivered(t, outcome, g) ==
    [x \in Caller |->
        IF caller[x].task # t THEN caller[x]
        ELSE IF caller[x].pc = "joining" THEN [caller[x] EXCEPT !.pc = "wiping", !.task = None]
        ELSE CASE outcome = "granted"  -> [caller[x] EXCEPT !.pc = "resume", !.task = None,
                                                            !.grant = g]
               [] outcome = "terminal" -> [caller[x] EXCEPT !.pc = "terminal", !.task = None]
               [] outcome = "failed"   -> NoCall]

\* The refresh token of the loaded grant has been rotated, or may be yet.
Presented(t) ==
    IF task[t].request = "refresh" /\ (task[t].pc = "sent" \/ task[t].grant # None)
    THEN {task[t].stored} ELSE {}

\* Task t ends; unless it hands out a grant, what it rotated is lost.
Complete(t, outcome, g) ==
    /\ task' = [task EXCEPT ![t] = NoTask]
    /\ caller' = Delivered(t, outcome, g)
    /\ lost' = IF outcome = "granted" THEN lost ELSE lost \cup Presented(t)

--------------------------------------------------------------------------------
(* Session tasks. *)

\* The task's body starts: throwIfInstallationRevoked, then the checks of
\* loadCurrentSignerState.
AcquireSession(t) ==
    LET c == task[t].coord IN
    /\ Running(t, "queued")
    /\ SessionLockFree(coordKey[c])
    /\ \/ Retired(c) /\ Complete(t, "terminal", None) /\ UNCHANGED lifecycleVars
       \/ ~Retired(c) /\ ~IsCurrent(c) /\ Complete(t, "failed", None) /\ UNCHANGED lifecycleVars
       \/ BeginLoad(t, c) /\ Goto(t, "load") /\ UNCHANGED <<caller, lost>>
    /\ UNCHANGED <<closed, issued, live, spent, banned, orphans, reused>>

\* stateStore.load(), and the decision taken on what it holds.
Load(t) ==
    /\ Running(t, "load")
    /\ EndLoad(t)
    /\ \/ /\ io'[t].phase = "foreign"
          /\ Goto(t, "foreign")
          /\ UNCHANGED <<caller, lost>>
       \/ /\ io'[t] = NoIo
          /\ store # None /\ ~task[t].force
          /\ Complete(t, "granted", store)
       \/ /\ io'[t] = NoIo
          /\ store # None
          /\ task' = [task EXCEPT ![t].pc = "send", ![t].request = "refresh",
                                  ![t].stored = store]
          /\ UNCHANGED <<caller, lost>>
       \/ /\ io'[t] = NoIo
          /\ Goto(t, "establish")
          /\ UNCHANGED <<caller, lost>>
    /\ UNCHANGED <<closed, issued, live, spent, banned, orphans, reused>>

\* A grant of another identity is removed and a new session established.
RemoveForeign(t) ==
    /\ Running(t, "foreign")
    /\ ClearForeign(t)
    /\ Goto(t, "establish")
    /\ UNCHANGED <<caller, closed, gatewayVars>>

\* A store operation of the task fails.
StoreFails(t) ==
    /\ ~task[t].cancelled
    /\ FailIo(t)
    /\ injected' # injected
    /\ Complete(t, "failed", None)
    /\ UNCHANGED <<closed, issued, live, spent, banned, orphans, reused>>

\* establishSession up to the exchange: warm-up, identity token, challenge and
\* attestation.  The challenge is signed, and may be refused.
Establish(t) ==
    LET c == task[t].coord IN
    /\ Running(t, "establish")
    /\ \/ /\ ~Retired(c) /\ IsCurrent(c) /\ coordKey[c] \notin banned
          /\ task' = [task EXCEPT ![t].pc = "send", ![t].request = "exchange",
                                  ![t].stored = None, ![t].nonce = FALSE]
          /\ UNCHANGED <<caller, lost>>
       \/ /\ Retired(c) \/ coordKey[c] \in banned
          /\ Complete(t, "terminal", None)
       \/ /\ ~IsCurrent(c) \/ "fail" \in Gateway
          /\ Complete(t, "failed", None)
    /\ UNCHANGED <<lifecycleVars, closed, issued, live, spent, banned, orphans, reused>>

\* executeDpopControl: the retirement check, the proof, the dispatch.
Send(t) ==
    LET c == task[t].coord IN
    /\ Running(t, "send")
    /\ \/ Retired(c) /\ Complete(t, "terminal", None)
       \/ ~Retired(c) /\ ~IsCurrent(c) /\ Complete(t, "failed", None)
       \/ ~Retired(c) /\ IsCurrent(c) /\ Goto(t, "sent") /\ UNCHANGED <<caller, lost>>
    /\ UNCHANGED <<lifecycleVars, closed, issued, live, spent, banned, orphans, reused>>

\* A DPoP nonce challenge is answered once, by the same request again.
NonceChallenge(t) ==
    /\ "nonce" \in Gateway
    /\ Running(t, "sent")
    /\ ~task[t].nonce
    /\ task' = [task EXCEPT ![t].pc = "send", ![t].nonce = TRUE]
    /\ UNCHANGED <<lifecycleVars, caller, closed, gatewayVars>>

FreshGrants(k) == {g \in Grant : g.key = k /\ g.serial \notin issued}

\* External: the gateway handles a refresh token; rotation spends it, a spent one
\* ends every session of the identity, and an unknown one is refused.
GatewayRefresh(g, successor) ==
    IF g \in spent
    THEN /\ reused' = reused \cup {g}
         /\ live' = {h \in live : h.key # g.key}
         /\ UNCHANGED spent
    ELSE /\ live' = IF g \in live THEN (live \ {g}) \cup successor ELSE live
         /\ spent' = IF g \in live THEN spent \cup {g} ELSE spent
         /\ UNCHANGED reused

\* The response to POST /sessions/refresh.
RefreshAnswered(t) ==
    LET g == task[t].stored IN
    /\ Running(t, "sent")
    /\ task[t].request = "refresh"
    /\ \/ /\ g.key \in banned
          /\ Complete(t, "terminal", None)
          /\ UNCHANGED <<issued, live, spent, reused>>
       \/ /\ g.key \notin banned /\ g \notin live
          /\ GatewayRefresh(g, {})
          /\ Goto(t, "dead")
          /\ UNCHANGED <<caller, issued, lost>>
       \/ /\ g.key \notin banned /\ g \in live
          /\ \E s \in FreshGrants(g.key) :
              /\ GatewayRefresh(g, {s})
              /\ issued' = issued \cup {s.serial}
              /\ task' = [task EXCEPT ![t].pc = "persist", ![t].grant = s]
          /\ UNCHANGED <<caller, lost>>
       \/ \* The session needs a new attestation or identity token.
          /\ "renew" \in Gateway
          /\ g.key \notin banned /\ g \in live
          /\ live' = live \ {g}
          /\ Goto(t, "renew")
          /\ UNCHANGED <<caller, issued, lost, spent, reused>>
    /\ UNCHANGED <<lifecycleVars, closed, banned, orphans>>

\* The response to POST /sessions.
ExchangeAnswered(t) ==
    LET k == coordKey[task[t].coord] IN
    /\ Running(t, "sent")
    /\ task[t].request = "exchange"
    /\ \/ /\ k \in banned
          /\ Complete(t, "terminal", None)
          /\ UNCHANGED <<issued, live>>
       \/ /\ k \notin banned
          /\ \E s \in FreshGrants(k) :
              /\ live' = live \cup {s}
              /\ issued' = issued \cup {s.serial}
              /\ task' = [task EXCEPT ![t].pc = "persist", ![t].grant = s]
          /\ UNCHANGED <<caller, lost>>
    /\ UNCHANGED <<lifecycleVars, closed, spent, banned, orphans, reused>>

\* The exchange or refresh fails in transport, before or after the gateway
\* handled it, or is answered with an error that settles nothing.
RequestFails(t) ==
    /\ "fail" \in Gateway
    /\ Running(t, "sent")
    /\ Complete(t, "failed", None)
    /\ \/ UNCHANGED <<live, spent, reused>>
       \/ task[t].request = "refresh" /\ GatewayRefresh(task[t].stored, {})
    /\ UNCHANGED <<lifecycleVars, closed, issued, banned, orphans>>

\* SESSION_REVOKED or REFRESH_TOKEN_REUSED: exactly the refused grant is cleared.
DropDead(t) ==
    /\ Running(t, "dead")
    /\ ClearSession(task[t].stored)
    /\ Complete(t, "failed", None)
    /\ UNCHANGED <<closed, issued, live, spent, banned, orphans, reused>>

\* allowsNewSession: the grant is cleared and a new session established.
DropRenewed(t) ==
    /\ Running(t, "renew")
    /\ ClearSession(task[t].stored)
    /\ IF injected' = injected
       THEN Goto(t, "establish") /\ UNCHANGED <<caller, lost>>
       ELSE Complete(t, "failed", None)
    /\ UNCHANGED <<closed, issued, live, spent, banned, orphans, reused>>

\* Mutant: the gate is taken, and nothing is checked behind it.
StartPersistUnchecked(t) ==
    /\ Running(t, "persist")
    /\ io[t] = NoIo
    /\ StateMutexFree(coordKey[task[t].coord])
    /\ LocalIo(t, [phase |-> "checked", coord |-> task[t].coord, grant |-> task[t].grant])
    /\ UNCHANGED <<store, injected, sessionVars>>

\* persistIfActive, its entry.
StartPersist(t) ==
    LET c == task[t].coord IN
    /\ Running(t, "persist")
    /\ io[t] = NoIo
    /\ StateMutexFree(coordKey[c])
    /\ \/ Retired(c) /\ Complete(t, "terminal", None) /\ UNCHANGED lifecycleVars
       \/ ~Retired(c) /\ ~IsCurrent(c) /\ Goto(t, "drop") /\ UNCHANGED <<lifecycleVars, caller, lost>>
       \/ BeginPersist(t, c, task[t].grant) /\ UNCHANGED <<task, caller, lost>>
    /\ UNCHANGED <<closed, issued, live, spent, banned, orphans, reused>>

\* stateStore.save; its commit runs to its end even if the task is cancelled.
SaveGrant(t) ==
    /\ Save(t)
    /\ UNCHANGED sessionVars

SaveFails(t) ==
    /\ Running(t, "persist")
    /\ io[t].phase = "checked"
    /\ FailIo(t)
    /\ Complete(t, "failed", None)
    /\ UNCHANGED <<closed, issued, live, spent, banned, orphans, reused>>

\* The checks after the save decide whether the grant is handed out.
FinishPersist(t) ==
    LET c == task[t].coord IN
    /\ Running(t, "persist")
    /\ EndPersist(t)
    /\ \/ Retired(c) /\ Complete(t, "terminal", None)
       \/ ~Retired(c) /\ ~IsCurrent(c) /\ Goto(t, "drop") /\ UNCHANGED <<caller, lost>>
       \/ MayPersist(c) /\ Complete(t, "granted", task[t].grant)
    /\ UNCHANGED <<closed, issued, live, spent, banned, orphans, reused>>

\* KEY_UNAVAILABLE while persisting: the grant just saved, if any, is cleared.
DropUnbound(t) ==
    /\ Running(t, "drop")
    /\ ClearSession(task[t].grant)
    /\ Complete(t, "failed", None)
    /\ UNCHANGED <<closed, issued, live, spent, banned, orphans, reused>>

\* A cancelled task ends at a suspension point and releases its locks; a refresh
\* request it sent may still reach the gateway.
CancelTask(t) ==
    /\ task[t].cancelled
    /\ IF io[t] = NoIo THEN UNCHANGED lifecycleVars
       ELSE FailIo(t) /\ UNCHANGED <<store, injected>>
    /\ Complete(t, "failed", None)
    /\ orphans' = IF task[t].pc = "sent" THEN orphans \cup Presented(t) ELSE orphans
    /\ UNCHANGED <<closed, issued, live, spent, banned, reused>>

\* External: an orphaned refresh request arrives, or never does.
OrphanArrives(g) ==
    /\ g \in orphans
    /\ orphans' = orphans \ {g}
    /\ \/ GatewayRefresh(g, {})
       \/ UNCHANGED <<live, spent, reused>>
    /\ UNCHANGED <<lifecycleVars, task, caller, closed, issued, banned, lost>>

--------------------------------------------------------------------------------
(* Calls. *)

Enter(x, value) == caller' = [caller EXCEPT ![x] = value]

\* currentSession up to await: one task in flight per coordinator.  A call on a
\* closed or stale client fails at once and changes nothing.
Call(x, c, op) ==
    LET entered(pc, t) == [pc |-> pc, op |-> op, coord |-> c, task |-> t, grant |-> None] IN
    /\ op \in Operations \cap {"use", "refresh", "revoke"}
    /\ caller[x] = NoCall
    /\ coordKey[c] # None
    /\ \/ /\ Retired(c)
          /\ Enter(x, entered("terminal", None))
          /\ UNCHANGED task
       \/ /\ MayPersist(c) /\ c \notin closed
          /\ \E t \in InFlight(c) : Enter(x, entered("await", t))
          /\ UNCHANGED task
       \/ /\ MayPersist(c) /\ c \notin closed
          /\ InFlight(c) = {}
          /\ \E t \in Task :
              /\ task[t] = NoTask
              /\ task' = [task EXCEPT ![t] = [NoTask EXCEPT !.pc = "queued", !.coord = c,
                                                            !.force = (op = "refresh")]]
              /\ Enter(x, entered("await", t))
    /\ UNCHANGED <<lifecycleVars, closed, gatewayVars>>

\* After await: the checks of ensureInstallationActive, the proof, the dispatch.
\* refresh() has its result already.
Resume(x) ==
    LET c == caller[x].coord IN
    /\ caller[x].pc = "resume"
    /\ Enter(x, IF Retired(c) THEN [caller[x] EXCEPT !.pc = "terminal"]
                ELSE IF ~IsCurrent(c) \/ caller[x].op = "refresh" THEN NoCall
                ELSE [caller[x] EXCEPT !.pc = "sent"])
    /\ UNCHANGED <<lifecycleVars, task, closed, gatewayVars>>

\* External: a protected request is answered.  204 to the DELETE of "revoke"
\* makes the caller clean up, as a terminal refusal does.
RequestAnswered(x) ==
    LET g == caller[x].grant
        goes(pc) == Enter(x, [caller[x] EXCEPT !.pc = pc]) IN
    /\ caller[x].pc = "sent"
    /\ \/ g.key \in banned /\ goes("terminal") /\ UNCHANGED banned
       \/ g.key \notin banned /\ g \notin live /\ goes("dead") /\ UNCHANGED banned
       \/ g.key \notin banned /\ caller[x].op = "use" /\ Enter(x, NoCall) /\ UNCHANGED banned
       \/ /\ caller[x].op = "revoke"
          /\ banned' = banned \cup {g.key}
          /\ goes("terminal")
       \/ \* No answer, although the request may have been served.
          /\ Enter(x, NoCall)
          /\ banned' \in {banned, IF caller[x].op = "revoke" THEN banned \cup {g.key} ELSE banned}
    /\ UNCHANGED <<lifecycleVars, task, closed, issued, live, spent, orphans, lost, reused>>

\* A refused access token: executeProtected, or clearSessionIfCurrent from the
\* OkHttp authenticator, clears the session it belonged to.
DropRefused(x) ==
    /\ caller[x].pc = "dead"
    /\ ClearSession(caller[x].grant)
    /\ Enter(x, NoCall)
    /\ UNCHANGED <<task, closed, gatewayVars>>

\* markCurrentInstallationRevoked, and clearSession on a retired identity.
Mark(x, c) ==
    /\ caller[x] = NoCall
    /\ coordKey[c] # None
    /\ \/ "mark" \in Operations
       \/ "clear" \in Operations /\ Retired(c)
    /\ Enter(x, [NoCall EXCEPT !.pc = "terminal", !.coord = c])
    /\ UNCHANGED <<lifecycleVars, task, closed, gatewayVars>>

\* cleanupRevokedInstallation: the mark, then the cancellation of the task in flight.
StartCleanup(x) ==
    LET c == caller[x].coord IN
    /\ caller[x].pc = "terminal"
    /\ BeginCleanup(x, c)
    /\ task' = Cancelled(c)
    /\ Enter(x, [caller[x] EXCEPT !.pc = "cleaning"])
    /\ UNCHANGED <<closed, gatewayVars>>

RunCleanup(x) ==
    /\ CleanupStep(x)
    /\ caller' = IF cleanup'[x] = NoCleanup THEN [caller EXCEPT ![x] = NoCall] ELSE caller
    /\ UNCHANGED <<task, closed, gatewayVars>>

\* clearSession: cancel the task in flight, ...
Clear(x, c) ==
    LET entered(pc, t) == [pc |-> pc, op |-> "clear", coord |-> c, task |-> t, grant |-> None] IN
    /\ "clear" \in Operations
    /\ caller[x] = NoCall
    /\ coordKey[c] # None /\ ~Retired(c)
    /\ task' = Cancelled(c)
    /\ \/ \E t \in InFlight(c) : Enter(x, entered("joining", t))
       \/ InFlight(c) = {} /\ Enter(x, entered("wiping", None))
    /\ UNCHANGED <<lifecycleVars, closed, gatewayVars>>

\* ... join it, and clear what it may have persisted.
Wipe(x) ==
    /\ caller[x].pc = "wiping"
    /\ ClearInstallation(caller[x].coord)
    /\ Enter(x, NoCall)
    /\ UNCHANGED <<task, closed, gatewayVars>>

Close(c) ==
    /\ "close" \in Operations
    /\ coordKey[c] # None /\ c \notin closed
    /\ closed' = closed \cup {c}
    /\ task' = Cancelled(c)
    /\ UNCHANGED <<lifecycleVars, caller, gatewayVars>>

\* A caller that is cancelled while it waits leaves; the task goes on.
Abandon(x) ==
    /\ caller[x].pc \in {"await", "joining"}
    /\ Enter(x, NoCall)
    /\ UNCHANGED <<lifecycleVars, task, closed, gatewayVars>>

--------------------------------------------------------------------------------
(* Environment. *)

OpenClient(c) == Open(c) /\ UNCHANGED sessionVars

KeyRejected == RejectKey /\ UNCHANGED sessionVars

\* External: an operator, or another device of the family, revokes the identity.
Ban(k) ==
    /\ "ban" \in Gateway
    /\ k \in made
    /\ banned' = banned \cup {k}
    /\ UNCHANGED <<lifecycleVars, task, caller, closed, issued, live, spent, orphans, lost, reused>>

ProcessDies ==
    /\ Crash
    /\ task' = [t \in Task |-> NoTask]
    /\ caller' = [x \in Caller |-> NoCall]
    /\ closed' = {}
    /\ lost' = lost \cup UNION {Presented(t) : t \in Task}
    /\ orphans' = orphans \cup UNION {IF task[t].pc = "sent" THEN Presented(t) ELSE {} : t \in Task}
    /\ UNCHANGED <<issued, live, spent, banned, reused>>

TaskStep(t) ==
    \/ AcquireSession(t) \/ Load(t) \/ RemoveForeign(t) \/ StoreFails(t)
    \/ Establish(t) \/ Send(t) \/ NonceChallenge(t)
    \/ RefreshAnswered(t) \/ ExchangeAnswered(t) \/ RequestFails(t)
    \/ DropDead(t) \/ DropRenewed(t)
    \/ StartPersist(t) \/ SaveGrant(t) \/ SaveFails(t) \/ FinishPersist(t) \/ DropUnbound(t)
    \/ CancelTask(t)

CallerStep(x) ==
    \/ Resume(x) \/ RequestAnswered(x) \/ DropRefused(x)
    \/ StartCleanup(x) \/ RunCleanup(x) \/ Wipe(x)

RootNext ==
    \/ \E t \in Task : TaskStep(t)
    \/ \E x \in Caller : CallerStep(x) \/ Abandon(x)
    \/ \E x \in Caller, c \in Coord :
        \/ \E op \in Operations : Call(x, c, op)
        \/ Mark(x, c)
        \/ Clear(x, c)
    \/ \E c \in Coord : OpenClient(c) \/ Close(c)
    \/ \E g \in orphans : OrphanArrives(g)
    \/ \E k \in Key : Ban(k)
    \/ KeyRejected
    \/ ProcessDies

RootSpec == RootInit /\ [][RootNext]_rootVars

\* Steps that wait for a mutex or the session lock, and steps that wait for nothing.
TaskWaits(t) ==
    \/ AcquireSession(t) \/ StartPersist(t)
    \/ DropDead(t) \/ DropRenewed(t) \/ DropUnbound(t) \/ RemoveForeign(t)
TaskRuns(t) ==
    \/ Load(t) \/ Establish(t) \/ Send(t) \/ SaveGrant(t) \/ FinishPersist(t)
    \/ RefreshAnswered(t) \/ ExchangeAnswered(t) \/ RequestFails(t)
    \/ CancelTask(t)
CallerWaits(x) == RunCleanup(x) \/ DropRefused(x) \/ Wipe(x)
CallerRuns(x) == Resume(x) \/ RequestAnswered(x) \/ StartCleanup(x)

\* Coroutines run on and mutexes are granted in order of arrival.  An OkHttp
\* control call ends, by its timeouts if not by an answer.  Nothing is assumed of
\* the application's calls.
RootFairness ==
    /\ \A t \in Task : SF_rootVars(TaskWaits(t)) /\ WF_rootVars(TaskRuns(t))
    /\ \A x \in Caller : SF_rootVars(CallerWaits(x)) /\ WF_rootVars(CallerRuns(x))

RootFairSpec == RootSpec /\ RootFairness

--------------------------------------------------------------------------------
(* Properties. *)

\* A refresh token is presented a second time only if the outcome of its first
\* presentation never reached the store: concurrent calls, of one client or of
\* several, do not make the gateway see a replay (docs/architecture.md:124-125).
ReplayOnlyAfterLoss == reused \subseteq lost

HonouredGrantStored == store \in live /\ StoredKey = aliasKey /\ StoredKey \notin retired

ClearRequested(k) ==
    \E x \in Caller : caller[x].pc = "wiping" /\ coordKey[caller[x].coord] = k

\* The persisted grant the gateway still honours stays in the store until a
\* newer one of the same installation replaces it, unless the application clears
\* the session, the identity is retired or a store operation fails: answers to
\* requests of earlier sessions do not erase it (docs/architecture.md:126-127).
HonouredGrantKept ==
    [][store' # store /\ HonouredGrantStored
        => StoredKey' = StoredKey \/ injected' # injected \/ ClearRequested(StoredKey)]_rootVars

\* A call that goes on with a grant goes on with the persisted one: what one
\* client uses is what its peers and the next process will rotate (a file that
\* does not decrypt is removed by whoever loads it).
GrantedIsStored ==
    [][\A x \in Caller : caller'[x].pc = "resume" /\ caller[x].pc # "resume"
        => store' = caller'[x].grant \/ (store' = None /\ injected.failure > 0)]_rootVars

\* Every call returns, whatever other calls do meanwhile.
CallsReturn == \A x \in Caller : caller[x] # NoCall ~> caller[x] = NoCall
================================================================================
