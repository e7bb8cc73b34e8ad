--------------------------- MODULE RootSessionProofs ---------------------------
(***************************************************************************)
(* Proofs about RootSession for any sets of keys, clients, tasks, callers  *)
(* and tokens, and any number of failures and crashes: every step of the   *)
(* coordinator is a step of InstallationLifecycle or leaves it alone, so   *)
(* its theorems carry over; a refresh token is replayed only if its        *)
(* successor was lost; a grant that is handed out is the persisted one,    *)
(* and one the gateway honours stays in the file.                          *)
(***************************************************************************)
EXTENDS RootSession, InstallationLifecycleProofs

--------------------------------------------------------------------------------
(* The invariant from which ReplayOnlyAfterLoss is proved. *)

KeyOf(t) == coordKey[task[t].coord]
Holding(t) == task[t].pc \notin {"idle", "queued"}

\* The gateway has answered the refresh, and the successor is on its way to the file.
Rotating(t) == task[t].pc \in {"persist", "drop"} /\ task[t].request = "refresh"

\* What a task carries was issued to its coordinator's key.
Carried(t) == {task[t].stored, task[t].grant} \ {None}
TaskBound(t) ==
    /\ task[t].pc # "idle" => task[t].coord \in Coord /\ KeyOf(t) # None
    /\ task[t].request = "refresh" => task[t].stored # None
    /\ task[t].pc \in {"dead", "renew"} => task[t].request = "refresh"
    /\ task[t].pc \in {"persist", "drop"} <=> task[t].grant # None
    /\ \A g \in Carried(t) : Holding(t) /\ g.key = KeyOf(t) /\ g.serial \in issued

\* A token about to be presented is not spent, or was lost; a token about to be
\* saved was never presented.
TaskTokens(t) ==
    /\ task[t].pc \in {"send", "sent"} /\ task[t].request = "refresh" /\ task[t].stored \in spent
        => task[t].stored \in lost
    /\ task[t].grant # None
        => task[t].grant \notin spent \cup orphans /\ task[t].grant # task[t].stored

\* A store operation is the one its task is at; what was saved stays until it ends.
TaskIo(t) ==
    /\ io[t] # NoIo => task[t].pc \in {"load", "foreign", "persist"} /\ io[t].coord = task[t].coord
    /\ io[t].phase \in {"checked", "saved"} => task[t].pc = "persist" /\ io[t].grant = task[t].grant
    /\ io[t].phase = "saved" /\ StoredKey = KeyOf(t) => store = task[t].grant

\* One task per identity is past the session lock, in all clients.
OneHolder == \A t, u \in Task : Holding(t) /\ Holding(u) /\ KeyOf(t) = KeyOf(u) => t = u

\* The stored token is spent only while its successor is on its way, or lost.
StoreFollows ==
    /\ store # None => store.serial \in issued
    /\ store \in spent => store \in lost \/ \E t \in Task : Rotating(t) /\ task[t].stored = store

\* A caller in the midst of a call has a coordinator, and a grant where it uses one.
CallerBound(x) ==
    /\ caller[x].pc # "idle" \/ caller[x].task # None
        => caller[x].coord \in Coord /\ coordKey[caller[x].coord] # None
    /\ caller[x].pc \in {"resume", "sent", "dead"} => caller[x].grant \in Grant

\* Tokens the gateway has seen were issued; what may arrive late counts as lost.
TokensIssued ==
    /\ \A g \in spent \cup orphans : g.serial \in issued
    /\ orphans \subseteq lost

SessionInv ==
    /\ SessionTypeOK
    /\ \A t \in Task : TaskBound(t) /\ TaskTokens(t) /\ TaskIo(t)
    /\ \A x \in Caller : CallerBound(x)
    /\ OneHolder
    /\ StoreFollows
    /\ TokensIssued
    /\ ReplayOnlyAfterLoss

--------------------------------------------------------------------------------
USE NoneAssumption, BoundAssumption, OperationsAssumption, GatewayAssumption, TaskAssumption
USE DEF CleanupPc, IoPhase, NoCleanup, NoIo, Grant, TaskPc, CallerPc, Request, NoTask, NoCall

\* The initial state satisfies the invariant.
LEMMA SessionInitInv ==
  ASSUME RootInit
  PROVE  SessionInv
  <1>1. SessionTypeOK
    BY DEF RootInit, SessionTypeOK
  <1>2. \A t \in Task : TaskBound(t) /\ TaskTokens(t) /\ TaskIo(t)
    BY DEF RootInit, LifecycleInit, TaskBound, Carried, TaskTokens, TaskIo
  <1>3. \A x \in Caller : CallerBound(x)
    BY DEF RootInit, CallerBound
  <1>4. OneHolder /\ StoreFollows /\ TokensIssued /\ ReplayOnlyAfterLoss
    BY DEF RootInit, LifecycleInit, OneHolder, Holding, StoreFollows, TokensIssued, ReplayOnlyAfterLoss
  <1>5. QED
    BY <1>1, <1>2, <1>3, <1>4 DEF SessionInv

--------------------------------------------------------------------------------
(* A step of one task.  `Evolves' is what such a step has to keep to: it leaves
   the other tasks alone, spends no other token than the one it carries, and does
   not forget a spent token that is still stored. *)
TokensEvolve(t) ==
    /\ issued \subseteq issued' /\ lost \subseteq lost'
    /\ spent' \subseteq spent \cup {task[t].stored}
    /\ orphans' \subseteq orphans \cup {task[t].stored}
    /\ orphans' \cup reused' \subseteq lost'

StoredSettled(t) ==
    (Rotating(t) \/ task[t].stored \notin spent) /\ task[t].stored \in spent' /\ store' = task[t].stored
        => task[t].stored \in lost' \/ (Rotating(t)' /\ task'[t].stored = task[t].stored)

LockKept(t) ==
    Holding(t)' => (Holding(t) \/ SessionLockFree(KeyOf(t))) /\ task'[t].coord = task[t].coord

Evolves(t) ==
    /\ UNCHANGED coordKey
    /\ \A u \in Task \ {t} : task'[u] = task[u] /\ io'[u] = io[u]
    /\ store' \in {store, None}
    /\ TokensEvolve(t)
    /\ StoredSettled(t)
    /\ LockKept(t)
    /\ TaskBound(t)' /\ TaskTokens(t)' /\ TaskIo(t)'

\* Such a step preserves the invariant.
LEMMA EvolvesInv ==
  ASSUME SessionInv, NEW t \in Task, Evolves(t), SessionTypeOK', \A x \in Caller : CallerBound(x)'
  PROVE  SessionInv'
  <1>1. \A u \in Task \ {t} : KeyOf(u)' = KeyOf(u) /\ Carried(u)' = Carried(u)
    BY DEF Evolves, KeyOf, Carried
  <1>2. task[t].stored # None => Holding(t) /\ task[t].stored.key = KeyOf(t) /\ task[t].stored.serial \in issued
    BY DEF SessionInv, TaskBound, Carried
  <1>3. ASSUME NEW u \in Task \ {t}, NEW g \in Carried(u)
        PROVE  g # task[t].stored
    <2>1. Holding(u) /\ g.key = KeyOf(u) /\ g # None
      BY <1>3 DEF SessionInv, TaskBound, Carried
    <2>2. QED
      BY <1>2, <2>1 DEF SessionInv, OneHolder
  <1>4. ASSUME NEW u \in Task \ {t}
        PROVE  TaskBound(u)' /\ TaskTokens(u)' /\ TaskIo(u)'
    <2>1. TaskBound(u)'
      BY <1>1 DEF Evolves, TokensEvolve, SessionInv, TaskBound, Holding
    <2>2. task[u].stored \in Carried(u) \/ task[u].stored = None
      BY DEF Carried
    <2>3. task[u].grant \in Carried(u) \/ task[u].grant = None
      BY DEF Carried
    <2>4. task[u].request = "refresh" => task[u].stored # None
      BY DEF SessionInv, TaskBound
    <2>5. TaskTokens(u)'
      BY <1>3, <2>2, <2>3, <2>4 DEF Evolves, TokensEvolve, SessionInv, TaskTokens
    <2>6. io[u] # NoIo => Holding(u)
      BY DEF SessionInv, TaskIo, Holding
    <2>7. task[u].pc = "persist" => KeyOf(u) # None
      BY DEF SessionInv, TaskBound
    <2>8. TaskIo(u)'
      BY <1>1, <2>6, <2>7 DEF Evolves, SessionInv, TaskIo, StoredKey, Holding
    <2>9. QED
      BY <2>1, <2>5, <2>8
  <1>5. \A u \in Task : TaskBound(u)' /\ TaskTokens(u)' /\ TaskIo(u)'
    BY <1>4 DEF Evolves
  <1>6. OneHolder'
    <2>1. \A u \in Task \ {t} : Holding(u)' = Holding(u)
      BY DEF Evolves, Holding
    <2>2. Holding(t)' => KeyOf(t)' = KeyOf(t)
      BY DEF Evolves, LockKept, KeyOf
    <2>3. ASSUME NEW u \in Task \ {t}, Holding(u)', Holding(t)'
          PROVE  KeyOf(u)' # KeyOf(t)'
      <3>1. Holding(u) /\ KeyOf(u)' = KeyOf(u)
        BY <1>1, <2>1, <2>3
      <3>2. CASE Holding(t)
        BY <2>2, <2>3, <3>1, <3>2 DEF SessionInv, OneHolder
      <3>3. CASE SessionLockFree(KeyOf(t))
        BY <2>2, <2>3, <3>1, <3>3 DEF SessionLockFree, Holding, KeyOf
      <3>4. QED
        BY <2>3, <3>2, <3>3 DEF Evolves, LockKept
    <2>4. \A u, v \in Task \ {t} : Holding(u)' /\ Holding(v)' /\ KeyOf(u)' = KeyOf(v)' => u = v
      BY <1>1, <2>1 DEF SessionInv, OneHolder
    <2>5. QED
      BY <2>3, <2>4 DEF OneHolder
  <1>7. StoreFollows'
    <2>1. store' # None => store'.serial \in issued'
      BY DEF Evolves, TokensEvolve, SessionInv, StoreFollows
    <2>2. ASSUME store' \in spent'
          PROVE  store' \in lost' \/ \E u \in Task : Rotating(u)' /\ task'[u].stored = store'
      <3>1. store' = store /\ store # None
        BY <2>2 DEF Evolves, SessionTypeOK
      <3>2. CASE store \notin spent \/ (Rotating(t) /\ task[t].stored = store)
        BY <2>2, <3>1, <3>2 DEF Evolves, TokensEvolve, StoredSettled
      <3>3. CASE store \in lost
        BY <3>1, <3>3 DEF Evolves, TokensEvolve
      <3>4. CASE \E u \in Task \ {t} : Rotating(u) /\ task[u].stored = store
        BY <3>1, <3>4 DEF Evolves, Rotating
      <3>5. QED
        BY <3>2, <3>3, <3>4 DEF SessionInv, StoreFollows
    <2>3. QED
      BY <2>1, <2>2 DEF StoreFollows
  <1>8. TokensIssued'
    <2>1. \A g \in spent' \cup orphans' : g # None
      BY DEF SessionTypeOK
    <2>2. QED
      BY <1>2, <2>1 DEF Evolves, TokensEvolve, SessionInv, TokensIssued
  <1>9. ReplayOnlyAfterLoss'
    BY DEF Evolves, TokensEvolve, ReplayOnlyAfterLoss
  <1>10. QED
    BY <1>5, <1>6, <1>7, <1>8, <1>9 DEF SessionInv

--------------------------------------------------------------------------------
(* A task ends. *)
CallRecord == [pc : CallerPc, op : Operations \cup {"none"}, coord : Coord \cup {None},
               task : Task \cup {None}, grant : Grant \cup {None}]
TaskRecord == [pc : TaskPc, coord : Coord \cup {None}, force : BOOLEAN,
               request : Request, stored : Grant \cup {None},
               grant : Grant \cup {None}, cancelled : BOOLEAN, nonce : BOOLEAN]

\* The records of a task that is about to present a token, and of one that was answered.
LEMMA RefreshRecord ==
  ASSUME NEW r \in TaskRecord, NEW g \in Grant
  PROVE  LET q == [r EXCEPT !.pc = "send", !.request = "refresh", !.stored = g]
         IN  /\ q \in TaskRecord
             /\ q.pc = "send" /\ q.request = "refresh" /\ q.stored = g
             /\ q.coord = r.coord /\ q.grant = r.grant
  <1>1. "send" \in TaskPc /\ "refresh" \in Request
    BY DEF TaskPc, Request
  <1>2. QED
    BY <1>1 DEF TaskRecord

LEMMA PersistRecord ==
  ASSUME NEW r \in TaskRecord, NEW g \in Grant
  PROVE  LET q == [r EXCEPT !.pc = "persist", !.grant = g]
         IN  /\ q \in TaskRecord
             /\ q.pc = "persist" /\ q.grant = g
             /\ q.request = r.request /\ q.stored = r.stored /\ q.coord = r.coord
  <1>1. "persist" \in TaskPc
    BY DEF TaskPc
  <1>2. QED
    BY <1>1 DEF TaskRecord

\* Callers that go on with the outcome of a task keep their coordinator.
LEMMA DeliveredBound ==
  ASSUME SessionInv, NEW t \in Task, NEW outcome \in {"granted", "terminal", "failed"},
         NEW g \in Grant \cup {None}, outcome = "granted" => g # None,
         caller' = Delivered(t, outcome, g), UNCHANGED coordKey
  PROVE  caller' \in [Caller -> CallRecord] /\ \A x \in Caller : CallerBound(x)'
  <1>1. caller \in [Caller -> CallRecord]
    BY DEF SessionInv, SessionTypeOK, CallRecord
  <1>2. ASSUME NEW x \in Caller
        PROVE  caller'[x] \in CallRecord /\ CallerBound(x)'
    <2>a. caller[x] \in CallRecord
      BY <1>1
    <2>0. CallerBound(x)
      BY DEF SessionInv
    <2>1. CASE caller[x].task # t
      <3>1. caller'[x] = caller[x]
        BY <2>1 DEF Delivered
      <3>2. QED
        BY <2>a, <2>0, <3>1 DEF CallRecord, CallerBound
    <2>2. CASE caller[x].task = t /\ caller[x].pc = "joining"
      <3>1. caller'[x] = [caller[x] EXCEPT !.pc = "wiping", !.task = None]
        BY <2>2 DEF Delivered
      <3>2. QED
        BY <2>a, <2>0, <2>2, <3>1 DEF CallRecord, CallerBound
    <2>3. CASE caller[x].task = t /\ caller[x].pc # "joining" /\ outcome = "granted"
      <3>1. caller'[x] = [caller[x] EXCEPT !.pc = "resume", !.task = None, !.grant = g]
        BY <2>3 DEF Delivered
      <3>2. caller'[x] = [pc |-> "resume", op |-> caller[x].op, coord |-> caller[x].coord,
                          task |-> None, grant |-> g]
        BY <2>a, <3>1 DEF CallRecord
      <3>3. t # None
        BY TaskAssumption
      <3>4. caller[x].coord \in Coord /\ coordKey[caller[x].coord] # None
        BY <2>3, <2>0, <3>3 DEF CallerBound
      <3>5. CallerBound(x)'
        BY <2>3, <3>2, <3>4 DEF CallerBound
      <3>6. QED
        BY <2>3, <2>a, <3>2, <3>4, <3>5 DEF CallRecord
    <2>4. CASE caller[x].task = t /\ caller[x].pc # "joining" /\ outcome = "terminal"
      <3>1. caller'[x] = [caller[x] EXCEPT !.pc = "terminal", !.task = None]
        BY <2>4 DEF Delivered
      <3>2. caller'[x] = [pc |-> "terminal", op |-> caller[x].op, coord |-> caller[x].coord,
                          task |-> None, grant |-> caller[x].grant]
        BY <2>a, <3>1 DEF CallRecord
      <3>3. t # None
        BY TaskAssumption
      <3>4. caller[x].coord \in Coord /\ coordKey[caller[x].coord] # None
        BY <2>4, <2>0, <3>3 DEF CallerBound
      <3>5. CallerBound(x)'
        BY <3>2, <3>4 DEF CallerBound
      <3>6. QED
        BY <2>a, <3>2, <3>4, <3>5 DEF CallRecord
    <2>5. CASE caller[x].task = t /\ caller[x].pc # "joining" /\ outcome = "failed"
      <3>1. caller'[x] = NoCall
        BY <2>5 DEF Delivered
      <3>2. QED
        BY <3>1 DEF CallerBound, CallRecord
    <2>6. QED
      BY <2>1, <2>2, <2>3, <2>4, <2>5
  <1>3. caller' = [x \in Caller |-> caller'[x]]
    BY DEF Delivered
  <1>4. QED
    BY <1>2, <1>3 DEF CallRecord

\* The end of a task preserves the invariant if what it presented is lost, or
\* nothing of it is stored any more.
LEMMA CompleteInv ==
  ASSUME SessionInv, NEW t \in Task, NEW outcome \in {"granted", "terminal", "failed"},
         NEW g \in Grant \cup {None}, outcome = "granted" => g # None,
         Complete(t, outcome, g),
         UNCHANGED <<coordKey, closed, issued, banned>>,
         io'[t] = NoIo, \A u \in Task \ {t} : io'[u] = io[u],
         store' \in {store, None}, live' \subseteq Grant,
         spent' \subseteq spent \cup Presented(t),
         orphans' \subseteq orphans \cup Presented(t),
         reused' \subseteq lost \cup reused,
         outcome = "granted" => /\ UNCHANGED <<spent, orphans>>
                                /\ Rotating(t) => store' # task[t].stored
  PROVE  SessionInv'
  <1>1. task'[t] = NoTask /\ \A u \in Task \ {t} : task'[u] = task[u]
    BY DEF Complete, SessionInv, SessionTypeOK
  <1>2. Presented(t) \subseteq Grant /\ Presented(t) \subseteq {task[t].stored}
    <2>1. task[t].stored \in Grant \cup {None}
      BY DEF SessionInv, SessionTypeOK
    <2>2. task[t].request = "refresh" => task[t].stored # None
      BY DEF SessionInv, TaskBound
    <2>3. QED
      BY <2>1, <2>2 DEF Presented
  <1>3. Rotating(t) => task[t].stored \in Presented(t)
    BY DEF Rotating, Presented, SessionInv, TaskBound
  <1>4. lost' \subseteq Grant /\ lost \subseteq lost' /\ (outcome # "granted" => Presented(t) \subseteq lost')
    BY <1>2 DEF Complete, SessionInv, SessionTypeOK
  <1>5. caller' \in [Caller -> CallRecord] /\ \A x \in Caller : CallerBound(x)'
    BY DeliveredBound DEF Complete
  <1>6. SessionTypeOK'
    <2>1. NoTask \in TaskRecord
      BY DEF TaskRecord
    <2>2. task' = [task EXCEPT ![t] = NoTask]
      BY DEF Complete
    <2>z. task \in [Task -> TaskRecord]
      BY DEF SessionInv, SessionTypeOK, TaskRecord
    <2>3. task' \in [Task -> TaskRecord]
      BY <2>1, <2>2, <2>z
    <2>4. live' \cup spent' \cup orphans' \cup lost' \cup reused' \subseteq Grant
      BY <1>2, <1>4 DEF SessionInv, SessionTypeOK
    <2>5. QED
      BY <1>5, <2>3, <2>4 DEF SessionInv, SessionTypeOK, CallRecord, TaskRecord
  <1>7. TokensEvolve(t)
    <2>1. spent' \subseteq spent \cup {task[t].stored} /\ orphans' \subseteq orphans \cup {task[t].stored}
      BY <1>2
    <2>2. orphans' \cup reused' \subseteq lost'
      BY <1>4 DEF SessionInv, TokensIssued, ReplayOnlyAfterLoss
    <2>3. QED
      BY <1>4, <2>1, <2>2 DEF TokensEvolve
  <1>8. StoredSettled(t)
    BY <1>3, <1>4 DEF StoredSettled
  <1>9. LockKept(t)
    BY <1>1 DEF LockKept, Holding
  <1>10. TaskBound(t)' /\ TaskTokens(t)' /\ TaskIo(t)'
    BY <1>1 DEF TaskBound, Carried, TaskTokens, TaskIo
  <1>11. Evolves(t)
    BY <1>1, <1>7, <1>8, <1>9, <1>10 DEF Evolves
  <1>12. QED
    BY <1>5, <1>6, <1>11, EvolvesInv

--------------------------------------------------------------------------------
(* A task goes on. *)

\* What the parts of the lifecycle that a task runs do to what SessionInv speaks of.
LEMMA LocalIoAt ==
  ASSUME LifecycleInv, NEW t \in Task, NEW value, LocalIo(t, value)
  PROVE  io'[t] = value /\ coordKey' = coordKey /\ \A u \in Task \ {t} : io'[u] = io[u]
  BY DEF LocalIo, LifecycleInv, LifecycleTypeOK

LEMMA FailIoAt ==
  ASSUME LifecycleInv, NEW t \in Task, FailIo(t)
  PROVE  /\ io'[t] = NoIo /\ coordKey' = coordKey /\ \A u \in Task \ {t} : io'[u] = io[u]
         /\ store' \in {store, None}
  BY LocalIoAt DEF FailIo, StorageFailure

LEMMA ClearSessionAt ==
  ASSUME NEW g, ClearSession(g)
  PROVE  UNCHANGED <<io, coordKey>> /\ store' \in {store, None}
  BY DEF ClearSession, StoreBecomes, WithoutSession, StorageFailure, processVars

\* Every task is a record of its shape.
LEMMA TaskShape ==
  ASSUME SessionInv
  PROVE  task \in [Task -> TaskRecord]
  BY DEF SessionInv, SessionTypeOK, TaskRecord

LEMMA GotoAt ==
  ASSUME SessionInv, NEW t \in Task, NEW pc \in TaskPc, Goto(t, pc)
  PROVE  /\ task' \in [Task -> TaskRecord]
         /\ \A u \in Task \ {t} : task'[u] = task[u]
         /\ task'[t].pc = pc /\ task'[t].coord = task[t].coord
         /\ task'[t].request = task[t].request
         /\ task'[t].stored = task[t].stored /\ task'[t].grant = task[t].grant
  <1>1. task \in [Task -> TaskRecord]
    BY TaskShape
  <1>2. task[t] \in TaskRecord
    BY <1>1
  <1>3. task' = [task EXCEPT ![t] = [task[t] EXCEPT !.pc = pc]]
    BY DEF Goto
  <1>4. [task[t] EXCEPT !.pc = pc] \in TaskRecord
    BY <1>2 DEF TaskRecord
  <1>5. task' \in [Task -> TaskRecord] /\ \A u \in Task \ {t} : task'[u] = task[u]
    BY <1>1, <1>3, <1>4
  <1>6. task'[t] = [task[t] EXCEPT !.pc = pc]
    BY <1>1, <1>3
  <1>7. QED
    BY <1>2, <1>5, <1>6 DEF TaskRecord

\* The types of what the steps of a task change.
LEMMA TypesKept ==
  ASSUME SessionInv, task' \in [Task -> TaskRecord], UNCHANGED <<caller, closed, banned>>,
         issued' \subseteq Serial, live' \cup spent' \cup orphans' \cup lost' \cup reused' \subseteq Grant
  PROVE  SessionTypeOK'
  BY DEF SessionInv, SessionTypeOK, TaskRecord

LEMMA CallersKept ==
  ASSUME SessionInv, UNCHANGED <<caller, coordKey>>
  PROVE  \A x \in Caller : CallerBound(x)'
  BY DEF SessionInv, CallerBound

\* A task that goes to another place, and carries what it carried, preserves the invariant.
LEMMA GotoInv ==
  ASSUME SessionInv, NEW t \in Task, NEW pc \in TaskPc \ {"idle", "queued"}, Goto(t, pc),
         UNCHANGED <<coordKey, caller, closed, issued, spent, orphans, lost, banned>>,
         live' \subseteq Grant, reused' \subseteq lost,
         store' \in {store, None},
         \A u \in Task \ {t} : io'[u] = io[u],
         io'[t] = NoIo \/ (/\ io'[t].coord = task[t].coord /\ io'[t].phase \notin {"checked", "saved"}
                          /\ pc \in {"load", "foreign"}),
         task[t].pc # "idle", Holding(t) \/ SessionLockFree(KeyOf(t)),
         pc \in {"dead", "renew"} => task[t].request = "refresh",
         pc \in {"persist", "drop"} <=> task[t].grant # None,
         pc \in {"send", "sent"} => task[t].pc \in {"send", "sent"},
         Rotating(t) => pc = "drop"
  PROVE  SessionInv'
  <1> DEFINE same == /\ task'[t].pc = pc /\ task'[t].coord = task[t].coord
                     /\ task'[t].request = task[t].request
                     /\ task'[t].stored = task[t].stored /\ task'[t].grant = task[t].grant
  <1>1. task' \in [Task -> TaskRecord] /\ same /\ \A u \in Task \ {t} : task'[u] = task[u]
    BY GotoAt
  <1>2. TokensEvolve(t)
    BY DEF TokensEvolve, SessionInv, TokensIssued
  <1>3. StoredSettled(t)
    BY <1>1 DEF StoredSettled, Rotating
  <1>4. LockKept(t)
    BY <1>1 DEF LockKept
  <1>5. Carried(t)' = Carried(t) /\ KeyOf(t)' = KeyOf(t) /\ Holding(t)'
    BY <1>1 DEF Carried, KeyOf, Holding
  <1>6. TaskBound(t)'
    BY <1>1, <1>5 DEF SessionInv, TaskBound
  <1>7. TaskTokens(t)'
    BY <1>1 DEF SessionInv, TaskTokens
  <1>8. TaskIo(t)'
    BY <1>1, <1>5 DEF TaskIo
  <1>9. Evolves(t)
    BY <1>1, <1>2, <1>3, <1>4, <1>6, <1>7, <1>8 DEF Evolves
  <1>10. SessionTypeOK'
    <2>1. issued' \subseteq Serial /\ live' \cup spent' \cup orphans' \cup lost' \cup reused' \subseteq Grant
      BY DEF SessionInv, SessionTypeOK
    <2>2. QED
      BY <1>1, <2>1, TypesKept
  <1>11. QED
    BY <1>9, <1>10, CallersKept, EvolvesInv

--------------------------------------------------------------------------------
(* The steps of a task. *)

\* AcquireSession preserves the invariant.
LEMMA AcquireSessionInv ==
  ASSUME LifecycleInv, SessionInv, NEW t \in Task, AcquireSession(t)
  PROVE  SessionInv'
  <1> DEFINE c == task[t].coord
  <1>a. live' \subseteq Grant /\ spent' = spent /\ orphans' = orphans /\ reused' = reused /\ UNCHANGED <<closed, issued, banned>>
    BY DEF AcquireSession, SessionInv, SessionTypeOK
  <1>b. io[t] = NoIo /\ ~Holding(t) /\ ~Rotating(t)
    BY DEF AcquireSession, Running, SessionInv, TaskIo, Holding, Rotating
  <1>1. ASSUME NEW outcome \in {"terminal", "failed"}, Complete(t, outcome, None), UNCHANGED lifecycleVars
        PROVE  SessionInv'
    <2>1. UNCHANGED <<io, coordKey, store>>
      BY <1>1 DEF lifecycleVars, deviceVars, processVars
    <2>2. QED
      BY <1>a, <1>b, <1>1, <2>1, CompleteInv
  <1>2. ASSUME BeginLoad(t, c), Goto(t, "load"), UNCHANGED <<caller, lost>>
        PROVE  SessionInv'
    <2>1. /\ io'[t] = [phase |-> "loading", coord |-> c, grant |-> None]
          /\ coordKey' = coordKey /\ \A u \in Task \ {t} : io'[u] = io[u]
      BY <1>2, LocalIoAt DEF BeginLoad
    <2>2. store' = store /\ reused \subseteq lost
      BY <1>2 DEF BeginLoad, SessionInv, ReplayOnlyAfterLoss
    <2>3. SessionLockFree(KeyOf(t)) /\ task[t].pc = "queued"
      BY DEF AcquireSession, Running, KeyOf
    <2>4. task[t].grant = None
      BY <2>3 DEF SessionInv, TaskBound
    <2>5. QED
      BY <1>a, <1>b, <1>2, <2>1, <2>2, <2>3, <2>4, GotoInv
  <1>3. QED
    BY <1>1, <1>2 DEF AcquireSession

\* Load preserves the invariant: the token it is about to present is not on its way
\* to being replaced, since the task holds the session lock of its key.
LEMMA LoadInv ==
  ASSUME LifecycleInv, SessionInv, NEW t \in Task, Load(t)
  PROVE  SessionInv'
  <1>a. live' \subseteq Grant /\ spent' = spent /\ orphans' = orphans /\ reused' = reused
        /\ UNCHANGED <<closed, issued, banned>>
    BY DEF Load, SessionInv, SessionTypeOK
  <1>b. task[t].pc = "load" /\ Holding(t) /\ ~Rotating(t) /\ task[t].grant = None
    BY DEF Load, Running, SessionInv, TaskBound, Holding, Rotating
  <1>c. store' = store /\ store \in Grant \cup {None} /\ reused \subseteq lost
    BY DEF Load, EndLoad, LifecycleInv, LifecycleTypeOK, SessionInv, ReplayOnlyAfterLoss
  <1>d. /\ io'[t] = IF StoredKey \in {None, coordKey[io[t].coord]} THEN NoIo
                    ELSE [phase |-> "foreign", coord |-> io[t].coord, grant |-> store]
        /\ coordKey' = coordKey /\ \A u \in Task \ {t} : io'[u] = io[u]
    BY LocalIoAt DEF Load, EndLoad
  <1>e. io[t].coord = task[t].coord
    BY DEF Load, EndLoad, SessionInv, TaskIo
  <1>1. ASSUME io'[t] = NoIo, store # None, Complete(t, "granted", store)
        PROVE  SessionInv'
    BY <1>a, <1>b, <1>c, <1>d, <1>1, CompleteInv
  <1>2. ASSUME NEW pc \in {"foreign", "establish"}, Goto(t, pc), UNCHANGED <<caller, lost>>,
               io'[t] = NoIo \/ pc = "foreign"
        PROVE  SessionInv'
    <2>1. io'[t] = NoIo \/ (io'[t].coord = task[t].coord /\ io'[t].phase \notin {"checked", "saved"}
                            /\ pc \in {"load", "foreign"})
      BY <1>d, <1>e, <1>2
    <2>2. QED
      BY <1>a, <1>b, <1>c, <1>d, <1>2, <2>1, GotoInv
  <1>3. ASSUME io'[t] = NoIo, store # None,
               task' = [task EXCEPT ![t].pc = "send", ![t].request = "refresh", ![t].stored = store],
               UNCHANGED <<caller, lost>>
        PROVE  SessionInv'
    <2>1. task \in [Task -> TaskRecord]
      BY TaskShape
    <2>2. task[t] \in TaskRecord
      BY <2>1
    <2>3. task'[t] = [task[t] EXCEPT !.pc = "send", !.request = "refresh", !.stored = store]
      BY <1>3, <2>1
    <2>4. task'[t] \in TaskRecord /\ task'[t].pc = "send" /\ task'[t].request = "refresh"
          /\ task'[t].stored = store /\ task'[t].coord = task[t].coord /\ task'[t].grant = None
      <3>1. store \in Grant
        BY <1>c, <1>3
      <3>2. DEFINE q == [task[t] EXCEPT !.pc = "send", !.request = "refresh", !.stored = store]
      <3>3. /\ q \in TaskRecord
            /\ q.pc = "send" /\ q.request = "refresh" /\ q.stored = store
            /\ q.coord = task[t].coord /\ q.grant = task[t].grant
        BY <2>2, <3>1, RefreshRecord, Zenon
      <3>4. task'[t] = q
        BY <2>3
      <3>5. HIDE DEF q
      <3>6. QED
        BY <1>b, <3>3, <3>4
    <2>5. task' \in [Task -> TaskRecord] /\ \A u \in Task \ {t} : task'[u] = task[u]
      BY <1>3, <2>1, <2>3, <2>4
    <2>6. store.key = KeyOf(t) /\ store.serial \in issued
      <3>1. StoredKey = store.key /\ store.key # None
        BY <1>c, <1>3 DEF StoredKey
      <3>2. StoredKey \in {None, coordKey[io[t].coord]}
        BY <1>d, <1>3
      <3>3. QED
        BY <1>3, <1>e, <3>1, <3>2 DEF KeyOf, SessionInv, StoreFollows
    <2>7. store \in spent => store \in lost
      <3>1. ASSUME NEW u \in Task, Rotating(u), task[u].stored = store
            PROVE  FALSE
        <4>1. Holding(u) /\ KeyOf(u) = store.key
          BY <1>3, <3>1 DEF SessionInv, TaskBound, Carried
        <4>2. u = t
          BY <1>b, <2>6, <4>1 DEF SessionInv, OneHolder
        <4>3. QED
          BY <1>b, <3>1, <4>2
      <3>2. QED
        BY <3>1 DEF SessionInv, StoreFollows
    <2>8. KeyOf(t)' = KeyOf(t) /\ Holding(t)' /\ Carried(t)' = {store} /\ KeyOf(t) # None
      <3>1. KeyOf(t)' = KeyOf(t)
        BY <1>d, <2>4 DEF KeyOf
      <3>2. Holding(t)'
        BY <2>4 DEF Holding
      <3>3. Carried(t)' = {store}
        BY <1>3, <2>4 DEF Carried
      <3>4. KeyOf(t) # None
        BY <1>b DEF SessionInv, TaskBound
      <3>5. QED
        BY <3>1, <3>2, <3>3, <3>4
    <2>9. TokensEvolve(t) /\ StoredSettled(t) /\ LockKept(t)
      BY <1>a, <1>b, <1>c, <1>3, <2>4 DEF TokensEvolve, StoredSettled, LockKept, SessionInv, TokensIssued
    <2>10. TaskBound(t)'
      BY <1>a, <1>b, <1>3, <1>d, <2>4, <2>6, <2>8 DEF TaskBound, SessionInv
    <2>11. TaskTokens(t)' /\ TaskIo(t)'
      BY <1>a, <1>3, <2>4, <2>7 DEF TaskTokens, TaskIo
    <2>12. Evolves(t)
      BY <1>c, <1>d, <2>5, <2>9, <2>10, <2>11 DEF Evolves
    <2>13. SessionTypeOK'
      BY <1>a, <1>3, <2>5, TypesKept DEF SessionInv, SessionTypeOK
    <2>14. QED
      BY <1>3, <1>d, <2>12, <2>13, CallersKept, EvolvesInv
  <1>4. QED
    BY <1>1, <1>2, <1>3 DEF Load

\* RemoveForeign preserves the invariant.
LEMMA RemoveForeignInv ==
  ASSUME LifecycleInv, SessionInv, NEW t \in Task, RemoveForeign(t)
  PROVE  SessionInv'
  <1>1. io'[t] = NoIo /\ coordKey' = coordKey /\ \A u \in Task \ {t} : io'[u] = io[u]
    BY LocalIoAt DEF RemoveForeign, ClearForeign
  <1>2. store' \in {store, None}
    BY DEF RemoveForeign, ClearForeign, WithoutInstallation
  <1>3. task[t].pc = "foreign" /\ Holding(t) /\ ~Rotating(t) /\ task[t].grant = None
    BY DEF RemoveForeign, Running, SessionInv, TaskBound, Holding, Rotating
  <1>4. live' \subseteq Grant /\ reused' \subseteq lost /\ Goto(t, "establish")
        /\ UNCHANGED <<caller, closed, issued, spent, orphans, lost, banned>>
    BY DEF RemoveForeign, gatewayVars, SessionInv, SessionTypeOK, ReplayOnlyAfterLoss
  <1>5. QED
    BY <1>1, <1>2, <1>3, <1>4, GotoInv

\* StoreFails preserves the invariant.
LEMMA StoreFailsInv ==
  ASSUME LifecycleInv, SessionInv, NEW t \in Task, StoreFails(t)
  PROVE  SessionInv'
  <1>1. /\ io'[t] = NoIo /\ coordKey' = coordKey /\ \A u \in Task \ {t} : io'[u] = io[u]
        /\ store' \in {store, None}
    BY FailIoAt DEF StoreFails
  <1>2. live' \subseteq Grant /\ Complete(t, "failed", None)
        /\ UNCHANGED <<closed, issued, spent, banned, orphans, reused>>
    BY DEF StoreFails, SessionInv, SessionTypeOK
  <1>3. QED
    BY <1>1, <1>2, CompleteInv

\* The end of a task in a step that leaves the slot and the gateway alone.
LEMMA QuietEndInv ==
  ASSUME SessionInv, NEW t \in Task, NEW outcome \in {"terminal", "failed"},
         Complete(t, outcome, None), io[t] = NoIo,
         UNCHANGED <<lifecycleVars, closed, issued, live, spent, banned, orphans, reused>>
  PROVE  SessionInv'
  <1>1. UNCHANGED <<io, coordKey, store>> /\ live' \subseteq Grant
    BY DEF lifecycleVars, deviceVars, processVars, SessionInv, SessionTypeOK
  <1>2. QED
    BY <1>1, CompleteInv

\* Establish preserves the invariant.
LEMMA EstablishInv ==
  ASSUME SessionInv, NEW t \in Task, Establish(t)
  PROVE  SessionInv'
  <1>1. /\ UNCHANGED <<lifecycleVars, closed, issued, live, spent, banned, orphans, reused>>
        /\ UNCHANGED <<io, coordKey, store>> /\ live' \subseteq Grant
    BY DEF Establish, lifecycleVars, deviceVars, processVars, SessionInv, SessionTypeOK
  <1>2. task[t].pc = "establish" /\ Holding(t) /\ ~Rotating(t) /\ task[t].grant = None /\ io[t] = NoIo
    BY DEF Establish, Running, SessionInv, TaskBound, TaskIo, Holding, Rotating
  <1>3. ASSUME NEW outcome \in {"terminal", "failed"}, Complete(t, outcome, None)
        PROVE  SessionInv'
    BY <1>1, <1>2, <1>3, QuietEndInv
  <1>4. ASSUME task' = [task EXCEPT ![t].pc = "send", ![t].request = "exchange",
                                    ![t].stored = None, ![t].nonce = FALSE],
               UNCHANGED <<caller, lost>>
        PROVE  SessionInv'
    <2>1. task \in [Task -> TaskRecord]
      BY TaskShape
    <2>2. task[t] \in TaskRecord
      BY <2>1
    <2>3. task'[t] = [task[t] EXCEPT !.pc = "send", !.request = "exchange", !.stored = None, !.nonce = FALSE]
      BY <1>4, <2>1
    <2>4. task'[t] \in TaskRecord /\ task'[t].pc = "send" /\ task'[t].request = "exchange"
          /\ task'[t].stored = None /\ task'[t].coord = task[t].coord /\ task'[t].grant = None
      BY <1>2, <2>2, <2>3 DEF TaskRecord
    <2>5. task' \in [Task -> TaskRecord] /\ \A u \in Task \ {t} : task'[u] = task[u]
      BY <1>4, <2>1, <2>3, <2>4
    <2>6. KeyOf(t)' = KeyOf(t) /\ Holding(t)' /\ Carried(t)' = {}
      BY <1>1, <2>4 DEF KeyOf, Holding, Carried
    <2>7. TokensEvolve(t) /\ StoredSettled(t) /\ LockKept(t)
      BY <1>1, <1>2, <1>4, <2>4
         DEF TokensEvolve, StoredSettled, LockKept, SessionInv, TokensIssued, ReplayOnlyAfterLoss
    <2>8. TaskBound(t)'
      BY <1>2, <2>4, <2>6 DEF TaskBound, SessionInv
    <2>9. TaskTokens(t)' /\ TaskIo(t)'
      BY <1>1, <1>2, <2>4 DEF TaskTokens, TaskIo
    <2>10. Evolves(t)
      BY <1>1, <2>5, <2>7, <2>8, <2>9 DEF Evolves
    <2>11. SessionTypeOK'
      BY <1>1, <1>4, <2>5, TypesKept DEF SessionInv, SessionTypeOK
    <2>12. QED
      BY <1>1, <1>4, <2>10, <2>11, CallersKept, EvolvesInv
  <1>5. QED
    BY <1>3, <1>4 DEF Establish

\* Send preserves the invariant.
LEMMA SendInv ==
  ASSUME SessionInv, NEW t \in Task, Send(t)
  PROVE  SessionInv'
  <1>1. /\ UNCHANGED <<lifecycleVars, closed, issued, live, spent, banned, orphans, reused>>
        /\ UNCHANGED <<io, coordKey, store>> /\ live' \subseteq Grant /\ reused' \subseteq lost
    BY DEF Send, lifecycleVars, deviceVars, processVars, SessionInv, SessionTypeOK, ReplayOnlyAfterLoss
  <1>2. task[t].pc = "send" /\ Holding(t) /\ ~Rotating(t) /\ task[t].grant = None /\ io[t] = NoIo
    BY DEF Send, Running, SessionInv, TaskBound, TaskIo, Holding, Rotating
  <1>3. ASSUME NEW outcome \in {"terminal", "failed"}, Complete(t, outcome, None)
        PROVE  SessionInv'
    BY <1>1, <1>2, <1>3, QuietEndInv
  <1>4. ASSUME Goto(t, "sent"), UNCHANGED <<caller, lost>>
        PROVE  SessionInv'
    BY <1>1, <1>2, <1>4, GotoInv
  <1>5. QED
    BY <1>3, <1>4 DEF Send

\* NonceChallenge preserves the invariant.
LEMMA NonceChallengeInv ==
  ASSUME SessionInv, NEW t \in Task, NonceChallenge(t)
  PROVE  SessionInv'
  <1>1. /\ UNCHANGED <<caller, closed, issued, live, spent, banned, orphans, lost, reused>>
        /\ UNCHANGED <<io, coordKey, store>>
    BY DEF NonceChallenge, lifecycleVars, deviceVars, processVars, gatewayVars
  <1>2. task[t].pc = "sent" /\ Holding(t) /\ ~Rotating(t) /\ io[t] = NoIo
    BY DEF NonceChallenge, Running, SessionInv, TaskIo, Holding, Rotating
  <1>3. task \in [Task -> TaskRecord]
    BY TaskShape
  <1>4. task[t] \in TaskRecord
    BY <1>3
  <1>5. task'[t] = [task[t] EXCEPT !.pc = "send", !.nonce = TRUE]
    BY <1>3 DEF NonceChallenge
  <1>6. /\ task'[t] \in TaskRecord /\ task'[t].pc = "send" /\ task'[t].request = task[t].request
        /\ task'[t].stored = task[t].stored /\ task'[t].coord = task[t].coord
        /\ task'[t].grant = task[t].grant
    BY <1>4, <1>5 DEF TaskRecord
  <1>7. task' \in [Task -> TaskRecord] /\ \A u \in Task \ {t} : task'[u] = task[u]
    BY <1>3, <1>5, <1>6 DEF NonceChallenge
  <1>8. KeyOf(t)' = KeyOf(t) /\ Holding(t)' /\ Carried(t)' = Carried(t)
    BY <1>1, <1>6 DEF KeyOf, Holding, Carried
  <1>9. TokensEvolve(t) /\ StoredSettled(t) /\ LockKept(t)
    BY <1>1, <1>2, <1>6
       DEF TokensEvolve, StoredSettled, LockKept, SessionInv, TokensIssued, ReplayOnlyAfterLoss
  <1>10. TaskBound(t)'
    BY <1>1, <1>2, <1>6, <1>8 DEF TaskBound, SessionInv
  <1>11. TaskTokens(t)' /\ TaskIo(t)'
    BY <1>1, <1>2, <1>6 DEF TaskTokens, TaskIo, SessionInv
  <1>12. Evolves(t)
    BY <1>1, <1>7, <1>9, <1>10, <1>11 DEF Evolves
  <1>13. SessionTypeOK'
    BY <1>1, <1>7, TypesKept DEF SessionInv, SessionTypeOK
  <1>14. QED
    BY <1>1, <1>12, <1>13, CallersKept, EvolvesInv

\* The gateway replays no token but a lost one, and spends no other than the presented one.
LEMMA GatewayRefreshAt ==
  ASSUME SessionInv, NEW g \in Grant, NEW successor \in SUBSET Grant, GatewayRefresh(g, successor),
         g \in spent => g \in lost
  PROVE  /\ live' \subseteq Grant
         /\ spent \subseteq spent' /\ spent' \subseteq spent \cup {g}
         /\ reused' \subseteq lost
  BY DEF GatewayRefresh, SessionInv, SessionTypeOK, ReplayOnlyAfterLoss

\* What such a step does to the task.
LEMMA AnswerAt ==
  ASSUME SessionInv, NEW t \in Task, NEW s \in Grant,
         task' = [task EXCEPT ![t].pc = "persist", ![t].grant = s]
  PROVE  /\ task'[t] = [task[t] EXCEPT !.pc = "persist", !.grant = s]
         /\ \A u \in Task \ {t} : task'[u] = task[u]
         /\ task' = [u \in Task |-> task'[u]]
  <1>1. task \in [Task -> TaskRecord]
    BY TaskShape
  <1>2. QED
    BY <1>1

\* The gateway answers with a grant that the task then carries to the file.
LEMMA AnsweredInv ==
  ASSUME SessionInv, NEW t \in Task, NEW s, s \in FreshGrants(KeyOf(t)), task[t].pc = "sent",
         task'[t] = [task[t] EXCEPT !.pc = "persist", !.grant = s],
         \A u \in Task \ {t} : task'[u] = task[u], task' = [u \in Task |-> task'[u]],
         issued' = issued \cup {s.serial},
         UNCHANGED <<coordKey, store, io, caller, closed, banned, orphans, lost>>,
         live' \subseteq Grant, reused' \subseteq lost,
         spent \subseteq spent', spent' \subseteq spent \cup {task[t].stored}, spent' \subseteq Grant,
         task[t].request # "refresh" => spent' = spent
  PROVE  SessionInv'
  <1>3. s \in Grant /\ s # None /\ s.key = KeyOf(t) /\ s.serial \notin issued /\ s.serial \in Serial
    BY DEF FreshGrants
  <1>1. task \in [Task -> TaskRecord]
    BY TaskShape
  <1>2. task[t] \in TaskRecord
    BY <1>1
  <1>5. /\ task'[t] \in TaskRecord
        /\ task'[t].pc = "persist" /\ task'[t].grant = s /\ task'[t].request = task[t].request
        /\ task'[t].stored = task[t].stored /\ task'[t].coord = task[t].coord
    <2>1. DEFINE q == [task[t] EXCEPT !.pc = "persist", !.grant = s]
    <2>2. /\ q \in TaskRecord
          /\ q.pc = "persist" /\ q.grant = s
          /\ q.request = task[t].request /\ q.stored = task[t].stored /\ q.coord = task[t].coord
      BY <1>2, <1>3, PersistRecord, Zenon
    <2>3. task'[t] = q
      OBVIOUS
    <2>4. HIDE DEF q
    <2>5. QED
      BY <2>2, <2>3
  <1>6. task' \in [Task -> TaskRecord] /\ \A u \in Task \ {t} : task'[u] = task[u]
    BY <1>1, <1>5
  <1>7. task[t].grant = None /\ Holding(t) /\ ~Rotating(t) /\ io[t] = NoIo
    BY DEF SessionInv, TaskBound, TaskIo, Holding, Rotating
  <1>8. KeyOf(t)' = KeyOf(t) /\ Holding(t)' /\ Carried(t)' \subseteq Carried(t) \cup {s}
    BY <1>5 DEF KeyOf, Holding, Carried
  <1>9. task[t].stored # None => task[t].stored.serial \in issued
    BY DEF SessionInv, TaskBound, Carried
  <1>10. s \notin spent' \cup orphans' /\ s # task[t].stored
    BY <1>3, <1>9 DEF SessionInv, TokensIssued
  <1>11. TokensEvolve(t)
    BY DEF TokensEvolve, SessionInv, TokensIssued
  <1>12. StoredSettled(t)
    BY <1>5, <1>7 DEF StoredSettled, Rotating
  <1>13. LockKept(t)
    BY <1>5, <1>7 DEF LockKept
  <1>14. TaskBound(t)'
    BY <1>3, <1>5, <1>8 DEF TaskBound, SessionInv
  <1>15. TaskTokens(t)' /\ TaskIo(t)'
    BY <1>5, <1>7, <1>10 DEF TaskTokens, TaskIo
  <1>16. Evolves(t)
    BY <1>6, <1>11, <1>12, <1>13, <1>14, <1>15 DEF Evolves
  <1>17. SessionTypeOK'
    BY <1>3, <1>6, TypesKept DEF SessionInv, SessionTypeOK
  <1>18. QED
    BY <1>16, <1>17, CallersKept, EvolvesInv

\* RefreshAnswered preserves the invariant.
LEMMA RefreshAnsweredInv ==
  ASSUME SessionInv, NEW t \in Task, RefreshAnswered(t)
  PROVE  SessionInv'
  <1> DEFINE g == task[t].stored
  <1>1. UNCHANGED <<io, coordKey, store, closed, banned, orphans>>
    BY DEF RefreshAnswered, lifecycleVars, deviceVars, processVars
  <1>2. /\ task[t].pc = "sent" /\ task[t].request = "refresh"
        /\ Holding(t) /\ ~Rotating(t) /\ task[t].grant = None /\ io[t] = NoIo
    BY DEF RefreshAnswered, Running, SessionInv, TaskBound, TaskIo, Holding, Rotating
  <1>3. g \in Grant /\ g.key = KeyOf(t) /\ (g \in spent => g \in lost)
    <2>1. g # None
      BY <1>2 DEF SessionInv, TaskBound
    <2>2. QED
      BY <1>2, <2>1 DEF SessionInv, SessionTypeOK, TaskBound, Carried, TaskTokens
  <1>4. Presented(t) = {g}
    BY <1>2 DEF Presented
  <1>5. ASSUME Complete(t, "terminal", None), UNCHANGED <<issued, live, spent, reused>>
        PROVE  SessionInv'
    BY <1>1, <1>2, <1>5, CompleteInv DEF SessionInv, SessionTypeOK
  <1>6. ASSUME g \notin live, GatewayRefresh(g, {}), Goto(t, "dead"), UNCHANGED <<caller, issued, lost>>
        PROVE  SessionInv'
    <2>1. live' \subseteq Grant /\ reused' \subseteq lost
      BY <1>3, <1>6, GatewayRefreshAt
    <2>2. spent' = spent
      BY <1>6 DEF GatewayRefresh
    <2>3. QED
      BY <1>1, <1>2, <1>6, <2>1, <2>2, GotoInv
  <1>7. ASSUME NEW s \in FreshGrants(g.key), GatewayRefresh(g, {s}),
               issued' = issued \cup {s.serial},
               task' = [task EXCEPT ![t].pc = "persist", ![t].grant = s], UNCHANGED <<caller, lost>>
        PROVE  SessionInv'
    <2>1. {s} \in SUBSET Grant /\ s \in FreshGrants(KeyOf(t))
      BY <1>3, <1>7 DEF FreshGrants
    <2>2. /\ live' \subseteq Grant /\ reused' \subseteq lost
          /\ spent \subseteq spent' /\ spent' \subseteq spent \cup {g}
      BY <1>3, <1>7, <2>1, GatewayRefreshAt
    <2>3. spent' \subseteq Grant
      BY <1>3, <2>2 DEF SessionInv, SessionTypeOK
    <2>4. /\ task'[t] = [task[t] EXCEPT !.pc = "persist", !.grant = s]
          /\ \A u \in Task \ {t} : task'[u] = task[u]
          /\ task' = [u \in Task |-> task'[u]]
      BY <1>7, <2>1, AnswerAt
    <2>5. QED
      BY <1>1, <1>2, <1>7, <2>1, <2>2, <2>3, <2>4, AnsweredInv
  <1>8. ASSUME live' = live \ {g}, Goto(t, "renew"), UNCHANGED <<caller, issued, lost, spent, reused>>
        PROVE  SessionInv'
    <2>1. live' \subseteq Grant /\ reused' \subseteq lost
      BY <1>8 DEF SessionInv, SessionTypeOK, ReplayOnlyAfterLoss
    <2>2. QED
      BY <1>1, <1>2, <1>8, <2>1, GotoInv
  <1>9. QED
    BY <1>5, <1>6, <1>7, <1>8 DEF RefreshAnswered

\* ExchangeAnswered preserves the invariant.
LEMMA ExchangeAnsweredInv ==
  ASSUME SessionInv, NEW t \in Task, ExchangeAnswered(t)
  PROVE  SessionInv'
  <1>1. UNCHANGED <<io, coordKey, store, closed, spent, banned, orphans, reused>>
    BY DEF ExchangeAnswered, lifecycleVars, deviceVars, processVars
  <1>2. /\ task[t].pc = "sent" /\ task[t].request = "exchange" /\ Holding(t) /\ io[t] = NoIo
    BY DEF ExchangeAnswered, Running, SessionInv, TaskIo, Holding
  <1>3. ASSUME Complete(t, "terminal", None), UNCHANGED <<issued, live>>
        PROVE  SessionInv'
    BY <1>1, <1>2, <1>3, CompleteInv DEF SessionInv, SessionTypeOK
  <1>4. ASSUME NEW s \in FreshGrants(KeyOf(t)), live' = live \cup {s}, issued' = issued \cup {s.serial},
               task' = [task EXCEPT ![t].pc = "persist", ![t].grant = s], UNCHANGED <<caller, lost>>
        PROVE  SessionInv'
    <2>1. live' \subseteq Grant /\ reused' \subseteq lost /\ spent' \subseteq Grant
      BY <1>1, <1>4 DEF FreshGrants, SessionInv, SessionTypeOK, ReplayOnlyAfterLoss
    <2>2. /\ task'[t] = [task[t] EXCEPT !.pc = "persist", !.grant = s]
          /\ \A u \in Task \ {t} : task'[u] = task[u]
          /\ task' = [u \in Task |-> task'[u]]
      BY <1>4, AnswerAt DEF FreshGrants
    <2>3. QED
      BY <1>1, <1>2, <1>4, <2>1, <2>2, AnsweredInv
  <1>5. QED
    BY <1>3, <1>4 DEF ExchangeAnswered, KeyOf

\* RequestFails preserves the invariant.
LEMMA RequestFailsInv ==
  ASSUME SessionInv, NEW t \in Task, RequestFails(t)
  PROVE  SessionInv'
  <1>1. UNCHANGED <<io, coordKey, store, closed, issued, banned, orphans>> /\ Complete(t, "failed", None)
    BY DEF RequestFails, lifecycleVars, deviceVars, processVars
  <1>2. task[t].pc = "sent" /\ io[t] = NoIo
    BY DEF RequestFails, Running, SessionInv, TaskIo
  <1>3. CASE UNCHANGED <<live, spent, reused>>
    BY <1>1, <1>2, <1>3, CompleteInv DEF SessionInv, SessionTypeOK
  <1>4. CASE task[t].request = "refresh" /\ GatewayRefresh(task[t].stored, {})
    <2>1. task[t].stored \in Grant /\ (task[t].stored \in spent => task[t].stored \in lost)
      BY <1>2, <1>4 DEF SessionInv, SessionTypeOK, TaskBound, TaskTokens
    <2>2. Presented(t) = {task[t].stored}
      BY <1>2, <1>4 DEF Presented
    <2>3. live' \subseteq Grant /\ spent' \subseteq spent \cup Presented(t) /\ reused' \subseteq lost
      BY <1>4, <2>1, <2>2, GatewayRefreshAt
    <2>4. QED
      BY <1>1, <1>2, <2>3, CompleteInv
  <1>5. QED
    BY <1>3, <1>4 DEF RequestFails

\* DropDead preserves the invariant.
LEMMA DropDeadInv ==
  ASSUME SessionInv, NEW t \in Task, DropDead(t)
  PROVE  SessionInv'
  <1>1. UNCHANGED <<io, coordKey>> /\ store' \in {store, None}
    BY ClearSessionAt DEF DropDead
  <1>2. io[t] = NoIo
    BY DEF DropDead, Running, SessionInv, TaskIo
  <1>3. Complete(t, "failed", None) /\ UNCHANGED <<closed, issued, spent, banned, orphans, reused>>
        /\ live' \subseteq Grant
    BY DEF DropDead, SessionInv, SessionTypeOK
  <1>4. QED
    BY <1>1, <1>2, <1>3, CompleteInv

\* DropRenewed preserves the invariant.
LEMMA DropRenewedInv ==
  ASSUME SessionInv, NEW t \in Task, DropRenewed(t)
  PROVE  SessionInv'
  <1>1. UNCHANGED <<io, coordKey>> /\ store' \in {store, None}
    BY ClearSessionAt DEF DropRenewed
  <1>2. task[t].pc = "renew" /\ Holding(t) /\ ~Rotating(t) /\ task[t].grant = None /\ io[t] = NoIo
    BY DEF DropRenewed, Running, SessionInv, TaskBound, TaskIo, Holding, Rotating
  <1>3. UNCHANGED <<closed, issued, spent, banned, orphans, reused>> /\ live' \subseteq Grant
        /\ reused' \subseteq lost
    BY DEF DropRenewed, SessionInv, SessionTypeOK, ReplayOnlyAfterLoss
  <1>4. CASE Complete(t, "failed", None)
    BY <1>1, <1>2, <1>3, <1>4, CompleteInv
  <1>5. CASE Goto(t, "establish") /\ UNCHANGED <<caller, lost>>
    BY <1>1, <1>2, <1>3, <1>5, GotoInv
  <1>6. QED
    BY <1>4, <1>5 DEF DropRenewed

\* StartPersist preserves the invariant.
LEMMA StartPersistInv ==
  ASSUME LifecycleInv, SessionInv, NEW t \in Task, StartPersist(t)
  PROVE  SessionInv'
  <1> DEFINE c == task[t].coord
  <1>1. UNCHANGED <<closed, issued, live, spent, banned, orphans, reused>>
        /\ live' \subseteq Grant /\ reused' \subseteq lost
    BY DEF StartPersist, SessionInv, SessionTypeOK, ReplayOnlyAfterLoss
  <1>2. task[t].pc = "persist" /\ task[t].grant # None /\ io[t] = NoIo /\ Holding(t)
    BY DEF StartPersist, Running, SessionInv, TaskBound, Holding
  <1>3. CASE Complete(t, "terminal", None) /\ UNCHANGED lifecycleVars
    BY <1>1, <1>2, <1>3, QuietEndInv
  <1>4. CASE Goto(t, "drop") /\ UNCHANGED <<lifecycleVars, caller, lost>>
    <2>1. UNCHANGED <<io, coordKey, store>>
      BY <1>4 DEF lifecycleVars, deviceVars, processVars
    <2>2. QED
      BY <1>1, <1>2, <1>4, <2>1, GotoInv
  <1>5. CASE BeginPersist(t, c, task[t].grant) /\ UNCHANGED <<task, caller, lost>>
    <2>1. /\ io'[t] = [phase |-> "checked", coord |-> c, grant |-> task[t].grant]
          /\ coordKey' = coordKey /\ \A u \in Task \ {t} : io'[u] = io[u]
      BY <1>5, LocalIoAt DEF BeginPersist
    <2>2. store' = store
      BY <1>5 DEF BeginPersist
    <2>3. TokensEvolve(t) /\ StoredSettled(t) /\ LockKept(t)
      BY <1>1, <1>2, <1>5
         DEF TokensEvolve, StoredSettled, LockKept, Rotating, SessionInv, TokensIssued
    <2>4. TaskBound(t)' /\ TaskTokens(t)'
      BY <1>1, <1>5, <2>1 DEF TaskBound, TaskTokens, Carried, KeyOf, Holding, SessionInv
    <2>5. TaskIo(t)'
      BY <1>2, <1>5, <2>1 DEF TaskIo
    <2>6. Evolves(t)
      BY <1>5, <2>1, <2>2, <2>3, <2>4, <2>5 DEF Evolves
    <2>7. SessionTypeOK'
      BY <1>1, <1>5 DEF SessionInv, SessionTypeOK
    <2>8. QED
      BY <1>5, <2>1, <2>6, <2>7, CallersKept, EvolvesInv
  <1>6. QED
    BY <1>3, <1>4, <1>5 DEF StartPersist

\* SaveGrant preserves the invariant: what is saved was never presented, and no
\* other task of the identity is at work.
LEMMA SaveGrantInv ==
  ASSUME LifecycleInv, SessionInv, NEW t \in Task, SaveGrant(t)
  PROVE  SessionInv'
  <1>1. /\ UNCHANGED <<task, caller, closed, issued, live, spent, banned, orphans, lost, reused>>
        /\ store' = io[t].grant
    BY DEF SaveGrant, Save, sessionVars, gatewayVars
  <1>2. /\ io'[t] = [io[t] EXCEPT !.phase = "saved"]
        /\ coordKey' = coordKey /\ \A u \in Task \ {t} : io'[u] = io[u]
    BY LocalIoAt DEF SaveGrant, Save
  <1>3. io[t].phase = "checked" /\ io[t] # NoIo
    BY DEF SaveGrant, Save
  <1>4. io[t] \in [phase : IoPhase, coord : Coord \cup {None}, grant : Grant \cup {None}]
    BY DEF LifecycleInv, LifecycleTypeOK
  <1>5. task[t].pc = "persist" /\ io[t].grant = task[t].grant /\ io[t].coord = task[t].coord /\ Holding(t)
    BY <1>3 DEF SessionInv, TaskIo, Holding
  <1>6. io'[t].phase = "saved" /\ io'[t].grant = task[t].grant /\ io'[t].coord = task[t].coord
    BY <1>2, <1>4, <1>5
  <1>7. /\ task[t].grant # None /\ task[t].grant.key = KeyOf(t) /\ task[t].grant.serial \in issued
        /\ task[t].grant \notin spent
    <2>1. task[t].grant # None
      BY <1>5 DEF SessionInv, TaskBound
    <2>2. QED
      BY <2>1 DEF SessionInv, TaskBound, TaskTokens, Carried
  <1>8. store' = task[t].grant /\ StoredKey' = KeyOf(t)
    BY <1>1, <1>5, <1>7 DEF StoredKey
  <1>9. \A u \in Task : TaskBound(u)' /\ TaskTokens(u)'
    BY <1>1, <1>2 DEF TaskBound, TaskTokens, Carried, KeyOf, Holding, SessionInv
  <1>10. TaskIo(t)'
    BY <1>1, <1>5, <1>6, <1>8 DEF TaskIo
  <1>11. ASSUME NEW u \in Task \ {t}
         PROVE  TaskIo(u)'
    <2>1. KeyOf(u)' = KeyOf(u)
      BY <1>1, <1>2 DEF KeyOf
    <2>2. TaskIo(u)
      BY DEF SessionInv
    <2>3. Holding(u) => KeyOf(u) # KeyOf(t)
      BY <1>5 DEF SessionInv, OneHolder
    <2>4. io[u].phase = "saved" => Holding(u)
      BY <2>2 DEF TaskIo, Holding
    <2>5. QED
      BY <1>1, <1>2, <1>8, <2>1, <2>2, <2>3, <2>4 DEF TaskIo
  <1>12. OneHolder' /\ (\A x \in Caller : CallerBound(x)') /\ TokensIssued' /\ ReplayOnlyAfterLoss' /\ SessionTypeOK'
    BY <1>1, <1>2, CallersKept
       DEF SessionInv, OneHolder, Holding, KeyOf, TokensIssued, ReplayOnlyAfterLoss, SessionTypeOK
  <1>13. StoreFollows'
    BY <1>1, <1>7, <1>8 DEF StoreFollows
  <1>14. QED
    BY <1>9, <1>10, <1>11, <1>12, <1>13 DEF SessionInv

\* SaveFails preserves the invariant.
LEMMA SaveFailsInv ==
  ASSUME LifecycleInv, SessionInv, NEW t \in Task, SaveFails(t)
  PROVE  SessionInv'
  <1>1. /\ io'[t] = NoIo /\ coordKey' = coordKey /\ \A u \in Task \ {t} : io'[u] = io[u]
        /\ store' \in {store, None}
    BY FailIoAt DEF SaveFails
  <1>2. live' \subseteq Grant /\ Complete(t, "failed", None)
        /\ UNCHANGED <<closed, issued, spent, banned, orphans, reused>>
    BY DEF SaveFails, SessionInv, SessionTypeOK
  <1>3. QED
    BY <1>1, <1>2, CompleteInv

\* FinishPersist preserves the invariant: the token that was rotated is not stored any more.
LEMMA FinishPersistInv ==
  ASSUME LifecycleInv, SessionInv, NEW t \in Task, FinishPersist(t)
  PROVE  SessionInv'
  <1>1. UNCHANGED <<closed, issued, live, spent, banned, orphans, reused>>
        /\ live' \subseteq Grant /\ reused' \subseteq lost
    BY DEF FinishPersist, SessionInv, SessionTypeOK, ReplayOnlyAfterLoss
  <1>2. task[t].pc = "persist" /\ task[t].grant # None /\ task[t].grant \in Grant /\ Holding(t)
    BY DEF FinishPersist, Running, SessionInv, SessionTypeOK, TaskBound, Holding
  <1>3. /\ io'[t] = NoIo /\ coordKey' = coordKey /\ \A u \in Task \ {t} : io'[u] = io[u]
        /\ store' = store
    BY LocalIoAt DEF FinishPersist, EndPersist
  <1>4. CASE Complete(t, "terminal", None)
    BY <1>1, <1>3, <1>4, CompleteInv
  <1>5. CASE Goto(t, "drop") /\ UNCHANGED <<caller, lost>>
    BY <1>1, <1>2, <1>3, <1>5, GotoInv
  <1>6. CASE Complete(t, "granted", task[t].grant)
    <2>1. Rotating(t) => store # task[t].stored
      <3>1. SUFFICES ASSUME Rotating(t), store = task[t].stored
                     PROVE  FALSE
        OBVIOUS
      <3>2. store # None /\ store.key = KeyOf(t)
        BY <3>1 DEF Rotating, SessionInv, TaskBound, Carried
      <3>3. io[t].phase = "saved"
        BY DEF FinishPersist, EndPersist
      <3>4. store = task[t].grant
        BY <3>2, <3>3 DEF StoredKey, SessionInv, TaskIo
      <3>5. QED
        BY <1>2, <3>1, <3>4 DEF SessionInv, TaskTokens
    <2>2. QED
      BY <1>1, <1>2, <1>3, <1>6, <2>1, CompleteInv
  <1>7. QED
    BY <1>4, <1>5, <1>6 DEF FinishPersist

\* DropUnbound preserves the invariant.
LEMMA DropUnboundInv ==
  ASSUME SessionInv, NEW t \in Task, DropUnbound(t)
  PROVE  SessionInv'
  <1>1. UNCHANGED <<io, coordKey>> /\ store' \in {store, None}
    BY ClearSessionAt DEF DropUnbound
  <1>2. io[t] = NoIo
    BY DEF DropUnbound, Running, SessionInv, TaskIo
  <1>3. Complete(t, "failed", None) /\ UNCHANGED <<closed, issued, spent, banned, orphans, reused>>
        /\ live' \subseteq Grant
    BY DEF DropUnbound, SessionInv, SessionTypeOK
  <1>4. QED
    BY <1>1, <1>2, <1>3, CompleteInv

\* CancelTask preserves the invariant: what the task presented counts as lost.
LEMMA CancelTaskInv ==
  ASSUME LifecycleInv, SessionInv, NEW t \in Task, CancelTask(t)
  PROVE  SessionInv'
  <1>1. /\ io'[t] = NoIo /\ coordKey' = coordKey /\ \A u \in Task \ {t} : io'[u] = io[u]
        /\ store' \in {store, None}
    <2>1. CASE io[t] = NoIo
      BY <2>1 DEF CancelTask, lifecycleVars, deviceVars, processVars
    <2>2. CASE io[t] # NoIo
      BY <2>2, FailIoAt DEF CancelTask
    <2>3. QED
      BY <2>1, <2>2
  <1>2. /\ live' \subseteq Grant /\ Complete(t, "failed", None)
        /\ UNCHANGED <<closed, issued, spent, banned, reused>>
        /\ orphans' \subseteq orphans \cup Presented(t)
    BY DEF CancelTask, SessionInv, SessionTypeOK
  <1>3. QED
    BY <1>1, <1>2, CompleteInv

\* Every step of a task preserves the invariant.
LEMMA TaskStepInv ==
  ASSUME LifecycleInv, SessionInv, NEW t \in Task, TaskStep(t)
  PROVE  SessionInv'
  BY AcquireSessionInv, LoadInv, RemoveForeignInv, StoreFailsInv, EstablishInv, SendInv,
     NonceChallengeInv, RefreshAnsweredInv, ExchangeAnsweredInv, RequestFailsInv, DropDeadInv,
     DropRenewedInv, StartPersistInv, SaveGrantInv, SaveFailsInv, FinishPersistInv,
     DropUnboundInv, CancelTaskInv
  DEF TaskStep

--------------------------------------------------------------------------------
(* The steps of callers and of the environment: tasks go on carrying what they
   carried, whether or not they are cancelled. *)
TasksCarryOn ==
    \A t \in Task :
        /\ task'[t].pc = task[t].pc /\ task'[t].coord = task[t].coord
        /\ task'[t].request = task[t].request
        /\ task'[t].stored = task[t].stored /\ task'[t].grant = task[t].grant

\* Such a step preserves the invariant if it leaves the tokens alone.
LEMMA CarryOnInv ==
  ASSUME SessionInv, TasksCarryOn, task' \in [Task -> TaskRecord], caller' \in [Caller -> CallRecord],
         \A x \in Caller : CallerBound(x)', closed' \subseteq Coord, banned' \subseteq Key,
         UNCHANGED <<io, coordKey, issued, live, spent, orphans, lost, reused>>,
         store' \in {store, None}
  PROVE  SessionInv'
  <1>1. \A t \in Task : /\ KeyOf(t)' = KeyOf(t) /\ Carried(t)' = Carried(t)
                        /\ Holding(t)' = Holding(t) /\ Rotating(t)' = Rotating(t)
    BY DEF TasksCarryOn, KeyOf, Carried, Holding, Rotating
  <1>2. SessionTypeOK'
    BY DEF SessionInv, SessionTypeOK, TaskRecord, CallRecord
  <1>3. ASSUME NEW t \in Task
        PROVE  TaskBound(t)' /\ TaskTokens(t)' /\ TaskIo(t)'
    <2>1. TaskBound(t) /\ TaskTokens(t) /\ TaskIo(t)
      BY DEF SessionInv
    <2>2. TaskBound(t)' /\ TaskTokens(t)'
      BY <1>1, <2>1 DEF TasksCarryOn, TaskBound, TaskTokens
    <2>3. task[t].pc = "persist" => KeyOf(t) # None
      BY <2>1 DEF TaskBound
    <2>4. TaskIo(t)'
      BY <1>1, <2>1, <2>3 DEF TasksCarryOn, TaskIo, StoredKey
    <2>5. QED
      BY <2>2, <2>4
  <1>4. OneHolder'
    BY <1>1 DEF SessionInv, OneHolder
  <1>5. StoreFollows'
    <2>1. None \notin spent
      BY DEF SessionInv, SessionTypeOK
    <2>2. QED
      BY <1>1, <2>1 DEF TasksCarryOn, SessionInv, StoreFollows
  <1>6. TokensIssued' /\ ReplayOnlyAfterLoss'
    BY DEF SessionInv, TokensIssued, ReplayOnlyAfterLoss
  <1>7. QED
    BY <1>2, <1>3, <1>4, <1>5, <1>6 DEF SessionInv

\* Cancelling a coordinator's task, or leaving all tasks alone.
LEMMA CancelledAt ==
  ASSUME SessionInv, NEW c, task' = Cancelled(c)
  PROVE  task' \in [Task -> TaskRecord] /\ TasksCarryOn
  <1>1. task \in [Task -> TaskRecord]
    BY TaskShape
  <1>2. ASSUME NEW t \in Task
        PROVE  /\ task'[t] \in TaskRecord
               /\ task'[t].pc = task[t].pc /\ task'[t].coord = task[t].coord
               /\ task'[t].request = task[t].request
               /\ task'[t].stored = task[t].stored /\ task'[t].grant = task[t].grant
    <2>1. task[t] \in TaskRecord
      BY <1>1
    <2>2. task'[t] = task[t] \/ task'[t] = [task[t] EXCEPT !.cancelled = TRUE]
      BY DEF Cancelled
    <2>3. CASE task'[t] = task[t]
      BY <2>1, <2>3
    <2>4. CASE task'[t] = [task[t] EXCEPT !.cancelled = TRUE]
      BY <2>1, <2>4 DEF TaskRecord
    <2>5. QED
      BY <2>2, <2>3, <2>4
  <1>3. task' = [t \in Task |-> task'[t]]
    BY DEF Cancelled
  <1>4. QED
    BY <1>2, <1>3 DEF TasksCarryOn

LEMMA TasksKept ==
  ASSUME SessionInv, UNCHANGED task
  PROVE  task' \in [Task -> TaskRecord] /\ TasksCarryOn
  BY TaskShape DEF TasksCarryOn

\* A caller's position is well-formed.
PositionOK(v) ==
    /\ v \in CallRecord
    /\ v.pc # "idle" \/ v.task # None => v.coord \in Coord /\ coordKey[v.coord] # None
    /\ v.pc \in {"resume", "sent", "dead"} => v.grant \in Grant

LEMMA PositionNow ==
  ASSUME SessionInv, NEW x \in Caller
  PROVE  caller[x] \in CallRecord /\ PositionOK(caller[x])
  BY DEF SessionInv, SessionTypeOK, CallerBound, CallRecord, PositionOK

LEMMA EnterAt ==
  ASSUME SessionInv, NEW x \in Caller, NEW v, PositionOK(v), Enter(x, v), UNCHANGED coordKey
  PROVE  caller' \in [Caller -> CallRecord] /\ \A y \in Caller : CallerBound(y)'
  <1>1. caller \in [Caller -> CallRecord]
    BY DEF SessionInv, SessionTypeOK, CallRecord
  <1>2. v \in CallRecord
    BY DEF PositionOK
  <1>3. caller' \in [Caller -> CallRecord] /\ caller'[x] = v /\ \A y \in Caller \ {x} : caller'[y] = caller[y]
    BY <1>1, <1>2 DEF Enter
  <1>4. QED
    BY <1>3 DEF SessionInv, CallerBound, PositionOK

\* Leaving, and going to a place that needs no grant.
LEMMA Leaves ==
  PositionOK(NoCall)
  BY DEF PositionOK, CallRecord

LEMMA GoesTo ==
  ASSUME SessionInv, NEW x \in Caller, caller[x].pc # "idle", NEW pc \in CallerPc,
         pc \in {"sent", "dead"} => caller[x].pc \in {"resume", "sent"}, pc # "resume"
  PROVE  PositionOK([caller[x] EXCEPT !.pc = pc])
  <1> DEFINE v == [caller[x] EXCEPT !.pc = pc]
  <1>1. caller[x] \in CallRecord /\ PositionOK(caller[x])
    BY PositionNow
  <1>2. v \in CallRecord /\ v.pc = pc /\ v.coord = caller[x].coord /\ v.grant = caller[x].grant
    BY <1>1 DEF CallRecord
  <1> HIDE DEF v
  <1>3. PositionOK(v)
    BY <1>1, <1>2 DEF PositionOK
  <1>4. QED
    BY <1>3 DEF v

\* What a caller's step leaves alone.
LEMMA CallerAside ==
  ASSUME SessionInv, UNCHANGED <<closed, gatewayVars>>
  PROVE  /\ UNCHANGED <<issued, live, spent, orphans, lost, reused>>
         /\ closed' \subseteq Coord /\ banned' \subseteq Key
  BY DEF gatewayVars, SessionInv, SessionTypeOK

LEMMA SlotAside ==
  ASSUME UNCHANGED lifecycleVars
  PROVE  UNCHANGED <<io, coordKey>> /\ store' \in {store, None}
  BY DEF lifecycleVars, deviceVars, processVars

\* Resume preserves the invariant.
LEMMA ResumeInv ==
  ASSUME SessionInv, NEW x \in Caller, Resume(x)
  PROVE  SessionInv'
  <1>1. UNCHANGED <<io, coordKey>> /\ store' \in {store, None}
    BY SlotAside DEF Resume
  <1>2. PositionOK([caller[x] EXCEPT !.pc = "terminal"]) /\ PositionOK([caller[x] EXCEPT !.pc = "sent"])
    BY GoesTo DEF Resume
  <1>3. caller' \in [Caller -> CallRecord] /\ \A y \in Caller : CallerBound(y)'
    BY <1>1, <1>2, Leaves, EnterAt DEF Resume
  <1>4. UNCHANGED task /\ UNCHANGED <<closed, gatewayVars>>
    BY DEF Resume
  <1>5. QED
    BY <1>1, <1>3, <1>4, CallerAside, TasksKept, CarryOnInv

\* RequestAnswered preserves the invariant.
LEMMA RequestAnsweredInv ==
  ASSUME SessionInv, NEW x \in Caller, RequestAnswered(x)
  PROVE  SessionInv'
  <1>1. UNCHANGED <<io, coordKey>> /\ store' \in {store, None}
    BY SlotAside DEF RequestAnswered
  <1>2. caller[x].pc = "sent" /\ caller[x].grant \in Grant
    BY PositionNow DEF RequestAnswered, PositionOK
  <1>3. PositionOK([caller[x] EXCEPT !.pc = "terminal"]) /\ PositionOK([caller[x] EXCEPT !.pc = "dead"])
    BY <1>2, GoesTo
  <1>4. \E v : PositionOK(v) /\ Enter(x, v)
    BY <1>3, Leaves DEF RequestAnswered
  <1>5. caller' \in [Caller -> CallRecord] /\ \A y \in Caller : CallerBound(y)'
    BY <1>1, <1>4, EnterAt
  <1>6. UNCHANGED <<task, closed, issued, live, spent, orphans, lost, reused>>
    BY DEF RequestAnswered
  <1>7. banned \subseteq Key /\ closed' \subseteq Coord
    BY <1>6 DEF SessionInv, SessionTypeOK
  <1>8. banned' \subseteq banned \cup {caller[x].grant.key}
    BY DEF RequestAnswered
  <1>9. caller[x].grant.key \in Key
    BY <1>2
  <1>10. banned' \subseteq Key
    BY <1>7, <1>8, <1>9
  <1>11. QED
    BY <1>1, <1>5, <1>6, <1>7, <1>10, TasksKept, CarryOnInv

\* DropRefused preserves the invariant.
LEMMA DropRefusedInv ==
  ASSUME SessionInv, NEW x \in Caller, DropRefused(x)
  PROVE  SessionInv'
  <1>1. UNCHANGED <<io, coordKey>> /\ store' \in {store, None}
    BY ClearSessionAt DEF DropRefused
  <1>2. caller' \in [Caller -> CallRecord] /\ \A y \in Caller : CallerBound(y)'
    BY <1>1, Leaves, EnterAt DEF DropRefused
  <1>3. UNCHANGED task /\ UNCHANGED <<closed, gatewayVars>>
    BY DEF DropRefused
  <1>4. QED
    BY <1>1, <1>2, <1>3, CallerAside, TasksKept, CarryOnInv

\* StartCleanup preserves the invariant.
LEMMA StartCleanupInv ==
  ASSUME SessionInv, NEW x \in Caller, StartCleanup(x)
  PROVE  SessionInv'
  <1>1. UNCHANGED <<io, coordKey>> /\ store' \in {store, None}
    BY DEF StartCleanup, BeginCleanup, deviceVars
  <1>2. PositionOK([caller[x] EXCEPT !.pc = "cleaning"])
    BY GoesTo DEF StartCleanup
  <1>3. caller' \in [Caller -> CallRecord] /\ \A y \in Caller : CallerBound(y)'
    BY <1>1, <1>2, EnterAt DEF StartCleanup
  <1>4. task' \in [Task -> TaskRecord] /\ TasksCarryOn /\ UNCHANGED <<closed, gatewayVars>>
    BY CancelledAt DEF StartCleanup
  <1>5. QED
    BY <1>1, <1>3, <1>4, CallerAside, CarryOnInv

\* RunCleanup preserves the invariant.
LEMMA RunCleanupInv ==
  ASSUME SessionInv, NEW x \in Caller, RunCleanup(x)
  PROVE  SessionInv'
  <1>1. UNCHANGED <<io, coordKey>> /\ store' \in {store, None}
    BY DEF RunCleanup, CleanupStep, EnterCleanup, ClearState, ResetKey, StorageFailure,
           WithoutInstallation, deviceVars
  <1>2. caller' \in [Caller -> CallRecord] /\ \A y \in Caller : CallerBound(y)'
    <2>1. CASE Enter(x, NoCall)
      BY <1>1, <2>1, Leaves, EnterAt
    <2>2. CASE UNCHANGED caller
      BY <1>1, <2>2, CallersKept DEF SessionInv, SessionTypeOK, CallRecord
    <2>3. QED
      BY <2>1, <2>2 DEF RunCleanup, Enter
  <1>3. UNCHANGED task /\ UNCHANGED <<closed, gatewayVars>>
    BY DEF RunCleanup
  <1>4. QED
    BY <1>1, <1>2, <1>3, CallerAside, TasksKept, CarryOnInv

\* Wipe preserves the invariant.
LEMMA WipeInv ==
  ASSUME SessionInv, NEW x \in Caller, Wipe(x)
  PROVE  SessionInv'
  <1>1. UNCHANGED <<io, coordKey>> /\ store' \in {store, None}
    BY DEF Wipe, ClearInstallation, StoreBecomes, WithoutInstallation, StorageFailure, processVars
  <1>2. caller' \in [Caller -> CallRecord] /\ \A y \in Caller : CallerBound(y)'
    BY <1>1, Leaves, EnterAt DEF Wipe
  <1>3. UNCHANGED task /\ UNCHANGED <<closed, gatewayVars>>
    BY DEF Wipe
  <1>4. QED
    BY <1>1, <1>2, <1>3, CallerAside, TasksKept, CarryOnInv

\* Abandon preserves the invariant.
LEMMA AbandonInv ==
  ASSUME SessionInv, NEW x \in Caller, Abandon(x)
  PROVE  SessionInv'
  <1>1. UNCHANGED <<io, coordKey>> /\ store' \in {store, None}
    BY SlotAside DEF Abandon
  <1>2. caller' \in [Caller -> CallRecord] /\ \A y \in Caller : CallerBound(y)'
    BY <1>1, Leaves, EnterAt DEF Abandon
  <1>3. UNCHANGED task /\ UNCHANGED <<closed, gatewayVars>>
    BY DEF Abandon
  <1>4. QED
    BY <1>1, <1>2, <1>3, CallerAside, TasksKept, CarryOnInv

\* A caller enters on a coordinator that exists.
LEMMA Entered ==
  ASSUME NEW c \in Coord, coordKey[c] # None, NEW op \in Operations \cup {"none"},
         NEW pc \in {"terminal", "await", "joining", "wiping"}, NEW t \in Task \cup {None}
  PROVE  PositionOK([pc |-> pc, op |-> op, coord |-> c, task |-> t, grant |-> None])
  BY DEF PositionOK, CallRecord

\* Call preserves the invariant.
LEMMA CallInv ==
  ASSUME SessionInv, NEW x \in Caller, NEW c \in Coord, NEW op \in Operations, Call(x, c, op)
  PROVE  SessionInv'
  <1>1. UNCHANGED <<io, coordKey, store>>
    BY DEF Call, lifecycleVars, deviceVars, processVars
  <1>2. /\ coordKey[c] # None /\ UNCHANGED <<closed, gatewayVars>>
        /\ UNCHANGED <<issued, live, spent, orphans, lost, reused, banned>>
        /\ closed' \subseteq Coord /\ banned' \subseteq Key
    BY CallerAside DEF Call, gatewayVars
  <1>3. \E v : PositionOK(v) /\ Enter(x, v)
    BY <1>2, Entered DEF Call, InFlight
  <1>4. caller' \in [Caller -> CallRecord] /\ \A y \in Caller : CallerBound(y)'
    BY <1>1, <1>3, EnterAt
  <1>5. CASE UNCHANGED task
    BY <1>1, <1>2, <1>4, <1>5, TasksKept, CarryOnInv
  <1>6. ASSUME NEW t \in Task, task[t] = NoTask,
               task' = [task EXCEPT ![t] = [NoTask EXCEPT !.pc = "queued", !.coord = c,
                                                         !.force = (op = "refresh")]]
        PROVE  SessionInv'
    <2> DEFINE r == [NoTask EXCEPT !.pc = "queued", !.coord = c, !.force = (op = "refresh")]
    <2>1. /\ r \in TaskRecord /\ r.pc = "queued" /\ r.coord = c /\ r.request = "none"
          /\ r.stored = None /\ r.grant = None
      BY DEF TaskRecord
    <2>2. task \in [Task -> TaskRecord] /\ task' = [task EXCEPT ![t] = r]
      BY <1>6, TaskShape
    <2> HIDE DEF r
    <2>3. task' \in [Task -> TaskRecord] /\ task'[t] = r /\ \A u \in Task \ {t} : task'[u] = task[u]
      BY <2>1, <2>2
    <2>4. io[t] = NoIo /\ ~Holding(t)' /\ ~Rotating(t) /\ Carried(t)' = {} /\ KeyOf(t)' # None
      BY <1>1, <1>2, <1>6, <2>1, <2>3 DEF SessionInv, TaskIo, Holding, Rotating, Carried, KeyOf
    <2>5. TokensEvolve(t) /\ StoredSettled(t) /\ LockKept(t)
      BY <1>2, <2>4 DEF TokensEvolve, StoredSettled, LockKept, SessionInv, TokensIssued, ReplayOnlyAfterLoss
    <2>6. TaskBound(t)' /\ TaskTokens(t)' /\ TaskIo(t)'
      BY <1>1, <2>1, <2>3, <2>4 DEF TaskBound, TaskTokens, TaskIo
    <2>7. Evolves(t)
      BY <1>1, <2>3, <2>5, <2>6 DEF Evolves
    <2>8. SessionTypeOK'
      BY <1>2, <1>4, <2>3 DEF SessionInv, SessionTypeOK, TaskRecord, CallRecord
    <2>9. QED
      BY <1>4, <2>7, <2>8, EvolvesInv
  <1>7. QED
    BY <1>5, <1>6 DEF Call

\* Mark preserves the invariant.
LEMMA MarkInv ==
  ASSUME SessionInv, NEW x \in Caller, NEW c \in Coord, Mark(x, c)
  PROVE  SessionInv'
  <1>1. UNCHANGED <<io, coordKey>> /\ store' \in {store, None}
    BY SlotAside DEF Mark
  <1>2. PositionOK([NoCall EXCEPT !.pc = "terminal", !.coord = c])
    BY DEF Mark, PositionOK, CallRecord
  <1>3. caller' \in [Caller -> CallRecord] /\ \A y \in Caller : CallerBound(y)'
    BY <1>1, <1>2, EnterAt DEF Mark
  <1>4. UNCHANGED task /\ UNCHANGED <<closed, gatewayVars>>
    BY DEF Mark
  <1>5. QED
    BY <1>1, <1>3, <1>4, CallerAside, TasksKept, CarryOnInv

\* Clear preserves the invariant.
LEMMA ClearInv ==
  ASSUME SessionInv, NEW x \in Caller, NEW c \in Coord, Clear(x, c)
  PROVE  SessionInv'
  <1>1. UNCHANGED <<io, coordKey>> /\ store' \in {store, None}
    BY SlotAside DEF Clear
  <1>2. \E v : PositionOK(v) /\ Enter(x, v)
    BY Entered DEF Clear, InFlight
  <1>3. caller' \in [Caller -> CallRecord] /\ \A y \in Caller : CallerBound(y)'
    BY <1>1, <1>2, EnterAt
  <1>4. task' \in [Task -> TaskRecord] /\ TasksCarryOn /\ UNCHANGED <<closed, gatewayVars>>
    BY CancelledAt DEF Clear
  <1>5. QED
    BY <1>1, <1>3, <1>4, CallerAside, CarryOnInv

\* Close preserves the invariant.
LEMMA CloseInv ==
  ASSUME SessionInv, NEW c \in Coord, Close(c)
  PROVE  SessionInv'
  <1>1. UNCHANGED <<io, coordKey>> /\ store' \in {store, None}
    BY SlotAside DEF Close
  <1>2. caller' \in [Caller -> CallRecord] /\ \A y \in Caller : CallerBound(y)'
    BY <1>1, CallersKept DEF Close, SessionInv, SessionTypeOK, CallRecord
  <1>3. task' \in [Task -> TaskRecord] /\ TasksCarryOn
    BY CancelledAt DEF Close
  <1>4. closed' \subseteq Coord /\ banned' \subseteq Key
        /\ UNCHANGED <<issued, live, spent, orphans, lost, reused>>
    BY DEF Close, gatewayVars, SessionInv, SessionTypeOK
  <1>5. QED
    BY <1>1, <1>2, <1>3, <1>4, CarryOnInv

\* OpenClient preserves the invariant: a new coordinator has no task and no caller yet.
LEMMA OpenClientInv ==
  ASSUME LifecycleInv, SessionInv, NEW c \in Coord, OpenClient(c)
  PROVE  SessionInv'
  <1>1. UNCHANGED <<io, store, task, caller, closed, issued, live, spent, banned, orphans, lost, reused>>
    BY DEF OpenClient, Open, sessionVars, gatewayVars
  <1>2. coordKey[c] = None /\ \A d \in Coord : d # c => coordKey'[d] = coordKey[d]
    BY DEF OpenClient, Open, LifecycleInv, LifecycleTypeOK
  <1>3. \A d \in Coord : coordKey[d] # None => coordKey'[d] = coordKey[d]
    BY <1>2
  <1>4. ASSUME NEW t \in Task
        PROVE  TaskBound(t)' /\ TaskTokens(t)' /\ TaskIo(t)' /\ (Holding(t) => KeyOf(t)' = KeyOf(t))
    <2>1. TaskBound(t) /\ TaskTokens(t) /\ TaskIo(t)
      BY DEF SessionInv
    <2>2. task[t].pc # "idle" => KeyOf(t)' = KeyOf(t)
      BY <1>1, <1>3, <2>1 DEF TaskBound, KeyOf
    <2>3. TaskBound(t)' /\ TaskTokens(t)'
      BY <1>1, <2>1, <2>2 DEF TaskBound, TaskTokens, Carried, Holding
    <2>4. TaskIo(t)'
      BY <1>1, <2>1, <2>2 DEF TaskIo, StoredKey
    <2>5. QED
      BY <2>2, <2>3, <2>4 DEF Holding
  <1>5. OneHolder'
    BY <1>1, <1>4 DEF SessionInv, OneHolder, Holding
  <1>6. \A x \in Caller : CallerBound(x)'
    BY <1>1, <1>3 DEF SessionInv, CallerBound
  <1>7. SessionTypeOK' /\ StoreFollows' /\ TokensIssued' /\ ReplayOnlyAfterLoss'
    BY <1>1 DEF SessionInv, SessionTypeOK, StoreFollows, Rotating, TokensIssued, ReplayOnlyAfterLoss
  <1>8. QED
    BY <1>4, <1>5, <1>6, <1>7 DEF SessionInv

\* KeyRejected, Ban and stuttering preserve the invariant.
LEMMA KeyRejectedInv ==
  ASSUME SessionInv, KeyRejected
  PROVE  SessionInv'
  <1>1. UNCHANGED <<io, coordKey, store, task, caller>> /\ UNCHANGED <<closed, gatewayVars>>
    BY DEF KeyRejected, RejectKey, processVars, sessionVars
  <1>2. caller' \in [Caller -> CallRecord] /\ \A y \in Caller : CallerBound(y)'
    BY <1>1, CallersKept DEF SessionInv, SessionTypeOK, CallRecord
  <1>3. QED
    BY <1>1, <1>2, CallerAside, TasksKept, CarryOnInv

LEMMA BanInv ==
  ASSUME SessionInv, NEW k \in Key, Ban(k)
  PROVE  SessionInv'
  <1>1. /\ UNCHANGED <<io, coordKey, store, task, caller, closed>>
        /\ UNCHANGED <<issued, live, spent, orphans, lost, reused>>
    BY DEF Ban, lifecycleVars, deviceVars, processVars
  <1>2. caller' \in [Caller -> CallRecord] /\ \A y \in Caller : CallerBound(y)'
    BY <1>1, CallersKept DEF SessionInv, SessionTypeOK, CallRecord
  <1>3. closed' \subseteq Coord /\ banned' \subseteq Key
    BY <1>1 DEF Ban, SessionInv, SessionTypeOK
  <1>4. QED
    BY <1>1, <1>2, <1>3, TasksKept, CarryOnInv

LEMMA RootStutterInv ==
  ASSUME SessionInv, UNCHANGED rootVars
  PROVE  SessionInv'
  <1>1. UNCHANGED <<io, coordKey, store, task, caller>> /\ UNCHANGED <<closed, gatewayVars>>
    BY DEF rootVars, lifecycleVars, deviceVars, processVars, sessionVars
  <1>2. caller' \in [Caller -> CallRecord] /\ \A y \in Caller : CallerBound(y)'
    BY <1>1, CallersKept DEF SessionInv, SessionTypeOK, CallRecord
  <1>3. QED
    BY <1>1, <1>2, CallerAside, TasksKept, CarryOnInv

\* OrphanArrives preserves the invariant: what arrives late is lost already.
LEMMA OrphanArrivesInv ==
  ASSUME SessionInv, NEW g \in orphans, OrphanArrives(g)
  PROVE  SessionInv'
  <1>1. UNCHANGED <<io, coordKey, store, task, caller, closed, issued, banned, lost>> /\ orphans' = orphans \ {g}
    BY DEF OrphanArrives, lifecycleVars, deviceVars, processVars
  <1>2. g \in Grant /\ g \in lost
    BY DEF SessionInv, SessionTypeOK, TokensIssued
  <1>3. live' \subseteq Grant /\ spent \subseteq spent' /\ spent' \subseteq spent \cup {g} /\ reused' \subseteq lost
    <2>1. CASE GatewayRefresh(g, {})
      BY <1>2, <2>1, GatewayRefreshAt
    <2>2. CASE UNCHANGED <<live, spent, reused>>
      BY <2>2 DEF SessionInv, SessionTypeOK, ReplayOnlyAfterLoss
    <2>3. QED
      BY <2>1, <2>2 DEF OrphanArrives
  <1>4. \A t \in Task : TaskBound(t)' /\ TaskTokens(t)' /\ TaskIo(t)'
    <2>1. \A t \in Task : TaskBound(t) /\ TaskTokens(t) /\ TaskIo(t)
      BY DEF SessionInv
    <2>2. QED
      BY <1>1, <1>2, <1>3, <2>1 DEF TaskBound, Carried, KeyOf, Holding, TaskTokens, TaskIo, StoredKey
  <1>5. OneHolder' /\ \A x \in Caller : CallerBound(x)'
    BY <1>1 DEF SessionInv, OneHolder, Holding, KeyOf, CallerBound
  <1>6. StoreFollows' /\ TokensIssued' /\ ReplayOnlyAfterLoss'
    BY <1>1, <1>2, <1>3 DEF SessionInv, StoreFollows, Rotating, TokensIssued, ReplayOnlyAfterLoss
  <1>7. SessionTypeOK'
    BY <1>1, <1>2, <1>3 DEF SessionInv, SessionTypeOK
  <1>8. QED
    BY <1>4, <1>5, <1>6, <1>7 DEF SessionInv

\* ProcessDies preserves the invariant: every token on its way is lost.
LEMMA ProcessDiesInv ==
  ASSUME LifecycleInv, SessionInv, ProcessDies
  PROVE  SessionInv'
  <1>1. /\ store' = store /\ task' = [t \in Task |-> NoTask] /\ caller' = [x \in Caller |-> NoCall]
        /\ io' = [t \in Task |-> NoIo] /\ closed' = {}
        /\ UNCHANGED <<issued, live, spent, banned, reused>>
    BY DEF ProcessDies, Crash, ProcessForgotten, deviceVars
  <1>2. \A t \in Task : Presented(t) \subseteq Grant /\ \A g \in Presented(t) : g.serial \in issued
    <2>1. ASSUME NEW t \in Task, NEW g \in Presented(t)
          PROVE  g \in Grant /\ g.serial \in issued
      <3>1. g = task[t].stored /\ task[t].request = "refresh"
        BY <2>1 DEF Presented
      <3>2. QED
        BY <3>1 DEF SessionInv, SessionTypeOK, TaskBound, Carried
    <2>2. QED
      BY <2>1
  <1>3. /\ lost \subseteq lost' /\ lost' \subseteq Grant
        /\ \A t \in Task : Presented(t) \subseteq lost'
    BY <1>2 DEF ProcessDies, SessionInv, SessionTypeOK
  <1>4. /\ orphans' \subseteq Grant /\ orphans' \subseteq lost'
        /\ \A g \in orphans' : g.serial \in issued
    <2>1. \A g \in orphans' : g \in orphans \/ \E t \in Task : g \in Presented(t)
      BY DEF ProcessDies
    <2>2. QED
      BY <1>2, <1>3, <2>1 DEF SessionInv, SessionTypeOK, TokensIssued
  <1>5. SessionTypeOK'
    <2>1. task' \in [Task -> TaskRecord] /\ caller' \in [Caller -> CallRecord]
      BY <1>1 DEF TaskRecord, CallRecord
    <2>2. QED
      BY <1>1, <1>3, <1>4, <2>1 DEF SessionInv, SessionTypeOK, TaskRecord, CallRecord
  <1>6. \A t \in Task : TaskBound(t)' /\ TaskTokens(t)' /\ TaskIo(t)'
    BY <1>1 DEF TaskBound, Carried, TaskTokens, TaskIo
  <1>7. OneHolder' /\ \A x \in Caller : CallerBound(x)'
    BY <1>1 DEF OneHolder, Holding, CallerBound
  <1>8. StoreFollows'
    <2>1. ASSUME NEW t \in Task, Rotating(t), task[t].stored = store
          PROVE  store \in lost'
      BY <1>3, <2>1 DEF Rotating, Presented, SessionInv, TaskBound
    <2>2. QED
      BY <1>1, <1>3, <2>1 DEF SessionInv, StoreFollows
  <1>9. TokensIssued' /\ ReplayOnlyAfterLoss'
    BY <1>1, <1>3, <1>4 DEF SessionInv, TokensIssued, ReplayOnlyAfterLoss
  <1>10. QED
    BY <1>5, <1>6, <1>7, <1>8, <1>9 DEF SessionInv

\* Every step preserves the invariant.
LEMMA RootNextInv ==
  ASSUME LifecycleInv, SessionInv, [RootNext]_rootVars
  PROVE  SessionInv'
  <1>1. CASE UNCHANGED rootVars
    BY <1>1, RootStutterInv
  <1>2. CASE \E t \in Task : TaskStep(t)
    BY <1>2, TaskStepInv
  <1>3. CASE \E x \in Caller : CallerStep(x) \/ Abandon(x)
    BY <1>3, ResumeInv, RequestAnsweredInv, DropRefusedInv, StartCleanupInv, RunCleanupInv,
       WipeInv, AbandonInv DEF CallerStep
  <1>4. CASE \E x \in Caller, c \in Coord :
               (\E op \in Operations : Call(x, c, op)) \/ Mark(x, c) \/ Clear(x, c)
    BY <1>4, CallInv, MarkInv, ClearInv
  <1>5. CASE \E c \in Coord : OpenClient(c) \/ Close(c)
    BY <1>5, OpenClientInv, CloseInv
  <1>6. CASE \E g \in orphans : OrphanArrives(g)
    BY <1>6, OrphanArrivesInv
  <1>7. CASE (\E k \in Key : Ban(k)) \/ KeyRejected \/ ProcessDies
    BY <1>7, BanInv, KeyRejectedInv, ProcessDiesInv
  <1>8. QED
    BY <1>1, <1>2, <1>3, <1>4, <1>5, <1>6, <1>7 DEF RootNext

--------------------------------------------------------------------------------
(* The coordinator keeps to the lifecycle. *)

\* A task's step is a step of the lifecycle, or leaves the slot alone.
LEMMA TaskStepRefines ==
  ASSUME SessionInv, NEW t \in Task, TaskStep(t)
  PROVE  [LifecycleNext]_lifecycleVars
  <1>1. task[t].pc # "idle" => task[t].coord \in Coord
    BY DEF SessionInv, TaskBound
  <1>2. task[t].pc \in {"persist", "drop"} => task[t].grant \in Grant
    BY DEF SessionInv, SessionTypeOK, TaskBound
  <1>3. task[t].pc \in {"dead", "renew"} => task[t].stored \in Grant
    BY DEF SessionInv, SessionTypeOK, TaskBound
  <1>4. CASE AcquireSession(t)
    BY <1>1, <1>4 DEF AcquireSession, Running, LifecycleNext
  <1>5. CASE Load(t) \/ RemoveForeign(t)
    BY <1>5 DEF Load, RemoveForeign, LifecycleNext, LoadStep
  <1>6. CASE StoreFails(t) \/ SaveFails(t) \/ CancelTask(t)
    BY <1>6 DEF StoreFails, SaveFails, CancelTask, LifecycleNext
  <1>7. CASE Establish(t) \/ Send(t) \/ NonceChallenge(t) \/ RefreshAnswered(t) \/ ExchangeAnswered(t)
             \/ RequestFails(t)
    BY <1>7 DEF Establish, Send, NonceChallenge, RefreshAnswered, ExchangeAnswered, RequestFails
  <1>8. CASE DropDead(t) \/ DropRenewed(t)
    BY <1>3, <1>8 DEF DropDead, DropRenewed, Running, LifecycleNext
  <1>9. CASE DropUnbound(t)
    BY <1>2, <1>9 DEF DropUnbound, Running, LifecycleNext
  <1>10. CASE StartPersist(t)
    BY <1>1, <1>2, <1>10 DEF StartPersist, Running, LifecycleNext
  <1>11. CASE SaveGrant(t) \/ FinishPersist(t)
    BY <1>11 DEF SaveGrant, FinishPersist, LifecycleNext, PersistStep
  <1>12. QED
    BY <1>4, <1>5, <1>6, <1>7, <1>8, <1>9, <1>10, <1>11 DEF TaskStep

\* So is every step.
LEMMA RootNextRefines ==
  ASSUME SessionInv, [RootNext]_rootVars
  PROVE  [LifecycleNext]_lifecycleVars
  <1>1. CASE UNCHANGED rootVars
    BY <1>1 DEF rootVars
  <1>2. CASE \E t \in Task : TaskStep(t)
    BY <1>2, TaskStepRefines
  <1>3. ASSUME NEW x \in Caller, CallerStep(x) \/ Abandon(x)
        PROVE  [LifecycleNext]_lifecycleVars
    <2>1. caller[x].pc # "idle" => caller[x].coord \in Coord
      BY DEF SessionInv, CallerBound
    <2>2. caller[x].pc = "dead" => caller[x].grant \in Grant
      BY DEF SessionInv, CallerBound
    <2>3. CASE Resume(x) \/ RequestAnswered(x) \/ Abandon(x)
      BY <2>3 DEF Resume, RequestAnswered, Abandon
    <2>4. CASE DropRefused(x)
      BY <2>2, <2>4 DEF DropRefused, LifecycleNext
    <2>5. CASE StartCleanup(x)
      BY <2>1, <2>5 DEF StartCleanup, LifecycleNext
    <2>6. CASE RunCleanup(x)
      BY <2>6 DEF RunCleanup, LifecycleNext
    <2>7. CASE Wipe(x)
      BY <2>1, <2>7 DEF Wipe, LifecycleNext
    <2>8. QED
      BY <1>3, <2>3, <2>4, <2>5, <2>6, <2>7 DEF CallerStep
  <1>4. CASE \E x \in Caller, c \in Coord :
               (\E op \in Operations : Call(x, c, op)) \/ Mark(x, c) \/ Clear(x, c)
    <2>1. UNCHANGED lifecycleVars
      <3>1. ASSUME NEW x \in Caller, NEW c \in Coord, NEW op \in Operations, Call(x, c, op)
            PROVE  UNCHANGED lifecycleVars
        BY <3>1, Zenon DEF Call
      <3>2. ASSUME NEW x \in Caller, NEW c \in Coord, Mark(x, c) \/ Clear(x, c)
            PROVE  UNCHANGED lifecycleVars
        BY <3>2, Zenon DEF Mark, Clear
      <3>3. QED
        BY <1>4, <3>1, <3>2, Zenon
    <2>2. QED
      BY <2>1
  <1>5. CASE \E c \in Coord : OpenClient(c) \/ Close(c)
    BY <1>5 DEF OpenClient, Close, LifecycleNext
  <1>6. CASE (\E g \in orphans : OrphanArrives(g)) \/ (\E k \in Key : Ban(k))
    BY <1>6 DEF OrphanArrives, Ban
  <1>7. CASE KeyRejected \/ ProcessDies
    BY <1>7 DEF KeyRejected, ProcessDies, LifecycleNext
  <1>8. QED
    BY <1>1, <1>2, <1>3, <1>4, <1>5, <1>6, <1>7 DEF RootNext

--------------------------------------------------------------------------------
(* The theorems. *)

\* The inductive invariant of coordinator and slot together.
THEOREM RootInvariant == RootSpec => [](LifecycleInv /\ SessionInv)
  <1>1. RootInit => LifecycleInv /\ SessionInv
    BY InitInv, SessionInitInv DEF RootInit
  <1>2. LifecycleInv /\ SessionInv /\ [RootNext]_rootVars => (LifecycleInv /\ SessionInv)'
    BY NextInv, RootNextInv, RootNextRefines
  <1>3. QED
    BY <1>1, <1>2, PTL DEF RootSpec

\* Whatever calls, tasks and the gateway do, the slot sees steps of the lifecycle
\* only: what is proved of it holds for the coordinator (SessionCoordinator.kt).
THEOREM ImplementsLifecycle == RootSpec => LifecycleSpec
  <1>1. RootInit => LifecycleInit
    BY DEF RootInit
  <1>2. SessionInv /\ [RootNext]_rootVars => [LifecycleNext]_lifecycleVars
    BY RootNextRefines
  <1>3. QED
    BY <1>1, <1>2, RootInvariant, PTL DEF RootSpec, LifecycleSpec

\* Concurrent calls, of one client or of several, do not make the gateway see a
\* replay unless the answer to the first presentation was lost
\* (docs/architecture.md:124-125).
THEOREM ReplayNeedsLoss == RootSpec => []ReplayOnlyAfterLoss
  <1>1. SessionInv => ReplayOnlyAfterLoss
    BY DEF SessionInv
  <1>2. QED
    BY <1>1, RootInvariant, PTL

\* No identity comes back after its clean-up, under the coordinators as well
\* (InstallationKeyLifecycle.kt:50-54).
THEOREM RootWipedIdentity == RootSpec => []WipedStaysWiped
  BY ImplementsLifecycle, WipedIdentity, PTL

\* A stale client of the SDK never deletes a replacement key
\* (InstallationKeyLifecycle.kt:117-121).
THEOREM RootReplacementKeySafe == RootSpec => KeyLeavesOnlyRetired
  BY ImplementsLifecycle, ReplacementKeySafe, PTL

\* The coordinators over one slot keep the promise of module InstallationVault.
THEOREM RootImplementsVault == RootSpec => VaultPromise
  BY ImplementsLifecycle, ImplementsVault, PTL

--------------------------------------------------------------------------------
(* Which grants are handed out, and which are dropped. *)

\* Refused grants stay refused, a task drops a grant only when its key is gone or
\* retired, and callers use grants that were issued.
UsesGrant(x) == caller[x].pc \in {"resume", "sent", "dead"}
RefusedNotLive == \A t \in Task : task[t].pc \in {"dead", "renew"} => task[t].stored \notin live
DropsUnbound == \A t \in Task : task[t].pc = "drop" => aliasKey # KeyOf(t) \/ KeyOf(t) \in retired
CallersIssued ==
    \A x \in Caller :
        /\ UsesGrant(x) => caller[x].grant.serial \in issued
        /\ caller[x].pc = "dead" => caller[x].grant \notin live

FlowInv == RefusedNotLive /\ DropsUnbound /\ CallersIssued

\* Task t completes with grant g: the one it loaded, or the one it has persisted.
HandsOut(t, g) ==
    \/ Load(t) /\ store = g /\ g # None
    \/ FinishPersist(t) /\ task[t].grant = g

\* A caller that waits for a task goes on with its grant, or without one.
LEMMA DeliveredAt ==
  ASSUME SessionInv, NEW t \in Task, NEW outcome \in {"granted", "terminal", "failed"}, NEW g,
         caller' = Delivered(t, outcome, g), NEW x \in Caller
  PROVE  \/ caller'[x] = caller[x]
         \/ ~UsesGrant(x)'
         \/ outcome = "granted" /\ caller'[x].pc = "resume" /\ caller'[x].grant = g
  <1>1. caller[x] \in CallRecord
    BY DEF SessionInv, SessionTypeOK, CallRecord
  <1>2. \/ caller'[x] = caller[x]
        \/ caller'[x] = [caller[x] EXCEPT !.pc = "wiping", !.task = None]
        \/ outcome = "granted" /\ caller'[x] = [caller[x] EXCEPT !.pc = "resume", !.task = None, !.grant = g]
        \/ caller'[x] = [caller[x] EXCEPT !.pc = "terminal", !.task = None]
        \/ caller'[x] = NoCall
    BY DEF Delivered
  <1>3. ASSUME outcome = "granted", caller'[x] = [caller[x] EXCEPT !.pc = "resume", !.task = None, !.grant = g]
        PROVE  caller'[x].pc = "resume" /\ caller'[x].grant = g
    <2>1. caller'[x] = [pc |-> "resume", op |-> caller[x].op, coord |-> caller[x].coord,
                        task |-> None, grant |-> g]
      BY <1>1, <1>3 DEF CallRecord
    <2>2. QED
      BY <2>1
  <1>4. ASSUME NEW pc \in {"wiping", "terminal"}, caller'[x] = [caller[x] EXCEPT !.pc = pc, !.task = None]
        PROVE  caller'[x].pc = pc
    BY <1>1, <1>4 DEF CallRecord
  <1>5. QED
    BY <1>2, <1>3, <1>4 DEF UsesGrant

\* A step of a task changes what its callers use only by handing out a grant.
LEMMA TaskHandsOut ==
  ASSUME SessionInv, NEW t \in Task, TaskStep(t), NEW x \in Caller
  PROVE  \/ caller'[x] = caller[x]
         \/ ~UsesGrant(x)'
         \/ caller'[x].pc = "resume" /\ HandsOut(t, caller'[x].grant)
  <1> DEFINE Kept == caller'[x] = caller[x] \/ ~UsesGrant(x)'
  <1>1. ASSUME NEW outcome \in {"terminal", "failed"}, Complete(t, outcome, None)
        PROVE  Kept
    BY <1>1, DeliveredAt DEF Complete
  <1>2. CASE Load(t)
    <2>1. ASSUME store # None, Complete(t, "granted", store)
          PROVE  Kept \/ (caller'[x].pc = "resume" /\ HandsOut(t, caller'[x].grant))
      BY <1>2, <2>1, DeliveredAt DEF Complete, HandsOut
    <2>2. QED
      BY <1>2, <2>1 DEF Load
  <1>3. CASE FinishPersist(t)
    <2>1. ASSUME Complete(t, "granted", task[t].grant)
          PROVE  Kept \/ (caller'[x].pc = "resume" /\ HandsOut(t, caller'[x].grant))
      BY <1>3, <2>1, DeliveredAt DEF Complete, HandsOut
    <2>2. QED
      BY <1>1, <1>3, <2>1 DEF FinishPersist
  <1>4. CASE AcquireSession(t) \/ Establish(t) \/ Send(t) \/ RefreshAnswered(t)
    BY <1>1, <1>4 DEF AcquireSession, Establish, Send, RefreshAnswered
  <1>5. CASE ExchangeAnswered(t) \/ RequestFails(t) \/ StoreFails(t) \/ DropDead(t) \/ DropRenewed(t)
    BY <1>1, <1>5 DEF ExchangeAnswered, RequestFails, StoreFails, DropDead, DropRenewed
  <1>6. CASE StartPersist(t) \/ SaveFails(t) \/ DropUnbound(t) \/ CancelTask(t)
    BY <1>1, <1>6 DEF StartPersist, SaveFails, DropUnbound, CancelTask
  <1>7. CASE RemoveForeign(t) \/ NonceChallenge(t) \/ SaveGrant(t)
    BY <1>7 DEF RemoveForeign, NonceChallenge, SaveGrant, sessionVars
  <1>8. QED
    BY <1>2, <1>3, <1>4, <1>5, <1>6, <1>7 DEF TaskStep

\* A caller goes on with the grant it has.
LEMMA EnteredAt ==
  ASSUME SessionInv, NEW x \in Caller, NEW v, Enter(x, v), NEW y \in Caller
  PROVE  IF y = x THEN caller'[y] = v ELSE caller'[y] = caller[y]
  BY DEF Enter, SessionInv, SessionTypeOK

\* What a step makes of the grant a caller uses.
CallerKeeps(x) ==
    /\ UsesGrant(x) /\ caller'[x].grant = caller[x].grant
    /\ caller'[x].pc = "resume" => caller[x].pc = "resume"
    /\ caller'[x].pc = "dead" => caller[x].pc = "dead" \/ (caller[x].grant \notin live /\ live' = live)

LEMMA CallerGoesOn ==
  ASSUME SessionInv, NEW y \in Caller, CallerStep(y) \/ Abandon(y), NEW x \in Caller
  PROVE  caller'[x] = caller[x] \/ ~UsesGrant(x)' \/ CallerKeeps(x)
  <1>1. caller[y] \in CallRecord
    BY PositionNow
  <1>2. ASSUME NEW pc \in CallerPc, Enter(y, [caller[y] EXCEPT !.pc = pc]),
               pc \in {"resume", "sent", "dead"} =>
                  UsesGrant(y) /\ pc # "resume" /\ (pc = "dead" => caller[y].grant \notin live /\ live' = live)
        PROVE  caller'[x] = caller[x] \/ ~UsesGrant(x)' \/ CallerKeeps(x)
    <2>1. IF x = y THEN caller'[x] = [caller[y] EXCEPT !.pc = pc] ELSE caller'[x] = caller[x]
      BY <1>2, EnteredAt
    <2>2. x = y => caller'[x].pc = pc /\ caller'[x].grant = caller[x].grant
      BY <1>1, <2>1 DEF CallRecord
    <2>3. QED
      BY <1>2, <2>1, <2>2 DEF UsesGrant, CallerKeeps
  <1>3. ASSUME Enter(y, NoCall)
        PROVE  caller'[x] = caller[x] \/ ~UsesGrant(x)'
    BY <1>3, EnteredAt DEF UsesGrant
  <1>4. CASE Resume(y)
    BY <1>2, <1>3, <1>4 DEF Resume, UsesGrant
  <1>5. CASE RequestAnswered(y)
    BY <1>2, <1>3, <1>5 DEF RequestAnswered, UsesGrant
  <1>6. CASE StartCleanup(y)
    BY <1>2, <1>6 DEF StartCleanup
  <1>7. CASE DropRefused(y) \/ Wipe(y) \/ Abandon(y)
    BY <1>3, <1>7 DEF DropRefused, Wipe, Abandon
  <1>8. CASE RunCleanup(y)
    BY <1>3, <1>8 DEF RunCleanup, Enter
  <1>9. QED
    BY <1>4, <1>5, <1>6, <1>7, <1>8 DEF CallerStep

\* A step issues new tokens, and makes no other token live.
TokensNew ==
    /\ issued \subseteq issued'
    /\ \A g \in live' : g \in live \/ g.serial \notin issued

LEMMA TokensNewNext ==
  ASSUME [RootNext]_rootVars
  PROVE  TokensNew
  <1>1. ASSUME NEW g, GatewayRefresh(g, {})
        PROVE  live' \subseteq live
    BY <1>1 DEF GatewayRefresh
  <1>2. ASSUME NEW t \in Task, TaskStep(t)
        PROVE  TokensNew
    <2>1. CASE RefreshAnswered(t)
      BY <1>1, <2>1 DEF RefreshAnswered, GatewayRefresh, FreshGrants, TokensNew
    <2>2. CASE ExchangeAnswered(t)
      BY <2>2 DEF ExchangeAnswered, FreshGrants, TokensNew
    <2>3. CASE RequestFails(t)
      BY <1>1, <2>3 DEF RequestFails, TokensNew
    <2>4. CASE AcquireSession(t) \/ Load(t) \/ RemoveForeign(t) \/ StoreFails(t) \/ Establish(t)
               \/ Send(t) \/ NonceChallenge(t)
      BY <2>4 DEF AcquireSession, Load, RemoveForeign, StoreFails, Establish, Send, NonceChallenge,
                  gatewayVars, TokensNew
    <2>5. CASE DropDead(t) \/ DropRenewed(t) \/ StartPersist(t) \/ SaveGrant(t) \/ SaveFails(t)
               \/ FinishPersist(t) \/ DropUnbound(t) \/ CancelTask(t)
      BY <2>5 DEF DropDead, DropRenewed, StartPersist, SaveGrant, SaveFails, FinishPersist, DropUnbound,
                  CancelTask, sessionVars, gatewayVars, TokensNew
    <2>6. QED
      BY <1>2, <2>1, <2>2, <2>3, <2>4, <2>5 DEF TaskStep
  <1>3. CASE \E x \in Caller : CallerStep(x) \/ Abandon(x)
    BY <1>3 DEF CallerStep, Resume, RequestAnswered, DropRefused, StartCleanup, RunCleanup, Wipe,
                Abandon, gatewayVars, TokensNew
  <1>4. ASSUME NEW x \in Caller, NEW c \in Coord,
               (\E op \in Operations : Call(x, c, op)) \/ Mark(x, c) \/ Clear(x, c)
        PROVE  TokensNew
    <2>1. UNCHANGED gatewayVars
      BY <1>4, Zenon DEF Call, Mark, Clear
    <2>2. QED
      BY <2>1 DEF gatewayVars, TokensNew
  <1>5. CASE \/ \E c \in Coord : OpenClient(c) \/ Close(c)
             \/ (\E k \in Key : Ban(k)) \/ KeyRejected \/ ProcessDies \/ UNCHANGED rootVars
    BY <1>5 DEF OpenClient, Close, Ban, KeyRejected, ProcessDies, rootVars, sessionVars, gatewayVars,
                TokensNew
  <1>6. CASE \E g \in orphans : OrphanArrives(g)
    BY <1>1, <1>6 DEF OrphanArrives, TokensNew
  <1>7. QED
    BY <1>2, <1>3, <1>4, <1>5, <1>6 DEF RootNext

\* A key that is not under the alias does not return to it, and a retired one stays
\* retired while the process lives.
LEMMA AliasLeaves ==
  ASSUME LifecycleInv, [LifecycleNext]_lifecycleVars, NEW k \in made, aliasKey # k
  PROVE  aliasKey' # k
  <1>0. k # None
    BY DEF LifecycleInv, LifecycleTypeOK
  <1>1. CASE \E c \in Coord : Open(c) \/ ClearInstallation(c)
    BY <1>1 DEF Open, ClearInstallation
  <1>2. CASE \E x \in Caller : CleanupStep(x)
    BY <1>0, <1>2 DEF CleanupStep, EnterCleanup, ClearState, ResetKey, AliasAfterReset, CleanupSucceeds,
       deviceVars
  <1>3. CASE \/ \E t \in Task : LoadStep(t) \/ PersistStep(t) \/ FailIo(t)
             \/ \E t \in Task, c \in Coord : BeginLoad(t, c)
             \/ \E t \in Task, c \in Coord, g \in Grant : BeginPersist(t, c, g)
    BY <1>3 DEF LoadStep, PersistStep, EndLoad, ClearForeign, Save, EndPersist, FailIo,
       BeginLoad, BeginPersist, LocalIo
  <1>4. CASE \/ \E x \in Caller, c \in Coord : BeginCleanup(x, c)
             \/ \E g \in Grant : ClearSession(g)
    BY <1>4 DEF BeginCleanup, ClearSession, deviceVars
  <1>5. CASE RejectKey \/ Crash \/ UNCHANGED lifecycleVars
    BY <1>0, <1>5 DEF RejectKey, Crash, lifecycleVars, deviceVars
  <1>6. QED
    BY <1>1, <1>2, <1>3, <1>4, <1>5 DEF LifecycleNext

LEMMA RetiredStays ==
  ASSUME LifecycleInv, [RootNext]_rootVars, ~ProcessDies
  PROVE  retired \subseteq retired' /\ \A c \in Coord : coordKey[c] # None => coordKey'[c] = coordKey[c]
  <1> DEFINE Kept == UNCHANGED <<retired, coordKey>>
  <1>1. ASSUME NEW t \in Task, TaskStep(t)
        PROVE  Kept
    <2>1. ASSUME UNCHANGED lifecycleVars
          PROVE  Kept
      BY <2>1 DEF lifecycleVars, processVars
    <2>2. ASSUME NEW value, LocalIo(t, value)
          PROVE  Kept
      BY <2>2 DEF LocalIo
    <2>3. ASSUME NEW g, ClearSession(g)
          PROVE  Kept
      BY <2>3 DEF ClearSession, processVars
    <2>4. CASE AcquireSession(t) \/ Load(t) \/ RemoveForeign(t) \/ StoreFails(t) \/ CancelTask(t)
      BY <2>1, <2>2, <2>4
         DEF AcquireSession, BeginLoad, Load, EndLoad, RemoveForeign, ClearForeign, StoreFails, CancelTask, FailIo
    <2>5. CASE Establish(t) \/ Send(t) \/ NonceChallenge(t) \/ RefreshAnswered(t) \/ ExchangeAnswered(t)
               \/ RequestFails(t)
      BY <2>1, <2>5 DEF Establish, Send, NonceChallenge, RefreshAnswered, ExchangeAnswered, RequestFails
    <2>6. CASE DropDead(t) \/ DropRenewed(t) \/ DropUnbound(t)
      BY <2>3, <2>6 DEF DropDead, DropRenewed, DropUnbound
    <2>7. CASE StartPersist(t) \/ SaveGrant(t) \/ SaveFails(t) \/ FinishPersist(t)
      BY <2>1, <2>2, <2>7
         DEF StartPersist, BeginPersist, SaveGrant, Save, SaveFails, FailIo, FinishPersist, EndPersist
    <2>8. QED
      BY <1>1, <2>4, <2>5, <2>6, <2>7 DEF TaskStep
  <1>2. CASE \E x \in Caller : StartCleanup(x)
    BY <1>2 DEF StartCleanup, BeginCleanup
  <1>3. CASE \E x \in Caller : RunCleanup(x) \/ Wipe(x) \/ DropRefused(x)
    BY <1>3 DEF RunCleanup, CleanupStep, EnterCleanup, ClearState, ResetKey, Wipe, ClearInstallation,
                DropRefused, ClearSession, processVars
  <1>4. CASE \E c \in Coord : OpenClient(c)
    BY <1>4 DEF OpenClient, Open, LifecycleInv, LifecycleTypeOK
  <1>5. CASE KeyRejected
    BY <1>5 DEF KeyRejected, RejectKey, processVars
  <1>6. ASSUME NEW x \in Caller, NEW c \in Coord,
               (\E op \in Operations : Call(x, c, op)) \/ Mark(x, c) \/ Clear(x, c)
        PROVE  Kept
    <2>1. UNCHANGED lifecycleVars
      BY <1>6, Zenon DEF Call, Mark, Clear
    <2>2. QED
      BY <2>1 DEF lifecycleVars, processVars
  <1>7. CASE \/ \E x \in Caller : Resume(x) \/ RequestAnswered(x) \/ Abandon(x)
             \/ \E c \in Coord : Close(c)
             \/ (\E g \in orphans : OrphanArrives(g)) \/ (\E k \in Key : Ban(k)) \/ UNCHANGED rootVars
    BY <1>7 DEF Resume, RequestAnswered, Abandon, Close, OrphanArrives, Ban, rootVars, lifecycleVars, processVars
  <1>8. QED
    BY <1>1, <1>2, <1>3, <1>4, <1>5, <1>6, <1>7 DEF RootNext, CallerStep

--------------------------------------------------------------------------------
(* Where a step takes a task. *)
Refusing == {"dead", "renew", "drop"}

TaskKeeps(t) ==
    /\ task'[t].pc = task[t].pc /\ task'[t].coord = task[t].coord /\ task'[t].stored = task[t].stored

\* Nowhere new, to a place that refuses nothing, to a refusal by the gateway, or to
\* the end of a grant whose key is gone.
TaskGoes(t) ==
    \/ TaskKeeps(t)
    \/ task'[t].pc \notin Refusing
    \/ task'[t].pc \in {"dead", "renew"} /\ task'[t].stored \notin live'
    \/ /\ task'[t].pc = "drop" /\ task'[t].coord = task[t].coord
       /\ task[t].pc # "idle" /\ ~IsCurrent(task[t].coord)
       /\ UNCHANGED <<aliasKey, retired, coordKey>>

LEMMA CompleteGoes ==
  ASSUME SessionInv, NEW t \in Task, NEW outcome, NEW g, Complete(t, outcome, g), NEW u \in Task
  PROVE  TaskGoes(u)
  BY DEF Complete, SessionInv, SessionTypeOK, TaskGoes, TaskKeeps, Refusing

LEMMA GotoGoes ==
  ASSUME SessionInv, NEW t \in Task, NEW pc \in TaskPc, Goto(t, pc), NEW u \in Task,
         pc \in {"dead", "renew"} => task[t].stored \notin live',
         pc = "drop" => /\ task[t].pc # "idle" /\ ~IsCurrent(task[t].coord)
                        /\ UNCHANGED <<aliasKey, retired, coordKey>>
  PROVE  TaskGoes(u)
  BY GotoAt DEF TaskGoes, TaskKeeps, Refusing

LEMMA OtherGoes ==
  ASSUME NEW u \in Task, UNCHANGED task
  PROVE  TaskGoes(u)
  BY DEF TaskGoes, TaskKeeps

LEMMA TaskStepGoes ==
  ASSUME LifecycleInv, SessionInv, NEW t \in Task, TaskStep(t), NEW u \in Task
  PROVE  TaskGoes(u)
  <1>1. task \in [Task -> TaskRecord] /\ task[t] \in TaskRecord
    BY TaskShape
  <1>2. CASE AcquireSession(t)
    BY <1>2, CompleteGoes, GotoGoes DEF AcquireSession
  <1>3. CASE Load(t)
    <2>1. ASSUME task' = [task EXCEPT ![t].pc = "send", ![t].request = "refresh", ![t].stored = store]
          PROVE  TaskGoes(u)
      <3>1. task'[t].pc = "send" /\ (u # t => task'[u] = task[u])
        BY <1>1, <2>1 DEF TaskRecord
      <3>2. QED
        BY <3>1 DEF TaskGoes, TaskKeeps, Refusing
    <2>2. QED
      BY <1>3, <2>1, CompleteGoes, GotoGoes DEF Load
  <1>4. CASE Establish(t)
    <2>1. ASSUME task' = [task EXCEPT ![t].pc = "send", ![t].request = "exchange",
                                      ![t].stored = None, ![t].nonce = FALSE]
          PROVE  TaskGoes(u)
      <3>1. task'[t].pc = "send" /\ (u # t => task'[u] = task[u])
        BY <1>1, <2>1 DEF TaskRecord
      <3>2. QED
        BY <3>1 DEF TaskGoes, TaskKeeps, Refusing
    <2>2. QED
      BY <1>4, <2>1, CompleteGoes DEF Establish
  <1>5. CASE NonceChallenge(t)
    <2>1. task'[t].pc = "send" /\ (u # t => task'[u] = task[u])
      BY <1>1, <1>5 DEF TaskRecord, NonceChallenge
    <2>2. QED
      BY <2>1 DEF TaskGoes, TaskKeeps, Refusing
  <1>6. ASSUME NEW s \in Grant, task' = [task EXCEPT ![t].pc = "persist", ![t].grant = s]
        PROVE  TaskGoes(u)
    <2>1. task'[t] = [task[t] EXCEPT !.pc = "persist", !.grant = s] /\ (u # t => task'[u] = task[u])
      BY <1>6, AnswerAt
    <2>2. task'[t].pc = "persist"
      BY <1>1, <2>1 DEF TaskRecord
    <2>3. QED
      BY <2>1, <2>2 DEF TaskGoes, TaskKeeps, Refusing
  <1>7. CASE RefreshAnswered(t)
    <2>1. ASSUME task[t].stored \notin live, GatewayRefresh(task[t].stored, {}), Goto(t, "dead")
          PROVE  TaskGoes(u)
      <3>1. task[t].stored \notin live'
        BY <2>1 DEF GatewayRefresh
      <3>2. QED
        BY <2>1, <3>1, GotoGoes
    <2>2. ASSUME live' = live \ {task[t].stored}, Goto(t, "renew")
          PROVE  TaskGoes(u)
      BY <2>2, GotoGoes
    <2>3. QED
      BY <1>6, <1>7, <2>1, <2>2, CompleteGoes DEF RefreshAnswered, FreshGrants
  <1>8. CASE ExchangeAnswered(t)
    BY <1>6, <1>8, CompleteGoes DEF ExchangeAnswered, FreshGrants
  <1>9. CASE StartPersist(t)
    BY <1>9, CompleteGoes, GotoGoes, OtherGoes
       DEF StartPersist, Running, lifecycleVars, deviceVars, processVars
  <1>10. CASE FinishPersist(t)
    BY <1>10, CompleteGoes, GotoGoes DEF FinishPersist, Running, EndPersist, LocalIo
  <1>11. CASE Send(t) \/ RemoveForeign(t) \/ SaveGrant(t) \/ DropRenewed(t)
    BY <1>11, CompleteGoes, GotoGoes, OtherGoes DEF Send, RemoveForeign, SaveGrant, DropRenewed, sessionVars
  <1>12. CASE StoreFails(t) \/ RequestFails(t) \/ DropDead(t) \/ SaveFails(t) \/ DropUnbound(t) \/ CancelTask(t)
    BY <1>12, CompleteGoes DEF StoreFails, RequestFails, DropDead, SaveFails, DropUnbound, CancelTask
  <1>13. QED
    BY <1>2, <1>3, <1>4, <1>5, <1>7, <1>8, <1>9, <1>10, <1>11, <1>12 DEF TaskStep

\* A step of a caller, or of the environment, takes tasks nowhere; a call may queue one.
LEMMA TasksGo ==
  ASSUME LifecycleInv, SessionInv, [RootNext]_rootVars, NEW t \in Task
  PROVE  TaskGoes(t)
  <1>1. CASE \E u \in Task : TaskStep(u)
    BY <1>1, TaskStepGoes
  <1>2. ASSUME NEW c, task' = Cancelled(c)
        PROVE  TaskGoes(t)
    BY <1>2, CancelledAt DEF TasksCarryOn, TaskGoes, TaskKeeps
  <1>3. CASE \E x \in Caller : CallerStep(x) \/ Abandon(x)
    BY <1>2, <1>3, OtherGoes
       DEF CallerStep, Resume, RequestAnswered, DropRefused, StartCleanup, RunCleanup, Wipe, Abandon
  <1>4. ASSUME NEW x \in Caller, NEW c \in Coord, NEW op \in Operations, Call(x, c, op)
        PROVE  TaskGoes(t)
    <2>1. ASSUME NEW u \in Task, NEW r, r.pc = "queued", task' = [task EXCEPT ![u] = r]
          PROVE  TaskGoes(t)
      <3>1. task'[t] = IF t = u THEN r ELSE task[t]
        BY <2>1, TaskShape
      <3>2. QED
        BY <2>1, <3>1 DEF TaskGoes, TaskKeeps, Refusing
    <2>2. [NoTask EXCEPT !.pc = "queued", !.coord = c, !.force = (op = "refresh")].pc = "queued"
      OBVIOUS
    <2>3. QED
      BY <1>4, <2>1, <2>2, OtherGoes DEF Call
  <1>5. CASE \E x \in Caller, c \in Coord : Mark(x, c) \/ Clear(x, c)
    BY <1>2, <1>5, OtherGoes DEF Mark, Clear
  <1>6. CASE \E c \in Coord : OpenClient(c) \/ Close(c)
    BY <1>2, <1>6, OtherGoes DEF OpenClient, Close, sessionVars
  <1>7. CASE \/ \E g \in orphans : OrphanArrives(g)
             \/ (\E k \in Key : Ban(k)) \/ KeyRejected \/ UNCHANGED rootVars
    BY <1>7, OtherGoes DEF OrphanArrives, Ban, KeyRejected, rootVars, sessionVars
  <1>8. CASE ProcessDies
    BY <1>8 DEF ProcessDies, TaskGoes, Refusing
  <1>9. QED
    BY <1>1, <1>3, <1>4, <1>5, <1>6, <1>7, <1>8 DEF RootNext

\* A caller goes on with what it has, or with what a task hands out.
LEMMA CallersGo ==
  ASSUME SessionInv, [RootNext]_rootVars, NEW x \in Caller
  PROVE  \/ caller'[x] = caller[x]
         \/ ~UsesGrant(x)'
         \/ CallerKeeps(x)
         \/ caller'[x].pc = "resume" /\ \E t \in Task : HandsOut(t, caller'[x].grant)
  <1>1. CASE \E t \in Task : TaskStep(t)
    BY <1>1, TaskHandsOut
  <1>2. CASE \E y \in Caller : CallerStep(y) \/ Abandon(y)
    BY <1>2, CallerGoesOn
  <1>3. ASSUME NEW y \in Caller, NEW v, Enter(y, v), v.pc \notin {"resume", "sent", "dead"}
        PROVE  caller'[x] = caller[x] \/ ~UsesGrant(x)'
    BY <1>3, EnteredAt DEF UsesGrant
  <1>4. ASSUME NEW y \in Caller, NEW c \in Coord, NEW op \in Operations, Call(y, c, op)
        PROVE  caller'[x] = caller[x] \/ ~UsesGrant(x)'
    <2>1. \E pc \in {"terminal", "await"}, u \in Task \cup {None} :
             Enter(y, [pc |-> pc, op |-> op, coord |-> c, task |-> u, grant |-> None])
      BY <1>4 DEF Call, InFlight
    <2>2. QED
      BY <1>3, <2>1
  <1>5. ASSUME NEW y \in Caller, NEW c \in Coord, Mark(y, c) \/ Clear(y, c)
        PROVE  caller'[x] = caller[x] \/ ~UsesGrant(x)'
    <2>1. \/ Enter(y, [NoCall EXCEPT !.pc = "terminal", !.coord = c])
          \/ \E pc \in {"joining", "wiping"}, u \in Task \cup {None} :
             Enter(y, [pc |-> pc, op |-> "clear", coord |-> c, task |-> u, grant |-> None])
      BY <1>5 DEF Mark, Clear, InFlight
    <2>2. QED
      BY <1>3, <2>1
  <1>6. CASE \/ \E c \in Coord : OpenClient(c) \/ Close(c)
             \/ \E g \in orphans : OrphanArrives(g)
             \/ (\E k \in Key : Ban(k)) \/ KeyRejected \/ UNCHANGED rootVars
    BY <1>6 DEF OpenClient, Close, OrphanArrives, Ban, KeyRejected, rootVars, sessionVars
  <1>7. CASE ProcessDies
    BY <1>7 DEF ProcessDies, UsesGrant
  <1>8. QED
    BY <1>1, <1>2, <1>4, <1>5, <1>6, <1>7 DEF RootNext

\* What a task hands out was issued to it.
LEMMA HandedOut ==
  ASSUME SessionInv, NEW t \in Task, NEW g, HandsOut(t, g)
  PROVE  g.serial \in issued
  BY DEF HandsOut, SessionInv, StoreFollows, FinishPersist, Running, TaskBound, Carried

\* Every step keeps to the flow.
LEMMA FlowNext ==
  ASSUME LifecycleInv, GateInv, SessionInv, FlowInv, [RootNext]_rootVars
  PROVE  FlowInv'
  <1>1. TokensNew
    BY TokensNewNext
  <1>2. [LifecycleNext]_lifecycleVars
    BY RootNextRefines
  <1>3. RefusedNotLive'
    <2>1. ASSUME NEW t \in Task, task'[t].pc \in {"dead", "renew"}
          PROVE  task'[t].stored \notin live'
      <3>1. CASE TaskKeeps(t)
        <4>1. task[t].stored \notin live /\ task[t].stored.serial \in issued
          BY <2>1, <3>1 DEF TaskKeeps, FlowInv, RefusedNotLive, SessionInv, TaskBound, Carried
        <4>2. QED
          BY <1>1, <3>1, <4>1 DEF TaskKeeps, TokensNew
      <3>2. QED
        BY <2>1, <3>1, TasksGo DEF TaskGoes, Refusing
    <2>2. QED
      BY <2>1 DEF RefusedNotLive
  <1>4. DropsUnbound'
    <2>1. ASSUME NEW t \in Task, task'[t].pc = "drop"
          PROVE  aliasKey' # KeyOf(t)' \/ KeyOf(t)' \in retired'
      <3>1. CASE TaskKeeps(t)
        <4>1. /\ KeyOf(t) # None /\ task[t].coord \in Coord
              /\ aliasKey # KeyOf(t) \/ KeyOf(t) \in retired
          BY <2>1, <3>1 DEF TaskKeeps, FlowInv, DropsUnbound, SessionInv, TaskBound
        <4>2. KeyOf(t) \in made
          BY <4>1 DEF KeyOf, LifecycleInv, KeysMade
        <4>3. ~ProcessDies
          BY <2>1 DEF ProcessDies
        <4>4. KeyOf(t)' = KeyOf(t) /\ retired \subseteq retired'
          BY <3>1, <4>1, <4>3, RetiredStays DEF KeyOf, TaskKeeps
        <4>5. QED
          BY <1>2, <4>1, <4>2, <4>4, AliasLeaves
      <3>2. CASE /\ task'[t].coord = task[t].coord /\ task[t].pc # "idle" /\ ~IsCurrent(task[t].coord)
                 /\ UNCHANGED <<aliasKey, retired, coordKey>>
        BY <3>2 DEF IsCurrent, KeyOf, GateInv, InvalidatedRetired, SessionInv, TaskBound
      <3>3. QED
        BY <2>1, <3>1, <3>2, TasksGo DEF TaskGoes, Refusing
    <2>2. QED
      BY <2>1 DEF DropsUnbound
  <1>5. CallersIssued'
    <2>1. ASSUME NEW x \in Caller, UsesGrant(x)'
          PROVE  /\ caller'[x].grant.serial \in issued'
                 /\ caller'[x].pc = "dead" => caller'[x].grant \notin live'
      <3>1. CASE caller'[x] = caller[x] \/ CallerKeeps(x)
        BY <1>1, <2>1, <3>1 DEF CallerKeeps, UsesGrant, FlowInv, CallersIssued, TokensNew
      <3>2. CASE caller'[x].pc = "resume" /\ \E t \in Task : HandsOut(t, caller'[x].grant)
        BY <1>1, <3>2, HandedOut DEF TokensNew
      <3>3. QED
        BY <2>1, <3>1, <3>2, CallersGo
    <2>2. QED
      BY <2>1 DEF CallersIssued, UsesGrant
  <1>6. QED
    BY <1>3, <1>4, <1>5 DEF FlowInv

\* Refused grants are refused for good, and callers use issued grants only.
THEOREM GrantFlow == RootSpec => []FlowInv
  <1>1. RootInit => FlowInv
    BY DEF RootInit, FlowInv, RefusedNotLive, DropsUnbound, CallersIssued, UsesGrant
  <1>2. LifecycleInv /\ GateInv /\ SessionInv /\ FlowInv /\ [RootNext]_rootVars => FlowInv'
    BY FlowNext
  <1>3. RootSpec => []GateInv
    BY ImplementsLifecycle, PersistGate, PTL
  <1>4. QED
    BY <1>1, <1>2, <1>3, RootInvariant, PTL DEF RootSpec

\* Where the key policy takes no key from under a running client, a call that goes on
\* with a grant goes on with the persisted one (SessionCoordinator.kt:495-512).
THEOREM GrantedGrantIsStored ==
  ASSUME MaxKeyRejections = 0
  PROVE  RootSpec => GrantedIsStored
  <1>1. ASSUME GateInv, SessionInv, [RootNext]_rootVars, NEW x \in Caller,
               caller'[x].pc = "resume" /\ caller[x].pc # "resume"
        PROVE  store' = caller'[x].grant \/ (store' = None /\ injected.failure > 0)
    <2>1. PICK t \in Task : HandsOut(t, caller'[x].grant)
      BY <1>1, CallersGo DEF CallerKeeps, UsesGrant
    <2>2. CASE Load(t) /\ store = caller'[x].grant
      BY <2>2 DEF Load, EndLoad
    <2>3. CASE FinishPersist(t) /\ task[t].grant = caller'[x].grant
      BY <1>1, <2>3 DEF FinishPersist, EndPersist, GateInv, SavedStored, SessionInv, TaskIo
    <2>4. QED
      BY <2>1, <2>2, <2>3 DEF HandsOut
  <1> DEFINE Granted == \A x \in Caller : caller'[x].pc = "resume" /\ caller[x].pc # "resume"
                          => store' = caller'[x].grant \/ (store' = None /\ injected.failure > 0)
  <1>2. GateInv /\ SessionInv /\ [RootNext]_rootVars => [Granted]_rootVars
    BY <1>1
  <1>3. RootSpec => []GateInv
    BY ImplementsLifecycle, PersistGate, PTL
  <1>4. QED
    BY <1>2, <1>3, RootInvariant, PTL DEF RootSpec, GrantedIsStored

--------------------------------------------------------------------------------
(* The persisted grant the gateway still honours. *)

HonouredLost ==
    /\ store' # store /\ HonouredGrantStored
    /\ StoredKey' # StoredKey /\ injected' = injected /\ ~ClearRequested(StoredKey)

\* Of a failing operation of the store, the bounds tell.
LEMMA FailureCounts ==
  ASSUME LifecycleInv, StorageFailure
  PROVE  injected' # injected
  BY DEF StorageFailure, MayFail, LifecycleInv, LifecycleTypeOK

\* A task loses it only when it takes the file for a foreign one, or replaces it by
\* a grant of another identity.
LEMMA TaskKeepsHonoured ==
  ASSUME LifecycleInv, SessionInv, FlowInv, NEW t \in Task, TaskStep(t), HonouredLost
  PROVE  RemoveForeign(t) \/ (Save(t) /\ io[t].grant.key # StoredKey)
  <1>1. store # None /\ store.key = StoredKey /\ store \in live
    BY DEF HonouredLost, HonouredGrantStored, StoredKey, SessionInv, SessionTypeOK
  <1>2. ASSUME NEW g, ClearSession(g)
        PROVE  g = store
    BY <1>2, FailureCounts DEF ClearSession, StoreBecomes, WithoutSession, HonouredLost
  <1>3. ASSUME FailIo(t)
        PROVE  FALSE
    BY <1>3, FailureCounts DEF FailIo, HonouredLost
  <1>4. CASE DropDead(t) \/ DropRenewed(t)
    BY <1>1, <1>2, <1>4 DEF DropDead, DropRenewed, Running, FlowInv, RefusedNotLive
  <1>5. CASE DropUnbound(t)
    <2>1. task[t].pc = "drop" /\ task[t].grant = store
      BY <1>2, <1>5 DEF DropUnbound, Running
    <2>2. StoredKey = KeyOf(t)
      BY <1>1, <2>1 DEF SessionInv, TaskBound, Carried
    <2>3. QED
      BY <2>1, <2>2 DEF FlowInv, DropsUnbound, HonouredLost, HonouredGrantStored
  <1>6. CASE SaveGrant(t)
    <2>1. StoredKey' = io[t].grant.key
      BY <1>6 DEF SaveGrant, Save, StoredKey, LifecycleInv, IoBound
    <2>2. QED
      BY <1>6, <2>1 DEF SaveGrant, HonouredLost
  <1>7. CASE StoreFails(t) \/ SaveFails(t) \/ CancelTask(t)
    BY <1>3, <1>7 DEF StoreFails, SaveFails, CancelTask, HonouredLost, lifecycleVars, deviceVars
  <1>8. CASE RemoveForeign(t)
    BY <1>8
  <1>9. CASE AcquireSession(t) \/ Load(t) \/ Establish(t) \/ Send(t) \/ NonceChallenge(t)
    BY <1>9 DEF AcquireSession, BeginLoad, Load, EndLoad, Establish, Send, NonceChallenge, HonouredLost,
                lifecycleVars, deviceVars
  <1>10. CASE RefreshAnswered(t) \/ ExchangeAnswered(t) \/ RequestFails(t)
    BY <1>10 DEF RefreshAnswered, ExchangeAnswered, RequestFails, HonouredLost, lifecycleVars, deviceVars
  <1>11. CASE StartPersist(t) \/ FinishPersist(t)
    BY <1>11 DEF StartPersist, BeginPersist, FinishPersist, EndPersist, HonouredLost,
                 lifecycleVars, deviceVars
  <1>12. QED
    BY <1>4, <1>5, <1>6, <1>7, <1>8, <1>9, <1>10, <1>11 DEF TaskStep

\* No other step loses it.
LEMMA HonouredNext ==
  ASSUME LifecycleInv, SessionInv, FlowInv, [RootNext]_rootVars, HonouredLost
  PROVE  \E t \in Task : RemoveForeign(t) \/ (Save(t) /\ io[t].grant.key # StoredKey)
  <1>1. store # None /\ store.key = StoredKey /\ store \in live
    BY DEF HonouredLost, HonouredGrantStored, StoredKey, SessionInv, SessionTypeOK
  <1>2. CASE \E t \in Task : TaskStep(t)
    BY <1>2, TaskKeepsHonoured
  <1>3. ASSUME NEW x \in Caller, DropRefused(x)
        PROVE  FALSE
    <2>1. caller[x].grant = store
      BY <1>3, FailureCounts DEF DropRefused, ClearSession, StoreBecomes, WithoutSession, HonouredLost
    <2>2. QED
      BY <1>1, <1>3, <2>1 DEF DropRefused, FlowInv, CallersIssued
  <1>4. ASSUME NEW x \in Caller, RunCleanup(x)
        PROVE  FALSE
    <2>1. ClearState(x)
      BY <1>4 DEF RunCleanup, CleanupStep, EnterCleanup, ResetKey, deviceVars, HonouredLost
    <2>2. StoredKey = coordKey[cleanup[x].coord]
      BY <2>1, FailureCounts DEF ClearState, WithoutInstallation, HonouredLost
    <2>3. QED
      BY <2>1, <2>2 DEF ClearState, LifecycleInv, CleanupRetired, HonouredLost, HonouredGrantStored
  <1>5. ASSUME NEW x \in Caller, Wipe(x)
        PROVE  FALSE
    <2>1. StoredKey = coordKey[caller[x].coord]
      BY <1>5, FailureCounts DEF Wipe, ClearInstallation, StoreBecomes, WithoutInstallation, HonouredLost
    <2>2. QED
      BY <1>5, <2>1 DEF Wipe, ClearRequested, HonouredLost
  <1>6. CASE \E x \in Caller : Resume(x) \/ RequestAnswered(x) \/ StartCleanup(x) \/ Abandon(x)
    BY <1>6 DEF Resume, RequestAnswered, StartCleanup, BeginCleanup, Abandon, HonouredLost,
                lifecycleVars, deviceVars
  <1>7. ASSUME NEW x \in Caller, NEW c \in Coord,
               (\E op \in Operations : Call(x, c, op)) \/ Mark(x, c) \/ Clear(x, c)
        PROVE  FALSE
    <2>1. UNCHANGED lifecycleVars
      BY <1>7, Zenon DEF Call, Mark, Clear
    <2>2. QED
      BY <2>1 DEF lifecycleVars, deviceVars, HonouredLost
  <1>8. CASE \E c \in Coord : OpenClient(c) \/ Close(c)
    BY <1>8 DEF OpenClient, Open, Close, HonouredLost, lifecycleVars, deviceVars
  <1>9. CASE (\E g \in orphans : OrphanArrives(g)) \/ (\E k \in Key : Ban(k)) \/ UNCHANGED rootVars
    BY <1>9 DEF OrphanArrives, Ban, rootVars, HonouredLost, lifecycleVars, deviceVars
  <1>10. CASE KeyRejected \/ ProcessDies
    BY <1>10 DEF KeyRejected, RejectKey, ProcessDies, Crash, HonouredLost, deviceVars
  <1>11. QED
    BY <1>2, <1>3, <1>4, <1>5, <1>6, <1>7, <1>8, <1>9, <1>10 DEF RootNext, CallerStep

\* For any number of keys: where the key policy takes no key from under a running
\* client, the only step that erases a grant the gateway still honours is the removal
\* of a foreign session (SessionCoordinator.kt:338-344).
THEOREM HonouredLostOnlyAsForeign ==
  ASSUME MaxKeyRejections = 0
  PROVE  RootSpec => [][HonouredLost => \E t \in Task : RemoveForeign(t)]_rootVars
  <1>1. ASSUME LifecycleInv, GateInv, SessionInv, FlowInv, [RootNext]_rootVars, HonouredLost
        PROVE  \E t \in Task : RemoveForeign(t)
    <2>1. PICK t \in Task : RemoveForeign(t) \/ (Save(t) /\ io[t].grant.key # StoredKey)
      BY <1>1, HonouredNext
    <2>2. Save(t) => aliasKey = io[t].grant.key
      BY <1>1 DEF Save, GateInv, GateBound, InGate
    <2>3. QED
      BY <1>1, <2>1, <2>2 DEF HonouredLost, HonouredGrantStored
  <1>2. LifecycleInv /\ GateInv /\ SessionInv /\ FlowInv /\ [RootNext]_rootVars
          => [HonouredLost => \E t \in Task : RemoveForeign(t)]_rootVars
    BY <1>1
  <1>3. RootSpec => []GateInv
    BY ImplementsLifecycle, PersistGate, PTL
  <1>4. QED
    BY <1>2, <1>3, RootInvariant, GrantFlow, PTL DEF RootSpec

\* For an installation whose key is never replaced, and any number of clients: answers
\* to requests of earlier sessions do not erase the grant the gateway honours
\* (docs/architecture.md:126-127).
THEOREM HonouredGrantStays ==
  ASSUME \A j, k \in Key : j = k
  PROVE  RootSpec => HonouredGrantKept
  <1>1. ASSUME LifecycleInv, GateInv, SessionInv, FlowInv, [RootNext]_rootVars, HonouredLost
        PROVE  FALSE
    <2>1. PICK t \in Task : RemoveForeign(t) \/ (Save(t) /\ io[t].grant.key # StoredKey)
      BY <1>1, HonouredNext
    <2>2. StoredKey \in Key
      BY <1>1 DEF LifecycleInv, LifecycleTypeOK, HonouredLost, HonouredGrantStored, StoredKey,
                  SessionInv, SessionTypeOK
    <2>3. CASE RemoveForeign(t)
      <3>1. io[t].phase = "foreign"
        BY <2>3 DEF RemoveForeign, ClearForeign
      <3>2. /\ coordKey[io[t].coord] \in Key /\ io[t].grant.key \in Key
            /\ io[t].grant.key # coordKey[io[t].coord]
        BY <1>1, <3>1 DEF GateInv, ForeignIo, LifecycleInv, LifecycleTypeOK, IoBound
      <3>3. QED
        BY <3>2
    <2>4. CASE Save(t)
      BY <1>1, <2>1, <2>2, <2>4 DEF Save, LifecycleInv, IoBound, RemoveForeign, ClearForeign
    <2>5. QED
      BY <2>1, <2>3, <2>4
  <1> DEFINE Kept == store' # store /\ HonouredGrantStored
                       => StoredKey' = StoredKey \/ injected' # injected \/ ClearRequested(StoredKey)
  <1>2. LifecycleInv /\ GateInv /\ SessionInv /\ FlowInv /\ [RootNext]_rootVars => [Kept]_rootVars
    BY <1>1 DEF HonouredLost
  <1>3. RootSpec => []GateInv
    BY ImplementsLifecycle, PersistGate, PTL
  <1>4. QED
    BY <1>2, <1>3, RootInvariant, GrantFlow, PTL DEF RootSpec, HonouredGrantKept
================================================================================
