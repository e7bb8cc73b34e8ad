------------------------ MODULE ComponentRegistryProofs ------------------------
(***************************************************************************)
(* Proofs about ComponentRegistry: a refresh token is presented twice only *)
(* after a loss, a component that was revoked or retired is never usable   *)
(* again, usable sessions are registered, stale clients spare the key that *)
(* replaced theirs, and the slot implements ComponentSlot, for any sets of *)
(* keys, components, coordinators and coroutines and for any number of     *)
(* faults, cancellations and crashes.                                      *)
(***************************************************************************)
EXTENDS ComponentRegistry, TLAPS

(* The inductive invariant.  Each conjunct of RegistryInv is about the following of a
   coroutine's positions. *)

\* Under the session lock; with a token that was or may be sent; in the refresh of it.
CarryPc == {"send", "sent", "preSave", "save", "postSave"}
HeldPc == CarryPc \cup {"ensure", "load", "clear", "askRevoke", "destroy", "reset"}
RetirePc == {"retireStore", "retireKey"}

\* Operations of the facade work on no coordinator; provisioning and opening on one of
\* their own; the others on one that was given to the application.
FacadeOnlyPc == {"idle", "askById", "askFamily", "retire"} \cup RetirePc
Prov == {"provision", "rescind", "open"}

CallRecord == [job : Job, pc : {"idle"} \cup SessionPc \cup FacadePc,
               on : Coord \cup {None}, snap : Snapshot, holds : BOOLEAN,
               after : {"return", "undoStore", "destroy", "failed"}]
CoordRecord == [key : Key \cup {None}, invalidated : BOOLEAN, accepted : BOOLEAN,
                retired : BOOLEAN, given : BOOLEAN]

\* The component a coroutine works for, and a coroutine that refreshes it.
Comp(x) == caller[x].snap.component
Refresher(x) == Refreshing(x) /\ caller[x].pc \in CarryPc

\* A component between its provisioning and its first save.
Provisional(x) == caller[x].job = "provision" /\ caller[x].pc \in {"lock", "send", "sent", "preSave", "save"}

\* One coroutine at a time provisions or opens, on a coordinator of its own that has the key
\* under the alias.
Apart(x) ==
    /\ caller[x].on # None =>
          /\ coord[caller[x].on].key # None
          /\ caller[x].job \in Prov <=> ~coord[caller[x].on].given
    /\ caller[x].job \in Prov =>
          /\ caller[x].on # None
          /\ aliasKey \in {KeyOf(x), None}
          /\ \A y \in Caller : caller[y].job \in Prov => y = x
          /\ \A y \in Caller \ {x} : caller[y].on # caller[x].on

\* What a position says of operation and lock.
Placed(x) ==
    /\ Apart(x)
    /\ caller[x].on = None <=> caller[x].pc \in FacadeOnlyPc
    /\ caller[x].holds => caller[x].on # None
    /\ caller[x].pc \in HeldPc => caller[x].holds
    /\ caller[x].pc \in CarryPc => caller[x].job \in {"provision", "authorize", "refresh"}
    /\ caller[x].pc = "ask" => caller[x].job = "provision"
    /\ caller[x].pc \in {"diagnose", "register"} => caller[x].job \in {"provision", "open"}
    /\ caller[x].pc \in {"undoStore", "undoKey"} => caller[x].job \in Prov
    /\ caller[x].pc = "evict" =>
          /\ caller[x].after # "failed"
          /\ caller[x].after = "undoStore" => caller[x].job = "open"
          /\ caller[x].after = "destroy" => caller[x].holds
    /\ caller[x].pc \in {"final", "authorized"} => caller[x].job = "authorize"
    /\ caller[x].pc = "idle" => caller[x].job = "none"
    /\ caller[x].job = "family" => caller[x].pc \in FacadeOnlyPc

\* One coroutine at a time under the session lock of a key, and one that retires.
OneHolder ==
    \A x, y \in Caller :
        caller[x].holds /\ caller[y].holds /\ KeyOf(x) = KeyOf(y) => x = y
OneRetirer ==
    \A x, y \in Caller : caller[x].pc \in RetirePc /\ caller[y].pc \in RetirePc => x = y

\* Between the check before the request and the one before the save, a coordinator's signer
\* is not reset: who resets it holds the lock, or has the coordinator for itself.
SignerKept(x) == caller[x].pc \in {"sent", "preSave"} => ~coord[caller[x].on].invalidated

\* What a coroutine carries was issued to its key.
Issued(x) ==
    /\ caller[x].pc \in CarryPc \/ Provisional(x) =>
          Comp(x) # None /\ issued[Comp(x)] = KeyOf(x)
    /\ Refresher(x) \/ caller[x].pc \in {"preSave", "save", "postSave"} =>
          caller[x].snap.key = KeyOf(x)
    /\ Comp(x) # None =>
          /\ issued[Comp(x)] # None
          /\ caller[x].on # None /\ issued[Comp(x)] = aliasKey => KeyOf(x) = aliasKey

\* A component that is being provisioned is nobody else's yet.
Fresh(x) ==
    Provisional(x) =>
        /\ Comp(x) \notin known \cup done
        /\ store.component # Comp(x)
        /\ \A y \in Caller \ {x} : Comp(y) # Comp(x)

\* Keys are of the Keystore, and the file, the registry and the lists name what was issued.
KeysMade ==
    /\ {aliasKey, store.key, registry.key} \cup {coord[n].key : n \in Coord} \subseteq made \cup {None}
    /\ \A c \in Component : issued[c] \in made \cup {None}
FileIssued ==
    store # Empty => store.key # None /\ store.component # None /\ issued[store.component] = store.key
ListsIssued == \A c \in known \cup done : issued[c] # None

\* The registry's entry is of a component the application knows.  If that one's key is in
\* place, the entry names it.
EntryKnown ==
    /\ registry.component \in known \cup {None}
    /\ IF registry.component = None THEN registry = NoEntry ELSE registry.key # None
    /\ registry.component # None /\ issued[registry.component] = aliasKey => registry.key = aliasKey
    /\ \A n \in Coord : coord[n].given =>
          coord[n].key # None /\ (coord[n].key = aliasKey => registry.key = aliasKey)
RetirerKnown(x) ==
    /\ caller[x].pc \in {"askById", "askRevoke"} => Comp(x) # None
    /\ caller[x].pc \in {"askById", "askFamily", "retire"} => Comp(x) \in known \cup {None}
    /\ caller[x].pc \in RetirePc => registry.component # None

\* In the file or in a refresh.
InUse(c) == store.component = c \/ \E x \in Caller : Refresher(x) /\ Comp(x) = c

\* One component of a key is in use.
OfFile(x) == Refresher(x) /\ store.key = KeyOf(x) => store.component = Comp(x)
ReadClean(x) ==
    caller[x].pc = "register" =>
        /\ caller[x].snap.key # None /\ Comp(x) # None /\ issued[Comp(x)] = caller[x].snap.key
        /\ caller[x].snap.key = KeyOf(x) =>
              \A c \in Component : InUse(c) /\ issued[c] = KeyOf(x) => c = Comp(x)

\* A known component with the key in place is in use only under its entry; one that is done
\* is not.
KnownRegistered ==
    \A c \in known \ misnamed : InUse(c) /\ issued[c] = aliasKey => registry.component = c
DoneGone == \A c \in done \ misnamed : issued[c] = aliasKey => ~InUse(c)

\* A token that may still be presented is the one the gateway accepts, or its successor is
\* about to be saved, or was lost.
Newest(c, token) == live[c] \in {0, token} \/ c \in lost
Saver(x) == Refreshing(x) /\ caller[x].pc \in {"preSave", "save"}
FileNewest ==
    store # Empty /\ store.key = aliasKey =>
        \/ Newest(store.component, store.token)
        \/ \E x \in Caller : Saver(x) /\ Comp(x) = store.component
TokenNewest(x) ==
    /\ Refresher(x) /\ caller[x].pc = "send" /\ aliasKey = KeyOf(x) => Newest(Comp(x), caller[x].snap.token)
    /\ Refresher(x) /\ caller[x].pc = "sent" => Newest(Comp(x), caller[x].snap.token)
    /\ caller[x].pc \in {"preSave", "save"} => Newest(Comp(x), caller[x].snap.token)

\* A usable session is registered, or its provisioning is about to be undone.
Undoing(x) == caller[x].job \in Undone /\ (caller[x].pc = "undoKey" => failures > 0)
RegisteredOrUndone ==
    crashes = 0 /\ failures <= 1 /\ Usable => InRegistry \/ \E x \in Caller : Undoing(x)

CallInv(x) ==
    /\ Placed(x) /\ SignerKept(x) /\ Issued(x) /\ Fresh(x) /\ RetirerKnown(x) /\ OfFile(x)
    /\ ReadClean(x) /\ TokenNewest(x)

RegistryInv ==
    /\ ComponentTypeOK
    /\ \A x \in Caller : CallInv(x)
    /\ OneHolder /\ OneRetirer
    /\ KeysMade /\ FileIssued /\ ListsIssued /\ EntryKnown
    /\ KnownRegistered /\ DoneGone
    /\ FileNewest /\ ComponentReplayOnlyAfterLoss
    /\ RegisteredOrUndone

--------------------------------------------------------------------------------
(* Shapes and classes of steps. *)

LEMMA EmptyTyped == Empty \in Snapshot /\ Empty.key = None /\ Empty.component = None
  BY ComponentAssumption DEF Snapshot, Empty

LEMMA Shapes ==
  ASSUME ComponentTypeOK
  PROVE  /\ caller \in [Caller -> CallRecord]
         /\ coord \in [Coord -> CoordRecord]
         /\ store \in Snapshot
  BY DEF ComponentTypeOK, CallRecord, CoordRecord

\* Only x moves.
Only(x) ==
    /\ caller' \in [Caller -> CallRecord]
    /\ \A y \in Caller \ {x} : caller'[y] = caller[y]

\* A component that may be added to the list of those done.
MayBeDone(x, c) ==
    /\ c \in Component /\ issued[c] # None
    /\ c \in misnamed \/ issued[c] # aliasKey' \/ ~InUse(c)
    /\ \A y \in Caller : Provisional(y) /\ y # x => Comp(y) # c

\* A coroutine receives a new token.
Renews(x) ==
    /\ caller[x].pc = "sent" /\ caller'[x].pc = "preSave"
    /\ caller'[x].job = caller[x].job /\ Comp(x)' = Comp(x)

\* What a step of x does to the device and at the gateway at most, but for the steps that put
\* something new into alias, file, registry or list of issued components.
Steady(x) ==
    /\ coord' \in [Coord -> CoordRecord]
    /\ \A n \in Coord : coord'[n].key = coord[n].key /\ coord'[n].given = coord[n].given
    /\ \A y \in Caller \ {x} :
          caller[y].pc \in {"sent", "preSave"} => ~coord'[caller[y].on].invalidated
    /\ store' \in {store, Empty}
    /\ aliasKey' \in {aliasKey, None}
    /\ UNCHANGED <<made, issued, known, misnamed, crashes>>
    /\ registry' # registry =>
          registry' = NoEntry /\ caller[x].pc = "retireKey" /\ aliasKey' # registry.key
    /\ lost \subseteq lost' /\ lost' \subseteq Component
    /\ live' \in [Component -> 0 .. MaximumToken]
    /\ \A c \in Component, token \in Nat : Newest(c, token) => Newest(c, token)' \/ (Renews(x) /\ c = Comp(x))
    /\ replayed' \subseteq Component /\ replayed' \subseteq replayed \cup lost'
    /\ revoked' \subseteq Component
    /\ failures' \in 0 .. MaximumFailures /\ failures <= failures'
    /\ cancels' \in 0 .. MaximumCancels
    /\ done \subseteq done'
    /\ \A c \in done' \ done : MayBeDone(x, c)

\* What the move of x leaves to the others.
Advance(x) ==
    /\ Only(x)
    /\ CallInv(x)'
    /\ caller'[x].holds =>
          \/ caller[x].holds /\ caller'[x].on = caller[x].on
          \/ \A y \in Caller \ {x} : caller[y].holds => KeyOf(y) # coord[caller'[x].on].key
    /\ caller'[x].pc \in RetirePc => caller[x].pc \in RetirePc \/ RegistryLockFree
    /\ caller'[x].job \in Prov => caller[x].job \in Prov
    /\ caller'[x].on \in {caller[x].on, None} \/ coord[caller'[x].on].given
    /\ caller'[x].snap.component \in {Comp(x), store.component, None} \cup known
    /\ Refresher(x)' => InUse(caller'[x].snap.component)
    /\ Saver(x) =>
          \/ Saver(x)' /\ caller'[x].snap.component = Comp(x)
          \/ store' = Empty \/ store.component # Comp(x) \/ store.key # aliasKey'
          \/ Comp(x) \in lost'
    /\ Undoing(x) => Undoing(x)' \/ failures' > 1 \/ store' = Empty \/ store.key # aliasKey'

\* The step keeps the types.
LEMMA EvolvesTypes ==
  ASSUME RegistryInv, NEW x \in Caller, Steady(x), Only(x)
  PROVE  ComponentTypeOK'
  <1>1. ComponentTypeOK
    BY DEF RegistryInv
  <1>2. store' \in Snapshot /\ aliasKey' \in Key \cup {None}
    BY <1>1, EmptyTyped DEF Steady, ComponentTypeOK
  <1>3. done' \subseteq Component
    BY <1>1 DEF Steady, ComponentTypeOK, MayBeDone
  <1>4. registry' \in Entry
    BY <1>1 DEF Steady, ComponentTypeOK, NoEntry, Entry
  <1>5. QED
    BY <1>1, <1>2, <1>3, <1>4 DEF Steady, Only, ComponentTypeOK, CallRecord, CoordRecord

\* The keys of coordinators and callers stay.
LEMMA KeysStay ==
  ASSUME RegistryInv, NEW x \in Caller, Steady(x), Only(x), NEW y \in Caller \ {x}
  PROVE  KeyOf(y)' = KeyOf(y) \/ caller[y].on = None
  <1>1. caller \in [Caller -> CallRecord]
    BY Shapes DEF RegistryInv
  <1>2. caller[y].on \in Coord \cup {None} /\ caller'[y] = caller[y]
    BY <1>1 DEF Only, CallRecord
  <1>3. QED
    BY <1>2 DEF Steady, KeyOf

\* A component that is in use afterwards was in use before.
LEMMA InUseStays ==
  ASSUME RegistryInv, NEW x \in Caller, Steady(x), Advance(x), NEW c \in Component, InUse(c)'
  PROVE  InUse(c)
  <1>1. CASE store'.component = c
    BY <1>1, EmptyTyped, ComponentAssumption DEF Steady, InUse
  <1>2. ASSUME NEW y \in Caller, Refresher(y)', Comp(y)' = c
        PROVE  InUse(c)
    <2>1. CASE y = x
      BY <1>2, <2>1 DEF Advance, Comp
    <2>2. CASE y # x
      BY <1>2, <2>2 DEF Advance, Only, Comp, Refresher, Refreshing, InUse
    <2>3. QED
      BY <2>1, <2>2
  <1>3. QED
    BY <1>1, <1>2 DEF InUse

\* What holds of the position of another coroutine still does.
LEMMA PlacedStays ==
  ASSUME RegistryInv, NEW x \in Caller, Steady(x), Advance(x), NEW y \in Caller \ {x}
  PROVE  Placed(y)'
  <1>1. caller \in [Caller -> CallRecord] /\ caller'[y] = caller[y] /\ caller[y] \in CallRecord
    BY Shapes DEF RegistryInv, Advance, Only
  <1>2. Placed(y) /\ Placed(x) /\ Placed(x)'
    BY DEF RegistryInv, CallInv, Advance
  <1>3. caller[y].on \in Coord \cup {None}
    BY <1>1 DEF CallRecord
  <1>4. caller[y].on # None => KeyOf(y)' = KeyOf(y) /\ coord'[caller[y].on].given = coord[caller[y].on].given
                               /\ coord'[caller[y].on].key = coord[caller[y].on].key
    BY <1>1, <1>3 DEF Steady, KeyOf
  <1>5. ASSUME caller[y].job \in Prov
        PROVE  /\ \A z \in Caller : caller'[z].job \in Prov => z = y
               /\ \A z \in Caller \ {y} : caller'[z].on # caller[y].on
    <2>1. \A z \in Caller : caller[z].job \in Prov => z = y
      BY <1>2, <1>5 DEF Placed, Apart
    <2>2. \A z \in Caller \ {y} : caller[z].on # caller[y].on
      BY <1>2, <1>5 DEF Placed, Apart
    <2>3. caller'[x].on # caller[y].on
      BY <1>2, <1>5, <2>2 DEF Placed, Apart, Advance
    <2>4. QED
      BY <2>1, <2>2, <2>3 DEF Advance, Only
  <1>6. aliasKey' \in {aliasKey, None}
    BY DEF Steady
  <1>7. QED
    BY <1>1, <1>2, <1>4, <1>5, <1>6 DEF Placed, Apart

\* The rest of what holds of another coroutine.
LEMMA OthersStay ==
  ASSUME RegistryInv, NEW x \in Caller, Steady(x), Advance(x), NEW y \in Caller \ {x}
  PROVE  CallInv(y)'
  <1>1. caller'[y] = caller[y] /\ caller[y] \in CallRecord
    BY Shapes DEF RegistryInv, Advance, Only
  <1>2. CallInv(y)
    BY DEF RegistryInv
  <1>3. KeyOf(y)' = KeyOf(y) \/ caller[y].on = None
    BY KeysStay DEF Advance
  <1>4. caller[y].pc \notin FacadeOnlyPc => caller[y].on # None
    BY <1>2 DEF CallInv, Placed, Apart
  <1>5. Comp(y)' = Comp(y) /\ (Refresher(y)' <=> Refresher(y)) /\ (Provisional(y)' <=> Provisional(y))
    BY <1>1 DEF Comp, Refresher, Refreshing, Provisional
  <1>6. Refresher(y) => caller[y].on # None
    BY <1>4 DEF Refresher, CarryPc, FacadeOnlyPc, RetirePc
  <1>7. Provisional(y) => caller[y].on # None
    BY <1>4 DEF Provisional, FacadeOnlyPc, RetirePc
  <1>8. SignerKept(y)'
    BY <1>1 DEF SignerKept, Steady
  <1>9. Issued(y)'
    <2>1. caller[y].pc \in CarryPc \/ caller[y].pc \in {"preSave", "save", "postSave"} => caller[y].on # None
      BY <1>4 DEF CarryPc, FacadeOnlyPc, RetirePc
    <2>2. issued' = issued /\ aliasKey' \in {aliasKey, None} /\ Issued(y)
      BY <1>2 DEF Steady, CallInv
    <2>3. QED
      BY <1>1, <1>3, <1>5, <1>6, <1>7, <2>1, <2>2 DEF Issued
  <1>10. Fresh(y)'
    <2>1. ASSUME Provisional(y)
          PROVE  Fresh(y)'
      <3>1. Fresh(y) /\ Comp(y) # None
        BY <1>2, <2>1 DEF CallInv, Issued
      <3>2. Comp(y) \notin known' \cup done'
        BY <2>1, <3>1 DEF Fresh, Steady, MayBeDone
      <3>3. store'.component # Comp(y)
        BY <2>1, <3>1, EmptyTyped DEF Fresh, Steady
      <3>4. Comp(x)' # Comp(y)
        BY <2>1, <3>1 DEF Fresh, Advance, Comp
      <3>5. \A z \in Caller \ {y} : Comp(z)' # Comp(y)
        BY <2>1, <3>1, <3>4 DEF Fresh, Advance, Only, Comp
      <3>6. QED
        BY <1>5, <3>2, <3>3, <3>5 DEF Fresh
    <2>2. QED
      BY <1>5, <2>1 DEF Fresh
  <1>11. RetirerKnown(y)'
    <2>1. registry' # registry => caller[y].pc \notin RetirePc
      BY DEF RegistryInv, OneRetirer, RetirePc, Steady
    <2>2. QED
      BY <1>1, <1>2, <1>5, <2>1 DEF RetirerKnown, CallInv, Steady
  <1>12. OfFile(y)'
    <2>1. Refresher(y) => KeyOf(y) # None
      BY <1>2, <1>6 DEF CallInv, Placed, Apart, KeyOf
    <2>2. store' \in {store, Empty} /\ OfFile(y)
      BY <1>2 DEF CallInv, Steady
    <2>3. QED
      BY <1>3, <1>5, <1>6, <2>1, <2>2, EmptyTyped DEF OfFile
  <1>13. ReadClean(y)'
    <2>1. caller[y].pc = "register" => caller[y].on # None
      BY <1>4 DEF FacadeOnlyPc, RetirePc
    <2>2. \A c \in Component : InUse(c)' => InUse(c)
      BY InUseStays
    <2>3. issued' = issued /\ ReadClean(y)
      BY <1>2 DEF Steady, CallInv
    <2>4. QED
      BY <1>1, <1>3, <1>5, <2>1, <2>2, <2>3 DEF ReadClean
  <1>14. TokenNewest(y)'
    <2>1. aliasKey' = KeyOf(y) /\ caller[y].on # None => aliasKey = KeyOf(y)
      BY <1>2 DEF Steady, CallInv, Placed, Apart, KeyOf
    <2>2. ASSUME caller[y].pc \in CarryPc
          PROVE  ~(Renews(x) /\ Comp(y) = Comp(x))
      BY <1>2, <2>2 DEF RegistryInv, CallInv, OneHolder, Placed, HeldPc, CarryPc, Issued, Renews
    <2>3. ASSUME caller[y].pc \in CarryPc, Newest(Comp(y), caller[y].snap.token)
          PROVE  Newest(Comp(y), caller[y].snap.token)'
      <3>1. Comp(y) # None
        BY <1>2, <2>3 DEF CallInv, Issued
      <3>2. caller[y].snap.token \in Nat /\ Comp(y) \in Component
        BY <1>1, <3>1, ComponentAssumption DEF CallRecord, Snapshot, Comp
      <3>3. Newest(Comp(y), caller[y].snap.token)' <=> (live'[Comp(y)] \in {0, caller[y].snap.token} \/ Comp(y) \in lost')
        BY <1>1, <1>5 DEF Newest
      <3>4. \A c \in Component, token \in Nat :
                Newest(c, token) =>
                    (live'[c] \in {0, token} \/ c \in lost') \/ (Renews(x) /\ c = Comp(x))
        BY DEF Steady, Newest
      <3>5. QED
        BY <2>2, <2>3, <3>2, <3>3, <3>4
    <2>4. caller[y].pc \in {"preSave", "save", "send", "sent"} => caller[y].pc \in CarryPc
      BY DEF CarryPc
    <2>5. QED
      BY <1>1, <1>2, <1>3, <1>5, <1>6, <2>1, <2>3, <2>4 DEF TokenNewest, CallInv
  <1>15. QED
    BY <1>8, <1>9, <1>10, <1>11, <1>12, <1>13, <1>14, PlacedStays DEF CallInv

\* Locks are held by one.
LEMMA HoldersStay ==
  ASSUME RegistryInv, NEW x \in Caller, Steady(x), Advance(x)
  PROVE  OneHolder' /\ OneRetirer'
  <1>1. OneHolder /\ OneRetirer
    BY DEF RegistryInv
  <1>2. \A y \in Caller \ {x} : caller'[y] = caller[y] /\ (KeyOf(y)' = KeyOf(y) \/ caller[y].on = None)
    BY KeysStay DEF Advance, Only
  <1>3. \A y \in Caller : caller[y].holds => caller[y].on # None
    BY DEF RegistryInv, CallInv, Placed, Apart
  <1>4. ASSUME caller'[x].holds, NEW y \in Caller \ {x}, caller[y].holds
        PROVE  KeyOf(y) # KeyOf(x)'
    <2>1. CASE caller[x].holds /\ caller'[x].on = caller[x].on
      <3>1. caller[x].on \in Coord
        BY <1>3, <2>1, Shapes DEF RegistryInv, CallRecord
      <3>2. KeyOf(x)' = KeyOf(x)
        BY <2>1, <3>1 DEF KeyOf, Steady
      <3>3. QED
        BY <1>1, <1>4, <2>1, <3>2 DEF OneHolder
    <2>2. CASE \A z \in Caller \ {x} : caller[z].holds => KeyOf(z) # coord[caller'[x].on].key
      <3>1. caller'[x].on # None
        BY <1>4 DEF Advance, CallInv, Placed, Apart
      <3>2. caller'[x].on \in Coord
        BY <3>1 DEF Advance, Only, CallRecord
      <3>3. KeyOf(x)' = coord[caller'[x].on].key
        BY <3>2 DEF KeyOf, Steady
      <3>4. QED
        BY <1>4, <2>2, <3>3
    <2>3. QED
      BY <1>4, <2>1, <2>2 DEF Advance
  <1>5. OneHolder'
    <2>1. ASSUME NEW y \in Caller, NEW z \in Caller, caller'[y].holds, caller'[z].holds,
                 KeyOf(y)' = KeyOf(z)', y # z
          PROVE  FALSE
      <3>1. CASE y = x
        BY <1>2, <1>3, <1>4, <2>1, <3>1
      <3>2. CASE z = x
        BY <1>2, <1>3, <1>4, <2>1, <3>2
      <3>3. CASE y # x /\ z # x
        BY <1>1, <1>2, <1>3, <2>1, <3>3 DEF OneHolder
      <3>4. QED
        BY <3>1, <3>2, <3>3
    <2>2. QED
      BY <2>1 DEF OneHolder
  <1>6. OneRetirer'
    BY <1>1, <1>2 DEF OneRetirer, Advance, RegistryLockFree, RetirePc
  <1>7. QED
    BY <1>5, <1>6

\* File, registry and lists name what they named, or less.
LEMMA ListsStay ==
  ASSUME RegistryInv, NEW x \in Caller, Steady(x), Advance(x)
  PROVE  /\ KeysMade' /\ FileIssued' /\ ListsIssued' /\ EntryKnown'
         /\ KnownRegistered' /\ DoneGone'
  <1>1. KeysMade /\ FileIssued /\ ListsIssued /\ EntryKnown /\ KnownRegistered /\ DoneGone
    BY DEF RegistryInv
  <1>2. store' \in {store, Empty} /\ aliasKey' \in {aliasKey, None}
        /\ UNCHANGED <<made, issued, known, misnamed>>
    BY DEF Steady
  <1> DEFINE Emptied == registry' = NoEntry /\ aliasKey' # registry.key
  <1>0. registry' = registry \/ Emptied
    BY DEF Steady
  <1> HIDE DEF Emptied
  <1>3. KeysMade'
    BY <1>0, <1>1, <1>2, EmptyTyped DEF KeysMade, Steady, Emptied, NoEntry
  <1>4. FileIssued'
    BY <1>1, <1>2 DEF FileIssued
  <1>5. ListsIssued'
    BY <1>1, <1>2 DEF ListsIssued, Steady, MayBeDone
  <1>6. known \cup done \subseteq Component
    BY DEF RegistryInv, ComponentTypeOK
  <1>7. EntryKnown'
    <2>1. registry.component # None => issued[registry.component] # None
      BY <1>1, <1>6 DEF EntryKnown, ListsIssued
    <2>2. \A n \in Coord : coord'[n].key = coord[n].key /\ coord'[n].given = coord[n].given
      BY DEF Steady
    <2>3. CASE registry' = registry
      BY <1>1, <1>2, <2>1, <2>2, <2>3 DEF EntryKnown
    <2>4. CASE Emptied
      BY <1>1, <1>2, <2>2, <2>4 DEF EntryKnown, Emptied, NoEntry
    <2>5. QED
      BY <1>0, <2>3, <2>4
  <1>8. \A c \in Component : InUse(c)' => InUse(c)
    BY InUseStays
  <1>9. KnownRegistered'
    <2>1. ASSUME NEW c \in known \ misnamed, InUse(c)', issued[c] = aliasKey'
          PROVE  registry.component = c /\ aliasKey' = aliasKey /\ registry' = registry
      <3>1. c \in Component /\ InUse(c)
        BY <1>6, <1>8, <2>1
      <3>2. aliasKey' = aliasKey
        BY <1>1, <1>2, <2>1 DEF ListsIssued
      <3>3. registry.component = c /\ c # None
        BY <1>1, <2>1, <3>1, <3>2, ComponentAssumption DEF KnownRegistered
      <3>4. registry.key = aliasKey
        BY <1>1, <2>1, <3>2, <3>3 DEF EntryKnown
      <3>5. QED
        BY <1>0, <3>2, <3>3, <3>4 DEF Emptied
    <2>2. QED
      BY <1>2, <2>1 DEF KnownRegistered
  <1>10. DoneGone'
    <2>1. \A c \in done' \ done : c \in misnamed \/ issued[c] # aliasKey' \/ ~InUse(c)
      BY DEF Steady, MayBeDone
    <2>2. done' \subseteq Component
      BY EvolvesTypes DEF Advance, ComponentTypeOK
    <2>3. ASSUME NEW c \in done' \ misnamed, issued[c] = aliasKey', InUse(c)
          PROVE  FALSE
      <3>1. c \in done
        BY <2>1, <2>3
      <3>2. issued[c] = aliasKey
        BY <1>1, <1>2, <2>3, <3>1 DEF ListsIssued
      <3>3. QED
        BY <1>1, <2>3, <3>1, <3>2 DEF DoneGone
    <2>4. QED
      BY <1>2, <1>8, <2>2, <2>3 DEF DoneGone
  <1>11. QED
    BY <1>3, <1>4, <1>5, <1>7, <1>9, <1>10

\* The token of the file, and the usable session.
LEMMA SessionsStay ==
  ASSUME RegistryInv, NEW x \in Caller, Steady(x), Advance(x)
  PROVE  FileNewest' /\ ComponentReplayOnlyAfterLoss' /\ RegisteredOrUndone'
  <1>1. store' \in {store, Empty} /\ aliasKey' \in {aliasKey, None} /\ lost \subseteq lost'
        /\ UNCHANGED crashes /\ failures' \in Nat /\ failures \in Nat
        /\ failures <= failures' /\ replayed' \subseteq replayed \cup lost'
        /\ (registry' # registry => aliasKey' # registry.key)
    BY ComponentAssumption DEF Steady, RegistryInv, ComponentTypeOK
  <1>2. FileIssued /\ FileNewest /\ ComponentReplayOnlyAfterLoss /\ RegisteredOrUndone
    BY DEF RegistryInv
  <1>3. FileNewest'
    <2>1. ASSUME store' # Empty, store'.key = aliasKey', ~Newest(store.component, store.token)'
          PROVE  \E y \in Caller : Saver(y)' /\ Comp(y)' = store'.component
      <3>1. store' = store /\ aliasKey' = aliasKey
        BY <1>1, <1>2, <2>1 DEF FileIssued
      <3> DEFINE Renewed == Renews(x) /\ store.component = Comp(x)
      <3>2. (~Newest(store.component, store.token) \/ Renewed) /\ store.component \notin lost'
        <4>1. store.component \in Component /\ store.token \in Nat
          BY <1>2, <2>1, <3>1, ComponentAssumption DEF RegistryInv, ComponentTypeOK, Snapshot, FileIssued
        <4>2. ~(live'[store.component] \in {0, store.token}) /\ store.component \notin lost'
          BY <2>1, <3>1 DEF Newest
        <4>3. \A c \in Component, token \in Nat :
                Newest(c, token) =>
                    (live'[c] \in {0, token} \/ c \in lost') \/ (Renews(x) /\ c = Comp(x))
          BY DEF Steady, Newest
        <4>4. QED
          BY <4>1, <4>2, <4>3
      <3>0. CASE Renewed
        <4>1. caller[x].pc = "sent" /\ CallInv(x)
          BY <3>0 DEF Renews, RegistryInv
        <4>2. Refreshing(x)
          BY <3>0, <4>1 DEF CallInv, Placed, CarryPc, Fresh, Provisional, Refreshing
        <4>3. Saver(x)' /\ Comp(x)' = Comp(x)
          BY <3>0, <4>2 DEF Renews, Saver, Refreshing
        <4>4. QED
          BY <3>0, <3>1, <4>3
      <3> SUFFICES ASSUME ~Renewed
                   PROVE  \E y \in Caller : Saver(y)' /\ Comp(y)' = store'.component
        BY <3>0
      <3> HIDE DEF Renewed
      <3>3. PICK y \in Caller : Saver(y) /\ Comp(y) = store.component
        BY <1>2, <2>1, <3>1, <3>2 DEF FileNewest
      <3>4. CASE y = x
        BY <2>1, <3>1, <3>2, <3>3, <3>4 DEF Advance, Comp
      <3>5. CASE y # x
        BY <3>1, <3>3, <3>5 DEF Advance, Only, Comp, Saver, Refreshing
      <3>6. QED
        BY <3>4, <3>5
    <2>2. QED
      BY <2>1 DEF FileNewest
  <1>4. ComponentReplayOnlyAfterLoss'
    BY <1>1, <1>2 DEF ComponentReplayOnlyAfterLoss
  <1>5. RegisteredOrUndone'
    <2>1. ASSUME crashes' = 0, failures' <= 1, Usable', ~InRegistry'
          PROVE  \E y \in Caller : Undoing(y)'
      <3>1. store' = store /\ aliasKey' = aliasKey
        BY <1>1, <1>2, <2>1 DEF FileIssued, Usable
      <3>2. crashes = 0 /\ failures <= 1 /\ Usable
        BY <1>1, <2>1, <3>1 DEF Usable
      <3>7. ~InRegistry
        BY <1>1, <2>1, <3>1, <3>2 DEF Usable, InRegistry
      <3>3. PICK y \in Caller : Undoing(y)
        BY <1>2, <3>2, <3>7 DEF RegisteredOrUndone
      <3>4. CASE y = x
        BY <1>1, <2>1, <3>1, <3>3, <3>4 DEF Advance, Usable
      <3>5. CASE y # x
        BY <1>1, <3>3, <3>5 DEF Advance, Only, Undoing
      <3>6. QED
        BY <3>4, <3>5
    <2>2. QED
      BY <2>1 DEF RegisteredOrUndone
  <1>6. QED
    BY <1>3, <1>4, <1>5

\* A step of one coroutine of this kind preserves the invariant.
LEMMA EvolvesInv ==
  ASSUME RegistryInv, NEW x \in Caller, Steady(x), Advance(x)
  PROVE  RegistryInv'
  <1>1. \A y \in Caller : CallInv(y)'
    BY OthersStay DEF Advance
  <1>2. ComponentTypeOK'
    BY EvolvesTypes DEF Advance
  <1>3. QED
    BY <1>1, <1>2, HoldersStay, ListsStay, SessionsStay DEF RegistryInv

--------------------------------------------------------------------------------
(* The moves of a coroutine. *)

\* Nothing but the coroutine changes, and the file and the alias only become empty.
LEMMA StillSteady ==
  ASSUME RegistryInv, NEW x \in Caller,
         store' \in {store, Empty}, aliasKey' \in {aliasKey, None},
         Fails \/ UNCHANGED failures,
         UNCHANGED <<made, coord, gateway, done, facade>>
  PROVE  Steady(x)
  <1>1. ComponentTypeOK /\ \A y \in Caller : SignerKept(y)
    BY DEF RegistryInv, CallInv
  <1>2. failures' \in 0 .. MaximumFailures /\ failures <= failures'
    BY <1>1, ComponentAssumption DEF ComponentTypeOK, Fails
  <1>3. coord' \in [Coord -> CoordRecord] /\ lost' \subseteq Component /\ revoked' \subseteq Component
        /\ cancels' \in 0 .. MaximumCancels
    BY <1>1, Shapes DEF ComponentTypeOK, gateway, facade
  <1>4. QED
    BY <1>1, <1>2, <1>3 DEF Steady, SignerKept, gateway, facade, ComponentTypeOK, Newest

\* The same of a step that also loses an answer or asks the gateway for a revocation.
LEMMA LosingSteady ==
  ASSUME RegistryInv, NEW x \in Caller,
         Fails \/ UNCHANGED failures,
         lost \subseteq lost', lost' \subseteq Component, revoked' \subseteq Component,
         cancels' \in 0 .. MaximumCancels,
         UNCHANGED <<slot, coord, issued, live, replayed, done, registry, known, misnamed, crashes>>
  PROVE  Steady(x)
  <1>1. ComponentTypeOK /\ \A y \in Caller : SignerKept(y)
    BY DEF RegistryInv, CallInv
  <1>2. failures' \in 0 .. MaximumFailures /\ failures <= failures'
    BY <1>1, ComponentAssumption DEF ComponentTypeOK, Fails
  <1>3. coord' \in [Coord -> CoordRecord]
    BY <1>1, Shapes
  <1>4. QED
    BY <1>1, <1>2, <1>3 DEF Steady, SignerKept, slot, ComponentTypeOK, Newest

\* A move to a position at which nothing is carried.
LEMMA QuietMove ==
  ASSUME RegistryInv, NEW x \in Caller, Steady(x), Only(x),
         Placed(x)', RetirerKnown(x)',
         caller'[x].pc \notin CarryPc \cup {"register"}, ~Provisional(x)',
         \/ caller'[x].on = caller[x].on /\ Comp(x)' = Comp(x)
         \/ Comp(x)' = None
         \/ caller'[x].on = None /\ Comp(x)' \in known,
         caller'[x].holds =>
            \/ caller[x].holds /\ caller'[x].on = caller[x].on
            \/ \A y \in Caller \ {x} : caller[y].holds => KeyOf(y) # coord[caller'[x].on].key,
         caller'[x].pc \in RetirePc => caller[x].pc \in RetirePc \/ RegistryLockFree,
         caller'[x].job \in Prov => caller[x].job \in Prov,
         caller'[x].on \in {caller[x].on, None} \/ coord[caller'[x].on].given,
         Saver(x) => store' = Empty \/ store.component # Comp(x) \/ store.key # aliasKey'
                     \/ Comp(x) \in lost',
         Undoing(x) => Undoing(x)' \/ failures' > 1 \/ store' = Empty \/ store.key # aliasKey'
  PROVE  RegistryInv'
  <1>1. Issued(x) /\ CallInv(x)
    BY DEF RegistryInv, CallInv
  <1>2. UNCHANGED <<issued, known>> /\ aliasKey' \in {aliasKey, None} /\ ListsIssued
    BY DEF Steady, RegistryInv
  <1>3. caller'[x].on = caller[x].on /\ caller[x].on # None => KeyOf(x)' = KeyOf(x)
    BY Shapes DEF KeyOf, Steady, RegistryInv, CallRecord
  <1>4. ~Refresher(x)' /\ caller'[x].pc \notin {"preSave", "save", "postSave", "sent", "send"}
    BY DEF Refresher, CarryPc
  <1>5. Issued(x)'
    <2>1. Comp(x)' # None => issued[Comp(x)]' # None
      BY <1>1, <1>2 DEF Issued, ListsIssued
    <2>2. Comp(x)' # None /\ caller'[x].on # None /\ issued[Comp(x)]' = aliasKey' => KeyOf(x)' = aliasKey'
      BY <1>1, <1>2, <1>3, <2>1 DEF Issued
    <2>3. QED
      BY <1>4, <2>1, <2>2 DEF Issued
  <1>6. CallInv(x)'
    BY <1>4, <1>5 DEF CallInv, SignerKept, Fresh, OfFile, ReadClean, TokenNewest
  <1>7. Comp(x)' \in {Comp(x), store.component, None} \cup known
    OBVIOUS
  <1>8. Advance(x)
    BY <1>4, <1>6, <1>7 DEF Advance, Comp
  <1>9. QED
    BY <1>8, EvolvesInv

LEMMA GotoShape ==
  ASSUME ComponentTypeOK, NEW x \in Caller, NEW pc \in {"idle"} \cup SessionPc \cup FacadePc, Goto(x, pc)
  PROVE  /\ Only(x)
         /\ caller'[x].pc = pc /\ caller'[x].job = caller[x].job /\ caller'[x].on = caller[x].on
         /\ caller'[x].snap = caller[x].snap /\ caller'[x].holds = caller[x].holds
         /\ caller'[x].after = caller[x].after
  <1>1. caller \in [Caller -> CallRecord]
    BY Shapes
  <1>2. caller'[x] = [caller[x] EXCEPT !.pc = pc] /\ caller[x] \in CallRecord
    BY <1>1 DEF Goto
  <1>3. caller'[x] \in CallRecord
    BY <1>2 DEF CallRecord
  <1>4. Only(x)
    BY <1>1, <1>3 DEF Only, Goto
  <1>5. QED
    BY <1>2, <1>4 DEF CallRecord

\* A coroutine that keeps its coordinator, or takes one that was given, keeps apart.
LEMMA ApartMove ==
  ASSUME RegistryInv, NEW x \in Caller, Steady(x), Only(x),
         \/ caller'[x].on = caller[x].on /\ (caller'[x].job \in Prov <=> caller[x].job \in Prov)
         \/ caller'[x].job \notin Prov /\ caller'[x].on = None
         \/ caller'[x].job \notin Prov /\ caller'[x].on \in Coord /\ coord[caller'[x].on].given
  PROVE  Apart(x)'
  <1>1. Apart(x) /\ EntryKnown /\ caller[x].on \in Coord \cup {None}
    BY Shapes DEF RegistryInv, CallInv, Placed, CallRecord
  <1>2. \A n \in Coord : coord'[n].key = coord[n].key /\ coord'[n].given = coord[n].given
    BY DEF Steady
  <1>3. CASE caller'[x].on = caller[x].on /\ (caller'[x].job \in Prov <=> caller[x].job \in Prov)
    <2>1. caller[x].on # None => KeyOf(x)' = KeyOf(x)
      BY <1>1, <1>2, <1>3 DEF KeyOf
    <2>2. caller[x].job \in Prov =>
            /\ \A y \in Caller : caller'[y].job \in Prov => y = x
            /\ \A y \in Caller \ {x} : caller'[y].on # caller'[x].on
      BY <1>1, <1>3 DEF Apart, Only
    <2>3. caller[x].job \in Prov => aliasKey' \in {KeyOf(x), None}
      BY <1>1 DEF Apart, Steady
    <2>4. QED
      BY <1>1, <1>2, <1>3, <2>1, <2>2, <2>3 DEF Apart
  <1>4. CASE caller'[x].job \notin Prov /\ caller'[x].on = None
    BY <1>4 DEF Apart
  <1>5. CASE caller'[x].job \notin Prov /\ caller'[x].on \in Coord /\ coord[caller'[x].on].given
    BY <1>1, <1>2, <1>5 DEF Apart, EntryKnown
  <1>6. QED
    BY <1>3, <1>4, <1>5

\* A step of a coordinator's operation to a quiet position.
LEMMA GotoQuiet ==
  ASSUME RegistryInv, NEW x \in Caller, Steady(x), NEW pc \in SessionPc \cup FacadePc, Goto(x, pc),
         caller[x].pc \notin FacadeOnlyPc, pc \notin FacadeOnlyPc,
         pc \notin CarryPc \cup {"register", "ask", "lock", "evict", "askRevoke"},
         pc \in HeldPc => caller[x].holds,
         pc \in {"undoStore", "undoKey"} => caller[x].job \in Prov,
         pc \in {"final", "authorized"} => caller[x].job = "authorize",
         pc = "diagnose" => caller[x].job = "open",
         caller[x].pc \notin {"undoStore", "undoKey"}, pc # "undoKey",
         Saver(x) => store' = Empty
  PROVE  RegistryInv'
  <1>1. ComponentTypeOK /\ Placed(x)
    BY DEF RegistryInv, CallInv
  <1>2. /\ Only(x)
        /\ caller'[x].pc = pc /\ caller'[x].job = caller[x].job /\ caller'[x].on = caller[x].on
        /\ caller'[x].snap = caller[x].snap /\ caller'[x].holds = caller[x].holds
    BY <1>1, GotoShape
  <1>3. Apart(x)'
    BY <1>2, ApartMove
  <1>4. caller[x].on # None /\ pc # "idle"
    BY <1>1 DEF Placed, FacadeOnlyPc
  <1>5. Placed(x)'
    BY <1>1, <1>2, <1>3, <1>4 DEF Placed, CarryPc
  <1>6. RetirerKnown(x)' /\ caller'[x].pc \notin RetirePc
    BY <1>2 DEF RetirerKnown, FacadeOnlyPc, RetirePc
  <1>7. ~Provisional(x)'
    BY <1>2 DEF Provisional, CarryPc
  <1>8. Undoing(x) => Undoing(x)'
    BY <1>2 DEF Undoing
  <1>9. Comp(x)' = Comp(x)
    BY <1>2 DEF Comp
  <1>10. QED
    BY <1>2, <1>5, <1>6, <1>7, <1>8, <1>9, QuietMove

\* The end of an operation, or its turn to the undoing.
LEMMA ReturnShape ==
  ASSUME ComponentTypeOK, NEW x \in Caller, Return(x)
  PROVE  /\ Only(x)
         /\ \/ /\ caller[x].job \in Undone
               /\ caller'[x].pc = "undoStore" /\ caller'[x].job = caller[x].job
               /\ caller'[x].on = caller[x].on /\ caller'[x].snap = caller[x].snap
               /\ caller'[x].holds = FALSE
            \/ caller[x].job \notin Undone /\ caller'[x] = Idle
  <1>1. caller \in [Caller -> CallRecord] /\ caller[x] \in CallRecord
    BY Shapes
  <1>2. Idle \in CallRecord
    BY EmptyTyped DEF CallRecord, Idle, Job
  <1>3. caller'[x] = IF caller[x].job \in Undone
                     THEN [caller[x] EXCEPT !.pc = "undoStore", !.holds = FALSE] ELSE Idle
    BY <1>1 DEF Return
  <1>4. caller'[x] \in CallRecord
    BY <1>1, <1>2, <1>3 DEF CallRecord, FacadePc
  <1>5. Only(x)
    BY <1>1, <1>4 DEF Only, Return
  <1>6. QED
    BY <1>1, <1>3, <1>5 DEF CallRecord

LEMMA ReturnInv ==
  ASSUME RegistryInv, NEW x \in Caller, Steady(x), Return(x), caller[x].pc # "undoKey",
         Saver(x) => store' = Empty \/ store.component # Comp(x) \/ store.key # aliasKey'
                     \/ Comp(x) \in lost'
  PROVE  RegistryInv'
  <1>1. ComponentTypeOK /\ Placed(x)
    BY DEF RegistryInv, CallInv
  <1>2. CASE caller[x].job \in Undone
    <2>1. /\ Only(x) /\ caller'[x].pc = "undoStore" /\ caller'[x].job = caller[x].job
          /\ caller'[x].on = caller[x].on /\ caller'[x].snap = caller[x].snap
          /\ caller'[x].holds = FALSE
      BY <1>1, <1>2, ReturnShape
    <2>2. Apart(x)'
      BY <2>1, ApartMove
    <2>3. caller[x].job \in Prov /\ caller[x].on # None
      BY <1>1, <1>2 DEF Placed, Apart, Undone, Prov
    <2>4. Placed(x)'
      BY <1>2, <2>1, <2>2, <2>3 DEF Undone, Placed, FacadeOnlyPc, HeldPc, CarryPc, RetirePc
    <2>5. RetirerKnown(x)' /\ caller'[x].pc \notin RetirePc /\ caller'[x].pc \notin CarryPc
          /\ ~Provisional(x)' /\ Undoing(x)' /\ Comp(x)' = Comp(x)
      BY <1>2, <2>1 DEF RetirerKnown, RetirePc, CarryPc, Provisional, Undoing, Comp
    <2>6. QED
      BY <2>1, <2>4, <2>5, QuietMove
  <1>3. CASE caller[x].job \notin Undone
    <2>1. Only(x) /\ caller'[x] = Idle
      BY <1>1, <1>3, ReturnShape
    <2>2. caller'[x].pc = "idle" /\ caller'[x].job = "none" /\ caller'[x].on = None
          /\ caller'[x].snap.component = None /\ caller'[x].holds = FALSE
      BY <2>1, EmptyTyped DEF Idle
    <2>3. Apart(x)'
      BY <2>1, <2>2, ApartMove DEF Prov
    <2>4. Placed(x)'
      BY <2>2, <2>3 DEF Placed, FacadeOnlyPc, HeldPc, CarryPc, RetirePc, Prov
    <2>5. RetirerKnown(x)' /\ caller'[x].pc \notin RetirePc /\ caller'[x].pc \notin CarryPc
          /\ ~Provisional(x)' /\ ~Undoing(x) /\ Comp(x)' = None /\ caller'[x].job \notin Prov
      BY <1>3, <2>2 DEF RetirerKnown, RetirePc, CarryPc, Provisional, Undoing, Comp, Prov
    <2>6. QED
      BY <2>1, <2>2, <2>4, <2>5, QuietMove
  <1>4. QED
    BY <1>2, <1>3

\* A lost key makes an operation destroy the file.
LEMMA EvictInv ==
  ASSUME RegistryInv, NEW x \in Caller, Steady(x), Evict(x),
         caller[x].pc \notin FacadeOnlyPc \cup {"undoStore", "undoKey"},
         Saver(x) => store.component # Comp(x) \/ store.key # aliasKey'
  PROVE  RegistryInv'
  <1>1. ComponentTypeOK /\ Placed(x) /\ caller \in [Caller -> CallRecord] /\ caller[x] \in CallRecord
    BY Shapes DEF RegistryInv, CallInv
  <1>2. DEFINE after == IF caller[x].job = "open" THEN "undoStore"
                        ELSE IF Refreshing(x) /\ caller[x].pc \in {"send", "preSave", "postSave"}
                             THEN "destroy" ELSE "return"
  <1>3. caller'[x] = [caller[x] EXCEPT !.pc = "evict", !.after = after]
    BY <1>1 DEF Evict
  <1>4. /\ Only(x)
        /\ caller'[x].pc = "evict" /\ caller'[x].job = caller[x].job /\ caller'[x].on = caller[x].on
        /\ caller'[x].snap = caller[x].snap /\ caller'[x].holds = caller[x].holds
        /\ caller'[x].after = after
    <2>1. caller'[x] \in CallRecord
      BY <1>1, <1>3 DEF CallRecord, SessionPc
    <2>2. Only(x)
      BY <1>1, <2>1 DEF Only, Evict
    <2>3. QED
      BY <1>1, <1>3, <2>2 DEF CallRecord
  <1>5. Apart(x)'
    BY <1>4, ApartMove
  <1>6. caller[x].on # None
    BY <1>1 DEF Placed
  <1>7. after = "destroy" => caller[x].holds
    BY <1>1 DEF Placed, HeldPc, CarryPc
  <1>8. Placed(x)'
    BY <1>1, <1>4, <1>5, <1>6, <1>7 DEF Placed, FacadeOnlyPc, HeldPc, CarryPc, RetirePc
  <1>9. RetirerKnown(x)' /\ caller'[x].pc \notin RetirePc /\ caller'[x].pc \notin CarryPc
        /\ ~Provisional(x)' /\ (Undoing(x) => Undoing(x)') /\ Comp(x)' = Comp(x)
    BY <1>4 DEF RetirerKnown, RetirePc, CarryPc, Provisional, Undoing, Comp
  <1>10. QED
    BY <1>4, <1>8, <1>9, QuietMove

\* A coroutine takes the session lock, or leaves it.
LEMMA EnterShape ==
  ASSUME ComponentTypeOK, NEW x \in Caller, NEW pc \in {"idle"} \cup SessionPc \cup FacadePc,
         NEW holds \in BOOLEAN,
         caller' = [caller EXCEPT ![x].pc = pc, ![x].holds = holds]
  PROVE  /\ Only(x)
         /\ caller'[x].pc = pc /\ caller'[x].job = caller[x].job /\ caller'[x].on = caller[x].on
         /\ caller'[x].snap = caller[x].snap /\ caller'[x].holds = holds
         /\ caller'[x].after = caller[x].after
  <1>1. caller \in [Caller -> CallRecord] /\ caller[x] \in CallRecord
    BY Shapes
  <1>2. caller'[x] = [caller[x] EXCEPT !.pc = pc, !.holds = holds]
    BY <1>1
  <1>3. caller'[x] \in CallRecord
    BY <1>1, <1>2 DEF CallRecord
  <1>4. Only(x)
    BY <1>1, <1>3 DEF Only
  <1>5. QED
    BY <1>1, <1>2, <1>4 DEF CallRecord

\* The lock of a key is free: no other coroutine holds it.
LEMMA LockTaken ==
  ASSUME NEW x \in Caller, SessionLockFree(caller[x].on), NEW y \in Caller \ {x}, caller[y].holds
  PROVE  KeyOf(y) # KeyOf(x)
  BY DEF SessionLockFree, KeyOf

LEMMA StartInv ==
  ASSUME RegistryInv, NEW x \in Caller, NEW n \in Coord, NEW job \in Use, Start(x, n, job), UNCHANGED facade
  PROVE  RegistryInv'
  <1>1. ComponentTypeOK /\ caller \in [Caller -> CallRecord] /\ caller[x] = Idle
    BY Shapes DEF RegistryInv, Start
  <1>2. Steady(x)
    BY StillSteady DEF Start, slot
  <1>3. caller'[x] = [Idle EXCEPT !.job = job, !.pc = "lock", !.on = n]
    BY <1>1 DEF Start
  <1>4. /\ caller'[x].job = job /\ caller'[x].pc = "lock" /\ caller'[x].on = n
        /\ caller'[x].snap = Empty /\ caller'[x].holds = FALSE /\ caller'[x].after = "return"
    BY <1>3 DEF Idle
  <1>5. job \in {"authorize", "refresh", "clear", "revoke"} /\ coord[n].given
    BY DEF Start
  <1>6. Only(x)
    <2>1. Idle \in CallRecord
      BY <1>1
    <2>2. caller'[x] \in CallRecord
      BY <1>3, <1>5, <2>1 DEF CallRecord, Idle, Job, SessionPc
    <2>3. QED
      BY <1>1, <2>2 DEF Only, Start
  <1>7. Apart(x)'
    BY <1>2, <1>4, <1>5, <1>6, ApartMove DEF Prov
  <1>8. Placed(x)'
    BY <1>4, <1>5, <1>7, ComponentAssumption DEF Placed, FacadeOnlyPc, HeldPc, CarryPc, RetirePc
  <1>9. /\ RetirerKnown(x)' /\ caller'[x].pc \notin CarryPc \cup {"register"} \cup RetirePc
        /\ ~Provisional(x)' /\ caller'[x].job \notin Prov /\ Comp(x)' = None
    BY <1>4, <1>5, EmptyTyped DEF RetirerKnown, CarryPc, RetirePc, Provisional, Prov, Comp
  <1>10. ~Saver(x) /\ ~Undoing(x)
    BY <1>1 DEF Idle, Saver, Refreshing, Undoing, Undone
  <1>11. QED
    BY <1>2, <1>4, <1>5, <1>6, <1>8, <1>9, <1>10, QuietMove

\* A coordinator's operation gets the session lock and goes on to a quiet position.
LEMMA EnterQuiet ==
  ASSUME RegistryInv, NEW x \in Caller, Steady(x), caller[x].pc = "lock", SessionLockFree(caller[x].on),
         coord' = coord, NEW pc \in {"ensure", "clear", "destroy"},
         caller' = [caller EXCEPT ![x].pc = pc, ![x].holds = TRUE]
  PROVE  RegistryInv'
  <1>1. ComponentTypeOK /\ Placed(x) /\ pc \in SessionPc
    BY DEF RegistryInv, CallInv, SessionPc
  <1>2. /\ Only(x)
        /\ caller'[x].pc = pc /\ caller'[x].job = caller[x].job /\ caller'[x].on = caller[x].on
        /\ caller'[x].snap = caller[x].snap /\ caller'[x].holds = TRUE
    BY <1>1, EnterShape
  <1>3. Apart(x)'
    BY <1>2, ApartMove
  <1>4. caller[x].on # None
    BY <1>1 DEF Placed, FacadeOnlyPc, RetirePc
  <1>5. Placed(x)'
    BY <1>1, <1>2, <1>3, <1>4 DEF Placed, FacadeOnlyPc, HeldPc, CarryPc, RetirePc
  <1>6. /\ RetirerKnown(x)' /\ caller'[x].pc \notin CarryPc \cup {"register"} \cup RetirePc
        /\ ~Provisional(x)' /\ Comp(x)' = Comp(x) /\ ~Saver(x) /\ (Undoing(x) => Undoing(x)')
    BY <1>2 DEF RetirerKnown, CarryPc, RetirePc, Provisional, Comp, Saver, Undoing
  <1>7. \A y \in Caller \ {x} : caller[y].holds => KeyOf(y) # coord[caller'[x].on].key
    BY <1>2, LockTaken DEF KeyOf
  <1>8. QED
    BY <1>2, <1>5, <1>6, <1>7, QuietMove

LEMMA LockInv ==
  ASSUME RegistryInv, NEW x \in Caller, Lock(x), UNCHANGED facade
  PROVE  RegistryInv'
  <1> DEFINE Enter(pc) == caller' = [caller EXCEPT ![x].pc = pc, ![x].holds = TRUE]
  <1>1. caller[x].pc = "lock" /\ SessionLockFree(caller[x].on) /\ coord' = coord /\ ComponentTypeOK
        /\ CallInv(x)
    BY DEF Lock, RegistryInv
  <1>2. Steady(x)
    BY StillSteady DEF Lock, slot
  <1>3. CASE caller[x].job = "provision" /\ Enter("send")
    <2>1. /\ Only(x)
          /\ caller'[x].pc = "send" /\ caller'[x].job = caller[x].job /\ caller'[x].on = caller[x].on
          /\ caller'[x].snap = caller[x].snap /\ caller'[x].holds = TRUE
      BY <1>1, <1>3, EnterShape DEF SessionPc
    <2>2. Placed(x)'
      <3>1. Apart(x)'
        BY <1>2, <2>1, ApartMove
      <3>2. caller[x].on # None
        BY <1>1 DEF CallInv, Placed, FacadeOnlyPc, RetirePc
      <3>3. QED
        BY <1>3, <2>1, <3>1, <3>2 DEF Placed, FacadeOnlyPc, HeldPc, CarryPc, RetirePc
    <2>3. Provisional(x) /\ ~Refresher(x)' /\ ~Refreshing(x) /\ KeyOf(x)' = KeyOf(x) /\ Comp(x)' = Comp(x)
      BY <1>1, <1>3, <2>1 DEF Provisional, Refresher, Refreshing, KeyOf, Comp
    <2>4. UNCHANGED <<issued, aliasKey, known, done, store>>
      BY DEF Lock, slot, gateway, facade
    <2>5. Issued(x)'
      BY <1>1, <2>1, <2>3, <2>4 DEF CallInv, Issued
    <2>6. Fresh(x)'
      BY <1>1, <2>1, <2>3, <2>4 DEF CallInv, Fresh, Only, Comp
    <2>7. CallInv(x)'
      BY <2>1, <2>2, <2>3, <2>5, <2>6 DEF CallInv, SignerKept, RetirerKnown, RetirePc, OfFile, ReadClean, TokenNewest
    <2>8. Advance(x)
      <3>1. \A y \in Caller \ {x} : caller[y].holds => KeyOf(y) # coord[caller'[x].on].key
        BY <1>1, <2>1, LockTaken DEF KeyOf
      <3>2. ~Saver(x) /\ Undoing(x)'
        BY <1>1, <1>3, <2>1 DEF Saver, Undoing, Undone
      <3>3. QED
        BY <1>3, <2>1, <2>3, <2>7, <3>1, <3>2 DEF Advance, Comp, RetirePc, Prov
    <2>9. QED
      BY <1>2, <2>8, EvolvesInv
  <1>4. ASSUME NEW pc \in {"ensure", "clear", "destroy"}, Enter(pc)
        PROVE  RegistryInv'
    BY <1>1, <1>2, <1>4, EnterQuiet
  <1>5. CASE Return(x)
    BY <1>1, <1>2, <1>5, ReturnInv DEF Saver
  <1>6. QED
    BY <1>3, <1>4, <1>5 DEF Lock

LEMMA EnsureInv ==
  ASSUME RegistryInv, NEW x \in Caller, Ensure(x), UNCHANGED facade
  PROVE  RegistryInv'
  <1>1. caller[x].pc = "ensure" /\ Placed(x)
    BY DEF Ensure, RegistryInv, CallInv
  <1>2. Steady(x)
    BY StillSteady DEF Ensure, slot
  <1>3. ~Saver(x) /\ caller[x].pc \notin FacadeOnlyPc /\ caller[x].holds
    BY <1>1 DEF Saver, FacadeOnlyPc, RetirePc, Placed, HeldPc
  <1>4. CASE Goto(x, "load")
    BY <1>1, <1>2, <1>3, <1>4, GotoQuiet DEF SessionPc, FacadeOnlyPc, CarryPc, RetirePc
  <1>5. CASE Evict(x)
    BY <1>1, <1>2, <1>3, <1>5, EvictInv
  <1>6. QED
    BY <1>4, <1>5 DEF Ensure

LEMMA EvictStateInv ==
  ASSUME RegistryInv, NEW x \in Caller, EvictState(x), UNCHANGED facade
  PROVE  RegistryInv'
  <1>1. caller[x].pc = "evict" /\ Placed(x) /\ caller \in [Caller -> CallRecord]
    BY Shapes DEF EvictState, RegistryInv, CallInv
  <1>2. Steady(x)
    <2>1. store' \in {store, Empty} /\ aliasKey' \in {aliasKey, None} /\ (Fails \/ UNCHANGED failures)
          /\ UNCHANGED <<made, coord, gateway, done, facade>>
      BY DEF EvictState
    <2>2. QED
      BY <2>1, StillSteady
  <1>3. ~Saver(x) /\ caller[x].pc \notin FacadeOnlyPc
    BY <1>1 DEF Saver, FacadeOnlyPc, RetirePc
  <1>4. caller[x].after \in {"return", "undoStore", "destroy"}
    BY <1>1 DEF Placed, CallRecord
  <1>5. CASE Return(x)
    BY <1>1, <1>2, <1>3, <1>5, ReturnInv
  <1>6. CASE caller[x].after = "undoStore" /\ Goto(x, "undoStore")
    <2>1. caller[x].job \in Prov
      BY <1>1, <1>6 DEF Placed, Prov
    <2>2. QED
      BY <1>1, <1>2, <1>3, <1>6, <2>1, GotoQuiet DEF FacadePc, FacadeOnlyPc, CarryPc, HeldPc, RetirePc
  <1>7. CASE caller[x].after = "destroy" /\ Goto(x, "destroy")
    <2>1. caller[x].holds
      BY <1>1, <1>7 DEF Placed
    <2>2. QED
      BY <1>1, <1>2, <1>3, <1>7, <2>1, GotoQuiet DEF SessionPc, FacadeOnlyPc, CarryPc, RetirePc
  <1>8. QED
    BY <1>4, <1>5, <1>6, <1>7 DEF EvictState

LEMMA ClearInv ==
  ASSUME RegistryInv, NEW x \in Caller, Clear(x), UNCHANGED facade
  PROVE  RegistryInv'
  <1>1. caller[x].pc = "clear"
    BY DEF Clear
  <1>2. Steady(x)
    <2>1. store' \in {store, Empty} /\ aliasKey' \in {aliasKey, None} /\ (Fails \/ UNCHANGED failures)
          /\ UNCHANGED <<made, coord, gateway, done, facade>>
      BY DEF Clear
    <2>2. QED
      BY <2>1, StillSteady
  <1>3. Return(x)
    BY DEF Clear
  <1>4. QED
    BY <1>1, <1>2, <1>3, ReturnInv DEF Saver

LEMMA AuthorizeInv ==
  ASSUME RegistryInv, NEW x \in Caller, Authorize(x), UNCHANGED facade
  PROVE  RegistryInv'
  <1>1. caller[x].pc = "final" /\ Placed(x)
    BY DEF Authorize, RegistryInv, CallInv
  <1>2. Steady(x)
    BY StillSteady DEF Authorize, slot
  <1>3. ~Saver(x) /\ caller[x].pc \notin FacadeOnlyPc /\ caller[x].job = "authorize"
    BY <1>1 DEF Saver, FacadeOnlyPc, RetirePc, Placed
  <1>4. CASE Goto(x, "authorized")
    BY <1>1, <1>2, <1>3, <1>4, GotoQuiet DEF SessionPc, FacadeOnlyPc, CarryPc, RetirePc, HeldPc
  <1>5. CASE Evict(x)
    BY <1>1, <1>2, <1>3, <1>5, EvictInv
  <1>6. CASE Return(x)
    BY <1>1, <1>2, <1>3, <1>6, ReturnInv
  <1>7. QED
    BY <1>4, <1>5, <1>6 DEF Authorize

\* The follow-up operation keeps the coordinator and the session.
LEMMA RequestAnsweredInv ==
  ASSUME RegistryInv, NEW x \in Caller, RequestAnswered(x), UNCHANGED facade
  PROVE  RegistryInv'
  <1>1. caller[x].pc = "authorized" /\ Placed(x) /\ ComponentTypeOK /\ caller \in [Caller -> CallRecord]
        /\ caller[x] \in CallRecord
    BY Shapes DEF RequestAnswered, RegistryInv, CallInv
  <1>2. Steady(x)
    BY StillSteady DEF RequestAnswered, slot
  <1>3. caller[x].job = "authorize" /\ caller[x].on # None
    BY <1>1 DEF FacadeOnlyPc, RetirePc, Placed
  <1>4. CASE caller' = [caller EXCEPT ![x] = Idle]
    <2>1. Return(x)
      BY <1>1, <1>3, <1>4 DEF Return, Undone
    <2>2. QED
      BY <1>1, <1>2, <2>1, ReturnInv DEF Saver
  <1>5. ASSUME NEW job \in {"clearIf", "refresh", "terminal"},
               caller' = [caller EXCEPT ![x].job = job, ![x].pc = "lock"]
        PROVE  RegistryInv'
    <2>1. caller'[x] = [caller[x] EXCEPT !.job = job, !.pc = "lock"]
      BY <1>1, <1>5
    <2>2. caller'[x] \in CallRecord
      BY <1>1, <2>1 DEF CallRecord, Job, SessionPc
    <2>3. /\ Only(x)
          /\ caller'[x].pc = "lock" /\ caller'[x].job = job /\ caller'[x].on = caller[x].on
          /\ caller'[x].snap = caller[x].snap /\ caller'[x].holds = caller[x].holds
      BY <1>1, <1>5, <2>1, <2>2 DEF CallRecord, Only
    <2>4. Apart(x)'
      BY <1>2, <1>3, <2>3, ApartMove DEF Prov
    <2>5. Placed(x)'
      BY <1>1, <1>3, <2>3, <2>4 DEF Placed, FacadeOnlyPc, HeldPc, CarryPc, RetirePc
    <2>6. /\ RetirerKnown(x)' /\ caller'[x].pc \notin CarryPc \cup {"register"} \cup RetirePc
          /\ ~Provisional(x)' /\ Comp(x)' = Comp(x) /\ ~Saver(x) /\ ~Undoing(x) /\ caller'[x].job \notin Prov
      BY <1>1, <1>3, <2>3 DEF RetirerKnown, CarryPc, RetirePc, Provisional, Comp, Saver, Undoing, Undone, Prov
    <2>7. QED
      BY <1>2, <2>3, <2>5, <2>6, QuietMove
  <1>6. QED
    BY <1>4, <1>5 DEF RequestAnswered

LEMMA CheckAfterInv ==
  ASSUME RegistryInv, NEW x \in Caller, CheckAfter(x), UNCHANGED facade
  PROVE  RegistryInv'
  <1>1. caller[x].pc = "postSave" /\ Placed(x) /\ ComponentTypeOK
    BY DEF CheckAfter, RegistryInv, CallInv
  <1>2. Steady(x)
    BY StillSteady DEF CheckAfter, slot
  <1>3. ~Saver(x) /\ caller[x].pc \notin FacadeOnlyPc /\ caller[x].on # None
    BY <1>1 DEF Saver, FacadeOnlyPc, RetirePc, Placed
  <1>4. ASSUME NEW pc \in {"diagnose", "final"}, pc = "diagnose" => caller[x].job = "provision",
               pc = "final" => caller[x].job = "authorize",
               caller' = [caller EXCEPT ![x].pc = pc, ![x].holds = FALSE]
        PROVE  RegistryInv'
    <2>1. /\ Only(x)
          /\ caller'[x].pc = pc /\ caller'[x].job = caller[x].job /\ caller'[x].on = caller[x].on
          /\ caller'[x].snap = caller[x].snap /\ caller'[x].holds = FALSE
      BY <1>1, <1>4, EnterShape DEF SessionPc, FacadePc
    <2>2. Apart(x)'
      BY <1>2, <2>1, ApartMove
    <2>3. Placed(x)'
      BY <1>3, <1>4, <2>1, <2>2 DEF Placed, FacadeOnlyPc, HeldPc, CarryPc, RetirePc
    <2>4. /\ RetirerKnown(x)' /\ caller'[x].pc \notin CarryPc \cup {"register"} \cup RetirePc
          /\ ~Provisional(x)' /\ Comp(x)' = Comp(x) /\ (Undoing(x) => Undoing(x)')
      BY <2>1 DEF RetirerKnown, CarryPc, RetirePc, Provisional, Comp, Undoing
    <2>5. QED
      BY <1>2, <1>3, <2>1, <2>3, <2>4, QuietMove
  <1>5. CASE Return(x)
    BY <1>1, <1>2, <1>3, <1>5, ReturnInv
  <1>6. CASE Evict(x)
    BY <1>1, <1>2, <1>3, <1>6, EvictInv
  <1>7. QED
    BY <1>4, <1>5, <1>6 DEF CheckAfter

LEMMA AskRevokeInv ==
  ASSUME RegistryInv, NEW x \in Caller, AskRevoke(x), UNCHANGED facade
  PROVE  RegistryInv'
  <1>1. caller[x].pc = "askRevoke" /\ Placed(x) /\ ComponentTypeOK /\ Issued(x)
    BY DEF AskRevoke, RegistryInv, CallInv
  <1>2. coord \in [Coord -> CoordRecord] /\ caller \in [Caller -> CallRecord]
    BY <1>1, Shapes
  <1>3. ~Saver(x) /\ caller[x].pc \notin FacadeOnlyPc /\ caller[x].holds /\ caller[x].on # None
    BY <1>1 DEF Saver, FacadeOnlyPc, RetirePc, Placed, HeldPc
  <1>4. /\ coord' \in [Coord -> CoordRecord]
        /\ \A n \in Coord : coord'[n].key = coord[n].key /\ coord'[n].given = coord[n].given
                            /\ coord'[n].invalidated = coord[n].invalidated
    <2>1. CASE coord' = coord
      BY <1>2, <2>1
    <2>2. CASE coord' = [coord EXCEPT ![caller[x].on].accepted = caller[x].snap.component \notin revoked]
      <3> DEFINE accepted == caller[x].snap.component \notin revoked
      <3> accepted \in BOOLEAN
        OBVIOUS
      <3> HIDE DEF accepted
      <3>1. coord' = [coord EXCEPT ![caller[x].on].accepted = accepted]
        BY <2>2 DEF accepted
      <3>2. ASSUME NEW n \in Coord
            PROVE  /\ coord'[n] \in CoordRecord /\ coord'[n].key = coord[n].key
                   /\ coord'[n].given = coord[n].given /\ coord'[n].invalidated = coord[n].invalidated
        <4>1. coord[n] \in CoordRecord
          BY <1>2
        <4>2. coord'[n] = IF n = caller[x].on THEN [coord[n] EXCEPT !.accepted = accepted] ELSE coord[n]
          BY <1>2, <3>1
        <4>3. QED
          BY <4>1, <4>2 DEF CoordRecord
      <3>3. QED
        BY <1>2, <3>1, <3>2
    <2>3. QED
      BY <2>1, <2>2 DEF AskRevoke
  <1>5. revoked' \subseteq Component
    <2>1. Comp(x) \in Component
      BY <1>1, <1>2 DEF RegistryInv, CallInv, RetirerKnown, Comp, CallRecord, Snapshot
    <2>2. QED
      BY <1>1, <2>1 DEF AskRevoke, ComponentTypeOK, Comp
  <1>6. Steady(x)
    <2>1. \A y \in Caller : caller[y].pc \in {"sent", "preSave"} => ~coord'[caller[y].on].invalidated
      <3>1. \A y \in Caller : SignerKept(y) /\ Placed(y)
        BY DEF RegistryInv, CallInv
      <3>2. \A y \in Caller : caller[y].pc \in {"sent", "preSave"} => caller[y].on \in Coord
        BY <1>2, <3>1 DEF Placed, FacadeOnlyPc, RetirePc, CallRecord
      <3>3. QED
        BY <1>4, <3>1, <3>2 DEF SignerKept
    <2>2. UNCHANGED <<slot, issued, live, lost, replayed, done, failures, facade>>
      BY DEF AskRevoke
    <2>3. QED
      BY <1>1, <1>4, <1>5, <2>1, <2>2 DEF Steady, slot, facade, ComponentTypeOK, Newest
  <1>7. CASE Goto(x, "destroy")
    BY <1>1, <1>3, <1>6, <1>7, GotoQuiet DEF SessionPc, FacadeOnlyPc, CarryPc, RetirePc
  <1>8. CASE Return(x)
    BY <1>1, <1>3, <1>6, <1>8, ReturnInv
  <1>9. QED
    BY <1>7, <1>8 DEF AskRevoke

LEMMA DestroyInv ==
  ASSUME RegistryInv, NEW x \in Caller, Destroy(x), UNCHANGED facade
  PROVE  RegistryInv'
  <1>1. caller[x].pc = "destroy" /\ Placed(x) /\ ComponentTypeOK /\ caller \in [Caller -> CallRecord]
        /\ caller[x] \in CallRecord
    BY Shapes DEF Destroy, RegistryInv, CallInv
  <1>2. Steady(x)
    <2>1. store' \in {store, Empty} /\ aliasKey' \in {aliasKey, None} /\ (Fails \/ UNCHANGED failures)
          /\ UNCHANGED <<made, coord, gateway, done, facade>>
      BY DEF Destroy
    <2>2. QED
      BY <2>1, StillSteady
  <1>3. ~Saver(x) /\ caller[x].pc \notin FacadeOnlyPc /\ caller[x].holds /\ caller[x].on # None
    BY <1>1 DEF Saver, FacadeOnlyPc, RetirePc, Placed, HeldPc
  <1>4. CASE Goto(x, "reset")
    BY <1>1, <1>2, <1>3, <1>4, GotoQuiet DEF SessionPc, FacadeOnlyPc, CarryPc, RetirePc
  <1>5. CASE caller' = [caller EXCEPT ![x].pc = "reset", ![x].after = "failed"]
    <2>1. caller'[x] = [caller[x] EXCEPT !.pc = "reset", !.after = "failed"]
      BY <1>1, <1>5
    <2>2. caller'[x] \in CallRecord
      BY <1>1, <2>1 DEF CallRecord, SessionPc
    <2>3. /\ Only(x)
          /\ caller'[x].pc = "reset" /\ caller'[x].job = caller[x].job /\ caller'[x].on = caller[x].on
          /\ caller'[x].snap = caller[x].snap /\ caller'[x].holds = caller[x].holds
      BY <1>1, <1>5, <2>1, <2>2 DEF CallRecord, Only
    <2>4. Apart(x)'
      BY <1>2, <2>3, ApartMove
    <2>5. Placed(x)'
      BY <1>1, <1>3, <2>3, <2>4 DEF Placed, FacadeOnlyPc, HeldPc, CarryPc, RetirePc
    <2>6. /\ RetirerKnown(x)' /\ caller'[x].pc \notin CarryPc \cup {"register"} \cup RetirePc
          /\ ~Provisional(x)' /\ Comp(x)' = Comp(x) /\ (Undoing(x) => Undoing(x)')
      BY <2>3 DEF RetirerKnown, CarryPc, RetirePc, Provisional, Comp, Undoing
    <2>7. QED
      BY <1>2, <1>3, <2>3, <2>5, <2>6, QuietMove
  <1>6. QED
    BY <1>4, <1>5 DEF Destroy

\* Who reads the file carries, or does not carry, the token that is in it.
LEMMA LoadGo ==
  ASSUME RegistryInv, NEW x \in Caller, Steady(x), caller[x].pc = "load",
         UNCHANGED <<slot, coord, gateway, done, failures, facade>>,
         store # Empty, store.key = KeyOf(x),
         NEW pc \in {"diagnose", "final", "send", "askRevoke"}, NEW holds \in BOOLEAN,
         caller' = [caller EXCEPT ![x].pc = pc, ![x].snap = store, ![x].holds = holds],
         pc \in {"send", "askRevoke"} => holds,
         pc = "diagnose" => caller[x].job = "open", pc = "final" => caller[x].job = "authorize",
         pc = "send" => Refreshing(x)
  PROVE  RegistryInv'
  <1>1. ComponentTypeOK /\ CallInv(x) /\ caller \in [Caller -> CallRecord] /\ caller[x] \in CallRecord
        /\ store \in Snapshot /\ FileIssued /\ FileNewest /\ OneHolder
    BY Shapes DEF RegistryInv
  <1>2. UNCHANGED <<aliasKey, store, issued, live, lost, known, coord>>
    BY DEF slot, gateway, facade
  <1>3. caller'[x] = [caller[x] EXCEPT !.pc = pc, !.snap = store, !.holds = holds]
    BY <1>1
  <1>4. /\ Only(x)
        /\ caller'[x].pc = pc /\ caller'[x].job = caller[x].job /\ caller'[x].on = caller[x].on
        /\ caller'[x].snap = store /\ caller'[x].holds = holds
    <2>1. caller'[x] \in CallRecord
      BY <1>1, <1>3 DEF CallRecord, SessionPc, FacadePc
    <2>2. QED
      BY <1>1, <1>3, <2>1 DEF CallRecord, Only
  <1>5. caller[x].on # None /\ caller[x].holds
    BY <1>1 DEF CallInv, Placed, HeldPc, FacadeOnlyPc, RetirePc
  <1>6. Placed(x)'
    <2>1. Apart(x)'
      BY <1>4, ApartMove
    <2>2. QED
      BY <1>1, <1>4, <1>5, <2>1 DEF CallInv, Placed, FacadeOnlyPc, HeldPc, CarryPc, RetirePc, Refreshing
  <1>7. /\ KeyOf(x)' = KeyOf(x) /\ Comp(x)' = store.component /\ ~Provisional(x)'
        /\ (Refreshing(x)' <=> Refreshing(x))
    BY <1>2, <1>4, <1>5 DEF KeyOf, Comp, Provisional, Refreshing
  <1>8. store.key # None /\ store.component # None /\ issued[store.component] = store.key
    BY <1>1 DEF FileIssued
  <1>9. Issued(x)'
    BY <1>2, <1>4, <1>7, <1>8 DEF Issued, Refresher
  <1>10. OfFile(x)' /\ RetirerKnown(x)'
    BY <1>2, <1>4, <1>7, <1>8 DEF OfFile, RetirerKnown, RetirePc
  <1>11. TokenNewest(x)'
    <2>1. ASSUME aliasKey = KeyOf(x)
          PROVE  Newest(store.component, store.token)
      <3>1. ASSUME NEW y \in Caller, Saver(y), Comp(y) = store.component
            PROVE  FALSE
        <4>1. caller[y].holds /\ KeyOf(y) = issued[Comp(y)]
          BY <3>1 DEF RegistryInv, CallInv, Placed, HeldPc, CarryPc, Issued, Saver
        <4>2. y = x
          BY <1>1, <1>5, <1>8, <3>1, <4>1 DEF OneHolder
        <4>3. QED
          BY <3>1, <4>2 DEF Saver
      <3>2. QED
        BY <1>1, <2>1, <3>1 DEF FileNewest
    <2>2. QED
      BY <1>2, <1>4, <1>7, <2>1 DEF TokenNewest, Newest
  <1>12. CallInv(x)'
    BY <1>4, <1>6, <1>7, <1>9, <1>10, <1>11 DEF CallInv, SignerKept, Fresh, ReadClean
  <1>13. Advance(x)
    BY <1>4, <1>5, <1>7, <1>12 DEF Advance, Comp, InUse, Saver, Undoing, RetirePc
  <1>14. QED
    BY <1>13, EvolvesInv

LEMMA LoadInv ==
  ASSUME RegistryInv, NEW x \in Caller, Load(x), UNCHANGED facade
  PROVE  RegistryInv'
  <1> DEFINE Go(pc, holds) == caller' = [caller EXCEPT ![x].pc = pc, ![x].snap = store, ![x].holds = holds]
  <1>1. caller[x].pc = "load" /\ Placed(x)
    BY DEF Load, RegistryInv, CallInv
  <1>2. Steady(x)
    <2>1. store' \in {store, Empty} /\ aliasKey' \in {aliasKey, None} /\ (Fails \/ UNCHANGED failures)
          /\ UNCHANGED <<made, coord, gateway, done, facade>>
      BY DEF Load
    <2>2. QED
      BY <2>1, StillSteady
  <1>3. ~Saver(x) /\ caller[x].pc \notin FacadeOnlyPc /\ caller[x].holds
    BY <1>1 DEF Saver, FacadeOnlyPc, RetirePc, Placed, HeldPc
  <1>4. CASE Return(x)
    BY <1>1, <1>2, <1>3, <1>4, ReturnInv
  <1>5. CASE Evict(x)
    BY <1>1, <1>2, <1>3, <1>5, EvictInv
  <1>6. CASE caller[x].job = "open" /\ Goto(x, "undoStore")
    BY <1>1, <1>2, <1>3, <1>6, GotoQuiet DEF FacadePc, FacadeOnlyPc, CarryPc, HeldPc, RetirePc, Prov
  <1>7. ASSUME NEW pc \in {"destroy", "clear"}, Goto(x, pc)
        PROVE  RegistryInv'
    BY <1>1, <1>2, <1>3, <1>7, GotoQuiet DEF SessionPc, FacadeOnlyPc, CarryPc, RetirePc
  <1>8. CASE /\ store # Empty /\ store.key = KeyOf(x) /\ UNCHANGED <<store, failures>>
             /\ \/ caller[x].job = "open" /\ Go("diagnose", FALSE)
                \/ caller[x].job = "authorize" /\ Go("final", FALSE)
                \/ Refreshing(x) /\ Go("send", TRUE)
                \/ Go("askRevoke", TRUE)
    <2>1. UNCHANGED <<slot, coord, gateway, done, failures, facade>>
      BY <1>8 DEF Load, slot
    <2>2. QED
      BY <1>1, <1>2, <1>8, <2>1, LoadGo
  <1>9. QED
    BY <1>4, <1>5, <1>6, <1>7, <1>8 DEF Load

\* The key is in place, and the request or the save goes on.
LEMMA CarryMove ==
  ASSUME RegistryInv, NEW x \in Caller, Current(caller[x].on), NEW pc \in {"sent", "save"}, Goto(x, pc),
         caller[x].pc = IF pc = "sent" THEN "send" ELSE "preSave",
         UNCHANGED <<slot, coord, gateway, done, failures, facade>>
  PROVE  RegistryInv'
  <1>1. ComponentTypeOK /\ CallInv(x)
    BY DEF RegistryInv
  <1>2. UNCHANGED <<aliasKey, store, issued, live, lost, known, done, coord>>
    BY DEF slot, gateway, facade
  <1>3. Steady(x)
    BY <1>2, StillSteady DEF slot
  <1>4. /\ Only(x)
        /\ caller'[x].pc = pc /\ caller'[x].job = caller[x].job /\ caller'[x].on = caller[x].on
        /\ caller'[x].snap = caller[x].snap /\ caller'[x].holds = caller[x].holds
    BY <1>1, GotoShape DEF SessionPc
  <1>5. caller[x].on # None /\ caller[x].holds /\ caller[x].pc \in CarryPc /\ pc \in CarryPc
    BY <1>1 DEF CallInv, Placed, HeldPc, FacadeOnlyPc, RetirePc, CarryPc
  <1>6. Placed(x)'
    <2>1. Apart(x)'
      BY <1>3, <1>4, ApartMove
    <2>2. QED
      BY <1>1, <1>4, <1>5, <2>1 DEF CallInv, Placed, FacadeOnlyPc, HeldPc, CarryPc, RetirePc
  <1>7. /\ KeyOf(x)' = KeyOf(x) /\ Comp(x)' = Comp(x) /\ (Provisional(x)' <=> Provisional(x))
        /\ (Refresher(x)' <=> Refresher(x))
    BY <1>2, <1>4, <1>5 DEF KeyOf, Comp, Provisional, Refreshing, Refresher
  <1>8. SignerKept(x)' /\ aliasKey = KeyOf(x)
    BY <1>2, <1>4 DEF SignerKept, Current, KeyOf
  <1>9. Issued(x)'
    BY <1>1, <1>2, <1>4, <1>5, <1>7 DEF CallInv, Issued
  <1>10. Fresh(x)'
    BY <1>1, <1>2, <1>4, <1>7 DEF CallInv, Fresh, Only, Comp
  <1>11. OfFile(x)' /\ RetirerKnown(x)' /\ ReadClean(x)'
    BY <1>1, <1>2, <1>4, <1>7 DEF CallInv, OfFile, RetirerKnown, RetirePc, ReadClean
  <1>12. TokenNewest(x)'
    BY <1>1, <1>2, <1>4, <1>7, <1>8 DEF CallInv, TokenNewest, Newest
  <1>13. CallInv(x)'
    BY <1>6, <1>8, <1>9, <1>10, <1>11, <1>12 DEF CallInv
  <1>14. Advance(x)
    BY <1>4, <1>5, <1>7, <1>13 DEF Advance, Comp, InUse, Saver, Refreshing, Undoing, RetirePc
  <1>15. QED
    BY <1>3, <1>14, EvolvesInv

LEMMA SendInv ==
  ASSUME RegistryInv, NEW x \in Caller, Send(x), UNCHANGED facade
  PROVE  RegistryInv'
  <1>1. caller[x].pc = "send" /\ UNCHANGED <<slot, coord, gateway, done, failures, facade>>
    BY DEF Send
  <1>2. Steady(x)
    BY <1>1, StillSteady DEF slot
  <1>3. ~Saver(x) /\ caller[x].pc \notin FacadeOnlyPc
    BY <1>1 DEF Saver, FacadeOnlyPc, RetirePc
  <1>4. CASE Current(caller[x].on) /\ Goto(x, "sent")
    BY <1>1, <1>4, CarryMove
  <1>5. CASE Evict(x)
    BY <1>1, <1>2, <1>3, <1>5, EvictInv
  <1>6. CASE Return(x)
    BY <1>1, <1>2, <1>3, <1>6, ReturnInv
  <1>7. QED
    BY <1>4, <1>5, <1>6 DEF Send

\* A key that is not in place before the save was replaced: the file, if it is of the same
\* component, is of the key that is gone.
LEMMA CheckBeforeInv ==
  ASSUME RegistryInv, NEW x \in Caller, CheckBefore(x), UNCHANGED facade
  PROVE  RegistryInv'
  <1>1. caller[x].pc = "preSave" /\ UNCHANGED <<slot, coord, gateway, done, failures, facade>>
        /\ CallInv(x) /\ FileIssued
    BY DEF CheckBefore, RegistryInv
  <1>2. Steady(x)
    BY <1>1, StillSteady DEF slot
  <1>3. CASE Current(caller[x].on) /\ Goto(x, "save")
    BY <1>1, <1>3, CarryMove
  <1>4. CASE ~Current(caller[x].on) /\ Evict(x)
    <2>1. aliasKey # KeyOf(x)
      BY <1>1, <1>4 DEF CallInv, SignerKept, Current, KeyOf
    <2>2. Comp(x) # None /\ issued[Comp(x)] = KeyOf(x)
      BY <1>1 DEF CallInv, Issued, CarryPc
    <2>3. store.component # Comp(x) \/ store.key # aliasKey'
      BY <1>1, <2>1, <2>2, EmptyTyped DEF FileIssued, slot
    <2>4. QED
      BY <1>1, <1>2, <1>4, <2>3, EvictInv DEF FacadeOnlyPc, RetirePc
  <1>5. QED
    BY <1>3, <1>4 DEF CheckBefore

\* The save of a new token.
LEMMA Saved ==
  ASSUME RegistryInv, NEW x \in Caller, caller[x].pc = "save", store' = caller[x].snap, Goto(x, "postSave"),
         UNCHANGED <<aliasKey, made, coord, gateway, done, failures, facade>>
  PROVE  RegistryInv'
  <1>1. ComponentTypeOK /\ CallInv(x) /\ caller \in [Caller -> CallRecord] /\ \A y \in Caller : CallInv(y)
    BY Shapes DEF RegistryInv
  <1>2. UNCHANGED <<aliasKey, made, issued, live, lost, replayed, known, misnamed, registry, done, coord,
                    failures, crashes>>
    BY DEF gateway, facade
  <1>3. /\ Only(x)
        /\ caller'[x].pc = "postSave" /\ caller'[x].job = caller[x].job /\ caller'[x].on = caller[x].on
        /\ caller'[x].snap = caller[x].snap /\ caller'[x].holds = caller[x].holds
    BY <1>1, GotoShape DEF SessionPc
  <1>4. /\ caller[x].on # None /\ caller[x].holds /\ KeyOf(x) # None
        /\ caller[x].job \in {"provision", "authorize", "refresh"}
    BY <1>1 DEF CallInv, Placed, Apart, HeldPc, FacadeOnlyPc, RetirePc, CarryPc, KeyOf
  <1>5. Comp(x) # None /\ issued[Comp(x)] = KeyOf(x) /\ caller[x].snap.key = KeyOf(x)
        /\ Newest(Comp(x), caller[x].snap.token)
    BY <1>1 DEF CallInv, Issued, TokenNewest, CarryPc
  <1>6. store'.component = Comp(x) /\ store'.key = KeyOf(x) /\ store' # Empty
    BY <1>4, <1>5, EmptyTyped DEF Comp
  <1>7. \A y \in Caller : /\ caller'[y].job = caller[y].job /\ caller'[y].on = caller[y].on
                          /\ caller'[y].snap = caller[y].snap /\ caller'[y].holds = caller[y].holds
    BY <1>3 DEF Only
  <1>8. ASSUME NEW y \in Caller
        PROVE  /\ Comp(y)' = Comp(y) /\ KeyOf(y)' = KeyOf(y) /\ (Refresher(y)' <=> Refresher(y))
               /\ (y # x => (Provisional(y)' <=> Provisional(y)) /\ caller'[y].pc = caller[y].pc)
    <2>1. y # x => caller'[y] = caller[y]
      BY <1>3 DEF Only
    <2>2. Refresher(x)' <=> Refresher(x)
      BY <1>3 DEF Refresher, Refreshing, CarryPc
    <2>3. QED
      BY <1>2, <1>7, <2>1, <2>2 DEF Comp, KeyOf, Provisional, Refresher, Refreshing
  <1>9. ComponentTypeOK'
    <2>1. caller' \in [Caller -> CallRecord] /\ store' \in Snapshot
      BY <1>1, <1>3 DEF Only, CallRecord
    <2>2. QED
      BY <1>1, <2>1 DEF ComponentTypeOK, CallRecord, gateway, facade
  <1>10. ASSUME NEW y \in Caller
         PROVE  Placed(y)'
    <2>1. Apart(y)'
      BY <1>1, <1>2, <1>7, <1>8 DEF CallInv, Placed, Apart
    <2>2. CASE y = x
      BY <1>1, <1>3, <1>4, <2>1, <2>2 DEF CallInv, Placed, FacadeOnlyPc, HeldPc, CarryPc, RetirePc
    <2>3. CASE y # x
      BY <1>1, <1>3, <2>1, <2>3 DEF CallInv, Placed, Only
    <2>4. QED
      BY <2>2, <2>3
  \* Who provisions puts a new component to use: it is in no list.
  <1>11. ASSUME NEW c \in Component, InUse(c)', ~InUse(c)
         PROVE  c = Comp(x) /\ caller[x].job = "provision" /\ c \notin known \cup done
    <2>1. c = Comp(x)
      BY <1>6, <1>8, <1>11 DEF InUse
    <2>2. ~Refreshing(x)
      BY <1>11, <2>1 DEF InUse, Refresher, CarryPc
    <2>3. QED
      BY <1>1, <1>4, <2>1, <2>2 DEF Refreshing, CallInv, Fresh, Provisional
  <1>12. ASSUME NEW y \in Caller \ {x}
         PROVE  CallInv(y)'
    <2>1. caller'[y] = caller[y] /\ CallInv(y)
      BY <1>1, <1>3 DEF Only
    <2>2. SignerKept(y)' /\ Issued(y)' /\ RetirerKnown(y)' /\ TokenNewest(y)'
      BY <1>2, <1>8, <2>1 DEF CallInv, SignerKept, Issued, RetirerKnown, TokenNewest, Newest
    <2>3. Fresh(y)'
      BY <1>2, <1>6, <1>8, <2>1 DEF CallInv, Fresh
    <2>4. OfFile(y)'
      <3>1. Refresher(y) => caller[y].holds
        BY <2>1 DEF CallInv, Placed, Refresher, HeldPc
      <3>2. Refresher(y) => KeyOf(y) # KeyOf(x)
        BY <1>4, <3>1 DEF RegistryInv, OneHolder
      <3>3. QED
        BY <1>6, <1>8, <3>2 DEF OfFile
    <2>5. ReadClean(y)'
      <3>1. ASSUME caller[y].pc = "register"
            PROVE  \A c \in Component : InUse(c)' => InUse(c)
        <4>1. caller[y].job \in Prov
          BY <2>1, <3>1 DEF CallInv, Placed, Prov
        <4>2. caller[x].job # "provision"
          BY <2>1, <4>1 DEF CallInv, Placed, Apart, Prov
        <4>3. QED
          BY <1>11, <4>2
      <3>2. QED
        BY <1>2, <1>8, <2>1, <3>1 DEF CallInv, ReadClean
    <2>6. QED
      BY <1>10, <2>2, <2>3, <2>4, <2>5 DEF CallInv
  <1>13. CallInv(x)'
    <2>1. Issued(x)'
      BY <1>1, <1>2, <1>3, <1>5, <1>8 DEF CallInv, Issued
    <2>2. QED
      BY <1>3, <1>6, <1>8, <1>10, <2>1 DEF CallInv, SignerKept, Fresh, Provisional, RetirerKnown, RetirePc,
          OfFile, ReadClean, TokenNewest
  <1>14. OneHolder' /\ OneRetirer'
    BY <1>3, <1>7, <1>8 DEF RegistryInv, OneHolder, OneRetirer, RetirePc
  <1>15. KeysMade' /\ FileIssued' /\ ListsIssued' /\ EntryKnown'
    <2>1. caller[x].on \in Coord
      BY <1>1, <1>4 DEF CallRecord
    <2>2. KeyOf(x) \in made \cup {None}
      BY <2>1 DEF RegistryInv, KeysMade, KeyOf
    <2>3. KeysMade'
      BY <1>2, <1>6, <2>2 DEF RegistryInv, KeysMade
    <2>4. QED
      BY <1>2, <1>4, <1>5, <1>6, <2>3 DEF RegistryInv, FileIssued, ListsIssued, EntryKnown
  <1>16. KnownRegistered' /\ DoneGone'
    BY <1>1, <1>2, <1>11 DEF RegistryInv, KnownRegistered, DoneGone, ComponentTypeOK
  <1>17. FileNewest'
    BY <1>2, <1>5, <1>6 DEF FileNewest, Newest, Comp
  <1>18. RegisteredOrUndone'
    <2>1. CASE caller[x].job = "provision"
      BY <1>3, <2>1 DEF RegisteredOrUndone, Undoing, Undone
    <2>2. CASE caller[x].job # "provision"
      <3>1. caller[x].on \in Coord /\ coord[caller[x].on].given
        BY <1>1, <1>4, <2>2 DEF CallInv, Placed, Apart, Prov, CallRecord
      <3>2. KeyOf(x) = aliasKey => registry.key = aliasKey
        BY <3>1 DEF RegistryInv, EntryKnown, KeyOf
      <3>3. QED
        BY <1>2, <1>6, <3>2 DEF RegisteredOrUndone, Usable, InRegistry
    <2>3. QED
      BY <2>1, <2>2
  <1>19. ComponentReplayOnlyAfterLoss'
    BY <1>2 DEF RegistryInv, ComponentReplayOnlyAfterLoss
  <1>20. QED
    BY <1>9, <1>12, <1>13, <1>14, <1>15, <1>16, <1>17, <1>18, <1>19 DEF RegistryInv

LEMMA SaveInv ==
  ASSUME RegistryInv, NEW x \in Caller, Save(x), UNCHANGED facade
  PROVE  RegistryInv'
  <1>1. caller[x].pc = "save" /\ UNCHANGED <<aliasKey, made, coord, issued, revoked, live, replayed, done>>
    BY DEF Save
  <1>2. CASE store' = caller[x].snap /\ Goto(x, "postSave") /\ UNCHANGED <<failures, lost>>
    <2>1. UNCHANGED <<aliasKey, made, coord, gateway, done, failures, facade>>
      BY <1>1, <1>2 DEF gateway
    <2>2. QED
      BY <1>1, <1>2, <2>1, Saved
  <1>3. CASE Fails /\ Return(x) /\ lost' = lost \cup {caller[x].snap.component} /\ UNCHANGED store
    <2>1. caller[x] \in CallRecord /\ ComponentTypeOK /\ Comp(x) # None
      BY <1>1, Shapes DEF RegistryInv, CallInv, Issued, CarryPc
    <2>2. lost \subseteq lost' /\ lost' \subseteq Component /\ Comp(x) \in lost'
      BY <1>3, <2>1 DEF CallRecord, Snapshot, Comp, ComponentTypeOK
    <2>3. Steady(x)
      BY <1>1, <1>3, <2>1, <2>2, LosingSteady DEF slot, facade, ComponentTypeOK
    <2>4. QED
      BY <1>1, <1>3, <2>2, <2>3, ReturnInv
  <1>4. QED
    BY <1>2, <1>3 DEF Save

\* The gateway's answer.
LEMMA AnswerSteady ==
  ASSUME RegistryInv, NEW x \in Caller,
         UNCHANGED <<slot, coord, issued, revoked, done, failures, facade>>,
         lost \subseteq lost', lost' \subseteq Component,
         live' \in [Component -> 0 .. MaximumToken],
         \A c \in Component, token \in Nat : Newest(c, token) => Newest(c, token)' \/ (Renews(x) /\ c = Comp(x)),
         replayed' \subseteq Component, replayed' \subseteq replayed \cup lost'
  PROVE  Steady(x)
  <1>1. ComponentTypeOK /\ \A y \in Caller : SignerKept(y)
    BY DEF RegistryInv, CallInv
  <1>2. failures' \in 0 .. MaximumFailures /\ failures <= failures'
    BY <1>1, ComponentAssumption DEF ComponentTypeOK
  <1>3. coord' \in [Coord -> CoordRecord]
    BY <1>1, Shapes
  <1>4. QED
    BY <1>1, <1>2, <1>3 DEF Steady, SignerKept, slot, facade, ComponentTypeOK

\* The new token of an answer is the one the gateway accepts from now on.
LEMMA Renewed ==
  ASSUME RegistryInv, NEW x \in Caller, caller[x].pc = "sent", Honours(x),
         UNCHANGED <<slot, coord, issued, revoked, lost, replayed, done, failures, facade>>,
         live' = [live EXCEPT ![Comp(x)] = @ + 1],
         caller' = [caller EXCEPT ![x].pc = "preSave",
                        ![x].snap = [key |-> KeyOf(x), component |-> Comp(x), token |-> live[Comp(x)] + 1]]
  PROVE  RegistryInv'
  <1>1. ComponentTypeOK /\ CallInv(x) /\ caller \in [Caller -> CallRecord] /\ caller[x] \in CallRecord
        /\ coord \in [Coord -> CoordRecord] /\ live \in [Component -> 0 .. MaximumToken]
    BY Shapes DEF RegistryInv, ComponentTypeOK
  <1>2. UNCHANGED <<aliasKey, store, issued, lost, known, done, coord>>
    BY DEF slot, facade
  <1>3. Comp(x) # None /\ issued[Comp(x)] = KeyOf(x) /\ Comp(x) \in Component
    BY <1>1 DEF CallInv, Issued, CarryPc, CallRecord, Snapshot, Comp
  <1>4. caller[x].on \in Coord /\ caller[x].holds /\ caller[x].job \in {"provision", "authorize", "refresh"}
    BY <1>1 DEF CallInv, Placed, HeldPc, FacadeOnlyPc, RetirePc, CarryPc, CallRecord
  <1>5. KeyOf(x) # None /\ KeyOf(x) \in Key \cup {None}
    BY <1>1, <1>4 DEF CallInv, Placed, Apart, KeyOf, CoordRecord
  <1> DEFINE snap == [key |-> KeyOf(x), component |-> Comp(x), token |-> live[Comp(x)] + 1]
  <1>6. snap \in Snapshot /\ live[Comp(x)] + 1 \in 0 .. MaximumToken
    BY <1>1, <1>3, <1>5, ComponentAssumption DEF Snapshot, Honours, Comp
  <1>7. /\ snap.key = KeyOf(x) /\ snap.component = Comp(x) /\ snap.token = live[Comp(x)] + 1
    OBVIOUS
  <1>8. caller'[x] = [caller[x] EXCEPT !.pc = "preSave", !.snap = snap]
    BY <1>1
  <1> HIDE DEF snap
  <1>9. /\ Only(x)
        /\ caller'[x].pc = "preSave" /\ caller'[x].job = caller[x].job /\ caller'[x].on = caller[x].on
        /\ caller'[x].snap = snap /\ caller'[x].holds = caller[x].holds
    <2>1. caller'[x] \in CallRecord
      BY <1>1, <1>6, <1>8 DEF CallRecord, SessionPc
    <2>2. \A y \in Caller \ {x} : caller'[y] = caller[y]
      BY <1>1
    <2>3. caller' \in [Caller -> CallRecord]
      BY <1>1, <2>1, <2>2
    <2>4. QED
      BY <1>1, <1>8, <2>2, <2>3 DEF CallRecord, Only
  <1>10. /\ KeyOf(x)' = KeyOf(x) /\ Comp(x)' = Comp(x) /\ (Provisional(x)' <=> Provisional(x))
         /\ (Refresher(x)' <=> Refresher(x)) /\ Renews(x) /\ (Refreshing(x)' <=> Refreshing(x))
    BY <1>2, <1>7, <1>9 DEF KeyOf, Comp, Provisional, Refreshing, Refresher, CarryPc, Renews
  <1>11. live' \in [Component -> 0 .. MaximumToken] /\ live'[Comp(x)] = live[Comp(x)] + 1
         /\ \A c \in Component \ {Comp(x)} : live'[c] = live[c]
    BY <1>1, <1>3, <1>6
  <1>12. Steady(x)
    <2>1. \A c \in Component, token \in Nat : Newest(c, token) => Newest(c, token)' \/ (Renews(x) /\ c = Comp(x))
      BY <1>2, <1>10, <1>11 DEF Newest
    <2>2. lost \subseteq lost' /\ lost' \subseteq Component /\ replayed' \subseteq Component
          /\ replayed' \subseteq replayed \cup lost'
      BY <1>1 DEF ComponentTypeOK
    <2>3. QED
      BY <1>11, <2>1, <2>2, AnswerSteady
  <1>13. Placed(x)'
    <2>1. Apart(x)'
      BY <1>9, <1>12, ApartMove
    <2>2. QED
      BY <1>1, <1>4, <1>9, <2>1 DEF CallInv, Placed, FacadeOnlyPc, HeldPc, CarryPc, RetirePc
  <1>14. Issued(x)'
    BY <1>1, <1>2, <1>3, <1>7, <1>9, <1>10 DEF CallInv, Issued
  <1>15. Fresh(x)'
    <2>1. \A y \in Caller \ {x} : Comp(y)' = Comp(y)
      BY <1>9 DEF Only, Comp
    <2>2. QED
      BY <1>1, <1>2, <1>10, <2>1 DEF CallInv, Fresh
  <1>16. SignerKept(x)' /\ OfFile(x)' /\ RetirerKnown(x)' /\ ReadClean(x)'
    BY <1>1, <1>2, <1>9, <1>10 DEF CallInv, SignerKept, OfFile, RetirerKnown, RetirePc, ReadClean
  <1>17. TokenNewest(x)'
    BY <1>7, <1>9, <1>10, <1>11 DEF TokenNewest, Newest
  <1>18. CallInv(x)'
    BY <1>13, <1>14, <1>15, <1>16, <1>17 DEF CallInv
  <1>19. Advance(x)
    BY <1>4, <1>9, <1>10, <1>18 DEF Advance, Comp, InUse, Saver, Undoing, RetirePc
  <1>20. QED
    BY <1>12, <1>19, EvolvesInv

LEMMA AnsweredInv ==
  ASSUME RegistryInv, NEW x \in Caller, Answered(x), UNCHANGED facade
  PROVE  RegistryInv'
  <1> DEFINE c == Comp(x)
             Spent == Refreshing(x) /\ live[c] # 0 /\ live[c] # caller[x].snap.token
  <1>1. caller[x].pc = "sent" /\ UNCHANGED <<slot, coord, issued, revoked, done, failures, facade>>
    BY DEF Answered
  <1>2. ComponentTypeOK /\ CallInv(x) /\ caller \in [Caller -> CallRecord] /\ caller[x] \in CallRecord
        /\ live \in [Component -> 0 .. MaximumToken] /\ lost \subseteq Component /\ replayed \subseteq Component
    BY Shapes DEF RegistryInv, ComponentTypeOK
  <1>3. c # None /\ c \in Component
    BY <1>1, <1>2 DEF CallInv, Issued, CarryPc, CallRecord, Snapshot, Comp
  <1>4. ~Saver(x) /\ caller[x].pc \notin FacadeOnlyPc /\ caller[x].holds
    BY <1>1, <1>2 DEF Saver, FacadeOnlyPc, RetirePc, CallInv, Placed, HeldPc, CarryPc
  <1>5. CASE /\ Honours(x)
             /\ live' = [live EXCEPT ![c] = @ + 1]
             /\ caller' = [caller EXCEPT ![x].pc = "preSave",
                              ![x].snap = [key |-> KeyOf(x), component |-> c, token |-> live[c] + 1]]
             /\ UNCHANGED <<lost, replayed>>
    BY <1>1, <1>5, Renewed
  <1>6. CASE /\ Honours(x)
             /\ live' = [live EXCEPT ![c] = @ + 1]
             /\ Return(x) /\ lost' = lost \cup {c} /\ replayed' = replayed
    <2>1. live' \in [Component -> 0 .. MaximumToken] /\ \A d \in Component \ {c} : live'[d] = live[d]
      BY <1>2, <1>3, <1>6, ComponentAssumption DEF Honours, Comp
    <2>2. \A d \in Component, token \in Nat : Newest(d, token) => Newest(d, token)'
      BY <1>6, <2>1 DEF Newest
    <2>3. Steady(x)
      BY <1>1, <1>2, <1>3, <1>6, <2>1, <2>2, AnswerSteady
    <2>4. QED
      BY <1>1, <1>4, <1>6, <2>3, ReturnInv
  <1>7. CASE Goto(x, "destroy") /\ UNCHANGED <<live, lost, replayed>>
    <2>1. Steady(x)
      BY <1>1, <1>2, <1>7, AnswerSteady DEF Newest
    <2>2. QED
      BY <1>1, <1>4, <1>7, <2>1, GotoQuiet DEF SessionPc, FacadeOnlyPc, CarryPc, RetirePc
  <1>8. CASE /\ Refreshing(x)
             /\ replayed' = IF Spent THEN replayed \cup {c} ELSE replayed
             /\ live' = [live EXCEPT ![c] = 0]
             /\ Goto(x, "clear") /\ lost' = lost
    <2>1. live' \in [Component -> 0 .. MaximumToken] /\ live'[c] = 0 /\ \A d \in Component \ {c} : live'[d] = live[d]
      BY <1>2, <1>3, <1>8, ComponentAssumption
    <2>2. \A d \in Component, token \in Nat : Newest(d, token) => Newest(d, token)'
      BY <1>8, <2>1 DEF Newest
    <2>3. Spent => c \in lost
      BY <1>1, <1>2 DEF CallInv, TokenNewest, Newest, Refresher, CarryPc
    <2>4. Steady(x)
      BY <1>1, <1>2, <1>3, <1>8, <2>1, <2>2, <2>3, AnswerSteady
    <2>5. QED
      BY <1>1, <1>4, <1>8, <2>4, GotoQuiet DEF SessionPc, FacadeOnlyPc, CarryPc, RetirePc
  <1>9. CASE Return(x) /\ UNCHANGED <<live, lost, replayed>>
    <2>1. Steady(x)
      BY <1>1, <1>2, <1>9, AnswerSteady DEF Newest
    <2>2. QED
      BY <1>1, <1>4, <1>9, <2>1, ReturnInv
  <1>10. QED
    BY <1>5, <1>6, <1>7, <1>8, <1>9 DEF Answered, Comp

\* The reset of a signer leaves the key of its coordinator and the other coordinators alone.
LEMMA SignerReset ==
  ASSUME coord \in [Coord -> CoordRecord], NEW n \in Coord,
         \/ coord' = [coord EXCEPT ![n].invalidated = TRUE]
         \/ coord' = [coord EXCEPT ![n].invalidated = TRUE, ![n].retired = TRUE]
  PROVE  /\ coord' \in [Coord -> CoordRecord]
         /\ \A m \in Coord : coord'[m].key = coord[m].key /\ coord'[m].given = coord[m].given
                             /\ (m # n => coord'[m].invalidated = coord[m].invalidated)
         /\ coord'[n].invalidated
  <1>1. coord'[n] = [coord[n] EXCEPT !.invalidated = TRUE]
        \/ coord'[n] = [coord[n] EXCEPT !.invalidated = TRUE, !.retired = TRUE]
    <2>1. CASE coord' = [coord EXCEPT ![n].invalidated = TRUE]
      BY <2>1
    <2>2. CASE coord' = [coord EXCEPT ![n].invalidated = TRUE, ![n].retired = TRUE]
      BY <2>2
    <2>3. QED
      BY <2>1, <2>2
  <1>2. \A m \in Coord \ {n} : coord'[m] = coord[m]
    OBVIOUS
  <1>3. coord[n] \in CoordRecord
    OBVIOUS
  <1>4. coord'[n] \in CoordRecord /\ coord'[n].key = coord[n].key /\ coord'[n].given = coord[n].given
        /\ coord'[n].invalidated
    BY <1>1, <1>3 DEF CoordRecord
  <1>5. coord' \in [Coord -> CoordRecord]
    BY <1>2, <1>4
  <1>6. QED
    BY <1>2, <1>4, <1>5

\* A coordinator is retired by who holds its lock.
LEMMA ResetInv ==
  ASSUME RegistryInv, NEW x \in Caller, Reset(x), UNCHANGED facade
  PROVE  RegistryInv'
  <1>1. caller[x].pc = "reset" /\ Return(x) /\ UNCHANGED <<made, store, gateway, facade>>
    BY DEF Reset
  <1>2. ComponentTypeOK /\ CallInv(x) /\ caller \in [Caller -> CallRecord] /\ coord \in [Coord -> CoordRecord]
    BY Shapes DEF RegistryInv
  <1>3. caller[x].holds /\ caller[x].on \in Coord
    BY <1>1, <1>2 DEF CallInv, Placed, HeldPc, FacadeOnlyPc, RetirePc, CallRecord
  <1>4. /\ coord' \in [Coord -> CoordRecord]
        /\ \A n \in Coord : coord'[n].key = coord[n].key /\ coord'[n].given = coord[n].given
                            /\ (n # caller[x].on => coord'[n].invalidated = coord[n].invalidated)
    BY <1>2, <1>3, SignerReset DEF Reset
  <1>5. \A y \in Caller \ {x} : caller[y].pc \in {"sent", "preSave"} => ~coord'[caller[y].on].invalidated
    <2>1. ASSUME NEW y \in Caller \ {x}, caller[y].pc \in {"sent", "preSave"}
          PROVE  ~coord'[caller[y].on].invalidated
      <3>1. CallInv(y)
        BY DEF RegistryInv
      <3>2. caller[y].holds /\ caller[y].on \in Coord /\ ~coord[caller[y].on].invalidated
        BY <1>2, <2>1, <3>1 DEF CallInv, Placed, SignerKept, HeldPc, CarryPc, FacadeOnlyPc, RetirePc, CallRecord
      <3>3. caller[y].on # caller[x].on
        BY <1>3, <3>2 DEF RegistryInv, OneHolder, KeyOf
      <3>4. QED
        BY <1>4, <3>2, <3>3
    <2>2. QED
      BY <2>1
  <1>6. aliasKey' \in {aliasKey, None}
    BY DEF Reset, WithoutKey
  <1>7. \A c \in done' \ done : MayBeDone(x, c)
    <2>1. ASSUME NEW c \in done' \ done
          PROVE  MayBeDone(x, c)
      <3>1. c = Comp(x) /\ c # None /\ aliasKey' = WithoutKey(KeyOf(x))
        BY <2>1 DEF Reset, Comp
      <3>2. c \in Component
        BY <1>2, <3>1 DEF CallRecord, Snapshot, Comp
      <3>3. issued[c] # None
        BY <1>2, <3>1 DEF CallInv, Issued
      <3>4. issued[c] # aliasKey'
        BY <1>2, <1>3, <3>1, <3>3, ComponentAssumption DEF CallInv, Issued, WithoutKey
      <3>5. \A y \in Caller : Provisional(y) /\ y # x => Comp(y) # c
        BY <3>1 DEF RegistryInv, CallInv, Fresh
      <3>6. QED
        BY <3>2, <3>3, <3>4, <3>5 DEF MayBeDone
    <2>2. QED
      BY <2>1
  <1>8. Steady(x)
    <2>1. failures' \in 0 .. MaximumFailures /\ failures <= failures'
      BY <1>2, ComponentAssumption DEF Reset, Fails, ComponentTypeOK
    <2>2. done \subseteq done'
      BY DEF Reset
    <2>3. QED
      BY <1>1, <1>2, <1>4, <1>5, <1>6, <1>7, <2>1, <2>2 DEF Steady, gateway, facade, ComponentTypeOK, Newest
  <1>9. QED
    BY <1>1, <1>8, ReturnInv DEF Saver

\* A provisioning that could not be registered is rescinded, an opening is undone.
LEMMA UnregisteredInv ==
  ASSUME RegistryInv, NEW x \in Caller, Steady(x), Unregistered(x), caller[x].pc \in {"diagnose", "register"}
  PROVE  RegistryInv'
  <1>1. ComponentTypeOK /\ CallInv(x) /\ caller \in [Caller -> CallRecord] /\ caller[x] \in CallRecord
    BY Shapes DEF RegistryInv
  <1>2. caller[x].on # None /\ caller[x].job \in {"provision", "open"} /\ ~Saver(x)
        /\ caller[x].pc \notin FacadeOnlyPc
    BY <1>1 DEF CallInv, Placed, FacadeOnlyPc, RetirePc, Saver
  <1>3. CASE caller[x].job = "provision"
    <2>1. caller' = [caller EXCEPT ![x].job = "rescind", ![x].pc = "lock"]
      BY <1>3 DEF Unregistered
    <2>2. caller'[x] = [caller[x] EXCEPT !.job = "rescind", !.pc = "lock"]
      BY <1>1, <2>1
    <2>3. caller'[x] \in CallRecord
      BY <1>1, <2>2 DEF CallRecord, Job, SessionPc
    <2>4. /\ Only(x)
          /\ caller'[x].pc = "lock" /\ caller'[x].job = "rescind" /\ caller'[x].on = caller[x].on
          /\ caller'[x].snap = caller[x].snap /\ caller'[x].holds = caller[x].holds
      BY <1>1, <2>1, <2>2, <2>3 DEF CallRecord, Only
    <2>5. Apart(x)'
      BY <1>3, <2>4, ApartMove DEF Prov
    <2>6. Placed(x)'
      BY <1>1, <1>2, <2>4, <2>5 DEF CallInv, Placed, FacadeOnlyPc, HeldPc, CarryPc, RetirePc
    <2>7. /\ RetirerKnown(x)' /\ caller'[x].pc \notin CarryPc \cup {"register"} \cup RetirePc
          /\ ~Provisional(x)' /\ Comp(x)' = Comp(x) /\ Undoing(x)' /\ caller[x].job \in Prov
      BY <1>3, <2>4 DEF RetirerKnown, CarryPc, RetirePc, Provisional, Comp, Undoing, Undone, Prov
    <2>8. QED
      BY <1>2, <2>4, <2>6, <2>7, QuietMove
  <1>4. CASE caller[x].job = "open"
    <2>1. Goto(x, "undoStore")
      BY <1>4 DEF Unregistered
    <2>2. QED
      BY <1>1, <1>2, <1>4, <2>1, GotoQuiet DEF FacadePc, FacadeOnlyPc, CarryPc, HeldPc, RetirePc, Prov
  <1>5. QED
    BY <1>2, <1>3, <1>4

\* The file that is read when no other component of the key is in use.
LEMMA DiagnosedInv ==
  ASSUME RegistryInv, NEW x \in Caller, caller[x].pc = "diagnose", store # Empty,
         caller' = [caller EXCEPT ![x].pc = "register", ![x].snap = store],
         UNCHANGED <<slot, coord, gateway, done, failures, facade>>
  PROVE  RegistryInv'
  <1>1. ComponentTypeOK /\ CallInv(x) /\ caller \in [Caller -> CallRecord] /\ caller[x] \in CallRecord
        /\ store \in Snapshot /\ FileIssued
    BY Shapes DEF RegistryInv
  <1>2. UNCHANGED <<aliasKey, store, issued, known, coord>>
    BY DEF slot, gateway, facade
  <1>3. Steady(x)
    BY <1>2, StillSteady DEF slot
  <1>4. caller'[x] = [caller[x] EXCEPT !.pc = "register", !.snap = store]
    BY <1>1
  <1>5. /\ Only(x)
        /\ caller'[x].pc = "register" /\ caller'[x].job = caller[x].job /\ caller'[x].on = caller[x].on
        /\ caller'[x].snap = store /\ caller'[x].holds = caller[x].holds
    <2>1. caller'[x] \in CallRecord
      BY <1>1, <1>4 DEF CallRecord, FacadePc
    <2>2. QED
      BY <1>1, <1>4, <2>1 DEF CallRecord, Only
  <1>6. caller[x].on # None /\ caller[x].job \in {"provision", "open"}
    BY <1>1 DEF CallInv, Placed, FacadeOnlyPc, RetirePc
  <1>7. Placed(x)'
    <2>1. Apart(x)'
      BY <1>3, <1>5, ApartMove
    <2>2. QED
      BY <1>1, <1>5, <1>6, <2>1 DEF CallInv, Placed, FacadeOnlyPc, HeldPc, CarryPc, RetirePc
  <1>8. KeyOf(x)' = KeyOf(x) /\ Comp(x)' = store.component /\ ~Provisional(x)' /\ ~Refresher(x)'
        /\ ~Refresher(x)
    BY <1>2, <1>5, <1>6 DEF KeyOf, Comp, Provisional, Refresher, CarryPc
  <1>9. store.key # None /\ store.component # None /\ issued[store.component] = store.key
    BY <1>1 DEF FileIssued
  <1>10. Issued(x)'
    <2>1. aliasKey \in {KeyOf(x), None}
      BY <1>1, <1>6 DEF CallInv, Placed, Apart, Prov
    <2>2. QED
      BY <1>2, <1>5, <1>8, <1>9, <2>1 DEF Issued, CarryPc
  <1>11. ReadClean(x)'
    <2>1. ASSUME store.key = KeyOf(x), NEW c \in Component, InUse(c)', issued[c] = KeyOf(x)
          PROVE  c = store.component
      <3>1. ASSUME NEW y \in Caller, Refresher(y)', Comp(y)' = c
            PROVE  c = store.component
        <4>1. y # x /\ Refresher(y) /\ Comp(y) = c
          BY <1>5, <1>8, <3>1 DEF Only, Refresher, Refreshing, Comp
        <4>2. KeyOf(y) = issued[c]
          BY <4>1 DEF RegistryInv, CallInv, Issued, Refresher
        <4>3. OfFile(y)
          BY DEF RegistryInv, CallInv
        <4>4. QED
          BY <2>1, <4>1, <4>2, <4>3 DEF OfFile
      <3>2. QED
        BY <1>2, <2>1, <3>1 DEF InUse
    <2>2. QED
      BY <1>2, <1>5, <1>8, <1>9, <2>1 DEF ReadClean
  <1>12. CallInv(x)'
    BY <1>5, <1>7, <1>8, <1>10, <1>11 DEF CallInv, SignerKept, Fresh, RetirerKnown, RetirePc, OfFile, TokenNewest
  <1>13. Advance(x)
    BY <1>1, <1>5, <1>8, <1>12 DEF Advance, CallInv, Placed, Comp, Saver, Undoing, RetirePc
  <1>14. QED
    BY <1>3, <1>13, EvolvesInv

LEMMA DiagnoseInv ==
  ASSUME RegistryInv, NEW x \in Caller, Diagnose(x)
  PROVE  RegistryInv'
  <1>1. caller[x].pc = "diagnose" /\ UNCHANGED <<slot, gateway, done, failures, facade>> /\ coord' = coord
    BY DEF Diagnose, Unregistered
  <1>2. Steady(x)
    BY <1>1, StillSteady DEF slot
  <1>3. CASE store # Empty /\ caller' = [caller EXCEPT ![x].pc = "register", ![x].snap = store]
    BY <1>1, <1>3, DiagnosedInv
  <1>4. CASE Unregistered(x)
    BY <1>1, <1>2, <1>4, UnregisteredInv
  <1>5. CASE Return(x)
    BY <1>1, <1>2, <1>5, ReturnInv DEF Saver
  <1>6. QED
    BY <1>3, <1>4, <1>5 DEF Diagnose

\* The undoing of a provisioning or opening.
LEMMA UndoStoreInv ==
  ASSUME RegistryInv, NEW x \in Caller, UndoStore(x)
  PROVE  RegistryInv'
  <1>1. ComponentTypeOK /\ Placed(x) /\ caller[x].pc = "undoStore"
    BY DEF RegistryInv, CallInv, UndoStore
  <1>2. Steady(x)
    <2>1. store' \in {store, Empty} /\ aliasKey' \in {aliasKey, None} /\ (Fails \/ UNCHANGED failures)
          /\ UNCHANGED <<made, coord, gateway, done, facade>>
      BY DEF UndoStore
    <2>2. QED
      BY <2>1, StillSteady
  <1>3. /\ Only(x)
        /\ caller'[x].pc = "undoKey" /\ caller'[x].job = caller[x].job /\ caller'[x].on = caller[x].on
        /\ caller'[x].snap = caller[x].snap /\ caller'[x].holds = FALSE
    BY <1>1, EnterShape DEF UndoStore, FacadePc
  <1>4. Placed(x)'
    <2>1. Apart(x)'
      BY <1>2, <1>3, ApartMove
    <2>2. QED
      BY <1>1, <1>3, <2>1 DEF Placed, FacadeOnlyPc, HeldPc, CarryPc, RetirePc
  <1>5. /\ RetirerKnown(x)' /\ caller'[x].pc \notin CarryPc \cup {"register"} \cup RetirePc
        /\ ~Provisional(x)' /\ Comp(x)' = Comp(x) /\ ~Saver(x)
    BY <1>1, <1>3 DEF RetirerKnown, CarryPc, RetirePc, Provisional, Comp, Saver
  <1>6. Undoing(x) => Undoing(x)' \/ store' = Empty
    BY <1>1, <1>3, ComponentAssumption DEF Undoing, UndoStore, Fails, ComponentTypeOK
  <1>7. QED
    BY <1>2, <1>3, <1>4, <1>5, <1>6, QuietMove

LEMMA UndoKeyInv ==
  ASSUME RegistryInv, NEW x \in Caller, UndoKey(x)
  PROVE  RegistryInv'
  <1>1. ComponentTypeOK /\ CallInv(x) /\ caller[x].pc = "undoKey" /\ caller \in [Caller -> CallRecord]
        /\ coord \in [Coord -> CoordRecord] /\ FileIssued
    BY Shapes DEF RegistryInv, UndoKey
  <1>2. caller[x].job \in Prov /\ caller[x].on \in Coord /\ Apart(x)
    BY <1>1 DEF CallInv, Placed, Apart, CallRecord
  <1>3. /\ coord' \in [Coord -> CoordRecord]
        /\ \A n \in Coord : coord'[n].key = coord[n].key /\ coord'[n].given = coord[n].given
                            /\ (n # caller[x].on => coord'[n].invalidated = coord[n].invalidated)
    BY <1>1, <1>2, SignerReset DEF UndoKey
  <1>4. \A y \in Caller \ {x} : caller[y].pc \in {"sent", "preSave"} => ~coord'[caller[y].on].invalidated
    <2>1. ASSUME NEW y \in Caller \ {x}, caller[y].pc \in {"sent", "preSave"}
          PROVE  ~coord'[caller[y].on].invalidated
      <3>1. caller[y].on \in Coord /\ ~coord[caller[y].on].invalidated
        BY <1>1, <2>1 DEF RegistryInv, CallInv, Placed, SignerKept, FacadeOnlyPc, RetirePc, CallRecord
      <3>2. caller[y].on # caller[x].on
        BY <1>2 DEF Apart
      <3>3. QED
        BY <1>3, <3>1, <3>2
    <2>2. QED
      BY <2>1
  <1>5. aliasKey' \in {aliasKey, None} /\ UNCHANGED <<made, store, gateway, done, facade>>
    BY DEF UndoKey, WithoutKey
  <1>6. Steady(x)
    <2>1. failures' \in 0 .. MaximumFailures /\ failures <= failures'
      BY <1>1, ComponentAssumption DEF UndoKey, Fails, ComponentTypeOK
    <2>2. QED
      BY <1>1, <1>3, <1>4, <1>5, <2>1 DEF Steady, gateway, facade, ComponentTypeOK, Newest
  <1>7. Idle \in CallRecord
    BY EmptyTyped DEF CallRecord, Idle, Job
  <1>8. Only(x) /\ caller'[x] = Idle
    BY <1>1, <1>7 DEF UndoKey, Only
  <1>9. caller'[x].pc = "idle" /\ caller'[x].job = "none" /\ caller'[x].on = None
        /\ caller'[x].snap.component = None /\ caller'[x].holds = FALSE
    BY <1>8, EmptyTyped DEF Idle
  <1>10. Placed(x)'
    <2>1. Apart(x)'
      BY <1>6, <1>8, <1>9, ApartMove DEF Prov
    <2>2. QED
      BY <1>9, <2>1 DEF Placed, FacadeOnlyPc, HeldPc, CarryPc, RetirePc, Prov
  <1>11. RetirerKnown(x)' /\ caller'[x].pc \notin CarryPc \cup {"register"} \cup RetirePc
         /\ ~Provisional(x)' /\ Comp(x)' = None /\ caller'[x].job \notin Prov /\ ~Saver(x)
    BY <1>1, <1>9 DEF RetirerKnown, RetirePc, CarryPc, Provisional, Comp, Prov, Saver
  <1>12. Undoing(x) => failures' > 1 \/ store' = Empty \/ store.key # aliasKey'
    <2>1. CASE aliasKey' = WithoutKey(KeyOf(x))
      <3>1. aliasKey' = None
        BY <1>2, <2>1 DEF Apart, WithoutKey
      <3>2. QED
        BY <1>1, <1>5, <3>1 DEF FileIssued
    <2>2. CASE Fails
      BY <1>1, <2>2, ComponentAssumption DEF Undoing, Fails, ComponentTypeOK
    <2>3. QED
      BY <2>1, <2>2 DEF UndoKey
  <1>13. QED
    BY <1>6, <1>8, <1>9, <1>10, <1>11, <1>12, QuietMove

\* A coroutine that works on no coordinator begins a revocation, or goes on with it.
LEMMA FacadeMove ==
  ASSUME RegistryInv, NEW x \in Caller, Steady(x), Only(x),
         caller[x].on = None, caller'[x].on = None, caller'[x].holds = FALSE,
         caller'[x].job \notin Prov, caller'[x].pc \in FacadeOnlyPc \ {"idle"},
         Comp(x)' \in known \cup {None, Comp(x)}, RetirerKnown(x)',
         caller'[x].pc \in RetirePc => caller[x].pc \in RetirePc \/ RegistryLockFree
  PROVE  RegistryInv'
  <1>1. Placed(x)
    BY DEF RegistryInv, CallInv
  <1>2. Apart(x)'
    BY ApartMove
  <1>3. Placed(x)'
    BY <1>2 DEF Placed, FacadeOnlyPc, HeldPc, CarryPc, RetirePc, Prov
  <1>4. caller'[x].pc \notin CarryPc \cup {"register"} /\ ~Provisional(x)' /\ ~Saver(x) /\ ~Undoing(x)
    BY <1>1 DEF FacadeOnlyPc, RetirePc, CarryPc, Provisional, Prov, Saver, Undoing, Undone, Placed, Apart
  <1>5. QED
    BY <1>3, <1>4, QuietMove

LEMMA RevokeComponentInv ==
  ASSUME RegistryInv, NEW x \in Caller, NEW c \in Component, RevokeComponent(x, c)
  PROVE  RegistryInv'
  <1>1. ComponentTypeOK /\ caller \in [Caller -> CallRecord] /\ caller[x] = Idle /\ c \in known
        /\ UNCHANGED <<slot, coord, gateway, done, failures, facade>>
    BY Shapes DEF RegistryInv, RevokeComponent
  <1>2. Steady(x)
    BY <1>1, StillSteady DEF slot
  <1>3. caller' = [caller EXCEPT ![x] = [Idle EXCEPT !.job = "revokeById", !.pc = "askById",
                                                     !.snap.component = c]]
    BY DEF RevokeComponent
  <1> DEFINE call == [Idle EXCEPT !.job = "revokeById", !.pc = "askById", !.snap.component = c]
  <1>4. /\ call \in CallRecord /\ call.pc = "askById" /\ call.on = None /\ call.holds = FALSE
        /\ call.job = "revokeById" /\ call.snap.component = c
    BY EmptyTyped DEF CallRecord, Idle, Empty, Snapshot, Job, FacadePc
  <1> HIDE DEF call
  <1>5. Only(x) /\ caller'[x] = call
    BY <1>1, <1>3, <1>4 DEF Only, call
  <1>6. Comp(x)' = c /\ c # None /\ caller[x].on = None
    BY <1>1, <1>4, <1>5, ComponentAssumption DEF Comp, Idle
  <1>7. RetirerKnown(x)'
    BY <1>1, <1>4, <1>5, <1>6 DEF RetirerKnown, RetirePc, facade
  <1>8. QED
    BY <1>1, <1>2, <1>4, <1>5, <1>6, <1>7, FacadeMove DEF FacadeOnlyPc, RetirePc, Prov

LEMMA RevokeFamilyInv ==
  ASSUME RegistryInv, NEW x \in Caller, RevokeFamily(x)
  PROVE  RegistryInv'
  <1>1. ComponentTypeOK /\ caller \in [Caller -> CallRecord] /\ caller[x] = Idle
        /\ UNCHANGED <<slot, coord, gateway, done, failures, facade>>
    BY Shapes DEF RegistryInv, RevokeFamily
  <1>2. Steady(x)
    BY <1>1, StillSteady DEF slot
  <1> DEFINE call == [Idle EXCEPT !.job = "family", !.pc = "askFamily"]
  <1>3. caller' = [caller EXCEPT ![x] = call]
    BY DEF RevokeFamily
  <1>4. /\ call \in CallRecord /\ call.pc = "askFamily" /\ call.on = None /\ call.holds = FALSE
        /\ call.job = "family" /\ call.snap.component = None
    BY EmptyTyped DEF CallRecord, Idle, Job, FacadePc
  <1> HIDE DEF call
  <1>5. Only(x) /\ caller'[x] = call
    BY <1>1, <1>3, <1>4 DEF Only
  <1>6. Comp(x)' = None /\ caller[x].on = None
    BY <1>1, <1>4, <1>5 DEF Comp, Idle
  <1>7. RetirerKnown(x)'
    BY <1>1, <1>4, <1>5, <1>6 DEF RetirerKnown, RetirePc
  <1>8. QED
    BY <1>1, <1>2, <1>4, <1>5, <1>6, <1>7, FacadeMove DEF FacadeOnlyPc, RetirePc, Prov

\* The answer to a revocation, and what is left of the call.
LEMMA AskedMove ==
  ASSUME RegistryInv, NEW x \in Caller, Steady(x), caller[x].pc \in {"askById", "askFamily"}, Goto(x, "retire")
  PROVE  RegistryInv'
  <1>1. ComponentTypeOK /\ CallInv(x)
    BY DEF RegistryInv
  <1>2. /\ Only(x)
        /\ caller'[x].pc = "retire" /\ caller'[x].job = caller[x].job /\ caller'[x].on = caller[x].on
        /\ caller'[x].snap = caller[x].snap /\ caller'[x].holds = caller[x].holds
    BY <1>1, GotoShape DEF FacadePc
  <1>3. caller[x].on = None /\ caller[x].holds = FALSE /\ caller[x].job \notin Prov
    BY <1>1, Shapes DEF CallInv, Placed, Apart, FacadeOnlyPc, CallRecord
  <1>4. Comp(x)' = Comp(x) /\ Comp(x) \in known \cup {None} /\ known' = known
    BY <1>1, <1>2 DEF CallInv, RetirerKnown, Comp, Steady
  <1>5. RetirerKnown(x)'
    BY <1>2, <1>4 DEF RetirerKnown, RetirePc
  <1>6. QED
    BY <1>2, <1>3, <1>4, <1>5, FacadeMove DEF FacadeOnlyPc, RetirePc

LEMMA AskRevokeByIdInv ==
  ASSUME RegistryInv, NEW x \in Caller, AskRevokeById(x)
  PROVE  RegistryInv'
  <1>1. ComponentTypeOK /\ caller[x].pc = "askById" /\ CallInv(x) /\ caller \in [Caller -> CallRecord]
    BY Shapes DEF RegistryInv, AskRevokeById
  <1>2. UNCHANGED <<slot, coord, issued, live, lost, replayed, done, failures, facade>>
    BY DEF AskRevokeById
  <1>3. revoked' \subseteq Component
    <2>1. Comp(x) \in Component
      BY <1>1 DEF CallInv, RetirerKnown, Comp, CallRecord, Snapshot
    <2>2. QED
      BY <1>1, <2>1 DEF AskRevokeById, ComponentTypeOK, Comp
  <1>4. Steady(x)
    BY <1>1, <1>2, <1>3, LosingSteady DEF facade, ComponentTypeOK
  <1>5. CASE Goto(x, "retire")
    BY <1>1, <1>4, <1>5, AskedMove
  <1>6. CASE Return(x)
    BY <1>1, <1>4, <1>6, ReturnInv DEF Saver
  <1>7. QED
    BY <1>5, <1>6 DEF AskRevokeById

LEMMA AskRevokeFamilyInv ==
  ASSUME RegistryInv, NEW x \in Caller, AskRevokeFamily(x)
  PROVE  RegistryInv'
  <1>1. ComponentTypeOK /\ caller[x].pc = "askFamily" /\ Goto(x, "retire")
    BY DEF RegistryInv, AskRevokeFamily
  <1>2. UNCHANGED <<slot, coord, issued, live, lost, replayed, done, failures, facade>>
    BY DEF AskRevokeFamily
  <1>3. revoked' \subseteq Component
    BY <1>1 DEF AskRevokeFamily, ComponentTypeOK
  <1>4. Steady(x)
    BY <1>1, <1>2, <1>3, LosingSteady DEF facade, ComponentTypeOK
  <1>5. QED
    BY <1>1, <1>4, AskedMove

\* A component of which no entry is found has left the device, unless its entry was replaced
\* under a foreign name.
LEMMA RetireInv ==
  ASSUME RegistryInv, NEW x \in Caller, Retire(x)
  PROVE  RegistryInv'
  <1>1. ComponentTypeOK /\ CallInv(x) /\ caller[x].pc = "retire" /\ RegistryLockFree
        /\ caller \in [Caller -> CallRecord] /\ caller[x] \in CallRecord
        /\ UNCHANGED <<slot, coord, gateway, failures, facade>>
    BY Shapes DEF RegistryInv, Retire
  <1>2. caller[x].on = None /\ caller[x].holds = FALSE /\ caller[x].job \notin Prov
    BY <1>1 DEF CallInv, Placed, Apart, FacadeOnlyPc, CallRecord
  <1>3. UNCHANGED <<aliasKey, store, made, issued, known, misnamed, registry>>
    BY <1>1 DEF slot, gateway, facade
  <1>4. CASE /\ registry # NoEntry
             /\ caller' = [caller EXCEPT ![x].pc = "retireStore", ![x].snap.component = registry.component]
             /\ UNCHANGED done
    <2>1. registry.component \in known /\ registry.component # None /\ known \subseteq Component
      BY <1>1, <1>4 DEF RegistryInv, EntryKnown, ComponentTypeOK
    <2>2. Steady(x)
      BY <1>1, <1>4, StillSteady DEF slot
    <2> DEFINE component == registry.component
    <2>3. caller'[x] = [caller[x] EXCEPT !.pc = "retireStore", !.snap.component = component]
      BY <1>1, <1>4
    <2>4. component \in Component
      BY <2>1
    <2> HIDE DEF component
    <2>5. /\ caller'[x].pc = "retireStore" /\ caller'[x].job = caller[x].job /\ caller'[x].on = caller[x].on
          /\ caller'[x].snap.component = component /\ caller'[x].holds = caller[x].holds
          /\ caller'[x] \in CallRecord
      <3>1. [caller[x].snap EXCEPT !.component = component] \in Snapshot
            /\ [caller[x].snap EXCEPT !.component = component].component = component
        BY <1>1, <2>4 DEF CallRecord, Snapshot
      <3>2. caller'[x] = [caller[x] EXCEPT !.pc = "retireStore", !.snap = [caller[x].snap EXCEPT !.component = component]]
        BY <2>3
      <3>3. QED
        BY <1>1, <3>1, <3>2 DEF CallRecord, FacadePc
    <2>6. Only(x)
      BY <1>1, <1>4, <2>5 DEF Only
    <2>7. Comp(x)' \in known \cup {None}
      BY <2>1, <2>5 DEF Comp, component
    <2>8. RetirerKnown(x)'
      BY <1>3, <2>1, <2>5 DEF RetirerKnown, RetirePc
    <2>9. QED
      BY <1>1, <1>2, <2>2, <2>5, <2>6, <2>7, <2>8, FacadeMove DEF FacadeOnlyPc, RetirePc
  <1>5. CASE /\ caller[x].job = "family" => registry = NoEntry
             /\ caller[x].job # "family" => registry.component # caller[x].snap.component
             /\ done' = done \cup ({caller[x].snap.component} \ {None})
             /\ Return(x)
    <2>1. \A c \in done' \ done : MayBeDone(x, c)
      <3>1. ASSUME NEW c \in done' \ done
            PROVE  MayBeDone(x, c)
        <4>1. c = Comp(x) /\ c # None
          BY <1>5, <3>1 DEF Comp
        <4>2. c \in known /\ c \in Component
          BY <1>1, <4>1 DEF CallInv, RetirerKnown, ComponentTypeOK
        <4>3. issued[c] # None
          BY <4>2 DEF RegistryInv, ListsIssued
        <4>4. registry.component # c
          BY <1>5, <4>1 DEF NoEntry, Comp
        <4>5. c \in misnamed \/ issued[c] # aliasKey' \/ ~InUse(c)
          BY <1>3, <4>2, <4>4 DEF RegistryInv, KnownRegistered
        <4>6. \A y \in Caller : Provisional(y) /\ y # x => Comp(y) # c
          BY <4>1 DEF RegistryInv, CallInv, Fresh
        <4>7. QED
          BY <4>2, <4>3, <4>5, <4>6 DEF MayBeDone
      <3>2. QED
        BY <3>1
    <2>2. Steady(x)
      <3>1. \A y \in Caller \ {x} : caller[y].pc \in {"sent", "preSave"} => ~coord[caller[y].on].invalidated
        BY DEF RegistryInv, CallInv, SignerKept
      <3>2. coord' \in [Coord -> CoordRecord] /\ failures' \in 0 .. MaximumFailures /\ failures' \in Nat
        BY <1>1, Shapes, ComponentAssumption DEF ComponentTypeOK
      <3>3. QED
        BY <1>1, <1>5, <2>1, <3>1, <3>2 DEF Steady, slot, gateway, facade, ComponentTypeOK, Newest
    <2>3. QED
      BY <1>1, <1>5, <2>2, ReturnInv DEF Saver
  <1>6. QED
    BY <1>4, <1>5 DEF Retire

LEMMA RetireStoreInv ==
  ASSUME RegistryInv, NEW x \in Caller, RetireStore(x)
  PROVE  RegistryInv'
  <1>1. ComponentTypeOK /\ CallInv(x) /\ caller[x].pc = "retireStore" /\ caller \in [Caller -> CallRecord]
        /\ caller[x] \in CallRecord
    BY Shapes DEF RegistryInv, RetireStore
  <1>2. caller[x].on = None /\ caller[x].holds = FALSE /\ caller[x].job \notin Prov
    BY <1>1 DEF CallInv, Placed, Apart, FacadeOnlyPc, RetirePc, CallRecord
  <1>3. Steady(x)
    <2>1. store' \in {store, Empty} /\ aliasKey' \in {aliasKey, None} /\ (Fails \/ UNCHANGED failures)
          /\ UNCHANGED <<made, coord, gateway, done, facade>>
      BY DEF RetireStore
    <2>2. QED
      BY <2>1, StillSteady
  <1>4. /\ Only(x)
        /\ caller'[x].pc = "retireKey" /\ caller'[x].job = caller[x].job /\ caller'[x].on = caller[x].on
        /\ caller'[x].snap = caller[x].snap /\ caller'[x].holds = caller[x].holds
    <2>1. CASE Goto(x, "retireKey")
      BY <1>1, <2>1, GotoShape DEF FacadePc
    <2>2. CASE caller' = [caller EXCEPT ![x].pc = "retireKey", ![x].after = "failed"]
      <3>1. caller'[x] = [caller[x] EXCEPT !.pc = "retireKey", !.after = "failed"]
        BY <1>1, <2>2
      <3>2. caller'[x] \in CallRecord
        BY <1>1, <3>1 DEF CallRecord, FacadePc
      <3>3. QED
        BY <1>1, <2>2, <3>1, <3>2 DEF CallRecord, Only
    <2>3. QED
      BY <2>1, <2>2 DEF RetireStore
  <1>5. Comp(x)' = Comp(x) /\ registry.component # None /\ registry' = registry /\ known' = known
    BY <1>1, <1>4 DEF CallInv, RetirerKnown, RetirePc, RetireStore, Comp, facade
  <1>6. RetirerKnown(x)'
    BY <1>4, <1>5 DEF RetirerKnown, RetirePc
  <1>7. QED
    BY <1>1, <1>2, <1>3, <1>4, <1>5, <1>6, FacadeMove DEF FacadeOnlyPc, RetirePc

\* The key of the entry leaves the alias before the entry goes.
LEMMA RetireKeyInv ==
  ASSUME RegistryInv, NEW x \in Caller, RetireKey(x)
  PROVE  RegistryInv'
  <1>1. ComponentTypeOK /\ CallInv(x) /\ caller[x].pc = "retireKey" /\ Return(x)
        /\ UNCHANGED <<made, store, coord, gateway, known, misnamed, crashes, cancels>>
    BY DEF RegistryInv, RetireKey
  <1>2. registry.component # None /\ registry.component \in known /\ known \subseteq Component
    BY <1>1 DEF RegistryInv, CallInv, RetirerKnown, RetirePc, EntryKnown, ComponentTypeOK
  <1>3. issued[registry.component] # None
    BY <1>2 DEF RegistryInv, ListsIssued
  <1>4. aliasKey' \in {aliasKey, None} /\ failures' \in 0 .. MaximumFailures /\ failures <= failures'
    BY <1>1, ComponentAssumption DEF RetireKey, WithoutKey, Fails, ComponentTypeOK
  <1>5. issued[registry.component] = aliasKey => registry.key = aliasKey
    BY <1>2 DEF RegistryInv, EntryKnown
  <1>6. \/ registry' = registry /\ done' = done
        \/ /\ registry' = NoEntry /\ done' = done \cup {registry.component}
           /\ aliasKey' = WithoutKey(registry.key)
    BY DEF RetireKey
  <1>7. Steady(x)
    <2>1. CASE registry' = registry /\ done' = done
      <3>1. \A y \in Caller : caller[y].pc \in {"sent", "preSave"} => ~coord[caller[y].on].invalidated
        BY DEF RegistryInv, CallInv, SignerKept
      <3>2. coord' \in [Coord -> CoordRecord]
        BY <1>1, Shapes
      <3>3. QED
        BY <1>1, <1>4, <2>1, <3>1, <3>2 DEF Steady, gateway, ComponentTypeOK, Newest
    <2>2. CASE /\ registry' = NoEntry /\ done' = done \cup {registry.component}
               /\ aliasKey' = WithoutKey(registry.key)
      <3>1. \A y \in Caller : caller[y].pc \in {"sent", "preSave"} => ~coord[caller[y].on].invalidated
        BY DEF RegistryInv, CallInv, SignerKept
      <3>2. coord' \in [Coord -> CoordRecord]
        BY <1>1, Shapes
      <3>3. issued[registry.component] # aliasKey'
        BY <1>3, <1>5, <2>2 DEF WithoutKey
      <3>4. \A y \in Caller : Provisional(y) => Comp(y) # registry.component
        BY <1>2 DEF RegistryInv, CallInv, Fresh
      <3>5. MayBeDone(x, registry.component)
        BY <1>2, <1>3, <3>3, <3>4 DEF MayBeDone
      <3>6. registry.key # None
        BY <1>2, ComponentAssumption DEF RegistryInv, EntryKnown
      <3>7. QED
        <4>1. aliasKey' # registry.key
          BY <2>2, <3>6 DEF WithoutKey
        <4>2. \A c \in done' \ done : MayBeDone(x, c)
          BY <2>2, <3>5
        <4>3. \A c \in Component, token \in Nat : Newest(c, token) => Newest(c, token)'
          BY <1>1 DEF Newest, gateway
        <4>4. done \subseteq done'
          BY <2>2
        <4>5. /\ UNCHANGED <<made, issued, known, misnamed, crashes, lost, live, replayed, revoked, cancels, coord, store>>
              /\ lost \subseteq Component /\ replayed \subseteq Component /\ revoked \subseteq Component
              /\ cancels \in 0 .. MaximumCancels /\ live \in [Component -> 0 .. MaximumToken]
          BY <1>1 DEF gateway, ComponentTypeOK
        <4>6. QED
          BY <1>1, <1>4, <2>2, <3>1, <3>2, <4>1, <4>2, <4>3, <4>4, <4>5 DEF Steady
    <2>3. QED
      BY <1>6, <2>1, <2>2
  <1>8. QED
    BY <1>1, <1>7, ReturnInv DEF Saver

\* A component that the gateway had not issued is new to everyone.
LEMMA ComponentIssued ==
  ASSUME RegistryInv, NEW x \in Caller, NEW c \in Component, caller[x].pc = "ask", issued[c] = None,
         issued' = [issued EXCEPT ![c] = KeyOf(x)],
         caller' = [caller EXCEPT ![x].pc = "lock", ![x].snap.component = c],
         UNCHANGED <<slot, coord, revoked, live, lost, replayed, done, failures, facade>>
  PROVE  RegistryInv'
  <1>1. ComponentTypeOK /\ caller \in [Caller -> CallRecord] /\ caller[x] \in CallRecord
        /\ coord \in [Coord -> CoordRecord] /\ \A y \in Caller : CallInv(y)
    BY Shapes DEF RegistryInv
  <1>2. UNCHANGED <<aliasKey, made, store, coord, revoked, live, lost, replayed, done, failures, registry,
                    known, misnamed, crashes, cancels>>
    BY DEF slot, facade
  <1>3. caller[x].job = "provision" /\ caller[x].on \in Coord /\ KeyOf(x) # None
    BY <1>1 DEF CallInv, Placed, Apart, Prov, FacadeOnlyPc, RetirePc, CallRecord, KeyOf
  <1>4. KeyOf(x) \in Key /\ KeyOf(x) \in made
    BY <1>1, <1>3 DEF KeyOf, CoordRecord, RegistryInv, KeysMade
  <1>5. /\ caller'[x].pc = "lock" /\ caller'[x].job = "provision" /\ caller'[x].on = caller[x].on
        /\ caller'[x].snap.component = c /\ caller'[x].holds = caller[x].holds
        /\ caller'[x] \in CallRecord
    <2>1. [caller[x].snap EXCEPT !.component = c] \in Snapshot
          /\ [caller[x].snap EXCEPT !.component = c].component = c
      BY <1>1 DEF CallRecord, Snapshot
    <2>2. caller'[x] = [caller[x] EXCEPT !.pc = "lock", !.snap = [caller[x].snap EXCEPT !.component = c]]
      BY <1>1
    <2>3. QED
      BY <1>1, <1>3, <2>1, <2>2 DEF CallRecord, SessionPc
  <1>6. Only(x)
    BY <1>1, <1>5 DEF Only
  <1>7. issued'[c] = KeyOf(x) /\ \A d \in Component \ {c} : issued'[d] = issued[d]
    BY <1>1 DEF ComponentTypeOK
  \* What is known of components is known of those that were issued before.
  <1>8. /\ c \notin known \cup done /\ store.component # c /\ registry.component # c
        /\ \A y \in Caller : Comp(y) # c
    <2>1. c \notin known \cup done
      BY DEF RegistryInv, ListsIssued
    <2>2. \A y \in Caller : Comp(y) # c
      BY <1>1, ComponentAssumption DEF CallInv, Issued
    <2>3. store.component # c
      BY EmptyTyped, ComponentAssumption DEF RegistryInv, FileIssued
    <2>4. registry.component # c
      BY <2>1, ComponentAssumption DEF RegistryInv, EntryKnown
    <2>5. QED
      BY <2>1, <2>2, <2>3, <2>4
  <1>9. ASSUME NEW y \in Caller
        PROVE  /\ caller'[y].job = caller[y].job /\ caller'[y].on = caller[y].on
               /\ caller'[y].holds = caller[y].holds /\ KeyOf(y)' = KeyOf(y)
               /\ (y # x => caller'[y] = caller[y] /\ Comp(y)' = Comp(y) /\ (Provisional(y)' <=> Provisional(y))
                            /\ (Refresher(y)' <=> Refresher(y)))
    BY <1>2, <1>3, <1>5, <1>6 DEF Only, KeyOf, Comp, Provisional, Refresher, Refreshing
  <1>10. ~Refresher(x) /\ ~Refresher(x)' /\ ~Saver(x) /\ Comp(x)' = c
    BY <1>5 DEF Refresher, CarryPc, Saver, Comp
  <1>11. ASSUME NEW d \in Component
         PROVE  InUse(d)' <=> InUse(d)
    BY <1>2, <1>9, <1>10 DEF InUse
  <1>12. ComponentTypeOK'
    <2>1. issued' \in [Component -> Key \cup {None}]
      BY <1>1, <1>4 DEF ComponentTypeOK
    <2>2. QED
      BY <1>1, <1>2, <1>6, <2>1 DEF ComponentTypeOK, Only, CallRecord
  <1>13. ASSUME NEW y \in Caller
         PROVE  Placed(y)'
    <2>1. Apart(y)'
      BY <1>1, <1>2, <1>9 DEF CallInv, Placed, Apart
    <2>2. CASE y = x
      BY <1>1, <1>3, <1>5, <2>1, <2>2 DEF CallInv, Placed, FacadeOnlyPc, HeldPc, CarryPc, RetirePc
    <2>3. CASE y # x
      BY <1>1, <1>9, <2>1, <2>3 DEF CallInv, Placed
    <2>4. QED
      BY <2>2, <2>3
  <1>14. ASSUME NEW y \in Caller \ {x}
         PROVE  CallInv(y)'
    <2>1. CallInv(y) /\ caller'[y] = caller[y] /\ caller[y] \in CallRecord /\ Comp(y) # c
      BY <1>1, <1>8, <1>9
    <2>2. Comp(y) \in Component \cup {None} /\ (Comp(y) # None => issued'[Comp(y)] = issued[Comp(y)])
      BY <1>7, <2>1 DEF CallRecord, Snapshot, Comp
    <2>3. Issued(y)'
      BY <1>2, <1>9, <2>1, <2>2 DEF CallInv, Issued
    <2>4. SignerKept(y)' /\ RetirerKnown(y)' /\ TokenNewest(y)' /\ OfFile(y)'
      BY <1>2, <1>9, <2>1 DEF CallInv, SignerKept, RetirerKnown, TokenNewest, Newest, OfFile
    <2>5. Fresh(y)'
      <3>1. ~Provisional(y)
        BY <1>1, <1>3 DEF CallInv, Placed, Apart, Prov, Provisional
      <3>2. QED
        BY <1>9, <3>1 DEF Fresh
    <2>6. ReadClean(y)'
      <3>1. caller[y].pc # "register"
        BY <1>1, <1>3 DEF CallInv, Placed, Apart, Prov
      <3>2. QED
        BY <2>1, <3>1 DEF ReadClean
    <2>7. QED
      BY <1>13, <2>3, <2>4, <2>5, <2>6 DEF CallInv
  <1>15. CallInv(x)'
    <2>1. aliasKey \in {KeyOf(x), None}
      BY <1>1, <1>3 DEF CallInv, Placed, Apart, Prov
    <2>2. Issued(x)'
      BY <1>2, <1>3, <1>5, <1>7, <1>9, <1>10, <2>1, ComponentAssumption DEF Issued, CarryPc
    <2>3. Fresh(x)'
      BY <1>2, <1>8, <1>9, <1>10 DEF Fresh
    <2>4. QED
      BY <1>5, <1>10, <1>13, <2>2, <2>3 DEF CallInv, SignerKept, RetirerKnown, RetirePc, OfFile, ReadClean, TokenNewest
  <1>16. OneHolder' /\ OneRetirer'
    <2>1. OneHolder'
      BY <1>9 DEF RegistryInv, OneHolder
    <2>2. \A y \in Caller : caller'[y].pc \in RetirePc => caller[y].pc \in RetirePc
      BY <1>5, <1>9 DEF RetirePc
    <2>3. OneRetirer'
      BY <2>2 DEF RegistryInv, OneRetirer
    <2>4. QED
      BY <2>1, <2>3
  <1>17. KeysMade' /\ FileIssued' /\ ListsIssued' /\ EntryKnown'
    <2>1. KeysMade'
      BY <1>2, <1>4, <1>7 DEF RegistryInv, KeysMade
    <2>2. FileIssued'
      BY <1>1, <1>2, <1>7, <1>8 DEF RegistryInv, FileIssued, ComponentTypeOK, Snapshot
    <2>3. ListsIssued'
      BY <1>1, <1>2, <1>7, <1>8 DEF RegistryInv, ListsIssued, ComponentTypeOK
    <2>4. EntryKnown'
      BY <1>1, <1>2, <1>7, <1>8 DEF RegistryInv, EntryKnown, ComponentTypeOK, Entry
    <2>5. QED
      BY <2>1, <2>2, <2>3, <2>4
  <1>18. KnownRegistered' /\ DoneGone'
    BY <1>1, <1>2, <1>7, <1>8, <1>11 DEF RegistryInv, KnownRegistered, DoneGone, ComponentTypeOK
  <1>19. FileNewest'
    <2>1. \A y \in Caller : Saver(y) => Saver(y)' /\ Comp(y)' = Comp(y)
      BY <1>9, <1>10 DEF Saver, Refreshing
    <2>2. QED
      BY <1>2, <2>1 DEF RegistryInv, FileNewest, Newest
  <1>20. RegisteredOrUndone'
    <2>1. \A y \in Caller : Undoing(y) => Undoing(y)'
      BY <1>2, <1>3, <1>5, <1>9 DEF Undoing, Undone
    <2>2. QED
      BY <1>2, <2>1 DEF RegistryInv, RegisteredOrUndone, Usable, InRegistry
  <1>21. ComponentReplayOnlyAfterLoss'
    BY <1>2 DEF RegistryInv, ComponentReplayOnlyAfterLoss
  <1>22. QED
    BY <1>12, <1>14, <1>15, <1>16, <1>17, <1>18, <1>19, <1>20, <1>21 DEF RegistryInv

LEMMA AskComponentInv ==
  ASSUME RegistryInv, NEW x \in Caller, AskComponent(x)
  PROVE  RegistryInv'
  <1>1. caller[x].pc = "ask" /\ UNCHANGED <<slot, coord, revoked, live, lost, replayed, done, failures, facade>>
    BY DEF AskComponent
  <1>2. ASSUME NEW c \in Component, issued[c] = None, issued' = [issued EXCEPT ![c] = KeyOf(x)],
               caller' = [caller EXCEPT ![x].pc = "lock", ![x].snap.component = c]
        PROVE  RegistryInv'
    BY <1>1, <1>2, ComponentIssued
  <1>3. CASE Return(x) /\ UNCHANGED issued
    <2>1. Steady(x)
      BY <1>1, <1>3, StillSteady DEF slot, gateway
    <2>2. QED
      BY <1>1, <1>3, <2>1, ReturnInv DEF Saver
  <1>4. QED
    BY <1>1, <1>2, <1>3 DEF AskComponent

\* The client is returned, and its key is in the registry.
LEMMA Registered ==
  ASSUME RegistryInv, NEW x \in Caller, caller[x].pc = "register", RegistryLockFree,
         registry' = [component |-> Comp(x), key |-> KeyOf(x)],
         known' = known \cup {Comp(x)},
         misnamed' = IF caller[x].snap.key = KeyOf(x) THEN misnamed
                     ELSE misnamed \cup ({registry.component} \ {None}),
         coord' = [coord EXCEPT ![caller[x].on].given = TRUE],
         caller' = [caller EXCEPT ![x] = Idle],
         UNCHANGED <<slot, gateway, done, failures, crashes, cancels>>
  PROVE  RegistryInv'
  <1> DEFINE n == caller[x].on
             c == Comp(x)
  <1>1. ComponentTypeOK /\ caller \in [Caller -> CallRecord] /\ caller[x] \in CallRecord
        /\ coord \in [Coord -> CoordRecord] /\ \A y \in Caller : CallInv(y)
    BY Shapes DEF RegistryInv
  <1>2. UNCHANGED <<aliasKey, made, store, issued, live, lost, replayed, revoked, done, failures, crashes, cancels>>
    BY DEF slot, gateway
  <1>3. /\ caller[x].job \in Prov /\ n \in Coord /\ KeyOf(x) # None /\ aliasKey \in {KeyOf(x), None}
        /\ \A y \in Caller \ {x} : caller[y].job \notin Prov /\ caller[y].on # n
    BY <1>1 DEF CallInv, Placed, Apart, Prov, FacadeOnlyPc, RetirePc, CallRecord, KeyOf
  <1>4. caller[x].snap.key # None /\ c \in Component /\ c # None /\ issued[c] = caller[x].snap.key
    BY <1>1, ComponentAssumption DEF CallInv, ReadClean, CallRecord, Snapshot, Comp
  <1>5. KeyOf(x) \in Key /\ KeyOf(x) \in made
    BY <1>1, <1>3 DEF KeyOf, CoordRecord, RegistryInv, KeysMade
  <1>6. registry'.component = c /\ registry'.key = KeyOf(x)
    OBVIOUS
  <1>7. /\ coord' \in [Coord -> CoordRecord] /\ coord'[n].key = coord[n].key
        /\ \A m \in Coord \ {n} : coord'[m] = coord[m]
    <2>1. coord'[n] = [coord[n] EXCEPT !.given = TRUE] /\ \A m \in Coord \ {n} : coord'[m] = coord[m]
      BY <1>1, <1>3
    <2>2. \A r \in CoordRecord : LET s == [r EXCEPT !.given = TRUE] IN s \in CoordRecord /\ s.key = r.key
      BY DEF CoordRecord
    <2>3. coord'[n] \in CoordRecord /\ coord'[n].key = coord[n].key
      BY <1>1, <1>3, <2>1, <2>2
    <2>4. QED
      BY <1>1, <2>1, <2>3
  <1>8. /\ caller'[x].pc = "idle" /\ caller'[x].job = "none" /\ caller'[x].on = None
        /\ caller'[x].snap.component = None /\ caller'[x].holds = FALSE /\ Idle \in CallRecord
        /\ \A y \in Caller \ {x} : caller'[y] = caller[y]
    BY <1>1, EmptyTyped DEF Idle, CallRecord, Job
  <1>9. Only(x)
    BY <1>1, <1>8 DEF Only
  <1>10. ASSUME NEW y \in Caller \ {x}
         PROVE  /\ caller'[y] = caller[y] /\ CallInv(y) /\ caller[y].on \in Coord \cup {None}
                /\ (caller[y].on # None => coord'[caller[y].on] = coord[caller[y].on] /\ KeyOf(y)' = KeyOf(y))
                /\ Comp(y)' = Comp(y) /\ (Refresher(y)' <=> Refresher(y)) /\ (Saver(y)' <=> Saver(y))
                /\ caller[y].job \notin Prov
    BY <1>1, <1>3, <1>7, <1>8 DEF CallRecord, KeyOf, Comp, Refresher, Refreshing, Saver
  <1>11. ~Refresher(x) /\ ~Refresher(x)' /\ ~Saver(x) /\ ~Provisional(x)' /\ Comp(x)' = None
    BY <1>8 DEF Refresher, Refreshing, Saver, CarryPc, Provisional, Comp
  <1>12. ASSUME NEW d \in Component
         PROVE  InUse(d)' <=> InUse(d)
    BY <1>2, <1>10, <1>11 DEF InUse
  <1>13. ComponentTypeOK'
    <2>1. registry' \in Entry /\ known' \subseteq Component /\ misnamed' \subseteq Component
      BY <1>1, <1>4, <1>5 DEF ComponentTypeOK, Entry
    <2>2. QED
      BY <1>1, <1>2, <1>7, <1>9, <2>1 DEF ComponentTypeOK, Only, CallRecord, CoordRecord
  <1>14. ASSUME NEW y \in Caller \ {x}
         PROVE  CallInv(y)'
    <2>1. Placed(y)'
      BY <1>2, <1>10 DEF CallInv, Placed, Apart
    <2>2. caller[y].pc \in CarryPc \/ Refresher(y) \/ Provisional(y) => caller[y].on # None
      BY <1>10 DEF CallInv, Placed, Refresher, Provisional, CarryPc, FacadeOnlyPc, RetirePc
    <2>3. Provisional(y)' <=> Provisional(y)
      BY <1>10 DEF Provisional
    <2>4. SignerKept(y)'
      BY <1>10, <2>2 DEF CallInv, SignerKept, CarryPc
    <2>5. Issued(y)'
      <3>1. caller[y].pc \in {"preSave", "save", "postSave"} => caller[y].on # None
        BY <2>2 DEF CarryPc
      <3>2. QED
        BY <1>2, <1>10, <2>2, <2>3, <3>1 DEF CallInv, Issued
    <2>6. ~Provisional(y)
      BY <1>10 DEF Provisional, Prov
    <2>7. RetirerKnown(y)' /\ TokenNewest(y)' /\ OfFile(y)'
      <3>1. caller[y].pc \notin RetirePc
        BY DEF RegistryLockFree, RetirePc
      <3>2. RetirerKnown(y)'
        BY <1>10, <3>1 DEF CallInv, RetirerKnown
      <3>3. TokenNewest(y)' /\ OfFile(y)'
        BY <1>2, <1>10, <2>2 DEF CallInv, TokenNewest, Newest, OfFile
      <3>4. QED
        BY <3>2, <3>3
    <2>8. caller[y].pc # "register"
      BY <1>10 DEF CallInv, Placed, Prov
    <2>9. QED
      BY <1>10, <2>1, <2>3, <2>4, <2>5, <2>6, <2>7, <2>8 DEF CallInv, Fresh, ReadClean
  <1>15. CallInv(x)'
    <2>1. Placed(x)'
      BY <1>8 DEF Placed, Apart, FacadeOnlyPc, HeldPc, CarryPc, RetirePc, Prov
    <2>2. QED
      BY <1>8, <1>11, <2>1 DEF CallInv, SignerKept, Issued, Fresh, RetirerKnown, OfFile, ReadClean, TokenNewest,
          CarryPc, RetirePc
  <1>16. OneHolder' /\ OneRetirer'
    <2>1. \A y \in Caller \ {x} : caller[y].holds => caller[y].on # None
      BY <1>1 DEF CallInv, Placed
    <2>2. OneHolder'
      BY <1>8, <1>10, <2>1 DEF RegistryInv, OneHolder
    <2>3. OneRetirer'
      BY <1>8 DEF RegistryInv, OneRetirer, RetirePc
    <2>4. QED
      BY <2>2, <2>3
  <1>17. KeysMade' /\ FileIssued' /\ ListsIssued'
    <2>1. \A m \in Coord : coord'[m].key = coord[m].key
      BY <1>7
    <2>2. KeysMade'
      BY <1>2, <1>5, <1>6, <2>1 DEF RegistryInv, KeysMade
    <2>3. QED
      BY <1>2, <1>4, <2>2 DEF RegistryInv, FileIssued, ListsIssued
  <1>18. EntryKnown'
    <2>1. issued[c] = aliasKey => KeyOf(x) = aliasKey
      BY <1>3, <1>4
    <2>2. \A m \in Coord : coord'[m].given => coord'[m].key # None
                              /\ (coord'[m].key = aliasKey => KeyOf(x) = aliasKey)
      BY <1>3, <1>7 DEF RegistryInv, EntryKnown, KeyOf
    <2>3. QED
      BY <1>2, <1>3, <1>4, <1>6, <2>1, <2>2 DEF EntryKnown
  <1>19. KnownRegistered'
    <2>1. ASSUME NEW d \in known' \ misnamed', InUse(d)', issued[d] = aliasKey
          PROVE  d = c
      <3>1. d \in Component /\ InUse(d)
        BY <1>1, <1>4, <1>12, <2>1 DEF ComponentTypeOK
      <3>2. CASE d \in known
        <4>1. issued[d] = KeyOf(x)
          BY <1>3, <2>1, <3>2 DEF RegistryInv, ListsIssued
        <4>2. CASE caller[x].snap.key = KeyOf(x)
          BY <1>1, <3>1, <4>1, <4>2 DEF CallInv, ReadClean
        <4>3. CASE caller[x].snap.key # KeyOf(x)
          <5>1. d \notin misnamed /\ d # registry.component
            BY <2>1, <3>1, <4>3, ComponentAssumption
          <5>2. QED
            BY <2>1, <3>1, <3>2, <5>1 DEF RegistryInv, KnownRegistered
        <4>4. QED
          BY <4>2, <4>3
      <3>3. QED
        BY <2>1, <3>2
    <2>2. QED
      BY <1>2, <1>6, <2>1 DEF KnownRegistered
  <1>20. DoneGone'
    <2>1. misnamed \subseteq misnamed' /\ done \subseteq Component
      BY <1>1 DEF ComponentTypeOK
    <2>2. QED
      BY <1>2, <1>12, <2>1 DEF RegistryInv, DoneGone
  <1>21. FileNewest'
    BY <1>2, <1>10, <1>11 DEF RegistryInv, FileNewest, Newest
  <1>22. RegisteredOrUndone'
    <2>1. Usable => KeyOf(x) = store.key
      BY <1>3 DEF RegistryInv, FileIssued, Usable
    <2>2. QED
      BY <1>2, <1>6, <2>1 DEF RegisteredOrUndone, Usable, InRegistry
  <1>23. ComponentReplayOnlyAfterLoss'
    BY <1>2 DEF RegistryInv, ComponentReplayOnlyAfterLoss
  <1>24. QED
    BY <1>13, <1>14, <1>15, <1>16, <1>17, <1>18, <1>19, <1>20, <1>21, <1>22, <1>23 DEF RegistryInv

LEMMA RegisterInv ==
  ASSUME RegistryInv, NEW x \in Caller, Register(x)
  PROVE  RegistryInv'
  <1>1. caller[x].pc = "register" /\ RegistryLockFree
        /\ UNCHANGED <<slot, gateway, done, crashes, cancels>>
    BY DEF Register
  <1>2. CASE Fails /\ Unregistered(x) /\ UNCHANGED <<registry, known, misnamed>>
    <2>1. coord' = coord
      BY <1>2 DEF Unregistered
    <2>2. Steady(x)
      BY <1>1, <1>2, <2>1, StillSteady DEF slot, facade
    <2>3. QED
      BY <1>1, <1>2, <2>2, UnregisteredInv
  <1>3. CASE ~(Fails /\ Unregistered(x) /\ UNCHANGED <<registry, known, misnamed>>)
    BY <1>1, <1>3, Registered DEF Register, Comp
  <1>4. QED
    BY <1>2, <1>3

\* A provisioning or an opening begins, with the key under the alias or a new one.
LEMMA Created ==
  ASSUME RegistryInv, NEW x \in Caller, NEW n \in Coord, NEW k \in Key,
         NEW job \in {"provision", "open"}, NEW pc \in {"ask", "lock"},
         job = "provision" => pc = "ask", job = "open" => pc = "lock",
         caller[x] = Idle, Unused(n), ProvisioningLockFree, CreateSigner(n, k),
         caller' = [caller EXCEPT ![x] = [Idle EXCEPT !.job = job, !.pc = pc, !.on = n]],
         UNCHANGED <<store, gateway, done, failures, facade>>
  PROVE  RegistryInv'
  <1>1. ComponentTypeOK /\ caller \in [Caller -> CallRecord]
        /\ coord \in [Coord -> CoordRecord] /\ \A y \in Caller : CallInv(y)
    BY Shapes DEF RegistryInv
  <1>2. UNCHANGED <<store, issued, live, lost, replayed, revoked, done, failures, registry, known, misnamed,
                    crashes, cancels>>
    BY DEF gateway, facade
  <1>3. aliasKey' = k /\ made' = made \cup {k} /\ k # None /\ (aliasKey = k \/ k \notin made)
    BY ComponentAssumption DEF CreateSigner
  \* A key that is not new is the alias's before and after.
  <1>4. \A i \in made \cup {None} : i = aliasKey' => aliasKey = aliasKey'
    BY <1>3
  <1> DEFINE call == [Idle EXCEPT !.job = job, !.pc = pc, !.on = n]
             opened == [Unopened EXCEPT !.key = k]
  <1>5. /\ call \in CallRecord /\ call.pc = pc /\ call.job = job /\ call.on = n /\ call.holds = FALSE
        /\ call.snap.component = None
    BY EmptyTyped DEF Idle, CallRecord, Job, SessionPc, FacadePc
  <1>6. opened \in CoordRecord /\ opened.key = k /\ opened.given = FALSE
    BY DEF Unopened, CoordRecord
  <1>7. coord' = [coord EXCEPT ![n] = opened] /\ caller' = [caller EXCEPT ![x] = call]
    BY DEF CreateSigner
  <1> HIDE DEF call, opened
  <1>8. /\ caller'[x] = call /\ Only(x) /\ coord' \in [Coord -> CoordRecord] /\ coord'[n] = opened
        /\ \A m \in Coord \ {n} : coord'[m] = coord[m]
    BY <1>1, <1>5, <1>6, <1>7 DEF Only
  <1>9. ASSUME NEW y \in Caller \ {x}
        PROVE  /\ caller'[y] = caller[y] /\ CallInv(y) /\ caller[y].on \in Coord \cup {None} /\ caller[y].on # n
               /\ (caller[y].on # None => coord'[caller[y].on] = coord[caller[y].on] /\ KeyOf(y)' = KeyOf(y)
                                          /\ KeyOf(y) \in made \cup {None})
               /\ Comp(y)' = Comp(y) /\ (Refresher(y)' <=> Refresher(y)) /\ (Saver(y)' <=> Saver(y))
               /\ caller[y].job \notin Prov
    <2>1. caller'[y] = caller[y] /\ caller[y].on \in Coord \cup {None} /\ caller[y].on # n
      BY <1>1, <1>8 DEF Only, CallRecord, Unused
    <2>2. caller[y].on # None => coord'[caller[y].on] = coord[caller[y].on] /\ KeyOf(y)' = KeyOf(y)
                                 /\ KeyOf(y) \in made \cup {None}
      BY <1>8, <2>1 DEF KeyOf, RegistryInv, KeysMade
    <2>3. QED
      BY <1>1, <2>1, <2>2 DEF Comp, Refresher, Refreshing, Saver, ProvisioningLockFree, Prov
  <1>10. ~Refresher(x) /\ ~Refresher(x)' /\ ~Saver(x) /\ ~Saver(x)' /\ ~Provisional(x)' /\ Comp(x)' = None
         /\ ~Undoing(x)
    <2>1. caller[x].job = "none"
      BY DEF Idle
    <2>2. ~Refresher(x) /\ ~Saver(x) /\ ~Undoing(x)
      BY <2>1 DEF Refresher, Refreshing, Saver, Undoing, Undone
    <2>3. caller'[x].job = job /\ caller'[x].pc = pc /\ caller'[x].snap.component = None
      BY <1>5, <1>8
    <2>4. QED
      BY <2>2, <2>3 DEF Refresher, Refreshing, Saver, Provisional, Comp
  <1>11. ASSUME NEW d \in Component
         PROVE  (InUse(d)' <=> InUse(d)) /\ (issued[d] = aliasKey' => issued[d] = aliasKey)
    <2>1. InUse(d)' <=> InUse(d)
      BY <1>2, <1>9, <1>10 DEF InUse
    <2>2. QED
      BY <1>4, <2>1 DEF RegistryInv, KeysMade
  <1>12. ComponentTypeOK'
    BY <1>1, <1>2, <1>3, <1>8 DEF ComponentTypeOK, Only, CallRecord, CoordRecord
  <1>13. ASSUME NEW y \in Caller \ {x}
         PROVE  CallInv(y)'
    <2>1. Placed(y)'
      BY <1>9 DEF CallInv, Placed, Apart
    <2>2. caller[y].pc \in CarryPc \/ Refresher(y) => caller[y].on # None
      BY <1>9 DEF CallInv, Placed, Refresher, CarryPc, FacadeOnlyPc, RetirePc
    <2>3. ~Provisional(y) /\ ~Provisional(y)'
      BY <1>9 DEF Provisional, Prov
    <2>4. SignerKept(y)'
      BY <1>9, <2>2 DEF CallInv, SignerKept, CarryPc
    <2>5. Comp(y) # None => Comp(y) \in Component
      BY <1>1 DEF CallRecord, Snapshot, Comp
    <2>6. Issued(y)'
      <3>1. caller[y].pc \in {"preSave", "save", "postSave"} => caller[y].on # None
        BY <2>2 DEF CarryPc
      <3>2. Comp(y) # None /\ caller[y].on # None /\ issued[Comp(y)] = aliasKey' => KeyOf(y) = aliasKey'
        <4>1. Comp(y) # None /\ issued[Comp(y)] = aliasKey' => issued[Comp(y)] = aliasKey
          BY <1>11, <2>5
        <4>2. QED
          BY <1>9, <4>1 DEF CallInv, Issued
      <3>3. QED
        BY <1>2, <1>9, <2>2, <2>3, <3>1, <3>2 DEF CallInv, Issued
    <2>7. RetirerKnown(y)' /\ OfFile(y)'
      BY <1>2, <1>9, <2>2 DEF CallInv, RetirerKnown, OfFile
    <2>8. TokenNewest(y)'
      <3>1. Refresher(y) /\ aliasKey' = KeyOf(y) => aliasKey = KeyOf(y)
        BY <1>4, <1>9, <2>2
      <3>2. QED
        BY <1>2, <1>9, <2>2, <3>1 DEF CallInv, TokenNewest, Newest
    <2>9. caller[y].pc # "register"
      BY <1>9 DEF CallInv, Placed, Prov
    <2>10. QED
      BY <1>9, <2>1, <2>3, <2>4, <2>6, <2>7, <2>8, <2>9 DEF CallInv, Fresh, ReadClean
  <1>14. CallInv(x)'
    <2>1. KeyOf(x)' = k
      BY <1>5, <1>6, <1>8 DEF KeyOf
    <2>2. Apart(x)'
      <3>1. \A y \in Caller \ {x} : caller'[y].job \notin Prov /\ caller'[y].on # n
        BY <1>9
      <3>2. QED
        BY <1>3, <1>5, <1>6, <1>8, <2>1, <3>1, ComponentAssumption DEF Apart, Prov, KeyOf
    <2>3. Placed(x)'
      BY <1>5, <1>8, <2>2, ComponentAssumption DEF Placed, FacadeOnlyPc, HeldPc, CarryPc, RetirePc
    <2>4. QED
      BY <1>5, <1>8, <1>10, <2>3 DEF CallInv, SignerKept, Issued, Fresh, RetirerKnown, OfFile, ReadClean, TokenNewest,
          CarryPc, RetirePc
  <1>15. OneHolder' /\ OneRetirer'
    <2>1. \A y \in Caller \ {x} : caller[y].holds => caller[y].on # None
      BY <1>1 DEF CallInv, Placed
    <2>2. OneHolder'
      <3>1. ~caller'[x].holds
        BY <1>5, <1>8
      <3>2. QED
        BY <1>9, <2>1, <3>1 DEF RegistryInv, OneHolder
    <2>3. OneRetirer'
      BY <1>5, <1>8, <1>9 DEF RegistryInv, OneRetirer, RetirePc
    <2>4. QED
      BY <2>2, <2>3
  <1>16. KeysMade' /\ FileIssued' /\ ListsIssued'
    <2>1. KeysMade'
      BY <1>2, <1>3, <1>6, <1>8 DEF RegistryInv, KeysMade
    <2>2. QED
      BY <1>2, <2>1 DEF RegistryInv, FileIssued, ListsIssued
  <1>17. EntryKnown'
    <2>1. registry.component # None => registry.component \in Component
      BY <1>1 DEF ComponentTypeOK, Entry
    <2>2. \A m \in Coord : coord'[m].given => coord[m].given /\ coord'[m].key = coord[m].key
                                              /\ coord[m].key \in made \cup {None}
      BY <1>6, <1>8 DEF RegistryInv, KeysMade
    <2>3. \A m \in Coord : coord'[m].given =>
             coord'[m].key # None /\ (coord'[m].key = aliasKey' => registry.key = aliasKey')
      BY <1>4, <2>2 DEF RegistryInv, EntryKnown
    <2>4. registry.component # None /\ issued[registry.component] = aliasKey' => registry.key = aliasKey'
      <3>1. registry.component # None /\ issued[registry.component] = aliasKey' => aliasKey' = aliasKey
        BY <1>11, <2>1
      <3>2. QED
        BY <3>1 DEF RegistryInv, EntryKnown
    <2>5. QED
      BY <1>2, <2>3, <2>4 DEF RegistryInv, EntryKnown
  <1>18. KnownRegistered' /\ DoneGone'
    BY <1>1, <1>2, <1>11 DEF RegistryInv, KnownRegistered, DoneGone, ComponentTypeOK
  <1>19. store # Empty /\ store.key = aliasKey' => store.key = aliasKey
    BY <1>4 DEF RegistryInv, KeysMade
  <1>20. FileNewest'
    BY <1>2, <1>9, <1>10, <1>19 DEF RegistryInv, FileNewest, Newest
  <1>21. RegisteredOrUndone'
    <2>1. \A y \in Caller : Undoing(y) => Undoing(y)'
      BY <1>2, <1>9, <1>10 DEF Undoing
    <2>2. QED
      BY <1>2, <1>19, <2>1 DEF RegistryInv, RegisteredOrUndone, Usable, InRegistry
  <1>22. ComponentReplayOnlyAfterLoss'
    BY <1>2 DEF RegistryInv, ComponentReplayOnlyAfterLoss
  <1>23. QED
    BY <1>12, <1>13, <1>14, <1>15, <1>16, <1>17, <1>18, <1>20, <1>21, <1>22 DEF RegistryInv

LEMMA ProvisionInv ==
  ASSUME RegistryInv, NEW x \in Caller, NEW n \in Coord, NEW k \in Key,
         Provision(x, n, k) \/ OpenComponent(x, n, k)
  PROVE  RegistryInv'
  <1>1. CASE Provision(x, n, k)
    BY <1>1, Created DEF Provision
  <1>2. CASE OpenComponent(x, n, k)
    BY <1>2, Created DEF OpenComponent
  <1>3. QED
    BY <1>1, <1>2

\* A cancelled coroutine returns, but for what cannot be cancelled.
LEMMA CancelInv ==
  ASSUME RegistryInv, NEW x \in Caller, Cancel(x)
  PROVE  RegistryInv'
  <1>1. ComponentTypeOK /\ CallInv(x) /\ caller \in [Caller -> CallRecord] /\ caller[x] \in CallRecord
    BY Shapes DEF RegistryInv
  <1>2. /\ UNCHANGED <<slot, coord, issued, revoked, live, replayed, done, failures, registry, known, misnamed, crashes>>
        /\ lost' = lost \cup Unsaved(x)
        /\ caller[x].pc \notin {"idle", "destroy", "reset", "undoStore", "undoKey", "retire", "retireStore", "retireKey"}
    BY DEF Cancel
  <1>3. cancels' \in 0 .. MaximumCancels
    BY <1>1, RegistryAssumption DEF Cancel, ComponentTypeOK
  <1>4. Unsaved(x) \subseteq Component
    BY <1>1 DEF Unsaved, CallInv, Issued, CarryPc, Comp, CallRecord, Snapshot
  <1>5. Steady(x)
    BY <1>1, <1>2, <1>3, <1>4, LosingSteady DEF ComponentTypeOK
  <1>6. Saver(x) => Comp(x) \in lost'
    BY <1>2 DEF Saver, Unsaved, Comp
  <1>7. CASE caller[x].job = "family" /\ Goto(x, "retire")
    <2>1. caller[x].pc \in {"askById", "askFamily"}
      BY <1>1, <1>2, <1>7 DEF CallInv, Placed, FacadeOnlyPc, RetirePc
    <2>2. QED
      BY <1>5, <1>7, <2>1, AskedMove
  <1>8. CASE caller[x].job = "open" /\ caller[x].pc = "register" /\ Goto(x, "undoStore")
    BY <1>1, <1>5, <1>8, GotoQuiet DEF FacadePc, FacadeOnlyPc, CarryPc, HeldPc, RetirePc, Prov, Saver
  <1>9. CASE Return(x)
    BY <1>2, <1>5, <1>6, <1>9, ReturnInv
  <1>10. QED
    BY <1>7, <1>8, <1>9 DEF Cancel

\* No coroutine moves: a key that the policy refuses is deleted, a component is revoked.
LEMMA StandStill ==
  ASSUME RegistryInv, aliasKey' \in {aliasKey, None}, revoked' \subseteq Component,
         failures' \in 0 .. MaximumFailures, failures <= failures',
         UNCHANGED <<made, store, coord, caller, issued, live, lost, replayed, done, facade>>
  PROVE  RegistryInv'
  <1>1. UNCHANGED <<made, store, coord, caller, issued, live, lost, replayed, done, registry, known, misnamed,
                    crashes, cancels>>
    BY DEF facade
  <1>2. \A c : (InUse(c)' <=> InUse(c))
    BY <1>1 DEF InUse, Refresher, Refreshing, Comp
  <1>3. ComponentTypeOK'
    BY <1>1 DEF RegistryInv, ComponentTypeOK
  <1>4. ASSUME NEW x \in Caller
        PROVE  CallInv(x)'
    <2>1. CallInv(x)
      BY DEF RegistryInv
    <2>2. KeyOf(x)' = KeyOf(x) /\ Comp(x)' = Comp(x) /\ (Refresher(x)' <=> Refresher(x))
          /\ (Provisional(x)' <=> Provisional(x))
      BY <1>1 DEF KeyOf, Comp, Refresher, Refreshing, Provisional
    <2>3. Placed(x)'
      BY <1>1, <2>1 DEF CallInv, Placed, Apart, KeyOf
    <2>4. Issued(x)'
      BY <1>1, <2>1, <2>2 DEF CallInv, Issued
    <2>5. Fresh(x)'
      BY <1>1, <2>1, <2>2 DEF CallInv, Fresh, Comp
    <2>6. SignerKept(x)' /\ RetirerKnown(x)' /\ OfFile(x)'
      BY <1>1, <2>1, <2>2 DEF CallInv, SignerKept, RetirerKnown, OfFile
    <2>7. ReadClean(x)'
      BY <1>1, <1>2, <2>1, <2>2 DEF CallInv, ReadClean
    <2>8. TokenNewest(x)'
      <3>1. Refresher(x) /\ aliasKey' = KeyOf(x) => aliasKey = KeyOf(x)
        BY <2>1 DEF CallInv, Placed, Apart, Refresher, CarryPc, FacadeOnlyPc, RetirePc, KeyOf
      <3>2. QED
        BY <1>1, <2>1, <2>2, <3>1 DEF CallInv, TokenNewest, Newest
    <2>9. QED
      BY <2>3, <2>4, <2>5, <2>6, <2>7, <2>8 DEF CallInv
  <1>5. OneHolder' /\ OneRetirer'
    BY <1>1 DEF RegistryInv, OneHolder, OneRetirer, KeyOf
  <1>6. KeysMade' /\ FileIssued' /\ ListsIssued'
    BY <1>1 DEF RegistryInv, KeysMade, FileIssued, ListsIssued
  <1>7. known \cup done \subseteq Component /\ (registry.component # None => registry.component \in known)
    BY DEF RegistryInv, ComponentTypeOK, EntryKnown
  <1>8. EntryKnown'
    BY <1>1, <1>7 DEF RegistryInv, ListsIssued, EntryKnown
  <1>9. KnownRegistered' /\ DoneGone'
    BY <1>1, <1>2, <1>7 DEF RegistryInv, ListsIssued, KnownRegistered, DoneGone
  <1>10. store # Empty /\ store.key = aliasKey' => store.key = aliasKey
    BY DEF RegistryInv, FileIssued
  <1>11. FileNewest'
    BY <1>1, <1>10 DEF RegistryInv, FileNewest, Newest, Saver, Refreshing, Comp
  <1>12. RegisteredOrUndone'
    <2>1. failures' <= 1 => failures <= 1
      BY ComponentAssumption DEF RegistryInv, ComponentTypeOK
    <2>2. failures > 0 => failures' > 0
      BY ComponentAssumption DEF RegistryInv, ComponentTypeOK
    <2>3. \A x \in Caller : Undoing(x) => Undoing(x)'
      BY <1>1, <2>2 DEF Undoing
    <2>4. QED
      BY <1>1, <1>10, <2>1, <2>3 DEF RegistryInv, RegisteredOrUndone, Usable, InRegistry
  <1>13. ComponentReplayOnlyAfterLoss'
    BY <1>1 DEF RegistryInv, ComponentReplayOnlyAfterLoss
  <1>14. QED
    BY <1>3, <1>4, <1>5, <1>6, <1>8, <1>9, <1>11, <1>12, <1>13 DEF RegistryInv

\* Of a process that dies the slot, the registry and what the gateway knows are left.
LEMMA CrashInv ==
  ASSUME RegistryInv, Crash
  PROVE  RegistryInv'
  <1>1. UNCHANGED <<aliasKey, made, store, issued, revoked, live, replayed, done, failures, registry, known,
                    misnamed, cancels>>
        /\ lost' = lost \cup UNION {Unsaved(x) : x \in Caller}
    BY DEF Crash, slot
  <1>2. ComponentTypeOK /\ caller \in [Caller -> CallRecord] /\ \A x \in Caller : CallInv(x)
    BY Shapes DEF RegistryInv
  <1>3. ASSUME NEW x \in Caller
        PROVE  /\ caller'[x].pc = "idle" /\ caller'[x].job = "none" /\ caller'[x].on = None
               /\ caller'[x].snap.component = None /\ caller'[x].holds = FALSE /\ caller'[x] \in CallRecord
    BY EmptyTyped DEF Crash, Idle, CallRecord, Job
  <1>4. ASSUME NEW n \in Coord
        PROVE  coord'[n].key = None /\ coord'[n].given = FALSE /\ coord'[n] \in CoordRecord
    BY DEF Crash, Unopened, CoordRecord
  <1>5. caller' \in [Caller -> CallRecord] /\ coord' \in [Coord -> CoordRecord]
    BY <1>3, <1>4 DEF Crash
  <1>6. ComponentTypeOK'
    <2>1. \A x \in Caller : Unsaved(x) \subseteq Component
      BY <1>2 DEF Unsaved, CallInv, Issued, CarryPc, Comp, CallRecord, Snapshot
    <2>2. lost' \subseteq Component
      BY <1>1, <1>2, <2>1 DEF ComponentTypeOK
    <2>3. crashes' \in 0 .. MaximumCrashes
      BY <1>2, RegistryAssumption DEF Crash, ComponentTypeOK
    <2>4. QED
      BY <1>1, <1>2, <1>5, <2>2, <2>3 DEF ComponentTypeOK, CallRecord, CoordRecord
  <1>7. \A x \in Caller : ~Refresher(x)' /\ ~Provisional(x)' /\ Comp(x)' = None
    BY <1>3 DEF Refresher, CarryPc, Provisional, Comp
  <1>8. ASSUME NEW x \in Caller
        PROVE  CallInv(x)'
    <2>1. Placed(x)'
      BY <1>3, <1>8 DEF Placed, Apart, FacadeOnlyPc, HeldPc, CarryPc, RetirePc, Prov
    <2>2. QED
      BY <1>3, <1>7, <2>1 DEF CallInv, SignerKept, Issued, Fresh, RetirerKnown, OfFile, ReadClean, TokenNewest,
          CarryPc, RetirePc
  <1>9. OneHolder' /\ OneRetirer'
    BY <1>3 DEF OneHolder, OneRetirer, RetirePc
  <1>10. KeysMade' /\ FileIssued' /\ ListsIssued' /\ EntryKnown'
    BY <1>1, <1>4 DEF RegistryInv, KeysMade, FileIssued, ListsIssued, EntryKnown
  <1>11. KnownRegistered' /\ DoneGone'
    <2>1. \A c : InUse(c)' => InUse(c)
      BY <1>1, <1>7 DEF InUse
    <2>2. QED
      BY <1>1, <2>1 DEF RegistryInv, KnownRegistered, DoneGone
  <1>12. FileNewest'
    <2>1. ASSUME NEW x \in Caller, Saver(x)
          PROVE  Comp(x) \in lost'
      BY <1>1, <2>1 DEF Saver, Unsaved, Comp
    <2>2. QED
      BY <1>1, <2>1 DEF RegistryInv, FileNewest, Newest
  <1>13. RegisteredOrUndone'
    BY <1>2, RegistryAssumption DEF RegisteredOrUndone, Crash, ComponentTypeOK
  <1>14. ComponentReplayOnlyAfterLoss'
    BY <1>1 DEF RegistryInv, ComponentReplayOnlyAfterLoss
  <1>15. QED
    BY <1>6, <1>8, <1>9, <1>10, <1>11, <1>12, <1>13, <1>14 DEF RegistryInv

--------------------------------------------------------------------------------
(* The invariant of the specification. *)

LEMMA InitInv ==
  ASSUME ComponentInit
  PROVE  RegistryInv
  <1>1. \A x \in Caller : caller[x] = Idle
    BY DEF ComponentInit
  <1>2. /\ Idle.pc = "idle" /\ Idle.job = "none" /\ Idle.on = None /\ Idle.snap.component = None
        /\ Idle.holds = FALSE /\ Idle \in CallRecord
    BY EmptyTyped DEF Idle, CallRecord, Job
  <1>3. Unopened \in CoordRecord /\ Unopened.key = None /\ Unopened.given = FALSE
    BY DEF Unopened, CoordRecord
  <1>4. ComponentTypeOK
    <2>1. caller \in [Caller -> CallRecord] /\ coord \in [Coord -> CoordRecord] /\ store \in Snapshot
      BY <1>2, <1>3, EmptyTyped DEF ComponentInit
    <2>2. QED
      BY <2>1, ComponentAssumption, RegistryAssumption
      DEF ComponentInit, ComponentTypeOK, CallRecord, CoordRecord, Entry, NoEntry
  <1>5. ASSUME NEW x \in Caller
        PROVE  CallInv(x)
    <2>1. ~Refresher(x) /\ ~Provisional(x) /\ Comp(x) = None
      BY <1>1, <1>2 DEF Refresher, CarryPc, Provisional, Comp
    <2>2. Placed(x)
      BY <1>1, <1>2 DEF Placed, Apart, FacadeOnlyPc, HeldPc, CarryPc, RetirePc, Prov
    <2>3. QED
      BY <1>1, <1>2, <2>1, <2>2 DEF CallInv, SignerKept, Issued, Fresh, RetirerKnown, OfFile, ReadClean, TokenNewest,
          CarryPc, RetirePc
  <1>6. OneHolder /\ OneRetirer
    BY <1>1, <1>2 DEF OneHolder, OneRetirer, RetirePc
  <1>7. KeysMade /\ FileIssued /\ ListsIssued /\ EntryKnown
    BY <1>3, EmptyTyped DEF ComponentInit, KeysMade, FileIssued, ListsIssued, EntryKnown, NoEntry
  <1>8. KnownRegistered /\ DoneGone /\ FileNewest /\ ComponentReplayOnlyAfterLoss /\ RegisteredOrUndone
    BY DEF ComponentInit, KnownRegistered, DoneGone, FileNewest, ComponentReplayOnlyAfterLoss,
       RegisteredOrUndone, Usable
  <1>9. QED
    BY <1>4, <1>5, <1>6, <1>7, <1>8 DEF RegistryInv

LEMMA SessionStepInv ==
  ASSUME RegistryInv, NEW x \in Caller, SessionStep(x), UNCHANGED facade
  PROVE  RegistryInv'
  BY LockInv, EnsureInv, EvictStateInv, LoadInv, SendInv, AnsweredInv, CheckBeforeInv, SaveInv, CheckAfterInv,
     AuthorizeInv, RequestAnsweredInv, ClearInv, AskRevokeInv, DestroyInv, ResetInv DEF SessionStep

LEMMA CallerStepInv ==
  ASSUME RegistryInv, NEW x \in Caller, CallerStep(x)
  PROVE  RegistryInv'
  BY SessionStepInv, AskComponentInv, DiagnoseInv, RegisterInv, UndoStoreInv, UndoKeyInv, AskRevokeByIdInv,
     AskRevokeFamilyInv, RetireInv, RetireStoreInv, RetireKeyInv DEF CallerStep

LEMMA NextInv ==
  ASSUME RegistryInv, [ComponentNext]_vars
  PROVE  RegistryInv'
  <1>1. ASSUME NEW x \in Caller, CallerStep(x)
        PROVE  RegistryInv'
    BY <1>1, CallerStepInv
  <1>2. ASSUME NEW x \in Caller, Cancel(x)
        PROVE  RegistryInv'
    BY <1>2, CancelInv
  <1>3. ASSUME NEW x \in Caller, RevokeFamily(x)
        PROVE  RegistryInv'
    BY <1>3, RevokeFamilyInv
  <1>4. ASSUME NEW x \in Caller, NEW n \in Coord, NEW job \in Use, Start(x, n, job) /\ UNCHANGED facade
        PROVE  RegistryInv'
    BY <1>4, StartInv
  <1>5. ASSUME NEW x \in Caller, NEW n \in Coord, NEW k \in Key, Provision(x, n, k) \/ OpenComponent(x, n, k)
        PROVE  RegistryInv'
    BY <1>5, ProvisionInv
  <1>6. ASSUME NEW x \in Caller, NEW c \in Component, RevokeComponent(x, c)
        PROVE  RegistryInv'
    BY <1>6, RevokeComponentInv
  <1>7. ASSUME NEW c \in Component, OperatorRevokes(c)
        PROVE  RegistryInv'
    BY <1>7, StandStill, ComponentAssumption DEF OperatorRevokes, slot, RegistryInv, ComponentTypeOK
  <1>8. CASE KeyRejected
    BY <1>8, StandStill, ComponentAssumption DEF KeyRejected, Fails, gateway, RegistryInv, ComponentTypeOK
  <1>9. CASE Crash
    BY <1>9, CrashInv
  <1>10. CASE UNCHANGED vars
    <2>1. UNCHANGED <<aliasKey, made, store, coord, caller, gateway, done, failures, facade>>
      BY <1>10 DEF vars, sessionVars, slot, facade
    <2>2. failures' \in 0 .. MaximumFailures /\ failures <= failures' /\ revoked' \subseteq Component
      BY <2>1, ComponentAssumption DEF gateway, RegistryInv, ComponentTypeOK
    <2>3. QED
      BY <2>1, <2>2, StandStill DEF gateway
  <1>11. QED
    BY <1>1, <1>2, <1>3, <1>4, <1>5, <1>6, <1>7, <1>8, <1>9, <1>10 DEF ComponentNext

\* The inductive invariant holds in every state of every behavior, whatever the numbers of
\* coordinators and coroutines, faults, cancellations and deaths of the process.
THEOREM RegistryInvariant == ComponentSpec => []RegistryInv
  <1>1. ComponentInit => RegistryInv
    BY InitInv
  <1>2. RegistryInv /\ [ComponentNext]_vars => RegistryInv'
    BY NextInv
  <1>3. QED
    BY <1>1, <1>2, PTL DEF ComponentSpec

--------------------------------------------------------------------------------
(* What it says of the code. *)

\* Keys come from the Keystore, one coroutine at a time is in the session lock of a key
\* (SessionCoordinationLocks), it saves only what is of its own key, and the file holds what
\* the gateway issued to the key it names.
THEOREM ComponentTyped == ComponentSpec => []ComponentInv
  <1>1. RegistryInv => ComponentInv
    <2>1. ASSUME RegistryInv, NEW x \in Caller, caller[x].pc \in {"preSave", "save"}
          PROVE  caller[x].holds /\ caller[x].snap.key = KeyOf(x)
      BY <2>1 DEF RegistryInv, CallInv, Placed, Issued, HeldPc, CarryPc
    <2>2. QED
      BY <2>1 DEF RegistryInv, OneHolder, KeysMade, FileIssued, ComponentInv
  <1>2. QED
    BY <1>1, RegistryInvariant, PTL

\* Of a component that was revoked or retired, no session is usable on the device
\* (retireLocal, ComponentRegistry.retire), unless the entry that a revocation has to find
\* was replaced by a registration under a foreign name.
THEOREM RevokedStaysGone == ComponentSpec => []RevokedGone
  <1>1. RegistryInv => RevokedGone
    <2>1. SUFFICES ASSUME RegistryInv, NEW c \in done \ misnamed, store.component = c, store.key = aliasKey
                   PROVE  FALSE
      BY DEF RevokedGone
    <2>2. c \in Component /\ c # None
      BY <2>1, ComponentAssumption DEF RegistryInv, ComponentTypeOK
    <2>3. store # Empty
      BY <2>1, <2>2, EmptyTyped
    <2>4. issued[c] = aliasKey
      BY <2>1, <2>3 DEF RegistryInv, FileIssued
    <2>5. QED
      BY <2>1, <2>4 DEF RegistryInv, DoneGone, InUse
  <1>2. QED
    BY <1>1, RegistryInvariant, PTL

\* A component presents a spent refresh token, which makes the gateway end the session,
\* only if the answer that replaced the token was lost on the way or before it was saved
\* (the rotation of refreshUnlocked under the session lock).
THEOREM ComponentReplayNeedsLoss == ComponentSpec => []ComponentReplayOnlyAfterLoss
  <1>1. RegistryInv => ComponentReplayOnlyAfterLoss
    BY DEF RegistryInv
  <1>2. QED
    BY <1>1, RegistryInvariant, PTL

\* While no operation is under way, the key of a usable session is in the registry, so that
\* a family revocation finds it, after one fault or none and any cancellations
\* (provisionComponent, retireUnregisteredComponent).
THEOREM UsableIsTracked == ComponentSpec => []Tracked
  <1>1. RegistryInv => Tracked
    <2>1. SUFFICES ASSUME RegistryInv, Quiet, crashes = 0, failures <= 1, Usable, ~InRegistry
                   PROVE  FALSE
      BY DEF Tracked
    <2>2. PICK x \in Caller : Undoing(x)
      BY <2>1 DEF RegistryInv, RegisteredOrUndone
    <2>3. caller[x].pc \in {"idle", "authorized"} /\ Placed(x)
      BY <2>1 DEF Quiet, RegistryInv, CallInv
    <2>4. QED
      BY <2>2, <2>3 DEF Placed, Undoing, Undone
  <1>2. QED
    BY <1>1, RegistryInvariant, PTL

\* Without a fault a key leaves the alias only in the retirement of a coordinator bound to
\* it or of the registry's entry that names it (AliasBoundInstallationKey.reset,
\* AndroidKeystoreInstallationSigner.destroy).
THEOREM KeySparedByOthers == ComponentSpec => ComponentKeySpared
  <1> DEFINE Spared ==
        aliasKey # None /\ aliasKey' # aliasKey /\ failures' = failures
        => \/ registry.key = aliasKey
           \/ \E n \in Coord : coord[n].key = aliasKey /\ coord'[n].invalidated
  <1>1. RegistryInv /\ [ComponentNext]_vars => Spared
    <2>1. SUFFICES ASSUME RegistryInv, [ComponentNext]_vars, aliasKey # None, aliasKey' # aliasKey,
                          failures' = failures
                   PROVE  \/ registry.key = aliasKey
                          \/ \E n \in Coord : coord[n].key = aliasKey /\ coord'[n].invalidated
      OBVIOUS
    <2>2. ComponentTypeOK /\ caller \in [Caller -> CallRecord] /\ coord \in [Coord -> CoordRecord]
      BY <2>1, Shapes DEF RegistryInv
    <2>3. ~Fails /\ ~KeyRejected
      BY <2>1, <2>2, ComponentAssumption DEF Fails, KeyRejected, ComponentTypeOK
    <2>4. ASSUME NEW x \in Caller, Reset(x) \/ UndoKey(x)
          PROVE  \E n \in Coord : coord[n].key = aliasKey /\ coord'[n].invalidated
      <3>1. aliasKey = KeyOf(x)
        BY <2>1, <2>3, <2>4 DEF Reset, UndoKey, WithoutKey
      <3>2. caller[x].on \in Coord
        BY <2>1, <2>2, <2>4 DEF Reset, UndoKey, RegistryInv, CallInv, Placed, FacadeOnlyPc, RetirePc, CallRecord
      <3>3. coord'[caller[x].on].invalidated
        BY <2>2, <2>3, <2>4, <3>2, SignerReset DEF Reset, UndoKey
      <3>4. QED
        BY <3>1, <3>2, <3>3 DEF KeyOf
    <2>5. ASSUME NEW x \in Caller, RetireKey(x)
          PROVE  registry.key = aliasKey
      BY <2>1, <2>3, <2>5 DEF RetireKey, WithoutKey
    <2>6. \A x \in Caller : SessionStep(x) => Reset(x)
      <3>1. \A x \in Caller : ~Lock(x) /\ ~Ensure(x) /\ ~EvictState(x) /\ ~Load(x)
        BY <2>1 DEF Lock, Ensure, EvictState, Load, slot
      <3>2. \A x \in Caller : ~Send(x) /\ ~Answered(x) /\ ~CheckBefore(x) /\ ~CheckAfter(x)
        BY <2>1 DEF Send, Answered, CheckBefore, CheckAfter, slot
      <3>3. \A x \in Caller : ~Save(x) /\ ~Clear(x) /\ ~AskRevoke(x) /\ ~Destroy(x)
        BY <2>1 DEF Save, Clear, AskRevoke, Destroy, slot
      <3>4. \A x \in Caller : ~Authorize(x) /\ ~RequestAnswered(x)
        BY <2>1 DEF Authorize, RequestAnswered, slot
      <3>5. QED
        BY <3>1, <3>2, <3>3, <3>4 DEF SessionStep
    <2>7. \A x \in Caller : CallerStep(x) => Reset(x) \/ UndoKey(x) \/ RetireKey(x)
      BY <2>1, <2>6 DEF CallerStep, AskComponent, Diagnose, Register, UndoStore, AskRevokeById, AskRevokeFamily,
         Retire, RetireStore, slot
    <2>8. \A x \in Caller, n \in Coord, k \in Key : ~Provision(x, n, k) /\ ~OpenComponent(x, n, k)
      BY <2>1 DEF Provision, OpenComponent, CreateSigner
    <2>9. \E x \in Caller : CallerStep(x)
      BY <2>1, <2>3, <2>8 DEF ComponentNext, Cancel, RevokeFamily, Start, RevokeComponent, OperatorRevokes, Crash,
         vars, sessionVars, slot
    <2>10. QED
      BY <2>4, <2>5, <2>7, <2>9
  <1>2. QED
    BY <1>1, RegistryInvariant, PTL DEF ComponentSpec, ComponentKeySpared

--------------------------------------------------------------------------------
(* The implementation of ComponentSlot.  What is saved has to be the token the gateway
   accepts: beside RegistryInv, nobody renews it between the answer and the save. *)
SavePc == {"preSave", "save"}

SaverNewest ==
    \A x \in Caller :
        caller[x].pc \in SavePc =>
            caller[x].snap.token # 0 /\ live[Comp(x)] = caller[x].snap.token

SlotInv == RegistryInv /\ SaverNewest

\* x moves, and does not save.
Unsaving(x) ==
    /\ \A y \in Caller \ {x} : caller'[y] = caller[y]
    /\ caller'[x].pc \notin SavePc

LEMMA MoveUnsaving ==
  ASSUME ComponentTypeOK, NEW x \in Caller, NEW r, caller' = [caller EXCEPT ![x] = r], r.pc \notin SavePc
  PROVE  Unsaving(x)
  BY Shapes DEF Unsaving

LEMMA GotoUnsaving ==
  ASSUME ComponentTypeOK, NEW x \in Caller, NEW pc, Goto(x, pc), pc \notin SavePc
  PROVE  Unsaving(x)
  <1>1. caller \in [Caller -> CallRecord] /\ caller[x] \in CallRecord
    BY Shapes
  <1>2. caller' = [caller EXCEPT ![x] = [caller[x] EXCEPT !.pc = pc]]
    BY DEF Goto
  <1>3. [caller[x] EXCEPT !.pc = pc].pc = pc
    BY <1>1 DEF CallRecord
  <1>4. QED
    BY <1>1, <1>2, <1>3 DEF Unsaving

LEMMA ReturnUnsaving ==
  ASSUME ComponentTypeOK, NEW x \in Caller, Return(x)
  PROVE  Unsaving(x)
  <1>1. Only(x) /\ (caller'[x].pc = "undoStore" \/ caller'[x] = Idle)
    BY ReturnShape
  <1>2. caller'[x].pc \in {"undoStore", "idle"}
    BY <1>1 DEF Idle
  <1>3. QED
    BY <1>1, <1>2 DEF Unsaving, Only, SavePc

LEMMA EnterUnsaving ==
  ASSUME ComponentTypeOK, NEW x \in Caller, NEW pc, NEW holds, pc \notin SavePc,
         caller' = [caller EXCEPT ![x].pc = pc, ![x].holds = holds]
  PROVE  Unsaving(x)
  <1>1. caller \in [Caller -> CallRecord] /\ caller[x] \in CallRecord
    BY Shapes
  <1>2. caller'[x] = [caller[x] EXCEPT !.pc = pc, !.holds = holds]
    BY <1>1
  <1>3. caller'[x].pc = pc
    BY <1>1, <1>2 DEF CallRecord
  <1>4. QED
    BY <1>1, <1>3 DEF Unsaving

LEMMA EvictUnsaving ==
  ASSUME ComponentTypeOK, NEW x \in Caller, Evict(x)
  PROVE  Unsaving(x)
  <1>1. caller \in [Caller -> CallRecord] /\ caller[x] \in CallRecord
    BY Shapes
  <1> DEFINE after == IF caller[x].job = "open" THEN "undoStore"
                      ELSE IF Refreshing(x) /\ caller[x].pc \in {"send", "preSave", "postSave"}
                           THEN "destroy" ELSE "return"
  <1>2. caller' = [caller EXCEPT ![x].pc = "evict", ![x].after = after]
    BY DEF Evict
  <1> HIDE DEF after
  <1>3. caller'[x] = [caller[x] EXCEPT !.pc = "evict", !.after = after]
    BY <1>1, <1>2
  <1>4. caller'[x].pc = "evict"
    BY <1>1, <1>3 DEF CallRecord
  <1>5. QED
    BY <1>1, <1>2, <1>4 DEF Unsaving, SavePc

\* Who does not save leaves the savers alone.
LEMMA UnsavingNewest ==
  ASSUME SaverNewest, NEW x \in Caller, Unsaving(x), UNCHANGED live
  PROVE  SaverNewest'
  BY DEF SaverNewest, Unsaving, Comp

\* Two components under one lock: who waits for an answer is the only one whose token the
\* gateway replaces.
LEMMA AnswerAlone ==
  ASSUME RegistryInv, NEW x \in Caller, NEW y \in Caller \ {x},
         caller[x].pc = "sent", caller[y].pc \in SavePc
  PROVE  Comp(y) # Comp(x)
  <1>1. CallInv(x) /\ CallInv(y) /\ OneHolder
    BY DEF RegistryInv
  <1>2. caller[x].holds /\ caller[y].holds
    BY <1>1 DEF CallInv, Placed, HeldPc, CarryPc, SavePc
  <1>3. issued[Comp(x)] = KeyOf(x) /\ issued[Comp(y)] = KeyOf(y)
    BY <1>1 DEF CallInv, Issued, CarryPc, SavePc
  <1>4. QED
    BY <1>1, <1>2, <1>3 DEF OneHolder

LEMMA AnsweredNewest ==
  ASSUME SlotInv, NEW x \in Caller, Answered(x)
  PROVE  SaverNewest'
  <1>1. caller[x].pc = "sent" /\ ComponentTypeOK /\ CallInv(x)
        /\ caller \in [Caller -> CallRecord] /\ caller[x] \in CallRecord
        /\ live \in [Component -> 0 .. MaximumToken]
    BY Shapes DEF Answered, SlotInv, RegistryInv, ComponentTypeOK
  <1>2. Comp(x) \in Component
    BY <1>1 DEF CallInv, Issued, CarryPc, CallRecord, Snapshot, Comp
  <1>3. \A y \in Caller \ {x} : caller[y].pc \in SavePc =>
            caller[y].snap.token # 0 /\ live[Comp(y)] = caller[y].snap.token /\ Comp(y) # Comp(x)
    BY <1>1, AnswerAlone DEF SlotInv, SaverNewest
  <1>4. \A y \in Caller \ {x} : caller'[y] = caller[y]
    <2>1. Goto(x, "destroy") \/ Goto(x, "clear") \/ Return(x) => Unsaving(x)
      BY <1>1, GotoUnsaving, ReturnUnsaving DEF SavePc
    <2>2. QED
      BY <1>1, <2>1 DEF Answered, Unsaving
  <1>5. \A y \in Caller \ {x} : caller[y].pc \in SavePc => Comp(y) \in Component
    BY <1>1, Shapes DEF SlotInv, RegistryInv, CallInv, Issued, CarryPc, SavePc, CallRecord, Snapshot, Comp
  <1>6. \A c \in Component \ {Comp(x)} : live'[c] = live[c]
    BY <1>1, <1>2 DEF Answered, Comp
  <1>7. ASSUME NEW y \in Caller \ {x}, caller'[y].pc \in SavePc
        PROVE  caller'[y].snap.token # 0 /\ live'[Comp(y)'] = caller'[y].snap.token
    BY <1>3, <1>4, <1>5, <1>6, <1>7 DEF Comp
  <1>8. ASSUME caller'[x].pc \in SavePc
        PROVE  caller'[x].snap.token # 0 /\ live'[Comp(x)'] = caller'[x].snap.token
    <2> DEFINE snap == [key |-> KeyOf(x), component |-> Comp(x), token |-> live[Comp(x)] + 1]
    <2>1. /\ live' = [live EXCEPT ![Comp(x)] = @ + 1]
          /\ caller' = [caller EXCEPT ![x].pc = "preSave", ![x].snap = snap]
      <3>1. ~Goto(x, "destroy") /\ ~Goto(x, "clear") /\ ~Return(x)
        BY <1>1, <1>8, GotoUnsaving, ReturnUnsaving DEF SavePc, Unsaving
      <3>2. QED
        BY <3>1 DEF Answered, Comp
    <2>2. snap.component = Comp(x) /\ snap.token = live[Comp(x)] + 1
      OBVIOUS
    <2> HIDE DEF snap
    <2>3. caller'[x] = [caller[x] EXCEPT !.pc = "preSave", !.snap = snap]
      BY <1>1, <2>1
    <2>4. caller'[x].snap = snap
      BY <1>1, <2>3 DEF CallRecord
    <2>5. live'[Comp(x)] = live[Comp(x)] + 1 /\ live[Comp(x)] \in Nat
      BY <1>1, <1>2, <2>1, ComponentAssumption
    <2>6. QED
      BY <2>2, <2>4, <2>5 DEF Comp
  <1>9. QED
    BY <1>7, <1>8 DEF SaverNewest

\* The steps of a session that come from the code, but for the answer.
LEMMA SessionNewest ==
  ASSUME SlotInv, NEW x \in Caller, SessionStep(x)
  PROVE  SaverNewest'
  <1>1. ComponentTypeOK /\ CallInv(x) /\ SaverNewest /\ caller \in [Caller -> CallRecord] /\ caller[x] \in CallRecord
    BY Shapes DEF SlotInv, RegistryInv
  <1>2. CASE Answered(x)
    BY <1>2, AnsweredNewest
  <1>3. CASE CheckBefore(x)
    <2>1. caller[x].pc = "preSave" /\ UNCHANGED live
      BY <1>3 DEF CheckBefore, gateway
    <2>2. CASE Goto(x, "save")
      <3>1. Only(x) /\ caller'[x].snap = caller[x].snap
        BY <1>1, <2>2, GotoShape DEF SessionPc
      <3>2. QED
        BY <1>1, <2>1, <3>1 DEF SaverNewest, Only, Comp, SavePc
    <2>3. CASE Evict(x)
      BY <1>1, <2>1, <2>3, EvictUnsaving, UnsavingNewest
    <2>4. QED
      BY <1>3, <2>2, <2>3 DEF CheckBefore
  <1> DEFINE Moves == \/ Return(x) \/ Evict(x)
                      \/ \E pc \in ({"idle"} \cup SessionPc \cup FacadePc) \ SavePc : Goto(x, pc)
  <1>4. Moves => Unsaving(x)
    BY <1>1, GotoUnsaving, ReturnUnsaving, EvictUnsaving
  <1>5. CASE Ensure(x) \/ Send(x) \/ Authorize(x) \/ Clear(x) \/ AskRevoke(x)
    <2>1. Moves /\ UNCHANGED live
      BY <1>5 DEF Ensure, Send, Authorize, Clear, AskRevoke, gateway, SessionPc, SavePc
    <2>2. QED
      BY <1>1, <1>4, <2>1, UnsavingNewest
  <1>6. CASE EvictState(x)
    <2>1. caller[x].after \notin SavePc /\ UNCHANGED live
      BY <1>1, <1>6 DEF EvictState, CallRecord, SavePc, gateway
    <2>2. Unsaving(x)
      BY <1>1, <1>6, <2>1, GotoUnsaving, ReturnUnsaving DEF EvictState
    <2>3. QED
      BY <1>1, <2>1, <2>2, UnsavingNewest
  <1>7. CASE Save(x)
    <2>1. Moves /\ UNCHANGED live
      BY <1>7 DEF Save, SessionPc, SavePc
    <2>2. QED
      BY <1>1, <1>4, <2>1, UnsavingNewest
  <1>8. CASE Destroy(x)
    <2>1. UNCHANGED live
      BY <1>8 DEF Destroy, gateway
    <2>2. CASE Goto(x, "reset")
      BY <1>1, <2>1, <2>2, GotoUnsaving, UnsavingNewest DEF SavePc
    <2>3. CASE caller' = [caller EXCEPT ![x].pc = "reset", ![x].after = "failed"]
      <3>1. caller'[x] = [caller[x] EXCEPT !.pc = "reset", !.after = "failed"]
        BY <1>1, <2>3
      <3>2. caller'[x].pc = "reset"
        BY <1>1, <3>1 DEF CallRecord
      <3>3. Unsaving(x)
        BY <1>1, <2>3, <3>2 DEF Unsaving, SavePc
      <3>4. QED
        BY <1>1, <2>1, <3>3, UnsavingNewest
    <2>4. QED
      BY <1>8, <2>2, <2>3 DEF Destroy
  <1>9. CASE Reset(x)
    BY <1>1, <1>9, ReturnUnsaving, UnsavingNewest DEF Reset, gateway
  <1>10. CASE Lock(x)
    <2>1. UNCHANGED live
      BY <1>10 DEF Lock, gateway
    <2>2. ASSUME NEW pc \in SessionPc \ SavePc, caller' = [caller EXCEPT ![x].pc = pc, ![x].holds = TRUE]
          PROVE  Unsaving(x)
      BY <1>1, <2>2, EnterUnsaving
    <2>3. Return(x) \/ \E pc \in SessionPc \ SavePc : caller' = [caller EXCEPT ![x].pc = pc, ![x].holds = TRUE]
      BY <1>10 DEF Lock, SessionPc, SavePc
    <2>4. QED
      BY <1>1, <2>1, <2>2, <2>3, ReturnUnsaving, UnsavingNewest
  <1>11. CASE CheckAfter(x)
    <2>1. UNCHANGED live
      BY <1>11 DEF CheckAfter, gateway
    <2>2. ASSUME NEW pc \in SessionPc \cup FacadePc, pc \notin SavePc,
                 caller' = [caller EXCEPT ![x].pc = pc, ![x].holds = FALSE]
          PROVE  Unsaving(x)
      BY <1>1, <2>2, EnterUnsaving
    <2>3. \/ Return(x) \/ Evict(x)
          \/ \E pc \in SessionPc \cup FacadePc :
                pc \notin SavePc /\ caller' = [caller EXCEPT ![x].pc = pc, ![x].holds = FALSE]
      BY <1>11 DEF CheckAfter, SessionPc, FacadePc, SavePc
    <2>4. QED
      BY <1>1, <2>1, <2>2, <2>3, ReturnUnsaving, EvictUnsaving, UnsavingNewest
  <1>12. CASE RequestAnswered(x)
    <2>1. UNCHANGED live
      BY <1>12 DEF RequestAnswered, gateway
    <2>2. ASSUME NEW job \in Job, caller' = [caller EXCEPT ![x].job = job, ![x].pc = "lock"]
          PROVE  Unsaving(x)
      <3>1. caller'[x] = [caller[x] EXCEPT !.job = job, !.pc = "lock"]
        BY <1>1, <2>2
      <3>2. caller'[x].pc = "lock"
        BY <1>1, <3>1 DEF CallRecord
      <3>3. QED
        BY <1>1, <2>2, <3>2 DEF Unsaving, SavePc
    <2>3. CASE caller' = [caller EXCEPT ![x] = Idle]
      BY <1>1, <2>1, <2>3, MoveUnsaving, UnsavingNewest DEF Idle, SavePc
    <2>4. caller' = [caller EXCEPT ![x] = Idle]
          \/ \E job \in Job : caller' = [caller EXCEPT ![x].job = job, ![x].pc = "lock"]
      BY <1>12 DEF RequestAnswered, Job
    <2>5. QED
      BY <1>1, <2>1, <2>2, <2>3, <2>4, UnsavingNewest
  <1>13. CASE Load(x)
    <2>1. UNCHANGED live
      BY <1>13 DEF Load, gateway
    <2>2. ASSUME NEW pc \in SessionPc \cup FacadePc, NEW holds \in BOOLEAN, pc \notin SavePc,
                 caller' = [caller EXCEPT ![x].pc = pc, ![x].snap = store, ![x].holds = holds]
          PROVE  Unsaving(x)
      <3>1. caller'[x] = [caller[x] EXCEPT !.pc = pc, !.snap = store, !.holds = holds]
        BY <1>1, <2>2
      <3>2. caller'[x].pc = pc
        BY <1>1, <3>1 DEF CallRecord
      <3>3. QED
        BY <1>1, <2>2, <3>2 DEF Unsaving
    <2>3. \/ Moves
          \/ \E pc \in SessionPc \cup FacadePc, holds \in BOOLEAN :
                pc \notin SavePc /\ caller' = [caller EXCEPT ![x].pc = pc, ![x].snap = store, ![x].holds = holds]
      BY <1>13 DEF Load, SessionPc, FacadePc, SavePc
    <2>4. QED
      BY <1>1, <1>4, <2>1, <2>2, <2>3, UnsavingNewest
  <1>14. QED
    BY <1>2, <1>3, <1>5, <1>6, <1>7, <1>8, <1>9, <1>10, <1>11, <1>12, <1>13 DEF SessionStep

\* A provisioning starts without a token; nobody saves while the process dies.
LEMMA NewestNext ==
  ASSUME SlotInv, [ComponentNext]_vars
  PROVE  SaverNewest'
  <1>1. ComponentTypeOK /\ SaverNewest /\ caller \in [Caller -> CallRecord]
    BY Shapes DEF SlotInv, RegistryInv
  <1>2. ASSUME NEW x \in Caller, SessionStep(x)
        PROVE  SaverNewest'
    BY <1>2, SessionNewest
  <1>3. ASSUME NEW x \in Caller, AskComponent(x)
        PROVE  SaverNewest'
    <2>1. ASSUME NEW c \in Component, caller' = [caller EXCEPT ![x].pc = "lock", ![x].snap.component = c]
          PROVE  Unsaving(x)
      <3>1. caller[x] \in CallRecord
        BY <1>1
      <3>2. caller'[x] = [caller[x] EXCEPT !.pc = "lock", !.snap.component = c]
        BY <1>1, <2>1
      <3>3. caller'[x].pc = "lock"
        BY <3>1, <3>2 DEF CallRecord
      <3>4. QED
        BY <1>1, <2>1, <3>3 DEF Unsaving, SavePc
    <2>2. QED
      BY <1>1, <1>3, <2>1, ReturnUnsaving, UnsavingNewest DEF AskComponent
  <1>4. ASSUME NEW x \in Caller, Unregistered(x)
        PROVE  Unsaving(x)
    <2>1. CASE caller' = [caller EXCEPT ![x].job = "rescind", ![x].pc = "lock"]
      <3>1. caller[x] \in CallRecord
        BY <1>1
      <3>2. caller'[x] = [caller[x] EXCEPT !.job = "rescind", !.pc = "lock"]
        BY <1>1, <2>1
      <3>3. caller'[x].pc = "lock"
        BY <3>1, <3>2 DEF CallRecord
      <3>4. QED
        BY <1>1, <2>1, <3>3 DEF Unsaving, SavePc
    <2>2. CASE Goto(x, "undoStore")
      BY <1>1, <2>2, GotoUnsaving DEF SavePc
    <2>3. QED
      BY <1>4, <2>1, <2>2 DEF Unregistered
  <1>5. ASSUME NEW x \in Caller, Diagnose(x)
        PROVE  SaverNewest'
    <2>1. ASSUME caller' = [caller EXCEPT ![x].pc = "register", ![x].snap = store]
          PROVE  Unsaving(x)
      <3>1. caller[x] \in CallRecord
        BY <1>1
      <3>2. caller'[x] = [caller[x] EXCEPT !.pc = "register", !.snap = store]
        BY <1>1, <2>1
      <3>3. caller'[x].pc = "register"
        BY <3>1, <3>2 DEF CallRecord
      <3>4. QED
        BY <1>1, <2>1, <3>3 DEF Unsaving, SavePc
    <2>2. UNCHANGED live
      BY <1>5 DEF Diagnose, gateway
    <2>3. QED
      BY <1>1, <1>4, <1>5, <2>1, <2>2, ReturnUnsaving, UnsavingNewest DEF Diagnose
  <1>6. ASSUME NEW x \in Caller, Register(x)
        PROVE  SaverNewest'
    <2>1. caller' = [caller EXCEPT ![x] = Idle] => Unsaving(x)
      BY <1>1, MoveUnsaving DEF Idle, SavePc
    <2>2. QED
      BY <1>1, <1>4, <1>6, <2>1, UnsavingNewest DEF Register, gateway
  <1>7. ASSUME NEW x \in Caller, UndoStore(x)
        PROVE  SaverNewest'
    <2>1. Unsaving(x)
      <3>1. caller' = [caller EXCEPT ![x].pc = "undoKey", ![x].holds = FALSE]
        BY <1>7 DEF UndoStore
      <3>2. "undoKey" \notin SavePc
        BY DEF SavePc
      <3>3. QED
        BY <1>1, <3>1, <3>2, EnterUnsaving
    <2>2. QED
      BY <1>1, <1>7, <2>1, UnsavingNewest DEF UndoStore, gateway
  <1>8. ASSUME NEW x \in Caller, UndoKey(x)
        PROVE  SaverNewest'
    <2>1. Unsaving(x)
      BY <1>1, <1>8, MoveUnsaving DEF UndoKey, Idle, SavePc
    <2>2. QED
      BY <1>1, <1>8, <2>1, UnsavingNewest DEF UndoKey, gateway
  <1>9. ASSUME NEW x \in Caller, AskRevokeById(x) \/ AskRevokeFamily(x) \/ RetireKey(x)
        PROVE  SaverNewest'
    BY <1>1, <1>9, GotoUnsaving, ReturnUnsaving, UnsavingNewest
       DEF AskRevokeById, AskRevokeFamily, RetireKey, gateway, SavePc
  <1>10. ASSUME NEW x \in Caller, Retire(x)
         PROVE  SaverNewest'
    <2>1. ASSUME caller' = [caller EXCEPT ![x].pc = "retireStore", ![x].snap.component = registry.component]
          PROVE  Unsaving(x)
      <3>1. caller[x] \in CallRecord
        BY <1>1
      <3>2. caller'[x] = [caller[x] EXCEPT !.pc = "retireStore", !.snap.component = registry.component]
        BY <1>1, <2>1
      <3>3. caller'[x].pc = "retireStore"
        BY <3>1, <3>2 DEF CallRecord
      <3>4. QED
        BY <1>1, <2>1, <3>3 DEF Unsaving, SavePc
    <2>2. QED
      BY <1>1, <1>10, <2>1, ReturnUnsaving, UnsavingNewest DEF Retire, gateway
  <1>11. ASSUME NEW x \in Caller, RetireStore(x)
         PROVE  SaverNewest'
    <2>1. ASSUME caller' = [caller EXCEPT ![x].pc = "retireKey", ![x].after = "failed"]
          PROVE  Unsaving(x)
      <3>1. caller[x] \in CallRecord
        BY <1>1
      <3>2. caller'[x] = [caller[x] EXCEPT !.pc = "retireKey", !.after = "failed"]
        BY <1>1, <2>1
      <3>3. caller'[x].pc = "retireKey"
        BY <3>1, <3>2 DEF CallRecord
      <3>4. QED
        BY <1>1, <2>1, <3>3 DEF Unsaving, SavePc
    <2>2. QED
      BY <1>1, <1>11, <2>1, GotoUnsaving, UnsavingNewest DEF RetireStore, gateway, SavePc
  <1>12. ASSUME NEW x \in Caller, Cancel(x)
         PROVE  SaverNewest'
    BY <1>1, <1>12, GotoUnsaving, ReturnUnsaving, UnsavingNewest DEF Cancel, SavePc
  <1>13. ASSUME NEW x \in Caller, NEW job \in Job, NEW pc \in {"lock", "ask"}, NEW n \in Coord,
                caller' = [caller EXCEPT ![x] = [Idle EXCEPT !.job = job, !.pc = pc, !.on = n]], UNCHANGED live
         PROVE  SaverNewest'
    <2>1. [Idle EXCEPT !.job = job, !.pc = pc, !.on = n].pc \notin SavePc
      BY DEF Idle, SavePc
    <2>2. QED
      BY <1>1, <1>13, <2>1, MoveUnsaving, UnsavingNewest
  <1>14. ASSUME NEW x \in Caller, NEW n \in Coord, NEW k \in Key, Provision(x, n, k) \/ OpenComponent(x, n, k)
         PROVE  SaverNewest'
    BY <1>13, <1>14 DEF Provision, OpenComponent, gateway, Job
  <1>15. ASSUME NEW x \in Caller, NEW n \in Coord, NEW job \in Use, Start(x, n, job)
         PROVE  SaverNewest'
    BY <1>13, <1>15 DEF Start, gateway, Job
  <1>16. ASSUME NEW x \in Caller, RevokeFamily(x)
         PROVE  SaverNewest'
    <2>1. [Idle EXCEPT !.job = "family", !.pc = "askFamily"].pc \notin SavePc
      BY DEF Idle, SavePc
    <2>2. QED
      BY <1>1, <1>16, <2>1, MoveUnsaving, UnsavingNewest DEF RevokeFamily, gateway
  <1>17. ASSUME NEW x \in Caller, NEW c \in Component, RevokeComponent(x, c)
         PROVE  SaverNewest'
    <2>1. [Idle EXCEPT !.job = "revokeById", !.pc = "askById", !.snap.component = c].pc \notin SavePc
      BY DEF Idle, SavePc
    <2>2. QED
      BY <1>1, <1>17, <2>1, MoveUnsaving, UnsavingNewest DEF RevokeComponent, gateway
  <1>18. CASE Crash
    BY <1>18 DEF Crash, SaverNewest, Idle, SavePc
  <1>19. CASE KeyRejected \/ (\E c \in Component : OperatorRevokes(c)) \/ UNCHANGED vars
    <2>1. UNCHANGED <<caller, live>>
      BY <1>19 DEF KeyRejected, OperatorRevokes, gateway, vars, sessionVars
    <2>2. QED
      BY <1>1, <2>1 DEF SaverNewest, Comp
  <1>20. QED
    BY <1>2, <1>3, <1>5, <1>6, <1>7, <1>8, <1>9, <1>10, <1>11, <1>12, <1>14, <1>15, <1>16, <1>17, <1>18, <1>19
       DEF ComponentNext, CallerStep

--------------------------------------------------------------------------------
(* Every step of the slot is a step of ComponentSlot, or none. *)

\* At most the file is emptied.
LEMMA KeepsSlot ==
  ASSUME UNCHANGED <<aliasKey, made, issued, live, done, misnamed>>, store' \in {store, Empty}
  PROVE  [Slot!SlotNext]_Slot!slotVars
  BY DEF Slot!SlotNext, Slot!Withdraw, Slot!NoSession, Empty, Slot!slotVars

\* A retirement: the component that is reported retired has no session left under the key in
\* place; a key that goes without a report is destroyed.
LEMMA EndsSlot ==
  ASSUME RegistryInv, RegistryInv', aliasKey' \in {aliasKey, None},
         UNCHANGED <<made, issued, live, store, misnamed>>,
         done' = done \/ \E c \in Component : done' = done \cup {c}
  PROVE  [Slot!SlotNext]_Slot!slotVars
  <1>1. CASE done' = done
    BY <1>1 DEF Slot!SlotNext, Slot!Destroy, Slot!slotVars
  <1>2. CASE \E c \in Component : done' = done \cup {c}
    <2>1. PICK c \in Component : done' = done \cup {c}
      BY <1>2
    <2>2. issued[c] # None
      BY <2>1 DEF RegistryInv, ListsIssued
    <2>3. c \in misnamed \/ store.component # c \/ store.key # aliasKey'
      <3>1. SUFFICES ASSUME c \notin misnamed, store.component = c, store.key = aliasKey'
                     PROVE  FALSE
        OBVIOUS
      <3>2. store # Empty
        BY <3>1, EmptyTyped, ComponentAssumption
      <3>3. issued[c] = aliasKey'
        BY <3>1, <3>2 DEF RegistryInv, FileIssued
      <3>4. DoneGone'
        BY DEF RegistryInv
      <3>5. QED
        BY <2>1, <3>1, <3>3, <3>4 DEF DoneGone, InUse
    <2>4. Slot!End(c)
      BY <2>1, <2>2, <2>3 DEF Slot!End
    <2>5. QED
      BY <2>4 DEF Slot!SlotNext
  <1>3. QED
    BY <1>1, <1>2

\* The gateway renews the token, refuses it, or leaves it.
LEMMA AnsweredSlot ==
  ASSUME SlotInv, NEW x \in Caller, Answered(x), UNCHANGED facade
  PROVE  [Slot!SlotNext]_Slot!slotVars
  <1>1. CallInv(x) /\ caller[x] \in CallRecord /\ caller[x].pc = "sent" /\ done' = done
    BY Shapes DEF SlotInv, RegistryInv, Answered
  <1>2. Comp(x) \in Component /\ issued[Comp(x)] # None
    BY <1>1 DEF CallInv, Issued, CarryPc, CallRecord, Snapshot, Comp
  <1>3. UNCHANGED <<aliasKey, made, store, issued, misnamed>>
    BY DEF Answered, slot, facade
  <1>4. CASE live' = [live EXCEPT ![Comp(x)] = @ + 1]
    BY <1>1, <1>2, <1>3, <1>4 DEF Slot!SlotNext, Slot!Rotate
  <1>5. CASE live' = [live EXCEPT ![Comp(x)] = 0]
    BY <1>1, <1>2, <1>3, <1>5 DEF Slot!SlotNext, Slot!Refuse
  <1>6. CASE live' = live
    BY <1>1, <1>3, <1>6, KeepsSlot
  <1>7. QED
    BY <1>4, <1>5, <1>6 DEF Answered, Comp

\* What is saved is of a component that is not ended with its key in place, and its newest
\* token.
LEMMA SaveSlot ==
  ASSUME SlotInv, NEW x \in Caller, Save(x), UNCHANGED facade
  PROVE  [Slot!SlotNext]_Slot!slotVars
  <1> DEFINE c == Comp(x)
  <1>1. /\ CallInv(x) /\ ComponentTypeOK /\ caller[x] \in CallRecord /\ caller[x].pc = "save"
        /\ UNCHANGED <<aliasKey, made, issued, live, done, misnamed>>
    BY Shapes DEF SlotInv, RegistryInv, Save, facade
  <1>2. c \in Component /\ issued[c] = KeyOf(x) /\ issued[c] # None /\ caller[x].snap.key = KeyOf(x)
    BY <1>1 DEF CallInv, Issued, CarryPc, CallRecord, Snapshot, Comp
  <1>3. live[c] # 0 /\ live[c] = caller[x].snap.token
    BY <1>1 DEF SlotInv, SaverNewest, SavePc
  <1>4. c \in done \ misnamed => issued[c] # aliasKey
    <2>1. caller[x].job \in {"provision", "authorize", "refresh"}
      BY <1>1 DEF CallInv, Placed, CarryPc
    <2>2. CASE caller[x].job = "provision"
      BY <1>1, <2>2 DEF CallInv, Fresh, Provisional
    <2>3. CASE Refreshing(x)
      BY <1>1, <1>2, <2>3 DEF SlotInv, RegistryInv, DoneGone, InUse, Refresher, CarryPc
    <2>4. QED
      BY <2>1, <2>2, <2>3 DEF Refreshing
  <1>5. caller[x].snap = [key |-> issued[c], component |-> c, token |-> live[c]]
    BY <1>1, <1>2, <1>3 DEF CallRecord, Snapshot, Comp
  <1>6. CASE store' = caller[x].snap
    <2>1. Slot!Deposit(c)
      BY <1>1, <1>2, <1>3, <1>4, <1>5, <1>6 DEF Slot!Deposit
    <2>2. QED
      BY <1>2, <2>1 DEF Slot!SlotNext
  <1>7. CASE store' = store
    BY <1>1, <1>7, KeepsSlot
  <1>8. QED
    BY <1>6, <1>7 DEF Save

LEMMA SessionSlot ==
  ASSUME SlotInv, RegistryInv', NEW x \in Caller, SessionStep(x), UNCHANGED facade
  PROVE  [Slot!SlotNext]_Slot!slotVars
  <1>1. misnamed' = misnamed
    BY DEF facade
  <1>2. CASE Answered(x)
    BY <1>2, AnsweredSlot
  <1>3. CASE Save(x)
    BY <1>3, SaveSlot
  <1>4. CASE Reset(x)
    <2>1. aliasKey' \in {aliasKey, None} /\ UNCHANGED <<made, issued, live, store>>
      BY <1>4 DEF Reset, WithoutKey, gateway
    <2>2. caller[x] \in CallRecord
      BY Shapes DEF SlotInv, RegistryInv
    <2>3. Comp(x) \in Component \cup {None}
      BY <2>2 DEF CallRecord, Snapshot, Comp
    <2>4. done' = done \/ \E c \in Component : done' = done \cup {c}
      <3>1. done' = done \/ done' = done \cup ({Comp(x)} \ {None})
        BY <1>4 DEF Reset, Comp
      <3>2. CASE Comp(x) = None
        BY <3>1, <3>2
      <3>3. CASE Comp(x) # None
        BY <2>3, <3>1, <3>3
      <3>4. QED
        BY <3>2, <3>3
    <2>5. QED
      BY <1>1, <2>1, <2>4, EndsSlot DEF SlotInv
  <1>5. CASE Lock(x) \/ Ensure(x) \/ Send(x) \/ CheckBefore(x) \/ CheckAfter(x) \/ Authorize(x)
             \/ RequestAnswered(x) \/ AskRevoke(x)
    <2>1. UNCHANGED <<aliasKey, made, issued, live, done, store>>
      BY <1>5 DEF Lock, Ensure, Send, CheckBefore, CheckAfter, Authorize, RequestAnswered, AskRevoke,
         slot, gateway
    <2>2. QED
      BY <1>1, <2>1, KeepsSlot
  <1>6. CASE EvictState(x) \/ Load(x) \/ Clear(x) \/ Destroy(x)
    <2>1. UNCHANGED <<aliasKey, made, issued, live, done>> /\ store' \in {store, Empty}
      BY <1>6 DEF EvictState, Load, Clear, Destroy, gateway
    <2>2. QED
      BY <1>1, <2>1, KeepsSlot
  <1>7. QED
    BY <1>2, <1>3, <1>4, <1>5, <1>6 DEF SessionStep

\* A coordinator of a slot without a key generates one that is new.
LEMMA CreatedSlot ==
  ASSUME RegistryInv, NEW n \in Coord, NEW k \in Key, CreateSigner(n, k),
         UNCHANGED <<store, issued, live, done, misnamed>>
  PROVE  [Slot!SlotNext]_Slot!slotVars
  <1>1. CASE aliasKey = None
    BY <1>1 DEF CreateSigner, Slot!SlotNext, Slot!Generate
  <1>2. CASE aliasKey # None
    <2>1. aliasKey' = aliasKey /\ made' = made
      BY <1>2 DEF CreateSigner, RegistryInv, KeysMade
    <2>2. QED
      BY <2>1, KeepsSlot
  <1>3. QED
    BY <1>1, <1>2

\* The gateway binds a new component to the key that asks for it.
LEMMA AskComponentSlot ==
  ASSUME RegistryInv, NEW x \in Caller, AskComponent(x)
  PROVE  [Slot!SlotNext]_Slot!slotVars
  <1>1. UNCHANGED <<aliasKey, made, store, live, done, misnamed>>
    BY DEF AskComponent, slot, facade
  <1>2. caller[x] \in CallRecord /\ coord \in [Coord -> CoordRecord] /\ CallInv(x) /\ caller[x].pc = "ask"
    BY Shapes DEF RegistryInv, AskComponent
  <1>3. caller[x].on \in Coord /\ KeyOf(x) # None
    BY <1>2 DEF CallInv, Placed, Apart, KeyOf, FacadeOnlyPc, RetirePc, CallRecord
  <1>4. KeyOf(x) \in made /\ KeyOf(x) \in Key
    BY <1>2, <1>3 DEF RegistryInv, KeysMade, KeyOf, CoordRecord
  <1>5. ASSUME NEW c \in Component, issued[c] = None, issued' = [issued EXCEPT ![c] = KeyOf(x)]
        PROVE  [Slot!SlotNext]_Slot!slotVars
    <2>1. Slot!Enroll(c, KeyOf(x))
      BY <1>1, <1>4, <1>5 DEF Slot!Enroll
    <2>2. QED
      BY <1>4, <2>1 DEF Slot!SlotNext
  <1>6. CASE issued' = issued
    BY <1>1, <1>6, KeepsSlot
  <1>7. QED
    BY <1>5, <1>6 DEF AskComponent

\* A registration may take the entry away from a component.
LEMMA RegisterSlot ==
  ASSUME RegistryInv, NEW x \in Caller, Register(x)
  PROVE  [Slot!SlotNext]_Slot!slotVars
  <1>1. UNCHANGED <<aliasKey, made, store, issued, live, done>>
    BY DEF Register, slot, gateway
  <1>2. CASE misnamed' = misnamed
    BY <1>1, <1>2, KeepsSlot
  <1>3. CASE misnamed' = misnamed \cup ({registry.component} \ {None})
    <2>1. CASE registry.component = None
      <3>1. misnamed' = misnamed
        BY <1>3, <2>1
      <3>2. QED
        BY <1>2, <3>1
    <2>2. CASE registry.component # None
      <3>1. registry.component \in Component /\ issued[registry.component] # None
        BY <2>2 DEF RegistryInv, EntryKnown, ListsIssued, ComponentTypeOK
      <3>2. misnamed' = misnamed \cup {registry.component}
        BY <1>3, <2>2
      <3>3. Slot!Untrack(registry.component)
        BY <1>1, <3>1, <3>2 DEF Slot!Untrack
      <3>4. QED
        BY <3>1, <3>3 DEF Slot!SlotNext
    <2>3. QED
      BY <2>1, <2>2
  <1>4. QED
    BY <1>2, <1>3 DEF Register

\* The steps of a coroutine outside a session.
LEMMA FacadeSlot ==
  ASSUME SlotInv, RegistryInv', NEW x \in Caller,
         \/ AskComponent(x) \/ Diagnose(x) \/ Register(x) \/ UndoStore(x) \/ UndoKey(x)
         \/ AskRevokeById(x) \/ AskRevokeFamily(x) \/ Retire(x) \/ RetireStore(x) \/ RetireKey(x)
  PROVE  [Slot!SlotNext]_Slot!slotVars
  <1>1. RegistryInv
    BY DEF SlotInv
  <1>2. CASE AskComponent(x)
    BY <1>1, <1>2, AskComponentSlot
  <1>3. CASE Register(x)
    BY <1>1, <1>3, RegisterSlot
  <1>4. CASE UndoKey(x)
    <2>1. aliasKey' \in {aliasKey, None} /\ UNCHANGED <<made, issued, live, store, misnamed, done>>
      BY <1>4 DEF UndoKey, WithoutKey, gateway, facade
    <2>2. QED
      BY <1>1, <2>1, EndsSlot
  <1>5. CASE RetireKey(x)
    <2>1. aliasKey' \in {aliasKey, None} /\ UNCHANGED <<made, issued, live, store, misnamed>>
      BY <1>5 DEF RetireKey, WithoutKey, gateway
    <2>2. registry.component \in Component
      BY <1>1, <1>5 DEF RetireKey, RegistryInv, CallInv, RetirerKnown, RetirePc, EntryKnown, ComponentTypeOK
    <2>3. done' = done \/ done' = done \cup {registry.component}
      BY <1>5 DEF RetireKey
    <2>4. QED
      BY <1>1, <2>1, <2>2, <2>3, EndsSlot
  <1>6. CASE Retire(x)
    <2>1. UNCHANGED <<aliasKey, made, issued, live, store, misnamed>>
      BY <1>6 DEF Retire, slot, gateway, facade
    <2>2. caller[x] \in CallRecord
      BY <1>1, Shapes DEF RegistryInv
    <2>3. Comp(x) \in Component \cup {None}
      BY <2>2 DEF CallRecord, Snapshot, Comp
    <2>4. done' = done \/ done' = done \cup ({Comp(x)} \ {None})
      BY <1>6 DEF Retire, Comp
    <2>5. CASE Comp(x) = None
      <3>1. done' = done
        BY <2>4, <2>5
      <3>2. QED
        BY <1>1, <2>1, <3>1, EndsSlot
    <2>6. CASE Comp(x) # None
      <3>1. done' = done \/ done' = done \cup {Comp(x)}
        BY <2>4, <2>6
      <3>2. QED
        BY <1>1, <2>1, <2>3, <2>6, <3>1, EndsSlot
    <2>7. QED
      BY <2>5, <2>6
  <1>7. CASE Diagnose(x) \/ AskRevokeById(x) \/ AskRevokeFamily(x)
    <2>1. UNCHANGED <<aliasKey, made, issued, live, done, misnamed, store>>
      BY <1>7 DEF Diagnose, AskRevokeById, AskRevokeFamily, slot, gateway, facade
    <2>2. QED
      BY <2>1, KeepsSlot
  <1>8. CASE UndoStore(x) \/ RetireStore(x)
    <2>1. UNCHANGED <<aliasKey, made, issued, live, done, misnamed>> /\ store' \in {store, Empty}
      BY <1>8 DEF UndoStore, RetireStore, gateway, facade
    <2>2. QED
      BY <2>1, KeepsSlot
  <1>9. QED
    BY <1>2, <1>3, <1>4, <1>5, <1>6, <1>7, <1>8

\* The component slot of the SDK implements ComponentSlot: with any number of coordinators
\* and coroutines, after faults, cancellations and deaths of the process, the file gets only
\* the refresh token the gateway accepts (saveIfCurrent under the session lock), keys are
\* generated only into an empty alias and never twice, and a component whose retirement was
\* reported complete has no usable session again.
THEOREM ImplementsSlot == ComponentSpec => SlotPromise
  <1>1. ComponentInit => Slot!SlotInit
    BY DEF ComponentInit, Slot!SlotInit, Slot!NoSession, Empty
  <1>2. ComponentInit => SaverNewest
    BY DEF ComponentInit, SaverNewest, Idle, SavePc
  <1>3. SlotInv /\ [ComponentNext]_vars => SaverNewest'
    BY NewestNext
  <1>4. ASSUME SlotInv, RegistryInv', [ComponentNext]_vars
        PROVE  [Slot!SlotNext]_Slot!slotVars
    <2>1. CASE \E x \in Caller : CallerStep(x)
      BY <1>4, <2>1, SessionSlot, FacadeSlot DEF CallerStep
    <2>2. ASSUME NEW x \in Caller, NEW n \in Coord, NEW k \in Key, Provision(x, n, k) \/ OpenComponent(x, n, k)
          PROVE  [Slot!SlotNext]_Slot!slotVars
      BY <1>4, <2>2, CreatedSlot DEF Provision, OpenComponent, gateway, facade, SlotInv
    <2>3. CASE KeyRejected
      <3>1. Slot!Destroy
        BY <2>3 DEF KeyRejected, Slot!Destroy, gateway, facade
      <3>2. QED
        BY <3>1 DEF Slot!SlotNext
    <2>4. CASE \/ \E x \in Caller : Cancel(x) \/ RevokeFamily(x)
               \/ \E x \in Caller, n \in Coord, job \in Use : Start(x, n, job) /\ UNCHANGED facade
               \/ \E x \in Caller, c \in Component : RevokeComponent(x, c)
               \/ \E c \in Component : OperatorRevokes(c)
               \/ Crash
               \/ UNCHANGED vars
      <3>1. UNCHANGED <<aliasKey, made, issued, live, done, misnamed, store>>
        BY <2>4 DEF Cancel, RevokeFamily, Start, RevokeComponent, OperatorRevokes, Crash, slot, gateway,
           facade, vars, sessionVars
      <3>2. QED
        BY <3>1, KeepsSlot
    <2>5. QED
      BY <1>4, <2>1, <2>2, <2>3, <2>4 DEF ComponentNext
  <1>5. SlotInv <=> RegistryInv /\ SaverNewest
    BY DEF SlotInv
  <1>6. QED
    BY <1>1, <1>2, <1>3, <1>4, <1>5, RegistryInvariant, PTL DEF ComponentSpec, SlotPromise, Slot!SlotSpec
================================================================================
