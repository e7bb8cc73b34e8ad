----------------------------- MODULE ComponentSlot -----------------------------
(***************************************************************************)
(* What the Android SDK promises about the slot of one component           *)
(* definition: a Keystore alias that holds at most one key, and a file     *)
(* that holds at most one session, of a component and under the key the    *)
(* component was issued to.  Keys are never used twice.  What is put into  *)
(* the file is the refresh token the gateway accepts at that time, never   *)
(* one that was spent meanwhile.  A component whose retirement was         *)
(* reported complete is ended: its session is never again in the file      *)
(* while its key is under the alias, unless the device has lost track of   *)
(* it.                                                                     *)
(***************************************************************************)
EXTENDS Naturals

CONSTANTS
    Key,        \* component keys
    Component,  \* component ids the gateway issues
    None        \* the empty slot

VARIABLES
    holder,     \* the key under the alias
    used,       \* keys generated so far
    bound,      \* the key each component was issued to
    accepted,   \* the refresh token the gateway accepts from a component, 0 for none
    file,       \* the persisted session
    ended,      \* components whose retirement was reported complete
    untracked   \* components whose entry was given to another one

slotVars == <<holder, used, bound, accepted, file, ended, untracked>>

NoSession == [key |-> None, component |-> None, token |-> 0]

SlotInit ==
    /\ holder = None
    /\ used = {}
    /\ bound = [c \in Component |-> None]
    /\ accepted = [c \in Component |-> 0]
    /\ file = NoSession
    /\ ended = {}
    /\ untracked = {}

Generate(k) ==
    /\ holder = None
    /\ k \notin used
    /\ holder' = k
    /\ used' = used \cup {k}
    /\ UNCHANGED <<bound, accepted, file, ended, untracked>>

Enroll(c, k) ==
    /\ bound[c] = None
    /\ k \in used
    /\ bound' = [bound EXCEPT ![c] = k]
    /\ UNCHANGED <<holder, used, accepted, file, ended, untracked>>

Rotate(c) ==
    /\ bound[c] # None
    /\ accepted' = [accepted EXCEPT ![c] = @ + 1]
    /\ UNCHANGED <<holder, used, bound, file, ended, untracked>>

Refuse(c) ==
    /\ accepted' = [accepted EXCEPT ![c] = 0]
    /\ UNCHANGED <<holder, used, bound, file, ended, untracked>>

\* An ended component may still come to the file by a late answer, under a dead key.
Deposit(c) ==
    /\ bound[c] # None
    /\ accepted[c] # 0
    /\ c \in ended \ untracked => bound[c] # holder
    /\ file' = [key |-> bound[c], component |-> c, token |-> accepted[c]]
    /\ UNCHANGED <<holder, used, bound, accepted, ended, untracked>>

Withdraw ==
    /\ file' = NoSession
    /\ UNCHANGED <<holder, used, bound, accepted, ended, untracked>>

Destroy ==
    /\ holder' = None
    /\ UNCHANGED <<used, bound, accepted, file, ended, untracked>>

\* The retirement that ends a component may be the one that takes the key away.
End(c) ==
    /\ bound[c] # None
    /\ holder' \in {holder, None}
    /\ c \in untracked \/ file.component # c \/ file.key # holder'
    /\ ended' = ended \cup {c}
    /\ UNCHANGED <<used, bound, accepted, file, untracked>>

Untrack(c) ==
    /\ bound[c] # None
    /\ untracked' = untracked \cup {c}
    /\ UNCHANGED <<holder, used, bound, accepted, file, ended>>

SlotNext ==
    \/ \E k \in Key : Generate(k) \/ \E c \in Component : Enroll(c, k)
    \/ \E c \in Component : Rotate(c) \/ Refuse(c) \/ Deposit(c) \/ End(c) \/ Untrack(c)
    \/ Withdraw
    \/ Destroy

SlotSpec == SlotInit /\ [][SlotNext]_slotVars
================================================================================
