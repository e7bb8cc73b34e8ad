--------------------------- MODULE InstallationVault ---------------------------
(***************************************************************************)
(* What the Android SDK promises about one installation slot of a device:  *)
(* a Keystore alias that holds at most one key, and an encrypted           *)
(* preference file that holds at most one session grant, bound to the key  *)
(* it was issued to.  Keys are never used twice.  An identity whose        *)
(* clean-up has been reported complete is ended: it holds neither the      *)
(* alias nor the vault, in this process or in any later one.               *)
(***************************************************************************)

CONSTANTS
    Key,    \* installation key identities (RFC 7638 thumbprints)
    None    \* the empty slot

VARIABLES
    holder, \* the identity whose key is under the alias
    vault,  \* the identity of the persisted grant
    used,   \* identities generated so far
    ended   \* identities whose clean-up was reported complete

vaultVars == <<holder, vault, used, ended>>

VaultInit ==
    /\ holder = None
    /\ vault = None
    /\ used = {}
    /\ ended = {}

Provision(k) ==
    /\ holder = None
    /\ k \notin used
    /\ holder' = k
    /\ used' = used \cup {k}
    /\ UNCHANGED <<vault, ended>>

\* Retirement may still be under way: only a finished clean-up shuts the vault.
Deposit(k) ==
    /\ k \in used \ ended
    /\ vault' = k
    /\ UNCHANGED <<holder, used, ended>>

Withdraw ==
    /\ vault' = None
    /\ UNCHANGED <<holder, used, ended>>

Destroy ==
    /\ holder' = None
    /\ UNCHANGED <<vault, used, ended>>

End(k) ==
    /\ k \in used
    /\ vault # k
    /\ holder' = IF holder = k THEN None ELSE holder
    /\ ended' = ended \cup {k}
    /\ UNCHANGED <<vault, used>>

VaultNext ==
    \/ \E k \in Key : Provision(k) \/ Deposit(k) \/ End(k)
    \/ Withdraw
    \/ Destroy

VaultSpec == VaultInit /\ [][VaultNext]_vaultVars
================================================================================
