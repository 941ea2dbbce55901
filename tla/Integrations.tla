------------------------------ MODULE Integrations ------------------------------
(***************************************************************************)
(* The installed integrations of a tenant and the credentials behind them, *)
(* from src/src/platform/integrations/manager.py with the credential vault *)
(* of common/secrets.py and the checks of common/provider.py.              *)
(*                                                                         *)
(* A configuration is valid or not: what a provider checks is whether the  *)
(* enabled scopes, synchronisation and webhooks are among its              *)
(* capabilities.  Credential references are numbered as they are issued.   *)
(***************************************************************************)
EXTENDS Integers

CONSTANTS
    Installations,   \* identifiers of integrations, used anew once one is gone
    MaxRefs          \* bound of the model: credentials issued

VARIABLES
    installed,   \* IntegrationManager.repo: [status, valid, ref], or Absent
    vault,       \* CredentialVault._refs and its store: the value behind each reference
    issued,      \* how many references there have been
    abandoned    \* the references of installations that were refused

intgVars == <<installed, vault, issued, abandoned>>

IntgAssumption == MaxRefs \in Nat

Refs     == 1..MaxRefs
NoRef    == 0
Absent   == [status |-> "absent", valid |-> TRUE, ref |-> NoRef]
Statuses == {"not_connected", "connected", "disabled"}
Secrets  == {"absent", "first", "rotated"}

IntgTypeOK ==
    /\ installed \in [Installations -> {Absent} \cup
           [status : Statuses, valid : BOOLEAN, ref : Refs \cup {NoRef}]]
    /\ vault \in [Refs -> Secrets]
    /\ issued \in 0..MaxRefs
    /\ abandoned \subseteq Refs

IntgInit ==
    /\ installed = [i \in Installations |-> Absent]
    /\ vault = [r \in Refs |-> "absent"]
    /\ issued = 0
    /\ abandoned = {}

IsInstalled(i) == installed[i] # Absent
SetStatus(i, status) == installed' = [installed EXCEPT ![i].status = status]

--------------------------------------------------------------------------------

\* issue() when there is a credential, and the reference the configuration gets.
Issue(given) ==
    IF given
      THEN /\ issued < MaxRefs
           /\ issued' = issued + 1
           /\ vault' = [vault EXCEPT ![issued + 1] = "first"]
      ELSE UNCHANGED <<issued, vault>>
RefOf(given) == IF given THEN issued + 1 ELSE NoRef

\* install() issues the credential before the configuration is validated.
Install(i, given) ==
    /\ ~IsInstalled(i)
    /\ Issue(given)
    /\ installed' = [installed EXCEPT ![i] =
           [status |-> "not_connected", valid |-> TRUE, ref |-> RefOf(given)]]
    /\ UNCHANGED abandoned

InstallRefused(given) ==
    /\ Issue(given)
    /\ abandoned' = abandoned \cup ({RefOf(given)} \ {NoRef})
    /\ UNCHANGED installed

\* configure() changes the stored configuration itself, and then validates it.
Configure(i, valid) ==
    /\ IsInstalled(i)
    /\ installed' = [installed EXCEPT ![i].valid = valid]
    /\ UNCHANGED <<vault, issued, abandoned>>

\* The simulated probe of a provider always succeeds, whatever the configuration.
Connect(i) ==
    /\ IsInstalled(i)
    /\ SetStatus(i, "connected")
    /\ UNCHANGED <<vault, issued, abandoned>>

Disconnect(i) ==
    /\ IsInstalled(i)
    /\ SetStatus(i, "not_connected")
    /\ UNCHANGED <<vault, issued, abandoned>>

Disable(i) ==
    /\ IsInstalled(i)
    /\ SetStatus(i, "disabled")
    /\ UNCHANGED <<vault, issued, abandoned>>

Rotate(r) ==
    /\ vault[r] # "absent"
    /\ vault' = [vault EXCEPT ![r] = "rotated"]
    /\ UNCHANGED <<installed, issued, abandoned>>

\* Mutated form: uninstalling revokes nothing.
Revoked_None(r) == vault

\* The vault without a reference; nothing is revoked where there is none.
Revoked(r) == [s \in Refs |-> IF s = r THEN "absent" ELSE vault[s]]

Uninstall(i) ==
    /\ IsInstalled(i)
    /\ vault' = Revoked(installed[i].ref)
    /\ installed' = [installed EXCEPT ![i] = Absent]
    /\ UNCHANGED <<issued, abandoned>>

IntgNext ==
    \/ \E i \in Installations : \E given \in BOOLEAN : Install(i, given)
    \/ \E given \in BOOLEAN : InstallRefused(given)
    \/ \E i \in Installations : \E valid \in BOOLEAN : Configure(i, valid)
    \/ \E i \in Installations : Connect(i) \/ Disconnect(i) \/ Disable(i) \/ Uninstall(i)
    \/ \E r \in Refs : Rotate(r)

IntgSpec == IntgInit /\ [][IntgNext]_intgVars

--------------------------------------------------------------------------------
(* Properties                                                                  *)

\* Credentials stay with their owners: the vault holds exactly the credentials
\* of the integrations that are installed, each of one integration only, and
\* those whose installation was refused, which nobody can revoke any more.
CredentialsAccounted ==
    LET held == {i \in Installations : installed[i].ref # NoRef} IN
    /\ {r \in Refs : vault[r] # "absent"} = {installed[i].ref : i \in held} \cup abandoned
    /\ \A i, j \in held : i # j => installed[i].ref # installed[j].ref
    /\ \A i \in held : installed[i].ref \notin abandoned

================================================================================
