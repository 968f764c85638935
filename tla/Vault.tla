------------------------------- MODULE Vault -------------------------------
(***************************************************************************)
(* One credential of the NOC's vault, the leases agents hold on it and the *)
(* commands run with it (api/routes/secrets.py, noc_access.py,             *)
(* noc_exec.py, api/noc_gate.py, store/noc_vault.py, store/noc_access.py,  *)
(* engine/noc/runbook.py).                                                 *)
(*                                                                         *)
(* Every handler reads what it needs in a snapshot, then confirms the      *)
(* caller, connects to a device or simply waits for the store's lock, and  *)
(* writes in a transaction that does not read again.  A request is what it *)
(* read.  The fields a seal is bound to (kind, host, port, protocol, level)*)
(* are one value here, the host; what is sealed is a number.               *)
(***************************************************************************)
EXTENDS Integers, FiniteSets

CONSTANTS
    Hosts,      \* where a credential may be for
    Tokens,     \* service tokens an administrator may name agents
    Leases,     \* the leases there may ever be
    Askers,     \* requests and playbook runs in flight
    None,       \* no row, no pin, nothing asked
    Gone,       \* a row that was deleted
    MaxLive,    \* MAX_LIVE_LEASES
    MaxContent  \* bound: the secrets ever typed in, and the versions

ASSUME VaultConstants == None # Gone /\ MaxLive \in Nat /\ MaxContent \in Nat

VARIABLES
    secret,  \* the noc_secret row
    agents,  \* noc_grant: the tokens that are agents
    lease,   \* per lease, None before it is issued
    asked,   \* per request, what it read and means to do
    typed    \* how many secrets have been typed in

vaultVars == <<secret, agents, lease, asked, typed>>

Contents == 1 .. MaxContent
SecretRows ==
    [host : Hosts, sealed : Hosts \X Contents, version : Contents, on : BOOLEAN,
     pin : Hosts \cup {None}, mixed : BOOLEAN]
Asks ==
    [op : {"update"}, read : SecretRows, host : Hosts, content : Contents \cup {0}, late : BOOLEAN]
      \cup [op : {"lease"}, token : Tokens, version : Contents, late : BOOLEAN]
      \cup [op : {"checked"}, late : BOOLEAN]
      \cup [op : {"running"}, host : Hosts, pinned : BOOLEAN, late : BOOLEAN]

(* What is not a row is not mistaken for one. *)
ASSUME VaultRows == None \notin SecretRows /\ Gone \notin SecretRows

VaultTypeOK ==
    /\ secret \in SecretRows \cup {None, Gone}
    /\ agents \subseteq Tokens
    /\ lease \in [Leases -> {None} \cup
         [token : Tokens, version : Contents, ended : BOOLEAN, late : BOOLEAN]]
    /\ asked \in [Askers -> Asks \cup {None}]
    /\ typed \in 0 .. MaxContent

VaultInit ==
    /\ secret = None /\ agents = {} /\ typed = 0
    /\ lease = [l \in Leases |-> None] /\ asked = [q \in Askers |-> None]

InVault == secret \notin {None, Gone}
Answered(q) == asked' = [asked EXCEPT ![q] = None]

(* Marks the requests an answer to which has just been overtaken. *)
Overtakes(q, ops) ==
    asked' = [p \in Askers |-> IF p = q THEN None
                               ELSE IF asked[p] # None /\ asked[p].op \in ops
                               THEN [asked[p] EXCEPT !.late = TRUE] ELSE asked[p]]

-----------------------------------------------------------------------------
seal(host, content) == <<host, content>>

(* secretbox.open: the seal opens under the binding it was made with. *)
opens(host, sealed) == sealed[1] = host

noc_live_leases(token) ==
    Cardinality({l \in Leases : lease[l] # None /\ lease[l].token = token /\ ~lease[l].ended})

EndLeases(of) ==
    [l \in Leases |-> IF lease[l] # None /\ of[l] THEN [lease[l] EXCEPT !.ended = TRUE] ELSE lease[l]]

noc_revoke_secret_leases == EndLeases([l \in Leases |-> TRUE])

noc_revoke_subject_leases(token) ==
    EndLeases([l \in Leases |-> lease[l] # None /\ lease[l].token = token])

(* gate.lease_state, for the agent that holds it. *)
lease_state(l) ==
    /\ lease[l] # None /\ ~lease[l].ended
    /\ InVault /\ secret.on /\ secret.version = lease[l].version
    /\ lease[l].token \in agents

-----------------------------------------------------------------------------
create_secret(host) ==
    /\ secret = None /\ typed < MaxContent /\ typed' = typed + 1
    /\ secret' = [host |-> host, sealed |-> seal(host, typed + 1), version |-> 1, on |-> FALSE,
                  pin |-> None, mixed |-> FALSE]
    /\ UNCHANGED <<agents, lease, asked>>

(* update_secret up to the caller's confirmation; content 0 keeps the sealed fields. *)
update_reads(q, host, content) ==
    /\ asked[q] = None /\ InVault
    /\ content \in {0, typed + 1} \cap 0 .. MaxContent
    /\ typed' = IF content = 0 THEN typed ELSE content
    /\ asked' = [asked EXCEPT ![q] = [op |-> "update", read |-> secret, host |-> host,
                                      content |-> content, late |-> FALSE]]
    /\ UNCHANGED <<secret, agents, lease>>

update_secret_keeps_seal(q) ==
    LET a == asked[q]
        resealed == a.content # 0
    IN  /\ a # None /\ a.op = "update" /\ InVault
        /\ resealed => secret.version < MaxContent
        /\ secret' = [secret EXCEPT !.host = a.host, !.mixed = @ \/ a.late,
                                    !.sealed = IF resealed THEN seal(a.host, a.content) ELSE @,
                                    !.version = IF resealed THEN @ + 1 ELSE @,
                                    !.pin = IF a.read.host # a.host THEN None ELSE @]
        /\ lease' = IF resealed THEN noc_revoke_secret_leases ELSE lease
        /\ Overtakes(q, {"update", "running"})
        /\ UNCHANGED <<agents, typed>>

(* Its transaction: what is sealed, whether it is a new version and whether *)
(* the pin goes are all decided by the row it read.                         *)
update_secret(q) ==
    LET a == asked[q]
        rebound == a.read.host # a.host
        resealed == a.content # 0 \/ rebound
        content == IF a.content # 0 THEN a.content ELSE a.read.sealed[2]
    IN  /\ a # None /\ a.op = "update" /\ InVault
        /\ resealed => secret.version < MaxContent
        /\ secret' = [secret EXCEPT !.host = a.host,
                                    !.sealed = IF resealed THEN seal(a.host, content)
                                               ELSE a.read.sealed,
                                    !.version = IF resealed THEN @ + 1 ELSE @,
                                    !.pin = IF rebound THEN None ELSE @,
                                    !.mixed = @ \/ a.late]
        /\ lease' = IF resealed THEN noc_revoke_secret_leases ELSE lease
        /\ Overtakes(q, {"update", "running"})
        /\ UNCHANGED <<agents, typed>>

(* The row, and by its foreign key its leases; an edit that read it updates nothing. *)
delete_secret ==
    /\ InVault /\ secret' = Gone
    /\ lease' = noc_revoke_secret_leases
    /\ asked' = [q \in Askers |-> IF asked[q] # None /\ asked[q].op \in {"update", "lease"}
                                  THEN None ELSE asked[q]]
    /\ UNCHANGED <<agents, typed>>

agent_access_only(on) ==
    /\ InVault /\ secret.on # on /\ secret' = [secret EXCEPT !.on = on]
    /\ asked' = [q \in Askers |-> IF ~on /\ asked[q] # None /\ asked[q].op = "lease"
                                  THEN [asked[q] EXCEPT !.late = TRUE] ELSE asked[q]]
    /\ UNCHANGED <<agents, lease, typed>>

agent_access(on) ==
    /\ InVault /\ secret.on # on /\ secret' = [secret EXCEPT !.on = on]
    /\ lease' = IF on THEN lease ELSE noc_revoke_secret_leases
    /\ asked' = [q \in Askers |-> IF ~on /\ asked[q] # None /\ asked[q].op = "lease"
                                  THEN [asked[q] EXCEPT !.late = TRUE] ELSE asked[q]]
    /\ UNCHANGED <<agents, typed>>

set_grant(token, on) ==
    /\ (token \in agents) # on
    /\ agents' = IF on THEN agents \cup {token} ELSE agents \ {token}
    /\ lease' = IF on THEN lease ELSE noc_revoke_subject_leases(token)
    /\ asked' = [q \in Askers |-> IF ~on /\ asked[q] # None /\ asked[q].op = "lease"
                                     /\ asked[q].token = token
                                  THEN [asked[q] EXCEPT !.late = TRUE] ELSE asked[q]]
    /\ UNCHANGED <<secret, typed>>

lease_reads(q, token) ==
    /\ asked[q] = None /\ token \in agents
    /\ InVault /\ secret.on /\ noc_live_leases(token) < MaxLive
    /\ asked' = [asked EXCEPT ![q] = [op |-> "lease", token |-> token,
                                      version |-> secret.version, late |-> FALSE]]
    /\ UNCHANGED <<secret, agents, lease, typed>>

issue_lease(q, l) ==
    /\ asked[q] # None /\ asked[q].op = "lease" /\ lease[l] = None /\ InVault
    /\ lease' = [lease EXCEPT ![l] = [token |-> asked[q].token, version |-> asked[q].version,
                                      ended |-> FALSE, late |-> asked[q].late]]
    /\ Answered(q) /\ UNCHANGED <<secret, agents, typed>>

(* Revoked by its agent or a custodian, or expired. *)
revoke_lease(l) ==
    /\ lease[l] # None /\ ~lease[l].ended
    /\ lease' = [lease EXCEPT ![l].ended = TRUE]
    /\ UNCHANGED <<secret, agents, asked, typed>>

(* /api/noc/exec: the lease is checked in one snapshot, the seal read in   *)
(* another; the row may have gone between them.                            *)
exec_checks(q, l) ==
    /\ asked[q] = None /\ lease_state(l)
    /\ asked' = [asked EXCEPT ![q] = [op |-> "checked", late |-> FALSE]]
    /\ UNCHANGED <<secret, agents, lease, typed>>

exec_opens(q) ==
    /\ asked[q] # None /\ asked[q].op = "checked"
    /\ asked' = [asked EXCEPT ![q] = IF InVault /\ opens(secret.host, secret.sealed)
                                     THEN [op |-> "running", host |-> secret.host,
                                           pinned |-> secret.pin # None, late |-> FALSE]
                                     ELSE None]
    /\ UNCHANGED <<secret, agents, lease, typed>>

(* A playbook's step: no lease, the switch alone. *)
runbook_credential(q) ==
    /\ asked[q] = None /\ InVault /\ secret.on /\ opens(secret.host, secret.sealed)
    /\ asked' = [asked EXCEPT ![q] = [op |-> "running", host |-> secret.host,
                                      pinned |-> secret.pin # None, late |-> FALSE]]
    /\ UNCHANGED <<secret, agents, lease, typed>>

(* The device answered, or did not: the first key seen is pinned. *)
exec_ran(q, connected) ==
    /\ asked[q] # None /\ asked[q].op = "running"
    /\ secret' = IF connected /\ ~asked[q].pinned /\ InVault
                 THEN [secret EXCEPT !.pin = asked[q].host, !.mixed = @ \/ asked[q].late]
                 ELSE secret
    /\ Answered(q) /\ UNCHANGED <<agents, lease, typed>>

forget_host_key ==
    /\ InVault /\ secret.pin # None /\ secret' = [secret EXCEPT !.pin = None]
    /\ UNCHANGED <<agents, lease, asked, typed>>

VaultNext ==
    \/ delete_secret \/ forget_host_key
    \/ \E host \in Hosts : create_secret(host)
    \/ \E on \in BOOLEAN : agent_access(on) \/ \E t \in Tokens : set_grant(t, on)
    \/ \E l \in Leases : revoke_lease(l)
    \/ \E q \in Askers :
         \/ update_secret(q) \/ exec_opens(q) \/ runbook_credential(q)
         \/ \E host \in Hosts, content \in 0 .. MaxContent : update_reads(q, host, content)
         \/ \E t \in Tokens : lease_reads(q, t)
         \/ \E l \in Leases : issue_lease(q, l) \/ exec_checks(q, l)
         \/ \E connected \in BOOLEAN : exec_ran(q, connected)

VaultSpec == VaultInit /\ [][VaultNext]_vaultVars

-----------------------------------------------------------------------------
(* The credential opens: whatever edits were prepared from rows that have  *)
(* since changed, what is sealed is sealed for the host in the same row.   *)
SealOpens == InVault => opens(secret.host, secret.sealed)

(* A key that is pinned is that of the host the credential is for ("a key  *)
(* pinned for one device says nothing about another"), unless an edit or a *)
(* command was overtaken by an edit.                                       *)
PinIsOfHost == InVault => secret.pin \in {None, secret.host} \/ secret.mixed

(* The row of a credential is of one host: its seal and its pin.           *)
CredentialIsOfHost == SealOpens /\ PinIsOfHost

(* A lease that has stopped working never works again, though the switch   *)
(* and the grant come back; one granted from a reading that a withdrawal   *)
(* overtook is the exception.                                              *)
LeasesEndForGood ==
    [][\A l \in Leases : lease[l] # None /\ ~lease_state(l) /\ ~lease[l].late
                           => ~lease_state(l)']_vaultVars

=============================================================================
