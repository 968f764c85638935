---------------------------- MODULE MCAppliance ----------------------------
(***************************************************************************)
(* Small instances of the parts of the main process that meet only in the  *)
(* database: the intake under its rarer faults, the deciders and the runs  *)
(* their pairs are captured under, the corpus and its retention, the       *)
(* maintenance windows, the audit log, the accounts, the capability policy *)
(* and the vault.  They share no state a property is about, so a behaviour *)
(* exercises one of them: the variable that tells them apart never changes,*)
(* and the others stay as they began.                                      *)
(*                                                                         *)
(* The windows come three times: one that hides everything, under every    *)
(* request and failure; one that may begin at once, for the lengths it     *)
(* grows to, without traps; and two that overlap, with every rule, that    *)
(* nobody changes.                                                         *)
(* A second situation of the corpus is one that alarms are moved into, or  *)
(* that is merged away, under the default policy.                          *)
(*                                                                         *)
(* The hosts of the vault are interchangeable, so the credential is made   *)
(* for the first of them; of two requests in flight one is an edit, and no *)
(* lease is out while both are.                                            *)
(***************************************************************************)
EXTENDS MCIntake, Windows, AuditLog, Accounts, Governance, Vault, Corpus, Deciders

VARIABLE part

MCSpans == {<<1, 2>>, <<1, 3>>, <<0, 3>>}
MCPolicy == [sink |-> 1, training |-> 2, audit |-> 2]
MCCandidates == {[sink |-> 1, training |-> 2, audit |-> 3],
                 [sink |-> 2, training |-> 2, audit |-> 2]}
AnyHost == CHOOSE h \in Hosts : TRUE

MCInit ==
    /\ part \in {"intake", "deciders", "corpus", "window", "length", "overlap", "audit",
                 "accounts", "governance", "vault"}
    /\ Init /\ WindowsInit /\ AuditInit /\ AccountsInit /\ GovernanceInit /\ VaultInit
    /\ CorpusInit /\ DecidersInit
    /\ part # "accounts" => issued = 0
    /\ kind \in IF part = "intake" THEN {<<"event", "poison", "ignored", "event">>,
                                         <<"invalid", "event", "poison", "poison">>}
                ELSE {<<"event", "poison", "ignored", "event">>}

IntakePart ==
    /\ part = "intake" /\ Next
    /\ UNCHANGED <<deciderVars, corpusVars, windowVars, auditVars, accountVars, governanceVars,
                   vaultVars, part>>

DecidersPart ==
    /\ part = "deciders" /\ DecidersNext
    /\ UNCHANGED <<vars, corpusVars, windowVars, auditVars, accountVars, governanceVars,
                   vaultVars, part>>

Dataset ==
    /\ CorpusNext
    /\ sit'[2].status # "absent" =>
          /\ sit'[1].status # "absent" /\ sit'[1].decided = {} /\ policy' = DefaultPolicy /\ known'
          /\ sit'[2].event = Never /\ sit'[2].decided = {}

CorpusPart ==
    /\ part = "corpus" /\ Dataset
    /\ UNCHANGED <<vars, deciderVars, windowVars, auditVars, accountVars, governanceVars,
                   vaultVars, part>>

OneWindow ==
    /\ WindowsNext
    /\ window'[2].status = "absent" /\ window'[1].rules = "hide"
    /\ IF part = "window" THEN window'[1].status # "absent" => window'[1].starts > 0
                          ELSE UNCHANGED <<noted, alarm>>
    /\ \A c \in Clients : change'[c].rules \in {"hide", "kept"}

Overlap ==
    /\ \/ \E w \in Windows : create_window(w) \/ cancel_window(w)
       \/ \E clears \in BOOLEAN, ts \in Hours : process(clears, ts)
       \/ maintenance_windows \/ WindowsTick
    /\ \A w \in Windows : /\ window'[w].status # "pending_confirmation"
                           /\ window'[w].ends - window'[w].starts # 2

WindowPart ==
    /\ \/ part \in {"window", "length"} /\ OneWindow
       \/ part = "overlap" /\ Overlap
    /\ UNCHANGED <<vars, deciderVars, corpusVars, auditVars, accountVars, governanceVars,
                   vaultVars, part>>

AuditPart ==
    /\ part = "audit" /\ AuditNext
    /\ UNCHANGED <<vars, deciderVars, corpusVars, windowVars, accountVars, governanceVars,
                   vaultVars, part>>

AccountsPart ==
    /\ part = "accounts" /\ AccountsNext
    /\ UNCHANGED <<vars, deciderVars, corpusVars, windowVars, auditVars, governanceVars,
                   vaultVars, part>>

GovernancePart ==
    /\ part = "governance" /\ GovernanceNext
    /\ UNCHANGED <<vars, deciderVars, corpusVars, windowVars, auditVars, accountVars,
                   vaultVars, part>>

Credential ==
    /\ VaultNext
    /\ IF secret = None /\ secret' # None THEN secret'.host = AnyHost ELSE TRUE
    /\ IF asked'[1] = None THEN TRUE ELSE
          /\ asked'[1].op = "update"
          /\ IF asked'[2] = None THEN TRUE ELSE
                asked'[2].op = "update" => \A l \in Leases : lease'[l] = None

VaultPart ==
    /\ part = "vault" /\ Credential
    /\ UNCHANGED <<vars, deciderVars, corpusVars, windowVars, auditVars, accountVars,
                   governanceVars, part>>

MCNext ==
    \/ IntakePart
    \/ DecidersPart
    \/ CorpusPart
    \/ WindowPart
    \/ AuditPart
    \/ AccountsPart
    \/ GovernancePart
    \/ VaultPart

mcVars == <<vars, deciderVars, corpusVars, windowVars, auditVars, accountVars, governanceVars,
            vaultVars, part>>
MCSpec == MCInit /\ [][MCNext]_mcVars

=============================================================================
