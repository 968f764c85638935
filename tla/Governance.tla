---------------------------- MODULE Governance ----------------------------
(***************************************************************************)
(* The capability policy: versions that are never changed, the pointer to  *)
(* the active one, the parsed copy the process keeps, the requests judged  *)
(* by it and the administrators who edit it (api/governance_cache.py,      *)
(* api/perimeter.py, store/governance.py, api/routes/governance.py).  The  *)
(* parsed copy belongs to the process, not to a request: between a         *)
(* request's snapshot and its verdict others refresh it.  A document is    *)
(* the set of the subjects it narrows.                                     *)
(***************************************************************************)
EXTENDS Integers, Sequences

CONSTANTS
    Subjects,   \* roles, people and tokens a policy may name
    Callers,    \* requests in flight
    Editors,    \* administrators' edits in flight
    MaxChange   \* bound: how often the pointer moves

ASSUME GovernanceConstants == MaxChange \in Nat

VARIABLES
    version,  \* governance_policy: the documents, by id
    active,   \* governance_active: the id, and how often the pointer has moved
    cached,   \* GovernancePolicies: the id it holds, and the move it was read at
    caller,   \* per request: idle, reading, or loaded
    edit      \* per edit: idle, or the document it read and the move it read it at

governanceVars == <<version, active, cached, caller, edit>>

Moves == 0 .. MaxChange
Pointer == [id : Moves, move : Moves]

GovernanceTypeOK ==
    /\ version \in Seq(SUBSET Subjects) /\ Len(version) <= MaxChange
    /\ active \in Pointer /\ cached \in Pointer
    /\ caller \in [Callers -> [step : {"idle", "reading", "loaded"}, saw : Pointer,
                               crowded : BOOLEAN]]
    /\ edit \in [Editors -> [at : {-1} \cup Moves, document : SUBSET Subjects]]

Start == [id |-> 0, move |-> 0]
Idle == [step |-> "idle", saw |-> Start, crowded |-> FALSE]
NoEdit == [at |-> -1, document |-> {}]

GovernanceInit ==
    /\ version = <<>> /\ active = Start /\ cached = Start
    /\ caller = [r \in Callers |-> Idle] /\ edit = [e \in Editors |-> NoEdit]

-----------------------------------------------------------------------------
(* GovernancePolicies.load begins: the pointer as the snapshot has it.     *)
(* Another request that is between its snapshot and its verdict may yet    *)
(* put back what it read.                                                  *)
load(r) ==
    /\ caller[r] = Idle
    /\ LET others == \E q \in Callers \ {r} : caller[q].step # "idle"
       IN  caller' = [q \in Callers |->
                        IF q = r THEN [step |-> "reading", saw |-> active, crowded |-> others]
                        ELSE caller[q]]
    /\ UNCHANGED <<version, active, cached, edit>>

load_once(r) ==
    /\ caller[r].step = "reading"
    /\ cached' = IF cached.id = 0 THEN caller[r].saw ELSE cached
    /\ caller' = [caller EXCEPT ![r].step = "loaded"]
    /\ UNCHANGED <<version, active, edit>>

(* _load_kind: a document is read and parsed when the id is another one. *)
load_kind(r) ==
    /\ caller[r].step = "reading"
    /\ cached' = IF caller[r].saw.id = cached.id
                 THEN [cached EXCEPT !.move = IF caller[r].saw.move > @ THEN caller[r].saw.move ELSE @]
                 ELSE caller[r].saw
    /\ caller' = [caller EXCEPT ![r].step = "loaded"]
    /\ UNCHANGED <<version, active, edit>>

(* Perimeter.security resolves the capabilities from the process's copy,   *)
(* once the snapshot's connection has been given back.                     *)
security(r) ==
    /\ caller[r].step = "loaded"
    /\ caller' = [caller EXCEPT ![r] = Idle]
    /\ UNCHANGED <<version, active, cached, edit>>

-----------------------------------------------------------------------------
set_active(id) == active' = [id |-> id, move |-> active.move + 1]

(* _write_policy with a document, a version to go back to, or neither. *)
insert_governance_policy(document) ==
    /\ active.move < MaxChange
    /\ version' = Append(version, document) /\ set_active(Len(version) + 1)
    /\ UNCHANGED <<cached, caller>>

Document(id) == IF id = 0 THEN {} ELSE version[id]

(* set_subject_access: the document is read in a snapshot and one entry of *)
(* it changed; the transaction writes the whole of it.                     *)
subject_reads(e) ==
    /\ edit[e] = NoEdit
    /\ edit' = [edit EXCEPT ![e] = [at |-> active.move, document |-> Document(active.id)]]
    /\ UNCHANGED <<version, active, cached, caller>>

set_subject_access(e, subject, narrow) ==
    /\ edit[e] # NoEdit
    /\ insert_governance_policy(IF narrow THEN edit[e].document \cup {subject}
                                ELSE edit[e].document \ {subject})
    /\ edit' = [edit EXCEPT ![e] = NoEdit]

set_rbac_policy ==
    /\ active.move < MaxChange
    /\ \E id \in 0 .. Len(version) : id # active.id /\ set_active(id)
    /\ UNCHANGED <<version, cached, caller, edit>>

GovernanceNext ==
    \/ set_rbac_policy
    \/ \E r \in Callers : load(r) \/ load_kind(r) \/ security(r)
    \/ \E e \in Editors : subject_reads(e)
    \/ \E e \in Editors, s \in Subjects, narrow \in BOOLEAN : set_subject_access(e, s, narrow)

GovernanceSpec == GovernanceInit /\ [][GovernanceNext]_governanceVars

-----------------------------------------------------------------------------
(* "A change lands on the very next request" (active_governance_ids): a    *)
(* request is judged by a policy no older than the one that was active     *)
(* when it began, unless another was in flight then and put back what it   *)
(* had read before.                                                        *)
ChangeLandsNext ==
    \A r \in Callers :
        caller[r].step = "loaded" /\ ~caller[r].crowded => cached.move >= caller[r].saw.move

=============================================================================
