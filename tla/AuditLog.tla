----------------------------- MODULE AuditLog -----------------------------
(***************************************************************************)
(* The hash-chained audit log (crosscutting/audit.py, store/audit_log.py). *)
(* Requests, the engine's loops and the CLI, another process, append to    *)
(* one table, each in a transaction of its own: an append takes the        *)
(* advisory lock, the tail it reads is what has been committed, and the    *)
(* lock goes with the transaction.  An administrator's request prunes rows *)
(* by their time.  A hash is the tuple of what it is computed from: two    *)
(* are equal exactly when those are.  Who did what, the seal (mac) and the *)
(* wording are left out.                                                   *)
(***************************************************************************)
EXTENDS Integers, FiniteSets

CONSTANTS
    Writers,   \* the transactions that append
    Early,     \* those that give a row a time they read before they held the lock
    Pruner,    \* the one an administrator prunes with: store.lock lets one run at a time
    Unlocked,  \* nobody: the lock is free
    Day,       \* how long a row is never pruned
    MaxRow,    \* bound: the highest row id
    MaxTime    \* bound: the clock

ASSUME AuditConstants ==
    /\ Early \subseteq Writers /\ Pruner \in Writers /\ Unlocked \notin Writers
    /\ Day \in Nat /\ MaxRow \in Nat /\ MaxTime \in Nat

VARIABLES
    log,     \* the committed rows
    holder,  \* whose transaction has the advisory lock
    added,   \* per writer, the rows its open transaction added
    deleted, \* and the rows it deleted
    read,    \* and the time it read before the lock
    clock

auditVars == <<log, holder, added, deleted, read, clock>>

GENESIS_HASH == <<>>

AuditInit ==
    /\ log = {} /\ holder = Unlocked /\ clock = 0
    /\ added = [w \in Writers |-> {}] /\ deleted = [w \in Writers |-> {}]
    /\ read = [w \in Writers |-> 0]

-----------------------------------------------------------------------------
compute_hash(prev, id, ts) == <<prev, id, ts>>

(* What a statement of w's transaction sees. *)
Visible(w) == (log \ deleted[w]) \cup added[w]

IsLast(r, rows) == r \in rows /\ \A s \in rows : s.id <= r.id

audit_last_hash(rows) ==
    IF rows = {} THEN GENESIS_HASH ELSE (CHOOSE r \in rows : IsLast(r, rows)).hash

audit_next_id(rows) ==
    IF rows = {} THEN 1 ELSE (CHOOSE r \in rows : IsLast(r, rows)).id + 1

audit_insert(id, ts, prev) ==
    [id |-> id, ts |-> ts, prev |-> prev, hash |-> compute_hash(prev, id, ts)]

audit_serialize_never(w) == TRUE

audit_serialize(w) == holder \in {w, Unlocked}

(* A tick of an engine loop: its one time is read before the store is its. *)
ReadsTime(w) ==
    /\ added[w] = {} /\ deleted[w] = {} /\ read[w] # clock
    /\ read' = [read EXCEPT ![w] = clock]
    /\ UNCHANGED <<log, holder, added, deleted, clock>>

write_event(w) ==
    LET rows == Visible(w)
        ts == IF w \in Early THEN read[w] ELSE clock
    IN  /\ audit_serialize(w) /\ holder' = w
        /\ audit_next_id(rows) <= MaxRow
        /\ added' = [added EXCEPT
                       ![w] = @ \cup {audit_insert(audit_next_id(rows), ts, audit_last_hash(rows))}]
        /\ UNCHANGED <<log, deleted, read, clock>>

(* prune_audit_log, the first statement of the route's transaction: no     *)
(* lock is held yet.                                                       *)
prune_audit(w) ==
    /\ w = Pruner /\ added[w] = {} /\ deleted[w] = {}
    /\ \E cutoff \in 0 .. MaxTime :
         /\ cutoff <= clock - Day
         /\ deleted' = [deleted EXCEPT ![w] = {r \in log : r.ts < cutoff}]
    /\ UNCHANGED <<log, holder, added, read, clock>>

Commit(w) ==
    /\ added[w] # {}
    /\ log' = Visible(w)
    /\ added' = [added EXCEPT ![w] = {}] /\ deleted' = [deleted EXCEPT ![w] = {}]
    /\ holder' = Unlocked
    /\ UNCHANGED <<read, clock>>

Rollback(w) ==
    /\ added[w] # {} \/ deleted[w] # {}
    /\ added' = [added EXCEPT ![w] = {}] /\ deleted' = [deleted EXCEPT ![w] = {}]
    /\ holder' = IF holder = w THEN Unlocked ELSE holder
    /\ UNCHANGED <<log, read, clock>>

Tick == clock < MaxTime /\ clock' = clock + 1 /\ UNCHANGED <<log, holder, added, deleted, read>>

AuditNext ==
    \/ Tick
    \/ \E w \in Writers : write_event(w) \/ prune_audit(w) \/ Commit(w) \/ Rollback(w)

AuditSpec == AuditInit /\ [][AuditNext]_auditVars

(* With the engine's loops, whose rows have the time of their tick. *)
EngineSpec == AuditInit /\ [][AuditNext \/ \E w \in Early : ReadsTime(w)]_auditVars

-----------------------------------------------------------------------------
(* audit.verify_rows: each row carries the hash of the row before it and   *)
(* its own; the first is taken as it is unless its id is 1.                *)
Adjacent(s, r, rows) == s.id < r.id /\ ~\E t \in rows : s.id < t.id /\ t.id < r.id

verify_rows(rows) ==
    \A r \in rows :
        /\ r.hash = compute_hash(r.prev, r.id, r.ts)
        /\ r.id = 1 => r.prev = GENESIS_HASH
        /\ \A s \in rows : Adjacent(s, r, rows) => r.prev = s.hash

(* The log verifies after every commit, whoever appended, rolled back or   *)
(* pruned, and however the transactions interleave: "the surviving suffix  *)
(* stays verifiable" (store/audit_log.py).                                 *)
ChainVerifies == verify_rows(log)

-----------------------------------------------------------------------------
(* Why it holds when every row's time is read under the lock: ids are      *)
(* those of one line, times never run back along it, and what a prune      *)
(* takes is its beginning.                                                 *)
Chained(rows, now) ==
    /\ \A r \in rows : r.id \in Nat /\ r.id >= 1 /\ r.ts \in Nat /\ r.ts <= now
    /\ \A r, s \in rows : r.id = s.id => r = s
    /\ \A r, s \in rows : r.id < s.id => r.ts <= s.ts
    /\ rows # {} => \E r \in rows : IsLast(r, rows)
    /\ verify_rows(rows)

AuditInv ==
    /\ clock \in Nat
    /\ added = [w \in Writers |-> added[w]] /\ deleted = [w \in Writers |-> deleted[w]]
    /\ Chained(log, clock)
    /\ \A w \in Writers :
         /\ added[w] # {} => holder = w
         /\ w # Pruner => deleted[w] = {}
         /\ deleted[w] \subseteq log
         /\ \A r \in deleted[w], s \in log : s.id < r.id => s \in deleted[w]
         /\ \A r \in added[w], s \in log \ deleted[w] : s.id < r.id
         /\ Chained(Visible(w), clock)

=============================================================================
