---------------------------- MODULE AccessProofs ----------------------------
(***************************************************************************)
(* Who may do what, and the record of it: the audit log, the accounts, the *)
(* capability policy and the leases of a credential, each for any number   *)
(* of people, requests and changes.                                        *)
(*                                                                         *)
(* The audit chain verifies as long as no writer stamps its rows with a    *)
(* time it read before the lock.  The appliance that runs has an           *)
(* administrator, and what an account handed out before a change of it is  *)
(* not accepted after the change.  A change of the policy lands on the     *)
(* next request: whoever may still overwrite the parsed copy under a       *)
(* request that began alone began after it.  The row of a credential is of *)
(* one host, and a lease that stopped working stays so.                    *)
(***************************************************************************)
EXTENDS AuditLog, Accounts, Governance, Vault, FiniteSetTheorems, TLAPS

-----------------------------------------------------------------------------
(* The audit log *)

(* Appending under the lock keeps a chain: the new row is the last, its    *)
(* predecessor is the row that was last (audit_last_hash, audit_next_id).  *)
LEMMA AppendChained ==
    ASSUME NEW rows, NEW now \in Nat, Chained(rows, now),
           NEW new, new = audit_insert(audit_next_id(rows), now, audit_last_hash(rows))
    PROVE  /\ Chained(rows \cup {new}, now)
           /\ \A s \in rows : s.id < new.id
<1>1. CASE rows = {}
  <2>1. /\ new.id = 1 /\ new.ts = now /\ new.prev = GENESIS_HASH
        /\ new.hash = compute_hash(new.prev, new.id, new.ts)
    BY <1>1 DEF audit_insert, audit_next_id, audit_last_hash
  <2>2. rows \cup {new} = {new}
    BY <1>1
  <2>3. verify_rows({new})
    BY <2>1 DEF verify_rows, Adjacent
  <2> QED
    BY <2>1, <2>2, <2>3, <1>1 DEF Chained, IsLast
<1>2. CASE rows # {}
  <2> DEFINE last == CHOOSE r \in rows : IsLast(r, rows)
  <2>1. last \in rows /\ IsLast(last, rows)
    BY <1>2 DEF Chained
  <2> HIDE DEF last
  <2>2. /\ new.id = last.id + 1 /\ new.ts = now /\ new.prev = last.hash
        /\ new.hash = compute_hash(new.prev, new.id, new.ts)
    BY <1>2 DEF audit_insert, audit_next_id, audit_last_hash, last
  <2>3. \A s \in rows : s.id \in Nat /\ s.id < new.id /\ s.id >= 1 /\ s.ts \in Nat /\ s.ts <= now
    BY <2>1, <2>2 DEF Chained, IsLast
  <2>4. new.id \in Nat /\ new.id >= 1
    BY <2>1, <2>2, <2>3
  <2>5. \A s \in rows : Adjacent(s, new, rows \cup {new}) => s = last
    <3> SUFFICES ASSUME NEW s \in rows, Adjacent(s, new, rows \cup {new}), s # last
                 PROVE  FALSE
      OBVIOUS
    <3>1. s.id < last.id
      BY <2>1, <2>3 DEF IsLast, Chained
    <3> QED
      BY <3>1, <2>1, <2>3 DEF Adjacent
  <2>6. \A r, s \in rows : Adjacent(s, r, rows \cup {new}) => Adjacent(s, r, rows)
    BY DEF Adjacent
  <2>7. verify_rows(rows \cup {new})
    <3> SUFFICES ASSUME NEW r \in rows \cup {new}
                 PROVE  /\ r.hash = compute_hash(r.prev, r.id, r.ts)
                        /\ r.id = 1 => r.prev = GENESIS_HASH
                        /\ \A s \in rows \cup {new} :
                             Adjacent(s, r, rows \cup {new}) => r.prev = s.hash
      BY DEF verify_rows
    <3>1. CASE r = new
      <4>1. r.id # 1
        BY <3>1, <2>1, <2>2, <2>3
      <4>2. ~Adjacent(new, new, rows \cup {new})
        BY <2>4 DEF Adjacent
      <4> QED
        BY <3>1, <4>1, <4>2, <2>2, <2>5
    <3>2. CASE r \in rows
      <4>1. ~Adjacent(new, r, rows \cup {new})
        BY <3>2, <2>3, <2>4 DEF Adjacent
      <4>2. /\ r.hash = compute_hash(r.prev, r.id, r.ts)
            /\ r.id = 1 => r.prev = GENESIS_HASH
            /\ \A s \in rows : Adjacent(s, r, rows) => r.prev = s.hash
        BY <3>2 DEF Chained, verify_rows
      <4> QED
        BY <3>2, <4>1, <4>2, <2>6
    <3> QED
      BY <3>1, <3>2
  <2>8. IsLast(new, rows \cup {new})
    BY <2>3, <2>4 DEF IsLast
  <2>9. \A r, s \in rows \cup {new} : r.id = s.id => r = s
    BY <2>3, <2>4 DEF Chained
  <2>10. \A r, s \in rows \cup {new} : r.id < s.id => r.ts <= s.ts
    BY <2>2, <2>3, <2>4 DEF Chained
  <2> QED
    BY <2>2, <2>3, <2>4, <2>7, <2>8, <2>9, <2>10 DEF Chained
<1> QED
  BY <1>1, <1>2

(* Taking away a beginning of a chain leaves a chain: what verify_rows     *)
(* calls the surviving suffix.                                             *)
LEMMA SuffixChained ==
    ASSUME NEW rows, NEW now \in Nat, Chained(rows, now), NEW old,
           \A r \in old, s \in rows : s.id < r.id => s \in old
    PROVE  Chained(rows \ old, now)
<1>1. \A r, s \in rows \ old : Adjacent(s, r, rows \ old) => Adjacent(s, r, rows)
  BY DEF Adjacent
<1>2. verify_rows(rows \ old)
  BY <1>1 DEF verify_rows, Chained
<1>3. ASSUME rows \ old # {}
      PROVE  \E r \in rows \ old : IsLast(r, rows \ old)
  <2>1. PICK last \in rows : IsLast(last, rows)
    BY <1>3 DEF Chained
  <2>2. PICK s \in rows \ old : TRUE
    BY <1>3
  <2>3. last \notin old
    <3>1. s = last \/ s.id < last.id
      BY <2>1, <2>2 DEF IsLast, Chained
    <3> QED
      BY <3>1, <2>2
  <2> QED
    BY <2>1, <2>3 DEF IsLast
<1> QED
  BY <1>2, <1>3 DEF Chained

(* A chain stays one as time passes. *)
LEMMA LaterChained ==
    ASSUME NEW rows, NEW now \in Nat, Chained(rows, now)
    PROVE  Chained(rows, now + 1)
  BY DEF Chained

(* What a step of a writer, or of the clock, does to the invariant.        *)
LEMMA AuditStep ==
    ASSUME Early = {}, AuditInv, [AuditNext]_auditVars
    PROVE  AuditInv'
<1>1. CASE Tick
  <2>1. clock' \in Nat /\ Chained(log', clock')
    BY <1>1, LaterChained DEF Tick, AuditInv
  <2>2. \A w \in Writers : Visible(w)' = Visible(w) /\ Chained(Visible(w), clock + 1)
    BY <1>1, LaterChained DEF Tick, AuditInv, Visible
  <2> QED
    BY <1>1, <2>1, <2>2 DEF Tick, AuditInv
<1>2. ASSUME NEW w \in Writers, write_event(w)
      PROVE  AuditInv'
  <2> DEFINE new == audit_insert(audit_next_id(Visible(w)), clock, audit_last_hash(Visible(w)))
  <2>1. /\ holder \in {w, Unlocked} /\ holder' = w
        /\ added' = [added EXCEPT ![w] = @ \cup {new}]
        /\ UNCHANGED <<log, deleted, read, clock>>
    BY <1>2 DEF write_event, audit_serialize
  <2>2. Chained(Visible(w) \cup {new}, clock) /\ \A s \in Visible(w) : s.id < new.id
    <3>1. Chained(Visible(w), clock) /\ clock \in Nat
      BY DEF AuditInv
    <3> QED
      BY <3>1, AppendChained
  <2> HIDE DEF new
  <2>3. \A v \in Writers : added'[v] = IF v = w THEN added[w] \cup {new} ELSE added[v]
    BY <2>1 DEF AuditInv
  <2>4. added' = [v \in Writers |-> added'[v]] /\ deleted' = [v \in Writers |-> deleted'[v]]
    BY <2>1 DEF AuditInv
  <2>5. Visible(w)' = Visible(w) \cup {new}
    BY <2>1, <2>3 DEF Visible
  <2>6. \A v \in Writers \ {w} : Visible(v)' = Visible(v) /\ added[v] = {}
    <3>1. ASSUME NEW v \in Writers, v # w
          PROVE  Visible(v)' = Visible(v)
      BY <3>1, <2>1, <2>3 DEF Visible
    <3>2. ASSUME NEW v \in Writers, v # w
          PROVE  added[v] = {}
      BY <3>2, <2>1, AuditConstants DEF AuditInv
    <3> QED
      BY <3>1, <3>2
  <2>7. ASSUME NEW v \in Writers
        PROVE  /\ added'[v] # {} => holder' = v
               /\ \A r \in added'[v], s \in log' \ deleted'[v] : s.id < r.id
               /\ Chained(Visible(v), clock)'
    <3>1. CASE v = w
      BY <3>1, <2>1, <2>2, <2>3, <2>5 DEF AuditInv, Visible
    <3>2. CASE v # w
      BY <3>2, <2>1, <2>3, <2>6 DEF AuditInv
    <3> QED
      BY <3>1, <3>2
  <2> QED
    BY <2>1, <2>4, <2>7 DEF AuditInv
<1>3. ASSUME NEW w \in Writers, prune_audit(w)
      PROVE  AuditInv'
  <2>1. PICK cutoff \in 0 .. MaxTime :
          deleted' = [deleted EXCEPT ![w] = {r \in log : r.ts < cutoff}]
    BY <1>3 DEF prune_audit
  <2> DEFINE old == {r \in log : r.ts < cutoff}
  <2>2. /\ w = Pruner /\ added[w] = {} /\ UNCHANGED <<log, holder, added, read, clock>>
    BY <1>3 DEF prune_audit
  <2>3. \A r \in old, s \in log : s.id < r.id => s \in old
    BY DEF AuditInv, Chained
  <2>4. Chained(log \ old, clock)
    BY <2>3, SuffixChained DEF AuditInv
  <2>5. \A v \in Writers : deleted'[v] = IF v = w THEN old ELSE deleted[v]
    BY <2>1 DEF AuditInv
  <2>6. added' = [v \in Writers |-> added'[v]] /\ deleted' = [v \in Writers |-> deleted'[v]]
    BY <2>1, <2>2 DEF AuditInv
  <2>7. old \subseteq log
    OBVIOUS
  <2> HIDE DEF old
  <2>8. ASSUME NEW v \in Writers
        PROVE  /\ v # Pruner => deleted'[v] = {}
               /\ deleted'[v] \subseteq log'
               /\ \A r \in deleted'[v], s \in log' : s.id < r.id => s \in deleted'[v]
               /\ \A r \in added'[v], s \in log' \ deleted'[v] : s.id < r.id
               /\ Chained(Visible(v), clock)'
    <3>1. CASE v = w
      <4>1. Visible(v)' = log \ old
        BY <3>1, <2>2, <2>5 DEF Visible
      <4> QED
        BY <3>1, <4>1, <2>2, <2>3, <2>4, <2>5, <2>7
    <3>2. CASE v # w
      <4>1. Visible(v)' = Visible(v)
        BY <3>2, <2>2, <2>5 DEF Visible
      <4> QED
        BY <3>2, <4>1, <2>2, <2>5 DEF AuditInv
    <3> QED
      BY <3>1, <3>2
  <2> QED
    BY <2>2, <2>6, <2>8 DEF AuditInv
<1>4. ASSUME NEW w \in Writers, Commit(w)
      PROVE  AuditInv'
  <2>1. /\ added[w] # {} /\ holder = w /\ log' = Visible(w) /\ UNCHANGED clock
        /\ added' = [added EXCEPT ![w] = {}] /\ deleted' = [deleted EXCEPT ![w] = {}]
    BY <1>4 DEF Commit, AuditInv
  <2>2. added' = [v \in Writers |-> added'[v]] /\ deleted' = [v \in Writers |-> deleted'[v]]
    BY <2>1 DEF AuditInv
  <2>3. \A v \in Writers : added'[v] = {} /\ deleted'[v] = IF v = w THEN {} ELSE deleted[v]
    BY <2>1 DEF AuditInv
  <2>4. Chained(log', clock) /\ clock \in Nat
    BY <2>1 DEF AuditInv
  <2>5. ASSUME NEW v \in Writers
        PROVE  /\ v # Pruner => deleted'[v] = {}
               /\ deleted'[v] \subseteq log'
               /\ \A r \in deleted'[v], s \in log' : s.id < r.id => s \in deleted'[v]
               /\ Chained(Visible(v), clock)'
    <3>1. CASE v = w \/ v # Pruner
      <4>1. deleted'[v] = {}
        BY <3>1, <2>3 DEF AuditInv
      <4>2. Visible(v)' = log'
        BY <4>1, <2>3 DEF Visible
      <4> QED
        BY <4>1, <4>2, <2>1, <2>4
    <3>2. CASE v # w /\ v = Pruner
      <4>1. deleted[w] = {} /\ deleted'[v] = deleted[v] /\ log' = log \cup added[w]
        BY <3>2, <2>1, <2>3 DEF AuditInv, Visible
      <4>2. \A r \in added[w], s \in log : s.id < r.id
        BY <4>1 DEF AuditInv
      <4>3. deleted[v] \subseteq log'
        BY <4>1 DEF AuditInv
      <4>4. \A r \in deleted[v], s \in log' : s.id < r.id => s \in deleted[v]
        <5> SUFFICES ASSUME NEW r \in deleted[v], NEW s \in log', s.id < r.id
                     PROVE  s \in deleted[v]
          OBVIOUS
        <5>1. r \in log /\ r.id \in Nat
          BY DEF AuditInv, Chained
        <5>2. s.id \in Nat
          BY <2>4 DEF Chained
        <5>3. s \in log
          BY <5>1, <5>2, <4>1, <4>2
        <5> QED
          BY <5>3 DEF AuditInv
      <4>5. Chained(log' \ deleted[v], clock)
        BY <4>4, <2>4, SuffixChained
      <4>6. Visible(v)' = log' \ deleted[v]
        BY <4>1, <2>3 DEF Visible
      <4> QED
        BY <3>2, <4>1, <4>3, <4>4, <4>5, <4>6, <2>1
    <3> QED
      BY <3>1, <3>2
  <2> QED
    BY <2>1, <2>2, <2>3, <2>4, <2>5 DEF AuditInv
<1>5. ASSUME NEW w \in Writers, Rollback(w)
      PROVE  AuditInv'
  <2>1. /\ UNCHANGED <<log, clock>>
        /\ added' = [added EXCEPT ![w] = {}] /\ deleted' = [deleted EXCEPT ![w] = {}]
        /\ holder' = IF holder = w THEN Unlocked ELSE holder
    BY <1>5 DEF Rollback
  <2>2. added' = [v \in Writers |-> added'[v]] /\ deleted' = [v \in Writers |-> deleted'[v]]
    BY <2>1 DEF AuditInv
  <2>3. \A v \in Writers : /\ added'[v] = IF v = w THEN {} ELSE added[v]
                           /\ deleted'[v] = IF v = w THEN {} ELSE deleted[v]
    BY <2>1 DEF AuditInv
  <2>4. \A v \in Writers : Visible(v)' = IF v = w THEN log ELSE Visible(v)
    BY <2>1, <2>3 DEF Visible
  <2>5. \A v \in Writers : Chained(Visible(v), clock)'
    BY <2>1, <2>4 DEF AuditInv
  <2>6. \A v \in Writers : added'[v] # {} => holder' = v
    BY <2>1, <2>3 DEF AuditInv
  <2>7. \A v \in Writers :
          /\ v # Pruner => deleted'[v] = {}
          /\ deleted'[v] \subseteq log'
          /\ \A r \in deleted'[v], s \in log' : s.id < r.id => s \in deleted'[v]
          /\ \A r \in added'[v], s \in log' \ deleted'[v] : s.id < r.id
    BY <2>1, <2>3 DEF AuditInv
  <2> QED
    BY <2>1, <2>2, <2>5, <2>6, <2>7 DEF AuditInv
<1>6. CASE UNCHANGED auditVars
  <2>1. \A w \in Writers : Visible(w)' = Visible(w)
    BY <1>6 DEF auditVars, Visible
  <2> QED
    BY <1>6, <2>1 DEF auditVars, AuditInv
<1> QED
  BY <1>1, <1>2, <1>3, <1>4, <1>5, <1>6 DEF AuditNext

(* The log verifies after every commit for any writers, bounds and         *)
(* interleaving (write_event, prune_audit_log), when every row's time is   *)
(* read under the append lock.                                             *)
THEOREM ChainAlwaysVerifies ==
    ASSUME Early = {}
    PROVE  AuditSpec => []ChainVerifies
<1>1. AuditInit => AuditInv
  <2> SUFFICES ASSUME AuditInit PROVE AuditInv
    OBVIOUS
  <2>1. Chained({}, 0)
    BY DEF Chained, verify_rows
  <2>2. \A w \in Writers : Visible(w) = {}
    BY DEF AuditInit, Visible
  <2> QED
    BY <2>1, <2>2 DEF AuditInit, AuditInv
<1>2. AuditInv /\ [AuditNext]_auditVars => AuditInv'
  BY AuditStep
<1>3. AuditInv => ChainVerifies
  BY DEF AuditInv, Chained, ChainVerifies
<1> QED
  BY <1>1, <1>2, <1>3, PTL DEF AuditSpec

-----------------------------------------------------------------------------
(* The accounts *)

(* Before there is an administrator there is nobody and nothing.           *)
Founded ==
    \/ Admins # {}
    \/ /\ ~up /\ issued = 0 /\ session = {} /\ signing = Nothing
       /\ account = [u \in Users |-> Nothing] /\ link = [u \in Users |-> Nothing]

(* The transaction that has read an account still has what it read, unless *)
(* the CLI overtook it, which has ended the sessions of that account.      *)
SigningInv ==
    signing # Nothing =>
        /\ There(signing.user)
        /\ IF signing.caught THEN \A s \in session : s.user = signing.user => s.caught
                             ELSE signing.row = account[signing.user]

AccountsInv ==
    AccountsTypeOK /\ Founded /\ SigningInv /\ SessionsAreCurrent /\ LinksAreCurrent

-----------------------------------------------------------------------------
LEMMA ThereIsRow ==
    ASSUME AccountsTypeOK, NEW u \in Users
    PROVE  There(u) <=> account[u] \in Rows
  BY AccountRows DEF AccountsTypeOK, There

(* What a statement leaves in a row (store/auth.py).                       *)
LEMMA PasswordRow ==
    ASSUME NEW row \in Rows, issued \in 0 .. MaxPassword, issued < MaxPassword
    PROVE  /\ update_user_password(row) \in Rows /\ replace_password(row) \in Rows
           /\ update_user_password(row).role = row.role
           /\ update_user_password(row).email = row.email
           /\ update_user_password(row).password = issued + 1
           /\ replace_password(row).role = row.role
           /\ replace_password(row).email = row.email
           /\ issued + 1 \in 0 .. MaxPassword
<1>1. issued + 1 \in 1 .. MaxPassword /\ issued + 1 \in 0 .. MaxPassword
  BY AccountsConstants
<1>2. /\ update_user_password(row) = [row EXCEPT !.password = issued + 1, !.keyed = TRUE, !.must = FALSE]
      /\ replace_password(row) = [row EXCEPT !.password = issued + 1, !.keyed = TRUE, !.must = TRUE]
  BY DEF update_user_password, replace_password
<1> QED
  BY <1>1, <1>2 DEF Rows

LEMMA RehashRow ==
    ASSUME NEW row \in Rows, NEW old \in Rows
    PROVE  /\ rehash_password(row, old) \in Rows
           /\ rehash_password(row, old).role = row.role
           /\ rehash_password(row, old).email = row.email
           /\ rehash_password(row, old).password = old.password
  BY DEF rehash_password, Rows

LEMMA MadeRow ==
    ASSUME issued \in 0 .. MaxPassword, issued < MaxPassword,
           NEW role \in Roles, NEW keyed \in BOOLEAN, NEW must \in BOOLEAN
    PROVE  /\ NewRow(role, keyed, must) \in Rows /\ NewRow(role, keyed, must).role = role
           /\ issued + 1 \in 0 .. MaxPassword
  BY AccountsConstants DEF NewRow, Rows

(* One row is written: who is there and what the others are is as before.  *)
LEMMA Written ==
    ASSUME AccountsTypeOK, NEW u \in Users, NEW row \in Rows,
           account' = [account EXCEPT ![u] = row]
    PROVE  /\ account' \in [Users -> Rows \cup {Nothing, Deleted}]
           /\ account'[u] = row /\ There(u)'
           /\ \A v \in Users : v # u => account'[v] = account[v] /\ (There(v)' <=> There(v))
           /\ row.role = "admin" => u \in Admins'
           /\ There(u) /\ row.role = account[u].role => Admins' = Admins
  BY AccountRows DEF AccountsTypeOK, There, Admins

(* Removing or demoting an account leaves another administrator            *)
(* (_would_remove_last_admin).                                             *)
LEMMA AnotherAdmin ==
    ASSUME AccountsTypeOK, NEW u \in Users, NEW role, role # "admin", There(u),
           Admins # {}, ~would_remove_last_admin(u, role)
    PROVE  \E v \in Users : v # u /\ v \in Admins
<1>1. IsFiniteSet(Admins \ {u})
  BY AccountsConstants, FS_Subset DEF Admins
<1>2. CASE account[u].role = "admin"
  <2>1. Cardinality(Admins \ {u}) # 0
    BY <1>2 DEF would_remove_last_admin, count_enabled_admins
  <2>2. Admins \ {u} # {}
    BY <2>1, FS_EmptySet
  <2> QED
    BY <2>2 DEF Admins
<1>3. CASE account[u].role # "admin"
  BY <1>3 DEF Admins
<1> QED
  BY <1>2, <1>3

-----------------------------------------------------------------------------
(* A new password of an account, with its sessions ended: the form every   *)
(* reset, change and first sign-in has.                                    *)
LEMMA NewPasswordKeeps ==
    ASSUME AccountsInv, NEW u \in Users, There(u), NEW row \in Rows,
           row.role = account[u].role, row.email = account[u].email,
           account' = [account EXCEPT ![u] = row], issued' \in 0 .. MaxPassword,
           link' = link \/ link' = withdraw_resets(u),
           request' = request \/ \E r \in Requests : Done(r), up' \in BOOLEAN,
           session' = revoke_user_sessions(session, u)
    PROVE  /\ account' \in [Users -> Rows \cup {Nothing, Deleted}]
           /\ link' \in [Users -> Emails \cup {Nothing}]
           /\ request' \in [Requests -> Principals \cup {Nothing}]
           /\ session' \subseteq session /\ \A s \in session' : s.user # u
           /\ Admins' = Admins /\ Admins # {}
           /\ SessionsAreCurrent' /\ LinksAreCurrent'
           /\ \A v \in Users : v # u => account'[v] = account[v] /\ (There(v)' <=> There(v))
           /\ There(u)'
<1>1. /\ account' \in [Users -> Rows \cup {Nothing, Deleted}] /\ There(u)'
      /\ account'[u] = row /\ Admins' = Admins
      /\ \A v \in Users : v # u => account'[v] = account[v] /\ (There(v)' <=> There(v))
  BY Written DEF AccountsInv
<1>2. Admins # {}
  BY DEF AccountsInv, Founded, There
<1>3. /\ link' \in [Users -> Emails \cup {Nothing}]
      /\ \A v \in Users : link'[v] = link[v] \/ link'[v] = Nothing
  BY DEF AccountsInv, AccountsTypeOK, withdraw_resets
<1>4. request' \in [Requests -> Principals \cup {Nothing}]
  BY DEF AccountsInv, AccountsTypeOK, Done
<1>5. session' \subseteq session /\ \A s \in session' : s.user # u
  BY DEF revoke_user_sessions
<1>6. SessionsAreCurrent'
  <2> SUFFICES ASSUME NEW s \in session', ~s.caught
               PROVE  /\ There(s.user)' /\ s.password = account'[s.user].password
                      /\ s.role = account'[s.user].role
    BY DEF SessionsAreCurrent
  <2>1. s \in session /\ s.user \in Users /\ s.user # u
    BY <1>5 DEF AccountsInv, AccountsTypeOK
  <2> QED
    BY <1>1, <2>1 DEF AccountsInv, SessionsAreCurrent
<1>7. LinksAreCurrent'
  <2> SUFFICES ASSUME NEW v \in Users, link'[v] # Nothing
               PROVE  There(v)' /\ link'[v] = account'[v].email
    BY DEF LinksAreCurrent
  <2>1. link'[v] = link[v] /\ There(v) /\ link[v] = account[v].email
    BY <1>3 DEF AccountsInv, LinksAreCurrent
  <2> QED
    BY <1>1, <2>1
<1> QED
  BY <1>1, <1>2, <1>3, <1>4, <1>5, <1>6, <1>7

(* With it the invariant is kept, whatever transaction was on the way.     *)
LEMMA ResetKeeps ==
    ASSUME AccountsInv, NEW u \in Users, There(u), NEW row \in Rows,
           row.role = account[u].role, row.email = account[u].email,
           account' = [account EXCEPT ![u] = row], issued' \in 0 .. MaxPassword,
           link' = link \/ link' = withdraw_resets(u),
           request' = request \/ \E r \in Requests : Done(r), up' = up,
           session' = revoke_user_sessions(session, u),
           \/ signing' = Nothing
           \/ signing' = signing /\ signing # Nothing /\ signing.user # u
           \/ /\ signing # Nothing /\ signing.user = u
              /\ signing' = [signing EXCEPT !.caught = TRUE]
    PROVE  AccountsInv'
<1>1. /\ up \in BOOLEAN /\ signing \in Signings \cup {Nothing} /\ Nothing \notin Signings
      /\ There(u)
  BY AccountRows DEF AccountsInv, AccountsTypeOK
<1>2. /\ account' \in [Users -> Rows \cup {Nothing, Deleted}]
      /\ link' \in [Users -> Emails \cup {Nothing}]
      /\ request' \in [Requests -> Principals \cup {Nothing}]
      /\ session' \subseteq session /\ \A s \in session' : s.user # u
      /\ Admins' = Admins /\ Admins # {}
      /\ SessionsAreCurrent' /\ LinksAreCurrent'
      /\ \A v \in Users : v # u => account'[v] = account[v] /\ (There(v)' <=> There(v))
      /\ There(u)'
  BY <1>1, NewPasswordKeeps
<1>3. signing' \in Signings \cup {Nothing}
  BY <1>1 DEF Signings
<1>4. AccountsTypeOK'
  BY <1>1, <1>2, <1>3 DEF AccountsInv, AccountsTypeOK
<1>5. Founded'
  BY <1>2 DEF Founded
<1>6. SigningInv'
  <2>1. CASE signing' = Nothing
    BY <2>1 DEF SigningInv
  <2>2. CASE signing' = signing /\ signing # Nothing /\ signing.user # u
    <3> DEFINE v == signing.user
    <3>1. v \in Users /\ v # u
      BY <1>1, <2>2 DEF Signings
    <3>2. There(v)' /\ account'[v] = account[v]
      BY <1>2, <2>2, <3>1 DEF AccountsInv, SigningInv
    <3> QED
      BY <1>2, <2>2, <3>2 DEF AccountsInv, SigningInv, There
  <2>3. CASE signing # Nothing /\ signing.user = u /\ signing' = [signing EXCEPT !.caught = TRUE]
    <3>1. signing'.user = u /\ signing'.caught = TRUE
      BY <1>1, <2>3 DEF Signings
    <3> QED
      BY <1>2, <3>1 DEF SigningInv, There
  <2> QED
    BY <2>1, <2>2, <2>3
<1> QED
  BY <1>2, <1>4, <1>5, <1>6 DEF AccountsInv

LEMMA PasswordsKeep ==
    ASSUME AccountsInv, NEW u \in Users,
           \/ cli_reset_password(u) \/ confirm_reset(u) \/ PasswordChanged
           \/ \E r \in Requests : reset_user_password(r, u)
    PROVE  AccountsInv'
<1>1. issued \in 0 .. MaxPassword /\ signing \in Signings \cup {Nothing}
  BY DEF AccountsInv, AccountsTypeOK
<1>2. CASE cli_reset_password(u)
  <2>1. There(u) /\ account[u] \in Rows /\ issued < MaxPassword
    BY <1>2, ThereIsRow DEF cli_reset_password, AccountsInv
  <2> DEFINE row == replace_password(account[u])
  <2>2. /\ account' = [account EXCEPT ![u] = row] /\ issued' = issued + 1
        /\ link' = withdraw_resets(u) /\ session' = revoke_user_sessions(session, u)
        /\ request' = request /\ up' = up
        /\ signing' = IF signing # Nothing /\ signing.user = u
                      THEN [signing EXCEPT !.caught = TRUE] ELSE signing
    BY <1>2 DEF cli_reset_password
  <2>3. row \in Rows /\ row.role = account[u].role /\ row.email = account[u].email
        /\ issued + 1 \in 0 .. MaxPassword
    BY <1>1, <2>1, PasswordRow
  <2> HIDE DEF row
  <2> QED
    BY <2>1, <2>2, <2>3, ResetKeeps
<1>3. CASE confirm_reset(u)
  <2>1. There(u) /\ account[u] \in Rows /\ issued < MaxPassword
    BY <1>3, ThereIsRow DEF confirm_reset, AccountsInv, LinksAreCurrent
  <2> DEFINE row == update_user_password(account[u])
  <2>2. /\ account' = [account EXCEPT ![u] = row] /\ issued' = issued + 1
        /\ link' = withdraw_resets(u) /\ session' = revoke_user_sessions(session, u)
        /\ request' = request /\ up' = up /\ signing' = Nothing
    BY <1>3 DEF confirm_reset, withdraw_resets
  <2>3. row \in Rows /\ row.role = account[u].role /\ row.email = account[u].email
        /\ issued + 1 \in 0 .. MaxPassword
    BY <1>1, <2>1, PasswordRow
  <2> HIDE DEF row
  <2> QED
    BY <2>1, <2>2, <2>3, ResetKeeps
<1>4. CASE PasswordChanged
  <2> DEFINE v == signing.user
             row == update_user_password(account[v])
  <2>1. v \in Users /\ There(v) /\ issued < MaxPassword
    BY <1>1, <1>4 DEF PasswordChanged, AccountsInv, SigningInv, Signings
  <2>2. account[v] \in Rows
    BY <2>1, ThereIsRow DEF AccountsInv
  <2>3. /\ account' = [account EXCEPT ![v] = row] /\ issued' = issued + 1
        /\ link' = link /\ session' = revoke_user_sessions(session, v)
        /\ request' = request /\ up' = up /\ signing' = Nothing
    BY <1>4 DEF PasswordChanged
  <2>4. row \in Rows /\ row.role = account[v].role /\ row.email = account[v].email
        /\ issued + 1 \in 0 .. MaxPassword
    BY <1>1, <2>1, <2>2, PasswordRow
  <2> HIDE DEF row, v
  <2> QED
    BY <2>1, <2>3, <2>4, ResetKeeps
<1>5. CASE \E r \in Requests : reset_user_password(r, u)
  <2> PICK r \in Requests : reset_user_password(r, u)
    BY <1>5
  <2>1. There(u) /\ account[u] \in Rows /\ issued < MaxPassword /\ signing = Nothing
    BY ThereIsRow DEF reset_user_password, Manages, Acts, AccountsInv
  <2> DEFINE row == replace_password(account[u])
  <2>2. /\ account' = [account EXCEPT ![u] = row] /\ issued' = issued + 1
        /\ link' = withdraw_resets(u) /\ session' = revoke_user_sessions(session, u)
        /\ Done(r) /\ up' = up /\ signing' = Nothing
    BY <2>1 DEF reset_user_password, Done
  <2>3. row \in Rows /\ row.role = account[u].role /\ row.email = account[u].email
        /\ issued + 1 \in 0 .. MaxPassword
    BY <1>1, <2>1, PasswordRow
  <2> HIDE DEF row
  <2> QED
    BY <2>1, <2>2, <2>3, ResetKeeps
<1> QED
  BY <1>2, <1>3, <1>4, <1>5

-----------------------------------------------------------------------------
LEMMA AccountsBegin == AccountsInit => AccountsInv
<1> SUFFICES ASSUME AccountsInit PROVE AccountsInv
  OBVIOUS
<1> DEFINE old == [role |-> "admin", password |-> 1, keyed |-> FALSE, must |-> FALSE,
                   email |-> Nothing]
<1>1. old \in Rows /\ old.role = "admin" /\ old # Nothing /\ old # Deleted
  <2>1. 1 \in 1 .. MaxPassword
    BY AccountsConstants
  <2>2. old \in Rows
    BY <2>1 DEF Rows, Roles
  <2> QED
    BY <2>2, AccountRows
<1>2. issued \in 0 .. MaxPassword
  BY AccountsConstants DEF AccountsInit
<1>3. \/ account = [u \in Users |-> Nothing] /\ issued = 0
      \/ account = [u \in Users |-> IF u # FirstAdmin THEN Nothing ELSE old]
  BY DEF AccountsInit
<1> HIDE DEF old
<1>4. AccountsTypeOK
  BY <1>1, <1>2, <1>3, AccountsConstants DEF AccountsInit, AccountsTypeOK
<1>5. Founded
  <2>1. CASE account = [u \in Users |-> Nothing] /\ issued = 0
    BY <2>1 DEF AccountsInit, Founded
  <2>2. CASE account = [u \in Users |-> IF u # FirstAdmin THEN Nothing ELSE old]
    BY <1>1, <2>2, AccountsConstants DEF Founded, Admins, There
  <2> QED
    BY <1>3, <2>1, <2>2
<1>6. SigningInv /\ SessionsAreCurrent /\ LinksAreCurrent
  BY DEF AccountsInit, SigningInv, SessionsAreCurrent, LinksAreCurrent
<1> QED
  BY <1>4, <1>5, <1>6 DEF AccountsInv

(* The first administrator is made when there is nobody at all.            *)
LEMMA BootstrapKeeps == AccountsInv /\ bootstrap_admin => AccountsInv'
<1> SUFFICES ASSUME AccountsInv, bootstrap_admin PROVE AccountsInv'
  OBVIOUS
<1>1. /\ up' = TRUE /\ session' = session /\ link' = link /\ request' = request
      /\ signing' = signing
  BY DEF bootstrap_admin
<1>2. CASE Admins # {}
  <2>1. account' = account /\ issued' = issued
    BY <1>2 DEF bootstrap_admin
  <2> QED
    BY <1>1, <1>2, <2>1 DEF AccountsInv, AccountsTypeOK, Founded, SigningInv, SessionsAreCurrent,
                          LinksAreCurrent, There, Admins
<1>3. CASE Admins = {}
  <2> DEFINE row == NewRow("admin", TRUE, TRUE)
  <2>1. /\ account' = [account EXCEPT ![FirstAdmin] = row] /\ issued' = issued + 1
        /\ session = {} /\ signing = Nothing /\ issued = 0
        /\ link = [u \in Users |-> Nothing] /\ FirstAdmin \in Users
    BY <1>3, AccountsConstants DEF bootstrap_admin, AccountsInv, Founded
  <2>2. row \in Rows /\ row.role = "admin" /\ issued' \in 0 .. MaxPassword
    <3>1. issued \in 0 .. MaxPassword /\ issued < MaxPassword
      BY <2>1, AccountsConstants
    <3>2. "admin" \in Roles /\ TRUE \in BOOLEAN
      BY DEF Roles
    <3>3. row \in Rows /\ row.role = "admin" /\ issued + 1 \in 0 .. MaxPassword
      BY <3>1, <3>2, MadeRow
    <3> QED
      BY <2>1, <3>3
  <2> HIDE DEF row
  <2>3. /\ account' \in [Users -> Rows \cup {Nothing, Deleted}] /\ FirstAdmin \in Admins'
    BY <2>1, <2>2, Written DEF AccountsInv
  <2>4. AccountsTypeOK'
    BY <1>1, <2>2, <2>3 DEF AccountsInv, AccountsTypeOK
  <2> QED
    BY <1>1, <2>1, <2>3, <2>4 DEF AccountsInv, Founded, SigningInv, SessionsAreCurrent, LinksAreCurrent
<1> QED
  BY <1>2, <1>3

(* A sign-in opens its session under the password it checked.              *)
LEMMA SignInKeeps == AccountsInv /\ perform_login => AccountsInv'
<1> SUFFICES ASSUME AccountsInv, perform_login PROVE AccountsInv'
  OBVIOUS
<1> PICK u \in Users : u = signing.user
  BY DEF perform_login, AccountsInv, AccountsTypeOK, Signings
<1> DEFINE old == signing.row
           row == IF old.must THEN update_user_password(account[u])
                  ELSE IF old.keyed THEN account[u]
                  ELSE rehash_password(account[u], old)
           seen == IF old.must THEN row ELSE [row EXCEPT !.password = old.password]
           kept == IF old.must THEN revoke_user_sessions(session, u) ELSE session
           new == [user |-> u, password |-> seen.password, role |-> seen.role,
                   caught |-> signing.caught]
<1>1. /\ signing # Nothing /\ (old.must => issued < MaxPassword)
      /\ issued' = (IF old.must THEN issued + 1 ELSE issued)
      /\ account' = [account EXCEPT ![u] = row] /\ session' = kept \cup {new}
      /\ signing' = Nothing /\ link' = link /\ request' = request /\ up' = up
  BY DEF perform_login, create_session
<1>2. /\ u \in Users /\ old \in Rows /\ signing.caught \in BOOLEAN /\ old.must \in BOOLEAN
      /\ issued \in 0 .. MaxPassword
  BY <1>1 DEF AccountsInv, AccountsTypeOK, Signings, Rows
<1>3. There(u) /\ account[u] \in Rows
  BY <1>1, <1>2, ThereIsRow DEF AccountsInv, SigningInv
<1>4. /\ row \in Rows /\ row.role = account[u].role /\ row.email = account[u].email
      /\ issued' \in 0 .. MaxPassword
  BY <1>1, <1>2, <1>3, PasswordRow, RehashRow
<1>5. /\ seen.role = row.role /\ seen.password \in 1 .. MaxPassword
      /\ seen.password = (IF old.must THEN row.password ELSE old.password)
  BY <1>2, <1>4 DEF Rows
<1>6. ~signing.caught => seen.password = row.password
  <2>1. CASE ~signing.caught /\ ~old.must /\ old.keyed
    BY <1>1, <1>5, <2>1 DEF AccountsInv, SigningInv
  <2>2. CASE ~signing.caught /\ ~old.must /\ ~old.keyed
    BY <1>2, <1>3, <1>5, <2>2, RehashRow
  <2> QED
    BY <1>2, <1>5, <2>1, <2>2 DEF Rows
<1>7. \A s \in kept : s \in session /\ (s.user = u => s.caught \/ s.password = row.password)
  <2> SUFFICES ASSUME NEW s \in kept, s.user = u, ~s.caught PROVE s.password = row.password
    BY DEF revoke_user_sessions
  <2>1. s \in session /\ ~old.must
    BY DEF revoke_user_sessions
  <2>2. signing.row = account[u]
    BY <1>1, <2>1 DEF AccountsInv, SigningInv
  <2>3. s.password = account[u].password
    BY <2>1 DEF AccountsInv, SessionsAreCurrent
  <2> QED
    BY <1>2, <1>3, <2>1, <2>2, <2>3, RehashRow
<1>8. \A s \in session' : s \in session \/ s = new
  BY <1>1, <1>7
<1>9. /\ new.user = u /\ new.password = seen.password /\ new.role = row.role
      /\ new.caught = signing.caught
      /\ new \in [user : Users, password : 1 .. MaxPassword, role : Roles, caught : BOOLEAN]
  BY <1>2, <1>4, <1>5 DEF Rows
<1>10. \A s \in session' : s.user = u /\ ~s.caught => s.password = row.password
  BY <1>1, <1>6, <1>7, <1>9
<1> HIDE DEF row, seen, kept, new, old
<1>11. /\ account' \in [Users -> Rows \cup {Nothing, Deleted}] /\ There(u)'
       /\ account'[u] = row /\ Admins' = Admins
       /\ \A v \in Users : v # u => account'[v] = account[v] /\ (There(v)' <=> There(v))
  BY <1>1, <1>2, <1>3, <1>4, Written DEF AccountsInv
<1>12. AccountsTypeOK'
  BY <1>1, <1>4, <1>8, <1>9, <1>11 DEF AccountsInv, AccountsTypeOK
<1>13. Founded'
  BY <1>1, <1>11 DEF AccountsInv, Founded
<1>14. SigningInv'
  BY <1>1 DEF SigningInv
<1>15. SessionsAreCurrent'
  <2> SUFFICES ASSUME NEW s \in session', ~s.caught
               PROVE  There(s.user)' /\ s.password = account'[s.user].password
                      /\ s.role = account'[s.user].role
    BY DEF SessionsAreCurrent
  <2>1. CASE s.user = u
    <3>1. s.role = row.role
      BY <1>4, <1>8, <1>9, <2>1 DEF AccountsInv, SessionsAreCurrent
    <3> QED
      BY <1>10, <1>11, <2>1, <3>1
  <2>2. CASE s.user # u
    <3>1. s \in session /\ s.user \in Users
      BY <1>8, <1>9, <2>2 DEF AccountsInv, AccountsTypeOK
    <3> QED
      BY <1>11, <2>2, <3>1 DEF AccountsInv, SessionsAreCurrent
  <2> QED
    BY <2>1, <2>2
<1>16. LinksAreCurrent'
  BY <1>1, <1>4, <1>11 DEF AccountsInv, LinksAreCurrent
<1> QED
  BY <1>12, <1>13, <1>14, <1>15, <1>16 DEF AccountsInv

-----------------------------------------------------------------------------
(* What only reads, ends or expires something changes no account.          *)
LinksEnd == \A v \in Users : \/ link'[v] = link[v] \/ link'[v] = Nothing
                             \/ link'[v] = account[v].email /\ There(v)

SigningMoves ==
    \/ signing' = signing \/ signing' = Nothing
    \/ \E u \in Users : /\ signing' \in Signings /\ signing'.user = u /\ There(u)
                        /\ ~signing'.caught /\ signing'.row = account[u]

LEMMA RowsUnchanged ==
    ASSUME AccountsInv, Admins # {}, account' = account, issued' = issued,
           session' \subseteq session, link' \in [Users -> Emails \cup {Nothing}], LinksEnd,
           request' \in [Requests -> Principals \cup {Nothing}], up' \in BOOLEAN, SigningMoves
    PROVE  AccountsInv'
<1>1. \A v \in Users : There(v)' <=> There(v)
  BY DEF There
<1>2. Admins' = Admins
  BY DEF Admins, There
<1>3. AccountsTypeOK'
  BY DEF AccountsInv, AccountsTypeOK, SigningMoves
<1>4. Founded'
  BY <1>2 DEF Founded
<1>5. SigningInv'
  BY DEF AccountsInv, SigningInv, There, SigningMoves
<1>6. SessionsAreCurrent'
  BY DEF AccountsInv, SessionsAreCurrent, There
<1>7. LinksAreCurrent'
  BY <1>1 DEF AccountsInv, LinksAreCurrent, LinksEnd
<1> QED
  BY <1>3, <1>4, <1>5, <1>6, <1>7 DEF AccountsInv

(* Who is there, who signs in and what there is to act with came after an  *)
(* administrator.                                                          *)
LEMMA SomebodyIsThere ==
    ASSUME AccountsInv, up \/ session # {} \/ \E u \in Users : There(u)
    PROVE  Admins # {}
  BY DEF AccountsInv, Founded, There

LEMMA ReadingsKeep ==
    ASSUME AccountsInv,
           \/ ServerStops \/ Expire
           \/ \E u \in Users : login(u) \/ request_reset(u)
           \/ \E r \in Requests : \/ change_password(r)
                                  \/ \E s \in session : resolve_session(r, s) \/ logout(r, s)
    PROVE  AccountsInv'
<1>1. /\ link \in [Users -> Emails \cup {Nothing}] /\ up \in BOOLEAN
      /\ request \in [Requests -> Principals \cup {Nothing}]
      /\ \A u \in Users : There(u) => account[u] \in Rows
      /\ \A s \in session : s.user \in Users
      /\ \A r \in Requests : request[r] # Nothing => request[r].user \in Users
  BY ThereIsRow DEF AccountsInv, AccountsTypeOK, Principals
<1>2. CASE ServerStops
  <2>1. Admins # {}
    BY <1>2, SomebodyIsThere DEF ServerStops
  <2> QED
    BY <1>1, <1>2, <2>1, RowsUnchanged DEF ServerStops, LinksEnd, SigningMoves
<1>3. CASE Expire
  <2>1. Admins # {}
    BY <1>3, SomebodyIsThere DEF Expire, AccountsInv, Founded
  <2>2. \A u \in Users : link'[u] \in {link[u], Nothing}
    BY <1>1, <1>3 DEF Expire
  <2>3. link' \in [Users -> Emails \cup {Nothing}] /\ session' \subseteq session
    BY <1>1, <1>3 DEF Expire
  <2> QED
    BY <1>1, <1>3, <2>1, <2>2, <2>3, RowsUnchanged DEF Expire, LinksEnd, SigningMoves
<1>4. ASSUME NEW u \in Users, login(u) PROVE AccountsInv'
  <2>1. Admins # {} /\ account[u] \in Rows
    BY <1>1, <1>4, SomebodyIsThere DEF login
  <2>2. signing' \in Signings /\ signing'.user = u /\ signing'.row = account[u] /\ ~signing'.caught
    BY <1>4, <2>1 DEF login, Signings
  <2> QED
    BY <1>1, <1>4, <2>1, <2>2, RowsUnchanged DEF login, LinksEnd, SigningMoves
<1>5. ASSUME NEW u \in Users, request_reset(u) PROVE AccountsInv'
  <2>1. Admins # {} /\ account[u].email \in Emails
    BY <1>1, <1>5, SomebodyIsThere DEF request_reset, Rows
  <2>2. /\ link' = [link EXCEPT ![u] = account[u].email] /\ There(u)
        /\ account' = account /\ session' = session /\ issued' = issued /\ request' = request
        /\ signing' = signing /\ up' = up
    BY <1>5 DEF request_reset
  <2> QED
    BY <1>1, <2>1, <2>2, RowsUnchanged DEF LinksEnd, SigningMoves
<1>6. ASSUME NEW r \in Requests, change_password(r) PROVE AccountsInv'
  <2> DEFINE u == request[r].user
  <2>1. Admins # {} /\ u \in Users /\ There(u) /\ account[u] \in Rows
    BY <1>1, <1>6, SomebodyIsThere DEF change_password, Acts
  <2>2. /\ signing' = [op |-> "password", user |-> u, row |-> account[u], caught |-> FALSE]
        /\ request' = [request EXCEPT ![r] = Nothing] /\ up' = up
        /\ account' = account /\ session' = session /\ link' = link /\ issued' = issued
    BY <1>6 DEF change_password, Done
  <2>3. signing' \in Signings /\ signing'.user = u /\ signing'.row = account[u] /\ ~signing'.caught
    BY <2>1, <2>2 DEF Signings
  <2> HIDE DEF u
  <2>4. request' \in [Requests -> Principals \cup {Nothing}]
    BY <1>1, <2>2
  <2> QED
    BY <1>1, <2>1, <2>2, <2>3, <2>4, RowsUnchanged DEF LinksEnd, SigningMoves
<1>7. ASSUME NEW r \in Requests, NEW s \in session, resolve_session(r, s) PROVE AccountsInv'
  <2> DEFINE who == [user |-> s.user, role |-> account[s.user].role, must |-> account[s.user].must]
  <2>1. Admins # {} /\ account[s.user] \in Rows /\ s.user \in Users
    BY <1>1, <1>7, SomebodyIsThere DEF resolve_session
  <2>2. who \in Principals
    BY <2>1 DEF Principals, Rows
  <2>3. /\ request' = [request EXCEPT ![r] = who] /\ up' = up /\ signing' = signing
        /\ account' = account /\ session' = session /\ link' = link /\ issued' = issued
    BY <1>7 DEF resolve_session
  <2> HIDE DEF who
  <2>4. request' \in [Requests -> Principals \cup {Nothing}]
    BY <1>1, <2>2, <2>3
  <2> QED
    BY <1>1, <2>1, <2>3, <2>4, RowsUnchanged DEF LinksEnd, SigningMoves
<1>8. ASSUME NEW r \in Requests, NEW s \in session, logout(r, s) PROVE AccountsInv'
  <2>1. /\ session' = session \ {s} /\ request' = [request EXCEPT ![r] = Nothing] /\ up' = up
        /\ account' = account /\ link' = link /\ issued' = issued /\ signing' = signing
    BY <1>8 DEF logout, Done
  <2>2. Admins # {}
    BY SomebodyIsThere
  <2>3. request' \in [Requests -> Principals \cup {Nothing}]
    BY <1>1, <2>1
  <2> QED
    BY <1>1, <2>1, <2>2, <2>3, RowsUnchanged DEF LinksEnd, SigningMoves
<1> QED
  BY <1>2, <1>3, <1>4, <1>5, <1>6, <1>7, <1>8

-----------------------------------------------------------------------------
(* The administrators' requests.  A new account has nothing yet.           *)
LEMMA CreateKeeps ==
    ASSUME AccountsInv, NEW r \in Requests, NEW u \in Users, NEW role \in Roles,
           create_user(r, u, role)
    PROVE  AccountsInv'
<1> DEFINE row == NewRow(role, TRUE, TRUE)
<1>1. /\ account[u] = Nothing /\ issued < MaxPassword /\ up /\ signing = Nothing
      /\ account' = [account EXCEPT ![u] = row] /\ issued' = issued + 1
      /\ request' = [request EXCEPT ![r] = Nothing] /\ up' = up
      /\ session' = session /\ link' = link /\ signing' = signing
  BY DEF create_user, Manages, Acts, Done
<1>2. issued \in 0 .. MaxPassword /\ request \in [Requests -> Principals \cup {Nothing}]
  BY DEF AccountsInv, AccountsTypeOK
<1>3. row \in Rows /\ issued' \in 0 .. MaxPassword
  BY <1>1, <1>2, MadeRow
<1> HIDE DEF row
<1>4. /\ account' \in [Users -> Rows \cup {Nothing, Deleted}] /\ ~There(u)
      /\ \A v \in Users : v # u => account'[v] = account[v] /\ (There(v)' <=> There(v))
  BY <1>1, <1>3, Written DEF AccountsInv, There
<1>5. AccountsTypeOK'
  <2>1. request' \in [Requests -> Principals \cup {Nothing}]
    BY <1>1, <1>2
  <2> QED
    BY <1>1, <1>3, <1>4, <2>1 DEF AccountsInv, AccountsTypeOK
<1>6. Founded'
  <2>1. Admins # {}
    BY <1>1, SomebodyIsThere
  <2>2. PICK v \in Users : There(v) /\ account[v].role = "admin"
    BY <2>1 DEF Admins
  <2>3. v \in Admins'
    BY <1>4, <2>2 DEF Admins
  <2> QED
    BY <2>3 DEF Founded
<1>7. SigningInv'
  BY <1>1 DEF SigningInv
<1>8. SessionsAreCurrent'
  <2> SUFFICES ASSUME NEW s \in session, ~s.caught
               PROVE  There(s.user)' /\ s.password = account'[s.user].password
                      /\ s.role = account'[s.user].role
    BY <1>1 DEF SessionsAreCurrent
  <2>1. There(s.user) /\ s.user \in Users
    BY DEF AccountsInv, AccountsTypeOK, SessionsAreCurrent
  <2>2. s.user # u
    BY <1>4, <2>1
  <2> QED
    BY <1>4, <2>1, <2>2 DEF AccountsInv, SessionsAreCurrent
<1>9. LinksAreCurrent'
  BY <1>1, <1>4 DEF AccountsInv, LinksAreCurrent
<1> QED
  BY <1>5, <1>6, <1>7, <1>8, <1>9 DEF AccountsInv

LEMMA ManagingKeeps ==
    ASSUME AccountsInv, NEW r \in Requests, NEW u \in Users,
           \/ delete_user(r, u)
           \/ \E role \in Roles : change_role(r, u, role)
           \/ \E email \in Emails \cup {Nothing} : set_user_email(r, u, email)
    PROVE  AccountsInv'
<1>1. /\ There(u) /\ signing = Nothing /\ signing' = Nothing /\ issued' = issued /\ up' = up
      /\ request' = [request EXCEPT ![r] = Nothing]
  BY DEF delete_user, change_role, set_user_email, Manages, Acts, Done
<1>2. /\ account[u] \in Rows /\ Admins # {} /\ account \in [Users -> Rows \cup {Nothing, Deleted}]
      /\ request \in [Requests -> Principals \cup {Nothing}]
  BY <1>1, ThereIsRow, SomebodyIsThere DEF AccountsInv, AccountsTypeOK
<1>3. request' \in [Requests -> Principals \cup {Nothing}]
  BY <1>1, <1>2
<1>4. CASE delete_user(r, u)
  <2>1. /\ account' = [account EXCEPT ![u] = Deleted] /\ link' = withdraw_resets(u)
        /\ session' = revoke_user_sessions(session, u) /\ ~would_remove_last_admin(u, "none")
    BY <1>4 DEF delete_user, withdraw_resets
  <2>2. PICK v \in Users : v # u /\ v \in Admins
    BY <1>1, <1>2, <2>1, AnotherAdmin DEF AccountsInv
  <2>3. v \in Admins'
    BY <1>2, <2>1, <2>2 DEF Admins, There
  <2>5. AccountsTypeOK'
    BY <1>1, <1>2, <1>3, <2>1 DEF AccountsInv, AccountsTypeOK, revoke_user_sessions, withdraw_resets
  <2>6. Founded' /\ SigningInv'
    BY <1>1, <2>3 DEF Founded, SigningInv
  <2>7. SessionsAreCurrent'
    <3> SUFFICES ASSUME NEW s \in session', ~s.caught
                 PROVE  There(s.user)' /\ s.password = account'[s.user].password
                        /\ s.role = account'[s.user].role
      BY DEF SessionsAreCurrent
    <3>1. s \in session /\ s.user \in Users /\ s.user # u
      BY <2>1 DEF revoke_user_sessions, AccountsInv, AccountsTypeOK
    <3> QED
      BY <1>2, <2>1, <3>1 DEF AccountsInv, SessionsAreCurrent, There
  <2>8. LinksAreCurrent'
    BY <1>2, <2>1 DEF AccountsInv, AccountsTypeOK, LinksAreCurrent, withdraw_resets, There
  <2> QED
    BY <2>5, <2>6, <2>7, <2>8 DEF AccountsInv
<1>5. ASSUME NEW role \in Roles, change_role(r, u, role) PROVE AccountsInv'
  <2> DEFINE new == [account[u] EXCEPT !.role = role]
  <2>1. /\ account' = [account EXCEPT ![u] = new] /\ link' = link
        /\ session' = revoke_user_sessions(session, u) /\ ~would_remove_last_admin(u, role)
    BY <1>5 DEF change_role
  <2>2. /\ new \in Rows /\ new.role = role /\ new.email = account[u].email
        /\ new.password = account[u].password
    BY <1>2 DEF Rows
  <2>3. new # Deleted
    BY <2>2, AccountRows
  <2> HIDE DEF new
  <2>4. Admins' # {}
    <3>1. CASE role = "admin"
      BY <2>1, <2>2, <3>1, Written DEF AccountsInv
    <3>2. CASE role # "admin"
      <4>1. PICK v \in Users : v # u /\ v \in Admins
        BY <1>1, <1>2, <2>1, <3>2, AnotherAdmin DEF AccountsInv
      <4>2. v \in Admins'
        BY <1>2, <2>1, <4>1 DEF Admins, There
      <4> QED
        BY <4>2
    <3> QED
      BY <3>1, <3>2
  <2>5. \A s \in session' : s.user # u
    BY <2>1 DEF revoke_user_sessions
  <2>6. AccountsTypeOK'
    BY <1>1, <1>2, <1>3, <2>1, <2>2 DEF AccountsInv, AccountsTypeOK, revoke_user_sessions
  <2>7. Founded' /\ SigningInv'
    BY <1>1, <2>4 DEF Founded, SigningInv
  <2>8. SessionsAreCurrent'
    <3> SUFFICES ASSUME NEW s \in session', ~s.caught
                 PROVE  There(s.user)' /\ s.password = account'[s.user].password
                        /\ s.role = account'[s.user].role
      BY DEF SessionsAreCurrent
    <3>1. s \in session /\ s.user \in Users /\ s.user # u
      BY <2>1 DEF revoke_user_sessions, AccountsInv, AccountsTypeOK
    <3> QED
      BY <1>2, <2>1, <3>1 DEF AccountsInv, SessionsAreCurrent, There
  <2>9. LinksAreCurrent'
    <3> SUFFICES ASSUME NEW v \in Users, link[v] # Nothing
                 PROVE  There(v)' /\ link[v] = account'[v].email
      BY <2>1 DEF LinksAreCurrent
    <3>1. There(v) /\ link[v] = account[v].email
      BY DEF AccountsInv, LinksAreCurrent
    <3>2. CASE v = u
      BY <1>2, <2>1, <2>2, <3>1, <3>2, Written DEF AccountsInv
    <3>3. CASE v # u
      BY <1>2, <2>1, <3>1, <3>3 DEF There
    <3> QED
      BY <3>2, <3>3
  <2> QED
    BY <2>6, <2>7, <2>8, <2>9 DEF AccountsInv
<1>6. ASSUME NEW email \in Emails \cup {Nothing}, set_user_email(r, u, email) PROVE AccountsInv'
  <2> DEFINE new == [account[u] EXCEPT !.email = email]
  <2>1. /\ account' = [account EXCEPT ![u] = new] /\ link' = withdraw_resets(u)
        /\ session' = session
    BY <1>6 DEF set_user_email
  <2>2. new \in Rows /\ new.role = account[u].role /\ new.password = account[u].password
    BY <1>2 DEF Rows
  <2>3. new # Deleted
    BY <2>2, AccountRows
  <2> HIDE DEF new
  <2>4. Admins' = Admins
    BY <1>1, <2>1, <2>2, Written DEF AccountsInv
  <2>5. AccountsTypeOK'
    BY <1>1, <1>2, <1>3, <2>1, <2>2 DEF AccountsInv, AccountsTypeOK, withdraw_resets
  <2>6. Founded' /\ SigningInv'
    BY <1>1, <1>2, <2>4 DEF Founded, SigningInv
  <2>7. \A v \in Users : There(v) => /\ There(v)' /\ account'[v].role = account[v].role
                                     /\ account'[v].password = account[v].password
                                     /\ v # u => account'[v] = account[v]
    BY <1>1, <2>1, <2>2, Written DEF AccountsInv
  <2>8. SessionsAreCurrent'
    BY <2>1, <2>7 DEF AccountsInv, AccountsTypeOK, SessionsAreCurrent
  <2>9. LinksAreCurrent'
    BY <2>1, <2>7 DEF AccountsInv, AccountsTypeOK, LinksAreCurrent, withdraw_resets
  <2> QED
    BY <2>5, <2>6, <2>8, <2>9 DEF AccountsInv
<1> QED
  BY <1>4, <1>5, <1>6

LEMMA AccountsKeep == AccountsInv /\ [AccountsNext]_accountVars => AccountsInv'
<1> SUFFICES ASSUME AccountsInv, AccountsNext \/ UNCHANGED accountVars PROVE AccountsInv'
  OBVIOUS
<1>1. CASE UNCHANGED accountVars
  BY <1>1 DEF accountVars, AccountsInv, AccountsTypeOK, Founded, SigningInv, SessionsAreCurrent,
              LinksAreCurrent, There, Admins
<1>2. CASE bootstrap_admin \/ perform_login
  BY <1>2, BootstrapKeeps, SignInKeeps
<1>3. CASE PasswordChanged
  <2>1. FirstAdmin \in Users
    BY AccountsConstants
  <2> QED
    BY <1>3, <2>1, PasswordsKeep
<1>4. CASE ServerStops \/ Expire
  BY <1>4, ReadingsKeep
<1>5. CASE \E u \in Users : login(u) \/ request_reset(u) \/ confirm_reset(u) \/ cli_reset_password(u)
  BY <1>5, ReadingsKeep, PasswordsKeep
<1>6. ASSUME NEW r \in Requests, change_password(r) \/ \E s \in session : resolve_session(r, s) \/ logout(r, s)
      PROVE  AccountsInv'
  BY <1>6, ReadingsKeep
<1>7. ASSUME NEW r \in Requests, NEW u \in Users,
             \/ delete_user(r, u) \/ reset_user_password(r, u)
             \/ \E role \in Roles : create_user(r, u, role) \/ change_role(r, u, role)
             \/ \E email \in Emails \cup {Nothing} : set_user_email(r, u, email)
      PROVE  AccountsInv'
  BY <1>7, ManagingKeeps, PasswordsKeep, CreateKeeps
<1> QED
  BY <1>1, <1>2, <1>3, <1>4, <1>5, <1>6, <1>7 DEF AccountsNext

-----------------------------------------------------------------------------
(* The accounts, the sessions, the links and the requests are what the     *)
(* module says they are (store/auth.py, store/recovery.py).                *)
THEOREM AccountsTyped == AccountsSpec => []AccountsTypeOK
<1>1. AccountsInv => AccountsTypeOK
  BY DEF AccountsInv
<1> QED
  BY AccountsBegin, AccountsKeep, <1>1, PTL DEF AccountsSpec

(* Administrators who demote or remove one another at once, each knowing   *)
(* only what it read before, leave one (_would_remove_last_admin); a start *)
(* of the appliance makes the first.                                       *)
THEOREM SomebodyAdministers == AccountsSpec => []AnAdminRemains
<1>1. AccountsInv => AnAdminRemains
  BY DEF AccountsInv, Founded, AnAdminRemains
<1> QED
  BY AccountsBegin, AccountsKeep, <1>1, PTL DEF AccountsSpec

(* No session and no mailed link outlives the password, the role or the    *)
(* address it was given for, however the requests, the sign-ins and the    *)
(* CLI's reset interleave (revoke_user_sessions, withdraw_resets).         *)
THEOREM HandedOutIsCurrent == AccountsSpec => []CredentialsAreCurrent
<1>1. AccountsInv => CredentialsAreCurrent
  BY DEF AccountsInv, CredentialsAreCurrent
<1> QED
  BY AccountsBegin, AccountsKeep, <1>1, PTL DEF AccountsSpec

-----------------------------------------------------------------------------
(* The capability policy *)

(* Nothing is ahead of the pointer, and every version is there before it   *)
(* is pointed at.                                                          *)
Behind ==
    /\ Len(version) <= active.move /\ active.id <= Len(version)
    /\ cached.move <= active.move
    /\ \A r \in Callers : caller[r].saw.move <= active.move

(* Who is in flight beside a request that began alone began after it.      *)
Later ==
    \A r, q \in Callers :
        r # q /\ caller[r].step # "idle" /\ ~caller[r].crowded /\ caller[q].step # "idle"
          => caller[q].saw.move >= caller[r].saw.move

GovernanceInv == GovernanceTypeOK /\ Behind /\ Later /\ ChangeLandsNext

LEMMA MovesAreIntegers ==
    ASSUME GovernanceTypeOK
    PROVE  /\ active.move \in Nat /\ active.id \in Nat /\ cached.move \in Nat /\ cached.id \in Nat
           /\ \A r \in Callers : caller[r].saw.move \in Nat /\ caller[r].saw.id \in Nat
  BY GovernanceConstants DEF GovernanceTypeOK, Pointer, Moves

LEMMA GovernanceBegins == GovernanceInit => GovernanceInv
<1> SUFFICES ASSUME GovernanceInit PROVE GovernanceInv
  OBVIOUS
<1>1. Start \in Pointer
  BY GovernanceConstants DEF Start, Pointer, Moves
<1>2. GovernanceTypeOK
  BY <1>1, GovernanceConstants DEF GovernanceInit, GovernanceTypeOK, Idle, NoEdit
<1>3. Behind /\ Later /\ ChangeLandsNext
  BY GovernanceConstants DEF GovernanceInit, Behind, Later, ChangeLandsNext, Start, Idle
<1> QED
  BY <1>2, <1>3 DEF GovernanceInv

(* A request that begins reads the pointer as it is now, which nobody who  *)
(* began before it can have read later.                                    *)
LEMMA BeginningKeeps ==
    ASSUME GovernanceInv, NEW r \in Callers, load(r)
    PROVE  GovernanceInv'
<1> DEFINE others == \E q \in Callers \ {r} : caller[q].step # "idle"
           begun == [step |-> "reading", saw |-> active, crowded |-> others]
<1>1. /\ caller' = [q \in Callers |-> IF q = r THEN begun ELSE caller[q]]
      /\ version' = version /\ active' = active /\ cached' = cached /\ edit' = edit
  BY DEF load, governanceVars
<1>2. GovernanceTypeOK'
  BY <1>1 DEF GovernanceInv, GovernanceTypeOK
<1>3. Behind'
  BY <1>1, MovesAreIntegers DEF GovernanceInv, Behind
<1>4. Later'
  <2> SUFFICES ASSUME NEW p \in Callers, NEW q \in Callers, p # q,
                      caller'[p].step # "idle", ~caller'[p].crowded, caller'[q].step # "idle"
               PROVE  caller'[q].saw.move >= caller'[p].saw.move
    BY DEF Later
  <2>1. CASE p = r
    BY <1>1, <2>1
  <2>2. CASE p # r /\ q = r
    BY <1>1, <2>2, MovesAreIntegers DEF GovernanceInv, Behind
  <2>3. CASE p # r /\ q # r
    BY <1>1, <2>3 DEF GovernanceInv, Later
  <2> QED
    BY <2>1, <2>2, <2>3
<1>5. ChangeLandsNext'
  BY <1>1 DEF GovernanceInv, ChangeLandsNext
<1> QED
  BY <1>2, <1>3, <1>4, <1>5 DEF GovernanceInv

(* The parsed copy a request leaves is no older than what it read, and     *)
(* what it read is no older than what a request that began alone had read. *)
LEMMA LoadingKeeps ==
    ASSUME GovernanceInv, NEW r \in Callers, load_kind(r)
    PROVE  GovernanceInv'
<1>1. /\ caller' = [caller EXCEPT ![r].step = "loaded"] /\ caller[r].step = "reading"
      /\ version' = version /\ active' = active /\ edit' = edit
  BY DEF load_kind
<1>2. caller[r].saw \in Pointer /\ cached \in Pointer /\ active \in Pointer
  BY DEF GovernanceInv, GovernanceTypeOK
<1>3. \/ cached' = caller[r].saw
      \/ cached' = cached /\ cached.move >= caller[r].saw.move
      \/ cached' = [cached EXCEPT !.move = caller[r].saw.move]
  BY <1>2, MovesAreIntegers DEF load_kind, Pointer, GovernanceInv
<1>4. /\ cached' \in Pointer /\ cached'.move >= caller[r].saw.move
      /\ cached'.move = cached.move \/ cached'.move = caller[r].saw.move
  BY <1>2, <1>3, MovesAreIntegers DEF Pointer, GovernanceInv
<1>5. \A q \in Callers :
         /\ caller'[q].saw = caller[q].saw /\ caller'[q].crowded = caller[q].crowded
         /\ caller'[q].step = IF q = r THEN "loaded" ELSE caller[q].step
  BY <1>1 DEF GovernanceInv, GovernanceTypeOK
<1>6. GovernanceTypeOK'
  BY <1>1, <1>4 DEF GovernanceInv, GovernanceTypeOK
<1>7. Behind'
  BY <1>1, <1>4, <1>5, MovesAreIntegers DEF GovernanceInv, Behind
<1>8. Later'
  BY <1>1, <1>5 DEF GovernanceInv, Later
<1>9. ChangeLandsNext'
  <2> SUFFICES ASSUME NEW p \in Callers, caller'[p].step = "loaded", ~caller'[p].crowded
               PROVE  cached'.move >= caller'[p].saw.move
    BY DEF ChangeLandsNext
  <2>1. CASE p = r
    BY <1>4, <1>5, <2>1
  <2>2. CASE p # r
    <3>1. caller[p].step = "loaded" /\ ~caller[p].crowded
      BY <1>5, <2>2
    <3>2. cached.move >= caller[p].saw.move /\ caller[r].saw.move >= caller[p].saw.move
      BY <1>1, <2>2, <3>1 DEF GovernanceInv, ChangeLandsNext, Later
    <3> QED
      BY <1>4, <1>5, <3>2
  <2> QED
    BY <2>1, <2>2
<1> QED
  BY <1>6, <1>7, <1>8, <1>9 DEF GovernanceInv

LEMMA VerdictKeeps ==
    ASSUME GovernanceInv, NEW r \in Callers, security(r)
    PROVE  GovernanceInv'
<1>1. /\ caller' = [caller EXCEPT ![r] = Idle]
      /\ version' = version /\ active' = active /\ cached' = cached /\ edit' = edit
  BY DEF security
<1>2. \A q \in Callers : caller'[q] = IF q = r THEN Idle ELSE caller[q]
  BY <1>1 DEF GovernanceInv, GovernanceTypeOK
<1>3. Idle.step = "idle" /\ Idle.saw.move = 0
  BY DEF Idle, Start
<1>4. GovernanceTypeOK'
  <2>1. Idle \in [step : {"idle", "reading", "loaded"}, saw : Pointer, crowded : BOOLEAN]
    BY GovernanceConstants DEF Idle, Start, Pointer, Moves
  <2> QED
    BY <1>1, <2>1 DEF GovernanceInv, GovernanceTypeOK
<1>5. Behind'
  BY <1>1, <1>2, <1>3, MovesAreIntegers DEF GovernanceInv, Behind
<1>6. Later'
  BY <1>2, <1>3 DEF GovernanceInv, Later
<1>7. ChangeLandsNext'
  BY <1>1, <1>2, <1>3 DEF GovernanceInv, ChangeLandsNext
<1> QED
  BY <1>4, <1>5, <1>6, <1>7 DEF GovernanceInv

(* The pointer only moves on, to a version that is there.                  *)
LEMMA ChangeKeeps ==
    ASSUME GovernanceInv, active.move < MaxChange, NEW id \in Nat, set_active(id),
           id <= Len(version'), Len(version') <= active.move + 1,
           version' \in Seq(SUBSET Subjects), cached' = cached, caller' = caller,
           edit' \in [Editors -> [at : {-1} \cup Moves, document : SUBSET Subjects]]
    PROVE  GovernanceInv'
<1>1. active' = [id |-> id, move |-> active.move + 1]
  BY DEF set_active
<1>2. Len(version') \in Nat
  OBVIOUS
<1>3. active.move \in Nat /\ active'.move = active.move + 1 /\ active'.id = id
  BY <1>1, MovesAreIntegers DEF GovernanceInv
<1>4. active' \in Pointer /\ Len(version') <= MaxChange
  BY <1>1, <1>2, <1>3, GovernanceConstants DEF Pointer, Moves
<1>5. GovernanceTypeOK'
  BY <1>4 DEF GovernanceInv, GovernanceTypeOK
<1>6. Behind'
  BY <1>3, MovesAreIntegers DEF GovernanceInv, Behind
<1>7. Later' /\ ChangeLandsNext'
  BY DEF GovernanceInv, Later, ChangeLandsNext
<1> QED
  BY <1>5, <1>6, <1>7 DEF GovernanceInv

LEMMA EditKeeps ==
    ASSUME GovernanceInv, NEW e \in Editors, NEW s \in Subjects, NEW narrow \in BOOLEAN,
           set_subject_access(e, s, narrow)
    PROVE  GovernanceInv'
<1> DEFINE document == IF narrow THEN edit[e].document \cup {s} ELSE edit[e].document \ {s}
<1>1. /\ active.move < MaxChange /\ version' = Append(version, document)
      /\ set_active(Len(version) + 1) /\ cached' = cached /\ caller' = caller
      /\ edit' = [edit EXCEPT ![e] = NoEdit]
  BY DEF set_subject_access, insert_governance_policy
<1>2. document \in SUBSET Subjects
  BY DEF GovernanceInv, GovernanceTypeOK
<1> HIDE DEF document
<1>3. version \in Seq(SUBSET Subjects) /\ Len(version) <= active.move
  BY DEF GovernanceInv, GovernanceTypeOK, Behind
<1>4. /\ version' \in Seq(SUBSET Subjects) /\ Len(version') = Len(version) + 1
      /\ Len(version) \in Nat
  BY <1>1, <1>2, <1>3
<1>5. edit' \in [Editors -> [at : {-1} \cup Moves, document : SUBSET Subjects]]
  BY <1>1 DEF GovernanceInv, GovernanceTypeOK, NoEdit
<1>6. Len(version') <= active.move + 1
  BY <1>3, <1>4, MovesAreIntegers DEF GovernanceInv
<1> QED
  BY <1>1, <1>4, <1>5, <1>6, ChangeKeeps

LEMMA GovernanceKeeps == GovernanceInv /\ [GovernanceNext]_governanceVars => GovernanceInv'
<1> SUFFICES ASSUME GovernanceInv, [GovernanceNext]_governanceVars PROVE GovernanceInv'
  OBVIOUS
<1>1. CASE set_rbac_policy
  <2>1. PICK id \in 0 .. Len(version) : id # active.id /\ set_active(id)
    BY <1>1 DEF set_rbac_policy
  <2>2. /\ active.move < MaxChange
        /\ version' = version /\ cached' = cached /\ caller' = caller /\ edit' = edit
    BY <1>1 DEF set_rbac_policy
  <2>3. /\ version \in Seq(SUBSET Subjects) /\ Len(version) <= active.move
        /\ edit \in [Editors -> [at : {-1} \cup Moves, document : SUBSET Subjects]]
    BY DEF GovernanceInv, GovernanceTypeOK, Behind
  <2>4. id \in Nat /\ id <= Len(version') /\ Len(version') <= active.move + 1
    BY <2>1, <2>2, <2>3, MovesAreIntegers DEF GovernanceInv
  <2> QED
    BY <2>1, <2>2, <2>3, <2>4, ChangeKeeps
<1>2. CASE \E e \in Editors : subject_reads(e)
  <2>1. PICK e \in Editors : subject_reads(e)
    BY <1>2
  <2>2. Document(active.id) \in SUBSET Subjects
    BY MovesAreIntegers DEF Document, GovernanceInv, GovernanceTypeOK, Behind
  <2>3. GovernanceTypeOK'
    BY <2>1, <2>2 DEF subject_reads, GovernanceInv, GovernanceTypeOK, Pointer
  <2> QED
    BY <2>1, <2>3 DEF subject_reads, GovernanceInv, Behind, Later, ChangeLandsNext
<1>3. CASE UNCHANGED governanceVars
  BY <1>3 DEF governanceVars, GovernanceInv, GovernanceTypeOK, Behind, Later, ChangeLandsNext
<1> QED
  BY <1>1, <1>2, <1>3, BeginningKeeps, LoadingKeeps, VerdictKeeps, EditKeeps DEF GovernanceNext

-----------------------------------------------------------------------------
(* The versions, the pointer and the parsed copy are what the module says  *)
(* they are (store/governance.py, governance_cache.py).                    *)
THEOREM GovernanceTyped == GovernanceSpec => []GovernanceTypeOK
<1>1. GovernanceInv => GovernanceTypeOK
  BY DEF GovernanceInv
<1> QED
  BY GovernanceBegins, GovernanceKeeps, <1>1, PTL DEF GovernanceSpec

(* A request that began while nobody else was between its snapshot and its *)
(* verdict is judged by a policy no older than the one active when it      *)
(* began, whoever refreshes the process's copy before it is judged.        *)
THEOREM ChangeLands == GovernanceSpec => []ChangeLandsNext
<1>1. GovernanceInv => ChangeLandsNext
  BY DEF GovernanceInv
<1> QED
  BY GovernanceBegins, GovernanceKeeps, <1>1, PTL DEF GovernanceSpec

-----------------------------------------------------------------------------
(* The credential and its leases *)

(* Neither of the two properties is inductive: what a request read is part *)
(* of both.  An edit writes back the seal it read, so that seal must be of *)
(* the host it read; an edit or a command that nothing overtook must have  *)
(* read the host the row has now; and a lease about to be granted must be  *)
(* one that would work, or of a version that is past.                      *)

Asking(q, op) == asked[q] # None /\ asked[q].op = op

(* Before the credential there is nothing to ask about.                    *)
NothingYet ==
    secret = None => /\ \A l \in Leases : lease[l] = None
                     /\ \A q \in Askers : asked[q] = None \/ asked[q].op = "checked"

Sealed ==
    /\ SealOpens
    /\ \A q \in Askers : Asking(q, "update") => opens(asked[q].read.host, asked[q].read.sealed)

Pinned ==
    InVault =>
        /\ secret.pin \in {None, secret.host} \/ secret.mixed
        /\ \A q \in Askers : ~asked[q].late =>
             /\ Asking(q, "update") => asked[q].read.host = secret.host
             /\ Asking(q, "running") => asked[q].host = secret.host

(* A lease, or one that is being granted, is of the current version only   *)
(* if it works; a withdrawal has overtaken it otherwise.                   *)
Works(ticket, row, tokens) ==
    /\ ticket.version <= row.version
    /\ ticket.version = row.version /\ ~ticket.late => row.on /\ ticket.token \in tokens

LeasesWork ==
    InVault =>
        /\ \A l \in Leases : lease[l] # None =>
             lease[l].version <= secret.version /\ (~lease[l].ended => Works(lease[l], secret, agents))
        /\ \A q \in Askers : Asking(q, "lease") => Works(asked[q], secret, agents)

VaultInv == VaultTypeOK /\ NothingYet /\ Sealed /\ Pinned /\ LeasesWork

LeaseRows == [token : Tokens, version : Contents, ended : BOOLEAN, late : BOOLEAN]
UpdateAsks ==
    [op : {"update"}, read : SecretRows, host : Hosts, content : Contents \cup {0}, late : BOOLEAN]
LeaseAsks == [op : {"lease"}, token : Tokens, version : Contents, late : BOOLEAN]
CheckedAsks == [op : {"checked"}, late : BOOLEAN]
RunningAsks == [op : {"running"}, host : Hosts, pinned : BOOLEAN, late : BOOLEAN]

(* What a request means to do says what it read.                           *)
LEMMA Kinds ==
    ASSUME NEW a \in Asks
    PROVE  /\ a.op = "update" => a \in UpdateAsks
           /\ a.op = "lease" => a \in LeaseAsks
           /\ a.op = "checked" => a \in CheckedAsks
           /\ a.op = "running" => a \in RunningAsks
           /\ a.op \in {"update", "lease", "checked", "running"} /\ a.late \in BOOLEAN
BY DEF Asks, UpdateAsks, LeaseAsks, CheckedAsks, RunningAsks

LEMMA KindsAreAsks ==
    UpdateAsks \subseteq Asks /\ LeaseAsks \subseteq Asks /\ CheckedAsks \subseteq Asks
    /\ RunningAsks \subseteq Asks
BY DEF Asks, UpdateAsks, LeaseAsks, CheckedAsks, RunningAsks

(* A request that is overtaken is late, and nothing else of it changes.    *)
LEMMA Overtaken ==
    ASSUME NEW a \in Asks, NEW b, b = [a EXCEPT !.late = TRUE]
    PROVE  /\ b \in Asks /\ b.late /\ b.op = a.op
           /\ a.op = "update" => b.read = a.read
           /\ a.op = "lease" => b.token = a.token /\ b.version = a.version
<1>1. CASE a \in UpdateAsks
  BY <1>1, KindsAreAsks DEF UpdateAsks
<1>2. CASE a \in LeaseAsks
  BY <1>2, KindsAreAsks DEF LeaseAsks
<1>3. CASE a \in CheckedAsks
  BY <1>3, KindsAreAsks DEF CheckedAsks
<1>4. CASE a \in RunningAsks
  BY <1>4, KindsAreAsks DEF RunningAsks
<1> QED
  BY <1>1, <1>2, <1>3, <1>4 DEF Asks, UpdateAsks, LeaseAsks, CheckedAsks, RunningAsks

(* What ending leases leaves of them.                                      *)
LEMMA Ended ==
    ASSUME VaultTypeOK, NEW of, NEW rows, rows = EndLeases(of)
    PROVE  /\ rows \in [Leases -> {None} \cup LeaseRows]
           /\ \A l \in Leases :
                /\ lease[l] = None => rows[l] = None
                /\ lease[l] # None => /\ rows[l].version = lease[l].version
                                      /\ rows[l].token = lease[l].token
                                      /\ rows[l].late = lease[l].late
                                      /\ lease[l].ended => rows[l].ended
                                      /\ of[l] => rows[l].ended
                                      /\ ~of[l] => rows[l] = lease[l]
<1>1. \A l \in Leases : lease[l] # None => lease[l] \in LeaseRows
  BY DEF VaultTypeOK, LeaseRows
<1>2. rows = [l \in Leases |-> IF lease[l] # None /\ of[l] THEN [lease[l] EXCEPT !.ended = TRUE]
                                                           ELSE lease[l]]
  BY DEF EndLeases
<1> QED
  BY <1>1, <1>2 DEF LeaseRows

LEMMA InitialVault == VaultInit => VaultInv
BY VaultConstants
   DEF VaultInit, VaultInv, VaultTypeOK, NothingYet, Sealed, SealOpens, Pinned, LeasesWork, InVault,
       Asking

LEMMA RowFacts ==
    ASSUME VaultInv
    PROVE  /\ InVault => secret \in SecretRows /\ secret.version \in Int /\ secret # None
           /\ \A q \in Askers : asked[q] # None => asked[q] \in Asks
           /\ \A q \in Askers : Asking(q, "update") => asked[q] \in UpdateAsks
           /\ \A q \in Askers : Asking(q, "lease") => asked[q] \in LeaseAsks
           /\ \A l \in Leases : lease[l] # None => lease[l] \in LeaseRows
           /\ lease \in [Leases -> {None} \cup LeaseRows] /\ asked \in [Askers -> Asks \cup {None}]
BY Kinds DEF VaultInv, VaultTypeOK, InVault, SecretRows, Contents, Asking, LeaseRows

-----------------------------------------------------------------------------
(* The steps that leave the credential as it is *)

(* A request that has its answer, or begins with what the row says now.    *)
LEMMA Asked ==
    ASSUME VaultInv, NEW q \in Askers, NEW a \in Asks \cup {None},
           asked' = [asked EXCEPT ![q] = a], UNCHANGED <<secret, agents, lease>>,
           typed' \in 0 .. MaxContent,
           a # None => /\ a.op = "checked" \/ InVault
                       /\ a.op = "update" => a.read = secret
                       /\ a.op = "running" => a.host = secret.host
                       /\ a.op = "lease" => Works(a, secret, agents)
    PROVE  VaultInv'
<1>1. /\ asked' \in [Askers -> Asks \cup {None}]
      /\ asked'[q] = a /\ \A p \in Askers \ {q} : asked'[p] = asked[p]
  BY RowFacts
<1>2. VaultTypeOK'
  BY <1>1 DEF VaultInv, VaultTypeOK
<1>3. NothingYet'
  BY <1>1 DEF VaultInv, NothingYet, InVault
<1>4. Sealed'
  BY <1>1 DEF VaultInv, Sealed, SealOpens, InVault, Asking
<1>5. Pinned'
  BY <1>1 DEF VaultInv, Pinned, InVault, Asking
<1>6. LeasesWork'
  BY <1>1 DEF VaultInv, LeasesWork, Works, InVault, Asking
<1> QED
  BY <1>2, <1>3, <1>4, <1>5, <1>6 DEF VaultInv

(* An edit reads the row; so does a request for a lease, of one that works *)
(* as it reads it; a command reads whose key it is to see.                 *)
LEMMA Reads ==
    ASSUME VaultInv, NEW q \in Askers
    PROVE  /\ \A host \in Hosts, content \in 0 .. MaxContent :
                update_reads(q, host, content) => VaultInv'
           /\ \A t \in Tokens : lease_reads(q, t) => VaultInv'
           /\ \A l \in Leases : exec_checks(q, l) => VaultInv'
           /\ exec_opens(q) => VaultInv'
           /\ runbook_credential(q) => VaultInv'
<1>0. /\ typed \in 0 .. MaxContent /\ asked \in [Askers -> Asks \cup {None}]
      /\ InVault => secret \in SecretRows
  BY RowFacts DEF VaultInv, VaultTypeOK
<1>1. ASSUME NEW host \in Hosts, NEW content \in 0 .. MaxContent, update_reads(q, host, content)
      PROVE  VaultInv'
  <2> DEFINE a == [op |-> "update", read |-> secret, host |-> host, content |-> content,
                   late |-> FALSE]
  <2>1. /\ InVault /\ asked' = [asked EXCEPT ![q] = a] /\ UNCHANGED <<secret, agents, lease>>
        /\ typed' = IF content = 0 THEN typed ELSE content
    BY <1>1 DEF update_reads
  <2>2. content \in Contents \cup {0} /\ typed' \in 0 .. MaxContent
    BY <1>0, <2>1, VaultConstants DEF Contents
  <2>3. a \in UpdateAsks
    BY <1>0, <2>1, <2>2 DEF UpdateAsks
  <2>4. a \in Asks \cup {None} /\ a.op = "update" /\ a.read = secret
    BY <2>3, KindsAreAsks
  <2> HIDE DEF a
  <2> QED
    BY <2>1, <2>2, <2>4, Asked
<1>2. ASSUME NEW t \in Tokens, lease_reads(q, t) PROVE VaultInv'
  <2> DEFINE a == [op |-> "lease", token |-> t, version |-> secret.version, late |-> FALSE]
  <2>1. /\ InVault /\ secret.on /\ t \in agents /\ asked' = [asked EXCEPT ![q] = a]
        /\ UNCHANGED <<secret, agents, lease, typed>>
    BY <1>2 DEF lease_reads
  <2>2. secret.version \in Contents /\ secret.version \in Int
    BY <1>0, <2>1, RowFacts DEF SecretRows
  <2>3. a \in LeaseAsks /\ a.version = secret.version /\ a.token = t
    BY <2>2 DEF LeaseAsks
  <2>4. a \in Asks \cup {None} /\ a.op = "lease"
    BY <2>3, KindsAreAsks
  <2> HIDE DEF a
  <2>5. Works(a, secret, agents)
    BY <2>1, <2>2, <2>3 DEF Works
  <2> QED
    BY <1>0, <2>1, <2>4, <2>5, Asked
<1>3. ASSUME NEW l \in Leases, exec_checks(q, l) PROVE VaultInv'
  <2> DEFINE a == [op |-> "checked", late |-> FALSE]
  <2>1. asked' = [asked EXCEPT ![q] = a] /\ UNCHANGED <<secret, agents, lease, typed>>
    BY <1>3 DEF exec_checks
  <2>2. a \in CheckedAsks
    BY DEF CheckedAsks
  <2>3. a \in Asks \cup {None} /\ a.op = "checked"
    BY <2>2, KindsAreAsks
  <2> HIDE DEF a
  <2> QED
    BY <1>0, <2>1, <2>3, Asked
<1>4. ASSUME NEW pinned \in BOOLEAN, InVault, UNCHANGED <<secret, agents, lease, typed>>,
             asked' = [asked EXCEPT ![q] = [op |-> "running", host |-> secret.host,
                                            pinned |-> pinned, late |-> FALSE]]
      PROVE  VaultInv'
  <2> DEFINE a == [op |-> "running", host |-> secret.host, pinned |-> pinned, late |-> FALSE]
  <2>1. a \in RunningAsks
    BY <1>0, <1>4 DEF RunningAsks, SecretRows
  <2>2. a \in Asks \cup {None} /\ a.op = "running" /\ a.host = secret.host
    BY <2>1, KindsAreAsks
  <2>3. asked' = [asked EXCEPT ![q] = a]
    BY <1>4
  <2> HIDE DEF a
  <2> QED
    BY <1>0, <1>4, <2>2, <2>3, Asked
<1>5. ASSUME exec_opens(q) PROVE VaultInv'
  <2>1. CASE InVault /\ opens(secret.host, secret.sealed)
    <3>1. PICK pinned \in BOOLEAN : pinned = (secret.pin # None)
      OBVIOUS
    <3> QED
      BY <1>4, <1>5, <2>1, <3>1 DEF exec_opens
  <2>2. CASE ~(InVault /\ opens(secret.host, secret.sealed))
    <3>1. asked' = [asked EXCEPT ![q] = None] /\ UNCHANGED <<secret, agents, lease, typed>>
      BY <1>5, <2>2 DEF exec_opens
    <3> QED
      BY <1>0, <3>1, Asked
  <2> QED
    BY <2>1, <2>2
<1>6. ASSUME runbook_credential(q) PROVE VaultInv'
  <2>1. PICK pinned \in BOOLEAN : pinned = (secret.pin # None)
    OBVIOUS
  <2> QED
    BY <1>4, <1>6, <2>1 DEF runbook_credential
<1> QED
  BY <1>1, <1>2, <1>3, <1>5, <1>6

(* A lease is what was asked for; one that is revoked ends.                *)
LEMMA Issued ==
    ASSUME VaultInv, NEW q \in Askers, NEW l \in Leases, issue_lease(q, l)
    PROVE  VaultInv'
<1> DEFINE a == asked[q]
           new == [token |-> a.token, version |-> a.version, ended |-> FALSE, late |-> a.late]
<1>1. /\ InVault /\ Asking(q, "lease") /\ lease' = [lease EXCEPT ![l] = new]
      /\ asked' = [asked EXCEPT ![q] = None] /\ UNCHANGED <<secret, agents, typed>>
  BY DEF issue_lease, Answered, Asking
<1>2. a \in LeaseAsks /\ Works(a, secret, agents)
  BY <1>1, RowFacts DEF VaultInv, LeasesWork
<1>3. new \in LeaseRows /\ new.version = a.version /\ new.token = a.token /\ new.late = a.late
  BY <1>2 DEF LeaseAsks, LeaseRows
<1> HIDE DEF new, a
<1>4. Works(new, secret, agents) /\ new.version <= secret.version
  BY <1>2, <1>3 DEF Works
<1>5. /\ lease' \in [Leases -> {None} \cup LeaseRows] /\ lease'[l] = new
      /\ \A k \in Leases \ {l} : lease'[k] = lease[k]
  BY <1>1, <1>3, RowFacts
<1>6. /\ asked' \in [Askers -> Asks \cup {None}] /\ asked'[q] = None
      /\ \A p \in Askers \ {q} : asked'[p] = asked[p]
  BY <1>1, RowFacts
<1>7. VaultTypeOK'
  BY <1>1, <1>5, <1>6 DEF VaultInv, VaultTypeOK, LeaseRows
<1>8. NothingYet' /\ Sealed' /\ Pinned'
  BY <1>1, <1>6 DEF VaultInv, NothingYet, Sealed, SealOpens, Pinned, InVault, Asking
<1>9. LeasesWork'
  BY <1>1, <1>4, <1>5, <1>6 DEF VaultInv, LeasesWork, Works, InVault, Asking
<1> QED
  BY <1>7, <1>8, <1>9 DEF VaultInv

LEMMA Revoked ==
    ASSUME VaultInv, NEW l \in Leases, revoke_lease(l)
    PROVE  VaultInv'
<1>1. /\ lease[l] # None /\ lease' = [lease EXCEPT ![l].ended = TRUE]
      /\ UNCHANGED <<secret, agents, asked, typed>>
  BY DEF revoke_lease
<1>2. lease[l] \in LeaseRows /\ lease \in [Leases -> {None} \cup LeaseRows]
  BY <1>1, RowFacts
<1>3. /\ lease' \in [Leases -> {None} \cup LeaseRows] /\ lease'[l].ended
      /\ lease'[l].version = lease[l].version
      /\ \A k \in Leases \ {l} : lease'[k] = lease[k]
  BY <1>1, <1>2 DEF LeaseRows
<1>4. VaultTypeOK'
  BY <1>1, <1>3 DEF VaultInv, VaultTypeOK, LeaseRows
<1>5. NothingYet'
  BY <1>1, <1>3 DEF VaultInv, NothingYet
<1>6. Sealed' /\ Pinned'
  BY <1>1 DEF VaultInv, Sealed, SealOpens, Pinned, InVault, Asking
<1>7. LeasesWork'
  <2>1. InVault => lease[l].version <= secret.version
    BY <1>1 DEF VaultInv, LeasesWork
  <2> QED
    BY <1>1, <1>3, <2>1 DEF VaultInv, LeasesWork, Works, InVault, Asking
<1> QED
  BY <1>4, <1>5, <1>6, <1>7 DEF VaultInv

-----------------------------------------------------------------------------
(* The steps that change the credential *)

LEMMA Created ==
    ASSUME VaultInv, NEW host \in Hosts, create_secret(host)
    PROVE  VaultInv'
<1> DEFINE new == [host |-> host, sealed |-> seal(host, typed + 1), version |-> 1, on |-> FALSE,
                   pin |-> None, mixed |-> FALSE]
<1>1. /\ secret = None /\ typed < MaxContent /\ typed' = typed + 1 /\ secret' = new
      /\ UNCHANGED <<agents, lease, asked>>
  BY DEF create_secret
<1>2. typed + 1 \in Contents /\ 1 \in Contents /\ typed' \in 0 .. MaxContent
  BY <1>1, VaultConstants DEF VaultInv, VaultTypeOK, Contents
<1>3. seal(host, typed + 1) \in Hosts \X Contents /\ opens(host, seal(host, typed + 1))
  BY <1>2 DEF seal, opens
<1>4. new \in SecretRows /\ new.pin = None /\ opens(new.host, new.sealed)
  BY <1>2, <1>3 DEF SecretRows
<1> HIDE DEF new
<1>5. \A l \in Leases : lease[l] = None
  BY <1>1 DEF VaultInv, NothingYet
<1>6. \A q \in Askers : ~Asking(q, "update") /\ ~Asking(q, "lease") /\ ~Asking(q, "running")
  BY <1>1 DEF VaultInv, NothingYet, Asking
<1>7. secret' # None
  BY <1>1, <1>4, VaultRows
<1>8. VaultTypeOK'
  BY <1>1, <1>2, <1>4 DEF VaultInv, VaultTypeOK
<1>9. NothingYet'
  BY <1>7 DEF NothingYet
<1>10. Sealed' /\ Pinned'
  BY <1>1, <1>4, <1>6 DEF Sealed, SealOpens, Pinned, InVault, Asking
<1>11. LeasesWork'
  BY <1>1, <1>5, <1>6 DEF LeasesWork, InVault, Asking
<1> QED
  BY <1>8, <1>9, <1>10, <1>11 DEF VaultInv

LEMMA DeletedSecret ==
    ASSUME VaultInv, delete_secret
    PROVE  VaultInv'
<1>1. /\ secret' = Gone /\ lease' = EndLeases([l \in Leases |-> TRUE])
      /\ asked' = [q \in Askers |-> IF asked[q] # None /\ asked[q].op \in {"update", "lease"}
                                    THEN None ELSE asked[q]]
      /\ UNCHANGED <<agents, typed>>
  BY DEF delete_secret, noc_revoke_secret_leases
<1>2. lease' \in [Leases -> {None} \cup LeaseRows]
  BY <1>1, Ended DEF VaultInv
<1>3. asked' \in [Askers -> Asks \cup {None}]
  BY <1>1, RowFacts
<1>4. VaultTypeOK'
  BY <1>1, <1>2, <1>3 DEF VaultInv, VaultTypeOK, LeaseRows
<1>5. NothingYet' /\ Pinned' /\ LeasesWork'
  BY <1>1, VaultConstants DEF NothingYet, Pinned, LeasesWork, InVault
<1>6. \A q \in Askers : ~Asking(q, "update")'
  BY <1>1 DEF Asking
<1>7. Sealed'
  BY <1>1, <1>6 DEF Sealed, SealOpens, InVault
<1> QED
  BY <1>4, <1>5, <1>7 DEF VaultInv

LEMMA KeyForgotten ==
    ASSUME VaultInv, forget_host_key
    PROVE  VaultInv'
<1>1. /\ InVault /\ secret' = [secret EXCEPT !.pin = None]
      /\ UNCHANGED <<agents, lease, asked, typed>>
  BY DEF forget_host_key
<1>2. secret \in SecretRows
  BY <1>1, RowFacts
<1>3. /\ secret' \in SecretRows /\ secret'.pin = None /\ secret'.host = secret.host
      /\ secret'.sealed = secret.sealed /\ secret'.version = secret.version
      /\ secret'.on = secret.on
  BY <1>1, <1>2 DEF SecretRows
<1>4. VaultTypeOK' /\ NothingYet'
  BY <1>1, <1>3, VaultRows DEF VaultInv, VaultTypeOK, NothingYet
<1>5. Sealed' /\ Pinned'
  BY <1>1, <1>3 DEF VaultInv, Sealed, SealOpens, Pinned, InVault, Asking
<1>6. LeasesWork'
  BY <1>1, <1>3 DEF VaultInv, LeasesWork, Works, InVault, Asking
<1> QED
  BY <1>4, <1>5, <1>6 DEF VaultInv

LEMMA Ran ==
    ASSUME VaultInv, NEW q \in Askers, NEW connected \in BOOLEAN, exec_ran(q, connected)
    PROVE  VaultInv'
<1>1. Asking(q, "running") /\ asked' = [asked EXCEPT ![q] = None] /\ UNCHANGED <<agents, lease, typed>>
  BY DEF exec_ran, Answered, Asking
<1>2. asked[q] \in RunningAsks /\ asked[q].host \in Hosts /\ asked[q].late \in BOOLEAN
  BY <1>1, RowFacts, Kinds DEF Asking, RunningAsks
<1>3. CASE secret' = secret
  BY <1>1, <1>3, Asked DEF VaultInv, VaultTypeOK
<1>4. CASE InVault /\ secret' = [secret EXCEPT !.pin = asked[q].host, !.mixed = @ \/ asked[q].late]
  <2> DEFINE mixed == secret.mixed \/ asked[q].late
  <2>1. secret \in SecretRows /\ mixed \in BOOLEAN
    BY <1>2, <1>4, RowFacts DEF SecretRows
  <2>2. secret' = [secret EXCEPT !.pin = asked[q].host, !.mixed = mixed]
    BY <1>4, <2>1 DEF SecretRows
  <2> HIDE DEF mixed
  <2>3. /\ secret' \in SecretRows /\ secret'.pin = asked[q].host /\ secret'.host = secret.host
        /\ secret'.sealed = secret.sealed /\ secret'.version = secret.version
        /\ secret'.on = secret.on /\ secret'.mixed = mixed
    BY <1>2, <2>1, <2>2 DEF SecretRows
  <2>4. /\ asked' \in [Askers -> Asks \cup {None}] /\ asked'[q] = None
        /\ \A p \in Askers \ {q} : asked'[p] = asked[p]
    BY <1>1, RowFacts
  <2>5. VaultTypeOK' /\ NothingYet'
    BY <1>1, <2>3, <2>4, VaultRows DEF VaultInv, VaultTypeOK, NothingYet
  <2>6. Sealed'
    BY <1>4, <2>3, <2>4 DEF VaultInv, Sealed, SealOpens, InVault, Asking
  <2>7. asked[q].late => mixed
    BY DEF mixed
  <2>8. secret'.pin = secret'.host \/ secret'.mixed
    BY <1>1, <1>4, <2>3, <2>7 DEF VaultInv, Pinned
  <2>9. Pinned'
    BY <1>4, <2>3, <2>4, <2>8 DEF VaultInv, Pinned, Asking
  <2>10. LeasesWork'
    BY <1>1, <1>4, <2>3, <2>4 DEF VaultInv, LeasesWork, Works, Asking
  <2> QED
    BY <2>5, <2>6, <2>9, <2>10 DEF VaultInv
<1> QED
  BY <1>3, <1>4 DEF exec_ran

(* Requests of which some are overtaken: the others are as they were.      *)
Overtaking(late) ==
    [q \in Askers |-> IF asked[q] # None /\ late[q] THEN [asked[q] EXCEPT !.late = TRUE]
                                                    ELSE asked[q]]

LEMMA Late ==
    ASSUME VaultInv, NEW late, NEW rows, rows = Overtaking(late)
    PROVE  /\ rows \in [Askers -> Asks \cup {None}]
           /\ \A q \in Askers :
                /\ asked[q] = None => rows[q] = None
                /\ asked[q] # None =>
                     /\ rows[q].op = asked[q].op
                     /\ late[q] => rows[q].late
                     /\ ~late[q] => rows[q] = asked[q]
                     /\ asked[q].op = "update" => rows[q].read = asked[q].read
                     /\ asked[q].op = "lease" => /\ rows[q].version = asked[q].version
                                                 /\ rows[q].token = asked[q].token
<1>1. \A q \in Askers : asked[q] = None \/ asked[q] \in Asks
  BY RowFacts
<1>2. \A q \in Askers : asked[q] # None =>
        /\ [asked[q] EXCEPT !.late = TRUE] \in Asks
        /\ [asked[q] EXCEPT !.late = TRUE].late
        /\ [asked[q] EXCEPT !.late = TRUE].op = asked[q].op
        /\ asked[q].op = "update" => [asked[q] EXCEPT !.late = TRUE].read = asked[q].read
        /\ asked[q].op = "lease" =>
             /\ [asked[q] EXCEPT !.late = TRUE].version = asked[q].version
             /\ [asked[q] EXCEPT !.late = TRUE].token = asked[q].token
  BY <1>1, Overtaken
<1>3. \A q \in Askers : asked[q] = None => rows[q] = None
  BY DEF Overtaking
<1>4. \A q \in Askers : asked[q] # None =>
        /\ late[q] => rows[q] = [asked[q] EXCEPT !.late = TRUE]
        /\ ~late[q] => rows[q] = asked[q]
  BY DEF Overtaking
<1>5. rows \in [Askers -> Asks \cup {None}]
  BY <1>1, <1>2 DEF Overtaking
<1> QED
  BY ZenonT(60), <1>2, <1>3, <1>4, <1>5

LEMMA Switched ==
    ASSUME VaultInv, NEW on \in BOOLEAN, agent_access(on)
    PROVE  VaultInv'
<1> DEFINE late == [q \in Askers |-> ~on /\ asked[q] # None /\ asked[q].op = "lease"]
<1>1. /\ InVault /\ secret.on # on /\ secret' = [secret EXCEPT !.on = on]
      /\ lease' = IF on THEN lease ELSE EndLeases([l \in Leases |-> TRUE])
      /\ UNCHANGED <<agents, typed>>
  BY DEF agent_access, noc_revoke_secret_leases
<1>2. asked' = Overtaking(late)
  BY DEF agent_access, Overtaking
<1>3. \A q \in Askers : late[q] <=> ~on /\ Asking(q, "lease")
  BY DEF Asking
<1> HIDE DEF late
<1>4. /\ asked' \in [Askers -> Asks \cup {None}]
      /\ \A q \in Askers :
           /\ asked[q] = None => asked'[q] = None
           /\ asked[q] # None => /\ asked'[q].op = asked[q].op
                                 /\ late[q] => asked'[q].late
                                 /\ ~late[q] => asked'[q] = asked[q]
                                 /\ asked[q].op = "update" => asked'[q].read = asked[q].read
                                 /\ asked[q].op = "lease" =>
                                      /\ asked'[q].version = asked[q].version
                                      /\ asked'[q].token = asked[q].token
  BY <1>2, Late
<1>5. secret \in SecretRows /\ secret.version \in Int
  BY <1>1, RowFacts
<1>6. /\ secret' \in SecretRows /\ secret'.on = on /\ secret'.host = secret.host
      /\ secret'.sealed = secret.sealed /\ secret'.version = secret.version
      /\ secret'.pin = secret.pin /\ secret'.mixed = secret.mixed
  BY <1>1, <1>5 DEF SecretRows
<1>7. PICK of : of = [l \in Leases |-> TRUE]
  OBVIOUS
<1>8. /\ lease' \in [Leases -> {None} \cup LeaseRows]
      /\ \A l \in Leases : /\ lease[l] = None => lease'[l] = None
                           /\ lease[l] # None => /\ lease'[l].version = lease[l].version
                                                 /\ on => lease'[l] = lease[l]
                                                 /\ ~on => lease'[l].ended
  BY <1>1, <1>7, Ended, RowFacts DEF VaultInv
<1>9. VaultTypeOK'
  BY <1>1, <1>4, <1>6, <1>8 DEF VaultInv, VaultTypeOK, LeaseRows
<1>10. NothingYet'
  BY <1>6, VaultRows DEF NothingYet
<1>11. \A q \in Askers : /\ ~Asking(q, "lease") => asked'[q] = asked[q]
                        /\ \A op \in {"update", "lease", "running"} : Asking(q, op)' => Asking(q, op)
  BY <1>3, <1>4 DEF Asking
<1>12. \A q \in Askers : Asking(q, "update") \/ Asking(q, "running") => ~Asking(q, "lease")
  BY DEF Asking
<1>13. Sealed'
  BY <1>1, <1>6, <1>11, <1>12 DEF VaultInv, Sealed, SealOpens
<1>14. Pinned'
  BY <1>1, <1>6, <1>11, <1>12 DEF VaultInv, Pinned
<1>15. LeasesWork'
  <2>1. \A l \in Leases : lease'[l] # None => lease[l] # None /\ lease'[l].version <= secret'.version
    BY <1>1, <1>6, <1>8 DEF VaultInv, LeasesWork
  <2>2. \A q \in Askers : Asking(q, "lease")' => asked'[q].version <= secret'.version
    BY <1>1, <1>4, <1>6, <1>11 DEF VaultInv, LeasesWork, Works, Asking
  <2>3. CASE on
    <3>1. ~secret.on
      BY <1>1, <1>5, <2>3 DEF SecretRows
    <3>2. \A l \in Leases : lease'[l] # None /\ ~lease'[l].ended => Works(lease[l], secret, agents)
      BY <1>1, <1>8, <2>1, <2>3 DEF VaultInv, LeasesWork
    <3>3. \A l \in Leases : lease'[l] # None /\ ~lease'[l].ended => Works(lease'[l], secret', agents')
      BY <1>6, <1>8, <2>1, <2>3, <3>1, <3>2 DEF Works
    <3>4. \A q \in Askers : Asking(q, "lease")' => Works(asked[q], secret, agents) /\ asked'[q] = asked[q]
      BY <1>1, <1>3, <1>4, <1>11, <2>3 DEF VaultInv, LeasesWork, Asking
    <3>5. \A q \in Askers : Asking(q, "lease")' => Works(asked'[q], secret', agents')
      BY <2>2, <3>1, <3>4, <1>6 DEF Works
    <3> QED
      BY <2>1, <3>3, <3>5 DEF LeasesWork
  <2>4. CASE ~on
    <3>1. \A l \in Leases : lease'[l] # None => lease'[l].ended
      BY <1>8, <2>1, <2>4
    <3>2. \A q \in Askers : Asking(q, "lease")' => asked'[q].late
      BY <1>3, <1>4, <1>11, <2>4 DEF Asking
    <3>3. \A q \in Askers : Asking(q, "lease")' => Works(asked'[q], secret', agents')
      BY <2>2, <3>2 DEF Works
    <3> QED
      BY <2>1, <3>1, <3>3 DEF LeasesWork
  <2> QED
    BY <2>3, <2>4
<1> QED
  BY <1>9, <1>13, <1>14, <1>15, <1>10 DEF VaultInv

LEMMA Granted ==
    ASSUME VaultInv, NEW token \in Tokens, NEW on \in BOOLEAN, set_grant(token, on)
    PROVE  VaultInv'
<1> DEFINE late == [q \in Askers |-> ~on /\ asked[q] # None /\ asked[q].op = "lease"
                                     /\ asked[q].token = token]
           of == [l \in Leases |-> lease[l] # None /\ lease[l].token = token]
<1>1. /\ (token \in agents) # on
      /\ agents' = IF on THEN agents \cup {token} ELSE agents \ {token}
      /\ lease' = IF on THEN lease ELSE EndLeases(of)
      /\ UNCHANGED <<secret, typed>>
  BY DEF set_grant, noc_revoke_subject_leases
<1>2. asked' = Overtaking(late)
  BY DEF set_grant, Overtaking
<1>3. /\ \A q \in Askers : late[q] <=> ~on /\ Asking(q, "lease") /\ asked[q].token = token
      /\ \A l \in Leases : lease[l] # None => (of[l] <=> lease[l].token = token)
  BY DEF Asking
<1> HIDE DEF late, of
<1>4. /\ asked' \in [Askers -> Asks \cup {None}]
      /\ \A q \in Askers :
           /\ asked[q] = None => asked'[q] = None
           /\ asked[q] # None => /\ asked'[q].op = asked[q].op
                                 /\ late[q] => asked'[q].late
                                 /\ ~late[q] => asked'[q] = asked[q]
                                 /\ asked[q].op = "lease" =>
                                      /\ asked'[q].version = asked[q].version
                                      /\ asked'[q].token = asked[q].token
  BY <1>2, Late
<1>5. /\ lease' \in [Leases -> {None} \cup LeaseRows]
      /\ \A l \in Leases :
           /\ lease[l] = None => lease'[l] = None
           /\ lease[l] # None => /\ lease'[l].version = lease[l].version
                                 /\ on \/ lease[l].token # token => lease'[l] = lease[l]
                                 /\ ~on /\ lease[l].token = token => lease'[l].ended
  BY <1>1, <1>3, Ended, RowFacts DEF VaultInv
<1>6. VaultTypeOK'
  BY <1>1, <1>4, <1>5 DEF VaultInv, VaultTypeOK, LeaseRows
<1>7. NothingYet'
  BY <1>1, <1>4, <1>5 DEF VaultInv, NothingYet
<1>8. \A q \in Askers : /\ ~Asking(q, "lease") => asked'[q] = asked[q]
                        /\ \A op \in {"update", "lease", "running"} : Asking(q, op)' => Asking(q, op)
                        /\ Asking(q, "update") \/ Asking(q, "running") => ~Asking(q, "lease")
  BY <1>3, <1>4 DEF Asking
<1>9. Sealed' /\ Pinned'
  BY <1>1, <1>8 DEF VaultInv, Sealed, SealOpens, Pinned, InVault
<1>10. LeasesWork'
  <2> SUFFICES ASSUME InVault PROVE LeasesWork'
    BY <1>1 DEF LeasesWork, InVault
  <2>1. \A t \in Tokens \ {token} : t \in agents => t \in agents'
    BY <1>1
  <2>2. on => agents \subseteq agents'
    BY <1>1
  <2>3. ASSUME NEW l \in Leases, lease'[l] # None
        PROVE  /\ lease'[l].version <= secret'.version
               /\ ~lease'[l].ended => Works(lease'[l], secret', agents')
    <3>1. lease[l] # None /\ lease[l].version <= secret.version /\ lease[l] \in LeaseRows
      BY <1>5, <2>3, RowFacts DEF VaultInv, LeasesWork
    <3>2. CASE ~on /\ lease[l].token = token
      BY <1>1, <1>5, <3>1, <3>2
    <3>3. CASE on \/ lease[l].token # token
      <4>1. lease'[l] = lease[l]
        BY <1>5, <3>1, <3>3
      <4>2. ~lease[l].ended => Works(lease[l], secret, agents)
        BY <3>1 DEF VaultInv, LeasesWork
      <4> QED
        BY <1>1, <2>1, <2>2, <3>1, <3>3, <4>1, <4>2 DEF Works, LeaseRows
    <3> QED
      BY <3>2, <3>3
  <2>4. ASSUME NEW q \in Askers, Asking(q, "lease")' PROVE Works(asked'[q], secret', agents')
    <3>1. Asking(q, "lease") /\ Works(asked[q], secret, agents) /\ asked[q] \in LeaseAsks
      BY <1>8, <2>4, RowFacts DEF VaultInv, LeasesWork
    <3>2. CASE late[q]
      BY <1>1, <1>4, <3>1, <3>2 DEF Works, Asking
    <3>3. CASE ~late[q]
      <4>1. asked'[q] = asked[q] /\ (on \/ asked[q].token # token)
        BY <1>3, <1>4, <3>1, <3>3 DEF Asking
      <4> QED
        BY <1>1, <2>1, <2>2, <3>1, <4>1 DEF Works, LeaseAsks
    <3> QED
      BY <3>2, <3>3
  <2> QED
    BY <2>3, <2>4 DEF LeasesWork
<1> QED
  BY <1>6, <1>7, <1>9, <1>10 DEF VaultInv

(* An edit: every other edit and command in flight is late, and a new      *)
(* version is past every lease and every request for one.                  *)
LEMMA Updated ==
    ASSUME VaultInv, NEW q \in Askers, update_secret(q)
    PROVE  VaultInv'
<1> DEFINE a == asked[q]
           rebound == a.read.host # a.host
           resealed == a.content # 0 \/ rebound
           content == IF a.content # 0 THEN a.content ELSE a.read.sealed[2]
           sealed == IF resealed THEN seal(a.host, content) ELSE a.read.sealed
           renewed == IF resealed THEN secret.version + 1 ELSE secret.version
           pin == IF rebound THEN None ELSE secret.pin
           mixed == secret.mixed \/ a.late
           late == [p \in Askers |-> asked[p] # None /\ asked[p].op \in {"update", "running"}]
           all == [l \in Leases |-> TRUE]
<1>1. /\ Asking(q, "update") /\ InVault /\ (resealed => secret.version < MaxContent)
      /\ UNCHANGED <<agents, typed>>
  BY DEF update_secret, Asking
<1>2. /\ a \in UpdateAsks /\ a.read \in SecretRows /\ a.host \in Hosts
      /\ a.content \in Contents \cup {0} /\ a.late \in BOOLEAN
      /\ secret \in SecretRows /\ secret.version \in Contents /\ secret.version \in Int
  BY <1>1, RowFacts DEF UpdateAsks, SecretRows
<1>3. secret' = [secret EXCEPT !.host = a.host, !.sealed = sealed, !.version = renewed,
                               !.pin = pin, !.mixed = mixed]
  BY <1>2 DEF update_secret, SecretRows
<1>4. lease' = IF resealed THEN EndLeases(all) ELSE lease
  BY DEF update_secret, noc_revoke_secret_leases
<1>5. asked' = [p \in Askers |-> IF p = q THEN None ELSE Overtaking(late)[p]]
  BY DEF update_secret, Overtakes, Overtaking
<1>6. sealed \in Hosts \X Contents /\ opens(a.host, sealed)
  <2>1. a.read.sealed \in Hosts \X Contents /\ opens(a.read.host, a.read.sealed)
    BY <1>1, <1>2 DEF VaultInv, Sealed, SecretRows
  <2>2. content \in Contents
    BY <1>2, <2>1
  <2> QED
    BY <1>2, <2>1, <2>2 DEF seal, opens
<1>7. /\ renewed \in Contents /\ secret.version <= renewed
      /\ resealed => secret.version < renewed
  BY <1>1, <1>2, VaultConstants DEF Contents
<1>8. /\ pin \in Hosts \cup {None} /\ mixed \in BOOLEAN
      /\ pin \in {None, a.host} \/ mixed
  <2>1. pin \in Hosts \cup {None} /\ mixed \in BOOLEAN
    BY <1>2 DEF SecretRows
  <2>2. CASE mixed \/ rebound
    BY <2>1, <2>2
  <2>3. CASE ~mixed /\ ~rebound
    <3>1. secret.pin \in {None, secret.host} /\ ~a.late
      BY <1>1, <2>3 DEF VaultInv, Pinned
    <3>2. a.read.host = secret.host
      BY <1>1, <3>1 DEF VaultInv, Pinned
    <3> QED
      BY <2>1, <2>3, <3>1, <3>2
  <2> QED
    BY <2>1, <2>2, <2>3
<1>9. \A p \in Askers : late[p] <=> Asking(p, "update") \/ Asking(p, "running")
  BY DEF Asking
<1>10. PICK rows : rows = Overtaking(late)
  OBVIOUS
<1>11. resealed \/ (renewed = secret.version /\ lease' = lease)
  BY <1>4
<1>12. resealed => lease' = EndLeases(all) /\ \A l \in Leases : all[l]
  BY <1>4
<1> HIDE DEF sealed, renewed, pin, mixed, late, all, content, resealed, rebound
<1>13. /\ secret' \in SecretRows /\ secret'.host = a.host /\ secret'.sealed = sealed
       /\ secret'.version = renewed /\ secret'.on = secret.on
       /\ secret'.pin = pin /\ secret'.mixed = mixed
  BY <1>2, <1>3, <1>6, <1>7, <1>8 DEF SecretRows
<1>14. /\ asked' \in [Askers -> Asks \cup {None}] /\ asked'[q] = None
       /\ \A p \in Askers \ {q} :
            /\ asked[p] = None => asked'[p] = None
            /\ asked[p] # None => /\ asked'[p].op = asked[p].op
                                  /\ late[p] => asked'[p].late
                                  /\ ~late[p] => asked'[p] = asked[p]
                                  /\ asked[p].op = "update" => asked'[p].read = asked[p].read
  BY <1>5, <1>10, Late
<1>15. /\ lease' \in [Leases -> {None} \cup LeaseRows]
       /\ \A l \in Leases :
            /\ lease[l] = None => lease'[l] = None
            /\ lease[l] # None => /\ lease'[l].version = lease[l].version
                                  /\ lease'[l].ended \/ (~resealed /\ lease'[l] = lease[l])
  <2>1. CASE resealed
    BY <1>12, <2>1, Ended DEF VaultInv
  <2>2. CASE ~resealed
    BY <1>11, <2>2, RowFacts
  <2> QED
    BY <2>1, <2>2
<1>16. VaultTypeOK'
  BY <1>1, <1>13, <1>14, <1>15 DEF VaultInv, VaultTypeOK, LeaseRows
<1>17. NothingYet'
  BY <1>13, VaultRows DEF NothingYet
<1>18. \A p \in Askers :
         /\ \A op \in {"update", "lease", "running"} : Asking(p, op)' => Asking(p, op) /\ p # q
         /\ Asking(p, "update")' => asked'[p].read = asked[p].read /\ asked'[p].late
         /\ Asking(p, "running")' => asked'[p].late
         /\ Asking(p, "lease")' => asked'[p] = asked[p]
  BY <1>9, <1>14 DEF Asking
<1>19. Sealed'
  BY <1>6, <1>13, <1>18 DEF VaultInv, Sealed, SealOpens
<1>20. Pinned'
  BY <1>8, <1>13, <1>18 DEF Pinned
<1>21. LeasesWork'
  <2>1. ASSUME NEW l \in Leases, lease'[l] # None
        PROVE  /\ lease'[l].version <= secret'.version
               /\ ~lease'[l].ended => Works(lease'[l], secret', agents')
    <3>1. lease[l] # None /\ lease[l].version <= secret.version /\ lease[l].version \in Int
      BY <1>1, <1>15, <2>1, RowFacts DEF VaultInv, LeasesWork, LeaseRows, Contents
    <3>2. lease'[l].version <= secret'.version
      BY <1>2, <1>7, <1>13, <1>15, <3>1 DEF Contents
    <3>3. CASE ~lease'[l].ended
      <4>1. lease'[l] = lease[l] /\ ~resealed
        BY <1>15, <3>1, <3>3
      <4>2. Works(lease[l], secret, agents)
        BY <1>1, <3>1, <3>3, <4>1 DEF VaultInv, LeasesWork
      <4> QED
        BY <1>1, <1>11, <1>13, <3>2, <4>1, <4>2 DEF Works
    <3> QED
      BY <3>2, <3>3
  <2>2. ASSUME NEW p \in Askers, Asking(p, "lease")' PROVE Works(asked'[p], secret', agents')
    <3>1. /\ asked'[p] = asked[p] /\ Works(asked[p], secret, agents)
          /\ asked[p].version \in Int
      BY <1>1, <1>18, <2>2, RowFacts DEF VaultInv, LeasesWork, LeaseAsks, Contents
    <3>2. asked[p].version <= secret'.version /\ (resealed => asked[p].version < secret'.version)
      BY <1>2, <1>7, <1>13, <3>1 DEF Works, Contents
    <3> QED
      BY <1>1, <1>2, <1>11, <1>13, <3>1, <3>2 DEF Works, Contents
  <2> QED
    BY <2>1, <2>2 DEF LeasesWork
<1> QED
  BY <1>16, <1>17, <1>19, <1>20, <1>21 DEF VaultInv

LEMMA VaultStep == VaultInv /\ [VaultNext]_vaultVars => VaultInv'
<1> SUFFICES ASSUME VaultInv, [VaultNext]_vaultVars PROVE VaultInv'
  OBVIOUS
<1>1. CASE delete_secret
  BY <1>1, DeletedSecret
<1>2. CASE forget_host_key
  BY <1>2, KeyForgotten
<1>3. ASSUME NEW host \in Hosts, create_secret(host) PROVE VaultInv'
  BY <1>3, Created
<1>4. ASSUME NEW on \in BOOLEAN, agent_access(on) PROVE VaultInv'
  BY <1>4, Switched
<1>5. ASSUME NEW on \in BOOLEAN, NEW t \in Tokens, set_grant(t, on) PROVE VaultInv'
  BY <1>5, Granted
<1>6. ASSUME NEW l \in Leases, revoke_lease(l) PROVE VaultInv'
  BY <1>6, Revoked
<1>7. ASSUME NEW q \in Askers, update_secret(q) PROVE VaultInv'
  BY <1>7, Updated
<1>8. ASSUME NEW q \in Askers, exec_opens(q) \/ runbook_credential(q) PROVE VaultInv'
  BY <1>8, Reads
<1>9. ASSUME NEW q \in Askers, NEW host \in Hosts, NEW content \in 0 .. MaxContent,
             update_reads(q, host, content)
      PROVE  VaultInv'
  BY <1>9, Reads
<1>10. ASSUME NEW q \in Askers, NEW t \in Tokens, lease_reads(q, t) PROVE VaultInv'
  BY <1>10, Reads
<1>11. ASSUME NEW q \in Askers, NEW l \in Leases, issue_lease(q, l) PROVE VaultInv'
  BY <1>11, Issued
<1>12. ASSUME NEW q \in Askers, NEW l \in Leases, exec_checks(q, l) PROVE VaultInv'
  BY <1>12, Reads
<1>13. ASSUME NEW q \in Askers, NEW connected \in BOOLEAN, exec_ran(q, connected) PROVE VaultInv'
  BY <1>13, Ran
<1>14. CASE UNCHANGED vaultVars
  BY <1>14 DEF vaultVars, VaultInv, VaultTypeOK, NothingYet, Sealed, SealOpens, Pinned, LeasesWork,
               Works, InVault, Asking
<1> QED
  BY <1>1, <1>2, <1>3, <1>4, <1>5, <1>6, <1>7, <1>8, <1>9, <1>10, <1>11, <1>12, <1>13, <1>14
     DEF VaultNext

(* A credential that is deleted stays so, and its version only grows.      *)
LEMMA VersionGrows ==
    ASSUME VaultInv, VaultNext, secret # None, InVault'
    PROVE  InVault /\ secret.version <= secret'.version
<1>1. CASE secret' = secret
  BY <1>1, RowFacts DEF InVault
<1>2. CASE delete_secret
  BY <1>2, VaultConstants DEF delete_secret, InVault
<1>3. CASE forget_host_key
  BY <1>3, RowFacts DEF forget_host_key, SecretRows
<1>4. ASSUME NEW on \in BOOLEAN, agent_access(on)
      PROVE  InVault /\ secret.version <= secret'.version
  BY <1>4, RowFacts DEF agent_access, SecretRows
<1>5. ASSUME NEW q \in Askers, NEW connected \in BOOLEAN, exec_ran(q, connected), secret' # secret
      PROVE  InVault /\ secret.version <= secret'.version
  BY <1>5, RowFacts DEF exec_ran, SecretRows
<1>6. ASSUME NEW q \in Askers, update_secret(q)
      PROVE  InVault /\ secret.version <= secret'.version
  <2> DEFINE resealed == asked[q].content # 0 \/ asked[q].read.host # asked[q].host
             renewed == IF resealed THEN secret.version + 1 ELSE secret.version
  <2>1. InVault /\ secret \in SecretRows /\ secret.version \in Int
    BY <1>6, RowFacts DEF update_secret
  <2>2. secret'.version = renewed
    BY <1>6, <2>1 DEF update_secret, SecretRows
  <2> QED
    BY <2>1, <2>2
<1>7. ASSUME NEW host \in Hosts, create_secret(host) PROVE FALSE
  BY <1>7 DEF create_secret
<1>8. \/ \E on \in BOOLEAN, t \in Tokens : set_grant(t, on)
      \/ \E l \in Leases : revoke_lease(l)
      \/ \E q \in Askers :
           \/ exec_opens(q) \/ runbook_credential(q)
           \/ \E host \in Hosts, content \in 0 .. MaxContent : update_reads(q, host, content)
           \/ \E t \in Tokens : lease_reads(q, t)
           \/ \E l \in Leases : issue_lease(q, l) \/ exec_checks(q, l)
      => secret' = secret
  BY DEF set_grant, revoke_lease, exec_opens, runbook_credential, update_reads, lease_reads,
         issue_lease, exec_checks
<1> QED
  BY <1>1, <1>2, <1>3, <1>4, <1>5, <1>6, <1>7, <1>8 DEF VaultNext

(* A lease that is there keeps its version, and its end.                   *)
LEMMA LeaseStays ==
    ASSUME VaultInv, VaultNext, NEW l \in Leases, lease[l] # None
    PROVE  lease'[l].version = lease[l].version /\ (lease[l].ended => lease'[l].ended)
<1> DEFINE Stays == lease'[l].version = lease[l].version /\ (lease[l].ended => lease'[l].ended)
<1>1. ASSUME NEW of, lease' = EndLeases(of) PROVE Stays
  BY <1>1, Ended DEF VaultInv
<1>2. CASE lease' = lease
  BY <1>2
<1>3. ASSUME NEW k \in Leases, revoke_lease(k) PROVE Stays
  <2>1. lease' = [lease EXCEPT ![k].ended = TRUE] /\ lease[l] \in LeaseRows
    BY <1>3, RowFacts DEF revoke_lease
  <2> QED
    BY <2>1, RowFacts DEF LeaseRows
<1>4. ASSUME NEW q \in Askers, NEW k \in Leases, issue_lease(q, k) PROVE Stays
  BY <1>4, RowFacts DEF issue_lease
<1>5. ASSUME NEW q \in Askers, update_secret(q) PROVE Stays
  <2>1. lease' = lease \/ lease' = noc_revoke_secret_leases
    BY <1>5 DEF update_secret
  <2> QED
    BY <1>1, <1>2, <2>1 DEF noc_revoke_secret_leases
<1>6. CASE delete_secret
  BY <1>1, <1>6 DEF delete_secret, noc_revoke_secret_leases
<1>7. ASSUME NEW on \in BOOLEAN, agent_access(on) PROVE Stays
  <2>1. lease' = lease \/ lease' = noc_revoke_secret_leases
    BY <1>7 DEF agent_access
  <2> QED
    BY <1>1, <1>2, <2>1 DEF noc_revoke_secret_leases
<1>8. ASSUME NEW on \in BOOLEAN, NEW t \in Tokens, set_grant(t, on) PROVE Stays
  <2>1. lease' = lease \/ lease' = noc_revoke_subject_leases(t)
    BY <1>8 DEF set_grant
  <2> QED
    BY <1>1, <1>2, <2>1 DEF noc_revoke_subject_leases
<1>9. ASSUME \/ forget_host_key
             \/ \E host \in Hosts : create_secret(host)
      PROVE  Stays
  BY <1>2, <1>9 DEF forget_host_key, create_secret
<1>10. ASSUME NEW q \in Askers,
              \/ exec_opens(q) \/ runbook_credential(q)
              \/ \E host \in Hosts, content \in 0 .. MaxContent : update_reads(q, host, content)
              \/ \E t \in Tokens : lease_reads(q, t)
              \/ \E k \in Leases : exec_checks(q, k)
              \/ \E connected \in BOOLEAN : exec_ran(q, connected)
       PROVE  Stays
  <2>1. lease' = lease
    BY <1>10 DEF exec_opens, runbook_credential, update_reads, lease_reads, exec_checks, exec_ran
  <2> QED
    BY <1>2, <2>1
<1> HIDE DEF Stays
<1>11. ASSUME NEW q \in Askers,
              \/ update_secret(q) \/ exec_opens(q) \/ runbook_credential(q)
              \/ \E host \in Hosts, content \in 0 .. MaxContent : update_reads(q, host, content)
              \/ \E t \in Tokens : lease_reads(q, t)
              \/ \E k \in Leases : issue_lease(q, k) \/ exec_checks(q, k)
              \/ \E connected \in BOOLEAN : exec_ran(q, connected)
       PROVE  Stays
  BY <1>4, <1>5, <1>10, <1>11
<1>12. CASE delete_secret \/ forget_host_key \/ \E host \in Hosts : create_secret(host)
  BY <1>6, <1>9, <1>12 DEF Stays
<1>13. CASE \E on \in BOOLEAN : agent_access(on) \/ \E t \in Tokens : set_grant(t, on)
  BY <1>7, <1>8, <1>13 DEF Stays
<1>14. CASE \E k \in Leases : revoke_lease(k)
  BY <1>3, <1>14 DEF Stays
<1> QED
  BY <1>11, <1>12, <1>13, <1>14 DEF VaultNext, Stays

-----------------------------------------------------------------------------
(* The row, the leases and the requests are what the module says they are  *)
(* (store/noc_vault.py, store/noc_access.py).                              *)
THEOREM VaultTyped == VaultSpec => []VaultTypeOK
<1>1. VaultInv => VaultTypeOK
  BY DEF VaultInv
<1> QED
  BY InitialVault, VaultStep, <1>1, PTL DEF VaultSpec

(* However edits, commands, withdrawals and deletions interleave between   *)
(* what they read and what they write, the seal opens for the host in its  *)
(* row, and a pinned key is that host's unless an edit overtook the edit   *)
(* or the command that left it (update_secret, exec_ran).                  *)
THEOREM CredentialOfOneHost == VaultSpec => []CredentialIsOfHost
<1>1. VaultInv => CredentialIsOfHost
  BY DEF VaultInv, Sealed, Pinned, CredentialIsOfHost, PinIsOfHost
<1> QED
  BY InitialVault, VaultStep, <1>1, PTL DEF VaultSpec

(* A lease that was withdrawn, by an edit of the secret, the switch, the   *)
(* grant, its holder or its age, is never good again, even when the switch *)
(* and the grant come back (gate.lease_state).                             *)
THEOREM LeasesStayEnded == VaultSpec => LeasesEndForGood
<1> DEFINE EndsForGood ==
      \A l \in Leases : lease[l] # None /\ ~lease_state(l) /\ ~lease[l].late => ~lease_state(l)'
<1>1. VaultInv /\ [VaultNext]_vaultVars => [EndsForGood]_vaultVars
  <2> SUFFICES ASSUME VaultInv, VaultNext, NEW l \in Leases,
                      lease[l] # None, ~lease_state(l), ~lease[l].late, lease_state(l)'
               PROVE  FALSE
    BY DEF EndsForGood
  <2>1. /\ InVault' /\ secret'.version = lease'[l].version /\ ~lease'[l].ended
        /\ lease'[l] # None
    BY DEF lease_state
  <2>2. secret # None
    BY DEF VaultInv, NothingYet
  <2>3. InVault /\ secret.version <= secret'.version
    BY <2>1, <2>2, VersionGrows
  <2>4. lease'[l].version = lease[l].version /\ (lease[l].ended => lease'[l].ended)
    BY LeaseStays
  <2>5. ~lease[l].ended /\ lease[l].version <= secret.version /\ Works(lease[l], secret, agents)
    BY <2>1, <2>3, <2>4 DEF VaultInv, LeasesWork
  <2>6. secret.version = lease[l].version
    BY <2>1, <2>3, <2>4, <2>5, RowFacts DEF LeaseRows, Contents
  <2> QED
    BY <2>3, <2>5, <2>6 DEF Works, lease_state
<1> QED
  BY InitialVault, VaultStep, <1>1, PTL DEF VaultSpec, LeasesEndForGood, EndsForGood

=============================================================================
