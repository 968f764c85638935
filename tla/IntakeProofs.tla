---------------------------- MODULE IntakeProofs ----------------------------
(***************************************************************************)
(* The safety of the trap path for every spool, batch, queue and segment   *)
(* size and any number of faults.  Two fault classes are excluded because  *)
(* under them the properties do not hold (the runs AmbiguousCommit and     *)
(* StopLosesTraps): a commit whose answer is lost, and a graceful stop.    *)
(***************************************************************************)
EXTENDS Intake, FiniteSetTheorems, TLAPS

(* The faults under which nothing is lost or classified twice.             *)
Survivable == Faults \cap {"stop", "ambiguous"} = {}

-----------------------------------------------------------------------------
(* The inductive invariant, in parts.                                      *)

(* The feed's memory: everything read after the cursor is pending or       *)
(* decoded to nothing, and what the engine took comes before what is       *)
(* queued.                                                                 *)
FeedInv ==
    /\ cursor = dbCursor /\ cursor <= pos /\ pos <= head
    /\ queue \subseteq pending
    /\ \A s \in pending : cursor < s /\ s <= pos /\ kind[s] \in {"event", "poison"}
    /\ \A s \in Seqs : cursor < s /\ s <= pos => kind[s] = "ignored" \/ s \in pending
    /\ \A s \in pending \ queue, q \in queue : s < q
    /\ pump = "commit" => /\ pending = {} /\ pos + 1 <= head
                          /\ kind[pos + 1] = "invalid" /\ pos + 1 \in dead

(* The engine's batch and its open transaction, a prefix of the batch.     *)
EngInv ==
    /\ eng \notin {"drain", "stopped"}
    /\ eng \in {"get", "lock", "txn"} => pending \ queue = batch
    /\ eng \notin {"lock", "txn"} => batch = {}
    /\ eng # "txn" => open = {}
    /\ open \subseteq batch
    /\ \A s \in open : kind[s] = "event"
    /\ \A s \in open, t \in batch : t < s => t \in open
    /\ eng = "aside" => /\ pump = "off" /\ queue = {}
                      /\ \A s \in pending : First(s, pending) => s \in dead

(* What the database holds: exactly one outcome for each record up to the  *)
(* cursor and none after it, before and after a power cut.                 *)
OutcomeInv(c, count) ==
    \A s \in Seqs : /\ s > c => count[s] = 0
                    /\ count[s] \in {0, 1}
                    /\ count[s] = 1 => kind[s] = "event"
                    /\ s <= c /\ count[s] = 0 => kind[s] = "ignored" \/ s \in dead

DbInv ==
    /\ OutcomeInv(dbCursor, dbCount)
    /\ OutcomeInv(durCursor, durCount)
    /\ durCursor <= dbCursor

(* The prune pass never runs ahead of what is durable.                     *)
PruneInv ==
    /\ pruned <= durCursor
    /\ keeper = "checkpoint" => doomed <= dbCursor
    /\ keeper = "unlink" => doomed <= durCursor
    /\ keeper \in {"checkpoint", "unlink"} => pruned < doomed

IInv == TypeOK /\ FeedInv /\ EngInv /\ DbInv /\ PruneInv

(* Without an outage the engine crashes only on a poison record, and that  *)
(* record is in flight until it is set aside.                              *)
BlameInv ==
    /\ dbUp
    /\ OnlyUnclassifiableSetAside
    /\ eng = "crashed" => \E p \in pending \ queue : kind[p] = "poison"

-----------------------------------------------------------------------------
(* A prefix of the queue is closed downward: FirstK takes the smallest.    *)
LEMMA FirstKDownward ==
    ASSUME NEW S \in SUBSET Seqs, NEW k \in Nat,
           NEW s \in FirstK(S, k), NEW t \in S, t < s
    PROVE  t \in FirstK(S, k)
<1> DEFINE Below(u) == {v \in S : v < u}
<1>1. s \in Nat /\ t \in Nat /\ S \subseteq Nat
  BY ConstantsAssumption DEF FirstK, Seqs
<1>2. IsFiniteSet(1 .. MaxSeq)
  BY FS_Interval, ConstantsAssumption
<1>3. IsFiniteSet(S)
  BY <1>2, FS_Subset DEF Seqs
<1>4. IsFiniteSet(Below(s))
  BY <1>3, FS_Subset
<1>5. \A v \in Below(t) : v \in Below(s)
  BY <1>1
<1>6. Cardinality(Below(t)) <= Cardinality(Below(s)) /\ IsFiniteSet(Below(t))
  <2>1. Below(t) \subseteq Below(s)
    BY <1>5
  <2> QED
    BY <1>4, <2>1, FS_Subset
<1>7. Cardinality(Below(s)) < k
  BY DEF FirstK
<1>8. Cardinality(Below(t)) \in Nat /\ Cardinality(Below(s)) \in Nat
  BY <1>4, <1>6, FS_CardinalityType
<1>9. Cardinality(Below(t)) < k
  BY <1>6, <1>7, <1>8
<1> QED
  BY <1>9 DEF FirstK

(* Every step of the main process keeps the types: no record number leaves *)
(* the spool, no task is in a state it does not have.                      *)
LEMMA TypeStep == TypeOK /\ [Next]_vars => TypeOK'
<1> SUFFICES ASSUME TypeOK, [Next]_vars PROVE TypeOK'
  OBVIOUS
<1> USE ConstantsAssumption DEF TypeOK, Seqs, spoolVars, dbVars, durVars, feedVars, engVars, keepVars
<1>1. CASE Written
  BY SMTT(60), <1>1 DEF Written
<1>2. CASE PumpIgnore
  BY <1>2 DEF PumpIgnore
<1>3. CASE PumpPut
  BY SMTT(60), <1>3 DEF PumpPut
<1>4. CASE PumpDeadLetter
  BY SMTT(60), <1>4 DEF PumpDeadLetter
<1>5. CASE PumpSetAside
  BY <1>5 DEF PumpSetAside, Raise
<1>6. CASE PumpDies
  BY <1>6 DEF PumpDies
<1>7. CASE Take
  BY <1>7 DEF Take, FirstK
<1>8. CASE EngineLost
  BY <1>8 DEF EngineLost
<1>9. CASE Rewind
  BY <1>9 DEF Rewind, IsolateUntil, InFlight, ReplayFrom
<1>10. CASE RewindDeadLetter
  BY <1>10 DEF RewindDeadLetter
<1>11. CASE RewindFails
  BY <1>11 DEF RewindFails
<1>12. CASE PruneScan
  <2>1. doomed' \in Seqs
    BY <1>12 DEF PruneScan
  <2> QED
    BY SMTT(60), <1>12, <2>1 DEF PruneScan
<1>13. CASE PruneCheckpoint
  BY <1>13 DEF PruneCheckpoint, Checkpoint
<1>14. CASE PruneDies
  BY <1>14 DEF PruneDies
<1>15. CASE PruneUnlink
  BY <1>15 DEF PruneUnlink
<1>16. CASE WalFlush
  BY <1>16 DEF WalFlush
<1>17. CASE Reconnect
  BY <1>17 DEF Reconnect
<1>18. CASE DrainFails
  BY <1>18 DEF DrainFails
<1>19. CASE Exit
  BY SMTT(60), <1>19 DEF Exit, Restart, ResumeAt, Classify
<1>20. CASE StorageError
  BY SMTT(60), <1>20 DEF StorageError, Fault
<1>21. CASE Outage
  <2>1. faults' \in 0 .. MaxFaults
    BY <1>21 DEF Outage, Fault
  <2>2. dbUp' \in BOOLEAN
    BY <1>21 DEF Outage
  <2> QED
    BY <1>21, <2>1, <2>2 DEF Outage
<1>22. CASE Kill
  BY <1>22 DEF Kill, Fault, Restart, ResumeAt
<1>23. CASE PowerCut
  BY <1>23 DEF PowerCut, Fault, Restart, ResumeAt
<1>24. CASE Stop
  <2>1. eng' \in {"drain", "stopped"} /\ open' \subseteq Seqs
    BY <1>24 DEF Stop
  <2>3. faults' \in 0 .. MaxFaults
    BY <1>24 DEF Stop, Fault
  <2>2. pump' \in {"dead", "off"}
    BY <1>24 DEF Stop
  <2> QED
    BY <1>24, <2>1, <2>2, <2>3 DEF Stop
<1>25. ASSUME NEW s \in batch, Process(s) PROVE TypeOK'
  BY <1>25 DEF Process
<1>26. ASSUME NEW s \in batch, EngineCrash(s) PROVE TypeOK'
  BY <1>26 DEF EngineCrash
<1>27. ASSUME NEW s \in open, CommitBatch(s) PROVE TypeOK'
  <2>1. dbCount' \in [Seqs -> Nat]
    BY <1>27 DEF CommitBatch, Classify
  <2>2. cursor' \in 0 .. MaxSeq /\ dbCursor' \in 0 .. MaxSeq
    BY <1>27 DEF CommitBatch, Raise
  <2>3. pending' \subseteq Seqs /\ batch' \subseteq Seqs /\ open' \subseteq Seqs
    BY <1>27 DEF CommitBatch, Remaining
  <2>4. eng' \in {"get", "lock"}
    BY <1>27 DEF CommitBatch
  <2> QED
    BY <1>27, <2>1, <2>2, <2>3, <2>4 DEF CommitBatch
<1>28. ASSUME NEW s \in pending, RewindSetAside(s) PROVE TypeOK'
  <2>1. cursor' \in 0 .. MaxSeq /\ dbCursor' \in 0 .. MaxSeq /\ pos' \in 0 .. MaxSeq
    BY <1>28 DEF RewindSetAside, Raise
  <2> QED
    BY <1>28, <2>1 DEF RewindSetAside
<1>29. ASSUME NEW s \in queue, Drain(s) PROVE TypeOK'
  <2>1. dbCount' \in [Seqs -> Nat]
    BY <1>29 DEF Drain, Classify
  <2>4. queue' \subseteq Seqs
    BY <1>29 DEF Drain
  <2>2. cursor' \in 0 .. MaxSeq /\ dbCursor' \in 0 .. MaxSeq
    BY <1>29 DEF Drain, Raise
  <2>3. pending' \subseteq Seqs
    BY <1>29 DEF Drain
  <2> QED
    BY <1>29, <2>1, <2>2, <2>3, <2>4 DEF Drain
<1>30. ASSUME NEW s \in open, CommitUnacknowledged(s) PROVE TypeOK'
  <2>1. dbCount' \in [Seqs -> Nat]
    BY <1>30 DEF CommitUnacknowledged, Classify
  <2>2. faults' \in 0 .. MaxFaults
    BY <1>30 DEF CommitUnacknowledged, Fault
  <2>3. dbCursor' \in 0 .. MaxSeq /\ eng' = "lock" /\ open' = {}
    BY <1>30 DEF CommitUnacknowledged
  <2> QED
    BY <1>30, <2>1, <2>2, <2>3 DEF CommitUnacknowledged
<1>31. CASE UNCHANGED vars
  BY <1>31 DEF vars
<1> QED
  BY <1>1, <1>2, <1>3, <1>4, <1>5, <1>6, <1>7, <1>8, <1>9, <1>10, <1>11, <1>12, <1>13, <1>14,
     <1>15, <1>16, <1>17, <1>18, <1>19, <1>20, <1>21, <1>22, <1>23, <1>24, <1>25, <1>26, <1>27,
     <1>28, <1>29, <1>30, <1>31 DEF Next, PumpStep, EngineStep, RewindStep, KeeperStep,
     StopStep, FaultStep

(* The main process is type-correct under every fault class.               *)
THEOREM TypeCorrect == Spec => []TypeOK
<1>1. Init => TypeOK
  BY ConstantsAssumption DEF Init, TypeOK, Seqs
<1> QED
  BY <1>1, TypeStep, PTL DEF Spec

(* The inductive step, one case per action, one step per part.             *)
LEMMA InductiveStep ==
    ASSUME Survivable, IInv, [Next]_vars
    PROVE  IInv'
<1> USE ConstantsAssumption DEF TypeOK, Seqs, spoolVars, dbVars, durVars, feedVars, engVars, keepVars
<1>0. TypeOK /\ TypeOK' /\ FeedInv /\ EngInv /\ DbInv /\ PruneInv
  BY TypeStep DEF IInv
<1>1. CASE Written
  <2>1. FeedInv'
    BY <1>0, <1>1 DEF Written, FeedInv
  <2>2. EngInv'
    BY <1>0, <1>1 DEF Written, EngInv
  <2>3. DbInv'
    BY <1>0, <1>1 DEF Written, DbInv, OutcomeInv
  <2>4. PruneInv'
    BY <1>0, <1>1 DEF Written, PruneInv
  <2> QED
    BY <1>0, <2>1, <2>2, <2>3, <2>4 DEF IInv
<1>2. CASE PumpIgnore
  <2>1. FeedInv'
    BY <1>0, <1>2 DEF PumpIgnore, FeedInv
  <2>2. EngInv'
    BY <1>0, <1>2 DEF PumpIgnore, EngInv
  <2>3. DbInv'
    BY <1>0, <1>2 DEF PumpIgnore, DbInv, OutcomeInv
  <2>4. PruneInv'
    BY <1>0, <1>2 DEF PumpIgnore, PruneInv
  <2> QED
    BY <1>0, <2>1, <2>2, <2>3, <2>4 DEF IInv
<1>3. CASE PumpPut
  <2>1. FeedInv'
    BY SMTT(60), <1>0, <1>3 DEF PumpPut, FeedInv
  <2>2. EngInv'
    BY <1>0, <1>3 DEF PumpPut, EngInv, FeedInv
  <2>3. DbInv'
    BY <1>0, <1>3 DEF PumpPut, DbInv, OutcomeInv
  <2>4. PruneInv'
    BY <1>0, <1>3 DEF PumpPut, PruneInv
  <2> QED
    BY <1>0, <2>1, <2>2, <2>3, <2>4 DEF IInv
<1>4. CASE PumpDeadLetter
  <2>1. FeedInv'
    BY <1>0, <1>4 DEF PumpDeadLetter, FeedInv, Settled
  <2>2. EngInv'
    BY <1>0, <1>4 DEF PumpDeadLetter, EngInv, Settled
  <2>3. DbInv'
    BY <1>0, <1>4 DEF PumpDeadLetter, DbInv, OutcomeInv, Settled
  <2>4. PruneInv'
    BY <1>0, <1>4 DEF PumpDeadLetter, PruneInv, Settled
  <2> QED
    BY <1>0, <2>1, <2>2, <2>3, <2>4 DEF IInv
<1>5. CASE PumpSetAside
  <2>1. pending = {} /\ cursor <= pos /\ pos < head /\ kind[pos + 1] = "invalid" /\ pos + 1 \in dead
    BY <1>0, <1>5 DEF PumpSetAside, FeedInv
  <2>2. cursor' = pos + 1 /\ dbCursor' = pos + 1 /\ durCursor' = pos + 1 /\ pos' = pos + 1
    BY <1>0, <1>5, <2>1 DEF PumpSetAside, Raise
  <2>3. FeedInv'
    BY <1>0, <1>5, <2>1, <2>2 DEF PumpSetAside, FeedInv
  <2>4. EngInv'
    BY <1>0, <1>5, <2>1 DEF PumpSetAside, EngInv, First
  <2>5. \A s \in Seqs : s <= pos => s <= dbCursor \/ kind[s] = "ignored"
    BY <1>0, <2>1 DEF FeedInv
  <2>6. OutcomeInv(dbCursor, dbCount)'
    BY <1>0, <1>5, <2>1, <2>2, <2>5 DEF PumpSetAside, FeedInv, DbInv, OutcomeInv
  <2>7. durCount' = dbCount'
    BY <1>5 DEF PumpSetAside
  <2>8. DbInv'
    BY <1>0, <2>2, <2>6, <2>7 DEF DbInv, OutcomeInv
  <2>9. PruneInv'
    BY <1>0, <1>5, <2>1, <2>2 DEF PumpSetAside, FeedInv, DbInv, PruneInv
  <2> QED
    BY <1>0, <2>3, <2>4, <2>8, <2>9 DEF IInv
<1>6. CASE PumpDies
  <2>1. FeedInv'
    BY <1>0, <1>6 DEF PumpDies, FeedInv
  <2>2. EngInv'
    BY <1>0, <1>6 DEF PumpDies, EngInv
  <2>3. DbInv'
    BY <1>0, <1>6 DEF PumpDies, DbInv, OutcomeInv
  <2>4. PruneInv'
    BY <1>0, <1>6 DEF PumpDies, PruneInv
  <2> QED
    BY <1>0, <2>1, <2>2, <2>3, <2>4 DEF IInv
<1>7. CASE Take
  <2>1. batch' \subseteq queue /\ queue' = queue \ batch'
    BY <1>7 DEF Take, FirstK
  <2>2. \A s \in batch', t \in queue' : s < t
    <3> SUFFICES ASSUME NEW s \in batch', NEW t \in queue' PROVE s < t
      OBVIOUS
    <3>1. s \in queue /\ t \in queue /\ t \notin batch' /\ s \in Nat /\ t \in Nat
      BY <1>0, <2>1
    <3>2. t < s => t \in FirstK(queue, BatchSize)
      BY <1>0, <1>7, <3>1, FirstKDownward DEF Take
    <3> QED
      BY <1>7, <3>1, <3>2 DEF Take
  <2>3. pending = queue /\ open = {}
    <3>1. batch = {} /\ open = {}
      BY <1>0, <1>7 DEF Take, EngInv
    <3>2. pending \ queue = batch
      BY <1>0, <1>7 DEF Take, EngInv
    <3>3. queue \subseteq pending
      BY <1>0 DEF FeedInv
    <3> QED
      BY <3>1, <3>2, <3>3
  <2>4. FeedInv'
    BY <1>0, <1>7, <2>1, <2>2, <2>3 DEF Take, FeedInv
  <2>5. pending' \ queue' = batch'
    BY <1>7, <2>1, <2>3 DEF Take
  <2>6. EngInv'
    BY <1>0, <1>7, <2>3, <2>5 DEF Take, EngInv
  <2>7. DbInv' /\ PruneInv'
    BY <1>0, <1>7 DEF Take, DbInv, OutcomeInv, PruneInv
  <2> QED
    BY <1>0, <2>4, <2>6, <2>7 DEF IInv
<1>8. CASE EngineLost
  <2>1. FeedInv'
    BY <1>0, <1>8 DEF EngineLost, FeedInv
  <2>2. EngInv'
    BY <1>0, <1>8 DEF EngineLost, EngInv
  <2>3. DbInv'
    BY <1>0, <1>8 DEF EngineLost, DbInv, OutcomeInv
  <2>4. PruneInv'
    BY <1>0, <1>8 DEF EngineLost, PruneInv
  <2> QED
    BY <1>0, <2>1, <2>2, <2>3, <2>4 DEF IInv
<1>9. CASE Rewind
  <2>1. FeedInv'
    BY <1>0, <1>9 DEF Rewind, FeedInv, ReplayFrom
  <2>2. EngInv'
    BY <1>0, <1>9 DEF Rewind, EngInv, ReplayFrom
  <2>3. DbInv'
    BY <1>0, <1>9 DEF Rewind, DbInv, OutcomeInv, ReplayFrom
  <2>4. PruneInv'
    BY <1>0, <1>9 DEF Rewind, PruneInv, ReplayFrom
  <2> QED
    BY <1>0, <2>1, <2>2, <2>3, <2>4 DEF IInv
<1>10. CASE RewindDeadLetter
  <2>1. FeedInv'
    BY <1>0, <1>10 DEF RewindDeadLetter, FeedInv, First
  <2>2. EngInv'
    BY <1>0, <1>10 DEF RewindDeadLetter, EngInv, First
  <2>3. DbInv'
    BY <1>0, <1>10 DEF RewindDeadLetter, DbInv, OutcomeInv, First
  <2>4. PruneInv'
    BY <1>0, <1>10 DEF RewindDeadLetter, PruneInv, First
  <2> QED
    BY <1>0, <2>1, <2>2, <2>3, <2>4 DEF IInv
<1>11. CASE RewindFails
  <2>1. FeedInv'
    BY <1>0, <1>11 DEF RewindFails, FeedInv
  <2>2. EngInv'
    BY <1>0, <1>11 DEF RewindFails, EngInv
  <2>3. DbInv'
    BY <1>0, <1>11 DEF RewindFails, DbInv, OutcomeInv
  <2>4. PruneInv'
    BY <1>0, <1>11 DEF RewindFails, PruneInv
  <2> QED
    BY <1>0, <2>1, <2>2, <2>3, <2>4 DEF IInv
<1>12. CASE PruneScan
  <2>1. FeedInv'
    BY <1>0, <1>12 DEF PruneScan, FeedInv
  <2>2. EngInv'
    BY <1>0, <1>12 DEF PruneScan, EngInv
  <2>3. DbInv'
    BY <1>0, <1>12 DEF PruneScan, DbInv, OutcomeInv
  <2>4. doomed' <= cursor /\ pruned < doomed'
    <3>1. PICK p \in Seqs : p > pruned /\ Last(p, {q \in Seqs : Prunable(q)}) /\ doomed' = p
      BY <1>12 DEF PruneScan
    <3>2. Prunable(p)
      BY <3>1 DEF Last
    <3> QED
      BY <1>0, <3>1, <3>2 DEF Prunable
  <2>5. PruneInv'
    BY <1>0, <1>12, <2>4 DEF PruneScan, PruneInv, FeedInv
  <2> QED
    BY <1>0, <2>1, <2>2, <2>3, <2>5 DEF IInv
<1>13. CASE PruneCheckpoint
  <2>1. FeedInv'
    BY <1>0, <1>13 DEF PruneCheckpoint, FeedInv, Checkpoint
  <2>2. EngInv'
    BY <1>0, <1>13 DEF PruneCheckpoint, EngInv, Checkpoint
  <2>3. DbInv'
    BY <1>0, <1>13 DEF PruneCheckpoint, DbInv, OutcomeInv, Checkpoint
  <2>4. PruneInv'
    BY <1>0, <1>13 DEF PruneCheckpoint, PruneInv, FeedInv, DbInv, Checkpoint
  <2> QED
    BY <1>0, <2>1, <2>2, <2>3, <2>4 DEF IInv
<1>14. CASE PruneDies
  <2>1. FeedInv'
    BY <1>0, <1>14 DEF PruneDies, FeedInv
  <2>2. EngInv'
    BY <1>0, <1>14 DEF PruneDies, EngInv
  <2>3. DbInv'
    BY <1>0, <1>14 DEF PruneDies, DbInv, OutcomeInv
  <2>4. PruneInv'
    BY <1>0, <1>14 DEF PruneDies, PruneInv
  <2> QED
    BY <1>0, <2>1, <2>2, <2>3, <2>4 DEF IInv
<1>15. CASE PruneUnlink
  <2>1. FeedInv'
    BY <1>0, <1>15 DEF PruneUnlink, FeedInv
  <2>2. EngInv'
    BY <1>0, <1>15 DEF PruneUnlink, EngInv
  <2>3. DbInv'
    BY <1>0, <1>15 DEF PruneUnlink, DbInv, OutcomeInv
  <2>4. PruneInv'
    BY <1>0, <1>15 DEF PruneUnlink, PruneInv
  <2> QED
    BY <1>0, <2>1, <2>2, <2>3, <2>4 DEF IInv
<1>16. CASE WalFlush
  <2>1. FeedInv'
    BY <1>0, <1>16 DEF WalFlush, FeedInv
  <2>2. EngInv'
    BY <1>0, <1>16 DEF WalFlush, EngInv
  <2>3. DbInv'
    BY <1>0, <1>16 DEF WalFlush, DbInv, OutcomeInv
  <2>4. PruneInv'
    BY SMTT(60), <1>0, <1>16 DEF WalFlush, PruneInv, FeedInv, DbInv
  <2> QED
    BY <1>0, <2>1, <2>2, <2>3, <2>4 DEF IInv
<1>17. CASE Reconnect
  <2>1. FeedInv'
    BY <1>0, <1>17 DEF Reconnect, FeedInv
  <2>2. EngInv'
    BY <1>0, <1>17 DEF Reconnect, EngInv
  <2>3. DbInv'
    BY <1>0, <1>17 DEF Reconnect, DbInv, OutcomeInv
  <2>4. PruneInv'
    BY <1>0, <1>17 DEF Reconnect, PruneInv
  <2> QED
    BY <1>0, <2>1, <2>2, <2>3, <2>4 DEF IInv
<1>18. CASE StorageError
  <2>1. FeedInv'
    BY <1>0, <1>18 DEF StorageError, FeedInv
  <2>2. EngInv'
    BY <1>0, <1>18 DEF StorageError, EngInv
  <2>3. DbInv'
    BY <1>0, <1>18 DEF StorageError, DbInv, OutcomeInv
  <2>4. PruneInv'
    BY <1>0, <1>18 DEF StorageError, PruneInv
  <2> QED
    BY <1>0, <2>1, <2>2, <2>3, <2>4 DEF IInv
<1>19. CASE Outage
  <2>1. FeedInv'
    BY <1>0, <1>19 DEF Outage, FeedInv
  <2>2. EngInv'
    BY <1>0, <1>19 DEF Outage, EngInv
  <2>3. DbInv'
    BY <1>0, <1>19 DEF Outage, DbInv, OutcomeInv
  <2>4. PruneInv'
    BY <1>0, <1>19 DEF Outage, PruneInv
  <2> QED
    BY <1>0, <2>1, <2>2, <2>3, <2>4 DEF IInv
<1>20. CASE Kill
  <2>1. FeedInv'
    BY <1>0, <1>20 DEF Kill, FeedInv, Restart, ResumeAt
  <2>2. EngInv'
    BY <1>0, <1>20 DEF Kill, EngInv, Restart, ResumeAt
  <2>3. DbInv'
    BY <1>0, <1>20 DEF Kill, DbInv, OutcomeInv, Restart, ResumeAt
  <2>4. PruneInv'
    BY <1>0, <1>20 DEF Kill, PruneInv, Restart, ResumeAt
  <2> QED
    BY <1>0, <2>1, <2>2, <2>3, <2>4 DEF IInv
<1>21. CASE PowerCut
  <2>1. FeedInv'
    BY <1>0, <1>21 DEF PowerCut, FeedInv, DbInv, Restart, ResumeAt
  <2>2. EngInv'
    BY <1>0, <1>21 DEF PowerCut, EngInv, Restart, ResumeAt
  <2>3. DbInv'
    BY <1>0, <1>21 DEF PowerCut, DbInv, OutcomeInv, Restart, ResumeAt
  <2>4. PruneInv'
    BY <1>0, <1>21 DEF PowerCut, PruneInv, FeedInv, DbInv, Restart, ResumeAt
  <2> QED
    BY <1>0, <2>1, <2>2, <2>3, <2>4 DEF IInv
<1>22. ASSUME NEW s \in batch, Process(s) PROVE IInv'
  <2>1. FeedInv'
    BY <1>0, <1>22 DEF Process, FeedInv, First
  <2>2. EngInv'
    BY <1>0, <1>22 DEF Process, EngInv, First
  <2>3. DbInv'
    BY <1>0, <1>22 DEF Process, DbInv, OutcomeInv, First
  <2>4. PruneInv'
    BY <1>0, <1>22 DEF Process, PruneInv, First
  <2> QED
    BY <1>0, <2>1, <2>2, <2>3, <2>4 DEF IInv
<1>23. ASSUME NEW s \in batch, EngineCrash(s) PROVE IInv'
  <2>1. FeedInv'
    BY <1>0, <1>23 DEF EngineCrash, FeedInv, First
  <2>2. EngInv'
    BY <1>0, <1>23 DEF EngineCrash, EngInv, First
  <2>3. DbInv'
    BY <1>0, <1>23 DEF EngineCrash, DbInv, OutcomeInv, First
  <2>4. PruneInv'
    BY <1>0, <1>23 DEF EngineCrash, PruneInv, First
  <2> QED
    BY <1>0, <2>1, <2>2, <2>3, <2>4 DEF IInv
<1>24. ASSUME NEW s \in open, CommitBatch(s) PROVE IInv'
  <2> USE DEF EngInv
  <2>1. pending \ queue = batch /\ open \subseteq batch /\ s \in batch /\ cursor < s /\ s \in Seqs
    BY <1>0, <1>24 DEF CommitBatch, FeedInv
  <2>2. cursor' = s /\ dbCursor' = s /\ pending' = {t \in pending : t > s}
    BY <1>0, <1>24, <2>1 DEF CommitBatch, Raise
  <2>3. \A t \in batch : t \in open <=> t <= s
    BY <1>0, <1>24, <2>1 DEF CommitBatch, Staged, Last
  <2>6. \A q \in queue : q > s
    BY <1>0, <2>1 DEF FeedInv
  <2>4. \A t \in Seqs : cursor < t /\ t <= s => kind[t] = "ignored" \/ t \in open
    <3> SUFFICES ASSUME NEW t \in Seqs, cursor < t, t <= s, kind[t] # "ignored" PROVE t \in open
      OBVIOUS
    <3>1. s <= pos /\ t \in pending
      BY <1>0, <2>1 DEF FeedInv
    <3>2. t \notin queue
      BY <1>0, <2>1, <2>6
    <3> QED
      BY <2>1, <2>3, <3>1, <3>2
  <2>5. batch' = batch \ open /\ open' = {} /\ queue' = queue /\ pos' = pos /\ head' = head
        /\ kind' = kind /\ pump' = pump /\ dead' = dead
    BY <1>24 DEF CommitBatch, Remaining
  <2>7. pending' \ queue' = batch'
    <3>1. \A t \in batch : t \in Nat /\ s \in Nat
      BY <1>0, <2>1
    <3>2. \A t \in batch : (t > s) <=> (t \notin open)
      BY <2>3, <3>1
    <3> QED
      BY <2>1, <2>2, <2>5, <3>2
  <2>8. FeedInv'
    <3>1. queue' \subseteq pending'
      BY <1>0, <2>2, <2>5, <2>6 DEF FeedInv
    <3>2. \A t \in pending' : cursor' < t /\ t <= pos' /\ kind'[t] \in {"event", "poison"}
      BY <1>0, <2>2, <2>5 DEF FeedInv
    <3>3. \A t \in Seqs : cursor' < t /\ t <= pos' => kind'[t] = "ignored" \/ t \in pending'
      BY <1>0, <2>1, <2>2, <2>5 DEF FeedInv
    <3>4. \A t \in pending' \ queue', q \in queue' : t < q
      BY <1>0, <2>2, <2>5 DEF FeedInv
    <3>5. pump # "commit"
      BY <1>0, <2>1 DEF FeedInv
    <3>6. cursor' = dbCursor' /\ cursor' <= pos' /\ pos' <= head'
      BY <1>0, <2>1, <2>2, <2>5 DEF FeedInv
    <3> QED
      BY <2>5, <3>1, <3>2, <3>3, <3>4, <3>5, <3>6 DEF FeedInv
  <2>9. eng' \in {"get", "lock"} /\ (eng' = "get" => batch' = {})
    BY <1>24 DEF CommitBatch
  <2>10. EngInv'
    BY <1>0, <2>5, <2>7, <2>9
  <2>11. \A t \in Seqs : dbCount'[t] = IF t \in open THEN dbCount[t] + 1 ELSE dbCount[t]
    BY <1>24 DEF CommitBatch, Classify
  <2>12. \A t \in open : dbCount[t] = 0 /\ kind[t] = "event" /\ t \in Seqs
    BY <1>0, <2>1 DEF FeedInv, DbInv, OutcomeInv
  <2>13. OutcomeInv(dbCursor, dbCount)'
    <3> SUFFICES ASSUME NEW t \in Seqs
                 PROVE  /\ t > s => dbCount'[t] = 0
                        /\ dbCount'[t] \in {0, 1}
                        /\ dbCount'[t] = 1 => kind[t] = "event"
                        /\ t <= s /\ dbCount'[t] = 0 => kind[t] = "ignored" \/ t \in dead
      BY <2>2, <2>5 DEF OutcomeInv
    <3>1. CASE t \in open
      <4>1. dbCount'[t] = 1 /\ kind[t] = "event"
        BY <2>11, <2>12, <3>1
      <4>2. t <= s
        BY <2>1, <2>3, <3>1
      <4> QED
        BY <1>0, <2>1, <4>1, <4>2
    <3>2. CASE t \notin open
      <4>1. dbCount'[t] = dbCount[t]
        BY <2>11, <3>2
      <4>2. t > s => t > dbCursor
        BY <1>0, <2>1 DEF FeedInv
      <4>3. t <= s => t <= dbCursor \/ kind[t] = "ignored"
        BY <1>0, <2>1, <2>4, <3>2 DEF FeedInv
      <4> QED
        BY <1>0, <4>1, <4>2, <4>3 DEF DbInv, OutcomeInv
    <3> QED
      BY <3>1, <3>2
  <2>14. DbInv'
    BY <1>0, <1>24, <2>1, <2>2, <2>13 DEF CommitBatch, DbInv, OutcomeInv, FeedInv
  <2>15. PruneInv'
    BY <1>0, <1>24, <2>1, <2>2 DEF CommitBatch, PruneInv, FeedInv
  <2> QED
    BY <1>0, <2>8, <2>10, <2>14, <2>15 DEF IInv
<1>25. ASSUME NEW s \in pending, RewindSetAside(s) PROVE IInv'
  <2>1. cursor < s /\ s <= pos /\ s \in Seqs /\ s \in dead /\ batch = {} /\ open = {}
        /\ \A t \in pending : s <= t
    BY <1>0, <1>25 DEF RewindSetAside, FeedInv, EngInv, First
  <2>2. cursor' = s /\ dbCursor' = s /\ durCursor' = s /\ pos' = s
    BY <1>0, <1>25, <2>1 DEF RewindSetAside, Raise
  <2>3. \A t \in Seqs : t < s => t <= dbCursor \/ kind[t] = "ignored"
    BY <1>0, <2>1 DEF FeedInv
  <2>4. queue = {}
    BY <1>0, <1>25 DEF RewindSetAside, EngInv
  <2>5. FeedInv'
    BY <1>0, <1>25, <2>1, <2>2, <2>4 DEF RewindSetAside, FeedInv
  <2>6. EngInv'
    BY <1>0, <1>25, <2>1, <2>4 DEF RewindSetAside, EngInv
  <2>7. OutcomeInv(dbCursor, dbCount)'
    BY <1>0, <1>25, <2>1, <2>2, <2>3 DEF RewindSetAside, DbInv, OutcomeInv, FeedInv
  <2>8. durCount' = dbCount'
    BY <1>25 DEF RewindSetAside
  <2>9. DbInv'
    BY <1>0, <2>2, <2>7, <2>8 DEF DbInv, OutcomeInv
  <2>10. PruneInv'
    BY <1>0, <1>25, <2>1, <2>2 DEF RewindSetAside, PruneInv, DbInv, FeedInv
  <2> QED
    BY <1>0, <2>5, <2>6, <2>9, <2>10 DEF IInv
<1>26. CASE UNCHANGED vars
  <2>1. FeedInv'
    BY <1>0, <1>26 DEF vars, FeedInv, First
  <2>2. EngInv'
    BY <1>0, <1>26 DEF vars, EngInv, First
  <2>3. DbInv'
    BY <1>0, <1>26 DEF vars, DbInv, OutcomeInv, First
  <2>4. PruneInv'
    BY <1>0, <1>26 DEF vars, PruneInv, First
  <2> QED
    BY <1>0, <2>1, <2>2, <2>3, <2>4 DEF IInv
<1>27. ~Stop /\ ~StopStep /\ \A t \in open : ~CommitUnacknowledged(t)
  BY <1>0 DEF Survivable, Stop, CommitUnacknowledged, Fault, StopStep, Drain, DrainFails, Exit, EngInv
<1> QED
  BY <1>1, <1>2, <1>3, <1>4, <1>5, <1>6, <1>7, <1>8, <1>9, <1>10, <1>11, <1>12, <1>13, <1>14,
     <1>15, <1>16, <1>17, <1>18, <1>19, <1>20, <1>21, <1>22, <1>23, <1>24, <1>25, <1>26, <1>27
     DEF Next, PumpStep, EngineStep, RewindStep, KeeperStep, FaultStep

-----------------------------------------------------------------------------
(* A fresh main process on an empty database satisfies the invariant.      *)
LEMMA InitIInv == Init => IInv
<1> SUFFICES ASSUME Init PROVE IInv
  OBVIOUS
<1>1. TypeOK
  BY ConstantsAssumption DEF Init, TypeOK, Seqs
<1>2. FeedInv /\ EngInv
  BY <1>1, ConstantsAssumption DEF Init, FeedInv, EngInv, TypeOK, Seqs
<1>3. DbInv /\ PruneInv
  BY <1>1, ConstantsAssumption DEF Init, DbInv, OutcomeInv, PruneInv, TypeOK, Seqs
<1> QED
  BY <1>1, <1>2, <1>3 DEF IInv

(* The invariant holds in every behaviour with survivable faults.          *)
THEOREM Inductive == ASSUME Survivable PROVE Spec => []IInv
<1>1. IInv /\ [Next]_vars => IInv'
  BY InductiveStep
<1> QED
  BY <1>1, InitIInv, PTL DEF Spec

(* Whatever kills, power cuts, storage errors and outages happen, however  *)
(* many records are poison and whatever the batch, queue and segment       *)
(* sizes: nothing is classified twice and nothing before its turn.         *)
THEOREM ExactlyOnce == ASSUME Survivable PROVE Spec => [](ClassifiedOnce /\ NothingAhead)
<1>1. IInv => ClassifiedOnce /\ NothingAhead
  BY ConstantsAssumption DEF IInv, DbInv, OutcomeInv, TypeOK, Seqs, ClassifiedOnce, NothingAhead
<1> QED
  BY <1>1, Inductive, PTL

(* Nothing is skipped: what the committed cursor has passed is classified, *)
(* set aside, or decodes to nothing.                                       *)
THEOREM EachIsAccountedFor == ASSUME Survivable PROVE Spec => []NothingSkipped
<1>1. IInv => NothingSkipped
  BY ConstantsAssumption DEF IInv, DbInv, OutcomeInv, TypeOK, Seqs, NothingSkipped
<1> QED
  BY <1>1, Inductive, PTL

(* A segment is deleted only when the cursor past it is on disk.           *)
THEOREM DeletionIsSafe == ASSUME Survivable PROVE Spec => []PrunedIsDurable
<1>1. IInv => PrunedIsDurable
  BY DEF IInv, PruneInv, PrunedIsDurable
<1> QED
  BY <1>1, Inductive, PTL

-----------------------------------------------------------------------------
(* Without an outage the isolation blames the right record.                *)
NoOutage == Survivable /\ "outage" \notin Faults

(* Every step keeps the blame where it belongs.                            *)
LEMMA BlameStep ==
    ASSUME NoOutage, IInv, BlameInv, [Next]_vars
    PROVE  BlameInv'
<1> USE ConstantsAssumption DEF TypeOK, Seqs, spoolVars, dbVars, durVars, feedVars, engVars, keepVars,
        OnlyUnclassifiableSetAside, BlameInv
<1>0. TypeOK /\ FeedInv /\ EngInv /\ Survivable
  BY DEF IInv, NoOutage
<1>1. CASE Written
  BY <1>0, <1>1 DEF Written
<1>2. CASE PumpStep
  <2>1. CASE PumpIgnore
    BY <1>0, <2>1 DEF PumpIgnore
  <2>2. CASE PumpPut
    BY <1>0, <2>2 DEF PumpPut, FeedInv
  <2>3. CASE PumpDeadLetter
    BY <1>0, <2>3 DEF PumpDeadLetter
  <2>4. CASE PumpSetAside
    BY <1>0, <2>4 DEF PumpSetAside
  <2>5. CASE PumpDies
    BY <1>0, <2>5 DEF PumpDies
  <2> QED
    BY <1>2, <2>1, <2>2, <2>3, <2>4, <2>5 DEF PumpStep
<1>3. CASE Take
  BY <1>0, <1>3 DEF Take
<1>4. ASSUME NEW s \in batch, Process(s) PROVE BlameInv'
  BY <1>0, <1>4 DEF Process
<1>5. ASSUME NEW s \in batch, EngineCrash(s) PROVE BlameInv'
  BY <1>0, <1>5 DEF EngineCrash, EngInv, First
<1>6. ASSUME NEW s \in open, CommitBatch(s) PROVE BlameInv'
  BY <1>0, <1>6 DEF CommitBatch
<1>7. CASE Rewind
  BY <1>0, <1>7 DEF Rewind
<1>8. CASE RewindDeadLetter
  <2>1. PICK s \in pending : First(s, pending) /\ dead' = dead \cup {s}
    BY <1>8 DEF RewindDeadLetter
  <2>2. PICK p \in pending \ queue : kind[p] = "poison"
    BY <1>8 DEF RewindDeadLetter
  <2>3. PICK x : pending \ queue = {x}
    <3>1. IsFiniteSet(1 .. MaxSeq)
      BY FS_Interval
    <3>2. IsFiniteSet(pending \ queue)
      BY <1>0, <3>1, FS_Subset
    <3>3. Cardinality(pending \ queue) = 1
      BY <1>8 DEF RewindDeadLetter, Suspect, InFlight
    <3> QED
      BY <3>2, <3>3, FS_Singleton
  <2>4. s \notin queue
    BY <1>0, <2>1, <2>2 DEF First, FeedInv
  <2>5. s = p
    BY <2>1, <2>2, <2>3, <2>4
  <2> QED
    BY <1>0, <1>8, <2>1, <2>2, <2>5 DEF RewindDeadLetter
<1>9. ASSUME NEW s \in pending, RewindSetAside(s) PROVE BlameInv'
  BY <1>0, <1>9 DEF RewindSetAside
<1>10. CASE KeeperStep
  BY <1>0, <1>10 DEF KeeperStep, PruneScan, PruneCheckpoint, PruneDies, PruneUnlink
<1>11. CASE WalFlush
  BY <1>0, <1>11 DEF WalFlush
<1>12. CASE StorageError
  BY <1>0, <1>12 DEF StorageError
<1>13. CASE Kill
  BY <1>0, <1>13 DEF Kill, Restart
<1>14. CASE PowerCut
  BY <1>0, <1>14 DEF PowerCut, Restart
<1>15. CASE UNCHANGED vars
  BY <1>0, <1>15 DEF vars
<1>16. ~Outage /\ ~Stop /\ ~StopStep /\ \A t \in open : ~CommitUnacknowledged(t)
  BY <1>0 DEF NoOutage, Survivable, Outage, Stop, CommitUnacknowledged, Fault, StopStep, Drain,
              DrainFails, Exit, EngInv
<1>17. ~EngineLost /\ ~RewindFails /\ ~Reconnect
  BY DEF EngineLost, RewindFails, Reconnect
<1> QED
  BY <1>1, <1>2, <1>3, <1>4, <1>5, <1>6, <1>7, <1>8, <1>9, <1>10, <1>11, <1>12, <1>13, <1>14,
     <1>15, <1>16, <1>17 DEF Next, EngineStep, RewindStep, FaultStep

(* Both invariants, in every behaviour without an outage.                  *)
LEMMA BlameAlways == ASSUME NoOutage PROVE Spec => [](IInv /\ BlameInv)
<1>1. Init => BlameInv
  BY DEF Init, BlameInv, OnlyUnclassifiableSetAside
<1>2. IInv /\ BlameInv /\ [Next]_vars => BlameInv'
  BY BlameStep
<1>3. Survivable
  BY DEF NoOutage
<1> QED
  BY <1>1, <1>2, <1>3, Inductive, PTL DEF Spec

(* Only records that cannot be classified reach the dead-letter file, as   *)
(* long as the database stays within reach of one reconnect.               *)
THEOREM IsolationIsRight == ASSUME NoOutage PROVE Spec => []OnlyUnclassifiableSetAside
<1>1. BlameInv => OnlyUnclassifiableSetAside
  BY DEF BlameInv
<1> QED
  BY <1>1, BlameAlways, PTL

-----------------------------------------------------------------------------
(* The refinement: under the invariants what became of a record is a       *)
(* function of its kind and the cursor.                                    *)
LEMMA BecameIsFate ==
    ASSUME IInv, BlameInv
    PROVE  [s \in Seqs |-> Became(s)] = Log!SettledTo(dbCursor)
<1> SUFFICES ASSUME NEW s \in Seqs
             PROVE  Became(s) = IF s <= dbCursor THEN Log!Fate(kind[s]) ELSE "waiting"
  BY DEF Log!SettledTo
<1> USE ConstantsAssumption
<1>0. kind[s] \in Kinds /\ dbCursor \in Nat /\ s \in Nat /\ (s \in dead => kind[s] \in {"invalid", "poison"})
  BY DEF IInv, TypeOK, Seqs, BlameInv, OnlyUnclassifiableSetAside
<1>1. /\ s > dbCursor => dbCount[s] = 0
      /\ dbCount[s] \in {0, 1}
      /\ dbCount[s] = 1 => kind[s] = "event"
      /\ s <= dbCursor /\ dbCount[s] = 0 => kind[s] = "ignored" \/ s \in dead
  BY DEF IInv, DbInv, OutcomeInv
<1>2. CASE s > dbCursor
  BY <1>0, <1>1, <1>2 DEF Became
<1>3. CASE s <= dbCursor /\ dbCount[s] = 1
  BY <1>1, <1>3 DEF Became, Log!Fate
<1>4. CASE s <= dbCursor /\ dbCount[s] = 0
  BY <1>0, <1>1, <1>4 DEF Became, Log!Fate
<1> QED
  BY <1>0, <1>1, <1>2, <1>3, <1>4

(* What one step may do to the log's own state.                            *)
LEMMA LogStep ==
    ASSUME NoOutage, IInv, [Next]_vars
    PROVE  /\ kind' = kind
           /\ \/ head' = head + 1 /\ head' \in Seqs /\ dbCursor' = dbCursor /\ pruned' = pruned
              \/ head' = head /\ dbCursor' > dbCursor /\ dbCursor' <= head /\ pruned' = pruned
              \/ head' = head /\ dbCursor' < dbCursor /\ dbCursor' >= pruned /\ pruned' = pruned
              \/ head' = head /\ dbCursor' = dbCursor /\ pruned' > pruned /\ pruned' <= dbCursor
              \/ head' = head /\ dbCursor' = dbCursor /\ pruned' = pruned
<1> USE ConstantsAssumption DEF TypeOK, Seqs, spoolVars, dbVars, durVars, feedVars, engVars, keepVars
<1>0. TypeOK /\ FeedInv /\ EngInv /\ DbInv /\ PruneInv /\ Survivable
  BY DEF IInv, NoOutage
<1>1. CASE Written
  BY <1>0, <1>1 DEF Written
<1>2. CASE PumpIgnore \/ PumpPut \/ PumpDeadLetter \/ PumpDies
  BY <1>2 DEF PumpIgnore, PumpPut, PumpDeadLetter, PumpDies
<1>3. CASE PumpSetAside
  BY <1>0, <1>3 DEF PumpSetAside, FeedInv
<1>4. CASE Take \/ EngineLost \/ \E s \in batch : Process(s) \/ EngineCrash(s)
  BY <1>4 DEF Take, EngineLost, Process, EngineCrash
<1>5. ASSUME NEW s \in open, CommitBatch(s) PROVE dbCursor' = s /\ dbCursor < s /\ s <= head
  BY <1>0, <1>5 DEF CommitBatch, FeedInv, EngInv
<1>6. ASSUME NEW s \in open, CommitBatch(s) PROVE kind' = kind /\ head' = head /\ pruned' = pruned
  BY <1>6 DEF CommitBatch
<1>7. CASE Rewind \/ RewindDeadLetter \/ RewindFails
  BY <1>7 DEF Rewind, RewindDeadLetter, RewindFails
<1>8. ASSUME NEW s \in pending, RewindSetAside(s)
      PROVE  /\ dbCursor' = s /\ dbCursor < s /\ s <= head
             /\ kind' = kind /\ head' = head /\ pruned' = pruned
  BY <1>0, <1>8 DEF RewindSetAside, FeedInv
<1>9. CASE PruneScan \/ PruneCheckpoint \/ PruneDies
  BY <1>9 DEF PruneScan, PruneCheckpoint, PruneDies
<1>10. CASE PruneUnlink
  BY <1>0, <1>10 DEF PruneUnlink, PruneInv, DbInv
<1>11. CASE WalFlush \/ Reconnect \/ StorageError \/ Outage
  BY <1>11 DEF WalFlush, Reconnect, StorageError, Outage
<1>12. CASE Kill
  BY <1>12 DEF Kill
<1>13. CASE PowerCut
  BY <1>0, <1>13 DEF PowerCut, PruneInv, DbInv
<1>14. CASE UNCHANGED vars
  BY <1>14 DEF vars
<1>15. ~Stop /\ ~StopStep /\ \A t \in open : ~CommitUnacknowledged(t)
  BY <1>0 DEF Survivable, Stop, CommitUnacknowledged, Fault, StopStep, Drain, DrainFails, Exit, EngInv
<1> QED
  BY <1>0, <1>1, <1>2, <1>3, <1>4, <1>5, <1>6, <1>7, <1>8, <1>9, <1>10, <1>11, <1>12, <1>13, <1>14,
     <1>15 DEF Next, PumpStep, EngineStep, RewindStep, KeeperStep, FaultStep

(* The feed, the engine, the replay and the prune pass implement the log:  *)
(* each accepted trap is settled once, in order, with the outcome its      *)
(* content calls for, and only a power cut takes back what is still on     *)
(* disk.                                                                   *)
THEOREM TrapLogImplemented == ASSUME NoOutage PROVE Spec => ImplementsTrapLog
<1> DEFINE out == [s \in Seqs |-> Became(s)]
           Fated == out = Log!SettledTo(dbCursor)
<1>1. Init => Log!LogInit
  BY ConstantsAssumption DEF Init, Log!LogInit, Became, Seqs
<1>2. IInv /\ BlameInv => Fated
  BY BecameIsFate
<1>3. IInv /\ Fated /\ Fated' /\ [Next]_vars => [Log!LogNext]_(Log!logVars)
  <2> SUFFICES ASSUME IInv, Fated, Fated', [Next]_vars PROVE [Log!LogNext]_(Log!logVars)
    OBVIOUS
  <2>1. kind' = kind
    BY LogStep
  <2>2. out' = Log!SettledTo(dbCursor')
    BY <2>1 DEF Log!SettledTo
  <2>3. dbCursor' = dbCursor => out' = out
    BY <2>2
  <2>4. CASE head' = head + 1 /\ head' \in Seqs /\ dbCursor' = dbCursor /\ pruned' = pruned
    BY <2>1, <2>3, <2>4 DEF Log!LogNext, Log!Accept
  <2>5. CASE head' = head /\ dbCursor' > dbCursor /\ dbCursor' <= head /\ pruned' = pruned
    BY <2>1, <2>2, <2>5 DEF Log!LogNext, Log!Settle
  <2>6. CASE head' = head /\ dbCursor' < dbCursor /\ dbCursor' >= pruned /\ pruned' = pruned
    BY <2>1, <2>2, <2>6 DEF Log!LogNext, Log!TakeBack
  <2>7. CASE head' = head /\ dbCursor' = dbCursor /\ pruned' > pruned /\ pruned' <= dbCursor
    BY <2>1, <2>3, <2>7 DEF Log!LogNext, Log!Delete
  <2>8. CASE head' = head /\ dbCursor' = dbCursor /\ pruned' = pruned
    BY <2>1, <2>3, <2>8 DEF Log!logVars
  <2> QED
    BY LogStep, <2>4, <2>5, <2>6, <2>7, <2>8
<1> HIDE DEF Fated
<1> QED
  BY <1>1, <1>2, <1>3, BlameAlways, PTL DEF Spec, ImplementsTrapLog, Log!LogSpec
=============================================================================
