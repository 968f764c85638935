------------------------------- MODULE Intake -------------------------------
(***************************************************************************)
(* The main process's half of the trap path: the feed that reads the spool *)
(* into the engine's queue (engine/operate/intake.py), the engine's batch  *)
(* transaction (engine/operate/engine.py), the database's commit and WAL   *)
(* flush (store/lifecycle.py), the replay and the isolation after a crash, *)
(* and the deletion of classified segments.                                *)
(*                                                                         *)
(* The spool is the log 1..head of records in sequence order (module Spool *)
(* shows what of that the files on disk provide).  A record is abstracted  *)
(* to its kind: an event the engine classifies, a poison event it crashes  *)
(* on every time, a record that decodes to nothing, a record that is not   *)
(* valid.  Sequence numbers only grow, so the asyncio queue, the deque     *)
(* _pending and the batch are sets of sequence numbers, taken smallest     *)
(* first.                                                                  *)
(***************************************************************************)
EXTENDS Naturals, FiniteSets

CONSTANTS
    MaxSeq,       \* bound: records the spool ever holds
    BatchSize,    \* BATCH_SIZE of engine.py
    QueueSize,    \* QUEUE_SIZE of intake.py
    SegLen,       \* bound: records per segment
    MaxFaults,    \* bound: faults in one behaviour
    Faults,       \* the fault classes that may happen, a subset of FaultClasses
    KindChoices   \* the spool contents considered: functions from Seqs to Kinds

Seqs == 1 .. MaxSeq
Kinds == {"event", "poison", "ignored", "invalid"}
FaultClasses == {"storage", "outage", "ambiguous", "kill", "power", "stop"}

ASSUME ConstantsAssumption ==
    /\ MaxSeq \in Nat /\ MaxFaults \in Nat
    /\ BatchSize \in Nat \ {0} /\ QueueSize \in Nat \ {0} /\ SegLen \in Nat \ {0}
    /\ Faults \subseteq FaultClasses
    /\ KindChoices \subseteq [Seqs -> Kinds]

VARIABLES
    kind,       \* what each record of the spool is
    head,       \* the last record written
    dbCursor,   \* the cursor row of the database, as the last commit left it
    dbCount,    \* how often the committed database classified each record
    durCursor,  \* dbCursor as of the last WAL flush: what a power cut leaves
    durCount,   \* dbCount as of the last WAL flush
    dbUp,       \* the writer connection works
    dead,       \* records in dead-letter.jsonl
    cursor,     \* SpoolFeed.cursor
    pending,    \* SpoolFeed._pending: delivered, not yet committed
    queue,      \* the engine's queue
    pos,        \* SpoolReader.after of the running pump: the last record handled
    isolate,    \* SpoolFeed.isolate_until
    pump,       \* the pump task: "read", "commit" (setting a record aside), "off", "dead"
    eng,        \* the engine task: where Engine.run or SpoolFeed.rewind stands
    batch,      \* Engine.run's batch: off the queue, not yet committed
    open,       \* records processed in the writer's open transaction
    keeper,     \* the prune task: "scan", "checkpoint", "unlink", "off", "dead"
    doomed,     \* the last record of the segments the prune pass is to delete
    pruned,     \* every record up to this one is deleted from disk
    faults      \* faults so far

spoolVars == <<kind, head>>
dbVars == <<dbCursor, dbCount>>
durVars == <<durCursor, durCount>>
feedVars == <<cursor, pending, queue, pos, isolate, pump>>
engVars == <<eng, batch, open>>
keepVars == <<keeper, doomed, pruned>>
vars == <<kind, head, dbCursor, dbCount, durCursor, durCount, dbUp, dead, cursor, pending, queue,
          pos, isolate, pump, eng, batch, open, keeper, doomed, pruned, faults>>

InFlight == pending \ queue
First(s, S) == s \in S /\ \A t \in S : s <= t
Last(s, S) == s \in S /\ \A t \in S : t <= s
FirstK(S, k) == {s \in S : Cardinality({t \in S : t < s}) < k}
Raise(a, b) == IF a < b THEN b ELSE a

(* Mutants: a set-aside that does not wait, a batch that keeps what it     *)
(* committed, the first record in flight blamed whatever else is in        *)
(* flight, a replay that does not isolate, one that does not go back, and  *)
(* a checkpoint that flushes nothing.                                      *)
SettledAlways == TRUE
RemainingAll == batch
SuspectAny == isolate > cursor /\ InFlight # {}
IsolateNothing == {isolate}
ReplayNothing == pos
CheckpointNothing == UNCHANGED <<durCursor, durCount>>

(* asyncio.Queue(maxsize=QUEUE_SIZE): put() waits while it is full.        *)
Room == Cardinality(queue) < QueueSize

(* SpoolFeed._settled: every record delivered so far is committed.         *)
Settled == pending = {}

(* SpoolFeed.stage: the cursor is the last record of the prefix processed. *)
Staged(t) == Last(t, open)

(* Engine.run: batch[taken:] is what the next transaction takes.           *)
Remaining == batch \ open

(* SpoolFeed.rewind: records were already delivered one at a time and one  *)
(* is in flight, so it is the one the engine crashed on.                   *)
Suspect == isolate > cursor /\ Cardinality(InFlight) = 1

(* SpoolFeed.rewind: else the records in flight are the ones to isolate.   *)
IsolateUntil == IF InFlight = {} THEN {isolate} ELSE {s \in InFlight : Last(s, InFlight)}

(* A new SpoolReader starts after SpoolFeed.cursor ...                     *)
ReplayFrom == cursor

(* ... and SpoolFeed.open takes that from the database.                    *)
ResumeAt(c) == c

(* spool.prunable: the last records of the segments wholly at or before    *)
(* the cursor.                                                             *)
Prunable(q) == q % SegLen = 0 /\ q <= cursor /\ q <= head

(* Store.checkpoint: every commit so far is on disk.                       *)
Checkpoint == durCursor' = dbCursor /\ durCount' = dbCount

Classify(S) == [s \in Seqs |-> IF s \in S THEN dbCount[s] + 1 ELSE dbCount[s]]

Init ==
    /\ kind \in KindChoices
    /\ head = 0
    /\ dbCursor = 0 /\ dbCount = [s \in Seqs |-> 0]
    /\ durCursor = 0 /\ durCount = [s \in Seqs |-> 0]
    /\ dbUp = TRUE
    /\ dead = {}
    /\ cursor = 0 /\ pending = {} /\ queue = {} /\ pos = 0 /\ isolate = 0 /\ pump = "read"
    /\ eng = "get" /\ batch = {} /\ open = {}
    /\ keeper = "scan" /\ doomed = 0 /\ pruned = 0
    /\ faults = 0

-----------------------------------------------------------------------------
(* The writer process made one more record durable.                        *)
Written ==
    /\ head < MaxSeq
    /\ head' = head + 1
    /\ UNCHANGED <<kind, dbVars, durVars, dbUp, dead, feedVars, engVars, keepVars, faults>>

(* The pump: SpoolFeed._run_pump reads the next record, decodes it and     *)
(* calls _deliver, whose four ways through are the next four actions.      *)
PumpIgnore ==
    /\ pump = "read" /\ pos + 1 <= head /\ kind[pos + 1] = "ignored"
    /\ pos' = pos + 1
    /\ UNCHANGED <<spoolVars, dbVars, durVars, dbUp, dead, cursor, pending, queue, isolate, pump,
                   engVars, keepVars, faults>>

(* An event: one at a time while isolating, and never into a full queue.   *)
PumpPut ==
    /\ pump = "read" /\ pos + 1 <= head /\ kind[pos + 1] \in {"event", "poison"}
    /\ isolate >= pos + 1 => Settled
    /\ Room
    /\ queue' = queue \cup {pos + 1}
    /\ pending' = pending \cup {pos + 1}
    /\ pos' = pos + 1
    /\ UNCHANGED <<spoolVars, dbVars, durVars, dbUp, dead, cursor, isolate, pump, engVars,
                   keepVars, faults>>

(* An invalid record: once everything before it is committed, its bytes go *)
(* to the dead-letter file ...                                             *)
PumpDeadLetter ==
    /\ pump = "read" /\ pos + 1 <= head /\ kind[pos + 1] = "invalid"
    /\ Settled
    /\ dead' = dead \cup {pos + 1}
    /\ pump' = "commit"
    /\ UNCHANGED <<spoolVars, dbVars, durVars, dbUp, cursor, pending, queue, pos, isolate, engVars,
                   keepVars, faults>>

(* ... and, in a second step under the store's lock, the cursor passes it: *)
(* a synchronous commit, so everything committed before is durable too.    *)
PumpSetAside ==
    /\ pump = "commit" /\ dbUp /\ eng # "txn"
    /\ dbCursor' = pos + 1
    /\ durCursor' = pos + 1 /\ durCount' = dbCount
    /\ cursor' = Raise(cursor, pos + 1)
    /\ pos' = pos + 1
    /\ pump' = "read"
    /\ UNCHANGED <<spoolVars, dbCount, dbUp, dead, pending, queue, isolate, engVars, keepVars,
                   faults>>

(* The same commit without a database: the exception leaves _run_pump, and *)
(* nothing awaits that task, so it stays dead.                             *)
PumpDies ==
    /\ pump = "commit" /\ ~dbUp /\ eng # "txn"
    /\ pump' = "dead"
    /\ UNCHANGED <<spoolVars, dbVars, durVars, dbUp, dead, cursor, pending, queue, pos, isolate,
                   engVars, keepVars, faults>>

-----------------------------------------------------------------------------
(* The engine: Engine.run takes up to BATCH_SIZE records off the queue.    *)
Take ==
    /\ eng = "get" /\ queue # {}
    /\ batch' = FirstK(queue, BatchSize)
    /\ queue' = queue \ batch'
    /\ eng' = "lock"
    /\ UNCHANGED <<spoolVars, dbVars, durVars, dbUp, dead, cursor, pending, pos, isolate, pump,
                   open, keepVars, faults>>

(* One record of the batch through Engine._process, inside the transaction *)
(* that holds the store's lock.                                            *)
Process(s) ==
    /\ eng \in {"lock", "txn"} /\ dbUp
    /\ First(s, batch \ open) /\ kind[s] = "event"
    /\ open' = open \cup {s}
    /\ eng' = "txn"
    /\ UNCHANGED <<spoolVars, dbVars, durVars, dbUp, dead, feedVars, batch, keepVars, faults>>

(* A record the engine cannot classify: rolled back, reloaded and raised.  *)
(* The batch was a local of run() and goes with the task.                  *)
EngineCrash(s) ==
    /\ eng \in {"lock", "txn"} /\ dbUp
    /\ First(s, batch \ open) /\ kind[s] = "poison"
    /\ eng' = "crashed" /\ batch' = {} /\ open' = {}
    /\ UNCHANGED <<spoolVars, dbVars, durVars, dbUp, dead, feedVars, keepVars, faults>>

(* The batch budget ran out or the batch is done: SpoolFeed.stage writes   *)
(* the cursor of the last record processed, the transaction commits        *)
(* without a WAL flush, and SpoolFeed.committed forgets what it covers.    *)
CommitBatch(t) ==
    /\ eng = "txn" /\ dbUp
    /\ Staged(t)
    /\ dbCursor' = t /\ dbCount' = Classify(open)
    /\ cursor' = Raise(cursor, t)
    /\ pending' = {s \in pending : s > Raise(cursor, t)}
    /\ batch' = Remaining /\ open' = {}
    /\ eng' = IF Remaining = {} THEN "get" ELSE "lock"
    /\ UNCHANGED <<spoolVars, durVars, dbUp, dead, queue, pos, isolate, pump, keepVars, faults>>

(* PostgreSQL's WAL writer, or any synchronous commit, reaches the disk.   *)
WalFlush ==
    /\ <<durCursor, durCount>> # <<dbCursor, dbCount>>
    /\ durCursor' = dbCursor /\ durCount' = dbCount
    /\ UNCHANGED <<spoolVars, dbVars, dbUp, dead, feedVars, engVars, keepVars, faults>>

-----------------------------------------------------------------------------
(* SpoolFeed.rewind, before the supervisor starts the engine again.  It    *)
(* cancels the pump, and awaiting a pump that died re-raises its error:    *)
(* then rewind never gets further.                                         *)
Rewind ==
    /\ eng = "crashed" /\ pump # "dead"
    /\ ~Suspect
    /\ isolate' \in IsolateUntil
    /\ queue' = {} /\ pending' = {} /\ pos' = ReplayFrom /\ pump' = "read"
    /\ eng' = "get"
    /\ UNCHANGED <<spoolVars, dbVars, durVars, dbUp, dead, cursor, batch, open, keepVars, faults>>

(* Records were already delivered one at a time and one is in flight: it   *)
(* is the one the engine crashed on.  First its dead-letter line ...       *)
RewindDeadLetter ==
    /\ eng = "crashed" /\ pump # "dead"
    /\ Suspect
    /\ \E s \in pending : First(s, pending) /\ dead' = dead \cup {s}
    /\ queue' = {} /\ pump' = "off"
    /\ eng' = "aside"
    /\ UNCHANGED <<spoolVars, dbVars, durVars, dbUp, cursor, pending, pos, isolate, batch, open,
                   keepVars, faults>>

(* ... then the cursor past it, and the pump starts again after it.        *)
RewindSetAside(s) ==
    /\ eng = "aside" /\ dbUp
    /\ First(s, pending)
    /\ dbCursor' = s
    /\ durCursor' = s /\ durCount' = dbCount
    /\ cursor' = Raise(cursor, s)
    /\ pending' = {} /\ pos' = Raise(cursor, s) /\ pump' = "read"
    /\ eng' = "get"
    /\ UNCHANGED <<spoolVars, dbCount, dbUp, dead, queue, isolate, batch, open, keepVars, faults>>

(* Without a database the commit raises out of rewind: the supervisor      *)
(* counts another crash and calls rewind again.                            *)
RewindFails ==
    /\ eng = "aside" /\ ~dbUp
    /\ eng' = "crashed"
    /\ UNCHANGED <<spoolVars, dbVars, durVars, dbUp, dead, feedVars, batch, open, keepVars, faults>>

-----------------------------------------------------------------------------
(* SpoolFeed.prune: list the segments wholly at or before the cursor (the  *)
(* newest is the writer's) ...                                             *)
PruneScan ==
    /\ keeper = "scan"
    /\ \E p \in Seqs : p > pruned /\ Last(p, {q \in Seqs : Prunable(q)}) /\ doomed' = p
    /\ keeper' = "checkpoint"
    /\ UNCHANGED <<spoolVars, dbVars, durVars, dbUp, dead, feedVars, engVars, pruned, faults>>

(* ... make what is committed durable ...                                  *)
PruneCheckpoint ==
    /\ keeper = "checkpoint" /\ dbUp /\ eng # "txn"
    /\ Checkpoint
    /\ keeper' = "unlink"
    /\ UNCHANGED <<spoolVars, dbVars, dbUp, dead, feedVars, engVars, doomed, pruned, faults>>

(* ... (without a database the exception ends the task, and start() makes  *)
(* a new one only while there is none) ...                                 *)
PruneDies ==
    /\ keeper = "checkpoint" /\ ~dbUp /\ eng # "txn"
    /\ keeper' = "dead"
    /\ UNCHANGED <<spoolVars, dbVars, durVars, dbUp, dead, feedVars, engVars, doomed, pruned, faults>>

(* ... and unlink them.                                                    *)
PruneUnlink ==
    /\ keeper = "unlink"
    /\ pruned' = doomed
    /\ keeper' = "scan"
    /\ UNCHANGED <<spoolVars, dbVars, durVars, dbUp, dead, feedVars, engVars, doomed, faults>>

-----------------------------------------------------------------------------
Fault(class) ==
    /\ class \in Faults
    /\ faults < MaxFaults
    /\ faults' = faults + 1

(* A storage error a reconnect outlives: rolled back, the batch retried.   *)
StorageError ==
    /\ Fault("storage")
    /\ eng = "txn"
    /\ open' = {} /\ eng' = "lock"
    /\ UNCHANGED <<spoolVars, dbVars, durVars, dbUp, dead, feedVars, batch, keepVars>>

(* The commit happened, its answer did not arrive: the same code path.     *)
CommitUnacknowledged(t) ==
    /\ Fault("ambiguous")
    /\ eng = "txn" /\ Staged(t)
    /\ dbCursor' = t /\ dbCount' = Classify(open)
    /\ open' = {} /\ eng' = "lock"
    /\ UNCHANGED <<spoolVars, durVars, dbUp, dead, feedVars, batch, keepVars>>

(* The database is gone for longer than one reconnect.                     *)
Outage ==
    /\ Fault("outage")
    /\ dbUp
    /\ dbUp' = FALSE
    /\ UNCHANGED <<spoolVars, dbVars, durVars, dead, feedVars, engVars, keepVars>>

(* Inside the batch, rollback() then fails to reconnect and its exception  *)
(* leaves run(): a crash, although no record caused it.                    *)
EngineLost ==
    /\ ~dbUp /\ eng \in {"lock", "txn"}
    /\ eng' = "crashed" /\ batch' = {} /\ open' = {}
    /\ UNCHANGED <<spoolVars, dbVars, durVars, dbUp, dead, feedVars, keepVars, faults>>

(* The server answers again, and the maintenance pass's own rollback()     *)
(* replaces the connection.                                                *)
Reconnect ==
    /\ ~dbUp
    /\ dbUp' = TRUE
    /\ UNCHANGED <<spoolVars, dbVars, durVars, dead, feedVars, engVars, keepVars, faults>>

(* A new main process on the database it finds: SpoolFeed.open and the     *)
(* first rewind.                                                           *)
Restart(c) ==
    /\ cursor' = ResumeAt(c) /\ pos' = ResumeAt(c)
    /\ pending' = {} /\ queue' = {} /\ isolate' = 0 /\ pump' = "read"
    /\ eng' = "get" /\ batch' = {} /\ open' = {}
    /\ keeper' = "scan" /\ doomed' = 0
    /\ dbUp' = TRUE

Kill ==
    /\ Fault("kill")
    /\ Restart(dbCursor)
    /\ UNCHANGED <<spoolVars, dbVars, durVars, dead, pruned>>

(* A power cut also undoes the commits whose WAL had not reached the disk. *)
PowerCut ==
    /\ Fault("power")
    /\ dbCursor' = durCursor /\ dbCount' = durCount
    /\ Restart(durCursor)
    /\ UNCHANGED <<spoolVars, durVars, dead, pruned>>

(* Graceful shutdown (runner._serve): every task is cancelled.  A batch    *)
(* off the queue goes with the engine task.  CancelledError is not an      *)
(* Exception, so a transaction it interrupts is not rolled back: it stays  *)
(* open on the writer, unless the cancelled statement aborted it.          *)
Stop ==
    /\ Fault("stop")
    /\ eng \notin {"drain", "stopped"}
    /\ \/ eng' = "drain" /\ open' = open
       \/ eng = "txn" /\ eng' = "stopped" /\ open' = {}
    /\ batch' = {}
    /\ pump' = IF pump = "dead" THEN "dead" ELSE "off"
    /\ keeper' = "off"
    /\ UNCHANGED <<spoolVars, dbVars, durVars, dbUp, dead, cursor, pending, queue, pos, isolate,
                   doomed, pruned>>

(* Engine.drain: what is still queued, one batch per transaction, up to    *)
(* the first batch that fails.  (A pump that died re-raises out of         *)
(* feed.stop() and there is no drain.)                                     *)
Drain(t) ==
    /\ eng = "drain" /\ dbUp /\ pump # "dead"
    /\ LET b == FirstK(queue, BatchSize)
       IN  /\ Last(t, b)
           /\ \A s \in b : kind[s] = "event"
           /\ dbCount' = Classify(open \cup b)
           /\ queue' = queue \ b
    /\ dbCursor' = t
    /\ cursor' = Raise(cursor, t)
    /\ pending' = {s \in pending : s > Raise(cursor, t)}
    /\ open' = {}
    /\ UNCHANGED <<spoolVars, durVars, dbUp, dead, pos, isolate, pump, eng, batch, keepVars, faults>>

DrainFails ==
    /\ eng = "drain" /\ queue # {} /\ pump # "dead"
    /\ ~dbUp \/ \E s \in FirstK(queue, BatchSize) : kind[s] # "event"
    /\ eng' = "stopped" /\ open' = {}
    /\ UNCHANGED <<spoolVars, dbVars, durVars, dbUp, dead, feedVars, batch, keepVars, faults>>

(* The final maintenance pass, or closing the store, commits whatever the  *)
(* writer's transaction still holds, synchronously; then the next process  *)
(* starts.  The drain ends early at its deadline, never before its first   *)
(* batch.                                                                  *)
Exit ==
    /\ eng \in {"drain", "stopped"}
    /\ queue = {} \/ open = {} \/ pump = "dead"
    /\ LET kept == IF dbUp THEN open ELSE {}
       IN  dbCount' = Classify(kept) /\ durCount' = Classify(kept)
    /\ durCursor' = dbCursor
    /\ Restart(dbCursor)
    /\ UNCHANGED <<spoolVars, dbCursor, dead, pruned, faults>>

-----------------------------------------------------------------------------
PumpStep == PumpIgnore \/ PumpPut \/ PumpDeadLetter \/ PumpSetAside \/ PumpDies

EngineStep ==
    \/ Take
    \/ \E s \in batch : Process(s)
    \/ \E s \in batch : EngineCrash(s)
    \/ \E t \in open : CommitBatch(t)
    \/ EngineLost

RewindStep ==
    \/ Rewind
    \/ RewindDeadLetter
    \/ \E s \in pending : RewindSetAside(s)
    \/ RewindFails

KeeperStep == PruneScan \/ PruneCheckpoint \/ PruneDies \/ PruneUnlink

StopStep == (\E t \in queue : Drain(t)) \/ DrainFails \/ Exit

FaultStep ==
    \/ StorageError
    \/ \E t \in open : CommitUnacknowledged(t)
    \/ Outage
    \/ Kill
    \/ PowerCut
    \/ Stop

Next ==
    \/ Written
    \/ PumpStep
    \/ EngineStep
    \/ RewindStep
    \/ KeeperStep
    \/ WalFlush
    \/ Reconnect
    \/ StopStep
    \/ FaultStep

Spec == Init /\ [][Next]_vars

(* The event loop runs every ready task, the supervisor restarts the       *)
(* engine after its backoff, the database comes back and a shutdown ends.  *)
(* Nothing forces a trap to arrive or a fault to happen.                   *)
Fairness ==
    /\ WF_vars(PumpStep)
    /\ WF_vars(EngineStep)
    /\ WF_vars(RewindStep)
    /\ WF_vars(KeeperStep)
    /\ WF_vars(Reconnect)
    /\ WF_vars(StopStep)

FairSpec == Spec /\ Fairness

-----------------------------------------------------------------------------
TypeOK ==
    /\ kind \in [Seqs -> Kinds] /\ head \in 0 .. MaxSeq
    /\ dbCursor \in 0 .. MaxSeq /\ dbCount \in [Seqs -> Nat]
    /\ durCursor \in 0 .. MaxSeq /\ durCount \in [Seqs -> Nat]
    /\ dbUp \in BOOLEAN
    /\ dead \subseteq Seqs
    /\ cursor \in 0 .. MaxSeq /\ pos \in 0 .. MaxSeq /\ isolate \in 0 .. MaxSeq
    /\ pending \subseteq Seqs /\ queue \subseteq Seqs /\ batch \subseteq Seqs /\ open \subseteq Seqs
    /\ pump \in {"read", "commit", "off", "dead"}
    /\ pump = "commit" => pos < head
    /\ eng \in {"get", "lock", "txn", "crashed", "aside", "drain", "stopped"}
    /\ keeper \in {"scan", "checkpoint", "unlink", "off", "dead"}
    /\ doomed \in 0 .. MaxSeq /\ pruned \in 0 .. MaxSeq
    /\ faults \in 0 .. MaxFaults

(* Nothing is classified twice (spool.py: "nothing is classified twice or  *)
(* skipped"): whatever is retried, replayed or rolled back, the committed  *)
(* database counts each record at most once.                               *)
ClassifiedOnce == \A s \in Seqs : dbCount[s] <= 1

(* Nothing is skipped: a record the committed cursor has passed is         *)
(* classified, in the dead-letter file, or one with nothing to classify.   *)
NothingSkipped ==
    \A s \in Seqs : s <= dbCursor => kind[s] = "ignored" \/ dbCount[s] >= 1 \/ s \in dead

(* The database and the cursor are one atomic fact, before and after a     *)
(* power cut: nothing beyond the cursor is classified.                     *)
NothingAhead ==
    \A s \in Seqs : /\ s > dbCursor => dbCount[s] = 0
                    /\ s > durCursor => durCount[s] = 0

(* A segment is deleted only when what a power cut would leave of the      *)
(* database already covers it: the records it would replay are on disk.    *)
PrunedIsDurable == pruned <= durCursor

(* The dead-letter file holds only records that cannot be classified: the  *)
(* isolation after a crash never blames a neighbour of the poison record.  *)
OnlyUnclassifiableSetAside == \A s \in dead : kind[s] \in {"invalid", "poison"}

(* Every record written is eventually classified or set aside, whatever    *)
(* finite number of faults happens and however many records are poison.    *)
EveryTrapSettled ==
    \A s \in Seqs :
        (s <= head /\ kind[s] # "ignored") ~> (dbCount[s] >= 1 \/ s \in dead)

-----------------------------------------------------------------------------
(* The promise of module TrapLog: "twice" is no outcome of it, so a record *)
(* counted twice, and one passed over, have no image there.                *)
Became(s) ==
    IF dbCount[s] = 1 THEN "classified"
    ELSE IF dbCount[s] > 1 THEN "twice"
    ELSE IF s > dbCursor THEN "waiting"
    ELSE IF s \in dead THEN "aside"
    ELSE IF kind[s] = "ignored" THEN "nothing" ELSE "lost"

Log == INSTANCE TrapLog WITH
    spooled <- head, settled <- dbCursor, deleted <- pruned,
    outcome <- [s \in Seqs |-> Became(s)]

(* Every step of the feed, the engine, the replay and the prune pass is a  *)
(* step of that log or changes nothing in it.                              *)
ImplementsTrapLog == Log!LogSpec
=============================================================================
