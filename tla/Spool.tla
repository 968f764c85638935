------------------------------- MODULE Spool --------------------------------
(***************************************************************************)
(* The trap spool on disk (ingest/spool.py) between its one writer, the    *)
(* spool thread of the ingest process (ingest/worker.py), and its one      *)
(* reader, the feed of the main process.  A segment is a file with an      *)
(* inode of its own, the records written to it, perhaps a torn one at the  *)
(* end, and how many of them have reached the disk: the reader sees what   *)
(* was written, a power cut leaves what was synced.  A trap is its number, *)
(* so two traps under one sequence number are told apart.                  *)
(***************************************************************************)
EXTENDS Naturals, Sequences, FiniteSets, SequencesExt

CONSTANTS
    MaxTraps,   \* bound: traps received in one behaviour
    GroupMax,   \* BATCH_MAX of worker.py: records per group commit
    SegLen,     \* SEGMENT_BYTES in records
    MaxUsed,    \* SpoolWriter.max_bytes in records
    MaxSpan,    \* MAX_PAYLOAD in records: how far a damaged length may reach
    MaxFaults,  \* bound: faults in one behaviour
    Faults      \* the fault classes that may happen, a subset of FaultClasses

Traps == 1 .. MaxTraps
FaultClasses == {"fail", "crash", "power", "restart", "rot", "header"}

ASSUME SpoolConstants ==
    /\ MaxTraps \in Nat /\ MaxFaults \in Nat /\ MaxSpan \in Nat
    /\ GroupMax \in Nat \ {0} /\ SegLen \in Nat \ {0} /\ MaxUsed \in Nat \ {0}
    /\ Faults \subseteq FaultClasses

VARIABLES
    born,     \* traps received so far
    outbox,   \* Worker.outbox
    files,    \* every segment ever created, by inode
    dir,      \* the inodes the directory names
    wpc,      \* SpoolWriter: "down", "idle", "write" (in os.write), "sync" (in fdatasync)
    wfd,      \* SpoolWriter._fd, an inode
    wsize,    \* SpoolWriter._size, in records
    used,     \* SpoolWriter.used: the bytes the writer believes the spool holds, in records
    measured, \* what the reporting thread measured and has not stored yet, or NotMeasured
    nextSeq,  \* SpoolWriter.next_seq
    group,    \* how many traps of the outbox are being appended
    done,     \* how many of them are written
    acked,    \* traps the writer reported durable
    rfd,      \* SpoolReader._file, an inode or 0
    roff,     \* SpoolReader._offset in the whole file, in records
    after,    \* SpoolReader.after
    taken,    \* traps read and not yet committed
    cursor,   \* the cursor the database holds
    count,    \* how often the database classified each trap
    skipped,  \* SpoolReader.skipped
    rotted,   \* traps whose record decayed on disk
    faults    \* how many faults of each class happened so far

usageVars == <<used, measured>>
writerVars == <<outbox, wpc, wfd, wsize, nextSeq, group, done, acked>>
readerVars == <<rfd, roff, after, taken, cursor, count, skipped>>
vars == <<born, outbox, files, dir, wpc, wfd, wsize, used, measured, nextSeq, group, done, acked,
          rfd, roff, after, taken, cursor, count, skipped, rotted, faults>>

(* A record is intact, or its bytes have decayed: "bad" keeps a length     *)
(* that leads to the next record, "long" claims more than that.            *)
Record == [seq : Nat \ {0}, trap : Traps, is : {"ok", "bad", "long"}]
NotMeasured == MaxTraps + 1

(* segments(): the directory's entries in order of their first record.     *)
Oldest(S) == CHOOSE f \in S : \A g \in S : files[f].first <= files[g].first
Newest(S) == CHOOSE f \in S : \A g \in S : files[g].first <= files[f].first

Used == LET sizes == [f \in dir |-> Len(files[f].recs)] IN FoldFunctionOnSet(LAMBDA a, b : a + b, 0, sizes, dir)

Segment(first) == [first |-> first, recs |-> <<>>, torn |-> FALSE, synced |-> 0]
Cut(file, n) ==
    [file EXCEPT !.recs = SubSeq(file.recs, 1, n), !.torn = FALSE,
                 !.synced = IF file.synced < n THEN file.synced ELSE n]

(* parse() stops at the first record that fails its check.                 *)
IntactPrefix(recs) ==
    LET bad == {i \in DOMAIN recs : recs[i].is # "ok"}
    IN  IF bad = {} THEN Len(recs) ELSE (CHOOSE i \in bad : \A j \in bad : i <= j) - 1

Init ==
    /\ born = 0 /\ outbox = <<>> /\ files = <<>> /\ dir = {}
    /\ wpc = "down" /\ wfd = 0 /\ wsize = 0 /\ used = 0 /\ measured = NotMeasured
    /\ nextSeq = 1 /\ group = 0 /\ done = 0 /\ acked = {}
    /\ rfd = 0 /\ roff = 0 /\ after = 0 /\ taken = {} /\ cursor = 0
    /\ count = [t \in Traps |-> 0] /\ skipped = 0 /\ rotted = {}
    /\ faults = [c \in FaultClasses |-> 0]

-----------------------------------------------------------------------------
(* Mutants: a reader that leaves a segment before its end, misses a        *)
(* replaced one, or takes a record twice; a prune that looks at a segment's*)
(* first record, or is one record late.                                    *)
LeaveEarly == TRUE
NotReplaced(f) == FALSE
UnseenAny(r) == TRUE
PrunableByName(f) == \E g \in dir : files[g].first > files[f].first /\ files[f].first <= cursor
PrunableLate(f) == \E g \in dir : files[g].first > files[f].first /\ files[g].first <= cursor

(* Worker.receive, for a datagram the allowlist admits.                    *)
Receive ==
    /\ wpc # "down" /\ born < MaxTraps
    /\ born' = born + 1
    /\ outbox' = Append(outbox, born + 1)
    /\ UNCHANGED <<files, dir, wpc, wfd, wsize, nextSeq, group, done, acked>>
    /\ UNCHANGED <<usageVars, readerVars, rotted, faults>>

(* SpoolWriter.append: refused while the spool is thought to hold its      *)
(* maximum; _spool_loop then measures it again.                            *)
HasRoom == used < MaxUsed
Refused ==
    /\ wpc = "idle" /\ outbox # <<>> /\ ~HasRoom
    /\ used' = Used
    /\ UNCHANGED <<born, files, dir, writerVars, measured, readerVars, rotted, faults>>

BeginAppend ==
    /\ wpc = "idle" /\ outbox # <<>> /\ HasRoom
    /\ group' = IF Len(outbox) < GroupMax THEN Len(outbox) ELSE GroupMax
    /\ done' = 0
    /\ wpc' = "write"
    /\ UNCHANGED <<born, outbox, files, dir, wfd, wsize, nextSeq, acked>>
    /\ UNCHANGED <<usageVars, readerVars, rotted, faults>>

(* Then os.write, which may stop in the middle of a record, ...            *)
WriteTorn ==
    /\ wpc = "write" /\ ~files[wfd].torn
    /\ files' = [files EXCEPT ![wfd].torn = TRUE]
    /\ UNCHANGED <<born, writerVars, dir, usageVars, readerVars, rotted, faults>>

WriteRecord ==
    /\ wpc = "write"
    /\ LET r == [seq |-> nextSeq + done, trap |-> outbox[done + 1], is |-> "ok"]
       IN  files' = [files EXCEPT ![wfd].recs = Append(@, r), ![wfd].torn = FALSE]
    /\ done' = done + 1
    /\ wpc' = IF done + 1 = group THEN "sync" ELSE "write"
    /\ UNCHANGED <<born, outbox, dir, wfd, wsize, nextSeq, group, acked>>
    /\ UNCHANGED <<usageVars, readerVars, rotted, faults>>

(* ... then fdatasync, a new segment when this one is full, and the        *)
(* notice to the main process.                                             *)
Sync ==
    /\ wpc = "sync"
    /\ LET size == Len(files[wfd].recs)
           synced == [files EXCEPT ![wfd].synced = size]
           full == size >= SegLen
       IN  /\ nextSeq' = nextSeq + group
           /\ files' = IF full THEN Append(synced, Segment(nextSeq')) ELSE synced
           /\ wfd' = IF full THEN Len(files') ELSE wfd
           /\ dir' = dir \cup {wfd'}
           /\ wsize' = IF full THEN 0 ELSE size
    /\ used' = used + group
    /\ acked' = acked \cup {outbox[i] : i \in 1 .. group}
    /\ outbox' = SubSeq(outbox, group + 1, Len(outbox))
    /\ wpc' = "idle" /\ group' = 0 /\ done' = 0
    /\ UNCHANGED <<born, measured, readerVars, rotted, faults>>

(* SpoolWriter.refresh_usage from the other thread's _report: the segments *)
(* are measured, and the sum stored later, over what was appended since.   *)
Measure ==
    /\ wpc # "down" /\ measured = NotMeasured
    /\ measured' = Used
    /\ UNCHANGED <<born, files, dir, writerVars, used, readerVars, rotted, faults>>

Store ==
    /\ measured # NotMeasured
    /\ used' = measured /\ measured' = NotMeasured
    /\ UNCHANGED <<born, files, dir, writerVars, readerVars, rotted, faults>>

(* SpoolWriter.__init__: _recover cuts a torn tail off the newest segment, *)
(* deletes it when nothing is left of it, and a new segment is started.    *)
EmptyRestartsAt(first) == first
Recover ==
    /\ wpc = "down"
    /\ LET newest == Newest(dir)
           keep == IntactPrefix(files[newest].recs)
           next == IF dir = {} THEN 1
                   ELSE IF keep = 0 THEN EmptyRestartsAt(files[newest].first)
                   ELSE files[newest].recs[keep].seq + 1
           cut == IF dir = {} THEN files ELSE [files EXCEPT ![newest] = Cut(@, keep)]
       IN  /\ nextSeq' = next
           /\ files' = Append(cut, Segment(next))
           /\ wfd' = Len(files')
           /\ dir' = (IF dir # {} /\ keep = 0 THEN dir \ {newest} ELSE dir) \cup {wfd'}
    /\ used' = Used'
    /\ wsize' = 0 /\ wpc' = "idle"
    /\ UNCHANGED <<born, outbox, measured, group, done, acked, readerVars, rotted, faults>>

-----------------------------------------------------------------------------
(* SpoolReader._open: the segment that holds the wanted record, else the   *)
(* oldest there is.                                                        *)
OpenSegment ==
    /\ rfd = 0 /\ dir # {}
    /\ LET holding == {f \in dir : files[f].first <= after + 1}
       IN  /\ rfd' = IF holding # {} THEN Newest(holding) ELSE Oldest(dir)
           /\ skipped' = IF holding # {} THEN skipped
                         ELSE skipped + (files[Oldest(dir)].first - (after + 1))
    /\ roff' = 0
    /\ UNCHANGED <<born, files, dir, writerVars, usageVars, after, taken, cursor, count>>
    /\ UNCHANGED <<rotted, faults>>

(* SpoolReader.read: a record it has seen is passed over, and so is one    *)
(* that fails its check (_resync).  A damaged length is found out only     *)
(* when that many bytes follow it: until then parse() waits for them.      *)
Waits(recs, i) == i <= Len(recs) /\ recs[i].is = "long" /\ Len(recs) - i < MaxSpan
Unseen(r) == r.seq > after
ReadRecord ==
    /\ rfd # 0 /\ roff < Len(files[rfd].recs) /\ ~Waits(files[rfd].recs, roff + 1)
    /\ LET r == files[rfd].recs[roff + 1]
       IN  IF r.is = "ok" /\ Unseen(r)
           THEN after' = r.seq /\ taken' = taken \cup {r.trap}
           ELSE UNCHANGED <<after, taken>>
    /\ roff' = roff + 1
    /\ UNCHANGED <<born, files, dir, writerVars, usageVars, rfd, cursor, count, skipped>>
    /\ UNCHANGED <<rotted, faults>>

(* SpoolReader._finished: at the end of a segment the writer has left, or  *)
(* one whose name is another file's now.                                   *)
AtEnd == roff >= Len(files[rfd].recs) \/ Waits(files[rfd].recs, roff + 1)
Replaces(f) == f # rfd /\ files[f].first = files[rfd].first
NextSegment ==
    /\ rfd # 0 /\ AtEnd
    /\ LET later == {f \in dir : files[f].first > files[rfd].first \/ Replaces(f)}
       IN  /\ later # {}
           /\ rfd' = Oldest(later)
           /\ LET first == files[Oldest(later)].first
              IN  skipped' = skipped + (IF first > after + 1 THEN first - (after + 1) ELSE 0)
    /\ roff' = 0
    /\ UNCHANGED <<born, files, dir, writerVars, usageVars, after, taken, cursor, count>>
    /\ UNCHANGED <<rotted, faults>>

(* The engine committed everything read so far (module Intake).            *)
Commit ==
    /\ after > cursor
    /\ cursor' = after
    /\ count' = [t \in Traps |-> IF t \in taken THEN count[t] + 1 ELSE count[t]]
    /\ taken' = {}
    /\ UNCHANGED <<born, files, dir, writerVars, usageVars, rfd, roff, after, skipped>>
    /\ UNCHANGED <<rotted, faults>>

(* spool.prunable: the segments whose successor starts at or before the    *)
(* record after the cursor; never the newest.                              *)
Prunable(f) ==
    \E g \in dir : files[g].first > files[f].first /\ files[g].first <= cursor + 1
Prune ==
    /\ \E f \in dir : Prunable(f)
    /\ dir' = {f \in dir : ~Prunable(f)}
    /\ UNCHANGED <<born, files, writerVars, usageVars, readerVars, rotted, faults>>

-----------------------------------------------------------------------------
Fault(class) ==
    /\ class \in Faults
    /\ FoldFunction(+, 0, faults) < MaxFaults
    /\ faults' = [faults EXCEPT ![class] = @ + 1]

(* The disk refuses a write or a sync: cut back, and the group, still in   *)
(* the outbox, is tried again.                                             *)
CutBack == Cut(files[wfd], wsize)
AppendFails ==
    /\ Fault("fail")
    /\ wpc \in {"write", "sync"}
    /\ files' = [files EXCEPT ![wfd] = CutBack]
    /\ wpc' = "idle" /\ group' = 0 /\ done' = 0
    /\ UNCHANGED <<born, outbox, dir, wfd, wsize, nextSeq, acked, measured, readerVars, rotted>>
    /\ used' = Used'

(* The ingest process dies; the outbox goes with it.                       *)
WriterLost ==
    /\ wpc' = "down" /\ outbox' = <<>> /\ group' = 0 /\ done' = 0
    /\ measured' = NotMeasured

Crash ==
    /\ Fault("crash")
    /\ wpc # "down"
    /\ WriterLost
    /\ UNCHANGED <<born, files, dir, wfd, wsize, used, nextSeq, acked, readerVars, rotted>>

(* A new main process, or the feed's rewind, reads from the cursor.        *)
ReaderLost ==
    /\ rfd' = 0 /\ roff' = 0 /\ after' = cursor /\ taken' = {}

ReaderRestart ==
    /\ Fault("restart")
    /\ ReaderLost
    /\ UNCHANGED <<born, files, dir, writerVars, usageVars, cursor, count, skipped, rotted>>

(* A power cut: of what a segment holds unsynced, any prefix may be left,  *)
(* its last record torn.                                                   *)
OnDisk(f, n, torn) ==
    [files[f] EXCEPT !.recs = SubSeq(@, 1, n), !.torn = torn, !.synced = n]
PowerCut ==
    /\ Fault("power")
    /\ wfd # 0
    /\ \E left \in [dir -> 0 .. MaxTraps] :
          /\ \A f \in dir : left[f] \in files[f].synced .. Len(files[f].recs)
          /\ \E tear \in SUBSET {f \in dir : left[f] < Len(files[f].recs) \/ files[f].torn} :
                files' = [f \in DOMAIN files |-> IF f \in dir THEN OnDisk(f, left[f], f \in tear)
                                                 ELSE files[f]]
    /\ WriterLost /\ ReaderLost
    /\ UNCHANGED <<born, dir, wfd, wsize, used, nextSeq, acked, cursor, count, skipped, rotted>>

(* A record on disk decays: in its payload, or in the length of its header.*)
Decays(how) ==
    /\ \E f \in dir : \E i \in DOMAIN files[f].recs :
          /\ files' = [files EXCEPT ![f].recs[i].is = how]
          /\ rotted' = rotted \cup {files[f].recs[i].trap}
    /\ UNCHANGED <<born, dir, writerVars, usageVars, readerVars>>

Rot == Fault("rot") /\ Decays("bad")
HeaderRot == Fault("header") /\ Decays("long")

-----------------------------------------------------------------------------
WriterStep == Refused \/ BeginAppend \/ WriteTorn \/ WriteRecord \/ Sync \/ Recover
ReaderStep == OpenSegment \/ ReadRecord \/ NextSegment
FaultStep == AppendFails \/ Crash \/ ReaderRestart \/ PowerCut \/ Rot \/ HeaderRot

Next == Receive \/ Measure \/ Store \/ WriterStep \/ ReaderStep \/ Commit \/ Prune \/ FaultStep

Spec == Init /\ [][Next]_vars

(* Each thread keeps running, the ingest process is started again, the     *)
(* engine commits and the prune task wakes up.                             *)
FairSpec ==
    /\ Spec
    /\ WF_vars(WriterStep) /\ WF_vars(ReaderStep) /\ WF_vars(Commit) /\ WF_vars(Prune)

-----------------------------------------------------------------------------
TypeOK ==
    /\ born \in 0 .. MaxTraps /\ outbox \in Seq(Traps)
    /\ \A f \in DOMAIN files : /\ files[f].first \in Nat \ {0} /\ files[f].recs \in Seq(Record)
                               /\ files[f].torn \in BOOLEAN
                               /\ files[f].synced \in 0 .. Len(files[f].recs)
    /\ dir \subseteq DOMAIN files /\ wfd \in DOMAIN files \cup {0}
    /\ wpc \in {"down", "idle", "write", "sync"}
    /\ wsize \in Nat /\ used \in Nat /\ measured \in 0 .. NotMeasured /\ rotted \subseteq Traps
    /\ nextSeq \in Nat \ {0} /\ group \in 0 .. GroupMax /\ done \in 0 .. group
    /\ acked \subseteq Traps
    /\ rfd \in DOMAIN files \cup {0} /\ roff \in Nat /\ after \in Nat /\ taken \subseteq Traps
    /\ cursor \in Nat /\ count \in [Traps -> Nat] /\ skipped \in Nat /\ faults \in [FaultClasses -> Nat]
    /\ \A f, g \in dir : files[f].first = files[g].first => f = g

Suffered(class) == faults[class] > 0

(* A trap the writer reported durable, and whose record did not decay, is  *)
(* classified, or on disk where the reader will still take it: a record of *)
(* a named segment, after the cursor (spool.py: "every accepted trap is on *)
(* disk before anything else is done with it", and none is skipped).       *)
AckedKept ==
    \A t \in acked \ rotted :
        \/ count[t] >= 1
        \/ \E f \in dir : \E i \in DOMAIN files[f].recs :
              /\ files[f].recs[i].trap = t /\ files[f].recs[i].seq > cursor

(* What the code does keep of that.  A sequence number the reader has      *)
(* committed is given to another trap when its record is gone at the next  *)
(* start: after a power cut, when a failed group was cut back and the      *)
(* process died before it was written again, when a decayed record was the *)
(* first of a tail the recovery cut, or when a damaged length hides the    *)
(* records behind it.                                                      *)
NumbersHold ==
    /\ ~Suffered("power") /\ ~Suffered("header")
    /\ ~(Suffered("crash") /\ (Suffered("fail") \/ Suffered("rot")))

Intact == NumbersHold /\ ~Suffered("rot")

(* As long as none of that happened, every trap reported durable is kept   *)
(* until it is classified.                                                 *)
AckedKeptSafe == NumbersHold => AckedKept

(* No trap is classified twice, whatever happened: though a failed group   *)
(* is written again under the same numbers and a restarted reader starts   *)
(* again.                                                                  *)
ReadOnce == \A t \in Traps : count[t] <= 1

(* The reader never finds a sequence number missing: no deletion, rotation *)
(* or replacement of a segment opens a gap.                                *)
NothingMissing == Intact => skipped = 0

(* Every trap that was made durable, and whose record did not decay, is    *)
(* eventually classified, unless its number was lost as above.             *)
AckedClassified ==
    \A t \in Traps : (t \in acked) ~> (count[t] >= 1 \/ t \in rotted \/ ~NumbersHold)

(* A trap waiting for the spool is eventually written, or lost with the    *)
(* ingest process: the spool does not stay full once the reader has caught *)
(* up (SpoolFullError: "nothing more is written until the reader catches   *)
(* up and old segments are deleted").  It needs a limit above one segment  *)
(* and an intact disk: a full segment whose last record cannot be read is  *)
(* not deleted before a later record is committed.                         *)
OutboxDrains == (outbox # <<>>) ~> (outbox = <<>> \/ ~Intact)
=============================================================================
