------------------------------- MODULE Ingest -------------------------------
(***************************************************************************)
(* The ingest process (ingest/worker.py) and its handle in the main        *)
(* process (ingest/process.py).  The worker's main thread reads datagrams  *)
(* from the socket it inherited and its spool thread makes them durable;   *)
(* it tells the main process what it wrote and counted over the events     *)
(* pipe, and is told about allowlist changes and the stop over the control *)
(* pipe.  A reader thread of the main process turns each message into a    *)
(* callback of the event loop, and the end of the pipe into one that       *)
(* starts the process again.  What the spool does with a record is in      *)
(* module Spool; here it is the number of records made durable.            *)
(***************************************************************************)
EXTENDS Naturals, Sequences, FiniteSets, SequencesExt

CONSTANTS
    MaxData,     \* bound: datagrams sent in one behaviour
    Socket,      \* the kernel's receive buffer, in datagrams
    OutboxMax,   \* OUTBOX_MAX
    Burst,       \* RECV_BURST
    Admits,      \* the sources each version of the allowlist admits, as datagrams
    Stops,       \* whether the run includes a shutdown
    MaxIngestFaults,   \* bound: faults in one behaviour
    IngestFaults       \* the fault classes that may happen, a subset of IngestFaultClasses

Data == 1 .. MaxData
IngestFaultClasses == {"crash", "boot", "fork", "disk", "timeout"}
Counters == {"received", "denied", "spooled", "dropped"}

ASSUME IngestConstants ==
    /\ MaxData \in Nat /\ Socket \in Nat /\ OutboxMax \in Nat /\ Burst \in Nat \ {0}
    /\ Admits \in Seq(SUBSET Data) /\ Admits # <<>>
    /\ Stops \in BOOLEAN /\ MaxIngestFaults \in Nat /\ IngestFaults \subseteq IngestFaultClasses

VARIABLES
    sent,      \* datagrams sent so far
    kernel,    \* datagrams in the socket's buffer
    held,      \* those the buffer held when the worker was told to stop
    \* the ingest process
    worker,    \* "boot", "run", "drain" (the last _drain), "flush", "gone"
    budget,    \* datagrams the last _drain may still read
    version,   \* Worker.networks, as the allowlist's version
    counters,  \* Worker.counters
    outbox,    \* Worker.outbox
    writing,   \* records on disk that the spool thread has not reported yet
    gaveUp,    \* the spool thread stopped because the disk refuses
    spool,     \* the last durable record
    \* the pipes, the reader thread and the event loop's callbacks
    events, control, reading, callbacks,
    \* the main process
    main,      \* "starting", "up", "closing", "closed", "failed"
    ready,     \* the future _ready: "pending", "done", "failed"
    closing,   \* _closing
    open,      \* _control can be written
    timer,     \* a _respawn is scheduled
    networks,  \* _networks, as a version
    base,      \* _base
    child,     \* _child
    head,      \* head
    mishaps    \* how many faults of each class happened so far

workerVars == <<worker, budget, version, counters, outbox, writing, gaveUp, spool>>
pipeVars == <<events, control, reading, callbacks>>
mainVars == <<main, ready, closing, open, timer, networks, base, child, head>>
ingestVars == <<sent, kernel, held, worker, budget, version, counters, outbox, writing, gaveUp, spool,
          events, control, reading, callbacks, main, ready, closing, open, timer, networks,
          base, child, head, mishaps>>

Zero == [c \in Counters |-> 0]
Plus(a, b) == [c \in Counters |-> a[c] + b[c]]
Written(h) == [is |-> "w", head |-> h]
Counted(c) == [is |-> "s", counts |-> c]
Ready(h) == [is |-> "r", head |-> h]
Tell(message) == events' = Append(events, message)

IngestInit ==
    /\ sent = 0 /\ kernel = <<>> /\ held = {}
    /\ worker = "boot" /\ budget = 0 /\ version = 1 /\ counters = Zero /\ outbox = <<>>
    /\ writing = 0 /\ gaveUp = FALSE /\ spool = 0
    /\ events = <<>> /\ control = <<>> /\ reading = TRUE /\ callbacks = <<>>
    /\ main = "starting" /\ ready = "pending" /\ closing = FALSE /\ open = TRUE /\ timer = FALSE
    /\ networks = 1 /\ base = Zero /\ child = Zero /\ head = 0
    /\ mishaps = [c \in IngestFaultClasses |-> 0]

IngestFault(class) ==
    /\ class \in IngestFaults
    /\ FoldFunction(+, 0, mishaps) < MaxIngestFaults
    /\ mishaps' = [mishaps EXCEPT ![class] = @ + 1]

-----------------------------------------------------------------------------
(* Mutants: a worker that announces itself without its head, a group given *)
(* up and not counted, a process started with the first allowlist, a       *)
(* restart that is not rescheduled.                                        *)
ReadyWithoutHead == Ready(0)
LeftUncounted == counters
FirstVersion == 1
NotAgain == FALSE

(* A datagram reaches the socket; a full buffer drops it.                  *)
Arrive ==
    /\ sent < MaxData
    /\ sent' = sent + 1
    /\ kernel' = IF Len(kernel) < Socket THEN Append(kernel, sent + 1) ELSE kernel
    /\ UNCHANGED <<held, workerVars, pipeVars, mainVars, mishaps>>

(* Worker.run: the notice that it is ready carries the spool's head.       *)
ReadyNotice == Ready(spool)
WorkerReady ==
    /\ worker = "boot"
    /\ worker' = "run"
    /\ Tell(ReadyNotice)
    /\ UNCHANGED <<sent, kernel, held, budget, version, counters, outbox, writing, gaveUp, spool>>
    /\ UNCHANGED <<control, reading, callbacks, mainVars, mishaps>>

(* Worker.receive: counted, checked against the allowlist, queued.         *)
OutboxHasRoom == Len(outbox) < OutboxMax
Receive ==
    /\ kernel # <<>>
    /\ \/ worker = "run" /\ UNCHANGED budget
       \/ worker = "drain" /\ budget > 0 /\ budget' = budget - 1
    /\ LET d == Head(kernel)
           seen == [counters EXCEPT !["received"] = @ + 1]
       IN  IF d \notin Admits[version]
           THEN counters' = [seen EXCEPT !["denied"] = @ + 1] /\ UNCHANGED outbox
           ELSE IF ~OutboxHasRoom
           THEN counters' = [seen EXCEPT !["dropped"] = @ + 1] /\ UNCHANGED outbox
           ELSE counters' = seen /\ outbox' = Append(outbox, d)
    /\ kernel' = Tail(kernel)
    /\ UNCHANGED <<sent, held, worker, version, writing, gaveUp, spool, pipeVars, mainVars, mishaps>>

(* Worker._control: an allowlist, or the stop, after which one last burst  *)
(* is read.                                                                *)
LastBurst == Burst
Control ==
    /\ worker = "run" /\ control # <<>>
    /\ LET message == Head(control)
       IN  IF message.is = "stop"
           THEN /\ worker' = "drain" /\ budget' = LastBurst /\ held' = Range(kernel)
                /\ UNCHANGED version
           ELSE version' = message.version /\ UNCHANGED <<worker, budget, held>>
    /\ control' = Tail(control)
    /\ UNCHANGED <<sent, kernel, counters, outbox, writing, gaveUp, spool>>
    /\ UNCHANGED <<events, reading, callbacks, mainVars, mishaps>>

(* Worker._report, every second.  One that repeats what the main process   *)
(* shows changes nothing, and one is under way at a time.                  *)
Report ==
    /\ worker = "run" /\ counters # child
    /\ \A m \in Range(events) \cup Range(callbacks) : m.is # "s"
    /\ Tell(Counted(counters))
    /\ UNCHANGED <<sent, kernel, held, workerVars, control, reading, callbacks, mainVars, mishaps>>

(* The last _drain is over: the spool thread empties the outbox, ...       *)
Flush ==
    /\ worker = "drain" /\ (budget = 0 \/ kernel = <<>>)
    /\ worker' = "flush"
    /\ UNCHANGED <<sent, kernel, held, budget, version, counters, outbox, writing, gaveUp, spool>>
    /\ UNCHANGED <<pipeVars, mainVars, mishaps>>

(* (or gives up on a disk that refuses to the end)                         *)
SpoolGivesUp ==
    /\ IngestFault("disk")
    /\ worker = "flush" /\ outbox # <<>> /\ writing = 0 /\ ~gaveUp
    /\ gaveUp' = TRUE
    /\ UNCHANGED <<sent, kernel, held, worker, budget, version, counters, outbox, writing, spool>>
    /\ UNCHANGED <<pipeVars, mainVars>>

(* ... what is left is counted as dropped, and the process ends.           *)
LeftCounted == [counters EXCEPT !["dropped"] = @ + Len(outbox)]
WorkerExit ==
    /\ worker = "flush" /\ writing = 0 /\ (outbox = <<>> \/ gaveUp)
    /\ counters' = LeftCounted
    /\ Tell(Counted(counters'))
    /\ worker' = "gone"
    /\ UNCHANGED <<sent, kernel, held, budget, version, outbox, writing, gaveUp, spool>>
    /\ UNCHANGED <<control, reading, callbacks, mainVars, mishaps>>

(* Worker._spool_loop: a group is durable, ...                             *)
SpoolGroup ==
    /\ worker \in {"run", "drain", "flush"} /\ outbox # <<>> /\ writing = 0 /\ ~gaveUp
    /\ writing' = Len(outbox)
    /\ spool' = spool + Len(outbox)
    /\ UNCHANGED <<sent, kernel, held, worker, budget, version, counters, outbox, gaveUp>>
    /\ UNCHANGED <<pipeVars, mainVars, mishaps>>

(* ... then taken off the outbox, counted and reported.                    *)
SpoolNotice ==
    /\ worker \in {"run", "drain", "flush"} /\ writing > 0
    /\ outbox' = SubSeq(outbox, writing + 1, Len(outbox))
    /\ counters' = [counters EXCEPT !["spooled"] = @ + writing]
    /\ writing' = 0
    /\ Tell(Written(spool))
    /\ UNCHANGED <<sent, kernel, held, worker, budget, version, gaveUp, spool>>
    /\ UNCHANGED <<control, reading, callbacks, mainVars, mishaps>>

(* The process dies: killed, or on an exception before it is ready.        *)
Dies ==
    /\ worker' = "gone" /\ outbox' = <<>> /\ writing' = 0
    /\ UNCHANGED <<sent, kernel, held, budget, version, counters, gaveUp, spool, pipeVars, mainVars>>

Crash == IngestFault("crash") /\ worker \in {"run", "drain", "flush"} /\ Dies
BootFails == IngestFault("boot") /\ worker = "boot" /\ Dies

-----------------------------------------------------------------------------
(* IngestProcess._read: each message becomes a callback, and so does the   *)
(* end of the pipe.                                                        *)
ReadEvent ==
    /\ reading /\ events # <<>>
    /\ callbacks' = Append(callbacks, Head(events))
    /\ events' = Tail(events)
    /\ UNCHANGED <<sent, kernel, held, workerVars, control, reading, mainVars, mishaps>>

ReadEnd ==
    /\ reading /\ events = <<>> /\ worker = "gone"
    /\ callbacks' = Append(callbacks, [is |-> "exited"])
    /\ reading' = FALSE
    /\ UNCHANGED <<sent, kernel, held, workerVars, events, control, mainVars, mishaps>>

(* The loop runs the next callback: _written, _counted, _started after     *)
(* _written, ...                                                           *)
IsNext(kind) == callbacks # <<>> /\ Head(callbacks).is = kind /\ main \notin {"closed", "failed"}
Callback ==
    /\ callbacks # <<>> /\ main \notin {"closed", "failed"} /\ Head(callbacks).is # "exited"
    /\ LET m == Head(callbacks)
       IN  /\ child' = IF m.is = "s" THEN m.counts ELSE child
           /\ head' = IF m.is # "s" /\ m.head > head THEN m.head ELSE head
           /\ ready' = IF m.is = "r" /\ ready = "pending" THEN "done" ELSE ready
    /\ callbacks' = Tail(callbacks)
    /\ UNCHANGED <<sent, kernel, held, workerVars, events, control, reading, mishaps>>
    /\ UNCHANGED <<main, closing, open, timer, networks, base>>

(* ... and _exited: before it was ready, the failure goes to whoever waits *)
(* for it, and nothing else is done; ...                                   *)
ExitedNotReady ==
    /\ IsNext("exited") /\ ready = "pending"
    /\ ready' = "failed"
    /\ callbacks' = Tail(callbacks)
    /\ UNCHANGED <<sent, kernel, held, workerVars, events, control, reading, mishaps>>
    /\ UNCHANGED <<main, closing, open, timer, networks, base, child, head>>

(* ... otherwise its counters are kept and it is started again later,      *)
(* unless the handle is closing.                                           *)
CarriedOver == Plus(base, child)
Again == TRUE
Exited ==
    /\ IsNext("exited") /\ ready # "pending"
    /\ IF closing THEN UNCHANGED <<base, child, open, timer>>
       ELSE /\ base' = CarriedOver /\ child' = Zero
            /\ open' = FALSE /\ timer' = Again
    /\ callbacks' = Tail(callbacks)
    /\ UNCHANGED <<sent, kernel, held, workerVars, events, control, reading, mishaps>>
    /\ UNCHANGED <<main, ready, closing, networks, head>>

(* IngestProcess._respawn: the new process starts from the current         *)
(* allowlist, on the same socket and the same spool, with new pipes.       *)
StartsFrom == networks
Respawn ==
    /\ timer /\ main \notin {"closed", "failed"}
    /\ timer' = FALSE
    /\ IF closing THEN UNCHANGED <<workerVars, events, control, reading, ready, open>>
       ELSE /\ worker' = "boot" /\ version' = StartsFrom /\ counters' = Zero /\ outbox' = <<>>
            /\ writing' = 0 /\ gaveUp' = FALSE /\ budget' = 0 /\ UNCHANGED spool
            /\ events' = <<>> /\ control' = <<>> /\ reading' = TRUE
            /\ ready' = "pending" /\ open' = TRUE
    /\ UNCHANGED <<sent, kernel, held, callbacks, main, closing, networks, base, child, head, mishaps>>

(* (_spawn raised OSError: tried again later)                              *)
SpawnFails ==
    /\ IngestFault("fork")
    /\ timer /\ ~closing /\ main = "up"
    /\ timer' = Again
    /\ UNCHANGED <<sent, kernel, held, workerVars, pipeVars, main, ready, closing, open, networks>>
    /\ UNCHANGED <<base, child, head>>

(* IngestProcess._send: lost when the process is gone.                     *)
PipeSend(message) ==
    control' = IF open /\ worker # "gone" THEN Append(control, message) ELSE control

(* IngestProcess.start: ready, or an error of start-up.                    *)
Started ==
    /\ main = "starting" /\ ready \in {"done", "failed"}
    /\ main' = IF ready = "done" THEN "up" ELSE "failed"
    /\ UNCHANGED <<sent, kernel, held, workerVars, pipeVars, mishaps>>
    /\ UNCHANGED <<ready, closing, open, timer, networks, base, child, head>>

StartTimesOut ==
    /\ IngestFault("timeout")
    /\ main = "starting" /\ ready = "pending"
    /\ main' = "failed" /\ closing' = TRUE
    /\ PipeSend([is |-> "stop"])
    /\ UNCHANGED <<sent, kernel, held, workerVars, events, reading, callbacks>>
    /\ UNCHANGED <<ready, open, timer, networks, base, child, head>>

(* The networks setter: an administrator's change is kept and forwarded.   *)
SetAllowlist ==
    /\ main = "up" /\ networks < Len(Admits)
    /\ networks' = networks + 1
    /\ PipeSend([is |-> "allowlist", version |-> networks'])
    /\ UNCHANGED <<sent, kernel, held, workerVars, events, reading, callbacks, mishaps>>
    /\ UNCHANGED <<main, ready, closing, open, timer, base, child, head>>

(* IngestProcess.close.                                                    *)
Close ==
    /\ Stops /\ main = "up"
    /\ main' = "closing" /\ closing' = TRUE
    /\ PipeSend([is |-> "stop"])
    /\ UNCHANGED <<sent, kernel, held, workerVars, events, reading, callbacks, mishaps>>
    /\ UNCHANGED <<ready, open, timer, networks, base, child, head>>

(* IngestProcess.wait_closed: the process has ended, the reader thread has *)
(* read its last message, and the callbacks it scheduled have run.         *)
ReaderJoined == ~reading
WaitClosed ==
    /\ main = "closing" /\ worker = "gone" /\ ReaderJoined /\ callbacks = <<>>
    /\ main' = "closed"
    /\ UNCHANGED <<sent, kernel, held, workerVars, pipeVars, mishaps>>
    /\ UNCHANGED <<ready, closing, open, timer, networks, base, child, head>>

-----------------------------------------------------------------------------
ReceiveStep == WorkerReady \/ Receive \/ Control \/ Report \/ Flush \/ WorkerExit
SpoolStep == SpoolGroup \/ SpoolNotice \/ SpoolGivesUp
ReaderStep == ReadEvent \/ ReadEnd
LoopStep == Callback \/ ExitedNotReady \/ Exited \/ Respawn \/ Started \/ WaitClosed
AdminStep == SetAllowlist \/ Close
FaultStep == Crash \/ BootFails \/ SpawnFails \/ StartTimesOut

IngestNext == Arrive \/ ReceiveStep \/ SpoolStep \/ ReaderStep \/ LoopStep \/ AdminStep \/ FaultStep

IngestSpec == IngestInit /\ [][IngestNext]_ingestVars

(* The worker's two threads, the reader thread and the event loop keep     *)
(* running; _respawn's timer fires.                                        *)
IngestFairSpec ==
    /\ IngestSpec
    /\ WF_ingestVars(WorkerReady) /\ WF_ingestVars(Receive) /\ WF_ingestVars(Control) /\ WF_ingestVars(Flush)
    /\ WF_ingestVars(WorkerExit) /\ WF_ingestVars(SpoolGroup) /\ WF_ingestVars(SpoolNotice)
    /\ WF_ingestVars(ReaderStep) /\ WF_ingestVars(LoopStep)

-----------------------------------------------------------------------------
IngestTypeOK ==
    /\ sent \in 0 .. MaxData /\ kernel \in Seq(Data) /\ held \subseteq Data
    /\ worker \in {"boot", "run", "drain", "flush", "gone"}
    /\ budget \in 0 .. Burst /\ version \in 1 .. Len(Admits)
    /\ counters \in [Counters -> Nat] /\ outbox \in Seq(Data) /\ Len(outbox) <= OutboxMax
    /\ writing \in 0 .. Len(outbox)
    /\ gaveUp \in BOOLEAN /\ spool \in Nat
    /\ reading \in BOOLEAN /\ main \in {"starting", "up", "closing", "closed", "failed"}
    /\ ready \in {"pending", "done", "failed"} /\ closing \in BOOLEAN /\ open \in BOOLEAN
    /\ timer \in BOOLEAN /\ networks \in 1 .. Len(Admits)
    /\ base \in [Counters -> Nat] /\ child \in [Counters -> Nat] /\ head \in 0 .. spool
    /\ mishaps \in [IngestFaultClasses -> Nat]

stats == Plus(base, child)
IngestSuffered(class) == mishaps[class] > 0

(* After a shutdown without a crash, the main process knows everything the *)
(* worker wrote (the drain that follows reads up to it), and every         *)
(* datagram read is in its counters: denied, spooled or dropped.  What the *)
(* socket held when the worker was told to stop was read before it ended,  *)
(* when that is no more than one burst (Worker.run: "what the kernel       *)
(* already holds goes to the spool, not lost").                            *)
ClosedKnowsAll ==
    /\ worker = "flush" => held \cap Range(kernel) = {}
    /\ (main = "closed" /\ ~IngestSuffered("crash") /\ ~IngestSuffered("boot")) =>
          /\ head = spool
          /\ stats["received"] = stats["denied"] + stats["spooled"] + stats["dropped"]
          /\ stats["spooled"] = spool

(* A worker that has read its control pipe applies the allowlist an        *)
(* administrator set last, also one set while no worker was running (_send:*)
(* "its replacement starts from the current values").                      *)
AllowlistApplied ==
    (worker = "run" /\ control = <<>> /\ main = "up") => version = networks

(* The main process eventually hears of every record that is durable, even *)
(* when the worker dies between the sync and the notice; a worker that     *)
(* does not start again is the exception (WorkerComesBack).                *)
HeadHeard == (head < spool) ~> (head = spool \/ closing \/ IngestSuffered("boot"))

(* A worker that dies is started again and receives, unless the system is  *)
(* stopping ("if the process dies it is started again on the same socket").*)
WorkerComesBack ==
    (worker = "gone" /\ main = "up") ~> (worker = "run" \/ closing)

(* So it is, also when the fork failed in between, as long as every worker *)
(* that is started gets as far as its ready notice.                        *)
WorkerComesBackSafe ==
    (worker = "gone" /\ main = "up") ~> (worker = "run" \/ closing \/ IngestSuffered("boot"))
=============================================================================
