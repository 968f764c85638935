------------------------------ MODULE Decoder -------------------------------
(***************************************************************************)
(* The decoder process and its handle in the main process                  *)
(* (ingest/decoder.py).  The feed's pump asks decode() for one batch at a  *)
(* time; decode() runs the blocking round trip, and the restart after a    *)
(* failure, in threads of their own and awaits them.  Cancelling the pump  *)
(* (SpoolFeed.rewind) stops the awaiting coroutine and releases its lock,  *)
(* not the thread.  Each process has a pair of pipes: what was asked and   *)
(* what was answered.                                                      *)
(***************************************************************************)
EXTENDS Naturals, Sequences, FiniteSets, Functions

CONSTANTS
    MaxRec,      \* bound: records of the spool in one behaviour
    BatchMax,    \* READ_BATCH of intake.py: records per request
    Crashers,    \* records whose datagram ends the decoder process
    Hangers,     \* records whose datagram the decoder never gets through
    MaxPolicy,   \* bound: changes of the SNMP policy
    MaxFaults,   \* bound: faults in one behaviour
    Faults       \* the fault classes that may happen, a subset of FaultClasses

Recs == 1 .. MaxRec
FaultClasses == {"kill", "slow", "cancel", "fork", "late"}

ASSUME DecoderConstants ==
    /\ MaxRec \in Nat /\ BatchMax \in Nat \ {0} /\ MaxPolicy \in Nat /\ MaxFaults \in Nat
    /\ Crashers \subseteq Recs /\ Hangers \subseteq Recs /\ Crashers \cap Hangers = {}
    /\ Faults \subseteq FaultClasses

VARIABLES
    pos,       \* records the pump has results for
    out,       \* the result each of them was given
    pump,      \* decode(): "idle", "trip" or "restart" (what it awaits), "dead"
    asked,     \* the payloads of the running decode()
    singles,   \* after a failed batch: its records, still to be replayed one at a time
    mine,      \* the thread decode() awaits
    threads,   \* the worker threads, by number of start
    procs,     \* the decoder processes, by number of start
    conn,      \* Decoder._requests and _replies: the process they lead to, 0 for None
    counted,   \* Decoder._counted: what the running process says it accepted
    earlier,      \* Decoder.accepted: what earlier processes accepted
    policy,    \* Decoder._policy, as a version number
    faults     \* how many faults of each class happened so far

pumpVars == <<pos, out, pump, asked, singles, mine>>
countVars == <<counted, earlier>>
vars == <<pos, out, pump, asked, singles, mine, threads, procs, conn, counted, earlier, policy, faults>>

Unreadable == MaxRec + 1
None == MaxRec + 2
Poison == Crashers \cup Hangers

Thread == [kind : {"trip", "restart"}, batch : Seq(Recs), answer : Seq(Recs), boot : Nat,
           pc : {"send", "poll", "recv", "kill", "fold", "boot", "attach", "done", "failed", "raised"}]
Process == [alive : BOOLEAN, hung : BOOLEAN, policy : 0 .. MaxPolicy, accepted : Nat]

NewThread(kind, batch) ==
    [kind |-> kind, batch |-> batch, answer |-> <<>>, boot |-> 0,
     pc |-> IF kind = "trip" THEN "send" ELSE "kill"]
NewProcess(version) ==
    [alive |-> TRUE, hung |-> FALSE, policy |-> version, accepted |-> 0,
     requests |-> <<>>, replies |-> <<>>]

Init ==
    /\ pos = 0 /\ out = [r \in Recs |-> None]
    /\ pump = "idle" /\ asked = <<>> /\ singles = <<>> /\ mine = 0
    /\ threads = <<>> /\ procs = <<NewProcess(0)>> /\ conn = 1
    /\ counted = 0 /\ earlier = 0 /\ policy = 0
    /\ faults = [c \in FaultClasses |-> 0]

Fault(class) ==
    /\ class \in Faults
    /\ FoldFunction(+, 0, faults) < MaxFaults
    /\ faults' = [faults EXCEPT ![class] = @ + 1]

Goto(t, pc) == threads' = [threads EXCEPT ![t].pc = pc]
Await(kind, batch) ==
    /\ threads' = Append(threads, NewThread(kind, batch))
    /\ mine' = Len(threads) + 1
    /\ pump' = kind

-----------------------------------------------------------------------------
(* Mutants: a failed batch quarantined without finding its record, a       *)
(* failure answered without a restart, a poll without a timeout.           *)
SingleAlways(batch) == TRUE
RetryAtOnce ==
    /\ pump = "trip" /\ threads[mine].pc = "failed"
    /\ singles' = asked
    /\ pump' = "idle" /\ asked' = <<>> /\ mine' = 0
    /\ UNCHANGED <<pos, out, threads, procs, conn, countVars, policy, faults>>
NoTimeout(t) == FALSE

(* SpoolFeed._run_pump calls decode() with the records after the last one, *)
(* as many as it read.                                                     *)
Decode ==
    /\ pump = "idle" /\ singles = <<>> /\ pos < MaxRec
    /\ \E n \in 1 .. BatchMax :
          /\ pos + n <= MaxRec
          /\ asked' = [i \in 1 .. n |-> pos + i]
    /\ Await("trip", asked')
    /\ UNCHANGED <<pos, out, singles, procs, conn, countVars, policy, faults>>

(* decode() called for each record of a batch that failed.                 *)
DecodeSingle ==
    /\ pump = "idle" /\ singles # <<>>
    /\ asked' = <<Head(singles)>>
    /\ singles' = Tail(singles)
    /\ Await("trip", asked')
    /\ UNCHANGED <<pos, out, procs, conn, countVars, policy, faults>>

(* The round trip came back: one result per payload, in order.             *)
Answered ==
    /\ pump = "trip" /\ threads[mine].pc = "done"
    /\ out' = [r \in Recs |-> IF \E i \in DOMAIN asked : asked[i] = r
                              THEN threads[mine].answer[CHOOSE i \in DOMAIN asked : asked[i] = r]
                              ELSE out[r]]
    /\ pos' = pos + Len(asked)
    /\ pump' = "idle" /\ asked' = <<>> /\ mine' = 0
    /\ UNCHANGED <<singles, threads, procs, conn, countVars, policy, faults>>

(* It raised DecoderError: restart the process first.                      *)
Failed ==
    /\ pump = "trip" /\ threads[mine].pc = "failed"
    /\ Await("restart", <<>>)
    /\ UNCHANGED <<pos, out, asked, singles, procs, conn, countVars, policy, faults>>

(* After the restart: a single record is quarantined by its metadata, a    *)
(* batch is replayed one record at a time.                                 *)
OneAtATime(batch) == batch
Alone(batch) == Len(batch) = 1
Restarted ==
    /\ pump = "restart" /\ threads[mine].pc = "done"
    /\ IF Alone(asked)
       THEN /\ out' = [out EXCEPT ![asked[1]] = Unreadable]
            /\ pos' = pos + 1
            /\ UNCHANGED singles
       ELSE /\ singles' = OneAtATime(asked)
            /\ UNCHANGED <<pos, out>>
    /\ pump' = "idle" /\ asked' = <<>> /\ mine' = 0
    /\ UNCHANGED <<threads, procs, conn, countVars, policy, faults>>

(* An exception that is no DecoderError: it ends the pump.                 *)
PumpDies ==
    /\ pump \in {"trip", "restart"} /\ threads[mine].pc = "raised"
    /\ pump' = "dead"
    /\ UNCHANGED <<pos, out, asked, singles, mine, threads, procs, conn, countVars, policy, faults>>

(* SpoolFeed.rewind cancels the pump and starts it again after the cursor. *)
Cancel ==
    /\ Fault("cancel")
    /\ pump \in {"trip", "restart", "dead"}
    /\ pump' = "idle" /\ asked' = <<>> /\ singles' = <<>> /\ mine' = 0
    /\ UNCHANGED <<pos, out, threads, procs, conn, countVars, policy>>

-----------------------------------------------------------------------------
(* _roundtrip, in its thread: send on self._requests, ...                  *)
Send(t) ==
    /\ threads[t].pc = "send"
    /\ IF conn # 0 /\ procs[conn].alive
       THEN /\ procs' = [procs EXCEPT ![conn].requests = Append(@, [ask |-> threads[t].batch])]
            /\ Goto(t, "poll")
       ELSE Goto(t, "failed") /\ UNCHANGED procs
    /\ UNCHANGED <<pumpVars, conn, countVars, policy, faults>>

(* ... poll self._replies, which is ready for an answer and at its end     *)
(* (and None, another thread having closed it, which raises), ...          *)
Poll(t) ==
    /\ threads[t].pc = "poll"
    /\ IF conn = 0 THEN Goto(t, "raised")
       ELSE (procs[conn].replies # <<>> \/ ~procs[conn].alive) /\ Goto(t, "recv")
    /\ UNCHANGED <<pumpVars, procs, conn, countVars, policy, faults>>

(* (no answer within DECODE_TIMEOUT_S: none is coming, or it is slow)      *)
TimesOut(t) ==
    /\ threads[t].pc = "poll" /\ conn # 0
    /\ procs[conn].replies = <<>> /\ procs[conn].alive
    /\ IF procs[conn].hung \/ procs[conn].requests = <<>> THEN UNCHANGED faults ELSE Fault("slow")
    /\ Goto(t, "failed")
    /\ UNCHANGED <<pumpVars, procs, conn, countVars, policy>>

(* ... and receive: the answer must have the question's length.            *)
Matches(batch, answer) == Len(answer) = Len(batch)
Recv(t) ==
    /\ threads[t].pc = "recv"
    /\ IF conn = 0 THEN Goto(t, "raised") /\ UNCHANGED <<counted, procs>>
       ELSE IF procs[conn].replies = <<>>
       THEN /\ ~procs[conn].alive
            /\ Goto(t, "failed") /\ UNCHANGED <<counted, procs>>
       ELSE LET reply == Head(procs[conn].replies)
            IN  /\ procs' = [procs EXCEPT ![conn].replies = Tail(@)]
                /\ IF Matches(threads[t].batch, reply.answer)
                   THEN /\ threads' = [threads EXCEPT ![t].pc = "done", ![t].answer = reply.answer]
                        /\ counted' = reply.accepted
                   ELSE Goto(t, "failed") /\ UNCHANGED counted
    /\ UNCHANGED <<pumpVars, conn, earlier, policy, faults>>

-----------------------------------------------------------------------------
(* _restart, in its thread: kill the old process, add its counters to the  *)
(* total and close its pipes, ...                                          *)
KillOld(t) ==
    /\ threads[t].pc = "kill"
    /\ procs' = IF conn = 0 THEN procs ELSE [procs EXCEPT ![conn].alive = FALSE]
    /\ Goto(t, "fold")
    /\ UNCHANGED <<pumpVars, conn, countVars, policy, faults>>

Folded == earlier + counted
Fold(t) ==
    /\ threads[t].pc = "fold"
    /\ earlier' = Folded
    /\ conn' = 0
    /\ Goto(t, "boot")
    /\ UNCHANGED <<pumpVars, procs, counted, policy, faults>>

(* ... start(): the boot document holds the policy of this moment, ...     *)
BootPolicy == policy
Boot(t) ==
    /\ threads[t].pc = "boot"
    /\ threads' = [threads EXCEPT ![t].pc = "attach", ![t].boot = BootPolicy]
    /\ UNCHANGED <<pumpVars, procs, conn, countVars, policy, faults>>

(* (or the process cannot be started)                                      *)
ForkFails(t) ==
    /\ Fault("fork")
    /\ threads[t].pc = "boot"
    /\ Goto(t, "raised")
    /\ UNCHANGED <<pumpVars, procs, conn, countVars, policy>>

(* ... the process runs, and the handle is switched to its pipes.          *)
Attach(t) ==
    /\ threads[t].pc = "attach"
    /\ procs' = Append(procs, NewProcess(threads[t].boot))
    /\ conn' = Len(procs) + 1
    /\ counted' = 0
    /\ Goto(t, "done")
    /\ UNCHANGED <<pumpVars, earlier, policy, faults>>

(* The accepts setter: kept for the next process, sent to the running one. *)
(* Between Boot and Attach the process is neither: the change is late.     *)
Booting == \E t \in DOMAIN threads : threads[t].pc = "attach"
SetPolicy ==
    /\ policy < MaxPolicy
    /\ policy' = policy + 1
    /\ procs' = IF conn = 0 \/ ~procs[conn].alive THEN procs
                ELSE [procs EXCEPT ![conn].requests = Append(@, [policy |-> policy + 1])]
    /\ IF Booting THEN Fault("late") ELSE UNCHANGED faults
    /\ UNCHANGED <<pumpVars, threads, conn, countVars>>

-----------------------------------------------------------------------------
(* main(), in the decoder process: a policy is applied, a batch answered,  *)
(* unless one of its datagrams ends the process or never comes back.       *)
DecodeBatch(batch) == batch
Serve(p) ==
    /\ procs[p].alive /\ ~procs[p].hung /\ procs[p].requests # <<>>
    /\ LET message == Head(procs[p].requests)
           rest == [procs[p] EXCEPT !.requests = Tail(@)]
           bad == {i \in DOMAIN message.ask : message.ask[i] \in Poison}
           first == message.ask[CHOOSE i \in bad : \A j \in bad : i <= j]
           total == procs[p].accepted + Len(message.ask)
           reply == [answer |-> DecodeBatch(message.ask), accepted |-> total]
           next == IF "policy" \in DOMAIN message THEN [rest EXCEPT !.policy = message.policy]
                   ELSE IF bad = {}
                        THEN [rest EXCEPT !.accepted = total, !.replies = Append(@, reply)]
                   ELSE IF first \in Crashers THEN [rest EXCEPT !.alive = FALSE]
                   ELSE [rest EXCEPT !.hung = TRUE]
       IN  procs' = [procs EXCEPT ![p] = next]
    /\ UNCHANGED <<pumpVars, threads, conn, countVars, policy, faults>>

(* The process is killed from outside.                                     *)
Kill(p) ==
    /\ Fault("kill")
    /\ procs[p].alive /\ p = conn
    /\ procs' = [procs EXCEPT ![p].alive = FALSE]
    /\ UNCHANGED <<pumpVars, threads, conn, countVars, policy>>

-----------------------------------------------------------------------------
PumpStep == Decode \/ DecodeSingle \/ Answered \/ Failed \/ Restarted \/ PumpDies
Trip(t) == Send(t) \/ Poll(t) \/ TimesOut(t) \/ Recv(t)
Restart(t) == KillOld(t) \/ Fold(t) \/ Boot(t) \/ ForkFails(t) \/ Attach(t)

Next ==
    \/ PumpStep \/ Cancel \/ SetPolicy
    \/ \E t \in DOMAIN threads : Trip(t) \/ Restart(t)
    \/ \E p \in DOMAIN procs : Serve(p) \/ Kill(p)

Spec == Init /\ [][Next]_vars

(* The event loop, the threads and the decoder process all keep running.   *)
MaxThreads == 4 * MaxRec + 2 * MaxFaults
FairSpec ==
    /\ Spec
    /\ WF_vars(PumpStep)
    /\ \A t \in 1 .. MaxThreads :
          WF_vars(t \in DOMAIN threads /\ (Trip(t) \/ Restart(t)))
    /\ \A p \in 1 .. MaxThreads : WF_vars(p \in DOMAIN procs /\ Serve(p))

-----------------------------------------------------------------------------
TypeOK ==
    /\ pos \in 0 .. MaxRec /\ out \in [Recs -> Recs \cup {Unreadable, None}]
    /\ pump \in {"idle", "trip", "restart", "dead"} /\ asked \in Seq(Recs) /\ singles \in Seq(Recs)
    /\ mine \in 0 .. Len(threads) /\ \A t \in DOMAIN threads : threads[t] \in Thread
    /\ \A p \in DOMAIN procs : [f \in {"alive", "hung", "policy", "accepted"} |-> procs[p][f]] \in Process
    /\ conn \in 0 .. Len(procs) /\ counted \in Nat /\ earlier \in Nat
    /\ policy \in 0 .. MaxPolicy /\ faults \in [FaultClasses -> Nat]

Suffered(class) == faults[class] > 0

(* Every record has the result of its own datagram, or is quarantined: an  *)
(* answer is never taken for another question's, though only its length    *)
(* is checked (Decoder: "one request at a time, in order").                *)
OwnAnswer == \A r \in 1 .. pos : out[r] \in {r, Unreadable}

(* So it is, through crashes, hangs, kills, late answers and restarts, as  *)
(* long as no round trip was cancelled with its answer still to come.      *)
OwnAnswerSafe == ~Suffered("cancel") => OwnAnswer

(* Only a datagram that ends or hangs the decoder is quarantined as        *)
(* unreadable: a failed batch is replayed one record at a time, so its     *)
(* innocent records are decoded ("Every other trap was decoded"), unless   *)
(* something else ended the process or made it slow.                       *)
OnlyPoisonUnreadable ==
    ~(Suffered("kill") \/ Suffered("slow") \/ Suffered("cancel")) =>
        \A r \in 1 .. pos : out[r] = Unreadable => r \in Poison

(* A running decoder with no message waiting applies the policy the        *)
(* administrator set last (accepts: "a restarted process starts from it"), *)
(* unless it was set while the process was being started.                  *)
PolicyApplied ==
    (conn # 0 /\ procs[conn].requests = <<>> /\ procs[conn].alive /\ ~Suffered("late"))
        => procs[conn].policy = policy

(* Every record gets a result: a datagram the decoder cannot get through   *)
(* is neither lost nor retried forever, unless a process that cannot be    *)
(* started ends the pump.  After a cancelled round trip its thread and the *)
(* next one's wait on one pipe, and the one that is too late waits in      *)
(* recv() for ever.                                                        *)
EveryRecordAnswered ==
    (pump # "idle") ~> (pos = MaxRec \/ (pump = "dead" /\ Suffered("fork")) \/ Suffered("cancel"))
=============================================================================
