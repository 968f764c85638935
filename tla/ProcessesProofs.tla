-------------------------- MODULE ProcessesProofs --------------------------
(***************************************************************************)
(* The two child processes, for any number of datagrams, records, changes  *)
(* and faults: each applies what an administrator set last, the main       *)
(* process knows everything at the end of a shutdown, and an answer of the *)
(* decoder is never taken for another question's.                          *)
(*                                                                         *)
(* None of it is inductive.  What is true of the end of a behaviour is     *)
(* true because of what the pipes between the processes hold before it, so *)
(* each invariant below follows a message from the process that sends it   *)
(* to the one that acts on it.                                             *)
(***************************************************************************)
EXTENDS MCProcesses, SequenceTheorems, TLAPS

-----------------------------------------------------------------------------
(* The ingest process *)

Notices == [is : {"s"}, counts : [Counters -> Nat]] \cup [is : {"w", "r"}, head : Nat]
Ends == [is : {"exited"}]
Orders == [is : {"stop"}] \cup [is : {"allowlist"}, version : 1 .. Len(Admits)]

Typed ==
    /\ IngestTypeOK
    /\ events \in Seq(Notices) /\ callbacks \in Seq(Notices \cup Ends) /\ control \in Seq(Orders)

(* Nothing is heard of that is not durable.                                *)
Durable ==
    /\ \A i \in DOMAIN events : events[i].is # "s" => events[i].head <= spool
    /\ \A i \in DOMAIN callbacks :
          callbacks[i].is \in {"w", "r"} => callbacks[i].head <= spool

(* A worker that runs has pipes, and its end is noticed once: between the  *)
(* end of the pipe and the next worker, nothing is read.                   *)
Lifecycle ==
    /\ worker # "gone" => reading /\ open
    /\ worker = "gone" => writing = 0
    /\ reading => ~timer /\ \A i \in DOMAIN callbacks : callbacks[i].is # "exited"
    /\ ~reading => events = <<>>
    /\ \A i \in DOMAIN callbacks : callbacks[i].is = "exited" => i = Len(callbacks) /\ ~timer
    /\ main = "closed" => worker = "gone" /\ ~reading /\ callbacks = <<>>

(* Only a handle that closes sends a stop, and the last allowlist on its   *)
(* way is the one the administrator set last.                              *)
Ordered ==
    /\ main \in {"closing", "closed"} => closing
    /\ worker \in {"drain", "flush"} => closing
    /\ \A i \in DOMAIN control : control[i].is = "stop" => closing
    /\ main \in {"starting", "up"} => ~closing
    /\ main \in {"starting", "up"} /\ worker \in {"boot", "run"} =>
          IF control = <<>> THEN version = networks
                            ELSE control[Len(control)].version = networks

(* What the socket held at the stop is in front of what came later, and    *)
(* the last burst reaches it.                                              *)
Emptied ==
    /\ Len(kernel) <= Socket /\ held \subseteq 1 .. sent
    /\ \A i \in DOMAIN kernel : kernel[i] \in 1 .. sent
    /\ worker = "drain" => \A i \in DOMAIN kernel : kernel[i] \in held => i <= budget
    /\ worker = "flush" => \A i \in DOMAIN kernel : kernel[i] \notin held

Calm == ~IngestSuffered("crash") /\ ~IngestSuffered("boot")

(* Every datagram read is somewhere, and what is durable is known or about *)
(* to be.                                                                  *)
Accounted ==
    /\ counters["spooled"] + writing = spool
    /\ counters["received"] = counters["denied"] + counters["spooled"] + counters["dropped"]
                              + (IF worker = "gone" THEN 0 ELSE Len(outbox))
Announced ==
    writing = 0 => \/ head = spool
                   \/ \E i \in DOMAIN events : events[i] = Written(spool)
                   \/ \E i \in DOMAIN callbacks : callbacks[i] = Written(spool)

(* The last notice of a worker carries its counters, wherever it is.       *)
LastNotice ==
    worker = "gone" =>
        /\ closing
        /\ \/ events # <<>> /\ events[Len(events)] = Counted(counters)
           \/ /\ events = <<>>
              /\ \E i \in DOMAIN callbacks :
                    /\ callbacks[i] = Counted(counters)
                    /\ \A j \in DOMAIN callbacks : j > i => callbacks[j].is = "exited"
           \/ /\ events = <<>> /\ child = counters
              /\ \A j \in DOMAIN callbacks : callbacks[j].is = "exited"

Settled == Calm => ~timer /\ base = Zero /\ Accounted /\ Announced /\ LastNotice

IngestInv == Typed /\ Durable /\ Lifecycle /\ Ordered /\ Settled

-----------------------------------------------------------------------------
(* What a message does to a pipe.                                          *)
LEMMA Sent ==
    ASSUME NEW S, NEW s \in Seq(S), NEW m \in S, NEW t, t = Append(s, m)
    PROVE  /\ t \in Seq(S) /\ Len(t) = Len(s) + 1 /\ t # <<>> /\ DOMAIN t = 1 .. Len(s) + 1
           /\ DOMAIN s = 1 .. Len(s) /\ Len(s) \in Nat
           /\ \A i \in DOMAIN s : i \in DOMAIN t /\ t[i] = s[i]
           /\ t[Len(s) + 1] = m
           /\ \A i \in DOMAIN t : i \in DOMAIN s \/ i = Len(s) + 1
  BY AppendProperties

LEMMA Taken ==
    ASSUME NEW S, NEW s \in Seq(S), s # <<>>, NEW t, t = Tail(s)
    PROVE  /\ Head(s) \in S /\ Head(s) = s[1] /\ 1 \in DOMAIN s
           /\ t \in Seq(S) /\ Len(t) = Len(s) - 1 /\ DOMAIN t = 1 .. Len(s) - 1
           /\ DOMAIN s = 1 .. Len(s) /\ Len(s) \in Nat /\ Len(s) > 0
           /\ \A i \in DOMAIN t : i + 1 \in DOMAIN s /\ t[i] = s[i + 1]
           /\ \A i \in DOMAIN s : i # 1 => i - 1 \in DOMAIN t /\ t[i - 1] = s[i]
<1>1. Head(s) \in S /\ Head(s) = s[1] /\ t \in Seq(S) /\ Len(t) = Len(s) - 1
      /\ DOMAIN s = 1 .. Len(s) /\ Len(s) \in Nat /\ Len(s) > 0
      /\ \A i \in 1 .. Len(t) : t[i] = s[i + 1]
  BY HeadTailProperties, EmptySeq
<1>2. DOMAIN t = 1 .. Len(t)
  BY <1>1
<1> QED
  BY <1>1, <1>2

LEMMA Fields ==
    ASSUME Typed
    PROVE  /\ \A i \in DOMAIN events : events[i] \in Notices
           /\ \A i \in DOMAIN callbacks : callbacks[i] \in Notices \cup Ends
           /\ \A i \in DOMAIN control : control[i] \in Orders
           /\ DOMAIN events = 1 .. Len(events) /\ Len(events) \in Nat
           /\ DOMAIN callbacks = 1 .. Len(callbacks) /\ Len(callbacks) \in Nat
           /\ DOMAIN control = 1 .. Len(control) /\ Len(control) \in Nat
           /\ spool \in Nat /\ head \in Nat /\ writing \in Nat /\ Len(outbox) \in Nat
           /\ \A c \in Counters : counters[c] \in Nat /\ child[c] \in Nat
  BY DEF Typed, IngestTypeOK

LEMMA NoticeShapes ==
    /\ \A h \in Nat : Written(h) \in Notices /\ Ready(h) \in Notices
    /\ \A h : /\ Written(h).is = "w" /\ Written(h).head = h
              /\ Ready(h).is = "r" /\ Ready(h).head = h
    /\ \A c \in [Counters -> Nat] : Counted(c) \in Notices
    /\ \A c : Counted(c).is = "s" /\ Counted(c).counts = c
    /\ \A m \in Notices : m.is \in {"s", "w", "r"}
    /\ \A m \in Notices : m.is # "s" => m.head \in Nat
    /\ \A m \in Notices : m.is = "s" => m.counts \in [Counters -> Nat]
    /\ \A m \in Notices : m.is = "s" => m = Counted(m.counts)
    /\ \A m \in Ends : m.is = "exited"
  BY DEF Written, Ready, Counted, Notices, Ends

LEMMA Mishap ==
    ASSUME Typed, NEW class \in IngestFaultClasses, IngestFault(class)
    PROVE  /\ mishaps' \in [IngestFaultClasses -> Nat] /\ mishaps'[class] > 0
           /\ Calm' => Calm
<1>1. mishaps' = [c \in IngestFaultClasses |-> IF c = class THEN mishaps[c] + 1 ELSE mishaps[c]]
      /\ mishaps \in [IngestFaultClasses -> Nat]
  BY DEF Typed, IngestTypeOK, IngestFault
<1>2. \A c \in IngestFaultClasses : mishaps'[c] \in Nat /\ mishaps'[c] >= mishaps[c]
  BY <1>1
<1> QED
  BY <1>1, <1>2 DEF Calm, IngestSuffered, IngestFaultClasses

LEMMA IngestBegins == IngestInit => IngestInv
<1> SUFFICES ASSUME IngestInit PROVE IngestInv
  OBVIOUS
<1>1. Len(Admits) \in Nat /\ Len(Admits) > 0
  BY IngestConstants, EmptySeq
<1>2. /\ Zero \in [Counters -> Nat] /\ [c \in IngestFaultClasses |-> 0] \in [IngestFaultClasses -> Nat]
      /\ 1 \in 1 .. Len(Admits) /\ 0 \in 0 .. MaxData /\ 0 \in 0 .. Burst /\ Len(<<>>) = 0
      /\ OutboxMax \in Nat
  BY <1>1, IngestConstants DEF Zero
<1>3. Typed
  <2>1. sent \in 0 .. MaxData /\ kernel \in Seq(Data) /\ held \subseteq Data
    BY <1>2 DEF IngestInit
  <2>2. /\ counters \in [Counters -> Nat] /\ base \in [Counters -> Nat] /\ child \in [Counters -> Nat]
        /\ mishaps \in [IngestFaultClasses -> Nat]
    BY <1>2 DEF IngestInit
  <2>3. outbox \in Seq(Data) /\ Len(outbox) <= OutboxMax /\ writing \in 0 .. Len(outbox)
    BY <1>2 DEF IngestInit
  <2>4. events \in Seq(Notices) /\ callbacks \in Seq(Notices \cup Ends) /\ control \in Seq(Orders)
    BY DEF IngestInit
  <2> QED
    BY <1>2, <2>1, <2>2, <2>3, <2>4 DEF IngestInit, Typed, IngestTypeOK
<1> QED
  BY <1>3 DEF IngestInit, IngestInv, Durable, Lifecycle, Ordered, Settled, Zero, Accounted,
              Announced, LastNotice, Counters

-----------------------------------------------------------------------------
(* The socket: nothing but its contents changes.                           *)
LEMMA ArriveKeeps ==
    ASSUME IngestInv, Arrive
    PROVE  IngestInv'
<1>1. UNCHANGED <<held, workerVars, pipeVars, mainVars, mishaps>>
      /\ sent' = sent + 1 /\ sent < MaxData
      /\ (kernel' = kernel \/ kernel' = Append(kernel, sent + 1))
  BY DEF Arrive
<1>2. Typed'
  <2>1. sent + 1 \in Data
    BY <1>1, IngestConstants DEF IngestInv, Typed, IngestTypeOK, Data
  <2>2. kernel' \in Seq(Data)
    BY SMTT(60), <1>1, <2>1, Sent DEF IngestInv, Typed, IngestTypeOK
  <2> QED
    BY SMTT(60), <1>1, <2>1, <2>2 DEF IngestInv, Typed, IngestTypeOK, workerVars, pipeVars, mainVars, Data
<1> QED
  BY <1>1, <1>2 DEF IngestInv, Durable, Lifecycle, Ordered, Settled, Calm, IngestSuffered,
     Accounted, Announced, LastNotice, workerVars, pipeVars, mainVars

(* The worker says that it is ready.                                       *)
LEMMA WorkerReadyKeeps ==
    ASSUME IngestInv, WorkerReady
    PROVE  IngestInv'
<1>1. /\ worker = "boot" /\ worker' = "run" /\ events' = Append(events, Ready(spool))
      /\ UNCHANGED <<sent, kernel, held, budget, version, counters, outbox, writing, gaveUp, spool>>
      /\ UNCHANGED <<control, reading, callbacks, mainVars, mishaps>>
  BY DEF WorkerReady, Tell, ReadyNotice
<1>2. Ready(spool) \in Notices /\ Ready(spool).is = "r" /\ Ready(spool).head = spool
  BY NoticeShapes, Fields DEF IngestInv
<1>3. /\ events' \in Seq(Notices)
      /\ \A i \in DOMAIN events' : i \in DOMAIN events \/ i = Len(events) + 1
      /\ \A i \in DOMAIN events : i \in DOMAIN events' /\ events'[i] = events[i]
      /\ events'[Len(events) + 1] = Ready(spool)
  BY <1>1, <1>2, Sent DEF IngestInv, Typed
<1>4. Typed'
  BY <1>1, <1>3 DEF IngestInv, Typed, IngestTypeOK, mainVars
<1>5. Durable'
  BY <1>1, <1>2, <1>3, Fields DEF IngestInv, Durable
<1>6. Lifecycle' /\ Ordered'
  BY <1>1 DEF IngestInv, Lifecycle, Ordered, mainVars
<1>7. Settled'
  BY <1>1, <1>3 DEF IngestInv, Settled, Calm, IngestSuffered, Accounted, Announced, LastNotice, mainVars
<1> QED
  BY <1>4, <1>5, <1>6, <1>7 DEF IngestInv

(* A datagram read is denied, dropped or queued.                           *)
LEMMA ReceiveKeeps ==
    ASSUME IngestInv, Receive
    PROVE  IngestInv'
<1>1. /\ kernel # <<>> /\ worker \in {"run", "drain"} /\ kernel' = Tail(kernel)
      /\ UNCHANGED <<sent, held, worker, version, writing, gaveUp, spool, pipeVars, mainVars, mishaps>>
      /\ budget' = budget \/ (budget > 0 /\ budget' = budget - 1)
  BY DEF Receive
<1>2. PICK c \in {"denied", "dropped", "queued"} :
        /\ counters' = [k \in Counters |-> IF k = "received" \/ k = c THEN counters[k] + 1
                                                                   ELSE counters[k]]
        /\ IF c = "queued" THEN outbox' = Append(outbox, Head(kernel)) /\ Len(outbox) < OutboxMax
                           ELSE outbox' = outbox
  <2>1. counters \in [Counters -> Nat]
    BY DEF IngestInv, Typed, IngestTypeOK
  <2> QED
    BY <2>1 DEF Receive, OutboxHasRoom, Counters
<1>3. counters \in [Counters -> Nat] /\ counters' \in [Counters -> Nat]
      /\ \A k \in Counters : counters[k] \in Nat
  BY SMTT(60), <1>2 DEF IngestInv, Typed, IngestTypeOK
<1>4. Head(kernel) \in Data /\ kernel' \in Seq(Data)
  BY <1>1, Taken DEF IngestInv, Typed, IngestTypeOK
<1>5. /\ outbox \in Seq(Data) /\ outbox' \in Seq(Data) /\ Len(outbox) \in Nat
      /\ Len(outbox') = Len(outbox) + (IF c = "queued" THEN 1 ELSE 0)
  BY SMTT(60), <1>2, <1>4, Sent DEF IngestInv, Typed, IngestTypeOK
<1>6. Typed'
  <2>1. Len(outbox') <= OutboxMax /\ writing' \in 0 .. Len(outbox')
    BY SMTT(60), <1>1, <1>2, <1>5, IngestConstants DEF IngestInv, Typed, IngestTypeOK
  <2>2. budget' \in 0 .. Burst
    BY SMTT(60), <1>1, IngestConstants DEF IngestInv, Typed, IngestTypeOK
  <2> QED
    BY SMTT(60), <1>1, <1>3, <1>4, <1>5, <2>1, <2>2 DEF IngestInv, Typed, IngestTypeOK, pipeVars, mainVars
<1>7. Durable' /\ Lifecycle' /\ Ordered'
  BY <1>1 DEF IngestInv, Durable, Lifecycle, Ordered, pipeVars, mainVars
<1>8. Accounted => Accounted'
  BY SMTT(60), <1>1, <1>2, <1>3, <1>5 DEF Accounted, Counters
<1>9. Settled'
  BY <1>1, <1>8 DEF IngestInv, Settled, Calm, IngestSuffered, Announced, LastNotice, pipeVars, mainVars
<1> QED
  BY <1>6, <1>7, <1>9 DEF IngestInv

(* An order is carried out: the next allowlist, or the last burst.         *)
LEMMA ControlKeeps ==
    ASSUME IngestInv, Control
    PROVE  IngestInv'
<1>1. /\ worker = "run" /\ control # <<>> /\ control' = Tail(control)
      /\ UNCHANGED <<sent, kernel, counters, outbox, writing, gaveUp, spool>>
      /\ UNCHANGED <<events, reading, callbacks, mainVars, mishaps>>
      /\ \/ /\ Head(control).is = "stop" /\ worker' = "drain" /\ budget' = Burst
            /\ held' = Range(kernel) /\ version' = version
         \/ /\ Head(control).is # "stop" /\ version' = Head(control).version
            /\ UNCHANGED <<worker, budget, held>>
  BY DEF Control, LastBurst
<1>2. Head(control) \in Orders /\ Head(control) = control[1] /\ 1 \in DOMAIN control
      /\ control' \in Seq(Orders) /\ Len(control') = Len(control) - 1
      /\ Len(control) \in Nat /\ DOMAIN control = 1 .. Len(control)
      /\ DOMAIN control' = 1 .. Len(control) - 1
      /\ \A i \in DOMAIN control' : i + 1 \in DOMAIN control /\ control'[i] = control[i + 1]
  BY <1>1, Taken DEF IngestInv, Typed
<1>3. Head(control).is # "stop" => Head(control).version \in 1 .. Len(Admits)
  BY <1>2 DEF Orders
<1>4. Range(kernel) \subseteq Data
  BY DEF IngestInv, Typed, IngestTypeOK, Range
<1>5. Typed'
  <2>1. version' \in 1 .. Len(Admits) /\ budget' \in 0 .. Burst /\ held' \subseteq Data
        /\ worker' \in {"run", "drain"}
    BY SMTT(60), <1>1, <1>3, <1>4, IngestConstants DEF IngestInv, Typed, IngestTypeOK
  <2> QED
    BY SMTT(60), <1>1, <1>2, <2>1 DEF IngestInv, Typed, IngestTypeOK, mainVars
<1>6. Durable' /\ Lifecycle'
  BY <1>1 DEF IngestInv, Durable, Lifecycle, mainVars
<1>7. Ordered'
  <2>1. \A i \in DOMAIN control' : control'[i].is = "stop" => closing'
    BY <1>1, <1>2 DEF IngestInv, Ordered, mainVars
  <2>2. Head(control).is = "stop" => closing
    BY <1>2 DEF IngestInv, Ordered
  <2>3. ASSUME main \in {"starting", "up"}, worker' \in {"boot", "run"}
        PROVE  IF control' = <<>> THEN version' = networks'
                                  ELSE control'[Len(control')].version = networks'
    <3>1. networks' = networks /\ worker' = "run" /\ version' = control[1].version
          /\ control[Len(control)].version = networks
      BY <1>1, <1>2, <2>2, <2>3 DEF IngestInv, Ordered, mainVars
    <3>2. CASE control' = <<>>
      BY <1>2, <3>1, <3>2
    <3>3. CASE control' # <<>>
      <4>1. Len(control') \in DOMAIN control'
        BY <1>2, <3>3, EmptySeq
      <4> QED
        BY <1>2, <3>1, <3>3, <4>1
    <3> QED
      BY <3>2, <3>3
  <2> QED
    BY <1>1, <2>1, <2>2, <2>3 DEF IngestInv, Ordered, mainVars
<1>8. Settled'
  BY <1>1 DEF IngestInv, Settled, Calm, IngestSuffered, Accounted, Announced, LastNotice, mainVars
<1> QED
  BY <1>5, <1>6, <1>7, <1>8 DEF IngestInv

(* The worker tells its counters, once in a while and when it ends.        *)
LEMMA ReportKeeps ==
    ASSUME IngestInv, Report
    PROVE  IngestInv'
<1>1. /\ worker = "run" /\ events' = Append(events, Counted(counters))
      /\ UNCHANGED <<sent, kernel, held, workerVars, control, reading, callbacks, mainVars, mishaps>>
  BY DEF Report, Tell
<1>2. Counted(counters) \in Notices /\ Counted(counters).is = "s"
  BY NoticeShapes DEF IngestInv, Typed, IngestTypeOK
<1>3. /\ events' \in Seq(Notices)
      /\ \A i \in DOMAIN events' : i \in DOMAIN events \/ i = Len(events) + 1
      /\ \A i \in DOMAIN events : i \in DOMAIN events' /\ events'[i] = events[i]
      /\ events'[Len(events) + 1] = Counted(counters)
  BY <1>1, <1>2, Sent DEF IngestInv, Typed
<1>4. Typed'
  BY SMTT(60), <1>1, <1>3 DEF IngestInv, Typed, IngestTypeOK, mainVars, workerVars
<1>5. Durable'
  BY <1>1, <1>2, <1>3, Fields DEF IngestInv, Durable, workerVars
<1>6. Lifecycle' /\ Ordered'
  BY <1>1 DEF IngestInv, Lifecycle, Ordered, mainVars, workerVars
<1>7. Settled'
  BY <1>1, <1>3 DEF IngestInv, Settled, Calm, IngestSuffered, Accounted, Announced, LastNotice,
     mainVars, workerVars
<1> QED
  BY <1>4, <1>5, <1>6, <1>7 DEF IngestInv

LEMMA FlushKeeps ==
    ASSUME IngestInv, Flush \/ SpoolGivesUp
    PROVE  IngestInv'
<1>1. /\ worker \in {"drain", "flush"} /\ worker' = "flush" /\ gaveUp' \in BOOLEAN
      /\ UNCHANGED <<sent, kernel, held, budget, version, counters, outbox, writing, spool>>
      /\ UNCHANGED <<pipeVars, mainVars>>
      /\ mishaps' \in [IngestFaultClasses -> Nat] /\ (Calm' => Calm)
  <2>1. CASE Flush
    BY <2>1 DEF Flush, IngestInv, Typed, IngestTypeOK, Calm, IngestSuffered
  <2>2. CASE SpoolGivesUp
    BY <2>2, Mishap DEF SpoolGivesUp, IngestInv, IngestFaultClasses
  <2> QED
    BY <2>1, <2>2
<1>2. Typed'
  BY <1>1 DEF IngestInv, Typed, IngestTypeOK, pipeVars, mainVars
<1>3. Durable' /\ Lifecycle' /\ Ordered'
  BY <1>1 DEF IngestInv, Durable, Lifecycle, Ordered, pipeVars, mainVars
<1>4. Settled'
  BY <1>1 DEF IngestInv, Settled, Accounted, Announced, LastNotice, pipeVars, mainVars
<1> QED
  BY <1>2, <1>3, <1>4 DEF IngestInv

LEMMA WorkerExitKeeps ==
    ASSUME IngestInv, WorkerExit
    PROVE  IngestInv'
<1>1. /\ worker = "flush" /\ writing = 0 /\ worker' = "gone" /\ events' = Append(events, Counted(counters'))
      /\ UNCHANGED <<sent, kernel, held, budget, version, outbox, writing, gaveUp, spool>>
      /\ UNCHANGED <<control, reading, callbacks, mainVars, mishaps>>
  BY DEF WorkerExit, Tell
<1>2. counters' = [k \in Counters |-> IF k = "dropped" THEN counters[k] + Len(outbox) ELSE counters[k]]
      /\ counters' \in [Counters -> Nat] /\ counters \in [Counters -> Nat]
  <2>1. counters \in [Counters -> Nat] /\ Len(outbox) \in Nat
    BY DEF IngestInv, Typed, IngestTypeOK
  <2>2. counters' = [k \in Counters |-> IF k = "dropped" THEN counters[k] + Len(outbox) ELSE counters[k]]
    BY <2>1 DEF WorkerExit, LeftCounted
  <2> QED
    BY <2>1, <2>2
<1>3. Counted(counters') \in Notices /\ Counted(counters').is = "s"
  BY <1>2, NoticeShapes
<1>4. /\ events' \in Seq(Notices) /\ events' # <<>> /\ Len(events') = Len(events) + 1
      /\ \A i \in DOMAIN events' : i \in DOMAIN events \/ i = Len(events) + 1
      /\ \A i \in DOMAIN events : i \in DOMAIN events' /\ events'[i] = events[i]
      /\ events'[Len(events) + 1] = Counted(counters')
  <2>1. events \in Seq(Notices)
    BY DEF IngestInv, Typed
  <2> DEFINE m == Counted(counters')
  <2>2. m \in Notices /\ events' = Append(events, m)
    BY <1>1, <1>3
  <2> HIDE DEF m
  <2>3. /\ events' \in Seq(Notices) /\ events' # <<>> /\ Len(events') = Len(events) + 1
        /\ \A i \in DOMAIN events' : i \in DOMAIN events \/ i = Len(events) + 1
        /\ \A i \in DOMAIN events : i \in DOMAIN events' /\ events'[i] = events[i]
        /\ events'[Len(events) + 1] = m
    BY <2>1, <2>2, Sent
  <2> QED
    BY <2>3 DEF m
<1>5. Typed'
  BY SMTT(60), <1>1, <1>2, <1>4 DEF IngestInv, Typed, IngestTypeOK, mainVars
<1>6. Durable'
  BY <1>1, <1>3, <1>4, Fields DEF IngestInv, Durable
<1>7. Lifecycle' /\ Ordered'
  BY <1>1 DEF IngestInv, Lifecycle, Ordered, mainVars
<1>8. Accounted => Accounted'
  BY <1>1, <1>2, Fields DEF Accounted, Counters, IngestInv
<1>9. LastNotice'
  BY <1>1, <1>4 DEF LastNotice, mainVars, IngestInv, Ordered
<1>10. Announced => Announced'
  BY <1>1, <1>4 DEF Announced, mainVars
<1>11. Settled'
  BY <1>1, <1>8, <1>9, <1>10 DEF IngestInv, Settled, Calm, IngestSuffered, mainVars
<1> QED
  BY <1>5, <1>6, <1>7, <1>11 DEF IngestInv

(* A group becomes durable, then known to the worker, which tells it.      *)
LEMMA SpoolGroupKeeps ==
    ASSUME IngestInv, SpoolGroup
    PROVE  IngestInv'
<1>1. /\ worker \in {"run", "drain", "flush"} /\ outbox # <<>> /\ writing = 0
      /\ writing' = Len(outbox) /\ spool' = spool + Len(outbox)
      /\ UNCHANGED <<sent, kernel, held, worker, budget, version, counters, outbox, gaveUp>>
      /\ UNCHANGED <<pipeVars, mainVars, mishaps>>
  BY DEF SpoolGroup
<1>2. Len(outbox) \in Nat /\ Len(outbox) > 0 /\ outbox \in Seq(Data)
  BY <1>1, EmptySeq DEF IngestInv, Typed, IngestTypeOK
<1>3. spool' \in Nat /\ spool' >= spool
  BY <1>1, <1>2, Fields DEF IngestInv
<1>4. Typed'
  <2>1. writing' \in 0 .. Len(outbox') /\ head' \in 0 .. spool'
    BY <1>1, <1>2, <1>3 DEF IngestInv, Typed, IngestTypeOK, mainVars
  <2> QED
    BY SMTT(60), <1>1, <1>3, <2>1 DEF IngestInv, Typed, IngestTypeOK, mainVars, pipeVars
<1>5. Durable'
  <2>1. \A i \in DOMAIN events : events[i].is # "s" => events[i].head \in Nat
    BY Fields, NoticeShapes DEF IngestInv
  <2>2. \A i \in DOMAIN callbacks : callbacks[i].is \in {"w", "r"} => callbacks[i].head \in Nat
    BY Fields, NoticeShapes DEF IngestInv
  <2> QED
    BY <1>1, <1>3, <2>1, <2>2, Fields DEF IngestInv, Durable, pipeVars
<1>6. Lifecycle' /\ Ordered'
  BY <1>1 DEF IngestInv, Lifecycle, Ordered, pipeVars, mainVars
<1>7. Accounted => Accounted'
  BY <1>1, <1>2, Fields DEF IngestInv, Accounted, Counters
<1>8. Settled'
  BY <1>1, <1>2, <1>7 DEF IngestInv, Settled, Calm, IngestSuffered, Announced, LastNotice, mainVars
<1> QED
  BY <1>4, <1>5, <1>6, <1>8 DEF IngestInv

LEMMA SpoolNoticeKeeps ==
    ASSUME IngestInv, SpoolNotice
    PROVE  IngestInv'
<1>1. /\ worker \in {"run", "drain", "flush"} /\ writing > 0 /\ writing' = 0
      /\ outbox' = SubSeq(outbox, writing + 1, Len(outbox))
      /\ events' = Append(events, Written(spool))
      /\ UNCHANGED <<sent, kernel, held, worker, budget, version, gaveUp, spool>>
      /\ UNCHANGED <<control, reading, callbacks, mainVars, mishaps>>
  BY DEF SpoolNotice, Tell
<1>2. counters \in [Counters -> Nat] /\ outbox \in Seq(Data) /\ Len(outbox) \in Nat
      /\ writing \in 0 .. Len(outbox) /\ writing \in Nat
  BY DEF IngestInv, Typed, IngestTypeOK
<1>3. counters' = [k \in Counters |-> IF k = "spooled" THEN counters[k] + writing ELSE counters[k]]
  BY <1>2 DEF SpoolNotice
<1>4. counters' \in [Counters -> Nat]
  BY <1>2, <1>3
<1>5. outbox' \in Seq(Data) /\ Len(outbox') = Len(outbox) - writing
  BY <1>1, <1>2, SubSeqProperties
<1>6. Written(spool) \in Notices /\ Written(spool).is = "w" /\ Written(spool).head = spool
  BY NoticeShapes, Fields DEF IngestInv
<1>7. /\ events' \in Seq(Notices)
      /\ \A i \in DOMAIN events' : i \in DOMAIN events \/ i = Len(events) + 1
      /\ \A i \in DOMAIN events : i \in DOMAIN events' /\ events'[i] = events[i]
      /\ events'[Len(events) + 1] = Written(spool) /\ Len(events) + 1 \in DOMAIN events'
  BY <1>1, <1>6, Sent DEF IngestInv, Typed
<1>8. Typed'
  <2>1. Len(outbox') <= OutboxMax /\ writing' \in 0 .. Len(outbox')
    BY <1>1, <1>2, <1>5, IngestConstants DEF IngestInv, Typed, IngestTypeOK
  <2> QED
    BY SMTT(60), <1>1, <1>4, <1>5, <1>7, <2>1 DEF IngestInv, Typed, IngestTypeOK, mainVars
<1>9. Durable'
  BY <1>1, <1>6, <1>7, Fields DEF IngestInv, Durable
<1>10. Lifecycle' /\ Ordered'
  BY <1>1 DEF IngestInv, Lifecycle, Ordered, mainVars
<1>11. Accounted => Accounted'
  <2>1. \A k \in Counters : counters[k] \in Nat
    BY <1>2
  <2> QED
    BY <1>1, <1>2, <1>3, <1>5, <2>1 DEF Accounted, Counters
<1>12. Announced'
  BY <1>1, <1>7 DEF Announced
<1>13. Settled'
  BY <1>1, <1>11, <1>12 DEF IngestInv, Settled, Calm, IngestSuffered, LastNotice, mainVars
<1> QED
  BY <1>8, <1>9, <1>10, <1>13 DEF IngestInv

(* The worker dies, and nothing more is said of what it knew.              *)
LEMMA DeathKeeps ==
    ASSUME IngestInv, Crash \/ BootFails
    PROVE  IngestInv'
<1>1. /\ worker # "gone" /\ worker' = "gone" /\ outbox' = <<>> /\ writing' = 0
      /\ UNCHANGED <<sent, kernel, held, budget, version, counters, gaveUp, spool, pipeVars, mainVars>>
  BY DEF Crash, BootFails, Dies
<1>2. mishaps' \in [IngestFaultClasses -> Nat] /\ ~Calm'
  <2>1. CASE Crash
    BY <2>1, Mishap DEF Crash, IngestInv, IngestFaultClasses, Calm, IngestSuffered
  <2>2. CASE BootFails
    BY <2>2, Mishap DEF BootFails, IngestInv, IngestFaultClasses, Calm, IngestSuffered
  <2> QED
    BY <2>1, <2>2
<1>3. Typed'
  BY <1>1, <1>2, IngestConstants DEF IngestInv, Typed, IngestTypeOK, pipeVars, mainVars
<1>4. Durable' /\ Lifecycle' /\ Ordered'
  BY <1>1 DEF IngestInv, Durable, Lifecycle, Ordered, pipeVars, mainVars
<1> QED
  BY <1>2, <1>3, <1>4 DEF IngestInv, Settled

-----------------------------------------------------------------------------
(* The reader thread moves the oldest notice to the loop, ...              *)
LEMMA ReadEventKeeps ==
    ASSUME IngestInv, ReadEvent
    PROVE  IngestInv'
<1>1. /\ reading /\ events # <<>> /\ callbacks' = Append(callbacks, Head(events)) /\ events' = Tail(events)
      /\ UNCHANGED <<sent, kernel, held, workerVars, control, reading, mainVars, mishaps>>
  BY DEF ReadEvent
<1>2. /\ Head(events) \in Notices /\ Head(events) = events[1] /\ 1 \in DOMAIN events
      /\ events' \in Seq(Notices) /\ Len(events') = Len(events) - 1
      /\ DOMAIN events' = 1 .. Len(events) - 1
      /\ Len(events) \in Nat /\ DOMAIN events = 1 .. Len(events)
      /\ \A i \in DOMAIN events' : i + 1 \in DOMAIN events /\ events'[i] = events[i + 1]
      /\ \A i \in DOMAIN events : i # 1 => i - 1 \in DOMAIN events' /\ events'[i - 1] = events[i]
  BY <1>1, Taken DEF IngestInv, Typed
<1>3. /\ callbacks' \in Seq(Notices \cup Ends) /\ Len(callbacks') = Len(callbacks) + 1
      /\ DOMAIN callbacks' = 1 .. Len(callbacks) + 1 /\ Len(callbacks) \in Nat
      /\ DOMAIN callbacks = 1 .. Len(callbacks)
      /\ \A i \in DOMAIN callbacks : i \in DOMAIN callbacks' /\ callbacks'[i] = callbacks[i]
      /\ callbacks'[Len(callbacks) + 1] = events[1]
      /\ \A i \in DOMAIN callbacks' : i \in DOMAIN callbacks \/ i = Len(callbacks) + 1
  BY <1>1, <1>2, Sent DEF IngestInv, Typed
<1>4. events[1].is \in {"s", "w", "r"}
  BY <1>2, NoticeShapes
<1>5. Typed'
  BY SMTT(60), <1>1, <1>2, <1>3 DEF IngestInv, Typed, IngestTypeOK, workerVars, mainVars
<1>6. Durable'
  BY <1>1, <1>2, <1>3, <1>4 DEF IngestInv, Durable, workerVars
<1>7. Lifecycle'
  BY <1>1, <1>3, <1>4 DEF IngestInv, Lifecycle, workerVars, mainVars
<1>8. Ordered'
  BY <1>1 DEF IngestInv, Ordered, workerVars, mainVars
<1>9. Announced => Announced'
  <2> SUFFICES ASSUME Announced, writing = 0, head # spool PROVE Announced'
    BY <1>1 DEF Announced, workerVars, mainVars
  <2>1. CASE \E i \in DOMAIN events : events[i] = Written(spool)
    <3>1. PICK i \in DOMAIN events : events[i] = Written(spool)
      BY <2>1
    <3>2. CASE i = 1
      <4>1. Len(callbacks) + 1 \in DOMAIN callbacks' /\ callbacks'[Len(callbacks) + 1] = Written(spool)
        BY <1>3, <3>1, <3>2
      <4> QED
        BY <1>1, <4>1 DEF Announced, workerVars, mainVars
    <3>3. CASE i # 1
      <4>1. i - 1 \in DOMAIN events' /\ events'[i - 1] = Written(spool)
        BY <1>2, <3>1, <3>3
      <4> QED
        BY <1>1, <4>1 DEF Announced, workerVars, mainVars
    <3> QED
      BY <3>2, <3>3
  <2>2. CASE \E i \in DOMAIN callbacks : callbacks[i] = Written(spool)
    BY <1>1, <1>3, <2>2 DEF Announced, workerVars, mainVars
  <2> QED
    BY <2>1, <2>2 DEF Announced
<1>10. LastNotice => LastNotice'
  <2> SUFFICES ASSUME worker = "gone", events[Len(events)] = Counted(counters), closing
               PROVE  LastNotice'
    BY <1>1 DEF LastNotice, workerVars, mainVars
  <2>1. CASE Len(events) = 1
    <3>1. events' = <<>>
      BY <1>2, <2>1, EmptySeq
    <3>2. callbacks'[Len(callbacks) + 1] = Counted(counters) /\ Len(callbacks) + 1 \in DOMAIN callbacks'
          /\ \A j \in DOMAIN callbacks' : ~ (j > Len(callbacks) + 1)
      BY <1>3, <2>1
    <3> QED
      BY <1>1, <3>1, <3>2 DEF LastNotice, workerVars, mainVars
  <2>2. CASE Len(events) # 1
    <3>1. Len(events') \in DOMAIN events' /\ events'[Len(events')] = Counted(counters) /\ events' # <<>>
      BY <1>2, <2>2, EmptySeq
    <3> QED
      BY <1>1, <3>1 DEF LastNotice, workerVars, mainVars
  <2> QED
    BY <2>1, <2>2
<1>11. Settled'
  BY <1>1, <1>9, <1>10 DEF IngestInv, Settled, Calm, IngestSuffered, Accounted, workerVars, mainVars
<1> QED
  BY <1>5, <1>6, <1>7, <1>8, <1>11 DEF IngestInv

(* ... and so it does with the end of the pipe, after everything in it.    *)
LEMMA ReadEndKeeps ==
    ASSUME IngestInv, ReadEnd
    PROVE  IngestInv'
<1>1. /\ reading /\ events = <<>> /\ worker = "gone"
      /\ callbacks' = Append(callbacks, [is |-> "exited"]) /\ reading' = FALSE
      /\ UNCHANGED <<sent, kernel, held, workerVars, events, control, mainVars, mishaps>>
  BY DEF ReadEnd
<1>2. [is |-> "exited"] \in Notices \cup Ends /\ [is |-> "exited"].is = "exited"
  BY DEF Ends
<1>3. /\ callbacks' \in Seq(Notices \cup Ends) /\ Len(callbacks') = Len(callbacks) + 1
      /\ DOMAIN callbacks' = 1 .. Len(callbacks) + 1 /\ Len(callbacks) \in Nat
      /\ DOMAIN callbacks = 1 .. Len(callbacks)
      /\ \A i \in DOMAIN callbacks : i \in DOMAIN callbacks' /\ callbacks'[i] = callbacks[i]
      /\ callbacks'[Len(callbacks) + 1].is = "exited"
      /\ \A i \in DOMAIN callbacks' : i \in DOMAIN callbacks \/ i = Len(callbacks) + 1
  BY <1>1, <1>2, Sent DEF IngestInv, Typed
<1>4. Typed'
  BY <1>1, <1>3 DEF IngestInv, Typed, IngestTypeOK, workerVars, mainVars
<1>5. Durable'
  BY <1>1, <1>3 DEF IngestInv, Durable, workerVars
<1>6. Lifecycle'
  BY <1>1, <1>3 DEF IngestInv, Lifecycle, workerVars, mainVars
<1>7. Ordered'
  BY <1>1 DEF IngestInv, Ordered, workerVars, mainVars
<1>8. Announced => Announced'
  BY <1>1, <1>3 DEF Announced, workerVars, mainVars
<1>9. LastNotice => LastNotice'
  BY <1>1, <1>3 DEF LastNotice, workerVars, mainVars
<1>10. Settled'
  BY <1>1, <1>8, <1>9 DEF IngestInv, Settled, Calm, IngestSuffered, Accounted, workerVars, mainVars
<1> QED
  BY <1>4, <1>5, <1>6, <1>7, <1>10 DEF IngestInv

-----------------------------------------------------------------------------
(* The loop acts on a notice: what it says of the spool is heard, and the  *)
(* counters of the last one are those of the worker.                       *)
LEMMA CallbackKeeps ==
    ASSUME IngestInv, Callback
    PROVE  IngestInv'
<1> DEFINE m == Head(callbacks)
<1>1. /\ callbacks # <<>> /\ main \notin {"closed", "failed"} /\ m.is # "exited"
      /\ child' = (IF m.is = "s" THEN m.counts ELSE child)
      /\ head' = (IF m.is # "s" /\ m.head > head THEN m.head ELSE head)
      /\ ready' = (IF m.is = "r" /\ ready = "pending" THEN "done" ELSE ready)
      /\ callbacks' = Tail(callbacks)
      /\ UNCHANGED <<sent, kernel, held, workerVars, events, control, reading, mishaps>>
      /\ UNCHANGED <<main, closing, open, timer, networks, base>>
  BY DEF Callback
<1>2. /\ m \in Notices \cup Ends /\ m = callbacks[1] /\ 1 \in DOMAIN callbacks
      /\ callbacks' \in Seq(Notices \cup Ends) /\ Len(callbacks') = Len(callbacks) - 1
      /\ DOMAIN callbacks' = 1 .. Len(callbacks) - 1 /\ Len(callbacks) \in Nat
      /\ DOMAIN callbacks = 1 .. Len(callbacks)
      /\ \A i \in DOMAIN callbacks' : i + 1 \in DOMAIN callbacks /\ callbacks'[i] = callbacks[i + 1]
      /\ \A i \in DOMAIN callbacks : i # 1 => i - 1 \in DOMAIN callbacks' /\ callbacks'[i - 1] = callbacks[i]
  BY <1>1, Taken DEF IngestInv, Typed
<1>3. m \in Notices /\ m.is \in {"s", "w", "r"}
  BY <1>1, <1>2, NoticeShapes
<1>4. m.is # "s" => m.head \in Nat /\ m.head <= spool
  BY <1>2, <1>3, NoticeShapes DEF IngestInv, Durable
<1>5. m.is = "s" => m.counts \in [Counters -> Nat]
  BY <1>3, NoticeShapes
<1>6. head' \in 0 .. spool /\ (head = spool => head' = spool)
      /\ (m.is # "s" /\ m.head = spool => head' = spool)
  BY SMTT(60), <1>1, <1>4, Fields DEF IngestInv, Typed, IngestTypeOK
<1>7. Typed'
  <2>1. child' \in [Counters -> Nat] /\ ready' \in {"pending", "done", "failed"}
    BY <1>1, <1>5 DEF IngestInv, Typed, IngestTypeOK
  <2> QED
    BY ZenonT(60), <1>1, <1>2, <1>6, <2>1 DEF IngestInv, Typed, IngestTypeOK, workerVars
<1>8. Durable'
  BY <1>1, <1>2 DEF IngestInv, Durable, workerVars
<1>9. Lifecycle'
  <2>1. \A i \in DOMAIN callbacks' : callbacks'[i].is = "exited" => i = Len(callbacks') /\ ~timer'
    BY <1>1, <1>2 DEF IngestInv, Lifecycle
  <2> QED
    BY <1>1, <1>2, <2>1 DEF IngestInv, Lifecycle, workerVars
<1>10. Ordered'
  BY <1>1 DEF IngestInv, Ordered, workerVars
<1>11. Announced => Announced'
  <2> SUFFICES ASSUME writing = 0, head # spool, NEW i \in DOMAIN callbacks, callbacks[i] = Written(spool)
               PROVE  Announced'
    BY <1>1, <1>6 DEF Announced, workerVars
  <2>1. CASE i = 1
    BY <1>2, <1>6, <2>1, NoticeShapes, <1>1 DEF Announced, workerVars
  <2>2. CASE i # 1
    <3>1. i - 1 \in DOMAIN callbacks' /\ callbacks'[i - 1] = Written(spool)
      BY <1>2, <2>2
    <3> QED
      BY <1>1, <3>1 DEF Announced, workerVars
  <2> QED
    BY <2>1, <2>2
<1>12. LastNotice => LastNotice'
  <2> SUFFICES ASSUME LastNotice, worker = "gone", events = <<>> PROVE LastNotice'
    BY <1>1 DEF LastNotice, workerVars
  <2>1. ~ (\A j \in DOMAIN callbacks : callbacks[j].is = "exited")
    BY <1>1, <1>2
  <2>2. PICK i \in DOMAIN callbacks : /\ callbacks[i] = Counted(counters)
                                      /\ \A j \in DOMAIN callbacks : j > i => callbacks[j].is = "exited"
    BY <2>1 DEF LastNotice
  <2>3. CASE i = 1
    <3>1. child' = counters
      BY <1>1, <1>2, <2>2, <2>3, NoticeShapes
    <3>2. \A j \in DOMAIN callbacks' : callbacks'[j].is = "exited"
      <4> TAKE j \in DOMAIN callbacks'
      <4>1. j + 1 \in DOMAIN callbacks /\ j + 1 > i /\ callbacks'[j] = callbacks[j + 1]
        BY <1>2, <2>3
      <4> QED
        BY <2>2, <4>1
    <3> QED
      BY <1>1, <3>1, <3>2 DEF LastNotice, workerVars
  <2>4. CASE i # 1
    <3>1. i - 1 \in DOMAIN callbacks' /\ callbacks'[i - 1] = Counted(counters)
      BY <1>2, <2>2, <2>4
    <3>2. \A j \in DOMAIN callbacks' : j > i - 1 => callbacks'[j].is = "exited"
      <4> TAKE j \in DOMAIN callbacks'
      <4> HAVE j > i - 1
      <4>1. j + 1 \in DOMAIN callbacks /\ j + 1 > i /\ callbacks'[j] = callbacks[j + 1]
        BY <1>2
      <4> QED
        BY <2>2, <4>1
    <3> QED
      BY <1>1, <3>1, <3>2 DEF LastNotice, workerVars
  <2> QED
    BY <2>3, <2>4
<1>13. Settled'
  BY <1>1, <1>11, <1>12 DEF IngestInv, Settled, Calm, IngestSuffered, Accounted, workerVars
<1> QED
  BY <1>7, <1>8, <1>9, <1>10, <1>13 DEF IngestInv

(* The end is the last thing that is heard of a worker; where nothing went *)
(* wrong, only a handle that closes hears it.                              *)
LEMMA EndKeeps ==
    ASSUME IngestInv, ExitedNotReady \/ Exited
    PROVE  IngestInv'
<1>1. /\ callbacks # <<>> /\ Head(callbacks).is = "exited" /\ main \notin {"closed", "failed"}
      /\ callbacks' = Tail(callbacks) /\ ready' \in {"pending", "done", "failed"}
      /\ UNCHANGED <<sent, kernel, held, workerVars, events, control, reading, mishaps>>
      /\ UNCHANGED <<main, closing, networks, head>>
      /\ \/ UNCHANGED <<base, child, open, timer>>
         \/ ~closing /\ base' = Plus(base, child) /\ child' = Zero /\ open' = FALSE /\ timer' = TRUE
  BY DEF ExitedNotReady, Exited, IsNext, CarriedOver, Again, IngestInv, Typed, IngestTypeOK
<1>2. /\ callbacks[1].is = "exited" /\ 1 \in DOMAIN callbacks
      /\ callbacks' \in Seq(Notices \cup Ends) /\ Len(callbacks') = Len(callbacks) - 1
      /\ DOMAIN callbacks' = 1 .. Len(callbacks) - 1 /\ Len(callbacks) \in Nat
      /\ DOMAIN callbacks = 1 .. Len(callbacks)
  BY <1>1, Taken DEF IngestInv, Typed
<1>3. Len(callbacks) = 1 /\ DOMAIN callbacks' = {} /\ callbacks' = <<>>
  <2>1. Len(callbacks) = 1
    BY <1>2 DEF IngestInv, Lifecycle
  <2> QED
    BY <1>2, <2>1, EmptySeq
<1>4. ~reading /\ worker = "gone" /\ events = <<>> /\ ~timer
  BY <1>2 DEF IngestInv, Lifecycle
<1>5. Typed'
  <2>1. Plus(base, child) \in [Counters -> Nat] /\ Zero \in [Counters -> Nat]
    BY SMTT(60) DEF Plus, Zero, IngestInv, Typed, IngestTypeOK
  <2>2. base' \in [Counters -> Nat] /\ child' \in [Counters -> Nat]
        /\ open' \in BOOLEAN /\ timer' \in BOOLEAN
    BY <1>1, <2>1 DEF IngestInv, Typed, IngestTypeOK
  <2> QED
    BY <1>1, <1>2, <2>2 DEF IngestInv, Typed, IngestTypeOK, workerVars
<1>6. Durable' /\ Ordered'
  BY <1>1, <1>3 DEF IngestInv, Durable, Ordered, workerVars
<1>7. Lifecycle'
  BY <1>1, <1>3, <1>4 DEF IngestInv, Lifecycle, workerVars
<1>8. Settled'
  <2> SUFFICES ASSUME Calm PROVE Settled'
    BY <1>1 DEF Settled, Calm, IngestSuffered
  <2>1. closing /\ Settled
    BY <1>4 DEF IngestInv, Settled, LastNotice
  <2>2. UNCHANGED <<base, child, timer>>
    BY <1>1, <2>1
  <2>3. head = spool \/ writing # 0
    BY <1>2, <1>3, <1>4, <2>1, NoticeShapes DEF Settled, Announced
  <2>4. child = counters
    BY <1>2, <1>3, <1>4, <2>1, NoticeShapes DEF Settled, LastNotice
  <2>5. Announced'
    BY <1>1, <2>3 DEF Announced, workerVars
  <2>6. LastNotice'
    BY <1>1, <1>3, <1>4, <2>1, <2>2, <2>4 DEF LastNotice, workerVars
  <2> QED
    BY <1>1, <2>1, <2>2, <2>5, <2>6 DEF Settled, Accounted, Calm, IngestSuffered, workerVars
<1> QED
  BY <1>5, <1>6, <1>7, <1>8 DEF IngestInv

(* A new worker starts from the current allowlist, with empty pipes.       *)
LEMMA RespawnKeeps ==
    ASSUME IngestInv, Respawn
    PROVE  IngestInv'
<1>1. /\ timer /\ timer' = FALSE
      /\ UNCHANGED <<sent, kernel, held, callbacks, main, closing, networks, base, child, head, mishaps>>
      /\ UNCHANGED spool
  BY DEF Respawn, workerVars
<1>2. ~reading /\ events = <<>> /\ \A i \in DOMAIN callbacks : callbacks[i].is # "exited"
  BY <1>1 DEF IngestInv, Lifecycle
<1>3. main # "closed" /\ worker = "gone"
  BY <1>1, <1>2 DEF IngestInv, Lifecycle, Respawn
<1>4. ~Calm'
  BY <1>1 DEF IngestInv, Settled, Calm, IngestSuffered
<1>5. CASE closing
  <2>1. UNCHANGED <<workerVars, events, control, reading, ready, open>>
    BY <1>5 DEF Respawn
  <2>2. Typed' /\ Durable' /\ Ordered'
    BY ZenonT(60), <1>1, <2>1 DEF IngestInv, Typed, IngestTypeOK, Durable, Ordered, workerVars
  <2>3. Lifecycle'
    BY <1>1, <1>2, <2>1 DEF IngestInv, Lifecycle, workerVars
  <2> QED
    BY <1>4, <2>2, <2>3 DEF IngestInv, Settled
<1>6. CASE ~closing
  <2>1. /\ worker' = "boot" /\ version' = networks /\ counters' = Zero /\ outbox' = <<>>
        /\ writing' = 0 /\ gaveUp' = FALSE /\ budget' = 0
        /\ events' = <<>> /\ control' = <<>> /\ reading' = TRUE
        /\ ready' = "pending" /\ open' = TRUE
    BY <1>6 DEF Respawn, StartsFrom
  <2>2. Typed'
    <3>1. Zero \in [Counters -> Nat] /\ Len(<<>>) = 0 /\ 0 \in 0 .. Burst /\ 0 <= OutboxMax
      BY IngestConstants DEF Zero
    <3>2. events' \in Seq(Notices) /\ control' \in Seq(Orders)
      BY <2>1
    <3>3. counters' \in [Counters -> Nat] /\ outbox' \in Seq(Data) /\ Len(outbox') <= OutboxMax
          /\ writing' \in 0 .. Len(outbox') /\ budget' \in 0 .. Burst /\ version' \in 1 .. Len(Admits)
      BY <2>1, <3>1 DEF IngestInv, Typed, IngestTypeOK
    <3> QED
      BY <1>1, <2>1, <3>2, <3>3 DEF IngestInv, Typed, IngestTypeOK
  <2>3. Durable' /\ Ordered'
    BY <1>1, <1>6, <2>1 DEF IngestInv, Durable, Ordered
  <2>4. Lifecycle'
    BY <1>1, <1>2, <1>3, <2>1 DEF IngestInv, Lifecycle
  <2> QED
    BY <1>4, <2>2, <2>3, <2>4 DEF IngestInv, Settled
<1> QED
  BY <1>5, <1>6

LEMMA SpawnFailsKeeps ==
    ASSUME IngestInv, SpawnFails
    PROVE  IngestInv'
<1>1. /\ timer /\ timer' = TRUE /\ mishaps' \in [IngestFaultClasses -> Nat] /\ (Calm' => Calm)
      /\ UNCHANGED <<sent, kernel, held, workerVars, pipeVars, main, ready, closing, open, networks>>
      /\ UNCHANGED <<base, child, head>>
  BY Mishap DEF SpawnFails, Again, IngestInv, IngestFaultClasses
<1>2. Typed' /\ Durable' /\ Lifecycle' /\ Ordered'
  BY <1>1 DEF IngestInv, Typed, IngestTypeOK, Durable, Lifecycle, Ordered, workerVars, pipeVars
<1> QED
  BY <1>1, <1>2 DEF IngestInv, Settled

(* start() returns, in one way or the other.                               *)
LEMMA StartedKeeps ==
    ASSUME IngestInv, Started
    PROVE  IngestInv'
<1>1. /\ main = "starting" /\ main' \in {"up", "failed"}
      /\ UNCHANGED <<sent, kernel, held, workerVars, pipeVars, mishaps>>
      /\ UNCHANGED <<ready, closing, open, timer, networks, base, child, head>>
  BY DEF Started
<1>2. Typed' /\ Durable' /\ Lifecycle' /\ Ordered'
  BY <1>1 DEF IngestInv, Typed, IngestTypeOK, Durable, Lifecycle, Ordered, workerVars, pipeVars
<1>3. Settled'
  BY <1>1 DEF IngestInv, Settled, Calm, IngestSuffered, Accounted, Announced, LastNotice,
     workerVars, pipeVars
<1> QED
  BY <1>2, <1>3 DEF IngestInv

(* An order is sent to the worker, or lost because there is none.          *)
LEMMA OrderSent ==
    ASSUME IngestInv, NEW m \in Orders, PipeSend(m)
    PROVE  /\ control' \in Seq(Orders)
           /\ \A i \in DOMAIN control' : control'[i] = m \/ (i \in DOMAIN control /\ control'[i] = control[i])
           /\ worker # "gone" => control' # <<>> /\ control'[Len(control')] = m
<1>1. control \in Seq(Orders) /\ (worker # "gone" => open)
  BY DEF IngestInv, Typed, Lifecycle
<1>2. CASE open /\ worker # "gone"
  <2>1. control' = Append(control, m)
    BY <1>2 DEF PipeSend
  <2>2. /\ control' \in Seq(Orders) /\ control' # <<>> /\ Len(control') = Len(control) + 1
        /\ \A i \in DOMAIN control : control'[i] = control[i]
        /\ control'[Len(control) + 1] = m
        /\ \A i \in DOMAIN control' : i \in DOMAIN control \/ i = Len(control) + 1
    BY <1>1, <2>1, Sent
  <2> QED
    BY <2>2
<1>3. CASE ~ (open /\ worker # "gone")
  BY <1>1, <1>3 DEF PipeSend
<1> QED
  BY <1>2, <1>3

(* An administrator's allowlist, a stop, or a start that takes too long.   *)
LEMMA OrderKeeps ==
    ASSUME IngestInv, SetAllowlist \/ Close \/ StartTimesOut
    PROVE  IngestInv'
<1>1. /\ main \in {"starting", "up"} /\ main' \in {"up", "closing", "failed"}
      /\ closing' = (main' # "up") /\ networks' \in 1 .. Len(Admits)
      /\ (main' # "up" => networks' = networks)
      /\ mishaps' \in [IngestFaultClasses -> Nat] /\ (Calm' => Calm)
      /\ \E m \in Orders : /\ PipeSend(m)
                           /\ IF m.is = "stop" THEN closing' ELSE m.version = networks' /\ main' = "up"
      /\ UNCHANGED <<sent, kernel, held, workerVars, events, reading, callbacks>>
      /\ UNCHANGED <<ready, open, timer, base, child, head>>
  <2>0. [is |-> "stop"] \in Orders /\ [is |-> "stop"].is = "stop"
        /\ \A v \in 1 .. Len(Admits) : /\ [is |-> "allowlist", version |-> v] \in Orders
                                       /\ [is |-> "allowlist", version |-> v].is # "stop"
                                       /\ [is |-> "allowlist", version |-> v].version = v
    BY DEF Orders
  <2>a. networks \in 1 .. Len(Admits) /\ Len(Admits) \in Nat
        /\ mishaps \in [IngestFaultClasses -> Nat] /\ (main = "up" => ~closing) /\ closing \in BOOLEAN
    BY SMTT(60), IngestConstants DEF IngestInv, Typed, IngestTypeOK, Ordered
  <2>1. CASE SetAllowlist
    <3>1. /\ networks' = networks + 1 /\ networks' \in 1 .. Len(Admits)
          /\ PipeSend([is |-> "allowlist", version |-> networks'])
          /\ UNCHANGED <<main, closing, mishaps>> /\ main = "up"
      BY <2>1, <2>a DEF SetAllowlist
    <3> QED
      BY <2>0, <2>1, <2>a, <3>1 DEF SetAllowlist, Calm, IngestSuffered
  <2>2. CASE Close
    <3>1. PipeSend([is |-> "stop"]) /\ UNCHANGED mishaps
      BY <2>2 DEF Close
    <3> QED
      BY <2>0, <2>2, <2>a, <3>1 DEF Close, Calm, IngestSuffered
  <2>3. CASE StartTimesOut
    <3>1. mishaps' \in [IngestFaultClasses -> Nat] /\ (Calm' => Calm) /\ PipeSend([is |-> "stop"])
      BY <2>3, Mishap DEF StartTimesOut, IngestInv, IngestFaultClasses
    <3> QED
      BY <2>0, <2>3, <2>a, <3>1 DEF StartTimesOut
  <2> QED
    BY <2>1, <2>2, <2>3
<1>2. PICK m \in Orders : /\ PipeSend(m)
                         /\ IF m.is = "stop" THEN closing' ELSE m.version = networks' /\ main' = "up"
  BY <1>1
<1>3. /\ control' \in Seq(Orders)
      /\ \A i \in DOMAIN control' : control'[i] = m \/ (i \in DOMAIN control /\ control'[i] = control[i])
      /\ worker # "gone" => control' # <<>> /\ control'[Len(control')] = m
  BY <1>2, OrderSent
<1>4. Typed'
  BY SMTT(60), <1>1, <1>3 DEF IngestInv, Typed, IngestTypeOK, workerVars
<1>5. Durable' /\ Lifecycle'
  BY <1>1 DEF IngestInv, Durable, Lifecycle, workerVars
<1>6. Ordered'
  BY <1>1, <1>2, <1>3 DEF IngestInv, Ordered, workerVars
<1>7. Settled'
  <2> SUFFICES ASSUME Calm PROVE Settled'
    BY <1>1 DEF Settled
  <2>1. worker # "gone"
    BY <1>1 DEF IngestInv, Settled, LastNotice, Ordered
  <2> QED
    BY <1>1, <2>1 DEF IngestInv, Settled, Accounted, Announced, LastNotice, workerVars
<1> QED
  BY <1>4, <1>5, <1>6, <1>7 DEF IngestInv

(* close() returns when the worker is gone and everything it said is heard.*)
LEMMA WaitClosedKeeps ==
    ASSUME IngestInv, WaitClosed
    PROVE  IngestInv'
<1>1. /\ main = "closing" /\ worker = "gone" /\ ~reading /\ callbacks = <<>> /\ main' = "closed"
      /\ UNCHANGED <<sent, kernel, held, workerVars, pipeVars, mishaps>>
      /\ UNCHANGED <<ready, closing, open, timer, networks, base, child, head>>
  BY DEF WaitClosed, ReaderJoined
<1>2. Typed' /\ Durable' /\ Lifecycle' /\ Ordered'
  BY <1>1 DEF IngestInv, Typed, IngestTypeOK, Durable, Lifecycle, Ordered, workerVars, pipeVars
<1>3. Settled'
  BY <1>1 DEF IngestInv, Settled, Calm, IngestSuffered, Accounted, Announced, LastNotice,
     workerVars, pipeVars
<1> QED
  BY <1>2, <1>3 DEF IngestInv

LEMMA IngestStays ==
    ASSUME IngestInv, [IngestNext]_ingestVars
    PROVE  IngestInv'
<1>1. CASE IngestNext
  BY <1>1, ArriveKeeps, WorkerReadyKeeps, ReceiveKeeps, ControlKeeps, ReportKeeps, FlushKeeps,
     WorkerExitKeeps, SpoolGroupKeeps, SpoolNoticeKeeps, DeathKeeps, ReadEventKeeps, ReadEndKeeps,
     CallbackKeeps, EndKeeps, RespawnKeeps, SpawnFailsKeeps, StartedKeeps, OrderKeeps, WaitClosedKeeps
     DEF IngestNext, ReceiveStep, SpoolStep, ReaderStep, LoopStep, AdminStep, FaultStep
<1>2. CASE UNCHANGED ingestVars
  <2>1. UNCHANGED <<sent, kernel, held, worker, budget, version, counters, outbox, writing, gaveUp, spool>>
        /\ UNCHANGED <<events, control, reading, callbacks, main, ready, closing, open, timer>>
        /\ UNCHANGED <<networks, base, child, head, mishaps>>
    BY <1>2 DEF ingestVars
  <2>2. Typed' /\ Durable' /\ Lifecycle' /\ Ordered'
    BY <2>1 DEF IngestInv, Typed, IngestTypeOK, Durable, Lifecycle, Ordered
  <2>3. Settled'
    BY <2>1 DEF IngestInv, Settled, Calm, IngestSuffered, Accounted, Announced, LastNotice
  <2> QED
    BY <2>2, <2>3 DEF IngestInv
<1> QED
  BY <1>1, <1>2

(* What the socket held at the stop is read before the worker ends, when   *)
(* one burst is as much as the socket holds.                               *)
LEMMA EmptiedStays ==
    ASSUME IngestInv, Emptied, Socket <= Burst, [IngestNext]_ingestVars
    PROVE  Emptied'
<1>1. /\ kernel \in Seq(Data) /\ Len(kernel) \in Nat /\ DOMAIN kernel = 1 .. Len(kernel)
      /\ Socket \in Nat /\ Burst \in Nat /\ budget \in Nat /\ sent \in Nat
  BY IngestConstants DEF IngestInv, Typed, IngestTypeOK
<1>2. CASE Arrive
  <2>1. /\ sent' = sent + 1 /\ UNCHANGED <<held, worker, budget>>
        /\ \/ kernel' = kernel
           \/ Len(kernel) < Socket /\ kernel' = Append(kernel, sent + 1)
    BY <1>2 DEF Arrive, workerVars
  <2>2. sent + 1 \notin held /\ held \subseteq 1 .. sent + 1
    BY <1>1 DEF Emptied
  <2>3. CASE kernel' = kernel
    BY <1>1, <2>1, <2>2, <2>3 DEF Emptied
  <2>4. CASE Len(kernel) < Socket /\ kernel' = Append(kernel, sent + 1)
    <3>1. sent + 1 \in Data
      BY <1>1, <1>2, IngestConstants DEF Arrive, Data
    <3>2. /\ Len(kernel') = Len(kernel) + 1
          /\ \A i \in DOMAIN kernel' : i \in DOMAIN kernel \/ i = Len(kernel) + 1
          /\ \A i \in DOMAIN kernel : kernel'[i] = kernel[i]
          /\ kernel'[Len(kernel) + 1] = sent + 1
      BY <1>1, <2>4, <3>1, Sent
    <3>3. \A i \in DOMAIN kernel' : kernel'[i] \in held => i \in DOMAIN kernel /\ kernel'[i] = kernel[i]
      BY <2>2, <3>2
    <3>4. \A i \in DOMAIN kernel' : kernel'[i] \in 1 .. sent'
      BY <1>1, <2>1, <3>2 DEF Emptied
    <3>5. Len(kernel') <= Socket
      BY <1>1, <2>4, <3>2
    <3>6. held' \subseteq 1 .. sent'
      BY <2>1, <2>2
    <3>7. worker' = "drain" => \A i \in DOMAIN kernel' : kernel'[i] \in held' => i <= budget'
      BY <2>1, <3>3 DEF Emptied
    <3>8. worker' = "flush" => \A i \in DOMAIN kernel' : kernel'[i] \notin held'
      BY <2>1, <3>3 DEF Emptied
    <3> QED
      BY <3>4, <3>5, <3>6, <3>7, <3>8 DEF Emptied
  <2> QED
    BY <2>1, <2>3, <2>4
<1>3. CASE Receive
  <2>1. /\ kernel # <<>> /\ kernel' = Tail(kernel) /\ UNCHANGED <<sent, held, worker>>
        /\ worker \in {"run", "drain"} /\ (worker = "drain" => budget > 0 /\ budget' = budget - 1)
    BY <1>3 DEF Receive
  <2>2. /\ Len(kernel') = Len(kernel) - 1
        /\ \A i \in DOMAIN kernel' : i + 1 \in DOMAIN kernel /\ kernel'[i] = kernel[i + 1] /\ i \in Nat
    BY <1>1, <2>1, Taken
  <2> QED
    BY <1>1, <2>1, <2>2 DEF Emptied
<1>4. CASE Control
  <2>1. /\ worker = "run" /\ UNCHANGED <<sent, kernel>>
        /\ \/ worker' = "drain" /\ budget' = Burst /\ held' = Range(kernel)
           \/ worker' = "run" /\ held' = held
    BY <1>4 DEF Control, LastBurst
  <2>2. Range(kernel) \subseteq 1 .. sent
    BY DEF Emptied, Range
  <2>3. worker' = "drain" => \A i \in DOMAIN kernel : i <= budget'
    BY <1>1, <2>1 DEF Emptied
  <2> QED
    BY <2>1, <2>2, <2>3 DEF Emptied
<1>5. CASE Flush
  <2>1. /\ worker = "drain" /\ (budget = 0 \/ kernel = <<>>) /\ UNCHANGED <<sent, kernel, held>>
        /\ worker' = "flush"
    BY <1>5 DEF Flush
  <2> QED
    BY <1>1, <2>1 DEF Emptied
<1>6. CASE Respawn
  BY <1>6 DEF Respawn, Emptied, workerVars
<1>7. CASE UNCHANGED <<sent, kernel, held, budget>> /\ (worker' = worker \/ worker' \in {"run", "gone"})
  BY <1>7 DEF Emptied
<1> QED
  BY <1>2, <1>3, <1>4, <1>5, <1>6, <1>7 DEF IngestNext, ReceiveStep, SpoolStep, ReaderStep, LoopStep,
     AdminStep, FaultStep, WorkerReady, Report, WorkerExit, SpoolGroup, SpoolNotice, SpoolGivesUp,
     ReadEvent, ReadEnd, Callback, ExitedNotReady, Exited, Started, WaitClosed, SetAllowlist, Close,
     Crash, BootFails, Dies, SpawnFails, StartTimesOut, workerVars, ingestVars

-----------------------------------------------------------------------------
(* The ingest process's variables keep their types: no counter goes below  *)
(* zero, no head is announced that is not durable.                         *)
THEOREM IngestTyped == IngestSpec => []IngestTypeOK
<1>1. IngestInv => IngestTypeOK
  BY DEF IngestInv, Typed
<1> QED
  BY IngestBegins, IngestStays, <1>1, PTL DEF IngestSpec

(* A worker that has read its control pipe applies the allowlist set last, *)
(* also one set while no worker was running: the last order on the pipe is *)
(* the last one set (Ordered).                                             *)
LEMMA AllowlistFollows == IngestInv => AllowlistApplied
  BY DEF IngestInv, Ordered, AllowlistApplied

THEOREM LatestAllowlist == IngestSpec => []AllowlistApplied
  BY IngestBegins, IngestStays, AllowlistFollows, PTL DEF IngestSpec

(* At the end of a shutdown without a crash the main process knows every   *)
(* record that is durable, every datagram read is counted as denied,       *)
(* spooled or dropped, and nothing the socket held at the stop is left in  *)
(* it: when one burst is as much as the socket holds.                      *)
THEOREM NothingUnknown ==
    ASSUME Socket <= Burst
    PROVE  IngestSpec => []ClosedKnowsAll
<1>1. IngestInit => Emptied
  BY IngestConstants DEF IngestInit, Emptied
<1>2. IngestInv /\ Emptied => ClosedKnowsAll
  <2> SUFFICES ASSUME IngestInv, Emptied PROVE ClosedKnowsAll
    OBVIOUS
  <2>1. worker = "flush" => held \cap Range(kernel) = {}
    BY DEF Emptied, Range
  <2>2. ASSUME main = "closed", Calm
        PROVE  /\ head = spool
               /\ stats["received"] = stats["denied"] + stats["spooled"] + stats["dropped"]
               /\ stats["spooled"] = spool
    <3>1. worker = "gone" /\ events = <<>> /\ callbacks = <<>> /\ writing = 0
      BY <2>2 DEF IngestInv, Lifecycle
    <3>2. base = Zero /\ Accounted /\ Announced /\ LastNotice
      BY <2>2 DEF IngestInv, Settled
    <3>3. DOMAIN events = {} /\ DOMAIN callbacks = {}
      BY <3>1, Fields DEF IngestInv
    <3>4. head = spool /\ child = counters
      BY <3>1, <3>2, <3>3 DEF Announced, LastNotice
    <3>5. \A c \in Counters : stats[c] = counters[c]
      BY <3>2, <3>4, Fields DEF stats, Plus, Zero, IngestInv
    <3>6. \A c \in Counters : counters[c] \in Nat
      BY Fields DEF IngestInv
    <3> QED
      BY <3>1, <3>2, <3>4, <3>5, <3>6 DEF Accounted, Counters
  <2> QED
    BY <2>1, <2>2 DEF ClosedKnowsAll, Calm
<1>3. IngestInv /\ Emptied /\ [IngestNext]_ingestVars => Emptied'
  BY EmptiedStays
<1> QED
  BY IngestBegins, IngestStays, <1>1, <1>2, <1>3, PTL DEF IngestSpec

-----------------------------------------------------------------------------
(* The decoder *)

Requests == [ask : Seq(Recs)] \cup [policy : 0 .. MaxPolicy]
Replies == [answer : Seq(Recs), accepted : Nat]
Decoders == [alive : BOOLEAN, hung : BOOLEAN, policy : 0 .. MaxPolicy, accepted : Nat,
             requests : Seq(Requests), replies : Seq(Replies)]

Shaped ==
    /\ pos \in Nat /\ out \in [Recs -> Recs \cup {Unreadable, None}]
    /\ pump \in {"idle", "trip", "restart", "dead"} /\ asked \in Seq(Recs) /\ singles \in Seq(Recs)
    /\ threads \in Seq(Thread) /\ mine \in 0 .. Len(threads)
    /\ \A t \in DOMAIN threads : threads[t].boot \in 0 .. MaxPolicy
    /\ procs \in Seq(Decoders) /\ conn \in 0 .. Len(procs)
    /\ counted \in Nat /\ earlier \in Nat /\ policy \in 0 .. MaxPolicy
    /\ faults \in [FaultClasses -> Nat]

(* What is asked is what comes next, then what is to be replayed.          *)
InTurn ==
    /\ \A i \in DOMAIN asked : asked[i] = pos + i
    /\ \A i \in DOMAIN singles : singles[i] = pos + Len(asked) + i
    /\ pos + Len(asked) + Len(singles) <= MaxRec
    /\ IF pump = "idle" THEN asked = <<>> /\ mine = 0 ELSE asked # <<>> /\ mine # 0
    /\ pump = "trip" => threads[mine].batch = asked
    /\ \A t \in DOMAIN threads : threads[t].pc \in {"kill", "fold", "boot", "attach", "done"} =>
          Len(threads[t].answer) = Len(threads[t].batch)

(* The policy set last is on its way to the process that runs, or applied: *)
(* it is the last one in the pipe, the one of a pipe without a change, and *)
(* the one a process is started with.                                      *)
Changes(p) == {i \in DOMAIN procs[p].requests : "policy" \in DOMAIN procs[p].requests[i]}
Fresh(p) ==
    \/ Changes(p) = {} /\ procs[p].policy = policy
    \/ \E i \in Changes(p) : /\ procs[p].requests[i].policy = policy
                             /\ \A j \in Changes(p) : j <= i
Told ==
    ~Suffered("late") =>
        /\ \A t \in DOMAIN threads : threads[t].pc = "attach" => threads[t].boot = policy
        /\ (conn # 0 /\ procs[conn].alive) => Fresh(conn)

(* One round trip or restart at a time, and between two of them nothing    *)
(* asked is in the pipes, and no answer.                                   *)
Undisturbed == ~Suffered("kill") /\ ~Suffered("slow")
Tainted == \E i \in DOMAIN asked : asked[i] \in Poison
Well(p) == Undisturbed => procs[p].alive /\ ~procs[p].hung
Unasked(p) == Changes(p) = DOMAIN procs[p].requests
Quiet(p) == Unasked(p) /\ procs[p].replies = <<>> /\ Well(p)
Answering(p) ==
    \/ /\ \E i \in DOMAIN procs[p].requests : /\ procs[p].requests[i] = [ask |-> asked]
                                              /\ Changes(p) = DOMAIN procs[p].requests \ {i}
       /\ procs[p].replies = <<>> /\ Well(p)
    \/ /\ Unasked(p) /\ Well(p)
       /\ Len(procs[p].replies) = 1 /\ procs[p].replies[1].answer = asked
    \/ /\ Unasked(p) /\ procs[p].replies = <<>>
       /\ Undisturbed => Tainted /\ (procs[p].hung \/ ~procs[p].alive)

OneLane ==
    /\ \A t \in DOMAIN threads : t # mine => threads[t].pc \in {"done", "failed", "raised"}
    /\ pump = "idle" => conn # 0 /\ Quiet(conn)
    /\ pump = "trip" =>
          /\ conn # 0
          /\ threads[mine].pc \in {"send", "poll", "recv", "done", "failed"}
          /\ threads[mine].pc = "send" => Quiet(conn)
          /\ threads[mine].pc \in {"poll", "recv"} => Answering(conn)
          /\ threads[mine].pc = "done" => Quiet(conn) /\ threads[mine].answer = asked
          /\ threads[mine].pc = "failed" => (Undisturbed => Tainted)
    /\ pump = "restart" =>
          /\ threads[mine].pc \in {"kill", "fold", "boot", "attach", "done", "raised"}
          /\ threads[mine].pc = "done" => conn # 0 /\ Quiet(conn)
          /\ Undisturbed => Tainted
    /\ pump = "dead" => threads[mine].pc = "raised"

Innocent == Undisturbed => \A r \in 1 .. pos : out[r] = Unreadable => r \in Poison

DecoderInv ==
    /\ Shaped /\ InTurn /\ Told
    /\ ~Suffered("cancel") => OneLane /\ OwnAnswer /\ Innocent

-----------------------------------------------------------------------------
(* What the parts of a step do.                                            *)
PCs == {"send", "poll", "recv", "kill", "fold", "boot", "attach", "done", "failed", "raised"}

LEMMA DecoderFields ==
    ASSUME Shaped
    PROVE  /\ DOMAIN threads = 1 .. Len(threads) /\ Len(threads) \in Nat
           /\ DOMAIN procs = 1 .. Len(procs) /\ Len(procs) \in Nat
           /\ \A t \in DOMAIN threads : threads[t] \in Thread
           /\ \A t \in DOMAIN threads : threads[t].batch \in Seq(Recs) /\ threads[t].answer \in Seq(Recs)
                                        /\ threads[t].pc \in PCs
           /\ \A p \in DOMAIN procs : procs[p] \in Decoders
           /\ conn # 0 => conn \in DOMAIN procs
           /\ DOMAIN asked = 1 .. Len(asked) /\ Len(asked) \in Nat
           /\ DOMAIN singles = 1 .. Len(singles) /\ Len(singles) \in Nat
           /\ mine # 0 => mine \in DOMAIN threads
<1>1. \A t \in DOMAIN threads : threads[t] \in Thread
  BY DEF Shaped
<1>2. \A t \in DOMAIN threads : threads[t].batch \in Seq(Recs) /\ threads[t].answer \in Seq(Recs)
                                /\ threads[t].pc \in PCs
  BY <1>1 DEF Thread, PCs
<1> QED
  BY <1>1, <1>2 DEF Shaped

LEMMA GoneTo ==
    ASSUME Shaped, NEW t \in DOMAIN threads, NEW pc \in PCs, Goto(t, pc)
    PROVE  /\ threads' \in Seq(Thread) /\ Len(threads') = Len(threads) /\ DOMAIN threads' = DOMAIN threads
           /\ \A u \in DOMAIN threads : u # t => threads'[u] = threads[u]
           /\ \A u \in DOMAIN threads : /\ threads'[u].batch = threads[u].batch
                                        /\ threads'[u].answer = threads[u].answer
                                        /\ threads'[u].boot = threads[u].boot
           /\ threads'[t].pc = pc
<1>1. threads' = [threads EXCEPT ![t] = [threads[t] EXCEPT !.pc = pc]]
  BY DEF Goto
<1>2. threads[t] \in Thread
  BY DecoderFields
<1>3. [threads[t] EXCEPT !.pc = pc] \in Thread
  BY <1>2 DEF Thread, PCs
<1>4. threads \in Seq(Thread)
  BY DEF Shaped
<1>5. threads' \in Seq(Thread) /\ Len(threads') = Len(threads) /\ DOMAIN threads' = DOMAIN threads
      /\ threads'[t] = [threads[t] EXCEPT !.pc = pc]
      /\ \A u \in DOMAIN threads : u # t => threads'[u] = threads[u]
  BY <1>1, <1>3, <1>4
<1>6. /\ threads'[t].batch = threads[t].batch /\ threads'[t].answer = threads[t].answer
      /\ threads'[t].boot = threads[t].boot /\ threads'[t].pc = pc
  BY <1>2, <1>5 DEF Thread
<1> QED
  BY <1>5, <1>6

LEMMA Awaited ==
    ASSUME Shaped, NEW kind \in {"trip", "restart"}, NEW batch \in Seq(Recs), Await(kind, batch)
    PROVE  /\ threads' \in Seq(Thread) /\ Len(threads') = Len(threads) + 1
           /\ mine' = Len(threads) + 1 /\ mine' \in DOMAIN threads' /\ mine' # 0 /\ pump' = kind
           /\ \A u \in DOMAIN threads' : u # mine' => u \in DOMAIN threads /\ threads'[u] = threads[u]
           /\ threads'[mine'].batch = batch /\ threads'[mine'].boot = 0
           /\ threads'[mine'].pc = IF kind = "trip" THEN "send" ELSE "kill"
<1> DEFINE new == NewThread(kind, batch)
<1>1. new \in Thread /\ new.batch = batch /\ new.boot = 0
      /\ new.pc = IF kind = "trip" THEN "send" ELSE "kill"
  BY DEF NewThread, Thread
<1>2. threads' = Append(threads, new) /\ mine' = Len(threads) + 1 /\ pump' = kind
  BY DEF Await
<1> HIDE DEF new
<1>3. threads \in Seq(Thread)
  BY DEF Shaped
<1>4. /\ threads' \in Seq(Thread) /\ Len(threads') = Len(threads) + 1
      /\ DOMAIN threads' = 1 .. Len(threads) + 1 /\ Len(threads) \in Nat
      /\ threads'[Len(threads) + 1] = new
      /\ \A u \in DOMAIN threads : threads'[u] = threads[u]
      /\ \A u \in DOMAIN threads' : u \in DOMAIN threads \/ u = Len(threads) + 1
  BY <1>1, <1>2, <1>3, Sent
<1> QED
  BY <1>1, <1>2, <1>4

LEMMA Disturbed ==
    ASSUME Shaped, NEW class \in FaultClasses, Fault(class)
    PROVE  /\ faults' \in [FaultClasses -> Nat] /\ Suffered(class)'
           /\ \A c \in FaultClasses : Suffered(c) => Suffered(c)'
<1>1. faults' = [c \in FaultClasses |-> IF c = class THEN faults[c] + 1 ELSE faults[c]]
      /\ faults \in [FaultClasses -> Nat]
  BY DEF Shaped, Fault
<1>2. \A c \in FaultClasses : faults'[c] \in Nat /\ faults'[c] >= faults[c]
  BY <1>1
<1>3. faults'[class] > 0 /\ \A c \in FaultClasses : faults[c] > 0 => faults'[c] > 0
  BY <1>1, <1>2
<1> QED
  BY <1>1, <1>2, <1>3 DEF Suffered

(* A process and its pipes, of which one field changes.                    *)
LEMMA Replaced ==
    ASSUME Shaped, NEW p \in DOMAIN procs, NEW new \in Decoders, procs' = [procs EXCEPT ![p] = new]
    PROVE  /\ procs' \in Seq(Decoders) /\ Len(procs') = Len(procs) /\ DOMAIN procs' = DOMAIN procs
           /\ procs'[p] = new /\ \A q \in DOMAIN procs : q # p => procs'[q] = procs[q]
  BY DEF Shaped

(* A request joins a pipe.                                                 *)
LEMMA Requested ==
    ASSUME Shaped, NEW p \in DOMAIN procs, NEW m \in Requests,
           procs' = [procs EXCEPT ![p].requests = Append(@, m)]
    PROVE  /\ procs' \in Seq(Decoders) /\ Len(procs') = Len(procs) /\ DOMAIN procs' = DOMAIN procs
           /\ \A q \in DOMAIN procs : q # p => procs'[q] = procs[q]
           /\ procs'[p].alive = procs[p].alive /\ procs'[p].hung = procs[p].hung
           /\ procs'[p].policy = procs[p].policy /\ procs'[p].replies = procs[p].replies
           /\ procs[p].requests \in Seq(Requests) /\ procs'[p].requests = Append(procs[p].requests, m)
<1> DEFINE new == [procs[p] EXCEPT !.requests = Append(@, m)]
<1>1. procs[p] \in Decoders
  BY DecoderFields
<1>2. procs[p].requests \in Seq(Requests) /\ Append(procs[p].requests, m) \in Seq(Requests)
  BY <1>1 DEF Decoders
<1>3. /\ new \in Decoders /\ new.alive = procs[p].alive /\ new.hung = procs[p].hung
      /\ new.policy = procs[p].policy /\ new.replies = procs[p].replies
      /\ new.requests = Append(procs[p].requests, m)
  BY <1>1, <1>2 DEF Decoders
<1>4. procs' = [procs EXCEPT ![p] = new]
  OBVIOUS
<1> HIDE DEF new
<1> QED
  BY <1>2, <1>3, <1>4, Replaced

(* A process ends.                                                         *)
LEMMA Killed ==
    ASSUME Shaped, NEW p \in DOMAIN procs, procs' = [procs EXCEPT ![p].alive = FALSE]
    PROVE  /\ procs' \in Seq(Decoders) /\ Len(procs') = Len(procs) /\ DOMAIN procs' = DOMAIN procs
           /\ \A q \in DOMAIN procs : q # p => procs'[q] = procs[q]
           /\ procs'[p].alive = FALSE /\ procs'[p].hung = procs[p].hung
           /\ procs'[p].requests = procs[p].requests /\ procs'[p].replies = procs[p].replies
<1> DEFINE new == [procs[p] EXCEPT !.alive = FALSE]
<1>1. procs[p] \in Decoders
  BY DecoderFields
<1>2. /\ new \in Decoders /\ new.alive = FALSE /\ new.hung = procs[p].hung
      /\ new.requests = procs[p].requests /\ new.replies = procs[p].replies
  BY <1>1 DEF Decoders
<1>3. procs' = [procs EXCEPT ![p] = new]
  OBVIOUS
<1> HIDE DEF new
<1> QED
  BY <1>2, <1>3, Replaced

(* A process takes its oldest request: it applies a policy, answers a      *)
(* batch, or ends or hangs at a datagram of it.                            *)
LEMMA Served ==
    ASSUME Shaped, NEW p \in DOMAIN procs, Serve(p)
    PROVE  /\ procs' \in Seq(Decoders) /\ Len(procs') = Len(procs) /\ DOMAIN procs' = DOMAIN procs
           /\ \A q \in DOMAIN procs : q # p => procs'[q] = procs[q]
           /\ procs[p].alive /\ ~procs[p].hung
           /\ procs[p].requests \in Seq(Requests) /\ procs[p].requests # <<>>
           /\ procs'[p].requests = Tail(procs[p].requests)
           /\ \/ /\ procs[p].requests[1] \in [policy : 0 .. MaxPolicy]
                 /\ procs'[p].policy = procs[p].requests[1].policy
                 /\ UNCHANGED <<procs[p].alive, procs[p].hung, procs[p].replies>>
              \/ /\ procs[p].requests[1] \in [ask : Seq(Recs)]
                 /\ procs'[p].policy = procs[p].policy
                 /\ \/ /\ UNCHANGED <<procs[p].alive, procs[p].hung>>
                       /\ \E n \in Nat :
                             procs'[p].replies = Append(procs[p].replies,
                                                        [answer |-> procs[p].requests[1].ask, accepted |-> n])
                    \/ /\ \E i \in DOMAIN procs[p].requests[1].ask : procs[p].requests[1].ask[i] \in Poison
                       /\ procs'[p].hung \/ ~procs'[p].alive
                       /\ UNCHANGED <<procs[p].replies>>
<1> DEFINE message == Head(procs[p].requests)
           rest == [procs[p] EXCEPT !.requests = Tail(@)]
           bad == {i \in DOMAIN message.ask : message.ask[i] \in Poison}
           total == procs[p].accepted + Len(message.ask)
           reply == [answer |-> message.ask, accepted |-> total]
<1>1. procs[p] \in Decoders /\ procs[p].requests \in Seq(Requests) /\ procs[p].replies \in Seq(Replies)
      /\ procs[p].accepted \in Nat
  BY DecoderFields DEF Decoders
<1>2. procs[p].alive /\ ~procs[p].hung /\ procs[p].requests # <<>>
  BY DEF Serve
<1>3. message \in Requests /\ message = procs[p].requests[1] /\ Tail(procs[p].requests) \in Seq(Requests)
  BY <1>1, <1>2, Taken
<1>4. /\ rest \in Decoders /\ rest.alive = procs[p].alive /\ rest.hung = procs[p].hung
      /\ rest.policy = procs[p].policy /\ rest.accepted = procs[p].accepted
      /\ rest.requests = Tail(procs[p].requests) /\ rest.replies = procs[p].replies
  BY <1>1, <1>3 DEF Decoders
<1>5. PICK next : /\ procs' = [procs EXCEPT ![p] = next]
                  /\ next = IF "policy" \in DOMAIN message THEN [rest EXCEPT !.policy = message.policy]
                            ELSE IF bad = {}
                                 THEN [rest EXCEPT !.accepted = total, !.replies = Append(@, reply)]
                            ELSE IF message.ask[CHOOSE i \in bad : \A j \in bad : i <= j] \in Crashers
                                 THEN [rest EXCEPT !.alive = FALSE]
                            ELSE [rest EXCEPT !.hung = TRUE]
  BY ZenonT(60) DEF Serve, DecodeBatch
<1> HIDE DEF rest
<1>6. CASE message \in [policy : 0 .. MaxPolicy]
  <2>1. "policy" \in DOMAIN message /\ message.policy \in 0 .. MaxPolicy
    BY <1>6
  <2>2. next = [rest EXCEPT !.policy = message.policy]
    BY <1>5, <2>1
  <2>3. /\ next \in Decoders /\ next.alive = rest.alive /\ next.hung = rest.hung
        /\ next.policy = message.policy /\ next.requests = rest.requests /\ next.replies = rest.replies
    BY <1>4, <2>1, <2>2 DEF Decoders
  <2> HIDE DEF message
  <2> QED
    BY ZenonT(60), <1>1, <1>2, <1>3, <1>4, <1>5, <1>6, <2>3, Replaced
<1>7. CASE message \in [ask : Seq(Recs)]
  <2>1. "policy" \notin DOMAIN message /\ message.ask \in Seq(Recs)
    BY <1>7
  <2>2. CASE bad = {}
    <3>1. /\ total \in Nat /\ reply \in Replies
          /\ reply = [answer |-> procs[p].requests[1].ask, accepted |-> total]
      BY <1>1, <1>3, <2>1 DEF Replies
    <3>2. next = [rest EXCEPT !.accepted = total, !.replies = Append(@, reply)]
      BY <1>5, <2>1, <2>2
    <3> HIDE DEF bad, total, reply, message
    <3>3. Append(procs[p].replies, reply) \in Seq(Replies)
      BY <1>1, <3>1
    <3>4. /\ next \in Decoders /\ next.alive = rest.alive /\ next.hung = rest.hung
          /\ next.policy = rest.policy /\ next.requests = rest.requests
          /\ next.replies = Append(procs[p].replies, reply)
      BY <1>4, <3>1, <3>2, <3>3 DEF Decoders
    <3>5. /\ procs' \in Seq(Decoders) /\ Len(procs') = Len(procs) /\ DOMAIN procs' = DOMAIN procs
          /\ procs'[p] = next /\ \A q \in DOMAIN procs : q # p => procs'[q] = procs[q]
      BY <1>5, <3>4, Replaced
    <3>6. \E n \in Nat : procs'[p].replies =
              Append(procs[p].replies, [answer |-> procs[p].requests[1].ask, accepted |-> n])
      BY <3>1, <3>4, <3>5
    <3> QED
      BY <1>1, <1>2, <1>3, <1>4, <1>7, <3>4, <3>5, <3>6
  <2>3. CASE bad # {}
    <3>1. \E i \in DOMAIN message.ask : message.ask[i] \in Poison
      BY <2>3
    <3>2. next = [rest EXCEPT !.alive = FALSE] \/ next = [rest EXCEPT !.hung = TRUE]
      BY <1>5, <2>1, <2>3
    <3> HIDE DEF bad, message
    <3>3. /\ next \in Decoders /\ (next.hung \/ ~next.alive)
          /\ next.policy = rest.policy /\ next.requests = rest.requests /\ next.replies = rest.replies
      BY <1>4, <3>2 DEF Decoders
    <3> QED
      BY <1>1, <1>2, <1>3, <1>4, <1>5, <1>7, <3>1, <3>3, Replaced
  <2> QED
    BY <2>2, <2>3
<1> QED
  BY <1>3, <1>6, <1>7 DEF Requests

(* An answer leaves a pipe.                                                *)
LEMMA Received ==
    ASSUME Shaped, NEW p \in DOMAIN procs, procs[p].replies # <<>>,
           procs' = [procs EXCEPT ![p].replies = Tail(@)]
    PROVE  /\ procs' \in Seq(Decoders) /\ Len(procs') = Len(procs) /\ DOMAIN procs' = DOMAIN procs
           /\ \A q \in DOMAIN procs : q # p => procs'[q] = procs[q]
           /\ procs'[p].alive = procs[p].alive /\ procs'[p].hung = procs[p].hung
           /\ procs'[p].policy = procs[p].policy /\ procs'[p].requests = procs[p].requests
           /\ procs'[p].replies = Tail(procs[p].replies)
           /\ procs[p].replies \in Seq(Replies) /\ Head(procs[p].replies) = procs[p].replies[1]
           /\ Head(procs[p].replies) \in Replies
<1> DEFINE new == [procs[p] EXCEPT !.replies = Tail(@)]
<1>1. procs[p] \in Decoders /\ procs[p].replies \in Seq(Replies)
  BY DecoderFields DEF Decoders
<1>2. /\ Tail(procs[p].replies) \in Seq(Replies) /\ Head(procs[p].replies) = procs[p].replies[1]
      /\ Head(procs[p].replies) \in Replies
  BY <1>1, Taken
<1>3. /\ new \in Decoders /\ new.alive = procs[p].alive /\ new.hung = procs[p].hung
      /\ new.policy = procs[p].policy /\ new.requests = procs[p].requests
      /\ new.replies = Tail(procs[p].replies)
  BY <1>1, <1>2 DEF Decoders
<1>4. procs' = [procs EXCEPT ![p] = new]
  OBVIOUS
<1> HIDE DEF new
<1> QED
  BY <1>1, <1>2, <1>3, <1>4, Replaced

(* A step of a thread moves that thread along, and decode() waits.         *)
LEMMA ThreadMoves ==
    ASSUME Shaped, NEW t \in DOMAIN threads, Trip(t) \/ Restart(t)
    PROVE  /\ UNCHANGED <<pumpVars, policy>>
           /\ threads' \in Seq(Thread) /\ Len(threads') = Len(threads) /\ DOMAIN threads' = DOMAIN threads
           /\ \A u \in DOMAIN threads : u # t => threads'[u] = threads[u]
           /\ threads'[t].batch = threads[t].batch
           /\ threads'[t].boot \in 0 .. MaxPolicy
           /\ threads'[t].pc = "attach" => threads'[t].boot = policy
           /\ threads'[t].pc \in {"kill", "fold", "boot", "attach", "done"} =>
                 \/ Len(threads'[t].answer) = Len(threads'[t].batch)
                 \/ /\ threads[t].pc \in {"kill", "fold", "boot", "attach"}
                    /\ threads'[t].answer = threads[t].answer
           /\ faults' \in [FaultClasses -> Nat] /\ \A c \in FaultClasses : Suffered(c) => Suffered(c)'
<1>1. threads[t] \in Thread /\ threads[t].boot \in 0 .. MaxPolicy /\ policy \in 0 .. MaxPolicy
      /\ faults \in [FaultClasses -> Nat] /\ threads \in Seq(Thread)
  BY DecoderFields DEF Shaped
<1>2. CASE UNCHANGED <<pumpVars, policy, faults>> /\
           \E pc \in PCs : Goto(t, pc) /\ pc # "attach" /\ (pc \in {"kill", "fold", "boot", "done"} =>
                                                threads[t].pc \in {"kill", "fold", "boot", "attach"})
  <2>1. PICK pc \in PCs : Goto(t, pc) /\ pc # "attach" /\ (pc \in {"kill", "fold", "boot", "done"} =>
                                               threads[t].pc \in {"kill", "fold", "boot", "attach"})
    BY <1>2
  <2>2. /\ threads' \in Seq(Thread) /\ Len(threads') = Len(threads) /\ DOMAIN threads' = DOMAIN threads
        /\ \A u \in DOMAIN threads : u # t => threads'[u] = threads[u]
        /\ threads'[t].batch = threads[t].batch /\ threads'[t].boot = threads[t].boot
        /\ threads'[t].answer = threads[t].answer /\ threads'[t].pc = pc
    BY <2>1, GoneTo
  <2>3. \A c \in FaultClasses : Suffered(c) => Suffered(c)'
    BY <1>2 DEF Suffered
  <2> QED
    BY <1>1, <1>2, <2>1, <2>2, <2>3
<1>3. ASSUME UNCHANGED <<pumpVars, policy>>, NEW pc \in {"failed", "raised"}, Goto(t, pc),
             NEW class \in FaultClasses, Fault(class)
      PROVE  /\ UNCHANGED <<pumpVars, policy>>
             /\ threads' \in Seq(Thread) /\ Len(threads') = Len(threads) /\ DOMAIN threads' = DOMAIN threads
             /\ \A u \in DOMAIN threads : u # t => threads'[u] = threads[u]
             /\ threads'[t].batch = threads[t].batch
             /\ threads'[t].boot = threads[t].boot /\ threads'[t].pc \in {"failed", "raised"}
             /\ faults' \in [FaultClasses -> Nat] /\ \A c \in FaultClasses : Suffered(c) => Suffered(c)'
  <2>1. pc \in PCs
    BY DEF PCs
  <2>2. /\ threads' \in Seq(Thread) /\ Len(threads') = Len(threads) /\ DOMAIN threads' = DOMAIN threads
        /\ \A u \in DOMAIN threads : u # t => threads'[u] = threads[u]
        /\ threads'[t].batch = threads[t].batch /\ threads'[t].boot = threads[t].boot
        /\ threads'[t].pc = pc
    BY <1>3, <2>1, GoneTo
  <2>3. faults' \in [FaultClasses -> Nat] /\ \A c \in FaultClasses : Suffered(c) => Suffered(c)'
    BY <1>3, Disturbed
  <2> QED
    BY <1>3, <2>2, <2>3
<1>4. CASE Send(t) \/ Poll(t) \/ KillOld(t) \/ Fold(t)
  BY <1>2, <1>4 DEF Send, Poll, KillOld, Fold, PCs
<1>5. CASE Attach(t)
  BY <1>2, <1>5 DEF Attach, PCs
<1>6. CASE TimesOut(t)
  <2>1. CASE UNCHANGED faults
    BY <1>2, <1>6, <2>1 DEF TimesOut, PCs
  <2>2. CASE Fault("slow")
    BY <1>1, <1>3, <1>6, <2>2 DEF TimesOut, FaultClasses
  <2> QED
    BY <1>6, <2>1, <2>2 DEF TimesOut
<1>7. CASE ForkFails(t)
  BY <1>1, <1>3, <1>7 DEF ForkFails, FaultClasses
<1>8. CASE Recv(t)
  <2>1. CASE Goto(t, "raised") \/ Goto(t, "failed")
    BY <1>2, <1>8, <2>1 DEF Recv, PCs
  <2>2. CASE ~ (Goto(t, "raised") \/ Goto(t, "failed"))
    <3>1. /\ conn # 0 /\ procs[conn].replies # <<>>
          /\ procs' = [procs EXCEPT ![conn].replies = Tail(@)]
          /\ Len(Head(procs[conn].replies).answer) = Len(threads[t].batch)
          /\ threads' = [threads EXCEPT ![t].pc = "done", ![t].answer = Head(procs[conn].replies).answer]
          /\ UNCHANGED <<pumpVars, policy, faults>>
      BY <1>8, <2>2 DEF Recv, Matches
    <3>2. Head(procs[conn].replies).answer \in Seq(Recs)
      BY <3>1, Received, DecoderFields DEF Replies
    <3> DEFINE new == [threads[t] EXCEPT !.pc = "done", !.answer = Head(procs[conn].replies).answer]
    <3>3. /\ new \in Thread /\ new.pc = "done" /\ new.batch = threads[t].batch /\ new.boot = threads[t].boot
          /\ new.answer = Head(procs[conn].replies).answer
      BY <1>1, <3>2 DEF Thread
    <3>4. threads' = [threads EXCEPT ![t] = new]
      BY <3>1
    <3> HIDE DEF new
    <3>5. threads' \in Seq(Thread) /\ Len(threads') = Len(threads) /\ DOMAIN threads' = DOMAIN threads
          /\ threads'[t] = new /\ \A u \in DOMAIN threads : u # t => threads'[u] = threads[u]
      BY <1>1, <3>3, <3>4
    <3>6. \A c \in FaultClasses : Suffered(c) => Suffered(c)'
      BY <3>1 DEF Suffered
    <3> QED
      BY <1>1, <3>1, <3>3, <3>5, <3>6
  <2> QED
    BY <2>1, <2>2
<1>9. CASE Boot(t)
  <2>1. /\ threads' = [threads EXCEPT ![t].pc = "attach", ![t].boot = policy] /\ threads[t].pc = "boot"
        /\ UNCHANGED <<pumpVars, policy, faults>>
    BY <1>9 DEF Boot, BootPolicy
  <2> DEFINE new == [threads[t] EXCEPT !.pc = "attach", !.boot = policy]
  <2>2. /\ new \in Thread /\ new.pc = "attach" /\ new.batch = threads[t].batch /\ new.boot = policy
        /\ new.answer = threads[t].answer
    <3>1. policy \in Nat
      BY <1>1, DecoderConstants
    <3> QED
      BY <1>1, <3>1 DEF Thread
  <2>3. threads' = [threads EXCEPT ![t] = new]
    BY <2>1
  <2> HIDE DEF new
  <2>4. threads' \in Seq(Thread) /\ Len(threads') = Len(threads) /\ DOMAIN threads' = DOMAIN threads
        /\ threads'[t] = new /\ \A u \in DOMAIN threads : u # t => threads'[u] = threads[u]
    BY <1>1, <2>2, <2>3
  <2>5. \A c \in FaultClasses : Suffered(c) => Suffered(c)'
    BY <2>1 DEF Suffered
  <2> QED
    BY <1>1, <2>1, <2>2, <2>4, <2>5
<1> QED
  BY <1>4, <1>5, <1>6, <1>7, <1>8, <1>9 DEF Trip, Restart

-----------------------------------------------------------------------------
(* The shapes of things, and the order in which records are asked.         *)
LEMMA DecoderBegins == Init => DecoderInv
<1> SUFFICES ASSUME Init PROVE DecoderInv
  OBVIOUS
<1>1. NewProcess(0) = [alive |-> TRUE, hung |-> FALSE, policy |-> 0, accepted |-> 0,
                       requests |-> <<>>, replies |-> <<>>]
  BY DEF NewProcess
<1>2. NewProcess(0) \in Decoders
  <2>1. 0 \in 0 .. MaxPolicy
    BY DecoderConstants
  <2>2. <<>> \in Seq(Requests) /\ <<>> \in Seq(Replies)
    OBVIOUS
  <2> QED
    BY <2>1, <2>2 DEF NewProcess, Decoders
<1>3. procs \in Seq(Decoders) /\ Len(procs) = 1 /\ procs[1] = NewProcess(0) /\ conn = 1
  BY <1>2 DEF Init
<1>4. Shaped
  <2>1. [r \in Recs |-> None] \in [Recs -> Recs \cup {Unreadable, None}]
        /\ [c \in FaultClasses |-> 0] \in [FaultClasses -> Nat]
    OBVIOUS
  <2>2. DOMAIN threads = {} /\ threads \in Seq(Thread) /\ Len(threads) = 0
        /\ asked \in Seq(Recs) /\ singles \in Seq(Recs)
    BY DEF Init
  <2> QED
    BY <1>3, <2>1, <2>2, DecoderConstants DEF Init, Shaped
<1>5. InTurn
  BY DecoderConstants DEF Init, InTurn
<1>6. Changes(conn) = {} /\ procs[conn].policy = 0 /\ Quiet(conn) /\ conn # 0
  BY <1>1, <1>3 DEF Changes, Quiet, Unasked, Well
<1>7. Told
  BY <1>6 DEF Init, Told, Fresh
<1>8. OneLane /\ OwnAnswer /\ Innocent
  BY <1>6 DEF Init, OneLane, OwnAnswer, Innocent
<1> QED
  BY <1>4, <1>5, <1>7, <1>8 DEF DecoderInv

LEMMA ThreadsKeepShape ==
    ASSUME Shaped, InTurn, NEW t \in DOMAIN threads, Trip(t) \/ Restart(t)
    PROVE  Shaped' /\ InTurn'
<1>1. /\ UNCHANGED <<pumpVars, policy>>
      /\ threads' \in Seq(Thread) /\ Len(threads') = Len(threads) /\ DOMAIN threads' = DOMAIN threads
      /\ \A u \in DOMAIN threads : u # t => threads'[u] = threads[u]
      /\ threads'[t].batch = threads[t].batch
      /\ threads'[t].boot \in 0 .. MaxPolicy
      /\ threads'[t].pc \in {"kill", "fold", "boot", "attach", "done"} =>
            \/ Len(threads'[t].answer) = Len(threads'[t].batch)
            \/ /\ threads[t].pc \in {"kill", "fold", "boot", "attach"}
               /\ threads'[t].answer = threads[t].answer
      /\ faults' \in [FaultClasses -> Nat]
  BY ThreadMoves
<1>2. InTurn'
  <2>1. \A u \in DOMAIN threads' : threads'[u].pc \in {"kill", "fold", "boot", "attach", "done"} =>
            Len(threads'[u].answer) = Len(threads'[u].batch)
    <3> TAKE u \in DOMAIN threads'
    <3>1. CASE u = t
      BY <1>1, <3>1 DEF InTurn
    <3>2. CASE u # t
      BY <1>1, <3>2 DEF InTurn
    <3> QED
      BY <3>1, <3>2
  <2>2. pump' = "trip" => threads'[mine'].batch = asked'
    BY <1>1, DecoderFields DEF InTurn, pumpVars
  <2> QED
    BY <1>1, <2>1, <2>2 DEF InTurn, pumpVars
<1>3. /\ procs' \in Seq(Decoders) /\ conn' \in 0 .. Len(procs')
      /\ counted' \in Nat /\ earlier' \in Nat
  <2>1. procs \in Seq(Decoders) /\ conn \in 0 .. Len(procs) /\ counted \in Nat /\ earlier \in Nat
        /\ Len(procs) \in Nat /\ (conn # 0 => conn \in DOMAIN procs)
    BY DecoderFields DEF Shaped
  <2>2. CASE UNCHANGED <<procs, conn, countVars>>
    BY <2>1, <2>2 DEF countVars
  <2>3. CASE Send(t)
    <3>1. CASE UNCHANGED procs
      BY <2>1, <2>3, <3>1 DEF Send, countVars
    <3>2. CASE procs' # procs
      <4>1. conn # 0 /\ procs' = [procs EXCEPT ![conn].requests = Append(@, [ask |-> threads[t].batch])]
        BY <2>3, <3>2 DEF Send
      <4>2. [ask |-> threads[t].batch] \in Requests
        BY DecoderFields DEF Requests
      <4>3. procs' \in Seq(Decoders) /\ Len(procs') = Len(procs)
        BY <2>1, <4>1, <4>2, Requested
      <4> QED
        BY <2>1, <2>3, <4>3 DEF Send, countVars
    <3> QED
      BY <3>1, <3>2
  <2>4. CASE Recv(t)
    <3>1. CASE UNCHANGED <<counted, procs>>
      BY <2>1, <2>4, <3>1 DEF Recv
    <3>2. CASE <<counted, procs>>' # <<counted, procs>>
      <4>1. conn # 0 /\ procs[conn].replies # <<>>
            /\ procs' = [procs EXCEPT ![conn].replies = Tail(@)]
            /\ (counted' = counted \/ counted' = Head(procs[conn].replies).accepted)
        BY <2>4, <3>2 DEF Recv
      <4>2. procs' \in Seq(Decoders) /\ Len(procs') = Len(procs) /\ Head(procs[conn].replies) \in Replies
        BY <2>1, <4>1, Received
      <4> QED
        BY <2>1, <2>4, <4>1, <4>2 DEF Recv, Replies
    <3> QED
      BY <3>1, <3>2
  <2>5. CASE KillOld(t)
    <3>1. CASE conn = 0
      BY <2>1, <2>5, <3>1 DEF KillOld, countVars
    <3>2. CASE conn # 0
      BY <2>1, <2>5, <3>2, Killed DEF KillOld, countVars
    <3> QED
      BY <3>1, <3>2
  <2>6. CASE Fold(t)
    BY <2>1, <2>6 DEF Fold, Folded
  <2>7. CASE Attach(t)
    <3>1. NewProcess(threads[t].boot) \in Decoders
      BY DEF NewProcess, Decoders, Shaped
    <3>2. procs' = Append(procs, NewProcess(threads[t].boot)) /\ conn' = Len(procs) + 1 /\ counted' = 0
          /\ earlier' = earlier
      BY <2>7 DEF Attach
    <3>3. procs' \in Seq(Decoders) /\ Len(procs') = Len(procs) + 1
      BY <2>1, <3>1, <3>2, AppendProperties
    <3> QED
      BY <2>1, <3>2, <3>3
  <2> QED
    BY <2>2, <2>3, <2>4, <2>5, <2>6, <2>7 DEF Trip, Restart, Poll, TimesOut, Boot, ForkFails, countVars
<1>4. Shaped'
  <2>1. \A u \in DOMAIN threads' : threads'[u].boot \in 0 .. MaxPolicy
    BY <1>1 DEF Shaped
  <2> QED
    BY <1>1, <1>3, <2>1 DEF Shaped, pumpVars
<1> QED
  BY <1>2, <1>4

LEMMA ProcessesKeepShape ==
    ASSUME Shaped, InTurn, SetPolicy \/ \E p \in DOMAIN procs : Serve(p) \/ Kill(p)
    PROVE  Shaped' /\ InTurn'
<1>1. UNCHANGED <<pumpVars, threads, conn, countVars>>
  BY ZenonT(60) DEF SetPolicy, Serve, Kill
<1>2. procs' \in Seq(Decoders) /\ Len(procs') = Len(procs)
      /\ policy' \in 0 .. MaxPolicy /\ faults' \in [FaultClasses -> Nat]
  <2>1. procs \in Seq(Decoders) /\ policy \in 0 .. MaxPolicy /\ faults \in [FaultClasses -> Nat]
    BY DEF Shaped
  <2>2. CASE SetPolicy
    <3>1. policy' = policy + 1 /\ policy' \in 0 .. MaxPolicy
      BY <2>1, <2>2, DecoderConstants DEF SetPolicy
    <3>2. faults' \in [FaultClasses -> Nat]
      <4>1. CASE Fault("late")
        BY <4>1, Disturbed DEF FaultClasses
      <4> QED
        BY <2>1, <2>2, <4>1 DEF SetPolicy
    <3>3. CASE conn = 0 \/ ~procs[conn].alive
      BY <2>1, <2>2, <3>1, <3>2, <3>3 DEF SetPolicy
    <3>4. CASE ~ (conn = 0 \/ ~procs[conn].alive)
      <4>1. conn \in DOMAIN procs /\ [policy |-> policy + 1] \in Requests
        BY <3>1, <3>4, DecoderFields DEF Requests
      <4>2. procs' = [procs EXCEPT ![conn].requests = Append(@, [policy |-> policy + 1])]
        BY <2>2, <3>4 DEF SetPolicy
      <4> QED
        BY <3>1, <3>2, <4>1, <4>2, Requested
    <3> QED
      BY <3>3, <3>4
  <2>3. ASSUME NEW p \in DOMAIN procs, Serve(p)
        PROVE  /\ procs' \in Seq(Decoders) /\ Len(procs') = Len(procs)
               /\ policy' \in 0 .. MaxPolicy /\ faults' \in [FaultClasses -> Nat]
    BY ZenonT(60), <2>1, <2>3, Served DEF Serve
  <2>4. ASSUME NEW p \in DOMAIN procs, Kill(p)
        PROVE  /\ procs' \in Seq(Decoders) /\ Len(procs') = Len(procs)
               /\ policy' \in 0 .. MaxPolicy /\ faults' \in [FaultClasses -> Nat]
    <3>1. procs' = [procs EXCEPT ![p].alive = FALSE] /\ Fault("kill") /\ policy' = policy
      BY <2>4 DEF Kill
    <3> QED
      BY <2>1, <3>1, Killed, Disturbed DEF FaultClasses
  <2> QED
    BY <2>2, <2>3, <2>4
<1> QED
  BY SMTT(60), <1>1, <1>2 DEF Shaped, InTurn, pumpVars, countVars

LEMMA PumpKeepsShape ==
    ASSUME Shaped, InTurn, PumpStep \/ Cancel
    PROVE  Shaped' /\ InTurn'
<1>1. UNCHANGED <<procs, conn, countVars, policy>>
  BY DEF PumpStep, Decode, DecodeSingle, Answered, Failed, Restarted, PumpDies, Cancel
<1>2. faults' \in [FaultClasses -> Nat]
  BY Disturbed DEF PumpStep, Decode, DecodeSingle, Answered, Failed, Restarted, PumpDies, Cancel,
     Shaped, FaultClasses
<1>3. /\ asked \in Seq(Recs) /\ singles \in Seq(Recs) /\ Len(asked) \in Nat /\ Len(singles) \in Nat
      /\ DOMAIN asked = 1 .. Len(asked) /\ DOMAIN singles = 1 .. Len(singles)
      /\ pos \in Nat /\ MaxRec \in Nat /\ pos + Len(asked) + Len(singles) <= MaxRec
      /\ out \in [Recs -> Recs \cup {Unreadable, None}] /\ threads \in Seq(Thread)
      /\ \A i \in DOMAIN asked : asked[i] = pos + i
      /\ \A i \in DOMAIN singles : singles[i] = pos + Len(asked) + i
  BY DecoderFields, DecoderConstants DEF Shaped, InTurn
<1>4. ASSUME /\ pos' \in Nat /\ out' \in [Recs -> Recs \cup {Unreadable, None}]
             /\ asked' \in Seq(Recs) /\ singles' \in Seq(Recs) /\ UNCHANGED threads
             /\ pump' \in {"idle", "dead"} /\ mine' \in 0 .. Len(threads')
      PROVE  Shaped'
  BY <1>1, <1>2, <1>4 DEF Shaped, countVars
<1>5. ASSUME NEW kind \in {"trip", "restart"}, NEW batch \in Seq(Recs), Await(kind, batch),
             UNCHANGED <<pos, out>>, asked' \in Seq(Recs), singles' \in Seq(Recs)
      PROVE  /\ Shaped' /\ mine' # 0 /\ pump' = kind /\ threads'[mine'].batch = batch
             /\ \A t \in DOMAIN threads' : threads'[t].pc \in {"kill", "fold", "boot", "attach", "done"} =>
                   \/ Len(threads'[t].answer) = Len(threads'[t].batch)
                   \/ t = mine'
  <2>1. /\ threads' \in Seq(Thread) /\ Len(threads') = Len(threads) + 1
        /\ mine' = Len(threads) + 1 /\ mine' \in DOMAIN threads' /\ mine' # 0 /\ pump' = kind
        /\ \A u \in DOMAIN threads' : u # mine' => u \in DOMAIN threads /\ threads'[u] = threads[u]
        /\ threads'[mine'].batch = batch /\ threads'[mine'].boot = 0
    BY <1>5, Awaited
  <2>2. \A t \in DOMAIN threads' : threads'[t].boot \in 0 .. MaxPolicy
    <3>1. 0 \in 0 .. MaxPolicy /\ \A t \in DOMAIN threads : threads[t].boot \in 0 .. MaxPolicy
      BY DecoderConstants DEF Shaped
    <3> QED
      BY <2>1, <3>1
  <2>3. mine' \in 0 .. Len(threads')
    BY <2>1, DecoderFields
  <2> QED
    BY <1>1, <1>2, <1>3, <1>5, <2>1, <2>2, <2>3 DEF Shaped, InTurn, countVars
<1>6. ASSUME NEW kind \in {"trip", "restart"}, NEW batch, Await(kind, batch),
             kind = "restart" => batch = <<>>
      PROVE  threads'[mine'].pc = "send" \/ Len(threads'[mine'].answer) = Len(threads'[mine'].batch)
  <2>1. threads'[mine'] = NewThread(kind, batch)
    BY <1>3, <1>6, AppendProperties DEF Await
  <2> QED
    BY <1>6, <2>1 DEF NewThread
<1>7. CASE Decode
  <2>1. PICK n \in 1 .. BatchMax : pos + n <= MaxRec /\ asked' = [i \in 1 .. n |-> pos + i]
    BY <1>7 DEF Decode
  <2>2. n \in Nat /\ n > 0
    BY <2>1, DecoderConstants
  <2>3. asked' \in Seq(Recs) /\ Len(asked') = n /\ DOMAIN asked' = 1 .. n /\ asked' # <<>>
    <3>1. \A i \in 1 .. n : pos + i \in Recs
      BY <1>3, <2>1, <2>2 DEF Recs
    <3>2. asked' \in [1 .. n -> Recs]
      BY <2>1, <3>1
    <3> QED
      BY <2>2, <3>2, EmptySeq
  <2>4. /\ Shaped' /\ mine' # 0 /\ pump' = "trip" /\ threads'[mine'].batch = asked'
        /\ \A t \in DOMAIN threads' : threads'[t].pc \in {"kill", "fold", "boot", "attach", "done"} =>
              Len(threads'[t].answer) = Len(threads'[t].batch)
        /\ singles' = <<>> /\ Len(singles') = 0 /\ pos' = pos
    BY <1>3, <1>5, <1>6, <1>7, <2>3 DEF Decode
  <2>5. \A i \in DOMAIN asked' : asked'[i] = pos' + i
    BY <2>1, <2>3, <2>4
  <2>6. pos' + Len(asked') + Len(singles') <= MaxRec
    BY <1>3, <2>1, <2>2, <2>3, <2>4
  <2> QED
    BY <2>3, <2>4, <2>5, <2>6 DEF InTurn
<1>8. CASE DecodeSingle
  <2>1. singles # <<>> /\ asked' = <<Head(singles)>> /\ singles' = Tail(singles) /\ UNCHANGED <<pos, out>>
        /\ asked = <<>> /\ Len(asked) = 0 /\ Await("trip", asked')
    BY <1>8 DEF DecodeSingle, InTurn
  <2>2. /\ Head(singles) \in Recs /\ Head(singles) = singles[1] /\ 1 \in DOMAIN singles
        /\ singles' \in Seq(Recs) /\ Len(singles') = Len(singles) - 1
        /\ DOMAIN singles' = 1 .. Len(singles) - 1
        /\ \A i \in DOMAIN singles' : i + 1 \in DOMAIN singles /\ singles'[i] = singles[i + 1]
    BY <1>3, <2>1, Taken
  <2>3. asked' \in Seq(Recs) /\ Len(asked') = 1 /\ asked'[1] = pos + 1 /\ DOMAIN asked' = {1}
        /\ asked' # <<>>
    BY SMTT(60), <1>3, <2>1, <2>2
  <2>4. /\ Shaped' /\ mine' # 0 /\ pump' = "trip" /\ threads'[mine'].batch = asked'
        /\ \A t \in DOMAIN threads' : threads'[t].pc \in {"kill", "fold", "boot", "attach", "done"} =>
              Len(threads'[t].answer) = Len(threads'[t].batch)
    BY <1>3, <1>5, <1>6, <2>1, <2>2, <2>3
  <2>5. \A i \in DOMAIN singles' : singles'[i] = pos' + Len(asked') + i
    BY <1>3, <2>1, <2>2, <2>3
  <2>6. pos' + Len(asked') + Len(singles') <= MaxRec
    BY <1>3, <2>1, <2>2, <2>3
  <2> QED
    BY <2>1, <2>3, <2>4, <2>5, <2>6 DEF InTurn
<1>9. CASE Answered
  <2>1. /\ pump = "trip" /\ threads[mine].pc = "done" /\ pos' = pos + Len(asked)
        /\ pump' = "idle" /\ asked' = <<>> /\ mine' = 0 /\ UNCHANGED <<singles, threads>>
        /\ out' = [r \in Recs |-> IF \E i \in DOMAIN asked : asked[i] = r
                                  THEN threads[mine].answer[CHOOSE i \in DOMAIN asked : asked[i] = r]
                                  ELSE out[r]]
    BY <1>9 DEF Answered
  <2>2. mine \in DOMAIN threads /\ threads[mine].answer \in Seq(Recs)
        /\ Len(threads[mine].answer) = Len(asked)
    BY <2>1, DecoderFields DEF InTurn
  <2>3. out' \in [Recs -> Recs \cup {Unreadable, None}]
    BY SMTT(60), <1>3, <2>1, <2>2
  <2>4. Shaped'
    BY <1>3, <1>4, <2>1, <2>3, DecoderFields
  <2>5. \A i \in DOMAIN singles' : singles'[i] = pos' + Len(asked') + i
    BY <1>3, <2>1
  <2>6. pos' + Len(asked') + Len(singles') <= MaxRec
    BY <1>3, <2>1
  <2> QED
    BY <2>1, <2>4, <2>5, <2>6 DEF InTurn
<1>10. CASE Failed
  <2>1. Await("restart", <<>>) /\ UNCHANGED <<pos, out, asked, singles>> /\ pump = "trip"
    BY <1>10 DEF Failed
  <2>2. /\ Shaped' /\ mine' # 0 /\ pump' = "restart"
        /\ \A t \in DOMAIN threads' : threads'[t].pc \in {"kill", "fold", "boot", "attach", "done"} =>
              Len(threads'[t].answer) = Len(threads'[t].batch)
    <3>1. <<>> \in Seq(Recs) /\ asked' \in Seq(Recs) /\ singles' \in Seq(Recs)
      BY <1>3, <2>1
    <3> QED
      BY <1>5, <1>6, <2>1, <3>1
  <2> QED
    BY <2>1, <2>2 DEF InTurn
<1>11. CASE Restarted
  <2>1. /\ pump = "restart" /\ pump' = "idle" /\ asked' = <<>> /\ mine' = 0 /\ UNCHANGED threads
        /\ \/ /\ Len(asked) = 1 /\ out' = [out EXCEPT ![asked[1]] = Unreadable]
              /\ pos' = pos + 1 /\ singles' = singles
           \/ Len(asked) # 1 /\ singles' = asked /\ UNCHANGED <<pos, out>>
    BY <1>11 DEF Restarted, Alone, OneAtATime
  <2>2. out' \in [Recs -> Recs \cup {Unreadable, None}] /\ pos' \in Nat /\ singles' \in Seq(Recs)
    <3>1. CASE Len(asked) = 1
      <4>1. out' = [out EXCEPT ![asked[1]] = Unreadable] /\ pos' = pos + 1 /\ singles' = singles
        BY <2>1, <3>1
      <4>2. out \in [Recs -> Recs \cup {Unreadable, None}] /\ pos \in Nat /\ singles \in Seq(Recs)
        BY <1>3
      <4>3. out' \in [Recs -> Recs \cup {Unreadable, None}]
        BY <4>1, <4>2
      <4> QED
        BY <4>1, <4>2, <4>3
    <3>2. CASE Len(asked) # 1
      <4>1. out' = out /\ pos' = pos /\ singles' = asked
        BY <2>1, <3>2
      <4> QED
        BY <1>3, <4>1
    <3> QED
      BY <3>1, <3>2
  <2>3. Shaped'
    BY <1>3, <1>4, <2>1, <2>2, DecoderFields
  <2>4. Len(asked') = 0
    BY <2>1
  <2>5. \A i \in DOMAIN singles' : singles'[i] = pos' + Len(asked') + i
    <3>1. CASE Len(asked) = 1
      BY <1>3, <2>1, <2>4, <3>1
    <3>2. CASE Len(asked) # 1
      <4>1. singles' = asked /\ pos' = pos
        BY <2>1, <3>2
      <4>2. \A i \in DOMAIN asked : asked[i] = pos + 0 + i
        BY <1>3
      <4> QED
        BY <2>4, <4>1, <4>2
    <3> QED
      BY <3>1, <3>2
  <2>6. pos' + Len(asked') + Len(singles') <= MaxRec
    <3>1. CASE Len(asked) = 1
      BY <1>3, <2>1, <2>4, <3>1
    <3>2. CASE Len(asked) # 1
      BY <1>3, <2>1, <2>4, <3>2
    <3> QED
      BY <3>1, <3>2
  <2> QED
    BY <2>1, <2>3, <2>5, <2>6 DEF InTurn
<1>12. CASE PumpDies
  <2>1. pump # "idle" /\ pump' = "dead" /\ UNCHANGED <<pos, out, threads, asked, singles, mine>>
    BY <1>12 DEF PumpDies
  <2>2. Shaped'
    BY <1>3, <1>4, <2>1 DEF Shaped
  <2> QED
    BY <2>1, <2>2 DEF InTurn
<1>13. CASE Cancel
  <2>1. UNCHANGED <<pos, out, threads>> /\ pump' = "idle" /\ asked' = <<>> /\ singles' = <<>> /\ mine' = 0
    BY <1>13 DEF Cancel
  <2>2. /\ asked' \in Seq(Recs) /\ singles' \in Seq(Recs) /\ Len(asked') = 0 /\ Len(singles') = 0
        /\ DOMAIN asked' = {} /\ DOMAIN singles' = {}
    BY <2>1
  <2>3. Shaped'
    BY <1>3, <1>4, <2>1, <2>2, DecoderFields
  <2> QED
    BY <1>3, <2>1, <2>2, <2>3 DEF InTurn
<1> QED
  BY <1>7, <1>8, <1>9, <1>10, <1>11, <1>12, <1>13 DEF PumpStep

-----------------------------------------------------------------------------
(* What a message that comes or goes does to the changes in a pipe.        *)
LEMMA ChangesGrow ==
    ASSUME Shaped, NEW p \in DOMAIN procs, NEW m \in Requests,
           procs' = [procs EXCEPT ![p].requests = Append(@, m)]
    PROVE  /\ DOMAIN (procs'[p].requests) = DOMAIN procs[p].requests \cup {Len(procs[p].requests) + 1}
           /\ \A i \in DOMAIN procs[p].requests : procs'[p].requests[i] = procs[p].requests[i]
           /\ procs'[p].requests[Len(procs[p].requests) + 1] = m
           /\ \A i \in DOMAIN procs[p].requests : i \in Nat /\ i < Len(procs[p].requests) + 1
           /\ m \in [ask : Seq(Recs)] => Changes(p)' = Changes(p)
           /\ m \in [policy : 0 .. MaxPolicy] => Changes(p)' = Changes(p) \cup {Len(procs[p].requests) + 1}
<1> DEFINE q == procs[p].requests
           r == procs'[p].requests
<1>1. q \in Seq(Requests) /\ r = Append(q, m)
  BY Requested
<1> HIDE DEF q, r
<1>2. /\ DOMAIN r = 1 .. Len(q) + 1 /\ DOMAIN q = 1 .. Len(q) /\ Len(q) \in Nat
      /\ \A i \in DOMAIN q : r[i] = q[i]
      /\ r[Len(q) + 1] = m
  BY <1>1, Sent
<1>3. DOMAIN r = DOMAIN q \cup {Len(q) + 1}
  BY <1>2
<1>4. m \in [ask : Seq(Recs)] => "policy" \notin DOMAIN m
  OBVIOUS
<1>5. m \in [policy : 0 .. MaxPolicy] => "policy" \in DOMAIN m
  OBVIOUS
<1> QED
  BY SMTT(60), <1>2, <1>3, <1>4, <1>5 DEF Changes, q, r

LEMMA ChangesShrink ==
    ASSUME Shaped, NEW p \in DOMAIN procs, procs[p].requests # <<>>,
           procs'[p].requests = Tail(procs[p].requests)
    PROVE  /\ \A i \in DOMAIN procs[p].requests :
                 i # 1 => /\ i - 1 \in DOMAIN (procs'[p].requests)
                          /\ procs'[p].requests[i - 1] = procs[p].requests[i]
           /\ \A i \in DOMAIN (procs'[p].requests) :
                 i + 1 \in DOMAIN procs[p].requests /\ procs'[p].requests[i] = procs[p].requests[i + 1]
           /\ \A i \in DOMAIN procs[p].requests : i \in Nat
           /\ \A i \in DOMAIN (procs'[p].requests) : i \in Nat /\ i # 0
           /\ \A i \in Changes(p) : i # 1 => i - 1 \in Changes(p)'
           /\ \A i \in Changes(p)' : i + 1 \in Changes(p)
           /\ Unasked(p) => Unasked(p)'
<1> DEFINE q == procs[p].requests
           r == procs'[p].requests
<1>1. q \in Seq(Requests) /\ q # <<>> /\ r = Tail(q)
  BY DecoderFields DEF Decoders
<1> HIDE DEF q, r
<1>2. /\ \A i \in DOMAIN r : i + 1 \in DOMAIN q /\ r[i] = q[i + 1]
      /\ \A i \in DOMAIN q : i # 1 => i - 1 \in DOMAIN r /\ r[i - 1] = q[i]
      /\ DOMAIN q = 1 .. Len(q) /\ DOMAIN r = 1 .. Len(q) - 1 /\ Len(q) \in Nat
  BY <1>1, Taken
<1>3. (\A i \in DOMAIN r : i \in Nat /\ i # 0) /\ (\A i \in DOMAIN q : i \in Nat)
  BY <1>2
<1> QED
  BY <1>2, <1>3 DEF Changes, Unasked, q, r

LEMMA FaultsRemain ==
    ASSUME Shaped, Next
    PROVE  \A c \in FaultClasses : Suffered(c) => Suffered(c)'
<1>1. CASE UNCHANGED faults
  BY <1>1 DEF Suffered
<1>2. CASE \E class \in FaultClasses : Fault(class)
  BY <1>2, Disturbed
<1>3. CASE \E t \in DOMAIN threads : Trip(t) \/ Restart(t)
  BY <1>3, ThreadMoves
<1> QED
  BY ZenonT(60), <1>1, <1>2, <1>3 DEF Next, PumpStep, Decode, DecodeSingle, Answered, Failed, Restarted, PumpDies,
     Cancel, SetPolicy, Serve, Kill, FaultClasses

(* A change of the policy reaches the process that runs.                   *)
LEMMA ToldStays ==
    ASSUME Shaped, Told, Next
    PROVE  Told'
<1> SUFFICES ASSUME ~Suffered("late")'
             PROVE  /\ \A t \in DOMAIN threads' : threads'[t].pc = "attach" => threads'[t].boot = policy'
                    /\ (conn' # 0 /\ procs'[conn'].alive) => Fresh(conn)'
  BY DEF Told
<1>1. ~Suffered("late")
  BY FaultsRemain DEF FaultClasses
<1>2. /\ \A t \in DOMAIN threads : threads[t].pc = "attach" => threads[t].boot = policy
      /\ (conn # 0 /\ procs[conn].alive) => Fresh(conn)
      /\ conn # 0 => conn \in DOMAIN procs
  BY <1>1, DecoderFields DEF Told
<1>3. CASE PumpStep \/ Cancel
  <2>1. UNCHANGED <<procs, conn, policy>>
    BY <1>3 DEF PumpStep, Decode, DecodeSingle, Answered, Failed, Restarted, PumpDies, Cancel
  <2>2. CASE UNCHANGED threads
    BY <1>2, <2>1, <2>2 DEF Fresh, Changes
  <2>3. CASE \E kind \in {"trip", "restart"} : \E batch \in Seq(Recs) : Await(kind, batch)
    <3>1. /\ \A u \in DOMAIN threads' : u # mine' => u \in DOMAIN threads /\ threads'[u] = threads[u]
          /\ threads'[mine'].pc \in {"send", "kill"}
      BY <2>3, Awaited
    <3> QED
      BY <1>2, <2>1, <3>1 DEF Fresh, Changes
  <2>4. Decode => asked' \in Seq(Recs)
    <3> SUFFICES ASSUME Decode PROVE asked' \in Seq(Recs)
      OBVIOUS
    <3>1. PICK n \in 1 .. BatchMax : pos + n <= MaxRec /\ asked' = [i \in 1 .. n |-> pos + i]
      BY DEF Decode
    <3>2. n \in Nat /\ \A i \in 1 .. n : pos + i \in Recs
      BY <3>1, DecoderConstants DEF Recs, Shaped
    <3>3. asked' \in [1 .. n -> Recs]
      BY <3>1, <3>2
    <3> QED
      BY <3>2, <3>3
  <2>5. DecodeSingle => asked' \in Seq(Recs)
    BY Taken DEF DecodeSingle, Shaped
  <2>6. <<>> \in Seq(Recs)
    OBVIOUS
  <2> QED
    BY <1>3, <2>2, <2>3, <2>4, <2>5, <2>6 DEF PumpStep, Decode, DecodeSingle, Answered, Failed, Restarted,
       PumpDies, Cancel
<1>4. ASSUME NEW t \in DOMAIN threads, Trip(t) \/ Restart(t)
      PROVE  /\ \A u \in DOMAIN threads' : threads'[u].pc = "attach" => threads'[u].boot = policy'
             /\ (conn' # 0 /\ procs'[conn'].alive) => Fresh(conn)'
  <2>1. /\ policy' = policy /\ DOMAIN threads' = DOMAIN threads
        /\ \A u \in DOMAIN threads' : threads'[u].pc = "attach" => threads'[u].boot = policy'
    BY <1>2, <1>4, ThreadMoves
  <2>2. CASE UNCHANGED <<procs, conn>>
    BY <1>2, <2>1, <2>2 DEF Fresh, Changes
  <2>3. CASE Send(t) /\ procs' # procs
    <3>1. /\ conn # 0 /\ conn' = conn /\ procs[conn].alive
          /\ procs' = [procs EXCEPT ![conn].requests = Append(@, [ask |-> threads[t].batch])]
      BY <2>3 DEF Send
    <3>2. [ask |-> threads[t].batch] \in [ask : Seq(Recs)] /\ [ask |-> threads[t].batch] \in Requests
      BY DecoderFields DEF Requests
    <3>3. /\ \A i \in DOMAIN procs[conn].requests : procs'[conn].requests[i] = procs[conn].requests[i]
          /\ procs'[conn].policy = procs[conn].policy
      BY <1>2, <3>1, <3>2, ChangesGrow, Requested
    <3>4. PICK p \in DOMAIN procs : p = conn
      BY <1>2, <3>1
    <3>5. Changes(p)' = Changes(p)
      BY <3>1, <3>2, <3>4, ChangesGrow
    <3>6. Changes(conn)' = Changes(conn)
      BY <3>1, <3>4, <3>5 DEF Changes
    <3>7. \A i \in Changes(conn) : i \in DOMAIN procs[conn].requests
      BY DEF Changes
    <3> QED
      BY <1>2, <2>1, <3>1, <3>3, <3>6, <3>7 DEF Fresh
  <2>4. CASE Recv(t) /\ procs' # procs
    <3>1. /\ conn # 0 /\ conn' = conn /\ procs[conn].replies # <<>>
          /\ procs' = [procs EXCEPT ![conn].replies = Tail(@)]
      BY <2>4 DEF Recv
    <3>2. /\ procs'[conn].requests = procs[conn].requests /\ procs'[conn].policy = procs[conn].policy
          /\ procs'[conn].alive = procs[conn].alive
      BY <1>2, <3>1, Received
    <3> QED
      BY <1>2, <2>1, <3>1, <3>2 DEF Fresh, Changes
  <2>5. CASE KillOld(t) /\ procs' # procs
    <3>1. conn # 0 /\ conn' = conn /\ procs' = [procs EXCEPT ![conn].alive = FALSE]
      BY <2>5 DEF KillOld
    <3>2. ~procs'[conn'].alive
      BY <1>2, <3>1, Killed
    <3> QED
      BY <2>1, <3>2
  <2>6. CASE Fold(t)
    BY <2>1, <2>6 DEF Fold
  <2>7. CASE Attach(t)
    <3>1. /\ procs' = Append(procs, NewProcess(threads[t].boot)) /\ conn' = Len(procs) + 1
          /\ threads[t].boot = policy
      BY <1>2, <2>7 DEF Attach
    <3>2. procs'[conn'] = NewProcess(policy)
      BY <3>1, AppendProperties DEF Shaped
    <3>3. procs'[conn'].requests = <<>> /\ procs'[conn'].policy = policy
      BY <3>2 DEF NewProcess
    <3> QED
      BY <2>1, <3>3 DEF Fresh, Changes
  <2> QED
    BY <1>4, <2>2, <2>3, <2>4, <2>5, <2>6, <2>7 DEF Trip, Restart, Send, Poll, TimesOut, Recv, KillOld,
       Boot, ForkFails
<1>5. CASE SetPolicy
  <2>1. /\ policy' = policy + 1 /\ UNCHANGED <<threads, conn>>
        /\ \A t \in DOMAIN threads : threads[t].pc # "attach"
    BY <1>5, Disturbed DEF SetPolicy, Booting, FaultClasses
  <2> SUFFICES ASSUME conn # 0, procs'[conn].alive PROVE Fresh(conn)'
    BY <2>1
  <2>2. procs[conn].alive
    BY <1>5 DEF SetPolicy
  <2>3. procs' = [procs EXCEPT ![conn].requests = Append(@, [policy |-> policy + 1])]
    BY <1>5, <2>2 DEF SetPolicy
  <2>4. [policy |-> policy + 1] \in [policy : 0 .. MaxPolicy] /\ [policy |-> policy + 1] \in Requests
    BY SMTT(60), <1>5, DecoderConstants DEF SetPolicy, Shaped, Requests
  <2> DEFINE n == Len(procs[conn].requests) + 1
  <2>5. PICK p \in DOMAIN procs : p = conn
    BY <1>2
  <2>6. /\ Changes(p)' = Changes(p) \cup {n}
        /\ procs'[p].requests[n] = [policy |-> policy + 1]
        /\ \A i \in DOMAIN procs[p].requests : i \in Nat /\ i < n
        /\ n \in Nat
    <3>1. /\ n = Len(procs[p].requests) + 1
          /\ procs' = [procs EXCEPT ![p].requests = Append(@, [policy |-> policy + 1])]
      BY <2>3, <2>5
    <3>2. n \in Nat
      BY <2>4, <3>1, Requested
    <3> HIDE DEF n
    <3>3. /\ Changes(p)' = Changes(p) \cup {Len(procs[p].requests) + 1}
          /\ procs'[p].requests[Len(procs[p].requests) + 1] = [policy |-> policy + 1]
          /\ \A i \in DOMAIN procs[p].requests : i \in Nat /\ i < Len(procs[p].requests) + 1
      BY <2>4, <3>1, ChangesGrow
    <3> QED
      BY <3>1, <3>2, <3>3
  <2> HIDE DEF n
  <2>7. Changes(conn)' = Changes(conn) \cup {n} /\ n \in Changes(conn)'
    BY <2>1, <2>5, <2>6 DEF Changes
  <2>8. \A j \in Changes(conn)' : j <= n
    BY <2>5, <2>6, <2>7 DEF Changes
  <2>9. procs'[conn'].requests[n].policy = policy'
    BY <2>1, <2>5, <2>6
  <2> QED
    BY <2>7, <2>8, <2>9 DEF Fresh
<1>6. ASSUME NEW p \in DOMAIN procs, Serve(p)
      PROVE  /\ \A u \in DOMAIN threads' : threads'[u].pc = "attach" => threads'[u].boot = policy'
             /\ (conn' # 0 /\ procs'[conn'].alive) => Fresh(conn)'
  <2>1. UNCHANGED <<threads, conn, policy>>
    BY <1>6 DEF Serve
  <2> SUFFICES ASSUME conn # 0, procs'[conn].alive PROVE Fresh(conn)'
    BY <1>2, <2>1
  <2>2. CASE p # conn
    <3>1. procs'[conn] = procs[conn]
      BY <1>2, <1>6, <2>2, Served
    <3> QED
      BY <1>2, <2>1, <3>1 DEF Fresh, Changes
  <2>3. CASE p = conn
    <3>1. /\ procs[p].alive /\ procs[p].requests \in Seq(Requests) /\ procs[p].requests # <<>>
          /\ procs'[p].requests = Tail(procs[p].requests)
          /\ \/ /\ procs[p].requests[1] \in [policy : 0 .. MaxPolicy]
                /\ procs'[p].policy = procs[p].requests[1].policy
             \/ /\ procs[p].requests[1] \in [ask : Seq(Recs)]
                /\ procs'[p].policy = procs[p].policy
      BY <1>6, Served
    <3>2. Fresh(p)
      BY <1>2, <2>3, <3>1
    <3>3. /\ \A i \in DOMAIN procs[p].requests :
                i # 1 => /\ i - 1 \in DOMAIN (procs'[p].requests)
                         /\ procs'[p].requests[i - 1] = procs[p].requests[i]
          /\ \A i \in DOMAIN procs[p].requests : i \in Nat
          /\ \A i \in DOMAIN (procs'[p].requests) : i \in Nat /\ i # 0
          /\ \A i \in Changes(p) : i # 1 => i - 1 \in Changes(p)'
          /\ \A i \in Changes(p)' : i + 1 \in Changes(p)
      BY <3>1, ChangesShrink
    <3>4. Changes(p) \subseteq DOMAIN procs[p].requests /\ Changes(p)' \subseteq DOMAIN (procs'[p].requests)
      BY DEF Changes
    <3>5. Fresh(p)'
      <4>1. CASE Changes(p) = {}
        <5>1. Changes(p)' = {}
          BY <3>3, <4>1
        <5>2. 1 \in DOMAIN procs[p].requests
          BY <3>1, Taken
        <5>3. procs[p].requests[1] \notin [policy : 0 .. MaxPolicy]
          BY <4>1, <5>2 DEF Changes
        <5>4. procs[p].policy = policy
          BY <3>2, <4>1 DEF Fresh
        <5> QED
          BY <2>1, <3>1, <5>1, <5>3, <5>4 DEF Fresh
      <4>2. CASE Changes(p) # {}
        <5>1. PICK i \in Changes(p) : procs[p].requests[i].policy = policy /\ \A j \in Changes(p) : j <= i
          BY <3>2, <4>2 DEF Fresh
        <5>2. CASE i = 1
          <6>1. Changes(p)' = {}
            <7> SUFFICES ASSUME NEW j \in Changes(p)' PROVE FALSE
              OBVIOUS
            <7>1. j \in Nat /\ j # 0 /\ j + 1 <= 1
              BY <3>3, <3>4, <5>1, <5>2
            <7> QED
              BY <7>1
          <6>2. "policy" \in DOMAIN procs[p].requests[1]
            BY <5>2 DEF Changes
          <6>3. procs'[p].policy = policy
            BY <3>1, <5>1, <5>2, <6>2
          <6> QED
            BY <2>1, <6>1, <6>3 DEF Fresh
        <5>3. CASE i # 1
          <6>1. i - 1 \in Changes(p)' /\ procs'[p].requests[i - 1].policy = policy'
            BY <2>1, <3>3, <3>4, <5>1, <5>3
          <6>2. \A j \in Changes(p)' : j <= i - 1
            BY <3>3, <3>4, <5>1
          <6> QED
            BY <6>1, <6>2 DEF Fresh
        <5> QED
          BY <5>2, <5>3
      <4> QED
        BY <4>1, <4>2
    <3> QED
      BY <2>1, <2>3, <3>5 DEF Fresh, Changes
  <2> QED
    BY <2>2, <2>3
<1>7. ASSUME NEW p \in DOMAIN procs, Kill(p)
      PROVE  /\ \A u \in DOMAIN threads' : threads'[u].pc = "attach" => threads'[u].boot = policy'
             /\ (conn' # 0 /\ procs'[conn'].alive) => Fresh(conn)'
  <2>1. UNCHANGED <<threads, conn, policy>> /\ p = conn /\ procs' = [procs EXCEPT ![p].alive = FALSE]
    BY <1>7 DEF Kill
  <2>2. ~procs'[p].alive
    BY <2>1, Killed
  <2> QED
    BY <1>2, <2>1, <2>2
<1> QED
  BY <1>3, <1>4, <1>5, <1>6, <1>7 DEF Next

-----------------------------------------------------------------------------
(* What is in a process's pipes stays what was asked of it, or its answer: *)
(* changes come between, the process answers or fails.                     *)
LEMMA SamePipes ==
    ASSUME NEW p, UNCHANGED <<procs[p], asked>>, Undisturbed' => Undisturbed
    PROVE  (Quiet(p) => Quiet(p)') /\ (Answering(p) => Answering(p)')
<1>1. Tainted => Tainted'
  BY DEF Tainted
<1> QED
  BY <1>1 DEF Quiet, Answering, Changes, Unasked, Well

LEMMA PipesKeep ==
    ASSUME Shaped, NEW p \in DOMAIN procs, SetPolicy \/ \E q \in DOMAIN procs : Serve(q) \/ Kill(q)
    PROVE  (Quiet(p) => Quiet(p)') /\ (Answering(p) => Answering(p)')
<1>1. Undisturbed' => Undisturbed
  BY SMTT(60), FaultsRemain DEF Next, Undisturbed, FaultClasses
<1>2. asked' = asked /\ (Tainted => Tainted')
  BY ZenonT(60) DEF SetPolicy, Serve, Kill, Tainted, pumpVars
<1>3. CASE procs'[p] = procs[p]
  BY <1>1, <1>2, <1>3, SamePipes
<1>4. CASE SetPolicy /\ procs'[p] # procs[p]
  <2>1. /\ p = conn /\ policy' = policy + 1 /\ policy < MaxPolicy
        /\ procs' = [procs EXCEPT ![p].requests = Append(@, [policy |-> policy + 1])]
    <3>1. procs' # procs /\ policy' = policy + 1 /\ policy < MaxPolicy
      BY <1>4 DEF SetPolicy
    <3>2. procs' = [procs EXCEPT ![conn].requests = Append(@, [policy |-> policy + 1])] /\ conn # 0
      BY <1>4, <3>1 DEF SetPolicy
    <3>3. p = conn
      BY <1>4, <3>2 DEF Shaped
    <3> QED
      BY <3>1, <3>2, <3>3
  <2>2. [policy |-> policy + 1] \in [policy : 0 .. MaxPolicy] /\ [policy |-> policy + 1] \in Requests
    BY SMTT(60), <2>1, DecoderConstants DEF Shaped, Requests
  <2>3. PICK n \in Nat :
           /\ DOMAIN (procs'[p].requests) = DOMAIN procs[p].requests \cup {n}
           /\ \A i \in DOMAIN procs[p].requests : procs'[p].requests[i] = procs[p].requests[i]
           /\ \A i \in DOMAIN procs[p].requests : i \in Nat /\ i < n
           /\ Changes(p)' = Changes(p) \cup {n}
    <3>1. Len(procs[p].requests) + 1 \in Nat
      BY <2>1, <2>2, Requested
    <3>2. /\ DOMAIN (procs'[p].requests) = DOMAIN procs[p].requests \cup {Len(procs[p].requests) + 1}
          /\ \A i \in DOMAIN procs[p].requests : procs'[p].requests[i] = procs[p].requests[i]
          /\ \A i \in DOMAIN procs[p].requests : i \in Nat /\ i < Len(procs[p].requests) + 1
          /\ Changes(p)' = Changes(p) \cup {Len(procs[p].requests) + 1}
      BY <2>1, <2>2, ChangesGrow
    <3> QED
      BY <3>1, <3>2
  <2>4. /\ procs'[p].alive = procs[p].alive /\ procs'[p].hung = procs[p].hung
        /\ procs'[p].replies = procs[p].replies
    BY <2>1, <2>2, Requested
  <2>5. Well(p) => Well(p)'
    BY <1>1, <2>4 DEF Well
  <2>6. Unasked(p) => Unasked(p)'
    BY <2>3 DEF Unasked
  <2>7. Quiet(p) => Quiet(p)'
    BY <2>4, <2>5, <2>6 DEF Quiet
  <2>8. ASSUME NEW i \in DOMAIN procs[p].requests, procs[p].requests[i] = [ask |-> asked],
               Changes(p) = DOMAIN procs[p].requests \ {i}
        PROVE  /\ i \in DOMAIN (procs'[p].requests) /\ procs'[p].requests[i] = [ask |-> asked']
               /\ Changes(p)' = DOMAIN (procs'[p].requests) \ {i}
    <3>1. i # n
      BY <2>3
    <3> QED
      BY <1>2, <2>3, <2>8, <3>1
  <2>9. Answering(p) => Answering(p)'
    BY <1>1, <1>2, <2>4, <2>5, <2>6, <2>8 DEF Answering
  <2> QED
    BY <2>7, <2>9
<1>5. ASSUME Serve(p)
      PROVE  (Quiet(p) => Quiet(p)') /\ (Answering(p) => Answering(p)')
  <2>1. /\ procs[p].alive /\ ~procs[p].hung
        /\ procs[p].requests \in Seq(Requests) /\ procs[p].requests # <<>>
        /\ procs'[p].requests = Tail(procs[p].requests)
        /\ \/ /\ procs[p].requests[1] \in [policy : 0 .. MaxPolicy]
              /\ UNCHANGED <<procs[p].alive, procs[p].hung, procs[p].replies>>
           \/ /\ procs[p].requests[1] \in [ask : Seq(Recs)]
              /\ \/ /\ UNCHANGED <<procs[p].alive, procs[p].hung>>
                    /\ \E n \in Nat :
                          procs'[p].replies = Append(procs[p].replies,
                                                     [answer |-> procs[p].requests[1].ask, accepted |-> n])
                 \/ /\ \E i \in DOMAIN procs[p].requests[1].ask : procs[p].requests[1].ask[i] \in Poison
                    /\ procs'[p].hung \/ ~procs'[p].alive
                    /\ UNCHANGED <<procs[p].replies>>
    BY ZenonT(60), <1>5, Served
  <2>2. /\ \A i \in DOMAIN procs[p].requests :
              i # 1 => /\ i - 1 \in DOMAIN (procs'[p].requests)
                       /\ procs'[p].requests[i - 1] = procs[p].requests[i]
        /\ \A i \in DOMAIN (procs'[p].requests) :
              i + 1 \in DOMAIN procs[p].requests /\ procs'[p].requests[i] = procs[p].requests[i + 1]
        /\ \A i \in DOMAIN procs[p].requests : i \in Nat
        /\ \A i \in DOMAIN (procs'[p].requests) : i \in Nat /\ i # 0
        /\ \A i \in Changes(p) : i # 1 => i - 1 \in Changes(p)'
        /\ \A i \in Changes(p)' : i + 1 \in Changes(p)
        /\ Unasked(p) => Unasked(p)'
    BY <2>1, ChangesShrink
  <2>3. 1 \in DOMAIN procs[p].requests
    BY <2>1, Taken
  <2>4. CASE procs[p].requests[1] \in [policy : 0 .. MaxPolicy]
    <3>1. UNCHANGED <<procs[p].alive, procs[p].hung, procs[p].replies>>
      <4>1. procs[p].requests[1] \notin [ask : Seq(Recs)]
        BY <2>4
      <4> QED
        BY <2>1, <4>1
    <3>2. Well(p) => Well(p)'
      BY <1>1, <3>1 DEF Well
    <3>3. ASSUME NEW i \in DOMAIN procs[p].requests, procs[p].requests[i] = [ask |-> asked],
                 Changes(p) = DOMAIN procs[p].requests \ {i}
          PROVE  \E j \in DOMAIN (procs'[p].requests) :
                    /\ procs'[p].requests[j] = [ask |-> asked']
                    /\ Changes(p)' = DOMAIN (procs'[p].requests) \ {j}
      <4>1. i # 1
        BY <2>4, <3>3
      <4>2. i - 1 \in DOMAIN (procs'[p].requests) /\ procs'[p].requests[i - 1] = [ask |-> asked']
        BY <1>2, <2>2, <3>3, <4>1
      <4>3. ASSUME NEW k \in DOMAIN (procs'[p].requests), k # i - 1
            PROVE  k \in Changes(p)'
        <5>1. k + 1 \in Changes(p) /\ k + 1 # 1 /\ (k + 1) - 1 = k
          BY SMTT(60), <2>2, <3>3, <4>3
        <5> QED
          BY <2>2, <5>1
      <4>4. i - 1 \notin Changes(p)' /\ Changes(p)' \subseteq DOMAIN (procs'[p].requests)
        <5>1. i - 1 \in Changes(p)' => (i - 1) + 1 \in Changes(p) /\ (i - 1) + 1 = i
          BY <2>2
        <5> QED
          BY <3>3, <5>1 DEF Changes
      <4> QED
        BY <4>2, <4>3, <4>4
    <3>4. Quiet(p) => Quiet(p)'
      BY <2>2, <3>1, <3>2 DEF Quiet
    <3>5. Answering(p) => Answering(p)'
      BY <1>1, <1>2, <2>2, <3>1, <3>2, <3>3 DEF Answering
    <3> QED
      BY <3>4, <3>5
  <2>5. CASE procs[p].requests[1] \in [ask : Seq(Recs)]
    <3>1. 1 \notin Changes(p)
      BY <2>5 DEF Changes
    <3>2. ~Unasked(p) /\ ~Quiet(p)
      BY <2>3, <3>1 DEF Unasked, Quiet
    <3>3. ASSUME Answering(p)
          PROVE  Answering(p)'
      <4>1. PICK i \in DOMAIN procs[p].requests : /\ procs[p].requests[i] = [ask |-> asked]
                                                  /\ Changes(p) = DOMAIN procs[p].requests \ {i}
        BY <3>2, <3>3 DEF Answering
      <4>2. procs[p].replies = <<>> /\ Well(p)
        BY <3>2, <3>3 DEF Answering
      <4>3. i = 1 /\ procs[p].requests[1].ask = asked
        BY <2>3, <3>1, <4>1
      <4>4. Unasked(p)'
        <5>1. ASSUME NEW k \in DOMAIN (procs'[p].requests)
              PROVE  k \in Changes(p)'
          <6>1. k \in Nat /\ k # 0 /\ k + 1 \in DOMAIN procs[p].requests
            BY <2>2
          <6>2. k + 1 \in Changes(p) /\ k + 1 # 1 /\ (k + 1) - 1 = k
            BY <4>1, <4>3, <6>1
          <6> QED
            BY <2>2, <6>2
        <5> QED
          BY <5>1 DEF Unasked, Changes
      <4>5. CASE UNCHANGED <<procs[p].alive, procs[p].hung>> /\
                 \E n \in Nat : procs'[p].replies = Append(procs[p].replies,
                                     [answer |-> procs[p].requests[1].ask, accepted |-> n])
        <5>1. PICK n \in Nat : procs'[p].replies = Append(<<>>, [answer |-> asked, accepted |-> n])
          BY <4>2, <4>3, <4>5
        <5>2. Len(procs'[p].replies) = 1 /\ procs'[p].replies[1].answer = asked'
          BY <1>2, <5>1
        <5>3. Well(p)'
          BY <1>1, <4>2, <4>5 DEF Well
        <5> QED
          BY <4>4, <5>2, <5>3 DEF Answering
      <4>6. CASE /\ \E k \in DOMAIN procs[p].requests[1].ask : procs[p].requests[1].ask[k] \in Poison
                 /\ procs'[p].hung \/ ~procs'[p].alive
                 /\ UNCHANGED <<procs[p].replies>>
        <5>1. Tainted'
          BY <1>2, <4>3, <4>6 DEF Tainted
        <5> QED
          BY <4>2, <4>4, <4>6, <5>1 DEF Answering
      <4>7. procs[p].requests[1] \notin [policy : 0 .. MaxPolicy]
        BY <2>5
      <4> QED
        BY <2>1, <4>5, <4>6, <4>7
    <3> QED
      BY <3>2, <3>3
  <2> QED
    BY <2>1, <2>4, <2>5
<1>6. ASSUME Kill(p)
      PROVE  (Quiet(p) => Quiet(p)') /\ (Answering(p) => Answering(p)')
  <2>1. procs' = [procs EXCEPT ![p].alive = FALSE] /\ Suffered("kill")'
    BY <1>6, Disturbed DEF Kill, FaultClasses
  <2>2. procs'[p].requests = procs[p].requests /\ procs'[p].replies = procs[p].replies
    BY <2>1, Killed
  <2>3. ~Undisturbed'
    BY <2>1 DEF Undisturbed
  <2> QED
    BY <1>2, <2>2, <2>3 DEF Quiet, Answering, Changes, Unasked, Well
<1>7. ASSUME NEW q \in DOMAIN procs, q # p, Serve(q) \/ Kill(q)
      PROVE  procs'[p] = procs[p]
  BY <1>7, Served, Killed DEF Kill
<1> QED
  BY <1>3, <1>4, <1>5, <1>6, <1>7

-----------------------------------------------------------------------------
(* One round trip or restart at a time.                                    *)
Lane == OneLane /\ OwnAnswer /\ Innocent

LEMMA ProcessesKeepLane ==
    ASSUME Shaped, InTurn, Lane, SetPolicy \/ \E q \in DOMAIN procs : Serve(q) \/ Kill(q)
    PROVE  Lane'
<1>1. UNCHANGED <<pumpVars, threads, conn>>
  BY ZenonT(60) DEF SetPolicy, Serve, Kill
<1>2. UNCHANGED <<pos, out, pump, asked, singles, mine, threads, conn>>
  BY <1>1 DEF pumpVars
<1>3. Undisturbed' => Undisturbed
  BY FaultsRemain DEF Next, Undisturbed, FaultClasses
<1>4. conn # 0 => (Quiet(conn) => Quiet(conn)') /\ (Answering(conn) => Answering(conn)')
  <2> SUFFICES ASSUME conn # 0
               PROVE  (Quiet(conn) => Quiet(conn)') /\ (Answering(conn) => Answering(conn)')
    OBVIOUS
  <2>1. PICK p \in DOMAIN procs : p = conn
    BY DecoderFields
  <2>2. (Quiet(p) => Quiet(p)') /\ (Answering(p) => Answering(p)')
    BY PipesKeep
  <2>3. (Quiet(conn)' <=> Quiet(p)') /\ (Answering(conn)' <=> Answering(p)')
    BY <1>2, <2>1 DEF Quiet, Answering, Changes, Unasked, Well
  <2> QED
    BY <2>1, <2>2, <2>3
<1>5. Tainted => Tainted'
  BY <1>2 DEF Tainted
<1>6. OneLane'
  BY <1>2, <1>3, <1>4, <1>5 DEF Lane, OneLane
<1>7. OwnAnswer' /\ Innocent'
  BY <1>2, <1>3 DEF Lane, OwnAnswer, Innocent
<1> QED
  BY SMTT(60), <1>6, <1>7 DEF Lane

LEMMA ThreadsKeepLane ==
    ASSUME Shaped, InTurn, Lane, NEW t \in DOMAIN threads, Trip(t) \/ Restart(t)
    PROVE  Lane'
<1>1. /\ UNCHANGED <<pos, out, pump, asked, singles, mine>>
      /\ threads' \in Seq(Thread) /\ DOMAIN threads' = DOMAIN threads
      /\ \A u \in DOMAIN threads : u # t => threads'[u] = threads[u]
      /\ threads'[t].batch = threads[t].batch
  BY ThreadMoves DEF pumpVars
<1>2. t = mine /\ mine # 0 /\ pump \in {"trip", "restart"}
  <2>1. threads[t].pc \in {"send", "poll", "recv", "kill", "fold", "boot", "attach"}
    BY DEF Trip, Restart, Send, Poll, TimesOut, Recv, KillOld, Fold, Boot, ForkFails, Attach
  <2>2. t = mine
    BY <2>1 DEF Lane, OneLane
  <2>3. mine # 0
    BY <2>2, DecoderFields
  <2>4. pump # "idle" /\ pump # "dead"
    BY <2>1, <2>2, <2>3 DEF Lane, OneLane, InTurn
  <2> QED
    BY <2>2, <2>3, <2>4 DEF Shaped
<1>3. Undisturbed' => Undisturbed
  BY ThreadMoves DEF Undisturbed, FaultClasses
<1>4. OwnAnswer' /\ Innocent'
  BY <1>1, <1>3 DEF Lane, OwnAnswer, Innocent
<1>5. \A u \in DOMAIN threads' : u # mine' => threads'[u].pc \in {"done", "failed", "raised"}
  BY <1>1, <1>2 DEF Lane, OneLane
<1>6. Tainted => Tainted'
  BY <1>1 DEF Tainted
<1>7. conn # 0 => conn \in DOMAIN procs
  BY DecoderFields
<1>8. ASSUME UNCHANGED <<procs, conn>>
      PROVE  (Quiet(conn) => Quiet(conn)') /\ (Answering(conn) => Answering(conn)')
  BY <1>1, <1>3, <1>6, <1>8 DEF Quiet, Answering, Changes, Unasked, Well
<1>9. CASE pump = "trip"
  <2>1. /\ conn # 0 /\ threads[t].batch = asked
        /\ threads[t].pc \in {"send", "poll", "recv", "done", "failed"}
        /\ threads[t].pc = "send" => Quiet(conn)
        /\ threads[t].pc \in {"poll", "recv"} => Answering(conn)
    BY <1>2, <1>9 DEF Lane, OneLane, InTurn
  <2>2. ASSUME /\ conn' # 0
               /\ \/ threads'[t].pc \in {"poll", "recv"} /\ Answering(conn)'
                  \/ threads'[t].pc = "done" /\ Quiet(conn)' /\ threads'[t].answer = asked
                  \/ threads'[t].pc = "failed" /\ (Undisturbed' => Tainted)
        PROVE  Lane'
    BY <1>1, <1>2, <1>4, <1>5, <1>6, <1>9, <2>2 DEF Lane, OneLane
  <2>3. CASE Send(t)
    <3>1. threads[t].pc = "send" /\ conn' = conn
      BY <2>3 DEF Send
    <3>2. CASE ~procs[conn].alive
      <4>1. Goto(t, "failed") /\ UNCHANGED procs /\ ~Undisturbed
        BY <2>1, <2>3, <3>1, <3>2 DEF Send, Quiet, Well
      <4>2. threads'[t].pc = "failed"
        BY <4>1, GoneTo DEF PCs
      <4> QED
        BY <1>3, <2>1, <2>2, <3>1, <4>1, <4>2
    <3>3. CASE procs[conn].alive
      <4>1. /\ Goto(t, "poll")
            /\ procs' = [procs EXCEPT ![conn].requests = Append(@, [ask |-> asked])]
        BY <2>1, <2>3, <3>1, <3>3 DEF Send
      <4>2. threads'[t].pc = "poll"
        BY <4>1, GoneTo DEF PCs
      <4>3. [ask |-> asked] \in [ask : Seq(Recs)] /\ [ask |-> asked] \in Requests
        BY DEF Shaped, Requests
      <4>4. PICK p \in DOMAIN procs : p = conn
        BY <1>7, <2>1
      <4>5. procs' = [procs EXCEPT ![p].requests = Append(@, [ask |-> asked])]
        BY <4>1, <4>4
      <4>6. /\ DOMAIN (procs'[p].requests) = DOMAIN procs[p].requests \cup {Len(procs[p].requests) + 1}
            /\ procs'[p].requests[Len(procs[p].requests) + 1] = [ask |-> asked]
            /\ \A i \in DOMAIN procs[p].requests : i \in Nat /\ i < Len(procs[p].requests) + 1
            /\ Changes(p)' = Changes(p)
        BY <4>3, <4>5, ChangesGrow
      <4>7. /\ procs'[p].alive = procs[p].alive /\ procs'[p].hung = procs[p].hung
            /\ procs'[p].replies = procs[p].replies
        BY <4>3, <4>5, Requested
      <4>8. Unasked(p) /\ procs[p].replies = <<>> /\ Well(p)
        BY <2>1, <3>1, <4>4 DEF Quiet
      <4> DEFINE n == Len(procs[p].requests) + 1
      <4>9. /\ n \in DOMAIN (procs'[p].requests) /\ procs'[p].requests[n] = [ask |-> asked']
            /\ Changes(p)' = DOMAIN (procs'[p].requests) \ {n}
        <5>1. n \notin DOMAIN procs[p].requests
          BY <4>6
        <5> QED
          BY <1>1, <4>6, <4>8, <5>1 DEF Unasked
      <4>10. Well(p)' /\ procs'[p].replies = <<>>
        BY <1>3, <4>7, <4>8 DEF Well
      <4> HIDE DEF n
      <4>11. Answering(conn)'
        BY <3>1, <4>4, <4>9, <4>10 DEF Answering, Changes, Well
      <4> QED
        BY <2>1, <2>2, <3>1, <4>2, <4>11
    <3> QED
      BY <3>2, <3>3
  <2>4. CASE Poll(t)
    <3>1. Goto(t, "recv") /\ UNCHANGED <<procs, conn>> /\ threads[t].pc = "poll"
      BY <2>1, <2>4 DEF Poll
    <3>2. threads'[t].pc = "recv"
      BY <3>1, GoneTo DEF PCs
    <3> QED
      BY <1>8, <2>1, <2>2, <3>1, <3>2
  <2>5. CASE TimesOut(t)
    <3>1. /\ Goto(t, "failed") /\ UNCHANGED <<procs, conn>> /\ threads[t].pc = "poll"
          /\ procs[conn].replies = <<>> /\ procs[conn].alive
          /\ procs[conn].hung \/ procs[conn].requests = <<>> \/ Fault("slow")
      BY <2>5 DEF TimesOut
    <3>2. threads'[t].pc = "failed"
      BY <3>1, GoneTo DEF PCs
    <3>3. Fault("slow") => ~Undisturbed'
      BY Disturbed DEF Undisturbed, FaultClasses
    <3>4. procs[conn].hung \/ procs[conn].requests = <<>> => (Undisturbed => Tainted)
      BY <2>1, <3>1 DEF Answering, Well
    <3> QED
      BY <1>3, <2>1, <2>2, <3>1, <3>2, <3>3, <3>4
  <2>6. CASE Recv(t)
    <3>1. threads[t].pc = "recv" /\ conn' = conn /\ Answering(conn)
      BY <2>1, <2>6 DEF Recv
    <3>2. CASE procs[conn].replies = <<>>
      <4>1. ~procs[conn].alive /\ Goto(t, "failed")
        BY <2>1, <2>6, <3>2 DEF Recv
      <4>2. threads'[t].pc = "failed"
        BY <4>1, GoneTo DEF PCs
      <4>3. Undisturbed => Tainted
        BY <3>1, <3>2, <4>1 DEF Answering, Well
      <4> QED
        BY <1>3, <2>1, <2>2, <3>1, <4>2, <4>3
    <3>3. CASE procs[conn].replies # <<>>
      <4>1. /\ Unasked(conn) /\ Well(conn)
            /\ Len(procs[conn].replies) = 1 /\ procs[conn].replies[1].answer = asked
        BY <3>1, <3>3 DEF Answering
      <4>2. procs' = [procs EXCEPT ![conn].replies = Tail(@)]
        BY <2>1, <2>6, <3>3 DEF Recv
      <4>3. PICK p \in DOMAIN procs : p = conn
        BY <1>7, <2>1
      <4>4. /\ procs'[p].alive = procs[p].alive /\ procs'[p].hung = procs[p].hung
            /\ procs'[p].requests = procs[p].requests /\ procs'[p].replies = Tail(procs[p].replies)
            /\ procs[p].replies \in Seq(Replies) /\ Head(procs[p].replies) = procs[p].replies[1]
        BY <3>3, <4>2, <4>3, Received
      <4>5. procs'[p].replies = <<>>
        <5>1. Tail(procs[p].replies) \in Seq(Replies) /\ Len(Tail(procs[p].replies)) = 0
          BY <3>3, <4>1, <4>3, <4>4, Taken
        <5> QED
          BY <4>4, <5>1, EmptySeq
      <4>6. Quiet(conn)'
        BY <1>3, <3>1, <4>1, <4>3, <4>4, <4>5 DEF Quiet, Unasked, Changes, Well
      <4>7. Head(procs[conn].replies).answer = asked
        BY <4>1, <4>3, <4>4
      <4>8. threads' = [threads EXCEPT ![t].pc = "done", ![t].answer = asked]
        BY <2>1, <2>6, <3>3, <4>7 DEF Recv, Matches
      <4>9. threads'[t].pc = "done" /\ threads'[t].answer = asked
        BY <4>8, DecoderFields DEF Thread
      <4> QED
        BY <2>1, <2>2, <3>1, <4>6, <4>9
    <3> QED
      BY <3>2, <3>3
  <2>7. ~Restart(t)
    BY <2>1 DEF Restart, KillOld, Fold, Boot, ForkFails, Attach
  <2> QED
    BY <2>3, <2>4, <2>5, <2>6, <2>7 DEF Trip
<1>10. CASE pump = "restart"
  <2>1. threads[t].pc \in {"kill", "fold", "boot", "attach", "done", "raised"} /\ (Undisturbed => Tainted)
    BY <1>2, <1>10 DEF Lane, OneLane
  <2>2. ASSUME \/ threads'[t].pc \in {"fold", "boot", "attach", "raised"}
               \/ threads'[t].pc = "done" /\ conn' # 0 /\ Quiet(conn)'
        PROVE  Lane'
    BY <1>1, <1>2, <1>3, <1>4, <1>5, <1>6, <1>10, <2>1, <2>2 DEF Lane, OneLane
  <2>3. CASE KillOld(t) \/ Fold(t) \/ ForkFails(t)
    <3>1. \E pc \in {"fold", "boot", "raised"} : Goto(t, pc)
      BY <2>3 DEF KillOld, Fold, ForkFails
    <3>2. threads'[t].pc \in {"fold", "boot", "raised"}
      BY <3>1, GoneTo DEF PCs
    <3> QED
      BY <2>2, <3>2
  <2>4. CASE Boot(t)
    <3>1. threads' = [threads EXCEPT ![t].pc = "attach", ![t].boot = policy]
      BY <2>4 DEF Boot, BootPolicy
    <3>2. threads'[t].pc = "attach"
      BY <3>1, DecoderFields DEF Thread
    <3> QED
      BY <2>2, <3>2
  <2>5. CASE Attach(t)
    <3>1. /\ procs' = Append(procs, NewProcess(threads[t].boot)) /\ conn' = Len(procs) + 1
          /\ Goto(t, "done")
      BY <2>5 DEF Attach
    <3>2. threads'[t].pc = "done"
      BY <3>1, GoneTo DEF PCs
    <3>3. procs'[conn'] = NewProcess(threads[t].boot) /\ conn' # 0
      BY <3>1, AppendProperties, DecoderFields DEF Shaped
    <3>4. Quiet(conn)'
      BY <3>3 DEF NewProcess, Quiet, Unasked, Changes, Well
    <3> QED
      BY <2>2, <3>2, <3>3, <3>4
  <2>6. ~Trip(t)
    BY <2>1 DEF Trip, Send, Poll, TimesOut, Recv
  <2> QED
    BY <2>3, <2>4, <2>5, <2>6 DEF Restart
<1> QED
  BY <1>2, <1>9, <1>10

LEMMA PumpKeepsLane ==
    ASSUME Shaped, InTurn, Lane, PumpStep
    PROVE  Lane'
<1>1. UNCHANGED <<procs, conn, faults>>
  BY DEF PumpStep, Decode, DecodeSingle, Answered, Failed, Restarted, PumpDies
<1>2. Undisturbed' = Undisturbed /\ (Quiet(conn) => Quiet(conn)')
  BY <1>1 DEF Quiet, Changes, Unasked, Well, Undisturbed, Suffered
<1>3. /\ \A t \in DOMAIN threads : t # mine => threads[t].pc \in {"done", "failed", "raised"}
      /\ DOMAIN threads = 1 .. Len(threads) /\ Len(threads) \in Nat
      /\ asked \in Seq(Recs) /\ pos \in Nat /\ out \in [Recs -> Recs \cup {Unreadable, None}]
      /\ DOMAIN asked = 1 .. Len(asked) /\ Len(asked) \in Nat /\ Len(singles) \in Nat
      /\ \A i \in DOMAIN asked : asked[i] = pos + i /\ asked[i] \in Recs
      /\ pos + Len(asked) + Len(singles) <= MaxRec /\ MaxRec \in Nat
  BY SMTT(60), DecoderFields, DecoderConstants DEF Lane, OneLane, Shaped, InTurn
<1>4. ASSUME NEW kind \in {"trip", "restart"}, NEW batch \in Seq(Recs), Await(kind, batch),
             \A t \in DOMAIN threads : threads[t].pc \in {"done", "failed", "raised"}
      PROVE  /\ \A t \in DOMAIN threads' : t # mine' => threads'[t].pc \in {"done", "failed", "raised"}
             /\ threads'[mine'].pc = IF kind = "trip" THEN "send" ELSE "kill"
             /\ pump' = kind
  BY <1>4, Awaited
<1>5. UNCHANGED <<pos, out>> => OwnAnswer' /\ Innocent'
  BY <1>2 DEF Lane, OwnAnswer, Innocent
<1>6. CASE Decode \/ DecodeSingle
  <2>1. pump = "idle" /\ Await("trip", asked') /\ UNCHANGED <<pos, out>>
    BY <1>6 DEF Decode, DecodeSingle
  <2>2. asked' \in Seq(Recs)
    BY <1>6, PumpKeepsShape DEF PumpStep, Shaped
  <2>3. \A t \in DOMAIN threads : threads[t].pc \in {"done", "failed", "raised"}
    BY <1>3, <2>1 DEF InTurn
  <2>4. /\ \A t \in DOMAIN threads' : t # mine' => threads'[t].pc \in {"done", "failed", "raised"}
        /\ threads'[mine'].pc = "send" /\ pump' = "trip"
    BY <1>4, <2>1, <2>2, <2>3
  <2>5. conn' # 0 /\ Quiet(conn)'
    BY <1>1, <1>2, <2>1 DEF Lane, OneLane
  <2>6. OneLane'
    BY <2>4, <2>5 DEF OneLane
  <2> QED
    BY <1>5, <2>1, <2>6 DEF Lane
<1>7. CASE Answered
  <2>1. /\ pump = "trip" /\ threads[mine].pc = "done" /\ pos' = pos + Len(asked)
        /\ pump' = "idle" /\ mine' = 0 /\ UNCHANGED threads
        /\ out' = [r \in Recs |-> IF \E i \in DOMAIN asked : asked[i] = r
                                  THEN threads[mine].answer[CHOOSE i \in DOMAIN asked : asked[i] = r]
                                  ELSE out[r]]
    BY <1>7 DEF Answered
  <2>2. conn # 0 /\ Quiet(conn) /\ threads[mine].answer = asked
    BY <2>1 DEF Lane, OneLane
  <2>3. out' = [r \in Recs |-> IF \E i \in DOMAIN asked : asked[i] = r THEN r ELSE out[r]]
    BY <2>1, <2>2
  <2>4. \A r \in 1 .. pos' : r \in Recs /\ (out'[r] = r \/ (r \in 1 .. pos /\ out'[r] = out[r]))
    <3> TAKE r \in 1 .. pos'
    <3>1. r \in Recs
      BY <1>3, <2>1 DEF Recs
    <3>2. CASE r \in 1 .. pos
      BY <2>3, <3>1, <3>2
    <3>3. CASE r \notin 1 .. pos
      <4>1. r - pos \in DOMAIN asked /\ asked[r - pos] = r
        BY <1>3, <2>1, <3>3
      <4> QED
        BY <2>3, <3>1, <4>1
    <3> QED
      BY <3>2, <3>3
  <2>5. OwnAnswer'
    BY <2>4 DEF Lane, OwnAnswer
  <2>6. Innocent'
    <3>1. \A r \in Recs : r # Unreadable
      BY <1>3 DEF Recs, Unreadable
    <3>2. Unreadable' = Unreadable
      BY DEF Unreadable
    <3> QED
      BY <1>2, <2>4, <3>1, <3>2 DEF Lane, Innocent
  <2>7. \A t \in DOMAIN threads : threads[t].pc \in {"done", "failed", "raised"}
    BY <1>3, <2>1
  <2>8. OneLane'
    BY <1>1, <1>2, <2>1, <2>2, <2>7 DEF OneLane
  <2> QED
    BY <2>5, <2>6, <2>8 DEF Lane
<1>8. CASE Failed
  <2>1. /\ pump = "trip" /\ threads[mine].pc = "failed" /\ Await("restart", <<>>)
        /\ UNCHANGED <<pos, out, asked>> /\ <<>> \in Seq(Recs)
    BY <1>8 DEF Failed
  <2>2. \A t \in DOMAIN threads : threads[t].pc \in {"done", "failed", "raised"}
    BY <1>3, <2>1
  <2>3. /\ \A t \in DOMAIN threads' : t # mine' => threads'[t].pc \in {"done", "failed", "raised"}
        /\ threads'[mine'].pc = "kill" /\ pump' = "restart"
    BY <1>4, <2>1, <2>2
  <2>4. Undisturbed' => Tainted'
    BY <1>2, <2>1 DEF Lane, OneLane, Tainted
  <2>5. OneLane'
    BY <2>3, <2>4 DEF OneLane
  <2> QED
    BY <1>5, <2>1, <2>5 DEF Lane
<1>9. CASE Restarted
  <2>1. /\ pump = "restart" /\ threads[mine].pc = "done" /\ pump' = "idle" /\ mine' = 0 /\ UNCHANGED threads
        /\ \/ /\ Len(asked) = 1 /\ out' = [out EXCEPT ![asked[1]] = Unreadable] /\ pos' = pos + 1
           \/ UNCHANGED <<pos, out>>
    BY <1>9 DEF Restarted, Alone
  <2>2. conn # 0 /\ Quiet(conn) /\ (Undisturbed => Tainted)
    BY <2>1 DEF Lane, OneLane
  <2>3. \A t \in DOMAIN threads : threads[t].pc \in {"done", "failed", "raised"}
    BY <1>3, <2>1
  <2>4. OneLane'
    BY <1>1, <1>2, <2>1, <2>2, <2>3 DEF OneLane
  <2>5. OwnAnswer' /\ Innocent'
    <3>1. CASE UNCHANGED <<pos, out>>
      BY <1>5, <3>1
    <3>2. CASE Len(asked) = 1 /\ out' = [out EXCEPT ![asked[1]] = Unreadable] /\ pos' = pos + 1
      <4>1. asked[1] = pos + 1 /\ pos + 1 \in Recs /\ DOMAIN asked = {1}
        BY <1>3, <3>2
      <4>2. out'[pos + 1] = Unreadable /\ \A r \in 1 .. pos : out'[r] = out[r]
        <5>1. \A r \in 1 .. pos : r \in Recs /\ r # pos + 1
          BY <1>3 DEF Recs
        <5> QED
          BY <1>3, <3>2, <4>1, <5>1
      <4>3. \A r \in 1 .. pos' : r = pos + 1 \/ r \in 1 .. pos
        BY <1>3, <3>2
      <4>4. Undisturbed => pos + 1 \in Poison
        BY <2>2, <4>1 DEF Tainted
      <4>5. OwnAnswer'
        BY <4>2, <4>3 DEF Lane, OwnAnswer, Unreadable
      <4>6. Innocent'
        BY <1>2, <4>2, <4>3, <4>4 DEF Lane, Innocent, Unreadable
      <4> QED
        BY <4>5, <4>6
    <3> QED
      BY <2>1, <3>1, <3>2
  <2> QED
    BY <2>4, <2>5 DEF Lane
<1>10. CASE PumpDies
  <2>1. threads[mine].pc = "raised" /\ pump' = "dead" /\ UNCHANGED <<pos, out, mine, threads>>
    BY <1>10 DEF PumpDies
  <2>2. OneLane'
    BY <1>3, <2>1 DEF OneLane
  <2> QED
    BY <1>5, <2>1, <2>2 DEF Lane
<1> QED
  BY <1>6, <1>7, <1>8, <1>9, <1>10 DEF PumpStep

LEMMA DecoderStays ==
    ASSUME DecoderInv, [Next]_vars
    PROVE  DecoderInv'
<1> USE DEF DecoderInv
<1>1. CASE Next
  <2>1. Shaped' /\ InTurn'
    BY <1>1, PumpKeepsShape, ThreadsKeepShape, ProcessesKeepShape DEF Next
  <2>2. Told'
    BY <1>1, ToldStays
  <2>3. ASSUME ~Suffered("cancel")'
        PROVE  Lane'
    <3>1. Lane
      BY <1>1, <2>3, FaultsRemain DEF Lane, FaultClasses
    <3>2. ~Cancel
      BY <2>3, Disturbed DEF Cancel, FaultClasses
    <3> QED
      BY <1>1, <3>1, <3>2, PumpKeepsLane, ThreadsKeepLane, ProcessesKeepLane DEF Next
  <2> QED
    BY <2>1, <2>2, <2>3 DEF Lane
<1>2. CASE UNCHANGED vars
  <2>1. /\ UNCHANGED <<pos, out, pump, asked, singles, mine, threads, procs, conn>>
        /\ UNCHANGED <<counted, earlier, policy, faults>>
    BY <1>2 DEF vars
  <2>2. Shaped' /\ InTurn' /\ Told'
    BY <2>1 DEF Shaped, InTurn, Told, Fresh, Changes, Suffered
  <2>3. /\ OneLane => OneLane'
        /\ OwnAnswer => OwnAnswer'
        /\ Innocent => Innocent'
    BY <2>1 DEF OneLane, OwnAnswer, Innocent, Quiet, Answering, Unasked, Changes, Well, Undisturbed,
       Tainted, Suffered
  <2>4. Suffered("cancel")' = Suffered("cancel")
    BY <2>1 DEF Suffered
  <2> QED
    BY <2>2, <2>3, <2>4
<1> QED
  BY <1>1, <1>2

-----------------------------------------------------------------------------
(* The decoder's variables keep their types.                               *)
THEOREM DecoderTyped == Spec => []TypeOK
<1>1. DecoderInv => TypeOK
  <2> SUFFICES ASSUME DecoderInv PROVE TypeOK
    OBVIOUS
  <2>1. Shaped /\ InTurn
    BY DEF DecoderInv
  <2>2. pos \in 0 .. MaxRec
    <3>1. Len(asked) \in Nat /\ Len(singles) \in Nat /\ pos \in Nat /\ MaxRec \in Nat
      BY <2>1, DecoderFields, DecoderConstants DEF Shaped
    <3> QED
      BY <2>1, <3>1 DEF InTurn
  <2>3. \A p \in DOMAIN procs : [f \in {"alive", "hung", "policy", "accepted"} |-> procs[p][f]] \in Process
    <3> TAKE p \in DOMAIN procs
    <3>1. procs[p] \in Decoders
      BY <2>1, DecoderFields
    <3>2. /\ procs[p].alive \in BOOLEAN /\ procs[p].hung \in BOOLEAN
          /\ procs[p].policy \in 0 .. MaxPolicy /\ procs[p].accepted \in Nat
      BY <3>1 DEF Decoders
    <3> QED
      BY <3>2 DEF Process
  <2> QED
    BY <2>1, <2>2, <2>3, DecoderFields DEF Shaped, TypeOK
<1> QED
  BY DecoderBegins, DecoderStays, <1>1, PTL DEF Spec

(* An answer is never taken for another question's, though only its length *)
(* is checked, as long as no round trip was cancelled: there is one at a   *)
(* time, and between two of them the pipes hold no question and no answer. *)
THEOREM EachItsOwnAnswer == Spec => []OwnAnswerSafe
<1>1. DecoderInv => OwnAnswerSafe
  BY DEF DecoderInv, OwnAnswerSafe
<1> QED
  BY DecoderBegins, DecoderStays, <1>1, PTL DEF Spec

(* Where nothing but a datagram ends, hangs or slows a decoder, no other   *)
(* record is quarantined with it: a round trip fails only when its batch   *)
(* holds such a datagram, and one is quarantined only when it is alone.    *)
THEOREM InnocentDecoded == Spec => []OnlyPoisonUnreadable
<1>1. DecoderInv => OnlyPoisonUnreadable
  BY DEF DecoderInv, OnlyPoisonUnreadable, Innocent, Undisturbed
<1> QED
  BY DecoderBegins, DecoderStays, <1>1, PTL DEF Spec

(* The two processes apply what an administrator set last: the last change *)
(* in the pipe of a running process is the last one set, and a process is  *)
(* started with it.                                                        *)
THEOREM LatestIsApplied == MCSpec => []LatestApplied
<1>1. MCInit => DecoderInv /\ IngestInv
  BY DecoderBegins, IngestBegins DEF MCInit
<1>2. DecoderInv /\ IngestInv /\ [MCNext]_mcVars => (DecoderInv /\ IngestInv)'
  <2>1. [MCNext]_mcVars => [Next]_vars /\ [IngestNext]_ingestVars
    BY DEF MCNext, Decoding, Ingesting, mcVars
  <2> QED
    BY <2>1, DecoderStays, IngestStays
<1>3. DecoderInv => PolicyApplied
  <2> SUFFICES ASSUME Told, conn # 0, procs[conn].requests = <<>>, procs[conn].alive, ~Suffered("late")
               PROVE  procs[conn].policy = policy
    BY DEF DecoderInv, PolicyApplied
  <2>1. Fresh(conn) /\ Changes(conn) = {}
    BY DEF Told, Changes
  <2> QED
    BY <2>1 DEF Fresh
<1>4. DecoderInv /\ IngestInv => LatestApplied
  BY <1>3, AllowlistFollows DEF LatestApplied
<1> QED
  BY <1>1, <1>2, <1>4, PTL DEF MCSpec
=============================================================================
