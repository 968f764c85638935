----------------------------- MODULE NocProofs -----------------------------
(***************************************************************************)
(* What holds of the NOC for any number of cases, agents and runs: the     *)
(* tables keep their types, the take clock is the truth about the queue,   *)
(* an agent shown running has a run, and the organization is a forest as   *)
(* long as no agent that left is back.                                     *)
(*                                                                         *)
(* Nearly every step is a chain of store methods on one case, so the proof *)
(* goes by method: each rewrites its case only (Rewrites), and a chain of  *)
(* them that ends with the case's ledger in order works the case (Works).  *)
(* Transactions that work several cases are put together from the works of *)
(* each (Together), and what a step does to the tables as a whole is that  *)
(* it keeps them sound (Holds, Keeps).                                     *)
(***************************************************************************)
EXTENDS Noc, FiniteSetTheorems, SequenceTheorems, TLAPS

-----------------------------------------------------------------------------
(* The tables, field by field *)

(* A table each: what the rows of db hold. *)
LEMMA TablesTyped ==
    ASSUME NEW d \in Tables
    PROVE  /\ d.case \in [Cases -> CaseRows] /\ d.cycle \in [Cases -> Seq(CycleRows)]
           /\ d.sit \in [Cases -> {"none", "open", "cleared", "merged"}]
           /\ d.alarm \in [Cases -> [Alarms -> AlarmRows]] /\ d.heard \in [Cases -> Heard]
           /\ d.agent \in [Agents -> AgentRows] /\ d.run \in [RunIds -> RunRows]
           /\ d.playbook \in [Cases -> BOOLEAN]
BY DEF Tables

LEMMA PutCase ==
    ASSUME NEW d \in Tables, NEW s \in Cases, NEW c \in CaseRows
    PROVE  /\ [d EXCEPT !.case[s] = c] \in Tables
           /\ [d EXCEPT !.case[s] = c].case = [d.case EXCEPT ![s] = c]
           /\ [d EXCEPT !.case[s] = c].cycle = d.cycle
           /\ [d EXCEPT !.case[s] = c].sit = d.sit
           /\ [d EXCEPT !.case[s] = c].alarm = d.alarm
           /\ [d EXCEPT !.case[s] = c].heard = d.heard
           /\ [d EXCEPT !.case[s] = c].agent = d.agent
           /\ [d EXCEPT !.case[s] = c].run = d.run
           /\ [d EXCEPT !.case[s] = c].playbook = d.playbook
BY DEF Tables

LEMMA PutCycle ==
    ASSUME NEW d \in Tables, NEW s \in Cases, NEW q \in Seq(CycleRows)
    PROVE  /\ [d EXCEPT !.cycle[s] = q] \in Tables
           /\ [d EXCEPT !.cycle[s] = q].case = d.case
           /\ [d EXCEPT !.cycle[s] = q].cycle = [d.cycle EXCEPT ![s] = q]
           /\ [d EXCEPT !.cycle[s] = q].sit = d.sit
           /\ [d EXCEPT !.cycle[s] = q].alarm = d.alarm
           /\ [d EXCEPT !.cycle[s] = q].heard = d.heard
           /\ [d EXCEPT !.cycle[s] = q].agent = d.agent
           /\ [d EXCEPT !.cycle[s] = q].run = d.run
           /\ [d EXCEPT !.cycle[s] = q].playbook = d.playbook
BY DEF Tables

-----------------------------------------------------------------------------
(* A case's cycles.  At most one is not over, so the latest that is taken, *)
(* or is not, is that one or none.                                         *)

Short(q) == q = <<>> \/ \E c \in CycleRows : q = <<c>>

Left(q) == IF q # <<>> /\ q[1].taken THEN <<>> ELSE q
Withdrawn(q) == IF q # <<>> /\ ~q[1].taken THEN <<>> ELSE q
Taken(q) == IF q # <<>> /\ ~q[1].taken THEN <<[q[1] EXCEPT !.taken = TRUE]>> ELSE q
Priced(q, prio) == IF q # <<>> /\ ~q[1].taken THEN <<[q[1] EXCEPT !.prio = prio]>> ELSE q

(* The lists of one cycle and of none that the operations make. *)
LEMMA ShortLists ==
    /\ \A q : Short(q) => q \in Seq(CycleRows) /\ Len(q) <= 1
    /\ \A q : Short(q) => Short(Left(q)) /\ Short(Withdrawn(q)) /\ Short(Taken(q))
    /\ \A q, prio : Short(q) /\ prio \in {"minor", "critical"} => Short(Priced(q, prio))
    /\ \A q \in Seq(CycleRows) : Len(q) <= 1 => Short(q)
<1>1. \A q : Short(q) => q \in Seq(CycleRows) /\ Len(q) <= 1
  <2> SUFFICES ASSUME NEW q, Short(q)
               PROVE  q \in Seq(CycleRows) /\ Len(q) <= 1
    OBVIOUS
  <2>1. CASE q = <<>>
    BY <2>1
  <2>2. CASE \E c \in CycleRows : q = <<c>>
    BY <2>2
  <2> QED
    BY <2>1, <2>2 DEF Short
<1>2. \A c \in CycleRows : [c EXCEPT !.taken = TRUE] \in CycleRows
  BY DEF CycleRows
<1>3. \A c \in CycleRows, prio \in {"minor", "critical"} : [c EXCEPT !.prio = prio] \in CycleRows
  BY DEF CycleRows
<1>4. \A q : Short(q) => Short(Left(q)) /\ Short(Withdrawn(q)) /\ Short(Taken(q))
  BY <1>2 DEF Short, Left, Withdrawn, Taken
<1>5. \A q, prio : Short(q) /\ prio \in {"minor", "critical"} => Short(Priced(q, prio))
  <2> SUFFICES ASSUME NEW q, NEW prio \in {"minor", "critical"}, Short(q)
               PROVE  Short(Priced(q, prio))
    OBVIOUS
  <2>1. CASE q = <<>>
    BY <2>1 DEF Short, Priced
  <2>2. CASE \E c \in CycleRows : q = <<c>>
    <3>1. PICK c \in CycleRows : q = <<c>>
      BY <2>2
    <3>2. [c EXCEPT !.prio = prio] \in CycleRows /\ q[1] = c
      BY <1>3, <3>1
    <3> QED
      BY <3>1, <3>2 DEF Short, Priced
  <2> QED
    BY <2>1, <2>2 DEF Short
<1>6. \A q \in Seq(CycleRows) : Len(q) <= 1 => Short(q)
  <2> SUFFICES ASSUME NEW q \in Seq(CycleRows), Len(q) <= 1
               PROVE  Short(q)
    OBVIOUS
  <2>1. CASE Len(q) = 0
    BY <2>1 DEF Short
  <2>2. CASE Len(q) = 1
    <3>1. q[1] \in CycleRows /\ <<q[1]>> \in Seq(CycleRows) /\ Len(<<q[1]>>) = 1
      BY <2>2
    <3>2. q = <<q[1]>>
      BY <3>1, <2>2, SeqEqual
    <3> QED
      BY <3>1, <3>2 DEF Short
  <2>3. Len(q) \in Nat
    OBVIOUS
  <2> QED
    BY SMTT(60), <2>1, <2>2, <2>3
<1> QED
  BY <1>1, <1>4, <1>5, <1>6

LEMMA LatestCycle ==
    ASSUME NEW d \in Tables, NEW s \in Cases, Short(d.cycle[s]), NEW taken \in BOOLEAN
    PROVE  latest_cycle(d, s, taken) =
             IF d.cycle[s] # <<>> /\ d.cycle[s][1].taken = taken THEN 1 ELSE 0
<1> DEFINE q == d.cycle[s]
           I == {i \in 1 .. Len(q) : q[i].taken = taken}
<1>1. CASE q = <<>>
  <2>1. I = {}
    BY <1>1
  <2> QED
    BY <1>1, <2>1 DEF latest_cycle, SelectLastInSeq
<1>2. CASE \E c \in CycleRows : q = <<c>>
  <2>1. PICK c \in CycleRows : q = <<c>>
    BY <1>2
  <2>2. Len(q) = 1 /\ q[1] = c /\ q # <<>>
    BY <2>1
  <2>3. CASE c.taken = taken
    <3>1. I = {1}
      BY <2>2, <2>3
    <3>2. latest_cycle(d, s, taken) = 1
      BY <3>1 DEF latest_cycle, SelectLastInSeq, Max
    <3> QED
      BY <3>2, <2>2, <2>3
  <2>4. CASE c.taken # taken
    <3>1. I = {}
      BY <2>2, <2>4
    <3>2. latest_cycle(d, s, taken) = 0
      BY <3>1 DEF latest_cycle, SelectLastInSeq
    <3> QED
      BY <3>2, <2>2, <2>4
  <2> QED
    BY <2>3, <2>4
<1> QED
  BY <1>1, <1>2 DEF Short

LEMMA LatestTaken ==
    ASSUME NEW d \in Tables, NEW s \in Cases, Short(d.cycle[s])
    PROVE  /\ latest_cycle(d, s, TRUE) = IF d.cycle[s] # <<>> /\ d.cycle[s][1].taken THEN 1 ELSE 0
           /\ latest_cycle(d, s, FALSE) = IF d.cycle[s] # <<>> /\ ~d.cycle[s][1].taken THEN 1 ELSE 0
<1>1. d.cycle[s] # <<>> => d.cycle[s][1].taken \in BOOLEAN
  BY DEF Short, CycleRows
<1> QED
  BY <1>1, LatestCycle

-----------------------------------------------------------------------------
(* What an operation on a case leaves alone: the other cases, the          *)
(* situations, the alarms, the agents, the playbooks and every run, but    *)
(* for a row that was free and holds a wake-up now.                        *)
Rewrites(d, e, s) ==
    /\ e \in Tables
    /\ e.sit = d.sit /\ e.alarm = d.alarm /\ e.agent = d.agent /\ e.playbook = d.playbook
    /\ \A t \in Cases \ {s} : /\ e.case[t] = d.case[t] /\ e.cycle[t] = d.cycle[t]
                              /\ e.heard[t] = d.heard[t]
    /\ \A r \in RunIds : e.run[r] = d.run[r] \/ (d.run[r] = NoRun /\ e.run[r].status = "queued")

LEMMA RewritesTwice ==
    ASSUME NEW d, NEW e, NEW f, NEW s \in Cases, Rewrites(d, e, s), Rewrites(e, f, s)
    PROVE  Rewrites(d, f, s)
BY ZenonT(60) DEF Rewrites, NoRun

LEMMA RewritesNothing ==
    ASSUME NEW d \in Tables, NEW s \in Cases
    PROVE  Rewrites(d, d, s)
BY DEF Rewrites

LEMMA RewriteCase ==
    ASSUME NEW d \in Tables, NEW s \in Cases, NEW c \in CaseRows
    PROVE  /\ Rewrites(d, [d EXCEPT !.case[s] = c], s)
           /\ [d EXCEPT !.case[s] = c].case[s] = c
           /\ [d EXCEPT !.case[s] = c].cycle[s] = d.cycle[s]
<1> DEFINE e == [d EXCEPT !.case[s] = c]
<1>1. /\ e \in Tables /\ e.case = [d.case EXCEPT ![s] = c] /\ e.cycle = d.cycle
      /\ e.sit = d.sit /\ e.alarm = d.alarm /\ e.heard = d.heard /\ e.agent = d.agent
      /\ e.run = d.run /\ e.playbook = d.playbook
  BY PutCase
<1>2. d.case \in [Cases -> CaseRows]
  BY TablesTyped
<1> HIDE DEF e
<1> QED
  BY <1>1, <1>2 DEF Rewrites, e

LEMMA RewriteCycle ==
    ASSUME NEW d \in Tables, NEW s \in Cases, NEW q, Short(q)
    PROVE  /\ Rewrites(d, [d EXCEPT !.cycle[s] = q], s)
           /\ [d EXCEPT !.cycle[s] = q].cycle[s] = q
           /\ [d EXCEPT !.cycle[s] = q].case[s] = d.case[s]
<1> DEFINE e == [d EXCEPT !.cycle[s] = q]
<1>0. q \in Seq(CycleRows)
  BY ShortLists
<1>1. /\ e \in Tables /\ e.cycle = [d.cycle EXCEPT ![s] = q] /\ e.case = d.case
      /\ e.sit = d.sit /\ e.alarm = d.alarm /\ e.heard = d.heard /\ e.agent = d.agent
      /\ e.run = d.run /\ e.playbook = d.playbook
  BY <1>0, PutCycle
<1>2. d.cycle \in [Cases -> Seq(CycleRows)]
  BY TablesTyped
<1> HIDE DEF e
<1> QED
  BY <1>1, <1>2 DEF Rewrites, e

-----------------------------------------------------------------------------
(* The methods on a case's cycles *)

LEMMA OpenCyclesPriced ==
    ASSUME NEW q, Short(q), NEW prio \in {"minor", "critical"}
    PROVE  [i \in DOMAIN q |-> IF IsOpen(q[i]) THEN [q[i] EXCEPT !.prio = prio] ELSE q[i]]
             = Priced(q, prio)
<1> DEFINE f == [i \in DOMAIN q |-> IF IsOpen(q[i]) THEN [q[i] EXCEPT !.prio = prio] ELSE q[i]]
<1>1. CASE q = <<>>
  <2>1. f = <<>>
    BY <1>1
  <2> QED
    BY <1>1, <2>1 DEF Priced
<1>2. CASE \E c \in CycleRows : q = <<c>>
  <2>1. PICK c \in CycleRows : q = <<c>>
    BY <1>2
  <2> DEFINE g == IF c.taken THEN c ELSE [c EXCEPT !.prio = prio]
  <2>2. q[1] = c /\ DOMAIN q = {1} /\ q # <<>>
    BY <2>1
  <2>3. Priced(q, prio) = <<g>>
    BY <2>1, <2>2 DEF Priced
  <2>4. f = [i \in {1} |-> g]
    BY <2>2 DEF IsOpen
  <2>5. [i \in {1} |-> g] = <<g>>
    BY 1 .. 1 = {1}
  <2> QED
    BY <2>3, <2>4, <2>5
<1> QED
  BY <1>1, <1>2 DEF Short

(* cycle_priority: the row of the waiting cycle follows the case. *)
LEMMA CyclePriority ==
    ASSUME NEW d \in Tables, NEW s \in Cases, Short(d.cycle[s]), NEW prio \in {"minor", "critical"}
    PROVE  /\ Rewrites(d, cycle_priority(d, s, prio), s)
           /\ cycle_priority(d, s, prio).case[s] = d.case[s]
           /\ cycle_priority(d, s, prio).cycle[s] = Priced(d.cycle[s], prio)
<1> DEFINE q == d.cycle[s]
           f == [i \in DOMAIN q |-> IF IsOpen(q[i]) THEN [q[i] EXCEPT !.prio = prio] ELSE q[i]]
<1>1. f = Priced(q, prio) /\ Short(f)
  <2>1. f = Priced(q, prio)
    BY OpenCyclesPriced
  <2> QED
    BY <2>1, ShortLists
<1>2. cycle_priority(d, s, prio) = [d EXCEPT !.cycle[s] = f]
  BY TablesTyped DEF cycle_priority, Tables
<1> HIDE DEF f
<1> QED
  BY <1>1, <1>2, RewriteCycle

LEMMA CycleTaken ==
    ASSUME NEW d \in Tables, NEW s \in Cases, Short(d.cycle[s])
    PROVE  /\ Rewrites(d, noc_cycle_taken(d, s), s)
           /\ noc_cycle_taken(d, s).case[s] = d.case[s]
           /\ noc_cycle_taken(d, s).cycle[s] = Taken(d.cycle[s])
<1> DEFINE q == d.cycle[s]
<1>1. CASE q # <<>> /\ ~q[1].taken
  <2>1. latest_cycle(d, s, FALSE) = 1
    BY <1>1, LatestTaken
  <2>2. PICK c \in CycleRows : q = <<c>>
    BY <1>1 DEF Short
  <2>3. [q EXCEPT ![1].taken = TRUE] = Taken(q)
    <3>1. q = [i \in {1} |-> c] /\ q[1] = c
      BY <2>2, 1 .. 1 = {1}
    <3>2. [q EXCEPT ![1].taken = TRUE] = [i \in {1} |-> [c EXCEPT !.taken = TRUE]]
      BY <3>1
    <3>3. \A g : [i \in {1} |-> g] = <<g>>
      BY 1 .. 1 = {1}
    <3>4. Taken(q) = <<[c EXCEPT !.taken = TRUE]>>
      BY <1>1, <2>2, <3>1 DEF Taken
    <3> QED
      BY <3>2, <3>3, <3>4
  <2>4. noc_cycle_taken(d, s) = [d EXCEPT !.cycle[s] = Taken(q)]
    <3> DEFINE Taking(i) == IF i = 0 THEN d ELSE [d EXCEPT !.cycle[s][i].taken = TRUE]
    <3>5. noc_cycle_taken(d, s) = Taking(latest_cycle(d, s, FALSE))
      BY DEF noc_cycle_taken
    <3>6. Taking(1) = [d EXCEPT !.cycle[s][1].taken = TRUE]
      OBVIOUS
    <3> HIDE DEF Taking
    <3>1. noc_cycle_taken(d, s) = [d EXCEPT !.cycle[s][1].taken = TRUE]
      BY <2>1, <3>5, <3>6
    <3>2. [d EXCEPT !.cycle[s][1].taken = TRUE] = [d EXCEPT !.cycle[s] = [q EXCEPT ![1].taken = TRUE]]
      BY TablesTyped
    <3> QED
      BY <3>1, <3>2, <2>3
  <2> QED
    BY <2>4, RewriteCycle, ShortLists
<1>2. CASE ~(q # <<>> /\ ~q[1].taken)
  <2>1. latest_cycle(d, s, FALSE) = 0
    BY <1>2, LatestTaken
  <2> QED
    BY <1>2, <2>1, RewritesNothing DEF noc_cycle_taken, Taken
<1> QED
  BY <1>1, <1>2

LEMMA CycleOver ==
    ASSUME NEW d \in Tables, NEW s \in Cases, Short(d.cycle[s]), d.cycle[s] # <<>>
    PROVE  /\ Rewrites(d, Over(d, s, 1), s)
           /\ Over(d, s, 1).case[s] = d.case[s] /\ Over(d, s, 1).cycle[s] = <<>>
<1>1. PICK c \in CycleRows : d.cycle[s] = <<c>>
  BY DEF Short
<1>2. RemoveAt(<<c>>, 1) = <<>>
  BY DEF RemoveAt
<1>3. Over(d, s, 1) = [d EXCEPT !.cycle[s] = RemoveAt(d.cycle[s], 1)]
  BY DEF Over
<1>4. Over(d, s, 1) = [d EXCEPT !.cycle[s] = <<>>]
  BY <1>1, <1>2, <1>3
<1>5. PICK q : q = <<>> /\ Short(q)
  BY DEF Short
<1>6. Over(d, s, 1) = [d EXCEPT !.cycle[s] = q]
  BY <1>4, <1>5
<1>7. /\ Rewrites(d, [d EXCEPT !.cycle[s] = q], s)
      /\ [d EXCEPT !.cycle[s] = q].cycle[s] = q
      /\ [d EXCEPT !.cycle[s] = q].case[s] = d.case[s]
  BY SMTT(60), <1>5, RewriteCycle
<1> QED
  BY <1>5, <1>6, <1>7

LEMMA CycleLeft ==
    ASSUME NEW d \in Tables, NEW s \in Cases, Short(d.cycle[s])
    PROVE  /\ Rewrites(d, noc_cycle_left(d, s), s)
           /\ noc_cycle_left(d, s).case[s] = d.case[s]
           /\ noc_cycle_left(d, s).cycle[s] = Left(d.cycle[s])
<1> DEFINE q == d.cycle[s]
<1>1. CASE q # <<>> /\ q[1].taken
  <2>1. latest_cycle(d, s, TRUE) = 1
    BY <1>1, LatestTaken
  <2> QED
    BY ZenonT(60), <1>1, <2>1, CycleOver DEF noc_cycle_left, Left
<1>2. CASE ~(q # <<>> /\ q[1].taken)
  <2>1. latest_cycle(d, s, TRUE) = 0
    BY <1>2, LatestTaken
  <2> QED
    BY <1>2, <2>1, RewritesNothing DEF noc_cycle_left, Over, Left
<1> QED
  BY <1>1, <1>2

LEMMA CycleWithdrawn ==
    ASSUME NEW d \in Tables, NEW s \in Cases, Short(d.cycle[s])
    PROVE  /\ Rewrites(d, noc_cycle_withdrawn(d, s), s)
           /\ noc_cycle_withdrawn(d, s).case[s] = d.case[s]
           /\ noc_cycle_withdrawn(d, s).cycle[s] = Withdrawn(d.cycle[s])
<1> DEFINE q == d.cycle[s]
<1>1. CASE q # <<>> /\ ~q[1].taken
  <2>1. latest_cycle(d, s, FALSE) = 1
    BY <1>1, LatestTaken
  <2> QED
    BY <1>1, <2>1, CycleOver DEF noc_cycle_withdrawn, Withdrawn
<1>2. CASE ~(q # <<>> /\ ~q[1].taken)
  <2>1. latest_cycle(d, s, FALSE) = 0
    BY <1>2, LatestTaken
  <2> QED
    BY <1>2, <2>1, RewritesNothing DEF noc_cycle_withdrawn, Over, Withdrawn
<1> QED
  BY <1>1, <1>2

-----------------------------------------------------------------------------
(* The methods on a case's row *)

(* noc_case_move: the status, and the owner where one is given. *)
Moved(c, status, owner) ==
    [c EXCEPT !.status = status, !.owner = IF owner = Nobody THEN @ ELSE owner]

LEMMA CaseMove ==
    ASSUME NEW d \in Tables, NEW s \in Cases, NEW status \in STATUSES, NEW owner \in Actors \cup {Nobody}
    PROVE  /\ Rewrites(d, noc_case_move(d, s, status, owner), s)
           /\ noc_case_move(d, s, status, owner).case[s] = Moved(d.case[s], status, owner)
           /\ noc_case_move(d, s, status, owner).cycle[s] = d.cycle[s]
<1>1. d.case[s] \in CaseRows
  BY TablesTyped
<1>2. PICK c : c = Moved(d.case[s], status, owner)
  OBVIOUS
<1>3. c \in CaseRows
  BY <1>1, <1>2 DEF Moved, CaseRows
<1>4. noc_case_move(d, s, status, owner) = [d EXCEPT !.case[s] = c]
  BY <1>2 DEF noc_case_move, Moved, Tables
<1>5. /\ Rewrites(d, [d EXCEPT !.case[s] = c], s)
      /\ [d EXCEPT !.case[s] = c].case[s] = c /\ [d EXCEPT !.case[s] = c].cycle[s] = d.cycle[s]
  BY <1>3, RewriteCase
<1> QED
  BY <1>2, <1>4, <1>5

LEMMA CaseResolve ==
    ASSUME NEW d \in Tables, NEW s \in Cases
    PROVE  /\ Rewrites(d, noc_case_resolve(d, s), s)
           /\ noc_case_resolve(d, s).case[s] = [d.case[s] EXCEPT !.status = "resolved"]
           /\ noc_case_resolve(d, s).cycle[s] = d.cycle[s]
<1>1. d.case[s] \in CaseRows
  BY TablesTyped
<1>2. PICK c : c = [d.case[s] EXCEPT !.status = "resolved"]
  OBVIOUS
<1>3. c \in CaseRows
  BY <1>1, <1>2 DEF CaseRows, STATUSES
<1>4. noc_case_resolve(d, s) = [d EXCEPT !.case[s] = c]
  BY <1>2 DEF noc_case_resolve, Tables
<1>5. /\ Rewrites(d, [d EXCEPT !.case[s] = c], s)
      /\ [d EXCEPT !.case[s] = c].case[s] = c /\ [d EXCEPT !.case[s] = c].cycle[s] = d.cycle[s]
  BY <1>3, RewriteCase
<1> QED
  BY <1>2, <1>4, <1>5

LEMMA CaseAssign ==
    ASSUME NEW d \in Tables, NEW s \in Cases, NEW a \in Agents \cup {Nobody}, NEW people \in BOOLEAN
    PROVE  LET e == noc_case_assign(d, s, a, people)
           IN  /\ Rewrites(d, e, s) /\ e.cycle[s] = d.cycle[s]
               /\ e.case[s].status = d.case[s].status /\ e.case[s].owner = d.case[s].owner
               /\ e.case[s].prio = d.case[s].prio /\ e.case[s].next = d.case[s].next
<1>1. d.case[s] \in CaseRows
  BY TablesTyped
<1>2. PICK c : c = [d.case[s] EXCEPT !.agent = a, !.late = FALSE, !.people = people]
  OBVIOUS
<1>3. /\ c \in CaseRows /\ c.status = d.case[s].status /\ c.owner = d.case[s].owner
      /\ c.prio = d.case[s].prio /\ c.next = d.case[s].next
  BY <1>1, <1>2 DEF CaseRows
<1>4. noc_case_assign(d, s, a, people) = [d EXCEPT !.case[s] = c]
  BY ZenonT(60), <1>2 DEF noc_case_assign, Tables
<1>5. /\ Rewrites(d, [d EXCEPT !.case[s] = c], s)
      /\ [d EXCEPT !.case[s] = c].case[s] = c /\ [d EXCEPT !.case[s] = c].cycle[s] = d.cycle[s]
  BY <1>3, RewriteCase
<1> QED
  BY <1>3, <1>4, <1>5

(* noc_case_enqueue: a fresh cycle waits, at the case's priority. *)
LEMMA CaseEnqueue ==
    ASSUME NEW d \in Tables, NEW s \in Cases, d.cycle[s] = <<>>
    PROVE  /\ Rewrites(d, noc_case_enqueue(d, s), s)
           /\ noc_case_enqueue(d, s).case[s] = [d.case[s] EXCEPT !.status = "queue", !.owner = Nobody]
           /\ noc_case_enqueue(d, s).cycle[s] = <<NewCycle(d.case[s].prio)>>
<1>1. d.case[s] \in CaseRows
  BY TablesTyped
<1>2. PICK c : c = [d.case[s] EXCEPT !.status = "queue", !.owner = Nobody]
  OBVIOUS
<1>3. c \in CaseRows
  BY <1>1, <1>2 DEF CaseRows, STATUSES, LIVE, UNOWNED
<1>4. PICK q : q = <<NewCycle(d.case[s].prio)>>
  OBVIOUS
<1>5. Short(q)
  <2>1. NewCycle(d.case[s].prio) \in CycleRows
    BY <1>1 DEF NewCycle, CycleRows, CaseRows
  <2> QED
    BY <1>4, <2>1 DEF Short
<1>6. q = Append(d.cycle[s], NewCycle(d.case[s].prio))
  BY <1>4
<1> DEFINE m == [d EXCEPT !.case[s] = c]
<1>7. /\ Rewrites(d, m, s) /\ m.case[s] = c /\ m.cycle[s] = d.cycle[s]
  BY <1>3, RewriteCase
<1>8. noc_case_enqueue(d, s) = [m EXCEPT !.cycle[s] = q]
  BY ZenonT(60), <1>2, <1>6 DEF noc_case_enqueue, Tables
<1> HIDE DEF m
<1>9. m \in Tables
  BY <1>7 DEF Rewrites
<1>10. PICK e : e = [m EXCEPT !.cycle[s] = q]
  OBVIOUS
<1>11. Rewrites(m, e, s) /\ e.cycle[s] = q /\ e.case[s] = m.case[s]
  BY <1>5, <1>9, <1>10, RewriteCycle
<1>12. Rewrites(d, e, s)
  BY <1>7, <1>11, RewritesTwice
<1> QED
  BY <1>2, <1>4, <1>7, <1>8, <1>10, <1>11, <1>12

(* noc_case_raise_priority and noc_case_set_fields: the waiting cycle is   *)
(* priced as its case.                                                     *)
LEMMA RowAndPriority ==
    ASSUME NEW d \in Tables, NEW s \in Cases, Short(d.cycle[s]), NEW c \in CaseRows
    PROVE  LET e == cycle_priority([d EXCEPT !.case[s] = c], s, c.prio)
           IN  /\ Rewrites(d, e, s) /\ e.case[s] = c
               /\ e.cycle[s] = Priced(d.cycle[s], c.prio)
<1> DEFINE m == [d EXCEPT !.case[s] = c]
<1>1. Rewrites(d, m, s) /\ m.case[s] = c /\ m.cycle[s] = d.cycle[s]
  BY RewriteCase
<1>2. c.prio \in {"minor", "critical"}
  BY DEF CaseRows
<1> HIDE DEF m
<1>3. m \in Tables /\ Short(m.cycle[s])
  BY <1>1 DEF Rewrites
<1>4. PICK e : e = cycle_priority(m, s, c.prio)
  OBVIOUS
<1>5. Rewrites(m, e, s) /\ e.case[s] = m.case[s] /\ e.cycle[s] = Priced(m.cycle[s], c.prio)
  BY <1>2, <1>3, <1>4, CyclePriority
<1>6. Rewrites(d, e, s)
  BY <1>1, <1>5, RewritesTwice
<1> QED
  BY <1>1, <1>4, <1>5, <1>6 DEF m

LEMMA RaisePriority ==
    ASSUME NEW d \in Tables, NEW s \in Cases, Short(d.cycle[s]), NEW prio \in {"minor", "critical"}
    PROVE  LET e == noc_case_raise_priority(d, s, prio)
           IN  /\ Rewrites(d, e, s)
               /\ e.case[s].status = d.case[s].status /\ e.case[s].owner = d.case[s].owner
               /\ e.case[s].next = d.case[s].next
               /\ e.cycle[s] = Priced(d.cycle[s], e.case[s].prio)
<1>1. PICK c : c = [d.case[s] EXCEPT !.prio = prio]
  OBVIOUS
<1>2. d.case[s] \in CaseRows
  BY TablesTyped
<1>3. /\ c \in CaseRows /\ c.prio = prio /\ c.status = d.case[s].status
      /\ c.owner = d.case[s].owner /\ c.next = d.case[s].next
  BY <1>2, <1>1 DEF CaseRows
<1>4. noc_case_raise_priority(d, s, prio) = cycle_priority([d EXCEPT !.case[s] = c], s, c.prio)
  <2>1. [d EXCEPT !.case[s].prio = prio] = [d EXCEPT !.case[s] = c]
    BY <1>1 DEF Tables
  <2> QED
    BY <1>3, <2>1 DEF noc_case_raise_priority
<1>5. PICK e : e = cycle_priority([d EXCEPT !.case[s] = c], s, c.prio)
  OBVIOUS
<1>6. Rewrites(d, e, s) /\ e.case[s] = c /\ e.cycle[s] = Priced(d.cycle[s], c.prio)
  BY <1>3, <1>5, RowAndPriority
<1> QED
  BY <1>3, <1>4, <1>5, <1>6

LEMMA SetFields ==
    ASSUME NEW d \in Tables, NEW s \in Cases, Short(d.cycle[s]),
           NEW next \in {"same", "later"}, NEW prio \in {"same", "minor", "critical"}
    PROVE  LET e == noc_case_set_fields(d, s, [next |-> next, prio |-> prio])
           IN  /\ Rewrites(d, e, s)
               /\ e.case[s].status = d.case[s].status /\ e.case[s].owner = d.case[s].owner
               /\ e.case[s].next = IF next = "same" THEN d.case[s].next ELSE next
               /\ e.cycle[s] = Priced(d.cycle[s], e.case[s].prio)
<1>1. PICK c : c = [d.case[s] EXCEPT
                      !.next = IF next = "same" THEN @ ELSE next,
                      !.prio = IF prio = "same" THEN @ ELSE prio,
                      !.own = @ \/ prio # "same"]
  OBVIOUS
<1>2. /\ c \in CaseRows /\ c.status = d.case[s].status /\ c.owner = d.case[s].owner
      /\ c.next = IF next = "same" THEN d.case[s].next ELSE next
  <2>1. d.case[s] \in CaseRows
    BY TablesTyped
  <2> QED
    BY ZenonT(60), <1>1, <2>1 DEF CaseRows
<1>3. noc_case_set_fields(d, s, [next |-> next, prio |-> prio])
        = cycle_priority([d EXCEPT !.case[s] = c], s, c.prio)
  BY <1>1 DEF noc_case_set_fields
<1>4. PICK e : e = cycle_priority([d EXCEPT !.case[s] = c], s, c.prio)
  OBVIOUS
<1>5. Rewrites(d, e, s) /\ e.case[s] = c /\ e.cycle[s] = Priced(d.cycle[s], c.prio)
  BY <1>2, <1>4, RowAndPriority
<1> QED
  BY <1>2, <1>3, <1>4, <1>5

-----------------------------------------------------------------------------
(* The wake-ups of a transaction *)

(* Waking agents touches free rows only, which then hold a wake-up. *)
LEMMA Wakes ==
    ASSUME NEW d \in Tables, NEW woken \in SUBSET Agents
    PROVE  /\ noc_wakes(d, woken) \in Tables
           /\ noc_wakes(d, woken) = [d EXCEPT !.run = noc_wakes(d, woken).run]
           /\ \A r \in RunIds : \/ noc_wakes(d, woken).run[r] = d.run[r]
                                \/ /\ d.run[r] = NoRun
                                   /\ noc_wakes(d, woken).run[r].status = "queued"
<1> DEFINE new == {a \in woken : RunsOf(d, a, "queued") = {}}
           free == FreeRuns(d)
           seat == Seats(free, new)
           run == [r \in RunIds |->
                     IF r \in free /\ seat[r] \in new
                     THEN [agent |-> seat[r], status |-> "queued", late |-> FALSE]
                     ELSE d.run[r]]
<1>1. noc_wakes(d, woken) = [d EXCEPT !.run = run]
  BY DEF noc_wakes
<1>2. \A r \in RunIds : seat[r] \in new =>
         [agent |-> seat[r], status |-> "queued", late |-> FALSE] \in RunRows
  BY DEF RunRows, RUN_STATUSES
<1>3. run \in [RunIds -> RunRows]
  BY <1>2, TablesTyped
<1>4. \A r \in RunIds : run[r] = d.run[r] \/ (d.run[r] = NoRun /\ run[r].status = "queued")
  BY DEF FreeRuns
<1> HIDE DEF run
<1> QED
  BY <1>1, <1>3, <1>4 DEF Tables

LEMMA WakesRewrites ==
    ASSUME NEW d \in Tables, NEW woken \in SUBSET Agents, NEW s \in Cases
    PROVE  /\ Rewrites(d, noc_wakes(d, woken), s)
           /\ noc_wakes(d, woken).case = d.case /\ noc_wakes(d, woken).cycle = d.cycle
<1>1. PICK e : e = noc_wakes(d, woken)
  OBVIOUS
<1>2. /\ e \in Tables /\ e = [d EXCEPT !.run = e.run]
      /\ \A r \in RunIds : e.run[r] = d.run[r] \/ (d.run[r] = NoRun /\ e.run[r].status = "queued")
  BY <1>1, Wakes
<1>3. /\ e.case = d.case /\ e.cycle = d.cycle /\ e.sit = d.sit /\ e.alarm = d.alarm
      /\ e.heard = d.heard /\ e.agent = d.agent /\ e.playbook = d.playbook
  <2>1. [d EXCEPT !.run = e.run].case = d.case /\ [d EXCEPT !.run = e.run].cycle = d.cycle
        /\ [d EXCEPT !.run = e.run].sit = d.sit /\ [d EXCEPT !.run = e.run].alarm = d.alarm
        /\ [d EXCEPT !.run = e.run].heard = d.heard /\ [d EXCEPT !.run = e.run].agent = d.agent
        /\ [d EXCEPT !.run = e.run].playbook = d.playbook
    BY DEF Tables
  <2> QED
    BY <1>2, <2>1
<1> QED
  BY <1>1, <1>2, <1>3 DEF Rewrites

LEMMA WakeRewrites ==
    ASSUME NEW d \in Tables, NEW a \in Agents, NEW s \in Cases
    PROVE  /\ Rewrites(d, noc_wake(d, a), s)
           /\ noc_wake(d, a).case = d.case /\ noc_wake(d, a).cycle = d.cycle
<1>1. {a} \in SUBSET Agents
  OBVIOUS
<1> QED
  BY <1>1, WakesRewrites DEF noc_wake

-----------------------------------------------------------------------------
(* The queue's ledger, of one case *)

Ledger(sit, c, q) ==
    /\ Short(q)
    /\ c.status = "queue" <=> (q # <<>> /\ ~q[1].taken)
    /\ q # <<>> => (IF q[1].taken THEN c.status = "working" ELSE q[1].prio = c.prio)
    /\ c.status = "working" => c.owner # Nobody
    /\ c.status \in UNOWNED => c.owner = Nobody
    /\ c.status \in PENDING => c.next # "none"
    /\ sit = "none" <=> c.status = "none"

LedgerOf(d, s) == Ledger(d.sit[s], d.case[s], d.cycle[s])

(* What a priority, the routing to an agent or the people, and a next      *)
(* update that is set, change of a case in the ledger: nothing.            *)
LEMMA LedgerPriced ==
    ASSUME NEW sit, NEW c \in CaseRows, NEW f \in CaseRows, NEW q, Ledger(sit, c, q),
           f.status = c.status, f.owner = c.owner, c.next # "none" => f.next # "none"
    PROVE  Ledger(sit, f, Priced(q, f.prio))
<1>1. f.prio \in {"minor", "critical"}
  BY DEF CaseRows
<1>2. Short(Priced(q, f.prio))
  BY <1>1, ShortLists DEF Ledger
<1>3. CASE q = <<>>
  BY <1>3, <1>2 DEF Ledger, Priced
<1>4. CASE \E k \in CycleRows : q = <<k>>
  <2>1. PICK k \in CycleRows : q = <<k>>
    BY <1>4
  <2>2. q # <<>> /\ q[1] = k
    BY <2>1
  <2>3. CASE k.taken
    <3>1. Priced(q, f.prio) = q
      BY <2>2, <2>3 DEF Priced
    <3> QED
      BY <2>2, <2>3, <3>1 DEF Ledger
  <2>4. CASE ~k.taken
    <3>1. PICK g : g = [k EXCEPT !.prio = f.prio]
      OBVIOUS
    <3>2. g.prio = f.prio /\ ~g.taken
      BY <3>1, <2>4 DEF CycleRows
    <3>3. Priced(q, f.prio) = <<g>>
      BY <2>2, <2>4, <3>1 DEF Priced
    <3>4. <<g>> # <<>> /\ <<g>>[1] = g
      OBVIOUS
    <3> QED
      BY <1>2, <2>2, <2>4, <3>2, <3>3, <3>4 DEF Ledger
  <2> QED
    BY <2>3, <2>4
<1> QED
  BY <1>3, <1>4 DEF Ledger, Short

LEMMA LedgerRouted ==
    ASSUME NEW sit, NEW c \in CaseRows, NEW f \in CaseRows, NEW q, Ledger(sit, c, q),
           f.status = c.status, f.owner = c.owner, f.prio = c.prio,
           c.next # "none" => f.next # "none"
    PROVE  Ledger(sit, f, q)
BY DEF Ledger

(* A case that is neither in the queue nor worked has no cycle. *)
LEMMA NoCycle ==
    ASSUME NEW sit, NEW c, NEW q, Ledger(sit, c, q), c.status # "queue", c.status # "working"
    PROVE  q = <<>>
BY DEF Ledger

(* Out of the queue and off the desk, every cycle is over. *)
LEMMA AllOver ==
    ASSUME NEW sit, NEW c, NEW q, Ledger(sit, c, q)
    PROVE  /\ c.status # "queue" => Left(q) = <<>>
           /\ c.status # "working" => Withdrawn(q) = <<>>
           /\ Left(Withdrawn(q)) = <<>> /\ Withdrawn(Left(q)) = <<>>
<1>1. CASE q = <<>>
  BY <1>1 DEF Left, Withdrawn
<1>2. CASE \E k \in CycleRows : q = <<k>>
  BY <1>2 DEF Ledger, Left, Withdrawn
<1> QED
  BY <1>1, <1>2 DEF Ledger, Short

-----------------------------------------------------------------------------
(* The operations on a case keep its ledger *)

Works(d, e, s) == Rewrites(d, e, s) /\ LedgerOf(e, s)

LEMMA WorksTables ==
    ASSUME NEW d, NEW e, NEW s, Works(d, e, s)
    PROVE  e \in Tables /\ e.sit = d.sit /\ LedgerOf(e, s)
BY DEF Works, Rewrites

LEMMA WorksTwice ==
    ASSUME NEW d, NEW e, NEW f, NEW s \in Cases, Rewrites(d, e, s), Works(e, f, s)
    PROVE  Works(d, f, s)
BY RewritesTwice DEF Works

LEMMA WorksNothing ==
    ASSUME NEW d \in Tables, NEW s \in Cases, LedgerOf(d, s)
    PROVE  Works(d, d, s)
BY RewritesNothing DEF Works

(* reprioritize *)
LEMMA ReprioritizeWorks ==
    ASSUME NEW d \in Tables, NEW s \in Cases, LedgerOf(d, s)
    PROVE  LET e == reprioritize(d, s)
           IN  /\ Works(d, e, s)
               /\ e.case[s].status = d.case[s].status /\ e.case[s].owner = d.case[s].owner
               /\ e.case[s].next = d.case[s].next
<1> DEFINE derived == priority_of(noc_case_severity(d, s))
<1>1. CASE d.case[s].own \/ d.case[s].prio = "critical" \/ derived = "minor"
  <2>1. reprioritize(d, s) = d
    BY <1>1 DEF reprioritize
  <2> QED
    BY <2>1, WorksNothing
<1>2. CASE ~(d.case[s].own \/ d.case[s].prio = "critical" \/ derived = "minor")
  <2>1. PICK prio : prio = derived
    OBVIOUS
  <2>12. prio \in {"minor", "critical"}
    BY <2>1 DEF priority_of
  <2>2. reprioritize(d, s) = noc_case_raise_priority(d, s, prio)
    BY <1>2, <2>1 DEF reprioritize
  <2>3. Short(d.cycle[s])
    BY DEF LedgerOf, Ledger
  <2>4. PICK e : e = noc_case_raise_priority(d, s, prio)
    OBVIOUS
  <2>5. /\ Rewrites(d, e, s)
        /\ e.case[s].status = d.case[s].status /\ e.case[s].owner = d.case[s].owner
        /\ e.case[s].next = d.case[s].next
        /\ e.cycle[s] = Priced(d.cycle[s], e.case[s].prio)
    BY <2>12, <2>3, <2>4, RaisePriority
  <2>6. d.case[s] \in CaseRows /\ e.case[s] \in CaseRows
    BY <2>5, TablesTyped DEF Rewrites
  <2>8. Ledger(d.sit[s], d.case[s], d.cycle[s])
    BY DEF LedgerOf
  <2>9. Ledger(d.sit[s], e.case[s], Priced(d.cycle[s], e.case[s].prio))
    BY <2>5, <2>6, <2>8, LedgerPriced
  <2>10. e.sit = d.sit
    BY <2>5 DEF Rewrites
  <2>11. LedgerOf(e, s)
    BY <2>5, <2>9, <2>10 DEF LedgerOf
  <2> QED
    BY <2>2, <2>4, <2>5, <2>11 DEF Works
<1> QED
  BY <1>1, <1>2

(* Into the queue, once every cycle of the case is over. *)
LEMMA EnqueueWorks ==
    ASSUME NEW d \in Tables, NEW s \in Cases, LedgerOf(d, s), d.cycle[s] = <<>>,
           d.case[s].status # "none"
    PROVE  LET e == noc_case_enqueue(d, s)
           IN  Works(d, e, s) /\ e.case[s].status = "queue"
<1>1. PICK e : e = noc_case_enqueue(d, s)
  OBVIOUS
<1>2. /\ Rewrites(d, e, s)
      /\ e.case[s] = [d.case[s] EXCEPT !.status = "queue", !.owner = Nobody]
      /\ e.cycle[s] = <<NewCycle(d.case[s].prio)>>
  BY <1>1, CaseEnqueue
<1>3. d.case[s] \in CaseRows
  BY TablesTyped
<1>4. /\ e.case[s].status = "queue" /\ e.case[s].owner = Nobody
      /\ e.case[s].prio = d.case[s].prio /\ e.case[s].next = d.case[s].next
  BY <1>2, <1>3 DEF CaseRows
<1>5. PICK k \in CycleRows : k = NewCycle(d.case[s].prio)
  BY <1>3 DEF NewCycle, CycleRows, CaseRows
<1>6. k.prio = d.case[s].prio /\ ~k.taken
  BY <1>5 DEF NewCycle
<1>7. e.cycle[s] # <<>> /\ e.cycle[s][1] = k /\ Short(e.cycle[s])
  BY <1>2, <1>5 DEF Short
<1>8. e.sit = d.sit /\ d.sit[s] # "none"
  BY <1>2 DEF Rewrites, LedgerOf, Ledger
<1>9. LedgerOf(e, s)
  BY <1>4, <1>6, <1>7, <1>8 DEF LedgerOf, Ledger, PENDING, UNOWNED
<1> QED
  BY <1>1, <1>2, <1>4, <1>9 DEF Works

(* To a status other than the queue, once every cycle is over. *)
LEMMA MoveWorks ==
    ASSUME NEW d \in Tables, NEW s \in Cases, LedgerOf(d, s), d.cycle[s] = <<>>,
           NEW status \in STATUSES, status # "queue", d.case[s].status # "none",
           NEW owner \in Actors \cup {Nobody},
           status = "working" => owner # Nobody,
           status \in UNOWNED => owner = Nobody /\ d.case[s].owner = Nobody,
           status \in PENDING => d.case[s].next # "none"
    PROVE  LET e == noc_case_move(d, s, status, owner)
           IN  Works(d, e, s) /\ e.case[s].status = status
<1>1. PICK e : e = noc_case_move(d, s, status, owner)
  OBVIOUS
<1>2. /\ Rewrites(d, e, s) /\ e.case[s] = Moved(d.case[s], status, owner)
      /\ e.cycle[s] = d.cycle[s]
  BY <1>1, CaseMove
<1>3. d.case[s] \in CaseRows
  BY TablesTyped
<1>4. /\ e.case[s].status = status /\ e.case[s].next = d.case[s].next
      /\ e.case[s].owner = IF owner = Nobody THEN d.case[s].owner ELSE owner
  BY <1>2, <1>3 DEF CaseRows, Moved
<1>5. e.sit = d.sit /\ d.sit[s] # "none"
  BY <1>2 DEF Rewrites, LedgerOf, Ledger
<1>6. Short(e.cycle[s]) /\ e.cycle[s] = <<>>
  BY <1>2 DEF Short
<1>7. status # "none"
  BY DEF STATUSES, LIVE, UNOWNED, PENDING
<1>8. LedgerOf(e, s)
  BY <1>4, <1>5, <1>6, <1>7 DEF LedgerOf, Ledger
<1> QED
  BY <1>1, <1>2, <1>4, <1>8 DEF Works

(* A case in the queue is taken: its waiting cycle is. *)
LEMMA TakeQueuedWorks ==
    ASSUME NEW d \in Tables, NEW s \in Cases, LedgerOf(d, s), d.case[s].status = "queue",
           NEW actor \in Actors
    PROVE  Works(d, noc_cycle_taken(noc_case_move(d, s, "working", actor), s), s)
<1>0. actor # Nobody /\ "working" \in STATUSES
  BY NocConstants DEF Actors, STATUSES, LIVE
<1>1. PICK m : m = noc_case_move(d, s, "working", actor)
  OBVIOUS
<1>2. /\ Rewrites(d, m, s) /\ m.case[s] = Moved(d.case[s], "working", actor)
      /\ m.cycle[s] = d.cycle[s]
  BY <1>0, <1>1, CaseMove
<1>3. m \in Tables /\ m.sit = d.sit
  BY <1>2 DEF Rewrites
<1>4. PICK k \in CycleRows : d.cycle[s] = <<k>> /\ ~k.taken
  BY DEF LedgerOf, Ledger, Short
<1>5. Short(m.cycle[s]) /\ m.cycle[s] # <<>> /\ m.cycle[s][1] = k
  BY <1>2, <1>4 DEF Short
<1>6. PICK e : e = noc_cycle_taken(m, s)
  OBVIOUS
<1>7. Rewrites(m, e, s) /\ e.case[s] = m.case[s] /\ e.cycle[s] = Taken(m.cycle[s])
  BY <1>3, <1>5, <1>6, CycleTaken
<1>8. PICK g : g = [k EXCEPT !.taken = TRUE]
  OBVIOUS
<1>9. g.taken
  BY <1>8 DEF CycleRows
<1>10. Taken(m.cycle[s]) = <<g>>
  BY <1>4, <1>5, <1>8 DEF Taken
<1>11. <<g>> # <<>> /\ <<g>>[1] = g
  OBVIOUS
<1>12. Short(e.cycle[s])
  BY <1>5, <1>7, ShortLists
<1>13. d.case[s] \in CaseRows
  BY TablesTyped
<1>14. e.case[s].status = "working" /\ e.case[s].owner = actor
  BY <1>0, <1>2, <1>7, <1>13 DEF CaseRows, Moved
<1>15. e.sit = d.sit /\ d.sit[s] # "none"
  BY <1>3, <1>7 DEF Rewrites, LedgerOf, Ledger
<1>16. LedgerOf(e, s)
  BY <1>0, <1>7, <1>9, <1>10, <1>11, <1>12, <1>14, <1>15 DEF LedgerOf, Ledger, PENDING, UNOWNED
<1>17. Rewrites(d, e, s)
  BY <1>2, <1>7, RewritesTwice
<1> QED
  BY <1>1, <1>6, <1>16, <1>17 DEF Works

(* noc_cycle_left of a case that is worked. *)
LEMMA LeftWorks ==
    ASSUME NEW d \in Tables, NEW s \in Cases, LedgerOf(d, s), d.case[s].status # "queue"
    PROVE  LET e == noc_cycle_left(d, s)
           IN  Works(d, e, s) /\ e.case[s] = d.case[s] /\ e.cycle[s] = <<>>
<1>1. PICK e : e = noc_cycle_left(d, s)
  OBVIOUS
<1>2. Ledger(d.sit[s], d.case[s], d.cycle[s]) /\ Short(d.cycle[s])
  BY DEF LedgerOf, Ledger
<1>3. Rewrites(d, e, s) /\ e.case[s] = d.case[s] /\ e.cycle[s] = Left(d.cycle[s])
  BY <1>1, <1>2, CycleLeft
<1>4. Left(d.cycle[s]) = <<>>
  BY <1>2, AllOver
<1>5. e.sit = d.sit
  BY <1>3 DEF Rewrites
<1>6. LedgerOf(e, s)
  BY <1>2, <1>3, <1>4, <1>5 DEF LedgerOf, Ledger, Short
<1> QED
  BY <1>1, <1>3, <1>4, <1>6 DEF Works

(* take *)
LEMMA TakeWorks ==
    ASSUME NEW d \in Tables, NEW s \in Cases, LedgerOf(d, s), NEW actor \in Actors,
           d.case[s].status \in From("take")
    PROVE  Works(d, take(d, s, actor), s)
<1>0. actor # Nobody /\ "working" \in STATUSES
  BY NocConstants DEF Actors, STATUSES, LIVE
<1>1. CASE d.case[s].status \in {"new", "auto"}
  <2>1. PICK r : r = reprioritize(d, s)
    OBVIOUS
  <2>2. Works(d, r, s) /\ r.case[s].status = d.case[s].status
    BY <2>1, ReprioritizeWorks
  <2>3. r \in Tables /\ LedgerOf(r, s)
    BY <2>2, WorksTables
  <2>4. r.cycle[s] = <<>> /\ r.case[s].status # "none"
    BY <1>1, <2>2, <2>3, NoCycle DEF LedgerOf
  <2>5. PICK e : e = noc_case_enqueue(r, s)
    OBVIOUS
  <2>6. Works(r, e, s) /\ e.case[s].status = "queue"
    BY <2>3, <2>4, <2>5, EnqueueWorks
  <2>7. e \in Tables /\ LedgerOf(e, s)
    BY <2>6, WorksTables
  <2>8. PICK f : f = noc_cycle_taken(noc_case_move(e, s, "working", actor), s)
    OBVIOUS
  <2>9. Works(e, f, s)
    BY <2>6, <2>7, <2>8, TakeQueuedWorks
  <2>10. take(d, s, actor) = f
    BY <1>1, <2>1, <2>5, <2>8 DEF take, UNOWNED
  <2> QED
    BY <2>2, <2>6, <2>9, <2>10, WorksTwice, RewritesTwice DEF Works
<1>2. CASE d.case[s].status = "queue"
  <2>1. take(d, s, actor) = noc_cycle_taken(noc_case_move(d, s, "working", actor), s)
    BY <1>2 DEF take, UNOWNED
  <2> QED
    BY <1>2, <2>1, TakeQueuedWorks
<1>3. CASE d.case[s].status \in PENDING \cup {"validate"}
  <2>1. PICK m : m = noc_case_move(d, s, "working", actor)
    OBVIOUS
  <2>2. d.cycle[s] = <<>> /\ d.case[s].status # "none"
    BY <1>3, NoCycle DEF LedgerOf, PENDING
  <2>3. Works(d, m, s)
    BY <1>0, <2>1, <2>2, MoveWorks DEF UNOWNED, PENDING
  <2>4. take(d, s, actor) = m
    BY <1>3, <2>1 DEF take, UNOWNED, PENDING
  <2> QED
    BY <2>3, <2>4
<1>4. CASE d.case[s].status = "working"
  <2>1. PICK m : m = noc_case_move(d, s, "working", actor)
    OBVIOUS
  <2>2. /\ Rewrites(d, m, s) /\ m.case[s] = Moved(d.case[s], "working", actor)
        /\ m.cycle[s] = d.cycle[s]
    BY <1>0, <2>1, CaseMove
  <2>3. d.case[s] \in CaseRows
    BY TablesTyped
  <2>4. /\ m.case[s].status = "working" /\ m.case[s].owner = actor
        /\ m.case[s].prio = d.case[s].prio
    BY <1>0, <2>2, <2>3 DEF CaseRows, Moved
  <2>5. m.sit = d.sit
    BY <2>2 DEF Rewrites
  <2>6. LedgerOf(m, s)
    BY <1>0, <1>4, <2>2, <2>4, <2>5 DEF LedgerOf, Ledger, UNOWNED, PENDING
  <2>7. take(d, s, actor) = m
    BY <1>4, <2>1 DEF take, UNOWNED
  <2> QED
    BY <2>2, <2>6, <2>7 DEF Works
<1> QED
  BY <1>1, <1>2, <1>3, <1>4 DEF From, UNOWNED

(* release *)
LEMMA ReleaseWorks ==
    ASSUME NEW d \in Tables, NEW s \in Cases, LedgerOf(d, s), d.case[s].status \in From("release")
    PROVE  Works(d, release(d, s), s)
<1>1. d.case[s].status \in {"working", "validate"}
  BY DEF From
<1>2. PICK m : m = noc_cycle_left(d, s)
  OBVIOUS
<1>3. Works(d, m, s) /\ m.case[s] = d.case[s] /\ m.cycle[s] = <<>>
  BY <1>1, <1>2, LeftWorks
<1>4. m \in Tables /\ LedgerOf(m, s)
  BY <1>3, WorksTables
<1>5. PICK e : e = noc_case_enqueue(m, s)
  OBVIOUS
<1>6. Works(m, e, s)
  BY <1>1, <1>3, <1>4, <1>5, EnqueueWorks
<1> QED
  BY <1>2, <1>3, <1>5, <1>6, WorksTwice DEF release, Works

(* update *)
LEMMA UpdateWorks ==
    ASSUME NEW d \in Tables, NEW s \in Cases, LedgerOf(d, s),
           NEW next \in {"same", "later"}, NEW prio \in {"same", "minor", "critical"}
    PROVE  LET e == noc_case_set_fields(d, s, [next |-> next, prio |-> prio])
           IN  /\ Works(d, e, s)
               /\ e.case[s].status = d.case[s].status /\ e.case[s].owner = d.case[s].owner
               /\ e.case[s].next = IF next = "same" THEN d.case[s].next ELSE next
<1>1. PICK e : e = noc_case_set_fields(d, s, [next |-> next, prio |-> prio])
  OBVIOUS
<1>2. Ledger(d.sit[s], d.case[s], d.cycle[s]) /\ Short(d.cycle[s])
  BY DEF LedgerOf, Ledger
<1>3. /\ Rewrites(d, e, s)
      /\ e.case[s].status = d.case[s].status /\ e.case[s].owner = d.case[s].owner
      /\ e.case[s].next = IF next = "same" THEN d.case[s].next ELSE next
      /\ e.cycle[s] = Priced(d.cycle[s], e.case[s].prio)
  BY <1>1, <1>2, SetFields
<1>4. d.case[s] \in CaseRows /\ e.case[s] \in CaseRows /\ e.sit = d.sit
  BY <1>3, TablesTyped DEF Rewrites
<1>5. d.case[s].next # "none" => e.case[s].next # "none"
  BY <1>3
<1>6. Ledger(d.sit[s], e.case[s], Priced(d.cycle[s], e.case[s].prio))
  BY <1>2, <1>3, <1>4, <1>5, LedgerPriced
<1>7. LedgerOf(e, s)
  BY <1>3, <1>4, <1>6 DEF LedgerOf
<1> QED
  BY <1>1, <1>3, <1>7 DEF Works

(* The desk is left, if the case was on one. *)
LEMMA OffDesk ==
    ASSUME NEW d \in Tables, NEW s \in Cases, LedgerOf(d, s), d.case[s].status # "queue"
    PROVE  LET e == IF d.case[s].status = "working" THEN noc_cycle_left(d, s) ELSE d
           IN  Works(d, e, s) /\ e.case[s] = d.case[s] /\ e.cycle[s] = <<>>
<1>1. CASE d.case[s].status = "working"
  BY <1>1, LeftWorks
<1>2. CASE d.case[s].status # "working"
  <2>1. d.cycle[s] = <<>>
    BY <1>2, NoCycle DEF LedgerOf
  <2> QED
    BY <1>2, <2>1, WorksNothing
<1> QED
  BY <1>1, <1>2

(* pend *)
LEMMA PendWorks ==
    ASSUME NEW d \in Tables, NEW s \in Cases, LedgerOf(d, s), d.case[s].status \in From("pend"),
           NEW to \in PENDING, d.case[s].next # "none"
    PROVE  Works(d, pend(d, s, to), s)
<1>1. d.case[s].status # "queue" /\ d.case[s].status # "none"
  BY DEF From, PENDING
<1>2. PICK m : m = IF d.case[s].status = "working" THEN noc_cycle_left(d, s) ELSE d
  OBVIOUS
<1>3. Works(d, m, s) /\ m.case[s] = d.case[s] /\ m.cycle[s] = <<>>
  BY <1>1, <1>2, OffDesk
<1>4. m \in Tables /\ LedgerOf(m, s)
  BY <1>3, WorksTables
<1>5. PICK e : e = noc_case_move(m, s, to, Nobody)
  OBVIOUS
<1>6. /\ to \in STATUSES /\ to # "queue" /\ to # "working" /\ to \notin UNOWNED
  BY DEF PENDING, STATUSES, LIVE, UNOWNED
<1>7. Works(m, e, s)
  BY <1>1, <1>3, <1>4, <1>5, <1>6, MoveWorks
<1> QED
  BY <1>2, <1>3, <1>5, <1>7, WorksTwice DEF pend, Works

(* Every cycle of the case is over: it is concluded. *)
LEMMA ConcludeWorks ==
    ASSUME NEW d \in Tables, NEW s \in Cases, NEW m, Rewrites(d, m, s),
           m.cycle[s] = <<>>, d.sit[s] # "none"
    PROVE  Works(d, noc_case_resolve(m, s), s)
<1>1. m \in Tables /\ m.sit = d.sit
  BY DEF Rewrites
<1>2. PICK e : e = noc_case_resolve(m, s)
  OBVIOUS
<1>3. /\ Rewrites(m, e, s) /\ e.case[s] = [m.case[s] EXCEPT !.status = "resolved"]
      /\ e.cycle[s] = m.cycle[s]
  BY <1>1, <1>2, CaseResolve
<1>4. m.case[s] \in CaseRows
  BY <1>1, TablesTyped
<1>5. e.case[s].status = "resolved"
  BY <1>3, <1>4 DEF CaseRows
<1>6. e.sit = d.sit
  BY <1>1, <1>3 DEF Rewrites
<1>7. LedgerOf(e, s)
  BY <1>3, <1>5, <1>6 DEF LedgerOf, Ledger, Short, UNOWNED, PENDING
<1>8. Rewrites(d, e, s)
  BY <1>3, RewritesTwice
<1> QED
  BY <1>2, <1>7, <1>8 DEF Works

(* resolve *)
LEMMA ResolveWorks ==
    ASSUME NEW d \in Tables, NEW s \in Cases, LedgerOf(d, s),
           d.case[s].status # "queue", d.case[s].status # "none"
    PROVE  Works(d, resolve(d, s), s)
<1>1. PICK m : m = IF d.case[s].status = "working" THEN noc_cycle_left(d, s) ELSE d
  OBVIOUS
<1>2. Works(d, m, s) /\ m.case[s] = d.case[s] /\ m.cycle[s] = <<>>
  BY <1>1, OffDesk
<1>3. m \in Tables /\ LedgerOf(m, s)
  BY <1>2, WorksTables
<1>4. PICK w : w = noc_cycle_withdrawn(m, s)
  OBVIOUS
<1>5. Rewrites(m, w, s) /\ w.cycle[s] = Withdrawn(m.cycle[s])
  BY <1>3, <1>4, CycleWithdrawn DEF LedgerOf, Ledger
<1>6. w.cycle[s] = <<>>
  BY <1>2, <1>5 DEF Withdrawn
<1>7. Rewrites(d, w, s) /\ d.sit[s] # "none"
  BY <1>2, <1>5, RewritesTwice DEF Works, LedgerOf, Ledger
<1>8. Works(d, noc_case_resolve(w, s), s)
  BY <1>6, <1>7, ConcludeWorks
<1> QED
  BY <1>1, <1>4, <1>8 DEF resolve

(* auto_resolve *)
LEMMA AutoResolveWorks ==
    ASSUME NEW d \in Tables, NEW s \in Cases, LedgerOf(d, s), d.sit[s] # "none"
    PROVE  Works(d, auto_resolve(d, s), s)
<1>1. PICK m : m = noc_cycle_withdrawn(d, s)
  OBVIOUS
<1>2. Rewrites(d, m, s) /\ m.cycle[s] = Withdrawn(d.cycle[s])
  BY <1>1, CycleWithdrawn DEF LedgerOf, Ledger
<1>3. m \in Tables /\ Short(m.cycle[s])
  BY <1>2, ShortLists DEF Rewrites, LedgerOf, Ledger
<1>4. PICK w : w = noc_cycle_left(m, s)
  OBVIOUS
<1>5. Rewrites(m, w, s) /\ w.cycle[s] = Left(m.cycle[s])
  BY <1>3, <1>4, CycleLeft
<1>6. w.cycle[s] = <<>>
  BY <1>2, <1>5, AllOver DEF LedgerOf
<1>7. Rewrites(d, w, s)
  BY <1>2, <1>5, RewritesTwice
<1>8. Works(d, noc_case_resolve(w, s), s)
  BY <1>6, <1>7, ConcludeWorks
<1> QED
  BY <1>1, <1>4, <1>8 DEF auto_resolve

(* A case given to an agent, or to the people, and the agent woken. *)
LEMMA AssignedWorks ==
    ASSUME NEW d \in Tables, NEW s \in Cases, LedgerOf(d, s),
           NEW a \in Agents \cup {Nobody}, NEW people \in BOOLEAN
    PROVE  LET e == noc_case_assign(d, s, a, people)
           IN  Works(d, e, s) /\ e.case[s].status = d.case[s].status
<1>1. PICK e : e = noc_case_assign(d, s, a, people)
  OBVIOUS
<1>2. /\ Rewrites(d, e, s) /\ e.cycle[s] = d.cycle[s]
      /\ e.case[s].status = d.case[s].status /\ e.case[s].owner = d.case[s].owner
      /\ e.case[s].prio = d.case[s].prio /\ e.case[s].next = d.case[s].next
  BY <1>1, CaseAssign
<1>3. d.case[s] \in CaseRows /\ e.case[s] \in CaseRows /\ e.sit = d.sit
  BY <1>2, TablesTyped DEF Rewrites
<1>5. Ledger(d.sit[s], d.case[s], d.cycle[s])
  BY DEF LedgerOf
<1>6. Ledger(d.sit[s], e.case[s], d.cycle[s])
  BY <1>2, <1>3, <1>5, LedgerRouted
<1>7. LedgerOf(e, s)
  BY <1>2, <1>3, <1>6 DEF LedgerOf
<1> QED
  BY <1>1, <1>2, <1>7 DEF Works

LEMMA WokenWorks ==
    ASSUME NEW d, NEW m, NEW s \in Cases, Works(d, m, s), NEW a \in Agents
    PROVE  Works(d, noc_wake(m, a), s)
<1>1. m \in Tables /\ LedgerOf(m, s)
  BY WorksTables
<1>2. PICK e : e = noc_wake(m, a)
  OBVIOUS
<1>3. Rewrites(m, e, s) /\ e.case = m.case /\ e.cycle = m.cycle
  BY <1>1, <1>2, WakeRewrites
<1>4. e.sit = m.sit
  BY <1>3 DEF Rewrites
<1>5. LedgerOf(e, s)
  BY <1>1, <1>3, <1>4 DEF LedgerOf
<1> QED
  BY <1>2, <1>3, <1>5, WorksTwice DEF Works

(* assign *)
LEMMA AssignWorks ==
    ASSUME NEW d \in Tables, NEW s \in Cases, LedgerOf(d, s), NEW a \in Agents
    PROVE  Works(d, assign(d, s, a), s)
<1>1. PICK m : m = noc_case_assign(d, s, a, FALSE)
  OBVIOUS
<1>2. Works(d, m, s)
  BY <1>1, AssignedWorks
<1>3. Works(d, noc_wake(m, a), s)
  BY <1>2, WokenWorks
<1>4. assign(d, s, a) = m \/ assign(d, s, a) = noc_wake(m, a)
  BY <1>1 DEF assign
<1> QED
  BY <1>2, <1>3, <1>4

(* back_to_agent *)
LEMMA BackToAgentWorks ==
    ASSUME NEW d \in Tables, NEW s \in Cases, LedgerOf(d, s)
    PROVE  Works(d, back_to_agent(d, s), s)
<1> DEFINE a == d.case[s].agent
<1>1. a \in Agents \cup {Nobody}
  BY TablesTyped DEF CaseRows
<1>2. CASE a = Nobody
  BY <1>2, WorksNothing DEF back_to_agent
<1>3. CASE a \in Agents
  <2>1. PICK b \in Agents : b = a
    BY <1>3
  <2>2. PICK m : m = noc_case_assign(d, s, b, FALSE)
    OBVIOUS
  <2>3. Works(d, m, s)
    BY <2>1, <2>2, AssignedWorks
  <2>4. Works(d, noc_wake(m, b), s)
    BY <2>1, <2>3, WokenWorks
  <2>5. \/ back_to_agent(d, s) = d \/ back_to_agent(d, s) = m
        \/ back_to_agent(d, s) = noc_wake(m, b)
    BY <2>1, <2>2 DEF back_to_agent
  <2> QED
    BY <2>3, <2>4, <2>5, WorksNothing
<1> QED
  BY <1>1, <1>2, <1>3

(* requeue *)
LEMMA RequeueWorks ==
    ASSUME NEW d \in Tables, NEW s \in Cases, LedgerOf(d, s),
           d.case[s].status \in PENDING \cup {"auto"}
    PROVE  Works(d, requeue(d, s), s)
<1>1. PICK r : r = reprioritize(d, s)
  OBVIOUS
<1>2. Works(d, r, s) /\ r.case[s].status = d.case[s].status
  BY <1>1, ReprioritizeWorks
<1>3. r \in Tables /\ LedgerOf(r, s)
  BY <1>2, WorksTables
<1>4. r.cycle[s] = <<>> /\ r.case[s].status # "none"
  BY <1>2, <1>3, NoCycle DEF LedgerOf, PENDING
<1>5. PICK e : e = noc_case_enqueue(r, s)
  OBVIOUS
<1>6. Works(r, e, s)
  BY <1>3, <1>4, <1>5, EnqueueWorks
<1>7. e \in Tables /\ LedgerOf(e, s)
  BY <1>6, WorksTables
<1>8. Works(e, back_to_agent(e, s), s)
  BY <1>7, BackToAgentWorks
<1>9. requeue(d, s) = back_to_agent(e, s)
  BY <1>1, <1>5 DEF requeue
<1> QED
  BY <1>2, <1>6, <1>8, <1>9, WorksTwice, RewritesTwice DEF Works

(* dispatch *)
LEMMA DispatchWorks ==
    ASSUME NEW d \in Tables, NEW s \in Cases, LedgerOf(d, s), d.case[s].status = "new",
           NEW automate \in BOOLEAN
    PROVE  Works(d, dispatch(d, s, automate), s)
<1>1. PICK r : r = reprioritize(d, s)
  OBVIOUS
<1>2. /\ Works(d, r, s) /\ r.case[s].status = "new"
      /\ r.case[s].owner = d.case[s].owner
  BY <1>1, ReprioritizeWorks
<1>3. r \in Tables /\ LedgerOf(r, s)
  BY <1>2, WorksTables
<1>4. r.cycle[s] = <<>> /\ r.case[s].owner = Nobody
  BY <1>2, <1>3, NoCycle DEF LedgerOf, Ledger, UNOWNED
<1>5. CASE automate
  <2>1. PICK m : m = noc_case_move(r, s, "auto", Nobody)
    OBVIOUS
  <2>2. "auto" \in STATUSES /\ "auto" \notin PENDING
    BY DEF STATUSES, LIVE, UNOWNED, PENDING
  <2>3. Works(r, m, s)
    BY <1>2, <1>3, <1>4, <2>1, <2>2, MoveWorks
  <2> QED
    BY <1>1, <1>2, <1>5, <2>1, <2>3, WorksTwice DEF dispatch, Works
<1>6. CASE ~automate
  <2>1. PICK m : m = noc_case_enqueue(r, s)
    OBVIOUS
  <2>2. Works(r, m, s)
    BY <1>2, <1>3, <1>4, <2>1, EnqueueWorks
  <2> QED
    BY <1>1, <1>2, <1>6, <2>1, <2>2, WorksTwice DEF dispatch, Works
<1> QED
  BY <1>5, <1>6

(* auto_pend *)
LEMMA AutoPendWorks ==
    ASSUME NEW d \in Tables, NEW s \in Cases, LedgerOf(d, s), d.case[s].status = "auto",
           NEW to \in PENDING, NEW complete \in BOOLEAN
    PROVE  Works(d, auto_pend(d, s, to, complete), s)
<1>1. CASE ~complete
  BY <1>1, RequeueWorks DEF auto_pend
<1>2. CASE complete
  <2>1. PICK m : m = noc_case_set_fields(d, s, [next |-> "later", prio |-> "same"])
    OBVIOUS
  <2>2. Works(d, m, s) /\ m.case[s].status = "auto" /\ m.case[s].next = "later"
    BY <2>1, UpdateWorks
  <2>3. m \in Tables /\ LedgerOf(m, s)
    BY <2>2, WorksTables
  <2>4. m.cycle[s] = <<>>
    BY <2>2, <2>3, NoCycle DEF LedgerOf
  <2>5. PICK e : e = noc_case_move(m, s, to, Nobody)
    OBVIOUS
  <2>6. /\ to \in STATUSES /\ to # "queue" /\ to # "working" /\ to \notin UNOWNED
    BY DEF PENDING, STATUSES, LIVE, UNOWNED
  <2>7. Works(m, e, s)
    BY <2>2, <2>3, <2>4, <2>5, <2>6, MoveWorks
  <2> QED
    BY <1>2, <2>1, <2>2, <2>5, <2>7, WorksTwice DEF auto_pend, Works
<1> QED
  BY <1>1, <1>2

(* validate *)
LEMMA ValidateWorks ==
    ASSUME NEW d \in Tables, NEW s \in Cases, LedgerOf(d, s),
           d.case[s].status # "queue", d.case[s].status # "none"
    PROVE  Works(d, validate(d, s), s)
<1>1. PICK m : m = noc_cycle_left(d, s)
  OBVIOUS
<1>2. Works(d, m, s) /\ m.case[s] = d.case[s] /\ m.cycle[s] = <<>>
  BY <1>1, LeftWorks
<1>3. m \in Tables /\ LedgerOf(m, s)
  BY <1>2, WorksTables
<1>4. PICK e : e = noc_case_move(m, s, "validate", Nobody)
  OBVIOUS
<1>5. "validate" \in STATUSES /\ "validate" \notin UNOWNED /\ "validate" \notin PENDING
  BY DEF STATUSES, LIVE, UNOWNED, PENDING
<1>6. Works(m, e, s)
  BY <1>2, <1>3, <1>4, <1>5, MoveWorks
<1> QED
  BY <1>1, <1>2, <1>4, <1>6, WorksTwice DEF validate, Works

(* close *)
LEMMA CloseWorks ==
    ASSUME NEW d \in Tables, NEW s \in Cases, LedgerOf(d, s), d.case[s].status = "resolved"
    PROVE  Works(d, close(d, s), s)
<1>1. d.cycle[s] = <<>>
  BY NoCycle DEF LedgerOf
<1>2. "closed" \in STATUSES /\ "closed" \notin UNOWNED /\ "closed" \notin PENDING
  BY DEF STATUSES, LIVE, UNOWNED, PENDING
<1> QED
  BY <1>1, <1>2, MoveWorks DEF close

(* with_people *)
LEMMA WithPeopleWorks ==
    ASSUME NEW d \in Tables, NEW s \in Cases, LedgerOf(d, s)
    PROVE  Works(d, with_people(d, s), s)
<1>1. PICK w : w = IF d.case[s].status = "working" /\ d.case[s].owner \in Agents
                   THEN noc_case_enqueue(noc_cycle_left(d, s), s) ELSE d
  OBVIOUS
<1>2. Works(d, w, s)
  <2>1. CASE d.case[s].status = "working" /\ d.case[s].owner \in Agents
    <3>1. PICK m : m = noc_cycle_left(d, s)
      OBVIOUS
    <3>2. Works(d, m, s) /\ m.case[s] = d.case[s] /\ m.cycle[s] = <<>>
      BY <2>1, <3>1, LeftWorks
    <3>3. m \in Tables /\ LedgerOf(m, s)
      BY <3>2, WorksTables
    <3>4. w = noc_case_enqueue(m, s)
      BY <1>1, <2>1, <3>1
    <3>5. Works(m, w, s)
      BY <2>1, <3>2, <3>3, <3>4, EnqueueWorks
    <3> QED
      BY <3>2, <3>5, WorksTwice DEF Works
  <2>2. CASE ~(d.case[s].status = "working" /\ d.case[s].owner \in Agents)
    BY <1>1, <2>2, WorksNothing
  <2> QED
    BY <2>1, <2>2
<1>3. w \in Tables /\ LedgerOf(w, s)
  BY <1>2, WorksTables
<1>4. PICK e : e = noc_case_assign(w, s, Nobody, TRUE)
  OBVIOUS
<1>5. Works(w, e, s)
  BY <1>3, <1>4, AssignedWorks
<1>6. with_people(d, s) = e
  BY <1>1, <1>4 DEF with_people
<1> QED
  BY <1>2, <1>5, <1>6, WorksTwice DEF Works

(* escalate: the chain above an agent has agents only. *)
LEMMA EscalateWorks ==
    ASSUME NEW d \in Tables, NEW s \in Cases, LedgerOf(d, s), NEW from, NEW everyone
    PROVE  Works(d, escalate(d, s, from, everyone), s)
<1>1. CASE from = Nobody \/ Nearest(everyone, from) = {}
  BY <1>1, WithPeopleWorks DEF escalate
<1>2. CASE ~(from = Nobody \/ Nearest(everyone, from) = {})
  <2>1. PICK b : b = CHOOSE x \in Nearest(everyone, from) : TRUE
    OBVIOUS
  <2>2. b \in Nearest(everyone, from)
    BY <1>2, <2>1
  <2>3. b \in Agents
    BY <2>2 DEF Nearest, chain
  <2>4. escalate(d, s, from, everyone) = assign(d, s, b)
    BY <1>2, <2>1 DEF escalate
  <2> QED
    BY <2>3, <2>4, AssignWorks
<1> QED
  BY <1>1, <1>2

-----------------------------------------------------------------------------
(* What the NOC has heard *)

(* What news finds moved is heard as alarms are. *)
LEMMA NewsTyped ==
    ASSUME NEW d \in Tables, NEW s \in Cases
    PROVE  news(d, s).moved \in Heard
<1> DEFINE is == d.alarm[s]
           was == d.heard[s]
           members == noc_case_alarm_states(d, s)
           unheard == members \ DOMAIN was
<1>1. PICK moved : moved = news(d, s).moved
  OBVIOUS
<1>2. members \subseteq Alarms
  BY DEF noc_case_alarm_states
<1>3. is \in [Alarms -> AlarmRows]
  BY TablesTyped
<1>4. \E known \in SUBSET Alarms : moved \in [known -> HeardRows]
  <2>1. PICK known, told : /\ known \subseteq members
                           /\ \A a \in known : told[a] \in BOOLEAN
                           /\ moved = [a \in known |-> [on |-> is[a].on, raised |-> is[a].raised,
                                                        just |-> told[a]]]
    <3> DEFINE back(a) == ~was[a].on /\ is[a].raised > was[a].raised
               quiet(a) == was[a].just /\ ~(back(a) /\ d.case[s].status \in PENDING)
               changed == {a \in members \cap DOMAIN was :
                              /\ was[a].on # is[a].on \/ was[a].raised # is[a].raised
                              /\ ~quiet(a)}
               joined == {a \in unheard : is[a].on}
               raised == {a \in changed : back(a)}
               cleared == {a \in changed : ~back(a) /\ was[a].on /\ ~is[a].on}
               first == DOMAIN was = {}
               told(a) == \/ ~first /\ a \in joined \cup raised \cup cleared
                          \/ a \notin unheard /\ was[a].just
               whole == unheard \cup changed
    <3>1. whole \subseteq members
      OBVIOUS
    <3>2. \A a : told(a) \in BOOLEAN
      OBVIOUS
    <3>3. moved = [a \in whole |-> [on |-> is[a].on, raised |-> is[a].raised, just |-> told(a)]]
      BY ZenonT(60), <1>1 DEF news
    <3> HIDE DEF whole, told
    <3>4. moved = [a \in whole |-> [on |-> is[a].on, raised |-> is[a].raised,
                                    just |-> [b \in whole |-> told(b)][a]]]
      BY <3>3
    <3> QED
      BY <3>1, <3>2, <3>4
  <2>2. known \subseteq Alarms
    BY <1>2, <2>1
  <2>3. \A a \in known : [on |-> is[a].on, raised |-> is[a].raised, just |-> told[a]] \in HeardRows
    BY <1>3, <2>1, <2>2 DEF AlarmRows, HeardRows
  <2>4. moved \in [known -> HeardRows]
    BY <2>1, <2>3
  <2> QED
    BY <2>2, <2>4
<1> QED
  BY <1>1, <1>4 DEF Heard

(* noc_case_hear writes down what moved, and the ledger is not touched. *)
LEMMA HearWorks ==
    ASSUME NEW d \in Tables, NEW s \in Cases, LedgerOf(d, s), NEW moved \in Heard
    PROVE  LET e == noc_case_hear(d, s, moved)
           IN  Works(d, e, s) /\ e.case = d.case
<1>1. PICK h : h = [a \in DOMAIN d.heard[s] \cup DOMAIN moved |->
                      IF a \in DOMAIN moved THEN moved[a] ELSE d.heard[s][a]]
  OBVIOUS
<1>2. h \in Heard
  <2>0. d.heard[s] \in Heard
    BY TablesTyped
  <2>1. PICK k \in SUBSET Alarms : d.heard[s] \in [k -> HeardRows]
    BY <2>0 DEF Heard
  <2>2. PICK l \in SUBSET Alarms : moved \in [l -> HeardRows]
    BY DEF Heard
  <2>3. h \in [k \cup l -> HeardRows]
    BY <1>1, <2>1, <2>2
  <2>4. k \cup l \in SUBSET Alarms
    OBVIOUS
  <2> QED
    BY <2>3, <2>4 DEF Heard
<1>3. PICK e : e = noc_case_hear(d, s, moved)
  OBVIOUS
<1>4. e = [d EXCEPT !.heard[s] = h]
  BY <1>1, <1>3 DEF noc_case_hear, Tables
<1>5. /\ e \in Tables /\ e.case = d.case /\ e.cycle = d.cycle /\ e.sit = d.sit
      /\ e.alarm = d.alarm /\ e.agent = d.agent /\ e.run = d.run /\ e.playbook = d.playbook
      /\ \A t \in Cases \ {s} : e.heard[t] = d.heard[t]
  BY <1>2, <1>4 DEF Tables
<1>6. Rewrites(d, e, s) /\ LedgerOf(e, s)
  BY <1>5 DEF Rewrites, LedgerOf
<1> QED
  BY <1>3, <1>5, <1>6 DEF Works

(* apply *)
LEMMA ApplyWorks ==
    ASSUME NEW d \in Tables, NEW s \in Cases, LedgerOf(d, s), NEW found, found.moved \in Heard
    PROVE  Works(d, apply(d, s, found), s)
<1>1. PICK h : h = noc_case_hear(d, s, found.moved)
  OBVIOUS
<1>2. Works(d, h, s) /\ h.case = d.case
  BY <1>1, HearWorks
<1>3. h \in Tables /\ LedgerOf(h, s)
  BY <1>2, WorksTables
<1>4. CASE found.worse /\ d.case[s].status \in PENDING
  <2>1. Works(h, requeue(h, s), s)
    BY <1>2, <1>3, <1>4, RequeueWorks
  <2>2. apply(d, s, found) = d \/ apply(d, s, found) = requeue(h, s)
    BY <1>1, <1>4 DEF apply
  <2> QED
    BY <1>2, <2>1, <2>2, WorksTwice, WorksNothing DEF Works
<1>5. CASE ~(found.worse /\ d.case[s].status \in PENDING)
  <2>1. apply(d, s, found) = d \/ apply(d, s, found) = h
    BY <1>1, <1>5 DEF apply
  <2> QED
    BY <1>2, <2>1, WorksNothing
<1> QED
  BY <1>4, <1>5

(* The resolution of a case that outlives its situation. *)
LEMMA OrphanWorks ==
    ASSUME NEW d \in Tables, NEW s \in Cases, LedgerOf(d, s), d.sit[s] # "none", NEW how
    PROVE  Works(d, Orphan(d, s, how), s)
<1>0. d.case[s].status # "none"
  BY DEF LedgerOf, Ledger
<1>1. CASE d.case[s].status \in {"resolved", "closed", "validate"}
  BY <1>1, WorksNothing DEF Orphan
<1>2. CASE d.case[s].status \notin {"resolved", "closed", "validate"}
                /\ (how = "merged" \/ d.case[s].status \in UNOWNED)
  <2>1. Orphan(d, s, how) = auto_resolve(d, s)
    BY <1>2 DEF Orphan
  <2> QED
    BY <2>1, AutoResolveWorks
<1>3. CASE d.case[s].status \notin {"resolved", "closed", "validate"}
                /\ ~(how = "merged" \/ d.case[s].status \in UNOWNED)
  <2>1. Orphan(d, s, how) = validate(d, s)
    BY <1>3 DEF Orphan
  <2>2. d.case[s].status # "queue"
    BY <1>3 DEF UNOWNED
  <2> QED
    BY <1>0, <2>1, <2>2, ValidateWorks
<1> QED
  BY <1>1, <1>2, <1>3

-----------------------------------------------------------------------------
(* The tables are sound: typed, every case's ledger kept, and no agent     *)
(* shown running without a run.                                            *)
Running(d) == \A a \in Agents : d.agent[a].status = "running" => RunsOf(d, a, "running") # {}

Sound(d) == d \in Tables /\ (\A s \in Cases : LedgerOf(d, s)) /\ Running(d)

(* No situation is unmade. *)
Holds(d, e) == Sound(e) /\ \A s \in Cases : d.sit[s] # "none" => e.sit[s] # "none"

SameBosses(d, e) == \A a \in Agents : e.agent[a].boss = d.agent[a].boss

SameRetired(d, e) ==
    \A a \in Agents : d.agent[a].status = "terminated" => e.agent[a].status = "terminated"

(* No boss is changed besides, and no agent that left comes back. *)
Keeps(d, e) == Holds(d, e) /\ SameBosses(d, e) /\ SameRetired(d, e)

LEMMA HoldsTwice ==
    ASSUME NEW d, NEW e, NEW f, Holds(d, e), Holds(e, f)
    PROVE  Holds(d, f)
BY DEF Holds

LEMMA SameBossesTwice ==
    ASSUME NEW d, NEW e, NEW f, SameBosses(d, e), SameBosses(e, f)
    PROVE  SameBosses(d, f)
BY DEF SameBosses

LEMMA KeepsTwice ==
    ASSUME NEW d, NEW e, NEW f, Keeps(d, e), Keeps(e, f)
    PROVE  Keeps(d, f)
BY DEF Keeps, Holds, SameBosses, SameRetired

LEMMA KeepsNothing ==
    ASSUME NEW d, Sound(d)
    PROVE  Keeps(d, d)
BY DEF Keeps, Holds, SameBosses, SameRetired

LEMMA KeepsByAgents ==
    ASSUME NEW d, NEW e, Holds(d, e), e.agent = d.agent
    PROVE  Keeps(d, e)
BY DEF Keeps, SameBosses, SameRetired

(* A row that is free holds no run that is running. *)
LEMMA RunningKept ==
    ASSUME NEW d, NEW e, Running(d), e.agent = d.agent,
           \A r \in RunIds : e.run[r] = d.run[r] \/ d.run[r] = NoRun
    PROVE  Running(e)
BY DEF Running, RunsOf, NoRun

LEMMA WorksKeeps ==
    ASSUME NEW d, Sound(d), NEW s \in Cases, NEW e, Works(d, e, s)
    PROVE  Keeps(d, e)
<1>1. e \in Tables /\ e.sit = d.sit /\ LedgerOf(e, s)
  BY WorksTables
<1>2. \A t \in Cases \ {s} : LedgerOf(e, t)
  BY DEF Sound, Works, Rewrites, LedgerOf
<1>3. Running(e)
  BY RunningKept DEF Sound, Works, Rewrites
<1>4. Holds(d, e) /\ e.agent = d.agent
  BY <1>1, <1>2, <1>3 DEF Holds, Sound, Works, Rewrites
<1> QED
  BY <1>4, KeepsByAgents

LEMMA WakesRunning ==
    ASSUME NEW d \in Tables, NEW woken \in SUBSET Agents, Running(d)
    PROVE  Running(noc_wakes(d, woken))
<1>1. PICK e : e = noc_wakes(d, woken)
  OBVIOUS
<1>2. /\ e = [d EXCEPT !.run = e.run]
      /\ \A r \in RunIds : e.run[r] = d.run[r] \/ d.run[r] = NoRun
  BY <1>1, Wakes
<1>3. e.agent = d.agent
  <2>1. [d EXCEPT !.run = e.run].agent = d.agent
    BY DEF Tables
  <2> QED
    BY <1>2, <2>1
<1> QED
  BY <1>1, <1>2, <1>3, RunningKept

LEMMA WakesKeeps ==
    ASSUME NEW d, Sound(d), NEW woken \in SUBSET Agents
    PROVE  Keeps(d, noc_wakes(d, woken))
<1>1. d \in Tables /\ Running(d)
  BY DEF Sound
<1>2. PICK e : e = noc_wakes(d, woken)
  OBVIOUS
<1>3. \A s \in Cases : Rewrites(d, e, s) /\ e.case = d.case /\ e.cycle = d.cycle
  BY <1>1, <1>2, WakesRewrites
<1>4. e \in Tables /\ Running(e)
  BY <1>1, <1>2, Wakes, WakesRunning
<1>5. \A s \in Cases : LedgerOf(e, s) /\ e.sit[s] = d.sit[s]
  BY <1>3 DEF Sound, Rewrites, LedgerOf
<1>6. e = [d EXCEPT !.run = e.run]
  BY <1>1, <1>2, Wakes
<1>7. [d EXCEPT !.run = e.run].agent = d.agent
  BY <1>1 DEF Tables
<1>8. Holds(d, e) /\ e.agent = d.agent
  BY <1>4, <1>5, <1>6, <1>7 DEF Holds, Sound
<1> QED
  BY <1>2, <1>8, KeepsByAgents

LEMMA SoundTables ==
    ASSUME NEW d, Sound(d), NEW s \in Cases
    PROVE  d \in Tables /\ LedgerOf(d, s)
BY DEF Sound

(* Together: what the operations make of their cases, at once. *)
LEMMA TogetherKeeps ==
    ASSUME NEW d, Sound(d), NEW worked \in SUBSET Cases, NEW after, DOMAIN after = worked,
           \A s \in worked : Works(d, after[s], s)
    PROVE  Keeps(d, Together(d, after))
<1> DEFINE woken == {a \in Agents : \E s \in worked : RunsOf(after[s], a, "queued") # {}}
           merged == [d EXCEPT
                        !.case = [s \in Cases |-> IF s \in worked THEN after[s].case[s] ELSE @[s]],
                        !.cycle = [s \in Cases |-> IF s \in worked THEN after[s].cycle[s] ELSE @[s]],
                        !.heard = [s \in Cases |-> IF s \in worked THEN after[s].heard[s] ELSE @[s]]]
<1>1. d \in Tables
  BY DEF Sound
<1>2. \A s \in worked : /\ after[s].case[s] \in CaseRows /\ after[s].cycle[s] \in Seq(CycleRows)
                        /\ after[s].heard[s] \in Heard
  <2> SUFFICES ASSUME NEW s \in worked
               PROVE  /\ after[s].case[s] \in CaseRows /\ after[s].cycle[s] \in Seq(CycleRows)
                      /\ after[s].heard[s] \in Heard
    OBVIOUS
  <2>1. PICK e : e = after[s]
    OBVIOUS
  <2>2. e \in Tables
    BY SMTT(60), <2>1, WorksTables
  <2> QED
    BY <2>1, <2>2, TablesTyped
<1>3. /\ merged \in Tables /\ merged.sit = d.sit /\ merged.agent = d.agent /\ merged.run = d.run
      /\ merged.case = [s \in Cases |-> IF s \in worked THEN after[s].case[s] ELSE d.case[s]]
      /\ merged.cycle = [s \in Cases |-> IF s \in worked THEN after[s].cycle[s] ELSE d.cycle[s]]
  BY ZenonT(60), <1>1, <1>2 DEF Tables
<1>4. PICK m : m = merged
  OBVIOUS
<1>5. Together(d, after) = noc_wakes(m, woken)
  BY <1>4 DEF Together
<1> HIDE DEF merged, woken
<1>6. \A s \in Cases : LedgerOf(m, s)
  <2> SUFFICES ASSUME NEW s \in Cases
               PROVE  LedgerOf(m, s)
    OBVIOUS
  <2>1. CASE s \in worked
    <3>1. PICK e : e = after[s]
      OBVIOUS
    <3>2. e.sit = d.sit /\ LedgerOf(e, s)
      BY <2>1, <3>1, WorksTables
    <3>3. m.case[s] = e.case[s] /\ m.cycle[s] = e.cycle[s] /\ m.sit = d.sit
      BY <1>3, <1>4, <2>1, <3>1
    <3> QED
      BY <3>2, <3>3 DEF LedgerOf
  <2>2. CASE s \notin worked
    BY <1>3, <1>4, <2>2 DEF LedgerOf, Sound
  <2> QED
    BY <2>1, <2>2
<1>7. m \in Tables /\ Running(m)
  BY <1>3, <1>4, RunningKept DEF Sound
<1>8. woken \in SUBSET Agents
  BY DEF woken
<1>9. PICK e : e = noc_wakes(m, woken)
  OBVIOUS
<1>10. \A s \in Cases : Rewrites(m, e, s) /\ e.case = m.case /\ e.cycle = m.cycle
  BY <1>7, <1>8, <1>9, WakesRewrites
<1>11. e \in Tables /\ Running(e)
  BY <1>7, <1>8, <1>9, Wakes, WakesRunning
<1>12. \A s \in Cases : LedgerOf(e, s)
  BY <1>6, <1>10 DEF LedgerOf, Rewrites
<1>13. \A s \in Cases : e.sit[s] = d.sit[s]
  BY <1>3, <1>4, <1>10 DEF Rewrites
<1>14. e.agent = d.agent
  <2>1. e = [m EXCEPT !.run = e.run]
    BY <1>7, <1>8, <1>9, Wakes
  <2>2. [m EXCEPT !.run = e.run].agent = m.agent
    BY <1>7 DEF Tables
  <2> QED
    BY <1>3, <1>4, <2>1, <2>2
<1>15. Holds(d, e)
  BY <1>11, <1>12, <1>13 DEF Holds, Sound
<1> QED
  BY <1>5, <1>9, <1>14, <1>15, KeepsByAgents

(* The edits that leave cases, cycles, agents and runs as they are. *)
LEMMA BesidesKeeps ==
    ASSUME NEW d, Sound(d), NEW e \in Tables, e.case = d.case, e.cycle = d.cycle,
           e.agent = d.agent, e.run = d.run,
           \A s \in Cases : e.sit[s] = "none" <=> d.sit[s] = "none"
    PROVE  Keeps(d, e)
<1>1. \A s \in Cases : LedgerOf(e, s)
  BY DEF Sound, LedgerOf, Ledger
<1>2. Running(e)
  BY RunningKept DEF Sound
<1>3. Holds(d, e)
  BY <1>1, <1>2 DEF Holds, Sound
<1> QED
  BY <1>3, KeepsByAgents

LEMMA PlaybookKeeps ==
    ASSUME NEW d, Sound(d), NEW p \in [Cases -> BOOLEAN]
    PROVE  Keeps(d, [d EXCEPT !.playbook = p])
<1>1. PICK e : e = [d EXCEPT !.playbook = p]
  OBVIOUS
<1>2. /\ e \in Tables /\ e.case = d.case /\ e.cycle = d.cycle /\ e.sit = d.sit
      /\ e.agent = d.agent /\ e.run = d.run
  BY <1>1 DEF Sound, Tables
<1> QED
  BY <1>1, <1>2, BesidesKeeps

LEMMA PlaybookStepKeeps ==
    ASSUME NEW d, Sound(d), NEW s \in Cases
    PROVE  Keeps(d, noc_run_start(d, s)) /\ Keeps(d, noc_run_end(d, s))
<1>1. d.playbook \in [Cases -> BOOLEAN]
  BY TablesTyped DEF Sound
<1>2. PICK p, q : p = [d.playbook EXCEPT ![s] = TRUE] /\ q = [d.playbook EXCEPT ![s] = FALSE]
  OBVIOUS
<1>3. p \in [Cases -> BOOLEAN] /\ q \in [Cases -> BOOLEAN]
  BY <1>1, <1>2
<1>4. noc_run_start(d, s) = [d EXCEPT !.playbook = p]
  BY <1>2 DEF noc_run_start
<1>5. noc_run_end(d, s) = [d EXCEPT !.playbook = q]
  BY <1>2 DEF noc_run_end
<1> QED
  BY <1>3, <1>4, <1>5, PlaybookKeeps

(* close_for_case: the situation is closed with its case. *)
LEMMA CloseForCaseKeeps ==
    ASSUME NEW d, Sound(d), NEW s \in Cases, NEW clear \in BOOLEAN
    PROVE  Keeps(d, close_for_case(d, s, clear))
<1>1. PICK e : e = close_for_case(d, s, clear)
  OBVIOUS
<1>2. PICK i, l : /\ i = [d.sit EXCEPT ![s] = IF d.sit[s] = "open" THEN "cleared" ELSE d.sit[s]]
                  /\ l = [d.alarm EXCEPT ![s] =
                            IF clear THEN [a \in Alarms |-> [d.alarm[s][a] EXCEPT !.on = FALSE]]
                                     ELSE d.alarm[s]]
  OBVIOUS
<1>3. e = [d EXCEPT !.sit = i, !.alarm = l]
  BY <1>1, <1>2 DEF close_for_case, Sound, Tables
<1>4. d \in Tables
  BY DEF Sound
<1>5. /\ d.sit \in [Cases -> {"none", "open", "cleared", "merged"}]
      /\ d.alarm \in [Cases -> [Alarms -> AlarmRows]]
  BY <1>4, TablesTyped
<1>6. i \in [Cases -> {"none", "open", "cleared", "merged"}]
  BY <1>2, <1>5
<1>7. l \in [Cases -> [Alarms -> AlarmRows]]
  <2>1. \A r \in AlarmRows : [r EXCEPT !.on = FALSE] \in AlarmRows
    BY DEF AlarmRows
  <2>2. PICK m : m = IF clear THEN [a \in Alarms |-> [d.alarm[s][a] EXCEPT !.on = FALSE]]
                              ELSE d.alarm[s]
    OBVIOUS
  <2>3. m \in [Alarms -> AlarmRows]
    BY <1>5, <2>1, <2>2
  <2> QED
    BY <1>2, <1>5, <2>2, <2>3
<1>8. /\ e \in Tables /\ e.case = d.case /\ e.cycle = d.cycle /\ e.sit = i
      /\ e.agent = d.agent /\ e.run = d.run
  BY <1>3, <1>4, <1>6, <1>7 DEF Tables
<1>9. \A t \in Cases : i[t] = "none" <=> d.sit[t] = "none"
  BY <1>2, <1>5
<1> QED
  BY <1>1, <1>8, <1>9, BesidesKeeps

(* Forget: what no rule reads any more. *)
LEMMA ForgetKeeps ==
    ASSUME NEW d, Sound(d), NEW held
    PROVE  Keeps(d, Forget(d, held))
<1>1. PICK e : e = Forget(d, held)
  OBVIOUS
<1> DEFINE over(s) == d.case[s].status \in {"resolved", "closed"}
           run == [r \in RunIds |-> IF r \notin held /\ d.run[r].status \notin {"queued", "running"}
                                    THEN NoRun ELSE d.run[r]]
           case == [s \in Cases |-> IF over(s) THEN [NoCase EXCEPT !.status = d.case[s].status]
                                               ELSE d.case[s]]
           heard == [s \in Cases |-> IF over(s) THEN Unheard ELSE d.heard[s]]
           alarm == [s \in Cases |-> IF over(s) THEN Silent ELSE d.alarm[s]]
<1>2. e = [d EXCEPT !.run = run, !.case = case, !.heard = heard, !.alarm = alarm]
  BY <1>1 DEF Forget
<1>3. d \in Tables
  BY DEF Sound
<1>4. run \in [RunIds -> RunRows]
  BY <1>3, TablesTyped DEF RunRows, NoRun
<1>5. case \in [Cases -> CaseRows]
  <2>1. \A status \in STATUSES : [NoCase EXCEPT !.status = status] \in CaseRows
    BY DEF NoCase, CaseRows
  <2>2. "resolved" \in STATUSES /\ "closed" \in STATUSES
    BY DEF STATUSES
  <2> QED
    BY <1>3, <2>1, <2>2, TablesTyped
<1>6. heard \in [Cases -> Heard]
  <2>1. Unheard \in [{} -> HeardRows] /\ {} \in SUBSET Alarms
    BY DEF Unheard
  <2>2. Unheard \in Heard
    BY <2>1 DEF Heard
  <2> QED
    BY <1>3, <2>2, TablesTyped
<1>7. alarm \in [Cases -> [Alarms -> AlarmRows]]
  <2>1. Silent \in [Alarms -> AlarmRows]
    BY NocConstants DEF Silent, AlarmRows
  <2> QED
    BY <1>3, <2>1, TablesTyped
<1>8. \A s \in Cases : over(s) => /\ case[s].status = d.case[s].status
                                  /\ case[s].status \in {"resolved", "closed"}
  BY DEF NoCase
<1>9. \A s \in Cases : ~over(s) => case[s] = d.case[s]
  OBVIOUS
<1>10. \A r \in RunIds : d.run[r].status = "running" => run[r] = d.run[r]
  OBVIOUS
<1> HIDE DEF run, case, heard, alarm
<1>11. /\ e \in Tables /\ e.case = case /\ e.cycle = d.cycle /\ e.sit = d.sit
       /\ e.agent = d.agent /\ e.run = run
  BY <1>2, <1>3, <1>4, <1>5, <1>6, <1>7 DEF Tables
<1>12. \A s \in Cases : LedgerOf(e, s)
  <2> SUFFICES ASSUME NEW s \in Cases
               PROVE  LedgerOf(e, s)
    OBVIOUS
  <2>1. LedgerOf(d, s)
    BY DEF Sound
  <2>2. CASE over(s)
    <3>1. d.cycle[s] = <<>>
      BY <2>1, <2>2, NoCycle DEF LedgerOf
    <3> QED
      BY <1>8, <1>11, <2>1, <2>2, <3>1 DEF LedgerOf, Ledger, UNOWNED, PENDING
  <2>3. CASE ~over(s)
    BY <1>9, <1>11, <2>1, <2>3 DEF LedgerOf
  <2> QED
    BY <2>2, <2>3
<1>13. Running(e)
  <2>1. Running(d)
    BY DEF Sound
  <2> QED
    BY <1>10, <1>11, <2>1 DEF Running, RunsOf
<1>14. Holds(d, e)
  BY <1>11, <1>12, <1>13 DEF Holds, Sound
<1> QED
  BY <1>1, <1>11, <1>14, KeepsByAgents

-----------------------------------------------------------------------------
(* Agents and their runs *)

(* The edits of agents and runs that leave the cases as they are. *)
LEMMA AgentsHold ==
    ASSUME NEW d, Sound(d), NEW agent \in [Agents -> AgentRows], NEW run \in [RunIds -> RunRows],
           \A a \in Agents : agent[a].status = "running" =>
               \E r \in RunIds : run[r].agent = a /\ run[r].status = "running"
    PROVE  Holds(d, [d EXCEPT !.agent = agent, !.run = run])
<1>1. PICK e : e = [d EXCEPT !.agent = agent, !.run = run]
  OBVIOUS
<1>2. /\ e \in Tables /\ e.case = d.case /\ e.cycle = d.cycle /\ e.sit = d.sit
      /\ e.agent = agent /\ e.run = run
  BY <1>1 DEF Sound, Tables
<1>3. \A s \in Cases : LedgerOf(e, s)
  BY <1>2 DEF Sound, LedgerOf
<1>4. Running(e)
  BY <1>2 DEF Running, RunsOf
<1> QED
  BY <1>1, <1>2, <1>3, <1>4 DEF Holds, Sound

LEMMA AgentsKeep ==
    ASSUME NEW d, Sound(d), NEW agent \in [Agents -> AgentRows], NEW run \in [RunIds -> RunRows],
           \A a \in Agents : agent[a].status = "running" =>
               \E r \in RunIds : run[r].agent = a /\ run[r].status = "running",
           \A a \in Agents : /\ agent[a].boss = d.agent[a].boss
                             /\ d.agent[a].status = "terminated" => agent[a].status = "terminated",
           NEW e, e = [d EXCEPT !.agent = agent, !.run = run]
    PROVE  Keeps(d, e)
<1>1. Holds(d, [d EXCEPT !.agent = agent, !.run = run])
  BY AgentsHold
<1>2. e.agent = agent
  BY DEF Sound, Tables
<1> QED
  BY <1>1, <1>2 DEF Keeps, SameBosses, SameRetired

LEMMA RunningRuns ==
    ASSUME NEW d, Sound(d)
    PROVE  /\ d.agent \in [Agents -> AgentRows] /\ d.run \in [RunIds -> RunRows]
           /\ \A a \in Agents : d.agent[a].status = "running" =>
                 \E r \in RunIds : d.run[r].agent = a /\ d.run[r].status = "running"
<1>1. d \in Tables /\ Running(d)
  BY DEF Sound
<1> QED
  BY <1>1, TablesTyped DEF Running, RunsOf

(* noc_set_agent_status, but for the one that says running. *)
LEMMA StatusHolds ==
    ASSUME NEW d, Sound(d), NEW a, NEW status \in {"idle", "error", "paused", "terminated"}
    PROVE  LET e == noc_set_agent_status(d, a, status)
           IN  /\ Holds(d, e) /\ SameBosses(d, e)
               /\ \A b \in Agents : \/ b # a /\ e.agent[b].status = d.agent[b].status
                                    \/ b = a /\ e.agent[b].status = status
<1>1. PICK agent : agent = [d.agent EXCEPT ![a].status = status]
  OBVIOUS
<1>2. /\ d.agent \in [Agents -> AgentRows] /\ d.run \in [RunIds -> RunRows]
      /\ \A b \in Agents : d.agent[b].status = "running" =>
            \E r \in RunIds : d.run[r].agent = b /\ d.run[r].status = "running"
  BY RunningRuns
<1>3. \A row \in AgentRows : /\ [row EXCEPT !.status = status] \in AgentRows
                             /\ [row EXCEPT !.status = status].status = status
                             /\ [row EXCEPT !.status = status].boss = row.boss
  BY DEF AgentRows, WORKING
<1>4. agent \in [Agents -> AgentRows]
  BY <1>1, <1>2, <1>3
<1>5. \A b \in Agents : /\ \/ b # a /\ agent[b].status = d.agent[b].status
                           \/ b = a /\ agent[b].status = status
                        /\ agent[b].boss = d.agent[b].boss
  BY <1>1, <1>2, <1>3
<1>6. \A b \in Agents : agent[b].status = "running" =>
            \E r \in RunIds : d.run[r].agent = b /\ d.run[r].status = "running"
  BY <1>2, <1>5
<1>7. PICK e, run : run = d.run /\ e = [d EXCEPT !.agent = agent, !.run = run]
  OBVIOUS
<1>8. Holds(d, e) /\ e.agent = agent
  <2>1. /\ run \in [RunIds -> RunRows]
        /\ \A b \in Agents : agent[b].status = "running" =>
              \E r \in RunIds : run[r].agent = b /\ run[r].status = "running"
    BY <1>2, <1>6, <1>7
  <2>2. Holds(d, [d EXCEPT !.agent = agent, !.run = run])
    BY <1>4, <2>1, AgentsHold
  <2>3. e.agent = agent
    BY <1>7 DEF Sound, Tables
  <2> QED
    BY <1>7, <2>2, <2>3
<1>9. noc_set_agent_status(d, a, status) = e
  BY <1>1, <1>7 DEF noc_set_agent_status, Sound, Tables
<1> QED
  BY <1>5, <1>8, <1>9 DEF SameBosses

LEMMA StatusKeeps ==
    ASSUME NEW d, Sound(d), NEW a, NEW status \in {"idle", "error", "paused", "terminated"},
           a \in Agents => d.agent[a].status # "terminated"
    PROVE  Keeps(d, noc_set_agent_status(d, a, status))
<1>1. PICK e : e = noc_set_agent_status(d, a, status)
  OBVIOUS
<1>2. /\ Holds(d, e) /\ SameBosses(d, e)
      /\ \A b \in Agents : \/ b # a /\ e.agent[b].status = d.agent[b].status
                           \/ b = a /\ e.agent[b].status = status
  BY <1>1, StatusHolds
<1> QED
  BY <1>1, <1>2 DEF Keeps, SameRetired

(* noc_agent_runs_finish: an agent of a run that ends is idle. *)
LEMMA FinishKeeps ==
    ASSUME NEW d, Sound(d), NEW runs, NEW status \in RUN_STATUSES \ {"queued", "running"}
    PROVE  Keeps(d, noc_agent_runs_finish(d, runs, status))
<1> DEFINE ending == {r \in runs : d.run[r].status \in {"queued", "running"}}
           theirs == {d.run[r].agent : r \in ending}
           run == [r \in RunIds |-> IF r \in ending THEN [d.run[r] EXCEPT !.status = status]
                                                    ELSE d.run[r]]
           agent == [a \in Agents |-> IF a \in theirs /\ d.agent[a].status = "running"
                                      THEN [d.agent[a] EXCEPT !.status = "idle"] ELSE d.agent[a]]
<1>1. /\ d.agent \in [Agents -> AgentRows] /\ d.run \in [RunIds -> RunRows]
      /\ \A b \in Agents : d.agent[b].status = "running" =>
            \E r \in RunIds : d.run[r].agent = b /\ d.run[r].status = "running"
  BY RunningRuns
<1>2. noc_agent_runs_finish(d, runs, status) = [d EXCEPT !.agent = agent, !.run = run]
  BY DEF noc_agent_runs_finish, Sound, Tables
<1>3. \A row \in RunRows : [row EXCEPT !.status = status] \in RunRows
  BY DEF RunRows
<1>4. run \in [RunIds -> RunRows]
  BY <1>1, <1>3
<1>5. \A row \in AgentRows : /\ [row EXCEPT !.status = "idle"] \in AgentRows
                             /\ [row EXCEPT !.status = "idle"].status = "idle"
  BY DEF AgentRows, WORKING
<1>6. agent \in [Agents -> AgentRows]
  BY <1>1, <1>5
<1>7. \A a \in Agents : agent[a].status = "running" =>
            \E r \in RunIds : run[r].agent = a /\ run[r].status = "running"
  <2> SUFFICES ASSUME NEW a \in Agents, agent[a].status = "running"
               PROVE  \E r \in RunIds : run[r].agent = a /\ run[r].status = "running"
    OBVIOUS
  <2>1. d.agent[a].status = "running" /\ a \notin theirs
    BY <1>1, <1>5
  <2>2. PICK r \in RunIds : d.run[r].agent = a /\ d.run[r].status = "running"
    BY <1>1, <2>1
  <2>3. r \notin ending
    BY <2>1, <2>2
  <2>4. run[r] = d.run[r]
    BY <2>3
  <2> HIDE DEF run
  <2> QED
    BY <2>2, <2>4
<1>8. \A a \in Agents : /\ agent[a].boss = d.agent[a].boss
                        /\ d.agent[a].status = "terminated" => agent[a].status = "terminated"
  <2>1. \A row \in AgentRows : [row EXCEPT !.status = "idle"].boss = row.boss
    BY SMTT(60) DEF AgentRows
  <2> QED
    BY <1>1, <2>1
<1>9. PICK e : e = [d EXCEPT !.agent = agent, !.run = run]
  OBVIOUS
<1> HIDE DEF run, agent
<1>10. Keeps(d, e)
  BY <1>4, <1>6, <1>7, <1>9, <1>8, AgentsKeep
<1> QED
  BY <1>2, <1>9, <1>10

LEMMA FinishOneKeeps ==
    ASSUME NEW d, Sound(d), NEW r, NEW status \in RUN_STATUSES \ {"queued", "running"}
    PROVE  Keeps(d, noc_agent_run_finish(d, r, status))
BY FinishKeeps DEF noc_agent_run_finish

(* Starts: an agent that is idle, or in error, runs. *)
LEMMA StartsKeeps ==
    ASSUME NEW d, Sound(d), NEW run \in [RunIds -> RunRows], NEW r \in RunIds, NEW a,
           run[r].agent = a, run[r].status = "running",
           \A q \in RunIds \ {r} : run[q] = d.run[q],
           d.run[r].agent = a \/ d.run[r].status # "running"
    PROVE  Keeps(d, Starts([d EXCEPT !.run = run], a))
<1>1. /\ d.agent \in [Agents -> AgentRows] /\ d.run \in [RunIds -> RunRows]
      /\ \A b \in Agents : d.agent[b].status = "running" =>
            \E q \in RunIds : d.run[q].agent = b /\ d.run[q].status = "running"
  BY RunningRuns
<1>2. PICK agent : agent = [d.agent EXCEPT ![a].status =
                              IF d.agent[a].status \in {"idle", "error"} THEN "running"
                                                                         ELSE d.agent[a].status]
  OBVIOUS
<1>3. \A row \in AgentRows : [row EXCEPT !.status = "running"] \in AgentRows
  BY DEF AgentRows, WORKING
<1>4. \A row \in AgentRows : [row EXCEPT !.status = row.status] = row
  BY DEF AgentRows
<1>5. agent \in [Agents -> AgentRows]
  <2>1. CASE a \in Agents
    <3>1. PICK row \in AgentRows : row = d.agent[a]
      BY <1>1, <2>1
    <3>2. PICK new : new = [row EXCEPT !.status = IF row.status \in {"idle", "error"} THEN "running"
                                                                                   ELSE row.status]
      OBVIOUS
    <3>3. new \in AgentRows
      BY <1>3, <1>4, <3>2
    <3>4. agent = [d.agent EXCEPT ![a] = new]
      BY <1>2, <3>1, <3>2
    <3> QED
      BY <1>1, <3>3, <3>4
  <2>2. CASE a \notin Agents
    <3>1. agent = d.agent
      BY <1>1, <1>2, <2>2
    <3> QED
      BY <1>1, <3>1
  <2> QED
    BY <2>1, <2>2
<1>6. \A b \in Agents \ {a} : agent[b] = d.agent[b]
  BY <1>1, <1>2
<1>7. \A b \in Agents : agent[b].status = "running" =>
            \E q \in RunIds : run[q].agent = b /\ run[q].status = "running"
  <2> SUFFICES ASSUME NEW b \in Agents, agent[b].status = "running"
               PROVE  \E q \in RunIds : run[q].agent = b /\ run[q].status = "running"
    OBVIOUS
  <2>1. CASE b = a
    BY <2>1
  <2>2. CASE b # a
    <3>1. PICK q \in RunIds : d.run[q].agent = b /\ d.run[q].status = "running"
      BY <1>1, <1>6, <2>2
    <3>2. q # r
      BY <2>2, <3>1
    <3> QED
      BY <3>1, <3>2
  <2> QED
    BY <2>1, <2>2
<1>8. Starts([d EXCEPT !.run = run], a) = [d EXCEPT !.agent = agent, !.run = run]
  BY <1>2 DEF Starts, Sound, Tables
<1>9. \A b \in Agents : /\ agent[b].boss = d.agent[b].boss
                        /\ d.agent[b].status = "terminated" => agent[b].status = "terminated"
  <2>1. \A row \in AgentRows : \A status :
          /\ [row EXCEPT !.status = status].boss = row.boss
          /\ [row EXCEPT !.status = status].status = status
    BY DEF AgentRows
  <2> QED
    BY <1>1, <1>2, <1>6, <2>1
<1>10. PICK e : e = [d EXCEPT !.agent = agent, !.run = run]
  OBVIOUS
<1>11. Keeps(d, e)
  BY <1>5, <1>7, <1>9, <1>10, AgentsKeep
<1> QED
  BY <1>8, <1>11, <1>10

-----------------------------------------------------------------------------
(* One case through a pass of the case loop, and up the chain *)

LEMMA TickCaseWorks ==
    ASSUME NEW d \in Tables, NEW s \in Cases, LedgerOf(d, s), NEW auto \in BOOLEAN,
           s \in DOMAIN seen.news => seen.news[s].moved \in Heard,
           s \in DOMAIN seen.orphaned => d.sit[s] # "none"
    PROVE  Works(d, TickCase(d, s, auto), s)
<1>1. PICK d1 : d1 = IF s \in seen.rising THEN reprioritize(d, s) ELSE d
  OBVIOUS
<1>2. PICK d2 : d2 = IF s \in DOMAIN seen.news THEN apply(d1, s, seen.news[s]) ELSE d1
  OBVIOUS
<1>3. PICK d3 : d3 = IF s \in seen.fresh /\ d2.case[s].status = "new" THEN dispatch(d2, s, auto)
                                                                     ELSE d2
  OBVIOUS
<1>4. PICK d4 : d4 = IF s \in seen.due /\ s \in noc_cases_due(d3) THEN requeue(d3, s) ELSE d3
  OBVIOUS
<1>5. PICK d5 : d5 = IF s \in DOMAIN seen.orphaned THEN Orphan(d4, s, seen.orphaned[s]) ELSE d4
  OBVIOUS
<1>6. PICK d6 : d6 = IF s \in seen.stale /\ d5.case[s].status = "resolved" THEN close(d5, s)
                                                                          ELSE d5
  OBVIOUS
<1>7. TickCase(d, s, auto) = d6
  BY ZenonT(60), <1>1, <1>2, <1>3, <1>4, <1>5, <1>6 DEF TickCase
<1>8. Works(d, d1, s) /\ d1 \in Tables /\ LedgerOf(d1, s)
  BY <1>1, ReprioritizeWorks, WorksNothing, WorksTables
<1>9. Works(d1, d2, s) /\ d2 \in Tables /\ LedgerOf(d2, s)
  BY <1>2, <1>8, ApplyWorks, WorksNothing, WorksTables
<1>10. Works(d2, d3, s) /\ d3 \in Tables /\ LedgerOf(d3, s)
  BY <1>3, <1>9, DispatchWorks, WorksNothing, WorksTables
<1>11. Works(d3, d4, s) /\ d4 \in Tables /\ LedgerOf(d4, s)
  <2>1. s \in noc_cases_due(d3) => d3.case[s].status \in PENDING \cup {"auto"}
    BY DEF noc_cases_due
  <2> QED
    BY <1>4, <1>10, <2>1, RequeueWorks, WorksNothing, WorksTables
<1>12. d4.sit = d.sit
  BY <1>8, <1>9, <1>10, <1>11, WorksTables
<1>13. Works(d4, d5, s) /\ d5 \in Tables /\ LedgerOf(d5, s)
  BY <1>5, <1>11, <1>12, OrphanWorks, WorksNothing, WorksTables
<1>14. Works(d5, d6, s)
  BY <1>6, <1>13, CloseWorks, WorksNothing
<1>15. Rewrites(d, d2, s)
  BY <1>8, <1>9, RewritesTwice DEF Works
<1>16. Rewrites(d, d3, s)
  BY <1>10, <1>15, RewritesTwice DEF Works
<1>17. Rewrites(d, d4, s)
  BY <1>11, <1>16, RewritesTwice DEF Works
<1>18. Rewrites(d, d5, s)
  BY <1>13, <1>17, RewritesTwice DEF Works
<1> QED
  BY <1>7, <1>14, <1>18, WorksTwice

LEMMA ClimbWorks ==
    ASSUME NEW d \in Tables, NEW s \in Cases, LedgerOf(d, s)
    PROVE  Works(d, Climb(d, s), s)
<1>1. PICK from, everyone : from = looked.climbing[s] /\ everyone = looked.everyone
  OBVIOUS
<1>2. Climb(d, s) = d \/ Climb(d, s) = escalate(d, s, from, everyone)
  BY <1>1 DEF Climb
<1> QED
  BY <1>2, EscalateWorks, WorksNothing

-----------------------------------------------------------------------------
(* The invariant *)

(* What the loops read of the tables still fits them. *)
Remembered ==
    /\ seen # Nothing =>
         /\ \A s \in DOMAIN seen.news : seen.news[s].moved \in Heard
         /\ \A s \in DOMAIN seen.orphaned : s \in Cases /\ db.sit[s] # "none"
    /\ looked # Nothing => looked.due \subseteq Agents

IInv == TypeOK /\ Sound(db) /\ Remembered

LEMMA Stays ==
    ASSUME IInv, Holds(db, db'),
           seen' = seen \/ seen' = Nothing, looked' = looked \/ looked' = Nothing,
           ready' \subseteq RunIds, task' \subseteq RunIds \X {"webhook", "in process"},
           walk' \subseteq Cases, booted' \in BOOLEAN, crashes' \in 0 .. MaxCrashes
    PROVE  IInv'
<1>1. db' \in Tables /\ Sound(db)'
  BY DEF Holds, Sound, Running, LedgerOf
<1>2. Remembered'
  BY DEF IInv, Remembered, Holds
<1>3. TypeOK'
  BY <1>1 DEF TypeOK
<1> QED
  BY <1>1, <1>2, <1>3 DEF IInv

LEMMA StaysInMemory ==
    ASSUME IInv, Holds(db, db'), UNCHANGED memory
    PROVE  IInv'
<1>1. /\ seen' = seen /\ looked' = looked
      /\ ready' \subseteq RunIds /\ task' \subseteq RunIds \X {"webhook", "in process"}
      /\ walk' \subseteq Cases /\ booted' \in BOOLEAN /\ crashes' \in 0 .. MaxCrashes
  BY DEF memory, IInv, TypeOK
<1> QED
  BY <1>1, Stays

LEMMA ForgetTwice ==
    ASSUME NEW d, NEW e, Keeps(d, e), NEW held
    PROVE  Keeps(d, Forget(e, held))
<1>1. Sound(e)
  BY DEF Keeps, Holds
<1>2. PICK f : f = Forget(e, held)
  OBVIOUS
<1>3. Keeps(e, f)
  BY <1>1, <1>2, ForgetKeeps
<1> QED
  BY <1>2, <1>3, KeepsTwice

LEMMA ForgetHolds ==
    ASSUME NEW d, NEW e, Holds(d, e), NEW held
    PROVE  Holds(d, Forget(e, held))
<1>1. Sound(e)
  BY DEF Holds
<1>2. PICK f : f = Forget(e, held)
  OBVIOUS
<1>3. Holds(e, f)
  BY <1>1, <1>2, ForgetKeeps DEF Keeps
<1> QED
  BY <1>2, <1>3, HoldsTwice

(* What Forget leaves of the agents: all of it. *)
LEMMA ForgetBosses ==
    ASSUME NEW d, NEW e, Holds(d, e), SameBosses(d, e), NEW held
    PROVE  SameBosses(d, Forget(e, held))
<1>1. Sound(e)
  BY DEF Holds
<1>2. PICK f : f = Forget(e, held)
  OBVIOUS
<1>3. SameBosses(e, f)
  BY <1>1, <1>2, ForgetKeeps DEF Keeps
<1> QED
  BY <1>2, <1>3, SameBossesTwice

LEMMA CommittedAgents ==
    ASSUME NEW e, Sound(e), Commit(e)
    PROVE  db'.agent = e.agent
BY DEF Commit, Forget, Sound, Tables

LEMMA CommittedHolds ==
    ASSUME NEW e, Holds(db, e), Commit(e)
    PROVE  Holds(db, db')
<1>1. PICK held : held = InUse(ready, task)
  OBVIOUS
<1>2. db' = Forget(e, held)
  BY <1>1 DEF Commit
<1> QED
  BY <1>2, ForgetHolds

LEMMA Committed ==
    ASSUME NEW e, Keeps(db, e), Commit(e)
    PROVE  Keeps(db, db')
<1>1. PICK held : held = InUse(ready, task)
  OBVIOUS
<1>2. db' = Forget(e, held)
  BY <1>1 DEF Commit
<1> QED
  BY <1>2, ForgetTwice

LEMMA CommittedWork ==
    ASSUME Sound(db), NEW s \in Cases, NEW e, Works(db, e, s), Commit(e)
    PROVE  Keeps(db, db')
<1>1. Keeps(db, e)
  BY WorksKeeps
<1> QED
  BY <1>1, Committed

-----------------------------------------------------------------------------
(* The routes on a case *)

LEMMA TakeCaseKeeps ==
    ASSUME Sound(db), NEW actor \in Actors, NEW s \in Cases, take_case(actor, s)
    PROVE  Keeps(db, db')
<1>1. db \in Tables /\ LedgerOf(db, s)
  BY SoundTables
<1>2. PICK e : e = take(db, s, actor)
  OBVIOUS
<1>3. Works(db, e, s) /\ Commit(e)
  BY <1>1, <1>2, TakeWorks DEF take_case, transition
<1> QED
  BY <1>3, CommittedWork

LEMMA ReleaseCaseKeeps ==
    ASSUME Sound(db), NEW actor \in Actors, NEW s \in Cases, release_case(actor, s)
    PROVE  Keeps(db, db')
<1>1. db \in Tables /\ LedgerOf(db, s)
  BY SoundTables
<1>2. PICK e : e = release(db, s)
  OBVIOUS
<1>3. Works(db, e, s) /\ Commit(e)
  BY <1>1, <1>2, ReleaseWorks DEF release_case, transition
<1> QED
  BY <1>3, CommittedWork

LEMMA UpdateCaseKeeps ==
    ASSUME Sound(db), NEW actor \in Actors, NEW s \in Cases, update_case(actor, s)
    PROVE  Keeps(db, db')
<1>1. db \in Tables /\ LedgerOf(db, s)
  BY SoundTables
<1>2. PICK fields \in Fields : Commit(update(db, s, fields))
  BY DEF update_case
<1>3. PICK next \in {"same", "later"}, prio \in {"same", "minor", "critical"} :
        fields = [next |-> next, prio |-> prio]
  BY NocConstants DEF Fields
<1>4. PICK e : e = noc_case_set_fields(db, s, [next |-> next, prio |-> prio])
  OBVIOUS
<1>5. Works(db, e, s)
  BY <1>1, <1>4, UpdateWorks
<1>6. Commit(e)
  BY <1>2, <1>3, <1>4 DEF update
<1> QED
  BY <1>5, <1>6, CommittedWork

LEMMA SetStatusKeeps ==
    ASSUME Sound(db), NEW actor \in Actors, NEW s \in Cases, set_status(actor, s)
    PROVE  Keeps(db, db')
<1>1. db \in Tables /\ LedgerOf(db, s)
  BY SoundTables
<1>2. PICK m : m = update(db, s, [next |-> "later", prio |-> "same"])
  OBVIOUS
<1>3. PICK to \in PENDING : Commit(pend(m, s, to))
  BY <1>2 DEF set_status
<1>4. /\ Works(db, m, s) /\ m.case[s].status = db.case[s].status /\ m.case[s].next = "later"
  BY <1>1, <1>2, UpdateWorks DEF update
<1>5. m \in Tables /\ LedgerOf(m, s)
  BY <1>4, WorksTables
<1>6. m.case[s].status \in From("pend")
  BY <1>4 DEF set_status, transition
<1>7. PICK e : e = pend(m, s, to)
  OBVIOUS
<1>8. Works(m, e, s)
  BY <1>4, <1>5, <1>6, <1>7, PendWorks
<1>9. Works(db, e, s)
  BY <1>4, <1>8, WorksTwice DEF Works
<1> QED
  BY <1>3, <1>7, <1>9, CommittedWork

LEMMA ResolveCaseKeeps ==
    ASSUME Sound(db), NEW actor \in Actors, NEW s \in Cases, resolve_case(actor, s)
    PROVE  Keeps(db, db')
<1>1. db \in Tables /\ LedgerOf(db, s)
  BY SoundTables
<1>2. PICK clear \in BOOLEAN : Commit(close_for_case(resolve(db, s), s, clear))
  BY DEF resolve_case
<1>3. db.case[s].status # "queue" /\ db.case[s].status # "none"
  BY DEF resolve_case, transition, From, PENDING
<1>4. PICK m : m = resolve(db, s)
  OBVIOUS
<1>5. Keeps(db, m) /\ Sound(m)
  BY <1>1, <1>3, <1>4, ResolveWorks, WorksKeeps DEF Keeps, Holds
<1>6. PICK e : e = close_for_case(m, s, clear)
  OBVIOUS
<1>7. Keeps(m, e)
  BY <1>5, <1>6, CloseForCaseKeeps
<1> QED
  BY <1>2, <1>4, <1>5, <1>6, <1>7, KeepsTwice, Committed

LEMMA PostToCaseKeeps ==
    ASSUME Sound(db), NEW actor \in Actors, NEW s \in Cases, post_to_case(actor, s)
    PROVE  Keeps(db, db')
<1>1. db \in Tables /\ LedgerOf(db, s)
  BY SoundTables
<1>2. PICK e : e = requeue(db, s)
  OBVIOUS
<1>3. Works(db, e, s) /\ Commit(e)
  BY <1>1, <1>2, RequeueWorks DEF post_to_case, requeues
<1> QED
  BY <1>3, CommittedWork

LEMMA AssignCaseKeeps ==
    ASSUME Sound(db), NEW actor \in Actors, NEW s \in Cases, assign_case(actor, s)
    PROVE  Keeps(db, db')
<1>1. db \in Tables /\ LedgerOf(db, s)
  BY SoundTables
<1>2. CASE Commit(with_people(db, s))
  <2>1. PICK e : e = with_people(db, s)
    OBVIOUS
  <2>2. Works(db, e, s)
    BY <1>1, <2>1, WithPeopleWorks
  <2> QED
    BY <1>2, <2>1, <2>2, CommittedWork
<1>3. CASE \E a \in Agents : Commit(assign(db, s, a))
  <2>1. PICK a \in Agents : Commit(assign(db, s, a))
    BY <1>3
  <2>2. PICK e : e = assign(db, s, a)
    OBVIOUS
  <2>3. Works(db, e, s)
    BY <1>1, <2>2, AssignWorks
  <2> QED
    BY <2>1, <2>2, <2>3, CommittedWork
<1> QED
  BY <1>2, <1>3 DEF assign_case

LEMMA EscalateCaseKeeps ==
    ASSUME Sound(db), NEW actor \in Actors, NEW s \in Cases, escalate_case(actor, s)
    PROVE  Keeps(db, db')
<1>1. db \in Tables /\ LedgerOf(db, s)
  BY SoundTables
<1>2. PICK from, everyone : /\ everyone = db.agent
                            /\ from = IF actor \in Agents THEN actor ELSE db.case[s].agent
  OBVIOUS
<1>3. PICK e : e = escalate(db, s, from, everyone)
  OBVIOUS
<1>4. Works(db, e, s)
  BY <1>1, <1>3, EscalateWorks
<1>5. Commit(e)
  BY <1>2, <1>3 DEF escalate_case
<1> QED
  BY <1>4, <1>5, CommittedWork

-----------------------------------------------------------------------------
(* The transactions on several cases *)

LEMMA GrantedKeeps ==
    ASSUME Sound(db), granted
    PROVE  Keeps(db, db')
<1> DEFINE awaiting == noc_cases_awaiting(db, {"pending_device_access"})
<1>1. PICK after : after = [s \in awaiting |-> requeue(db, s)]
  OBVIOUS
<1>2. awaiting \in SUBSET Cases /\ DOMAIN after = awaiting
  BY <1>1 DEF noc_cases_awaiting
<1>3. \A s \in awaiting : Works(db, after[s], s)
  <2> SUFFICES ASSUME NEW s \in awaiting
               PROVE  Works(db, after[s], s)
    OBVIOUS
  <2>1. s \in Cases /\ db.case[s].status \in PENDING \cup {"auto"}
    BY DEF noc_cases_awaiting, PENDING
  <2>2. db \in Tables /\ LedgerOf(db, s)
    BY <2>1, SoundTables
  <2> QED
    BY <1>1, <2>1, <2>2, RequeueWorks
<1>4. PICK e : e = Together(db, after)
  OBVIOUS
<1> HIDE DEF awaiting
<1>5. Keeps(db, e)
  BY <1>2, <1>3, <1>4, TogetherKeeps
<1>6. Commit(e)
  BY <1>1, <1>4 DEF granted, awaiting
<1> QED
  BY <1>5, <1>6, Committed

LEMMA RunLoopStartKeeps ==
    ASSUME Sound(db), RunLoopStart
    PROVE  Keeps(db, db')
<1> DEFINE abandoned == noc_runs_abandoned(db)
<1>1. PICK p : p = [s \in Cases |-> FALSE]
  OBVIOUS
<1>2. PICK ended : ended = [db EXCEPT !.playbook = p]
  OBVIOUS
<1>3. Keeps(db, ended)
  BY <1>1, <1>2, PlaybookKeeps
<1>4. Sound(ended)
  BY <1>3 DEF Keeps, Holds
<1>5. PICK after : after = [s \in abandoned |-> requeue(ended, s)]
  OBVIOUS
<1>6. abandoned \in SUBSET Cases /\ DOMAIN after = abandoned
  BY <1>5 DEF noc_runs_abandoned
<1>7. \A s \in abandoned : Works(ended, after[s], s)
  <2> SUFFICES ASSUME NEW s \in abandoned
               PROVE  Works(ended, after[s], s)
    OBVIOUS
  <2>1. s \in Cases /\ db.case[s].status = "auto"
    BY DEF noc_runs_abandoned
  <2>2. ended.case = db.case
    BY <1>2 DEF Sound, Tables
  <2>3. ended \in Tables /\ LedgerOf(ended, s)
    BY <1>4, <2>1, SoundTables
  <2>4. Works(ended, requeue(ended, s), s)
    BY <2>1, <2>2, <2>3, RequeueWorks
  <2> QED
    BY <1>5, <2>4
<1>8. PICK e : e = Together(ended, after)
  OBVIOUS
<1> HIDE DEF abandoned
<1>9. Keeps(ended, e)
  BY <1>4, <1>6, <1>7, <1>8, TogetherKeeps
<1>10. Commit(e)
  BY <1>1, <1>2, <1>5, <1>8 DEF RunLoopStart, abandoned
<1> QED
  BY <1>3, <1>9, <1>10, KeepsTwice, Committed

(* The pass acts on what it read, which may be stale, case by case. *)
LEMMA TickActKeeps ==
    ASSUME IInv, TickAct
    PROVE  Keeps(db, db')
<1>1. PICK matched \in SUBSET seen.fresh :
        Commit(Together(db, [s \in Cases |-> TickCase(db, s, s \in matched)]))
  BY DEF TickAct
<1>2. PICK after : after = [s \in Cases |-> TickCase(db, s, s \in matched)]
  OBVIOUS
<1>3. \A s \in Cases : Works(db, after[s], s)
  <2> SUFFICES ASSUME NEW s \in Cases
               PROVE  Works(db, after[s], s)
    OBVIOUS
  <2>1. db \in Tables /\ LedgerOf(db, s)
    BY SoundTables DEF IInv
  <2>2. /\ s \in DOMAIN seen.news => seen.news[s].moved \in Heard
        /\ s \in DOMAIN seen.orphaned => db.sit[s] # "none"
    BY DEF IInv, Remembered, TickAct
  <2>3. (s \in matched) \in BOOLEAN
    OBVIOUS
  <2>4. Works(db, TickCase(db, s, s \in matched), s)
    BY <2>1, <2>2, <2>3, TickCaseWorks
  <2> QED
    BY <1>2, <2>4
<1>4. PICK e : e = Together(db, after)
  OBVIOUS
<1>5. Sound(db) /\ DOMAIN after = Cases /\ Cases \in SUBSET Cases
  BY <1>2 DEF IInv
<1>6. Keeps(db, e)
  BY <1>3, <1>4, <1>5, TogetherKeeps
<1>7. Commit(e)
  BY <1>1, <1>2, <1>4
<1> QED
  BY <1>6, <1>7, Committed

(* A routed case, and one that climbs, is given to agents. *)
LEMMA AgentTickActKeeps ==
    ASSUME IInv, AgentTickAct
    PROVE  Keeps(db, db')
<1>1. PICK given : given = IF looked.unrouted = {} THEN {} ELSE Route
  OBVIOUS
<1>2. PICK to \in IF given = {} THEN {<<>>} ELSE pick_entry(db, given, looked.everyone) :
        Commit(noc_agent_runs_finish(
                 noc_wakes(Together(db, [s \in Cases |->
                              Climb(IF s \in given THEN assign(db, s, to[s]) ELSE db, s)]),
                           looked.due), looked.overdue, "timed_out"))
  BY <1>1 DEF AgentTickAct
<1>3. PICK after : after = [s \in Cases |->
                              Climb(IF s \in given THEN assign(db, s, to[s]) ELSE db, s)]
  OBVIOUS
<1>4. \A s \in given : to[s] \in Agents
  <2>1. CASE given = {}
    BY <2>1
  <2>2. CASE given # {}
    <3>1. to \in [given -> Entries(looked.everyone)]
      BY <1>2, <2>2 DEF pick_entry
    <3>2. Entries(looked.everyone) \subseteq Agents
      BY NocConstants DEF Entries
    <3> QED
      BY <3>1, <3>2
  <2> QED
    BY <2>1, <2>2
<1>5. \A s \in Cases : Works(db, after[s], s)
  <2> SUFFICES ASSUME NEW s \in Cases
               PROVE  Works(db, after[s], s)
    OBVIOUS
  <2>1. db \in Tables /\ LedgerOf(db, s)
    BY SoundTables DEF IInv
  <2>2. PICK m : m = IF s \in given THEN assign(db, s, to[s]) ELSE db
    OBVIOUS
  <2>3. Works(db, m, s)
    BY <1>4, <2>1, <2>2, AssignWorks, WorksNothing
  <2>4. m \in Tables /\ LedgerOf(m, s)
    BY <2>3, WorksTables
  <2>5. Works(m, Climb(m, s), s)
    BY <2>4, ClimbWorks
  <2>6. after[s] = Climb(m, s)
    BY <1>3, <2>2
  <2> QED
    BY <2>3, <2>5, <2>6, WorksTwice DEF Works
<1>6. PICK f : f = Together(db, after)
  OBVIOUS
<1>7. Sound(db) /\ DOMAIN after = Cases /\ Cases \in SUBSET Cases
  BY <1>3 DEF IInv
<1>8. Keeps(db, f)
  BY <1>5, <1>6, <1>7, TogetherKeeps
<1>9. PICK g : g = noc_wakes(f, looked.due)
  OBVIOUS
<1>10. looked.due \in SUBSET Agents
  BY DEF IInv, Remembered, AgentTickAct
<1>11. Sound(f)
  BY <1>8 DEF Keeps, Holds
<1>12. Keeps(f, g)
  BY <1>9, <1>10, <1>11, WakesKeeps
<1>13. Sound(g) /\ "timed_out" \in RUN_STATUSES \ {"queued", "running"}
  BY <1>12 DEF Keeps, Holds, RUN_STATUSES
<1>14. PICK e, runs : runs = looked.overdue /\ e = noc_agent_runs_finish(g, runs, "timed_out")
  OBVIOUS
<1>15. Keeps(g, e)
  BY <1>13, <1>14, FinishKeeps
<1>16. Commit(e)
  BY <1>2, <1>3, <1>6, <1>9, <1>14
<1>17. Keeps(db, e)
  BY <1>8, <1>12, <1>15, KeepsTwice
<1> QED
  BY <1>16, <1>17, Committed

-----------------------------------------------------------------------------
(* The playbook runner *)

LEMMA RunCaseKeeps ==
    ASSUME Sound(db), NEW s \in Cases, run_case(s)
    PROVE  Keeps(db, db')
<1>1. CASE Commit(noc_run_start(db, s))
  <2>1. PICK e : e = noc_run_start(db, s)
    OBVIOUS
  <2>2. Keeps(db, e)
    BY <2>1, PlaybookStepKeeps
  <2> QED
    BY <1>1, <2>1, <2>2, Committed
<1>2. CASE Commit(requeue(db, s))
  <2>1. PICK e : e = requeue(db, s)
    OBVIOUS
  <2>2. db \in Tables /\ LedgerOf(db, s)
    BY SoundTables
  <2>3. Works(db, e, s)
    BY <2>1, <2>2, RequeueWorks DEF run_case
  <2> QED
    BY <1>2, <2>1, <2>3, CommittedWork
<1> QED
  BY <1>1, <1>2 DEF run_case

LEMMA EndedKeeps ==
    ASSUME NEW m, Keeps(db, m), NEW s \in Cases, Commit(noc_run_end(m, s))
    PROVE  Keeps(db, db')
<1>1. PICK e : e = noc_run_end(m, s)
  OBVIOUS
<1>2. Sound(m)
  BY DEF Keeps, Holds
<1>3. Keeps(m, e)
  BY <1>1, <1>2, PlaybookStepKeeps
<1> QED
  BY <1>1, <1>3, KeepsTwice, Committed

LEMMA FinishWalkKeeps ==
    ASSUME Sound(db), NEW s \in Cases, finish(s)
    PROVE  Keeps(db, db')
<1>0. db \in Tables /\ LedgerOf(db, s)
  BY SoundTables
<1>1. CASE Commit(noc_run_end(db, s))
  BY <1>1, KeepsNothing, EndedKeeps
<1>2. CASE /\ db.case[s].status = "auto"
           /\ \E clear \in BOOLEAN :
                 Commit(noc_run_end(close_for_case(resolve(db, s), s, clear), s))
  <2>1. PICK clear \in BOOLEAN :
          Commit(noc_run_end(close_for_case(resolve(db, s), s, clear), s))
    BY <1>2
  <2>2. PICK m : m = resolve(db, s)
    OBVIOUS
  <2>3. Works(db, m, s)
    BY <1>0, <1>2, <2>2, ResolveWorks
  <2>4. Keeps(db, m)
    BY <2>3, WorksKeeps
  <2>5. PICK e : e = close_for_case(m, s, clear)
    OBVIOUS
  <2>6. Keeps(m, e)
    BY <2>4, <2>5, CloseForCaseKeeps DEF Keeps, Holds
  <2> QED
    BY <2>1, <2>2, <2>4, <2>5, <2>6, KeepsTwice, EndedKeeps
<1>3. CASE /\ db.case[s].status = "auto"
           /\ \E to \in PENDING, complete \in BOOLEAN :
                 Commit(noc_run_end(auto_pend(db, s, to, complete), s))
  <2>1. PICK to \in PENDING, complete \in BOOLEAN :
          Commit(noc_run_end(auto_pend(db, s, to, complete), s))
    BY <1>3
  <2>2. PICK m : m = auto_pend(db, s, to, complete)
    OBVIOUS
  <2>3. Works(db, m, s)
    BY <1>0, <1>3, <2>2, AutoPendWorks
  <2>4. Keeps(db, m)
    BY <2>3, WorksKeeps
  <2> QED
    BY <2>1, <2>2, <2>4, EndedKeeps
<1>4. CASE db.case[s].status = "auto" /\ Commit(noc_run_end(requeue(db, s), s))
  <2>1. PICK m : m = requeue(db, s)
    OBVIOUS
  <2>2. Works(db, m, s)
    BY <1>0, <1>4, <2>1, RequeueWorks
  <2>3. Keeps(db, m)
    BY <2>2, WorksKeeps
  <2> QED
    BY <1>4, <2>1, <2>3, EndedKeeps
<1> QED
  BY <1>1, <1>2, <1>3, <1>4 DEF finish

-----------------------------------------------------------------------------
(* The routes on agents and their runs *)

LEMMA InvokeKeeps ==
    ASSUME Sound(db), NEW actor \in Actors, NEW a \in Agents, invoke_agent(actor, a)
    PROVE  Keeps(db, db')
<1>1. PICK e : e = noc_wakes(db, {a})
  OBVIOUS
<1>2. Keeps(db, e)
  BY <1>1, WakesKeeps
<1>3. Commit(e)
  BY <1>1 DEF invoke_agent, noc_wake
<1> QED
  BY <1>2, <1>3, Committed

LEMMA PauseKeeps ==
    ASSUME Sound(db), NEW actor \in Actors, NEW a \in Agents,
           pause_agent(actor, a) \/ resume_agent(actor, a)
    PROVE  Keeps(db, db')
<1>1. PICK status \in {"idle", "paused"} : Commit(noc_set_agent_status(db, a, status))
  BY DEF pause_agent, resume_agent
<1>2. db.agent[a].status # "terminated"
  BY DEF pause_agent, resume_agent, Hired
<1>3. PICK e : e = noc_set_agent_status(db, a, status)
  OBVIOUS
<1>4. Keeps(db, e)
  BY <1>3, <1>2, StatusKeeps
<1> QED
  BY <1>1, <1>3, <1>4, Committed

(* A change of bosses only. *)
LEMMA BossesHold ==
    ASSUME NEW d, Sound(d), NEW agent \in [Agents -> AgentRows],
           \A b \in Agents : agent[b].status = d.agent[b].status
    PROVE  Holds(d, [d EXCEPT !.agent = agent])
<1>1. /\ d.run \in [RunIds -> RunRows]
      /\ \A b \in Agents : d.agent[b].status = "running" =>
            \E q \in RunIds : d.run[q].agent = b /\ d.run[q].status = "running"
  BY RunningRuns
<1>2. PICK run : run = d.run
  OBVIOUS
<1>3. /\ run \in [RunIds -> RunRows]
      /\ \A b \in Agents : agent[b].status = "running" =>
            \E q \in RunIds : run[q].agent = b /\ run[q].status = "running"
  BY <1>1, <1>2
<1>4. Holds(d, [d EXCEPT !.agent = agent, !.run = run])
  BY <1>3, AgentsHold
<1>5. [d EXCEPT !.agent = agent] = [d EXCEPT !.agent = agent, !.run = run]
  BY <1>2 DEF Sound, Tables
<1> QED
  BY <1>4, <1>5

LEMMA TerminateHolds ==
    ASSUME Sound(db), NEW p \in People, NEW a \in Agents, terminate_agent(p, a)
    PROVE  /\ Holds(db, db')
           /\ \A b \in Agents :
                 /\ \/ b = a /\ db'.agent[b].status = "terminated"
                    \/ b # a /\ db'.agent[b].status = db.agent[b].status
                 /\ \/ db'.agent[b].boss = db.agent[b].boss
                    \/ db.agent[b].boss = a /\ db'.agent[b].boss = db.agent[a].boss
<1>1. PICK agent : agent = [b \in Agents |->
                              IF db.agent[b].boss = a /\ db.agent[b].status # "terminated"
                              THEN [db.agent[b] EXCEPT !.boss = db.agent[a].boss]
                              ELSE db.agent[b]]
  OBVIOUS
<1>2. db.agent \in [Agents -> AgentRows]
  BY TablesTyped DEF Sound
<1>3. \A row \in AgentRows, other \in AgentRows :
         /\ [row EXCEPT !.boss = other.boss] \in AgentRows
         /\ [row EXCEPT !.boss = other.boss].status = row.status
  BY DEF AgentRows
<1>4. agent \in [Agents -> AgentRows] /\ \A b \in Agents : agent[b].status = db.agent[b].status
  BY <1>1, <1>2, <1>3
<1>5. PICK m : m = [db EXCEPT !.agent = agent]
  OBVIOUS
<1>6. Holds(db, m)
  BY <1>4, <1>5, BossesHold
<1>7. PICK e : e = noc_set_agent_status(m, a, "terminated")
  OBVIOUS
<1>8. Sound(m)
  BY <1>6 DEF Holds
<1>9. /\ Holds(m, e) /\ SameBosses(m, e)
      /\ \A b \in Agents : \/ b # a /\ e.agent[b].status = m.agent[b].status
                           \/ b = a /\ e.agent[b].status = "terminated"
  BY <1>7, <1>8, StatusHolds
<1>10. Commit(e)
  BY <1>1, <1>5, <1>7 DEF terminate_agent
<1>11. Holds(db, db')
  BY <1>6, <1>9, <1>10, HoldsTwice, CommittedHolds
<1>12. Sound(e)
  BY <1>9 DEF Holds
<1>13. db'.agent = e.agent
  BY <1>10, <1>12, CommittedAgents
<1>14. m.agent = agent
  BY <1>5 DEF Sound, Tables
<1>15. \A row \in AgentRows, other \in AgentRows : [row EXCEPT !.boss = other.boss].boss = other.boss
  BY DEF AgentRows
<1>16. \A b \in Agents : \/ agent[b].boss = db.agent[b].boss
                         \/ db.agent[b].boss = a /\ agent[b].boss = db.agent[a].boss
  BY <1>1, <1>2, <1>15
<1> QED
  BY <1>4, <1>9, <1>11, <1>13, <1>14, <1>16 DEF SameBosses

LEMMA UpdateAgentHolds ==
    ASSUME Sound(db), NEW p \in People, NEW a \in Agents, update_agent(p, a)
    PROVE  /\ Holds(db, db')
           /\ \A b \in Agents : db'.agent[b].status = db.agent[b].status
           /\ \E boss \in Agents \cup {Nobody} :
                 /\ check_links(a, boss) /\ db'.agent[a].boss = boss
                 /\ \A b \in Agents \ {a} : db'.agent[b].boss = db.agent[b].boss
<1>1. PICK boss \in Bosses \cup {Nobody} :
         check_links(a, boss) /\ Commit([db EXCEPT !.agent[a].boss = boss])
  BY DEF update_agent
<1>2. PICK agent : agent = [db.agent EXCEPT ![a].boss = boss]
  OBVIOUS
<1>3. db.agent \in [Agents -> AgentRows]
  BY TablesTyped DEF Sound
<1>4. boss \in Agents \cup {Nobody}
  BY <1>1, NocConstants
<1>5. \A row \in AgentRows : /\ [row EXCEPT !.boss = boss] \in AgentRows
                             /\ [row EXCEPT !.boss = boss].status = row.status
  BY <1>4 DEF AgentRows
<1>6. agent \in [Agents -> AgentRows] /\ \A b \in Agents : agent[b].status = db.agent[b].status
  BY <1>2, <1>3, <1>5
<1>7. PICK e : e = [db EXCEPT !.agent = agent]
  OBVIOUS
<1>8. Holds(db, e)
  BY <1>6, <1>7, BossesHold
<1>9. Commit(e)
  BY <1>1, <1>2, <1>7 DEF Sound, Tables
<1>10. Holds(db, db')
  BY <1>8, <1>9, CommittedHolds
<1>11. Sound(e)
  BY <1>8 DEF Holds
<1>12. db'.agent = agent
  <2>1. e.agent = agent
    BY <1>7 DEF Sound, Tables
  <2> QED
    BY <1>9, <1>11, <2>1, CommittedAgents
<1>13. \A row \in AgentRows : [row EXCEPT !.boss = boss].boss = boss
  BY DEF AgentRows
<1>14. agent[a].boss = boss /\ \A b \in Agents \ {a} : agent[b].boss = db.agent[b].boss
  BY <1>2, <1>3, <1>13
<1> QED
  BY <1>1, <1>4, <1>6, <1>10, <1>12, <1>14

LEMMA FinishRunKeeps ==
    ASSUME Sound(db), NEW actor \in Actors, NEW r \in RunIds, finish_run(actor, r)
    PROVE  Keeps(db, db')
<1>1. PICK how \in {"succeeded", "failed", "cancelled"} : Commit(noc_agent_run_finish(db, r, how))
  BY DEF finish_run
<1>2. PICK e : e = noc_agent_run_finish(db, r, how)
  OBVIOUS
<1>3. how \in RUN_STATUSES \ {"queued", "running"}
  BY DEF RUN_STATUSES
<1>4. Keeps(db, e)
  BY <1>2, <1>3, FinishOneKeeps
<1> QED
  BY <1>1, <1>2, <1>4, Committed

(* A tool call starts a run in a row that was free. *)
LEMMA RecordKeeps ==
    ASSUME Sound(db), NEW a \in Agents, record(a)
    PROVE  Keeps(db, db')
<1>1. PICK r : r = FreeRun(db)
  OBVIOUS
<1>2. r \in RunIds /\ db.run[r] = NoRun
  BY <1>1 DEF record, FreeRun, FreeRuns
<1>3. PICK row : row = [agent |-> a, status |-> "running", late |-> FALSE]
  OBVIOUS
<1>4. row \in RunRows /\ row.agent = a /\ row.status = "running"
  BY <1>3 DEF RunRows, RUN_STATUSES
<1>5. PICK run : run = [db.run EXCEPT ![r] = row]
  OBVIOUS
<1>6. db.run \in [RunIds -> RunRows]
  BY TablesTyped DEF Sound
<1>7. /\ run \in [RunIds -> RunRows] /\ run[r] = row
      /\ \A q \in RunIds \ {r} : run[q] = db.run[q]
  BY <1>2, <1>4, <1>5, <1>6
<1>8. db.run[r].status # "running"
  BY <1>2 DEF NoRun
<1>9. PICK e : e = Starts([db EXCEPT !.run = run], a)
  OBVIOUS
<1>10. Keeps(db, Starts([db EXCEPT !.run = run], a))
  BY <1>2, <1>4, <1>7, <1>8, StartsKeeps
<1>11. noc_agent_run_external(db, a) = e
  BY <1>1, <1>3, <1>5, <1>9 DEF noc_agent_run_external
<1> QED
  BY <1>9, <1>10, <1>11, Committed DEF record

LEMMA StartKeeps ==
    ASSUME Sound(db), NEW r \in RunIds
    PROVE  Keeps(db, noc_agent_run_start(db, r))
<1>1. PICK row : row = [db.run[r] EXCEPT !.status = "running"]
  OBVIOUS
<1>2. db.run \in [RunIds -> RunRows]
  BY TablesTyped DEF Sound
<1>3. row \in RunRows /\ row.agent = db.run[r].agent /\ row.status = "running"
  BY <1>1, <1>2 DEF RunRows, RUN_STATUSES
<1>4. PICK run, a : run = [db.run EXCEPT ![r] = row] /\ a = db.run[r].agent
  OBVIOUS
<1>5. /\ run \in [RunIds -> RunRows] /\ run[r] = row
      /\ \A q \in RunIds \ {r} : run[q] = db.run[q]
  BY <1>2, <1>3, <1>4
<1>6. Keeps(db, Starts([db EXCEPT !.run = run], a))
  BY <1>3, <1>4, <1>5, StartsKeeps
<1>7. noc_agent_run_start(db, r) = Starts([db EXCEPT !.run = run], a)
  BY <1>1, <1>4 DEF noc_agent_run_start
<1> QED
  BY <1>6, <1>7

LEMMA RunIsLateKeeps ==
    ASSUME Sound(db), NEW r \in RunIds, RunIsLate(r)
    PROVE  Keeps(db, db')
<1>1. PICK row : row = [db.run[r] EXCEPT !.late = TRUE]
  OBVIOUS
<1>2. /\ db.agent \in [Agents -> AgentRows] /\ db.run \in [RunIds -> RunRows]
      /\ \A b \in Agents : db.agent[b].status = "running" =>
            \E q \in RunIds : db.run[q].agent = b /\ db.run[q].status = "running"
  BY RunningRuns
<1>3. db.run[r] \in RunRows
  BY <1>2
<1>4. row \in RunRows /\ row.agent = db.run[r].agent /\ row.status = db.run[r].status
  BY <1>1, <1>3 DEF RunRows
<1>5. PICK run, agent : run = [db.run EXCEPT ![r] = row] /\ agent = db.agent
  OBVIOUS
<1>6. /\ run \in [RunIds -> RunRows]
      /\ \A q \in RunIds : run[q].agent = db.run[q].agent /\ run[q].status = db.run[q].status
  BY <1>2, <1>4, <1>5
<1>7. \A b \in Agents : agent[b].status = "running" =>
            \E q \in RunIds : run[q].agent = b /\ run[q].status = "running"
  BY <1>2, <1>5, <1>6
<1>8. agent \in [Agents -> AgentRows]
  BY <1>2, <1>5
<1>9. \A b \in Agents : /\ agent[b].boss = db.agent[b].boss
                        /\ db.agent[b].status = "terminated" => agent[b].status = "terminated"
  BY <1>5
<1>10. PICK e : e = [db EXCEPT !.agent = agent, !.run = run]
  OBVIOUS
<1>11. Keeps(db, e)
  BY <1>8, <1>9, <1>6, <1>7, <1>10, AgentsKeep
<1>12. Commit(e)
  <2>1. [db EXCEPT !.run[r].late = TRUE] = [db EXCEPT !.agent = agent, !.run = run]
    BY <1>1, <1>5 DEF Sound, Tables
  <2> QED
    BY <1>10, <2>1 DEF RunIsLate
<1> QED
  BY <1>11, <1>10, <1>12, Committed

-----------------------------------------------------------------------------
(* The network and the clocks *)

(* The trigger opens a case where there was none. *)
LEMMA OpenKeeps ==
    ASSUME NEW d, Sound(d), NEW s \in Cases, d.sit[s] = "none", NEW prio \in {"minor", "critical"}
    PROVE  LET e == noc_case_open(d, s, prio)
           IN  /\ Keeps(d, e) /\ e.case[s].status = "new" /\ e.cycle = d.cycle
               /\ e.sit = [d.sit EXCEPT ![s] = "open"] /\ e.heard = d.heard
               /\ \A t \in Cases \ {s} : e.case[t] = d.case[t]
<1>1. PICK row : row = [NoCase EXCEPT !.status = "new", !.prio = prio]
  OBVIOUS
<1>2. /\ row \in CaseRows /\ row.status = "new" /\ row.owner = Nobody
  BY <1>1 DEF NoCase, CaseRows, STATUSES, LIVE, UNOWNED
<1>3. PICK case, sit : case = [d.case EXCEPT ![s] = row] /\ sit = [d.sit EXCEPT ![s] = "open"]
  OBVIOUS
<1>4. PICK e : e = noc_case_open(d, s, prio)
  OBVIOUS
<1>5. e = [d EXCEPT !.sit = sit, !.case = case]
  BY <1>1, <1>3, <1>4 DEF noc_case_open
<1>6. d \in Tables
  BY DEF Sound
<1>7. /\ d.case \in [Cases -> CaseRows]
      /\ d.sit \in [Cases -> {"none", "open", "cleared", "merged"}]
  BY <1>6, TablesTyped
<1>8. case \in [Cases -> CaseRows] /\ sit \in [Cases -> {"none", "open", "cleared", "merged"}]
  BY <1>2, <1>3, <1>7
<1>9. /\ e \in Tables /\ e.case = case /\ e.sit = sit /\ e.cycle = d.cycle
      /\ e.agent = d.agent /\ e.run = d.run /\ e.heard = d.heard
  BY <1>5, <1>6, <1>8 DEF Tables
<1>10. LedgerOf(e, s)
  <2>1. LedgerOf(d, s)
    BY DEF Sound
  <2>2. d.cycle[s] = <<>>
    BY <2>1 DEF LedgerOf, Ledger
  <2>3. e.case[s] = row /\ e.sit[s] = "open" /\ e.cycle[s] = <<>>
    BY <1>3, <1>7, <1>9, <2>2
  <2> QED
    BY <1>2, <2>3 DEF LedgerOf, Ledger, Short, PENDING
<1>11. \A t \in Cases \ {s} : e.case[t] = d.case[t] /\ e.sit[t] = d.sit[t]
  BY <1>3, <1>7, <1>9
<1>12. \A t \in Cases \ {s} : LedgerOf(e, t)
  BY <1>9, <1>11 DEF LedgerOf, Sound
<1>13. Running(e)
  BY <1>9, RunningKept DEF Sound
<1>14. e.sit[s] = "open"
  BY <1>3, <1>7, <1>9
<1>15. Keeps(d, e)
  <2>1. Holds(d, e)
    BY <1>9, <1>10, <1>11, <1>12, <1>13, <1>14 DEF Holds, Sound
  <2> QED
    BY <1>9, <2>1, KeepsByAgents
<1>16. e.case[s].status = "new"
  BY <1>2, <1>3, <1>7, <1>9
<1> QED
  BY <1>3, <1>4, <1>9, <1>11, <1>15, <1>16

LEMMA OpenSituationKeeps ==
    ASSUME Sound(db), NEW s \in Cases, OpenSituation(s)
    PROVE  Keeps(db, db')
<1>1. PICK prio \in {"minor", "critical"} : Commit(noc_case_open(db, s, prio))
  BY NocConstants DEF OpenSituation
<1>2. PICK e : e = noc_case_open(db, s, prio)
  OBVIOUS
<1>3. Keeps(db, e)
  BY <1>2, OpenKeeps DEF OpenSituation
<1> QED
  BY <1>1, <1>2, <1>3, Committed

LEMMA ResolveSituationKeeps ==
    ASSUME Sound(db), NEW s \in Cases, ResolveSituation(s)
    PROVE  Keeps(db, db')
<1>1. PICK how \in {"cleared", "merged"} : Commit([db EXCEPT !.sit[s] = how])
  BY DEF ResolveSituation
<1>2. PICK sit : sit = [db.sit EXCEPT ![s] = how]
  OBVIOUS
<1>3. db \in Tables /\ db.sit \in [Cases -> {"none", "open", "cleared", "merged"}]
  BY TablesTyped DEF Sound
<1>4. /\ sit \in [Cases -> {"none", "open", "cleared", "merged"}]
      /\ \A t \in Cases : sit[t] = "none" <=> db.sit[t] = "none"
  BY <1>2, <1>3 DEF ResolveSituation
<1>5. PICK e : e = [db EXCEPT !.sit = sit]
  OBVIOUS
<1>6. /\ e \in Tables /\ e.case = db.case /\ e.cycle = db.cycle /\ e.sit = sit
      /\ e.agent = db.agent /\ e.run = db.run
  BY <1>3, <1>4, <1>5 DEF Tables
<1>7. Keeps(db, e)
  BY <1>4, <1>6, BesidesKeeps
<1>8. Commit(e)
  BY <1>1, <1>2, <1>5
<1> QED
  BY <1>7, <1>8, Committed

(* A change among the alarms, or in what was heard of them. *)
LEMMA AlarmsKeep ==
    ASSUME Sound(db), NEW alarm \in [Cases -> [Alarms -> AlarmRows]], NEW heard \in [Cases -> Heard]
    PROVE  Keeps(db, [db EXCEPT !.alarm = alarm, !.heard = heard])
<1>1. PICK e : e = [db EXCEPT !.alarm = alarm, !.heard = heard]
  OBVIOUS
<1>2. /\ e \in Tables /\ e.case = db.case /\ e.cycle = db.cycle /\ e.sit = db.sit
      /\ e.agent = db.agent /\ e.run = db.run
  BY <1>1 DEF Sound, Tables
<1>3. Keeps(db, e)
  BY <1>2, BesidesKeeps
<1> QED
  BY <1>1, <1>3

LEMMA AlarmMovesKeeps ==
    ASSUME Sound(db), NEW s \in Cases, NEW a \in Alarms, RaiseAlarm(s, a) \/ ClearAlarm(s, a)
    PROVE  Keeps(db, db')
<1>1. /\ db.alarm \in [Cases -> [Alarms -> AlarmRows]] /\ db.heard \in [Cases -> Heard]
  BY TablesTyped DEF Sound
<1>2. db.alarm[s][a] \in AlarmRows
  BY <1>1
<1>3. PICK row \in AlarmRows : Commit([db EXCEPT !.alarm[s][a] = row])
  <2>1. CASE RaiseAlarm(s, a)
    <3>1. PICK row : row = [on |-> TRUE, raised |-> db.alarm[s][a].raised + 1]
      OBVIOUS
    <3>2. row \in AlarmRows
      BY <1>2, <2>1, <3>1, NocConstants DEF RaiseAlarm, AlarmRows
    <3>3. Commit([db EXCEPT !.alarm[s][a] = row])
      BY <2>1, <3>1 DEF RaiseAlarm
    <3> QED
      BY <3>2, <3>3
  <2>2. CASE ClearAlarm(s, a)
    <3>1. PICK row : row = [db.alarm[s][a] EXCEPT !.on = FALSE]
      OBVIOUS
    <3>2. row \in AlarmRows
      BY <1>2, <3>1 DEF AlarmRows
    <3>3. Commit([db EXCEPT !.alarm[s][a] = row])
      BY <2>2, <3>1 DEF ClearAlarm
    <3> QED
      BY <3>2, <3>3
  <2> QED
    BY <2>1, <2>2
<1>4. PICK alarm, heard : alarm = [db.alarm EXCEPT ![s][a] = row] /\ heard = db.heard
  OBVIOUS
<1>5. alarm \in [Cases -> [Alarms -> AlarmRows]] /\ heard \in [Cases -> Heard]
  BY <1>1, <1>4
<1>6. Keeps(db, [db EXCEPT !.alarm = alarm, !.heard = heard])
  BY <1>5, AlarmsKeep
<1>7. PICK e : e = [db EXCEPT !.alarm = alarm, !.heard = heard]
  OBVIOUS
<1>8. [db EXCEPT !.alarm[s][a] = row] = e
  BY <1>4, <1>7 DEF Sound, Tables
<1> QED
  BY <1>3, <1>6, <1>7, <1>8, Committed

LEMMA QuietEndsKeeps ==
    ASSUME Sound(db), NEW s \in Cases, NEW a \in Alarms, QuietEnds(s, a)
    PROVE  Keeps(db, db')
<1>1. /\ db.alarm \in [Cases -> [Alarms -> AlarmRows]] /\ db.heard \in [Cases -> Heard]
  BY TablesTyped DEF Sound
<1>2. db.heard[s] \in Heard
  BY <1>1
<1>3. PICK known \in SUBSET Alarms : db.heard[s] \in [known -> HeardRows]
  BY <1>2 DEF Heard
<1>4. PICK h : h = [db.heard[s] EXCEPT ![a].just = FALSE]
  OBVIOUS
<1>5. \A row \in HeardRows : [row EXCEPT !.just = FALSE] \in HeardRows
  BY DEF HeardRows
<1>6. h \in [known -> HeardRows]
  BY <1>3, <1>4, <1>5
<1>7. h \in Heard
  BY <1>6 DEF Heard
<1>8. PICK alarm, heard : alarm = db.alarm /\ heard = [db.heard EXCEPT ![s] = h]
  OBVIOUS
<1>9. alarm \in [Cases -> [Alarms -> AlarmRows]] /\ heard \in [Cases -> Heard]
  BY <1>1, <1>7, <1>8
<1>10. Keeps(db, [db EXCEPT !.alarm = alarm, !.heard = heard])
  BY <1>9, AlarmsKeep
<1>11. PICK e : e = [db EXCEPT !.alarm = alarm, !.heard = heard]
  OBVIOUS
<1>12. [db EXCEPT !.heard[s][a].just = FALSE] = e
  BY <1>4, <1>8, <1>11 DEF Sound, Tables
<1> QED
  BY <1>10, <1>11, <1>12, Committed DEF QuietEnds

(* A clock of a case runs out: its next update is due, or its agent late. *)
LEMMA ClockKeeps ==
    ASSUME Sound(db), NEW s \in Cases, NextUpdateComes(s) \/ CaseIsLate(s)
    PROVE  Keeps(db, db')
<1>1. db \in Tables /\ LedgerOf(db, s)
  BY SoundTables
<1>2. db.case[s] \in CaseRows
  BY <1>1, TablesTyped
<1>3. PICK row \in CaseRows :
        /\ Commit([db EXCEPT !.case[s] = row])
        /\ row.status = db.case[s].status /\ row.owner = db.case[s].owner
        /\ row.prio = db.case[s].prio /\ (db.case[s].next # "none" => row.next # "none")
  <2>1. CASE NextUpdateComes(s)
    <3>1. PICK row : row = [db.case[s] EXCEPT !.next = "due"]
      OBVIOUS
    <3>2. /\ row \in CaseRows
          /\ row.status = db.case[s].status /\ row.owner = db.case[s].owner
          /\ row.prio = db.case[s].prio /\ (db.case[s].next # "none" => row.next # "none")
      BY <1>2, <3>1 DEF CaseRows
    <3>3. Commit([db EXCEPT !.case[s] = row])
      BY <2>1, <3>1 DEF NextUpdateComes
    <3> QED
      BY <3>2, <3>3
  <2>2. CASE CaseIsLate(s)
    <3>1. PICK row : row = [db.case[s] EXCEPT !.late = TRUE]
      OBVIOUS
    <3>2. /\ row \in CaseRows
          /\ row.status = db.case[s].status /\ row.owner = db.case[s].owner
          /\ row.prio = db.case[s].prio /\ (db.case[s].next # "none" => row.next # "none")
      BY <1>2, <3>1 DEF CaseRows
    <3>3. Commit([db EXCEPT !.case[s] = row])
      BY <2>2, <3>1 DEF CaseIsLate
    <3> QED
      BY <3>2, <3>3
  <2> QED
    BY <2>1, <2>2
<1>4. PICK e : e = [db EXCEPT !.case[s] = row]
  OBVIOUS
<1>5. Rewrites(db, e, s) /\ e.case[s] = row /\ e.cycle[s] = db.cycle[s]
  BY <1>1, <1>4, RewriteCase
<1>6. e.sit = db.sit /\ Ledger(db.sit[s], db.case[s], db.cycle[s])
  BY <1>1, <1>5 DEF Rewrites, LedgerOf
<1>7. Ledger(db.sit[s], row, db.cycle[s])
  BY <1>2, <1>3, <1>6, LedgerRouted
<1>8. Works(db, e, s)
  BY <1>5, <1>6, <1>7 DEF Works, LedgerOf
<1> QED
  BY <1>3, <1>4, <1>8, CommittedWork

-----------------------------------------------------------------------------
(* The steps that also change what a loop or a task holds *)

LEMMA Untouched ==
    ASSUME IInv, UNCHANGED db
    PROVE  Keeps(db, db')
<1>1. db' = db /\ Sound(db)
  BY DEF IInv
<1> QED
  BY <1>1, KeepsNothing

(* The case loop reads: what it remembers is typed, and no situation it    *)
(* takes for an orphan's is unmade.                                        *)
LEMMA TickReadStays ==
    ASSUME IInv, NEW whole \in BOOLEAN, TickRead(whole)
    PROVE  IInv' /\ Keeps(db, db')
<1>1. PICK stale : seen' = [fresh |-> noc_cases_in(db, "new"), due |-> noc_cases_due(db),
                  orphaned |-> [s \in noc_cases_orphaned(db) |-> db.sit[s]], stale |-> stale,
                  rising |-> IF whole THEN noc_cases_auto_priority(db) \ noc_cases_in(db, "new")
                                      ELSE {},
                  news |-> [s \in {t \in Cases : whole /\ DOMAIN news(db, t).moved # {}} |->
                              news(db, s)]]
  BY DEF TickRead
<1>2. PICK told, heard, gone, late :
        /\ told = {t \in Cases : whole /\ DOMAIN news(db, t).moved # {}}
        /\ heard = [s \in told |-> news(db, s)]
        /\ gone = noc_cases_orphaned(db) /\ late = [s \in gone |-> db.sit[s]]
  OBVIOUS
<1>3. seen'.news = heard /\ seen'.orphaned = late
  BY <1>1, <1>2
<1>4. db \in Tables
  BY DEF IInv, TypeOK
<1>5. \A s \in told : heard[s].moved \in Heard
  BY <1>2, <1>4, NewsTyped
<1>6. \A s \in gone : s \in Cases /\ db.sit[s] # "none"
  BY <1>2 DEF noc_cases_orphaned
<1>7. DOMAIN heard = told /\ DOMAIN late = gone
  BY <1>2
<1>8. Remembered'
  BY <1>3, <1>5, <1>6, <1>7 DEF Remembered, IInv, TickRead
<1>9. Sound(db)' /\ TypeOK'
  BY DEF IInv, TypeOK, Sound, Running, LedgerOf, TickRead
<1>10. Keeps(db, db')
  BY Untouched DEF TickRead
<1> QED
  BY <1>8, <1>9, <1>10 DEF IInv

LEMMA AgentTickReadStays ==
    ASSUME IInv, AgentTickRead
    PROVE  IInv' /\ Keeps(db, db')
<1>1. looked'.due \subseteq Agents
  BY DEF AgentTickRead
<1>2. Remembered'
  BY <1>1 DEF Remembered, IInv, AgentTickRead
<1>3. Sound(db)' /\ TypeOK'
  BY DEF IInv, TypeOK, Sound, Running, LedgerOf, AgentTickRead
<1>4. Keeps(db, db')
  BY Untouched DEF AgentTickRead
<1> QED
  BY <1>2, <1>3, <1>4 DEF IInv

LEMMA StartReadStays ==
    ASSUME IInv, StartRead
    PROVE  IInv' /\ Keeps(db, db')
<1>1. Keeps(db, db')
  BY Untouched DEF StartRead
<1>2. /\ seen' = seen /\ looked' = looked /\ ready' \subseteq RunIds
      /\ task' \subseteq RunIds \X {"webhook", "in process"}
      /\ walk' \subseteq Cases /\ booted' \in BOOLEAN /\ crashes' \in 0 .. MaxCrashes
  BY DEF IInv, TypeOK, StartRead, noc_agent_runs_ready
<1>3. Holds(db, db')
  BY <1>1 DEF Keeps
<1> QED
  BY <1>1, <1>2, <1>3, Stays

LEMMA StartReadyStays ==
    ASSUME IInv, NEW r \in RunIds, start_ready(r)
    PROVE  IInv' /\ Keeps(db, db')
<1>1. Sound(db) /\ "failed" \in RUN_STATUSES \ {"queued", "running"}
  BY DEF IInv, RUN_STATUSES
<1>2. PICK e, f : e = noc_agent_run_start(db, r) /\ f = noc_agent_run_finish(db, r, "failed")
  OBVIOUS
<1>3. Keeps(db, e) /\ Keeps(db, f)
  BY <1>1, <1>2, StartKeeps, FinishOneKeeps
<1>4. PICK held : db' = Forget(e, held) \/ db' = Forget(f, held)
  BY <1>2 DEF start_ready
<1>5. Keeps(db, db')
  BY <1>3, <1>4, ForgetTwice
<1>6. /\ seen' = seen /\ looked' = looked /\ ready' \subseteq RunIds
      /\ walk' \subseteq Cases /\ booted' \in BOOLEAN /\ crashes' \in 0 .. MaxCrashes
  BY DEF IInv, TypeOK, start_ready
<1>7. task' \subseteq RunIds \X {"webhook", "in process"}
  <2>1. task \subseteq RunIds \X {"webhook", "in process"}
    BY DEF IInv, TypeOK
  <2>2. task' = task \/ \E kind \in {"webhook", "in process"} : task' = task \cup {<<r, kind>>}
    BY DEF start_ready
  <2>3. \A kind \in {"webhook", "in process"} : <<r, kind>> \in RunIds \X {"webhook", "in process"}
    OBVIOUS
  <2> QED
    BY <2>1, <2>2, <2>3
<1>8. Holds(db, db')
  BY <1>5 DEF Keeps
<1> QED
  BY <1>5, <1>6, <1>7, <1>8, Stays

(* The end of a task says error or paused of its agent, whatever the agent *)
(* has become: one that left may be back.                                  *)
LEMMA WakeWebhookStays ==
    ASSUME IInv, NEW r \in RunIds, wake_webhook(r)
    PROVE  IInv' /\ SameBosses(db, db')
<1>1. Sound(db) /\ "failed" \in RUN_STATUSES \ {"queued", "running"}
  BY DEF IInv, RUN_STATUSES
<1>2. PICK f, a : f = noc_agent_run_finish(db, r, "failed") /\ a = db.run[r].agent
  OBVIOUS
<1>3. Keeps(db, f) /\ Sound(f)
  BY <1>1, <1>2, FinishOneKeeps DEF Keeps, Holds
<1>4. PICK e : e = noc_set_agent_status(f, a, "error")
  OBVIOUS
<1>5. Holds(f, e) /\ SameBosses(f, e)
  BY <1>3, <1>4, StatusHolds
<1>6. Holds(db, e) /\ SameBosses(db, e) /\ Holds(db, db) /\ SameBosses(db, db)
  BY <1>1, <1>3, <1>5, HoldsTwice, SameBossesTwice, KeepsNothing DEF Keeps
<1>7. PICK held : db' = Forget(db, held) \/ db' = Forget(e, held)
  BY <1>2, <1>4 DEF wake_webhook
<1>8. Holds(db, db') /\ SameBosses(db, db')
  BY <1>6, <1>7, ForgetHolds, ForgetBosses
<1>9. /\ seen' = seen /\ looked' = looked /\ ready' \subseteq RunIds
      /\ task' \subseteq RunIds \X {"webhook", "in process"}
      /\ walk' \subseteq Cases /\ booted' \in BOOLEAN /\ crashes' \in 0 .. MaxCrashes
  BY DEF IInv, TypeOK, wake_webhook
<1> QED
  BY <1>8, <1>9, Stays

LEMMA RunInProcessStays ==
    ASSUME IInv, NEW r \in RunIds, run_in_process(r)
    PROVE  IInv' /\ SameBosses(db, db')
<1>1. PICK outcome \in {"succeeded", "failed", "timed_out"}, spent \in BOOLEAN :
        db' = Forget(IF spent THEN noc_set_agent_status(noc_agent_run_finish(db, r, outcome),
                                                        db.run[r].agent, "paused")
                              ELSE noc_agent_run_finish(db, r, outcome), InUse(ready, task'))
  BY DEF run_in_process
<1>2. Sound(db) /\ outcome \in RUN_STATUSES \ {"queued", "running"}
  BY DEF IInv, RUN_STATUSES
<1>3. PICK f, a : f = noc_agent_run_finish(db, r, outcome) /\ a = db.run[r].agent
  OBVIOUS
<1>4. Keeps(db, f) /\ Sound(f)
  BY <1>2, <1>3, FinishOneKeeps DEF Keeps, Holds
<1>5. PICK e : e = noc_set_agent_status(f, a, "paused")
  OBVIOUS
<1>6. Holds(f, e) /\ SameBosses(f, e)
  BY <1>4, <1>5, StatusHolds
<1>7. Holds(db, e) /\ SameBosses(db, e) /\ Holds(db, f) /\ SameBosses(db, f)
  BY <1>4, <1>6, HoldsTwice, SameBossesTwice DEF Keeps
<1>8. PICK held : db' = Forget(e, held) \/ db' = Forget(f, held)
  BY <1>1, <1>3, <1>5
<1>9. Holds(db, db') /\ SameBosses(db, db')
  BY <1>7, <1>8, ForgetHolds, ForgetBosses
<1>10. /\ seen' = seen /\ looked' = looked /\ ready' \subseteq RunIds
       /\ task' \subseteq RunIds \X {"webhook", "in process"}
       /\ walk' \subseteq Cases /\ booted' \in BOOLEAN /\ crashes' \in 0 .. MaxCrashes
  BY DEF IInv, TypeOK, run_in_process
<1> QED
  BY <1>9, <1>10, Stays

LEMMA CrashStays ==
    ASSUME IInv, Crash
    PROVE  IInv' /\ Keeps(db, db')
<1>1. Keeps(db, db)
  BY KeepsNothing DEF IInv
<1>2. PICK held : db' = Forget(db, held)
  BY DEF Crash
<1>3. Keeps(db, db')
  BY <1>1, <1>2, ForgetTwice
<1>4. /\ seen' = Nothing /\ looked' = Nothing /\ ready' \subseteq RunIds
      /\ task' \subseteq RunIds \X {"webhook", "in process"}
      /\ walk' \subseteq Cases /\ booted' \in BOOLEAN
  BY DEF Crash
<1>5. crashes' \in 0 .. MaxCrashes
  <2>1. crashes \in 0 .. MaxCrashes /\ crashes < MaxCrashes /\ crashes' = crashes + 1
    BY DEF IInv, TypeOK, Crash
  <2> QED
    BY <2>1, CrashBound
<1>6. Holds(db, db')
  BY <1>3 DEF Keeps
<1> QED
  BY <1>3, <1>4, <1>5, <1>6, Stays

-----------------------------------------------------------------------------
(* The beginning *)

LEMMA EmptySound == Sound(Empty)
<1>1. NoCase \in CaseRows
  BY DEF NoCase, CaseRows
<1>2. NoRun \in RunRows
  BY DEF NoRun, RunRows, RUN_STATUSES
<1>3. Silent \in [Alarms -> AlarmRows]
  BY NocConstants DEF Silent, AlarmRows
<1>4. Unheard \in Heard
  <2>1. Unheard \in [{} -> HeardRows] /\ {} \in SUBSET Alarms
    BY DEF Unheard
  <2> QED
    BY <2>1 DEF Heard
<1>5. <<>> \in Seq(CycleRows)
  OBVIOUS
<1>6. [status |-> "terminated", boss |-> Nobody, wakes |-> FALSE] \in AgentRows
  BY DEF AgentRows
<1>7. Empty \in Tables
  BY <1>1, <1>2, <1>3, <1>4, <1>5, <1>6 DEF Empty, Tables
<1>8. \A s \in Cases : LedgerOf(Empty, s)
  BY DEF Empty, LedgerOf, Ledger, Short, NoCase, UNOWNED, PENDING
<1>9. Running(Empty)
  BY DEF Empty, Running
<1> QED
  BY <1>7, <1>8, <1>9 DEF Sound

(* Agents hired and cases opened before the first step. *)
LEMMA StaffedSound ==
    ASSUME NEW hired, NEW wakes \in BOOLEAN, NEW opened \in SUBSET Cases, AgentInit(hired, wakes, opened)
    PROVE  Sound(db) /\ \A a \in Agents : db.agent[a].boss = Nobody
<1>1. PICK row : row = [NoCase EXCEPT !.status = "new"]
  OBVIOUS
<1>2. row \in CaseRows /\ row.status = "new" /\ row.owner = Nobody /\ row.next = "none"
  BY <1>1 DEF NoCase, CaseRows, STATUSES, LIVE, UNOWNED
<1>3. Sound(Empty) /\ Empty \in Tables
  BY EmptySound DEF Sound
<1>4. /\ Empty.case = [s \in Cases |-> NoCase] /\ Empty.sit = [s \in Cases |-> "none"]
      /\ Empty.cycle = [s \in Cases |-> <<>>]
      /\ Empty.agent = [a \in Agents |-> [status |-> "terminated", boss |-> Nobody, wakes |-> FALSE]]
  BY DEF Empty
<1>5. PICK agent, sit, case :
        /\ agent = [a \in Agents |-> [status |-> IF a \in hired THEN "idle" ELSE "terminated",
                                      boss |-> Nobody, wakes |-> wakes]]
        /\ sit = [s \in Cases |-> IF s \in opened THEN "open" ELSE "none"]
        /\ case = [s \in Cases |-> IF s \in opened THEN row ELSE NoCase]
  OBVIOUS
<1>6. PICK d : d = [Empty EXCEPT !.agent = agent, !.sit = sit, !.case = case]
  OBVIOUS
<1>7. PICK after : after = [s \in opened |-> dispatch(d, s, FALSE)]
  OBVIOUS
<1>8. db = Together(d, after)
  BY <1>1, <1>5, <1>6, <1>7 DEF AgentInit
<1>9. /\ agent \in [Agents -> AgentRows] /\ \A a \in Agents : agent[a].status # "running"
  BY <1>5 DEF AgentRows, WORKING
<1>10. sit \in [Cases -> {"none", "open", "cleared", "merged"}]
  BY <1>5
<1>11. case \in [Cases -> CaseRows]
  BY <1>2, <1>5 DEF NoCase, CaseRows
<1>12. /\ d \in Tables /\ d.case = case /\ d.sit = sit /\ d.agent = agent
       /\ d.cycle = Empty.cycle
  BY <1>3, <1>6, <1>9, <1>10, <1>11 DEF Tables
<1>13. \A s \in Cases : LedgerOf(d, s)
  <2> SUFFICES ASSUME NEW s \in Cases
               PROVE  LedgerOf(d, s)
    OBVIOUS
  <2>1. d.cycle[s] = <<>>
    BY <1>4, <1>12
  <2>2. CASE s \in opened
    <3>1. d.case[s] = row /\ d.sit[s] = "open"
      BY <1>5, <1>12, <2>2
    <3> QED
      BY <1>2, <2>1, <3>1 DEF LedgerOf, Ledger, Short, PENDING
  <2>3. CASE s \notin opened
    <3>1. d.case[s] = NoCase /\ d.sit[s] = "none"
      BY <1>5, <1>12, <2>3
    <3> QED
      BY <2>1, <3>1 DEF LedgerOf, Ledger, Short, NoCase, PENDING, UNOWNED
  <2> QED
    BY <2>2, <2>3
<1>14. Running(d)
  BY <1>9, <1>12 DEF Running
<1>15. \A s \in opened : Works(d, after[s], s)
  <2> SUFFICES ASSUME NEW s \in opened
               PROVE  Works(d, after[s], s)
    OBVIOUS
  <2>1. d.case[s].status = "new" /\ s \in Cases
    BY <1>2, <1>5, <1>12
  <2>2. Works(d, dispatch(d, s, FALSE), s)
    BY <1>12, <1>13, <2>1, DispatchWorks
  <2> QED
    BY <1>7, <2>2
<1>16. Sound(d) /\ DOMAIN after = opened
  BY <1>7, <1>12, <1>13, <1>14 DEF Sound
<1>17. Keeps(d, Together(d, after))
  BY <1>15, <1>16, TogetherKeeps
<1>18. \A a \in Agents : d.agent[a].boss = Nobody
  BY <1>5, <1>12
<1> QED
  BY <1>8, <1>17, <1>18 DEF Keeps, Holds, SameBosses

LEMMA InitSound ==
    ASSUME Init
    PROVE  IInv /\ \A a \in Agents : db.agent[a].boss = Nobody
<1>1. Sound(db) /\ \A a \in Agents : db.agent[a].boss = Nobody
  <2>1. CASE CaseInit
    BY <2>1, EmptySound DEF CaseInit, Empty
  <2>2. CASE \E hired \in SUBSET Agents, opened \in SUBSET Cases, wakes \in BOOLEAN :
                AgentInit(hired, wakes, opened)
    BY <2>2, StaffedSound
  <2> QED
    BY <2>1, <2>2 DEF Init
<1>2. Idle
  BY DEF Init, CaseInit, AgentInit
<1>3. TypeOK
  <2>1. crashes \in 0 .. MaxCrashes
    BY <1>2, CrashBound DEF Idle
  <2> QED
    BY <1>1, <1>2, <2>1 DEF TypeOK, Idle, Sound
<1>4. Remembered
  BY <1>2 DEF Remembered, Idle
<1> QED
  BY <1>1, <1>3, <1>4 DEF IInv
-----------------------------------------------------------------------------
(* Every step *)

(* A step of a route or of a clock, which leaves what the loops hold.      *)
LEMMA QuietStep ==
    ASSUME IInv, Keeps(db, db'), UNCHANGED memory
    PROVE  IInv' /\ Keeps(db, db')
<1>1. Holds(db, db')
  BY DEF Keeps
<1> QED
  BY <1>1, StaysInMemory

(* A step of a loop or of a task, which holds less after it than before,   *)
(* or one case more.                                                       *)
LEMMA LoopStep ==
    ASSUME IInv, Keeps(db, db'),
           seen' = seen \/ seen' = Nothing, looked' = looked \/ looked' = Nothing,
           UNCHANGED <<ready, task, crashes>>, walk' \subseteq Cases, booted' \in BOOLEAN
    PROVE  IInv' /\ Keeps(db, db')
<1>1. Holds(db, db')
  BY DEF Keeps
<1>2. /\ ready' \subseteq RunIds /\ task' \subseteq RunIds \X {"webhook", "in process"}
      /\ crashes' \in 0 .. MaxCrashes
  BY DEF IInv, TypeOK
<1> QED
  BY <1>1, <1>2, Stays

LEMMA LoopsStay ==
    ASSUME IInv, TickAct \/ AgentTickAct \/ RunLoopStart
    PROVE  IInv' /\ Keeps(db, db')
<1>1. Sound(db) /\ walk \subseteq Cases /\ booted \in BOOLEAN
  BY DEF IInv, TypeOK
<1>2. Keeps(db, db')
  BY <1>1, TickActKeeps, AgentTickActKeeps, RunLoopStartKeeps
<1>3. /\ seen' = seen \/ seen' = Nothing
      /\ looked' = looked \/ looked' = Nothing
      /\ UNCHANGED <<ready, task, crashes>> /\ walk' \subseteq Cases /\ booted' \in BOOLEAN
  BY <1>1 DEF TickAct, AgentTickAct, RunLoopStart
<1> QED
  BY <1>2, <1>3, LoopStep

LEMMA WalksStay ==
    ASSUME IInv, NEW s \in Cases, run_case(s) \/ finish(s)
    PROVE  IInv' /\ Keeps(db, db')
<1>1. Sound(db) /\ walk \subseteq Cases /\ booted \in BOOLEAN
  BY DEF IInv, TypeOK
<1>2. Keeps(db, db')
  BY <1>1, RunCaseKeeps, FinishWalkKeeps
<1>3. /\ seen' = seen /\ looked' = looked /\ booted' = booted
      /\ UNCHANGED <<ready, task, crashes>> /\ walk' \subseteq Cases
  BY <1>1 DEF run_case, finish
<1> QED
  BY <1>1, <1>2, <1>3, LoopStep

(* The routes on a case, whoever calls them. *)
LEMMA CaseRoutesStay ==
    ASSUME IInv, NEW actor \in Actors, NEW s \in Cases,
           \/ take_case(actor, s) \/ release_case(actor, s) \/ update_case(actor, s)
           \/ set_status(actor, s) \/ resolve_case(actor, s) \/ post_to_case(actor, s)
           \/ assign_case(actor, s) \/ escalate_case(actor, s)
    PROVE  IInv' /\ Keeps(db, db')
<1>1. Sound(db)
  BY DEF IInv
<1>2. Keeps(db, db')
  BY <1>1, TakeCaseKeeps, ReleaseCaseKeeps, UpdateCaseKeeps, SetStatusKeeps, ResolveCaseKeeps,
     PostToCaseKeeps, AssignCaseKeeps, EscalateCaseKeeps
<1>3. UNCHANGED memory
  BY DEF take_case, release_case, update_case, set_status, resolve_case, post_to_case,
     assign_case, escalate_case
<1> QED
  BY <1>2, <1>3, QuietStep

(* What befalls a case without anyone acting on it. *)
LEMMA NetworkStays ==
    ASSUME IInv, NEW s \in Cases,
           \/ OpenSituation(s) \/ ResolveSituation(s) \/ NextUpdateComes(s) \/ CaseIsLate(s)
           \/ \E a \in Alarms : RaiseAlarm(s, a) \/ ClearAlarm(s, a) \/ QuietEnds(s, a)
    PROVE  IInv' /\ Keeps(db, db')
<1>1. Sound(db)
  BY DEF IInv
<1>2. Keeps(db, db')
  BY <1>1, OpenSituationKeeps, ResolveSituationKeeps, ClockKeeps, AlarmMovesKeeps, QuietEndsKeeps
<1>3. UNCHANGED memory
  BY DEF OpenSituation, ResolveSituation, NextUpdateComes, CaseIsLate, RaiseAlarm, ClearAlarm,
     QuietEnds
<1> QED
  BY <1>2, <1>3, QuietStep

(* The cases, and the loops and the people that work them. *)
LEMMA CaseSteps ==
    ASSUME IInv, CaseNext
    PROVE  IInv' /\ Keeps(db, db')
<1>1. CASE TickRead(TRUE) \/ TickRead(FALSE)
  BY <1>1, TickReadStays
<1>2. CASE TickAct \/ RunLoopStart
  BY <1>2, LoopsStay
<1>3. CASE granted
  BY <1>3, GrantedKeeps, QuietStep DEF IInv, granted
<1>4. CASE Crash
  BY <1>4, CrashStays
<1>5. CASE \E s \in Cases : run_case(s) \/ finish(s)
  BY <1>5, WalksStay
<1>6. CASE \E s \in Cases :
             \/ OpenSituation(s) \/ ResolveSituation(s) \/ NextUpdateComes(s)
             \/ \E a \in Alarms : RaiseAlarm(s, a) \/ ClearAlarm(s, a) \/ QuietEnds(s, a)
  BY <1>6, NetworkStays
<1>7. CASE \E s \in Cases : \E actor \in Actors :
             \/ take_case(actor, s) \/ release_case(actor, s) \/ update_case(actor, s)
             \/ set_status(actor, s) \/ resolve_case(actor, s) \/ post_to_case(actor, s)
  BY <1>7, CaseRoutesStay
<1> QED
  BY <1>1, <1>2, <1>3, <1>4, <1>5, <1>6, <1>7 DEF CaseNext

(* The two ways a boss changes. *)
Reorganizes == \E p \in People, a \in Agents : terminate_agent(p, a) \/ update_agent(p, a)

(* The two ways an agent that left may come back. *)
Returns == \E r \in RunIds : wake_webhook(r) \/ run_in_process(r)

(* The organization of the agents and the cases routed to them. *)
LEMMA RouteSteps ==
    ASSUME IInv, RouteNext
    PROVE  IInv' /\ (Keeps(db, db') \/ Reorganizes)
<1>1. Sound(db)
  BY DEF IInv
<1>2. CASE AgentTickRead
  BY <1>2, AgentTickReadStays
<1>3. CASE AgentTickAct
  BY <1>3, LoopsStay
<1>4. CASE granted
  BY <1>1, <1>4, GrantedKeeps, QuietStep DEF granted
<1>5. CASE Crash
  BY <1>5, CrashStays
<1>6. CASE \E s \in Cases : CaseIsLate(s)
  BY <1>6, NetworkStays
<1>7. CASE \E s \in Cases : \E actor \in Actors :
             \/ take_case(actor, s) \/ release_case(actor, s) \/ set_status(actor, s)
             \/ resolve_case(actor, s) \/ assign_case(actor, s) \/ escalate_case(actor, s)
  BY <1>7, CaseRoutesStay
<1>8. CASE \E a \in Agents : \E actor \in Actors : pause_agent(actor, a) \/ resume_agent(actor, a)
  BY <1>1, <1>8, PauseKeeps, QuietStep DEF pause_agent, resume_agent
<1>9. CASE Reorganizes
  <2>1. Holds(db, db')
    BY <1>1, <1>9, TerminateHolds, UpdateAgentHolds DEF Reorganizes
  <2>2. UNCHANGED memory
    BY <1>9 DEF Reorganizes, terminate_agent, update_agent
  <2> QED
    BY <1>9, <2>1, <2>2, StaysInMemory
<1> QED
  BY <1>2, <1>3, <1>4, <1>5, <1>6, <1>7, <1>8, <1>9 DEF RouteNext, Reorganizes

(* The runs of the agents. *)
LEMMA RunSteps ==
    ASSUME IInv, RunNext
    PROVE  IInv' /\ (Keeps(db, db') \/ (SameBosses(db, db') /\ Returns))
<1>1. Sound(db)
  BY DEF IInv
<1>2. CASE StartRead
  BY <1>2, StartReadStays
<1>3. CASE \E r \in RunIds : start_ready(r)
  BY <1>3, StartReadyStays
<1>4. CASE Returns
  BY <1>4, WakeWebhookStays, RunInProcessStays DEF Returns
<1>5. CASE \E r \in RunIds : RunIsLate(r)
  BY <1>1, <1>5, RunIsLateKeeps, QuietStep DEF RunIsLate
<1>6. CASE \E r \in RunIds : \E actor \in Actors : finish_run(actor, r)
  BY <1>1, <1>6, FinishRunKeeps, QuietStep DEF finish_run
<1>7. CASE \E a \in Agents : record(a)
  BY <1>1, <1>7, RecordKeeps, QuietStep DEF record
<1>8. CASE \E a \in Agents : \E actor \in Actors : invoke_agent(actor, a)
  BY <1>1, <1>8, InvokeKeeps, QuietStep DEF invoke_agent
<1> QED
  BY <1>2, <1>3, <1>4, <1>5, <1>6, <1>7, <1>8 DEF RunNext, Returns

(* A step keeps the invariant, and the tables with it unless someone       *)
(* reorganizes the agents or a task ends.                                  *)
LEMMA Steps ==
    ASSUME IInv, [Next]_vars
    PROVE  /\ IInv'
           /\ Keeps(db, db') \/ Reorganizes \/ (SameBosses(db, db') /\ Returns)
<1>1. CASE CaseNext
  BY <1>1, CaseSteps
<1>2. CASE RouteNext
  BY <1>2, RouteSteps
<1>3. CASE RunNext
  BY <1>3, RunSteps
<1>4. CASE UNCHANGED vars
  <2>1. db' = db /\ UNCHANGED memory
    BY <1>4 DEF vars, memory
  <2>2. Keeps(db, db')
    BY <2>1, Untouched
  <2> QED
    BY <2>1, <2>2, QuietStep
<1> QED
  BY <1>1, <1>2, <1>3, <1>4 DEF Next

-----------------------------------------------------------------------------
(* The NOC keeps its invariant, whatever its loops had read before they    *)
(* acted (cases.py, case_loop.py, agent_loop.py, runbook.py).              *)
THEOREM NocSound == Spec => []IInv
<1>1. Init => IInv
  BY InitSound
<1>2. IInv /\ [Next]_vars => IInv'
  BY Steps
<1> QED
  BY <1>1, <1>2, PTL DEF Spec

(* The tables, and what the loops and the tasks hold, keep their types:    *)
(* the statuses are those of cases.py, agents.py and runbook.py.           *)
THEOREM NocTyped == Spec => []TypeOK
<1>1. IInv => TypeOK
  BY DEF IInv
<1> QED
  BY <1>1, NocSound, PTL

(* The take clock is the truth about the queue: a case is in it exactly    *)
(* when its one cycle waits to be taken, at the case's priority, however   *)
(* stale what requeued, took or resolved it (store/noc_cases.py).          *)
THEOREM NocQueueLedger == Spec => []QueueLedger
<1>1. IInv => QueueLedger
  <2> SUFFICES ASSUME IInv, NEW s \in Cases
               PROVE  LET c == db.case[s]
                          cycles == db.cycle[s]
                      IN  /\ Len(cycles) <= 1
                          /\ c.status = "queue" <=> (cycles # <<>> /\ ~cycles[1].taken)
                          /\ cycles # <<>> => (IF cycles[1].taken THEN c.status = "working"
                                                                  ELSE cycles[1].prio = c.prio)
                          /\ c.status = "working" => c.owner # Nobody
                          /\ c.status \in UNOWNED => c.owner = Nobody
                          /\ c.status \in PENDING => c.next # "none"
    BY DEF QueueLedger
  <2>1. Ledger(db.sit[s], db.case[s], db.cycle[s])
    BY DEF IInv, Sound, LedgerOf
  <2>2. Len(db.cycle[s]) <= 1
    BY <2>1, ShortLists DEF Ledger
  <2> QED
    BY <2>1, <2>2 DEF Ledger
<1> QED
  BY <1>1, NocSound, PTL

(* An agent shown running has a run that is running, so that agent_loop's  *)
(* tick or a task will end it: finishing one of two runs, or an overdue    *)
(* one whose row was used again, does not leave it without.                *)
THEOREM NocRunningHasRun == Spec => []RunningHasRun
<1>1. IInv => RunningHasRun
  BY DEF IInv, Sound, Running, RunningHasRun
<1> QED
  BY <1>1, NocSound, PTL

-----------------------------------------------------------------------------
(* The organization *)

(* An agent that left is never back, but by the end of a task that holds   *)
(* it still: the hypothesis of NocForest, and what NocRetiredStay says of  *)
(* every other step.                                                       *)
RetiredStay == \A a \in Agents : ~Hired(a) => ~Hired(a)'

LEMMA RetiredSteps ==
    ASSUME IInv, [Next]_vars
    PROVE  RetiredStay \/ Returns
<1>1. Keeps(db, db') \/ Reorganizes \/ Returns
  BY Steps
<1>2. CASE Keeps(db, db')
  BY <1>2 DEF Keeps, SameRetired, RetiredStay, Hired
<1>3. CASE Reorganizes
  <2>1. Sound(db)
    BY DEF IInv
  <2>2. PICK p \in People, a \in Agents : terminate_agent(p, a) \/ update_agent(p, a)
    BY <1>3 DEF Reorganizes
  <2>3. \A b \in Agents : db.agent[b].status = "terminated" => db'.agent[b].status = "terminated"
    BY <2>1, <2>2, TerminateHolds, UpdateAgentHolds
  <2> QED
    BY <2>3 DEF RetiredStay, Hired
<1> QED
  BY <1>1, <1>2, <1>3

(* A gesture never brings back an agent that was retired for good          *)
(* (agents.terminate_agent): only a wake-up that failed or a run that spent *)
(* its budget does, if it was under way (agent_loop.wake_webhook,          *)
(* run_in_process), since noc_set_agent_status does not look at what the   *)
(* agent has become.                                                       *)
THEOREM NocRetiredStay == Spec => [][RetiredStay \/ Returns]_vars
<1>1. IInv /\ [Next]_vars => [RetiredStay \/ Returns]_vars
  BY RetiredSteps
<1> QED
  BY <1>1, NocSound, PTL DEF Spec

(* The agents above one: with each of them its boss, and the fewest such.  *)
LEMMA ChainUpward ==
    ASSUME NEW e \in [Agents -> AgentRows], NEW a \in Agents
    PROVE  /\ chain(e, a) \in SUBSET Agents
           /\ Upward(e, chain(e, a)) /\ Boss(e, a) \in chain(e, a) \cup {Nobody}
<1>1. \A b \in Agents : Boss(e, b) \in Agents \cup {Nobody}
  BY DEF Boss, AgentRows
<1>2. PICK C : C = chain(e, a)
  OBVIOUS
<1>3. C = {b \in Agents : \A S \in SUBSET Agents :
              Upward(e, S) /\ Boss(e, a) \in S \cup {Nobody} => b \in S}
  BY <1>2 DEF chain
<1>4. Boss(e, a) \in C \cup {Nobody}
  <2> SUFFICES ASSUME Boss(e, a) # Nobody
               PROVE  Boss(e, a) \in C
    OBVIOUS
  <2>1. \A S \in SUBSET Agents : Boss(e, a) \in S \cup {Nobody} => Boss(e, a) \in S
    OBVIOUS
  <2> QED
    BY <1>1, <1>3, <2>1
<1>5. Upward(e, C)
  <2> SUFFICES ASSUME NEW b \in C, Boss(e, b) # Nobody
               PROVE  Boss(e, b) \in C
    BY DEF Upward
  <2>1. \A S \in SUBSET Agents :
           Upward(e, S) /\ Boss(e, a) \in S \cup {Nobody} => Boss(e, b) \in S
    <3> SUFFICES ASSUME NEW S \in SUBSET Agents, Upward(e, S), Boss(e, a) \in S \cup {Nobody}
                 PROVE  Boss(e, b) \in S
      OBVIOUS
    <3>1. b \in S
      BY <1>3
    <3> QED
      BY <3>1 DEF Upward
  <2> QED
    BY <1>1, <1>3, <2>1
<1> QED
  BY <1>2, <1>3, <1>4, <1>5

LEMMA ChainLeast ==
    ASSUME NEW e, NEW a, NEW S \in SUBSET Agents, Upward(e, S), Boss(e, a) \in S \cup {Nobody}
    PROVE  chain(e, a) \subseteq S
BY DEF chain

(* A boss that steps aside, for its own boss or for nobody, lengthens no   *)
(* chain.                                                                  *)
LEMMA StepsAside ==
    ASSUME NEW e \in [Agents -> AgentRows], NEW f \in [Agents -> AgentRows],
           \A b \in Agents : \/ Boss(f, b) = Boss(e, b) \/ Boss(f, b) = Nobody
                             \/ Boss(e, b) \in Agents /\ Boss(f, b) = Boss(e, Boss(e, b)),
           NEW a \in Agents
    PROVE  chain(f, a) \subseteq chain(e, a)
<1>1. PICK C : C = chain(e, a)
  OBVIOUS
<1>2. C \in SUBSET Agents /\ Upward(e, C) /\ Boss(e, a) \in C \cup {Nobody}
  BY <1>1, ChainUpward
<1>3. Nobody \notin Agents
  BY NocConstants
<1>4. \A b \in Agents : Boss(e, b) \in C \cup {Nobody} => Boss(f, b) \in C \cup {Nobody}
  BY <1>2, <1>3 DEF Upward
<1>5. Upward(f, C)
  BY <1>2, <1>4 DEF Upward
<1>6. Boss(f, a) \in C \cup {Nobody}
  BY <1>2, <1>4
<1> QED
  BY <1>1, <1>2, <1>5, <1>6, ChainLeast

(* A new boss: those above it, and then those above the agents below.      *)
LEMMA NewBoss ==
    ASSUME NEW e \in [Agents -> AgentRows], NEW f \in [Agents -> AgentRows],
           \A x \in Agents : x \notin chain(e, x),
           NEW a \in Agents, NEW boss \in Agents, boss # a, a \notin chain(e, boss),
           Boss(f, a) = boss, \A b \in Agents \ {a} : Boss(f, b) = Boss(e, b),
           NEW x \in Agents
    PROVE  x \notin chain(f, x)
<1>1. PICK C : C = {boss} \cup chain(e, boss)
  OBVIOUS
<1>2. PICK X : X = chain(e, x)
  OBVIOUS
<1>3. /\ X \in SUBSET Agents /\ Upward(e, X) /\ Boss(e, x) \in X \cup {Nobody} /\ x \notin X
  BY <1>2, ChainUpward
<1>4. C \in SUBSET Agents /\ Upward(e, C) /\ a \notin C
  BY <1>1, ChainUpward DEF Upward
<1>5. Upward(f, C)
  BY <1>4 DEF Upward
<1>6. CASE x = a
  <2>1. chain(f, x) \subseteq C
    BY <1>1, <1>4, <1>5, <1>6, ChainLeast
  <2> QED
    BY <1>4, <1>6, <2>1
<1>7. CASE x \in C
  <2>1. Boss(e, x) \in C \cup {Nobody}
    BY <1>4, <1>7 DEF Upward
  <2>2. X \subseteq C
    BY <1>2, <1>4, <2>1, ChainLeast
  <2>3. Upward(f, X)
    BY <1>3, <1>4, <2>2 DEF Upward
  <2>4. Boss(f, x) \in X \cup {Nobody}
    BY <1>3, <1>4, <1>7
  <2>5. chain(f, x) \subseteq X
    BY <1>3, <2>3, <2>4, ChainLeast
  <2> QED
    BY <1>3, <2>5
<1>8. CASE x # a /\ x \notin C
  <2>1. PICK T : T = X \cup C
    OBVIOUS
  <2>2. T \in SUBSET Agents /\ boss \in T /\ x \notin T
    BY <1>1, <1>3, <1>4, <1>8, <2>1
  <2>3. Upward(f, T)
    BY <1>3, <1>4, <2>1, <2>2 DEF Upward
  <2>4. Boss(f, x) \in T \cup {Nobody}
    BY <1>3, <1>8, <2>1
  <2>5. chain(f, x) \subseteq T
    BY <2>2, <2>3, <2>4, ChainLeast
  <2> QED
    BY <2>2, <2>5
<1> QED
  BY <1>6, <1>7, <1>8

(* No agent, hired or not, is above itself. *)
Loopless(e) == \A a \in Agents : a \notin chain(e, a)

LEMMA ForestLoopless ==
    ASSUME db.agent \in [Agents -> AgentRows]
    PROVE  Forest <=> Loopless(db.agent)
<1>1. \A a \in Agents : a \in subtree(db.agent, a) <=> a \in chain(db.agent, a)
  BY DEF subtree
<1>2. \A a \in Agents : ~Hired(a) => a \notin chain(db.agent, a)
  <2> SUFFICES ASSUME NEW a \in Agents, ~Hired(a)
               PROVE  a \notin chain(db.agent, a)
    OBVIOUS
  <2>1. Boss(db.agent, a) = Nobody
    BY DEF Boss, Hired
  <2>2. Upward(db.agent, {}) /\ Boss(db.agent, a) \in {} \cup {Nobody} /\ {} \in SUBSET Agents
    BY <2>1 DEF Upward
  <2>3. chain(db.agent, a) \subseteq {}
    BY <2>2, ChainLeast
  <2> QED
    BY <2>3
<1> QED
  BY <1>1, <1>2 DEF Forest, Loopless

LEMMA LooplessAside ==
    ASSUME NEW e \in [Agents -> AgentRows], NEW f \in [Agents -> AgentRows], Loopless(e),
           \A b \in Agents : \/ Boss(f, b) = Boss(e, b) \/ Boss(f, b) = Nobody
                             \/ Boss(e, b) \in Agents /\ Boss(f, b) = Boss(e, Boss(e, b))
    PROVE  Loopless(f)
<1>1. \A a \in Agents : chain(f, a) \subseteq chain(e, a)
  BY StepsAside
<1> QED
  BY <1>1 DEF Loopless

LEMMA ForestSteps ==
    ASSUME IInv, IInv', [Next]_vars, RetiredStay, Loopless(db.agent)
    PROVE  Loopless(db'.agent)
<1>1. PICK e, f : e = db.agent /\ f = db'.agent
  OBVIOUS
<1>2. e \in [Agents -> AgentRows] /\ f \in [Agents -> AgentRows] /\ Sound(db)
  BY <1>1, TablesTyped DEF IInv, TypeOK
<1>3. \A b \in Agents : e[b].status = "terminated" => f[b].status = "terminated"
  BY <1>1 DEF RetiredStay, Hired
<1>4. Loopless(e)
  BY <1>1
<1>5. CASE SameBosses(db, db')
  <2>1. \A b \in Agents : Boss(f, b) = Boss(e, b) \/ Boss(f, b) = Nobody
    BY <1>1, <1>3, <1>5 DEF SameBosses, Boss
  <2> QED
    BY <1>1, <1>2, <1>4, <2>1, LooplessAside
<1>6. ASSUME NEW p \in People, NEW a \in Agents, terminate_agent(p, a)
      PROVE  Loopless(f)
  <2>1. \A b \in Agents :
          /\ \/ b = a /\ f[b].status = "terminated"
             \/ b # a /\ f[b].status = e[b].status
          /\ f[b].boss = e[b].boss \/ (e[b].boss = a /\ f[b].boss = e[a].boss)
    BY <1>1, <1>2, <1>6, TerminateHolds
  <2>2. e[a].status # "terminated"
    BY <1>1, <1>6 DEF terminate_agent, Hired
  <2>3. \A b \in Agents : \/ Boss(f, b) = Boss(e, b) \/ Boss(f, b) = Nobody
                          \/ Boss(e, b) \in Agents /\ Boss(f, b) = Boss(e, Boss(e, b))
    BY <1>3, <2>1, <2>2 DEF Boss
  <2> QED
    BY <1>2, <1>4, <2>3, LooplessAside
<1>7. ASSUME NEW p \in People, NEW a \in Agents, update_agent(p, a)
      PROVE  Loopless(f)
  <2>1. PICK boss \in Agents \cup {Nobody} :
          /\ check_links(a, boss) /\ f[a].boss = boss
          /\ \A b \in Agents \ {a} : f[b].boss = e[b].boss
    BY <1>1, <1>2, <1>7, UpdateAgentHolds
  <2>2. \A b \in Agents : f[b].status = e[b].status
    BY <1>1, <1>2, <1>7, UpdateAgentHolds
  <2>3. e[a].status # "terminated"
    BY <1>1, <1>7 DEF update_agent, Hired
  <2>4. Boss(f, a) = boss /\ \A b \in Agents \ {a} : Boss(f, b) = Boss(e, b)
    BY <2>1, <2>2, <2>3 DEF Boss
  <2>5. CASE boss = Nobody
    <3>1. \A b \in Agents : Boss(f, b) = Boss(e, b) \/ Boss(f, b) = Nobody
      BY <2>4, <2>5
    <3> QED
      BY <1>2, <1>4, <3>1, LooplessAside
  <2>6. CASE boss \in Agents
    <3>1. boss # a /\ a \notin chain(e, boss)
      BY <1>1, <2>1, <2>6, NocConstants DEF check_links, cycle
    <3> QED
      BY <1>2, <1>4, <2>4, <2>6, <3>1, NewBoss DEF Loopless
  <2> QED
    BY <2>5, <2>6
<1> QED
  BY <1>1, <1>5, <1>6, <1>7, Steps DEF Keeps, Reorganizes

(* The organization is a forest through every hire's change of boss and    *)
(* every retirement (agents.check_links, terminate_agent), so escalation   *)
(* ends (routing.py), as long as no agent that left is back.               *)
(* One that is back still names the boss it had, and check_links, which    *)
(* follows a boss no further than an agent that left, may have put that    *)
(* boss below it since.                                                    *)
THEOREM NocForest == Spec /\ [][RetiredStay]_vars => []Forest
<1>1. Init => IInv /\ Loopless(db.agent)
  <2> SUFFICES ASSUME Init
               PROVE  IInv /\ Loopless(db.agent)
    OBVIOUS
  <2>1. IInv /\ \A a \in Agents : db.agent[a].boss = Nobody
    BY InitSound
  <2>2. PICK e : e = db.agent
    OBVIOUS
  <2>3. \A a \in Agents : Boss(e, a) = Nobody
    BY <2>1, <2>2 DEF Boss
  <2>4. Upward(e, {}) /\ {} \in SUBSET Agents
    BY DEF Upward
  <2>5. \A a \in Agents : chain(e, a) \subseteq {}
    BY <2>3, <2>4, ChainLeast
  <2> QED
    BY <2>1, <2>2, <2>5 DEF Loopless
<1>2. IInv /\ Loopless(db.agent) /\ [Next]_vars /\ [RetiredStay]_vars => Loopless(db.agent)'
  <2> SUFFICES ASSUME IInv, Loopless(db.agent), [Next]_vars, [RetiredStay]_vars
               PROVE  Loopless(db'.agent)
    OBVIOUS
  <2>1. IInv'
    BY Steps
  <2>2. RetiredStay
    BY DEF vars, RetiredStay, Hired
  <2> QED
    BY <2>1, <2>2, ForestSteps
<1>3. IInv /\ Loopless(db.agent) => Forest
  BY TablesTyped, ForestLoopless DEF IInv, TypeOK
<1> QED
  BY <1>1, <1>2, <1>3, NocSound, PTL DEF Spec
=============================================================================
