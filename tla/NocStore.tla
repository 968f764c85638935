----------------------------- MODULE NocStore -----------------------------
(***************************************************************************)
(* The tables of the NOC (store/noc_*.py) and the methods that write them: *)
(* a case per situation, its cycles in the queue, its alarms as last heard *)
(* and as they are, the agents and their runs, and the playbook runs.  The *)
(* tables are one record, db; a method takes it and gives it back changed, *)
(* and a transaction of Noc.tla is a chain of methods.                     *)
(*                                                                         *)
(* A clock is abstracted to whether it has run out.  Texts, tiers, the     *)
(* documentation clock (documented_at), the audit trail and the feed's     *)
(* posts are left out; the eleven pending statuses are two, the one that   *)
(* waits for access to a device and the others.                            *)
(***************************************************************************)
EXTENDS Naturals, Sequences, SequencesExt, FiniteSets

CONSTANTS
    Cases,      \* situations, each with the case it opens
    Alarms,     \* the alarms that may join a situation
    Critical,   \* those of a critical class
    People,     \* the accounts that work cases
    Admins,     \* those of them that manage any case
    Agents,     \* the agents of the NOC
    Entry,      \* those that take cases from the queue
    Bosses,     \* those that others may report to
    Priorities, \* those a case may be opened or marked with
    Nobody,     \* no owner, no agent, no boss
    MaxRaised,  \* bound: times an alarm is raised
    MaxRuns     \* bound: agent runs that are live or that a task still holds

ASSUME NocConstants ==
    /\ IsFiniteSet(Cases) /\ IsFiniteSet(Agents)
    /\ Critical \subseteq Alarms /\ Admins \subseteq People
    /\ Entry \subseteq Agents /\ Bosses \subseteq Agents
    /\ Nobody \notin People \cup Agents /\ People \cap Agents = {}
    /\ Priorities \subseteq {"minor", "critical"}
    /\ MaxRaised \in Nat /\ MaxRuns \in Nat

Actors == People \cup Agents
RunIds == 1 .. MaxRuns

PENDING == {"pending_device_access", "pending_customer"}
UNOWNED == {"new", "auto", "queue"}
LIVE == UNOWNED \cup PENDING \cup {"working", "validate"}
STATUSES == LIVE \cup {"resolved", "closed"}
WORKING == {"idle", "running", "error"}
RUN_STATUSES == {"queued", "running", "succeeded", "failed", "timed_out", "cancelled"}

(* next: the next update ("due" once it has come).  late: the time since   *)
(* assigned_at is past the agent's limit.  own: priority_by is set.        *)
NoCase == [status |-> "none", owner |-> Nobody, prio |-> "minor", own |-> FALSE,
           next |-> "none", agent |-> Nobody, late |-> FALSE, people |-> FALSE]

CaseRows == [status : STATUSES \cup {"none"}, owner : Actors \cup {Nobody},
             prio : {"minor", "critical"}, own : BOOLEAN,
             next : {"none", "later", "due"}, agent : Agents \cup {Nobody},
             late : BOOLEAN, people : BOOLEAN]

(* The rows of noc_case_cycle that are not over.  One that is withdrawn,   *)
(* or taken and left, is never selected again and is dropped here.         *)
CycleRows == [prio : {"minor", "critical"}, taken : BOOLEAN]

Silent == [a \in Alarms |-> [on |-> FALSE, raised |-> 0]]

(* An agent row's wakes: it is woken when given a case (wake_on_assignment *)
(* and an adapter other than external).  A run id with no row is free.     *)
RunRows == [agent : Agents \cup {Nobody}, status : RUN_STATUSES \cup {"none"}, late : BOOLEAN]
NoRun == [agent |-> Nobody, status |-> "none", late |-> FALSE]

AlarmRows == [on : BOOLEAN, raised : 0 .. MaxRaised]
HeardRows == [on : BOOLEAN, raised : 0 .. MaxRaised, just : BOOLEAN]
AgentRows == [status : WORKING \cup {"paused", "terminated"}, boss : Agents \cup {Nobody},
              wakes : BOOLEAN]

(* heard: the alarms of a case the NOC has written down.                   *)
Heard == UNION {[known -> HeardRows] : known \in SUBSET Alarms}
Unheard == [a \in {} |-> [on |-> FALSE, raised |-> 0, just |-> FALSE]]

Tables == [case : [Cases -> CaseRows], cycle : [Cases -> Seq(CycleRows)],
           sit : [Cases -> {"none", "open", "cleared", "merged"}],
           alarm : [Cases -> [Alarms -> AlarmRows]],
           heard : [Cases -> Heard],
           agent : [Agents -> AgentRows], run : [RunIds -> RunRows],
           playbook : [Cases -> BOOLEAN]]

-----------------------------------------------------------------------------
(* Cases: store/noc_cases.py *)

(* The trigger on a situation that becomes open. *)
noc_case_open(db, s, prio) ==
    [db EXCEPT !.sit[s] = "open", !.case[s] = [NoCase EXCEPT !.status = "new", !.prio = prio]]

noc_cases_in(db, status) == {s \in Cases : db.case[s].status = status}

cases_due_customer(db) ==
    {s \in Cases : db.case[s].status = "pending_customer" /\ db.case[s].next = "due"}

noc_cases_due(db) == {s \in Cases : db.case[s].status \in PENDING /\ db.case[s].next = "due"}

noc_cases_orphaned(db) ==
    {s \in Cases : /\ db.sit[s] \in {"cleared", "merged"}
                   /\ db.case[s].status \notin {"resolved", "closed", "validate"}}

IsOpen(cycle) == ~cycle.taken

(* The open, untaken cycle's take target follows the case. *)
cycle_priority(db, s, prio) ==
    [db EXCEPT !.cycle[s] = [i \in DOMAIN @ |-> IF IsOpen(@[i]) THEN [@[i] EXCEPT !.prio = prio]
                                                                ELSE @[i]]]

(* fields: a record with next and prio, "same" for one not given. *)
noc_case_set_fields(db, s, fields) ==
    LET old == db.case[s]
        new == [old EXCEPT
                  !.next = IF fields.next = "same" THEN @ ELSE fields.next,
                  !.prio = IF fields.prio = "same" THEN @ ELSE fields.prio,
                  !.own = @ \/ fields.prio # "same"]
    IN  cycle_priority([db EXCEPT !.case[s] = new], s, new.prio)

raise_priority_alone(db, s, prio) == [db EXCEPT !.case[s].prio = prio]

noc_case_raise_priority(db, s, prio) ==
    cycle_priority([db EXCEPT !.case[s].prio = prio], s, prio)

(* owner: who takes it, or Nobody to leave the owner as it is. *)
noc_case_move(db, s, status, owner) ==
    [db EXCEPT !.case[s].status = status,
               !.case[s].owner = IF owner = Nobody THEN @ ELSE owner]

NewCycle(prio) == [prio |-> prio, taken |-> FALSE]

noc_case_enqueue(db, s) ==
    [db EXCEPT !.case[s].status = "queue", !.case[s].owner = Nobody,
               !.cycle[s] = Append(@, NewCycle(db.case[s].prio))]

(* The latest cycle that is taken, or is not, of those not over; or 0. *)
latest_cycle(db, s, taken) ==
    SelectLastInSeq(db.cycle[s], LAMBDA c : c.taken = taken)

Over(db, s, i) == IF i = 0 THEN db ELSE [db EXCEPT !.cycle[s] = RemoveAt(@, i)]

noc_cycle_taken(db, s) ==
    LET i == latest_cycle(db, s, FALSE)
    IN  IF i = 0 THEN db ELSE [db EXCEPT !.cycle[s][i].taken = TRUE]

noc_cycle_left(db, s) == Over(db, s, latest_cycle(db, s, TRUE))

noc_cycle_withdrawn(db, s) == Over(db, s, latest_cycle(db, s, FALSE))

noc_case_resolve(db, s) == [db EXCEPT !.case[s].status = "resolved"]

noc_case_members_active(db, s) == {a \in Alarms : db.alarm[s][a].on}

(* store/noc_priority.py: the worst of the active members, or of all when  *)
(* none is active.                                                         *)
noc_case_severity(db, s) ==
    LET members == {a \in Alarms : db.alarm[s][a].raised > 0}
        live == IF noc_case_members_active(db, s) # {} THEN noc_case_members_active(db, s)
                                                       ELSE members
    IN  IF live \cap Critical # {} THEN "critical" ELSE "minor"

noc_cases_auto_priority(db) ==
    {s \in Cases : /\ ~db.case[s].own /\ db.case[s].prio # "critical"
                   /\ db.case[s].status \notin {"none", "resolved", "closed"}}

-----------------------------------------------------------------------------
(* What the NOC has heard of a case's alarms: store/noc_hearing.py *)

Deaf == {"none", "new", "auto", "resolved", "closed"}

noc_case_alarm_states(db, s) ==
    IF db.case[s].status \in Deaf THEN {} ELSE {a \in Alarms : db.alarm[s][a].raised > 0}

noc_case_hear(db, s, moved) ==
    [db EXCEPT !.heard[s] = [a \in DOMAIN @ \cup DOMAIN moved |->
                               IF a \in DOMAIN moved THEN moved[a] ELSE @[a]]]

-----------------------------------------------------------------------------
(* Agents and their runs: store/noc_agents.py, store/noc_routing.py *)

noc_set_agent_status(db, a, status) == [db EXCEPT !.agent[a].status = status]

noc_case_assign(db, s, agent, people) ==
    [db EXCEPT !.case[s].agent = agent, !.case[s].late = FALSE, !.case[s].people = people]

noc_cases_unrouted(db) ==
    {s \in Cases : db.case[s].status = "queue" /\ db.case[s].agent = Nobody
                                               /\ ~db.case[s].people}

noc_cases_routed(db) ==
    {s \in Cases : /\ db.case[s].agent # Nobody
                   /\ db.case[s].status \in {"new", "auto", "queue", "working"}}

noc_cases_awaiting(db, waiting) == {s \in Cases : db.case[s].status \in waiting}

noc_agent_loads(db, a) ==
    Cardinality({s \in Cases : /\ db.case[s].agent = a
                               /\ db.case[s].status \notin {"resolved", "closed"}})

RunsOf(db, a, status) == {r \in RunIds : db.run[r].agent = a /\ db.run[r].status = status}

FreeRuns(db) == {r \in RunIds : db.run[r] = NoRun}
FreeRun(db) == CHOOSE r \in RunIds : r \in FreeRuns(db)

(* Every new agent has a row of its own, or there is no row left.          *)
Seats(free, new) ==
    CHOOSE seat \in [free -> new \cup {Nobody}] :
        /\ \A q, r \in free : seat[q] = seat[r] => q = r \/ seat[q] = Nobody
        /\ (\A a \in new : \E r \in free : seat[r] = a) \/ \A r \in free : seat[r] # Nobody

(* The agents a transaction wakes.  One queued run per agent at most: a    *)
(* second wake-up joins the first.  At the bound MaxRuns a wake-up is      *)
(* lost.                                                                   *)
noc_wakes(db, woken) ==
    LET new == {a \in woken : RunsOf(db, a, "queued") = {}}
        free == FreeRuns(db)
        seat == Seats(free, new)
    IN  [db EXCEPT !.run = [r \in RunIds |->
           IF r \in free /\ seat[r] \in new THEN [agent |-> seat[r], status |-> "queued", late |-> FALSE]
           ELSE @[r]]]

noc_wake(db, a) == noc_wakes(db, {a})

Starts(db, a) ==
    [db EXCEPT !.agent[a].status = IF @ \in {"idle", "error"} THEN "running" ELSE @]

noc_agent_run_external(db, a) ==
    Starts([db EXCEPT !.run[FreeRun(db)] = [agent |-> a, status |-> "running", late |-> FALSE]],
           a)

noc_agent_runs_ready(db) ==
    {r \in RunIds : /\ db.run[r].status = "queued"
                    /\ db.agent[db.run[r].agent].status \in {"idle", "error"}
                    /\ RunsOf(db, db.run[r].agent, "running") = {}}

noc_agent_run_start(db, r) ==
    Starts([db EXCEPT !.run[r].status = "running"], db.run[r].agent)

(* FALSE in the code when the run had already ended: no change here. *)
noc_agent_run_finish_keeps(db, r, status) ==
    IF db.run[r].status \notin {"queued", "running"} THEN db
    ELSE [db EXCEPT !.run[r].status = status]

noc_agent_runs_finish(db, runs, status) ==
    LET ending == {r \in runs : db.run[r].status \in {"queued", "running"}}
        theirs == {db.run[r].agent : r \in ending}
    IN  [db EXCEPT
           !.run = [r \in RunIds |-> IF r \in ending THEN [@[r] EXCEPT !.status = status] ELSE @[r]],
           !.agent = [a \in Agents |-> IF a \in theirs /\ @[a].status = "running"
                                      THEN [@[a] EXCEPT !.status = "idle"] ELSE @[a]]]

noc_agent_run_finish(db, r, status) == noc_agent_runs_finish(db, {r}, status)

noc_agent_runs_overdue(db) ==
    {r \in RunIds : db.run[r].status = "running" /\ db.run[r].late}

-----------------------------------------------------------------------------
(* A transaction that works on several cases.  What it does to a case is   *)
(* of no matter to another: they meet in the queue of runs only, where the *)
(* wake-ups of one agent join.  after: what it does to each of them.       *)
Together(db, after) ==
    LET worked == DOMAIN after
        woken == {a \in Agents : \E s \in worked : RunsOf(after[s], a, "queued") # {}}
    IN  noc_wakes([db EXCEPT
                     !.case = [s \in Cases |-> IF s \in worked THEN after[s].case[s] ELSE @[s]],
                     !.cycle = [s \in Cases |-> IF s \in worked THEN after[s].cycle[s] ELSE @[s]],
                     !.heard = [s \in Cases |-> IF s \in worked THEN after[s].heard[s] ELSE @[s]]],
                  woken)

-----------------------------------------------------------------------------
(* Playbook runs: store/noc_playbooks.py *)

noc_run_start(db, s) == [db EXCEPT !.playbook[s] = TRUE]
noc_run_end(db, s) == [db EXCEPT !.playbook[s] = FALSE]

noc_runs_abandoned(db) == {s \in Cases : db.playbook[s] /\ db.case[s].status = "auto"}

=============================================================================
