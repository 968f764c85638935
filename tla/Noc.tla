-------------------------------- MODULE Noc --------------------------------
(***************************************************************************)
(* The NOC at work.  A case is opened with its situation and goes through  *)
(* the automated checks, the queue, a person or an agent, a wait, and its  *)
(* end.  Its writers: the routes that people and agents call, the case     *)
(* loop, the agent loop, the tasks that loop starts, and the playbook      *)
(* runner.  Each transaction holds store.lock and is one step.  A loop     *)
(* reads what there is to do BEFORE it takes the lock, so its look and its *)
(* act are two steps, and what it saw may be stale when it acts.  A crash  *)
(* loses what the loops and the tasks hold; the tables stay.               *)
(*                                                                         *)
(* Abstracted: who may see a case (scope), what a run says and costs (its  *)
(* outcome and whether the budget is spent are choices), which playbook    *)
(* matches and what it concludes (choices), and the versions: a request    *)
(* made against an old one is refused, which is no step.                   *)
(***************************************************************************)
EXTENDS NocStore

CONSTANT MaxCrashes  \* bound: crashes in one behaviour

ASSUME CrashBound == MaxCrashes \in Nat

VARIABLES
    db,       \* the tables: see NocStore
    seen,     \* what the case loop read and has not acted on, Nothing if it reads next
    looked,   \* the same of the agent loop's tick
    ready,    \* the queued runs start_ready read and has not started yet
    task,     \* the runs a task of this process is working on, with its kind
    walk,     \* the cases a playbook is being walked for
    booted,   \* the playbook loop has seen to what a restart interrupted
    crashes   \* history: crashes so far

vars == <<db, seen, looked, ready, task, walk, booted, crashes>>
memory == <<seen, looked, ready, task, walk, booted, crashes>>

Nothing == [none |-> TRUE]

TypeOK ==
    /\ db \in Tables
    /\ ready \subseteq RunIds /\ task \subseteq RunIds \X {"webhook", "in process"} /\ walk \subseteq Cases
    /\ booted \in BOOLEAN /\ crashes \in 0 .. MaxCrashes

(* Left out as history: an ended run that no task or list refers to, and   *)
(* of a finished case what no rule reads any more.                         *)
Forget(d, held) ==
    LET over(s) == d.case[s].status \in {"resolved", "closed"}
    IN  [d EXCEPT
           !.run = [r \in RunIds |-> IF r \notin held /\ @[r].status \notin {"queued", "running"}
                                     THEN NoRun ELSE @[r]],
           !.case = [s \in Cases |-> IF over(s) THEN [NoCase EXCEPT !.status = d.case[s].status]
                                                ELSE @[s]],
           !.heard = [s \in Cases |-> IF over(s) THEN Unheard ELSE @[s]],
           !.alarm = [s \in Cases |-> IF over(s) THEN Silent ELSE @[s]]]

Held(tasks) == {t[1] : t \in tasks}

(* The runs that start_ready, a task or the agent loop's tick holds.       *)
InUse(starting, tasks) ==
    starting \cup Held(tasks) \cup (IF looked = Nothing THEN {} ELSE looked.overdue)

Commit(d) == db' = Forget(d, InUse(ready, task))

-----------------------------------------------------------------------------
(* Rules: engine/noc/cases.py *)

priority_of(severity) == IF severity = "critical" THEN "critical" ELSE "minor"

(* Whether a case's texts are complete is not kept: a request that lacks   *)
(* one is refused, which is no step.  A wait also needs a next update that *)
(* is still ahead.                                                         *)
missing_none(c, to) == to \in PENDING => c.next = "later"

From(act) ==
    CASE act = "take" -> UNOWNED \cup PENDING \cup {"working", "validate"}
      [] act = "release" -> {"working", "validate"}
      [] act = "pend" -> {"working"} \cup PENDING
      [] act = "resolve" -> {"working", "validate"} \cup PENDING
      [] act = "auto_resolve" -> UNOWNED
      [] act = "auto_pend" -> {"auto"}

transition(act, status) == status \in From(act)

-----------------------------------------------------------------------------
(* Operations on a case: engine/noc/case_ops.py *)

owns(c, actor) == actor \in Admins \/ c.owner = actor

reprioritize(d, s) ==
    LET derived == priority_of(noc_case_severity(d, s))
    IN  IF d.case[s].own \/ d.case[s].prio = "critical" \/ derived = "minor" THEN d
        ELSE noc_case_raise_priority(d, s, derived)

take(d, s, actor) ==
    LET status == d.case[s].status
        queued == IF status \in {"new", "auto"} THEN noc_case_enqueue(reprioritize(d, s), s) ELSE d
        moved == noc_case_move(queued, s, "working", actor)
    IN  IF status \in UNOWNED THEN noc_cycle_taken(moved, s) ELSE moved

release(d, s) == noc_case_enqueue(noc_cycle_left(d, s), s)

update(d, s, fields) == noc_case_set_fields(d, s, fields)

pend(d, s, to) ==
    LET left == IF d.case[s].status = "working"
                THEN noc_cycle_left(d, s) ELSE d
    IN  noc_case_move(left, s, to, Nobody)

resolve(d, s) ==
    LET left == IF d.case[s].status = "working"
                THEN noc_cycle_left(d, s) ELSE d
    IN  noc_case_resolve(noc_cycle_withdrawn(left, s), s)

(* The agent the case was routed to works it again, if it can. *)
back_to_agent(d, s) ==
    LET a == d.case[s].agent
    IN  IF a = Nobody \/ d.case[s].people THEN d
        ELSE IF d.agent[a].status \notin WORKING THEN d
        ELSE LET given == noc_case_assign(d, s, a, FALSE)
             IN  IF d.agent[a].wakes THEN noc_wake(given, a) ELSE given

requeue(d, s) == back_to_agent(noc_case_enqueue(reprioritize(d, s), s), s)

dispatch(d, s, automate) ==
    LET risen == reprioritize(d, s)
    IN  IF automate THEN noc_case_move(risen, s, "auto", Nobody) ELSE noc_case_enqueue(risen, s)

auto_pend(d, s, to, complete) ==
    IF ~complete THEN requeue(d, s)
    ELSE noc_case_move(noc_case_set_fields(d, s, [next |-> "later", prio |-> "same"]), s, to, Nobody)

validate(d, s) == noc_case_move(noc_cycle_left(d, s), s, "validate", Nobody)

auto_resolve(d, s) == noc_case_resolve(noc_cycle_left(noc_cycle_withdrawn(d, s), s), s)

close(d, s) == noc_case_move(d, s, "closed", Nobody)

-----------------------------------------------------------------------------
(* What changed among a case's alarms: engine/noc/hearing.py *)

(* The first look at a case writes its alarms down and says nothing.  An   *)
(* alarm just told is quiet for a while, unless it is back while the case  *)
(* waits.                                                                  *)
news(d, s) ==
    LET is == d.alarm[s]
        was == d.heard[s]
        members == noc_case_alarm_states(d, s)
        unheard == members \ DOMAIN was
        back(a) == ~was[a].on /\ is[a].raised > was[a].raised
        quiet(a) == was[a].just /\ ~(back(a) /\ d.case[s].status \in PENDING)
        changed == {a \in members \cap DOMAIN was :
                       /\ was[a].on # is[a].on \/ was[a].raised # is[a].raised
                       /\ ~quiet(a)}
        joined == {a \in unheard : is[a].on}
        raised == {a \in changed : back(a)}
        cleared == {a \in changed : ~back(a) /\ was[a].on /\ ~is[a].on}
        first == DOMAIN was = {}
        told(a) == \/ ~first /\ a \in joined \cup raised \cup cleared
                   \/ a \notin unheard /\ was[a].just
    IN  [worse |-> ~first /\ joined \cup raised # {},
         moved |-> [a \in unheard \cup changed |-> [on |-> is[a].on, raised |-> is[a].raised,
                                                    just |-> told(a)]]]

apply(d, s, found) ==
    LET heard == noc_case_hear(d, s, found.moved)
    IN  IF d.case[s].status \in Deaf THEN d
        ELSE IF found.worse /\ d.case[s].status \in PENDING THEN requeue(heard, s) ELSE heard

-----------------------------------------------------------------------------
(* The case loop: engine/noc/case_loop.py *)

(* Reading, without the lock.  A case is a day old when the model says so; *)
(* whole: a pass that also looks at the alarms, one in REPRIORITIZE_EVERY. *)
TickRead(whole) ==
    /\ seen = Nothing
    /\ \E stale \in SUBSET noc_cases_in(db, "resolved") :
         seen' = [fresh |-> noc_cases_in(db, "new"), due |-> noc_cases_due(db),
                  orphaned |-> [s \in noc_cases_orphaned(db) |-> db.sit[s]], stale |-> stale,
                  rising |-> IF whole THEN noc_cases_auto_priority(db) \ noc_cases_in(db, "new")
                                      ELSE {},
                  news |-> [s \in {t \in Cases : whole /\ DOMAIN news(db, t).moved # {}} |->
                              news(db, s)]]
    /\ UNCHANGED <<db, looked, ready, task, walk, booted, crashes>>

Orphan(d, s, how) ==
    IF d.case[s].status \in {"resolved", "closed", "validate"} THEN d
    ELSE IF how = "merged" \/ d.case[s].status \in UNOWNED THEN auto_resolve(d, s)
    ELSE validate(d, s)

(* One case through the pass, in the pass's order; auto: a playbook        *)
(* matches it.  Every list is read again but the orphans' resolution.      *)
TickCase(d, s, auto) ==
    LET d1 == IF s \in seen.rising THEN reprioritize(d, s) ELSE d
        d2 == IF s \in DOMAIN seen.news THEN apply(d1, s, seen.news[s]) ELSE d1
        d3 == IF s \in seen.fresh /\ d2.case[s].status = "new" THEN dispatch(d2, s, auto) ELSE d2
        d4 == IF s \in seen.due /\ s \in noc_cases_due(d3) THEN requeue(d3, s) ELSE d3
        d5 == IF s \in DOMAIN seen.orphaned THEN Orphan(d4, s, seen.orphaned[s]) ELSE d4
    IN  IF s \in seen.stale /\ d5.case[s].status = "resolved" THEN close(d5, s) ELSE d5

TickAct ==
    /\ seen # Nothing
    /\ \E matched \in SUBSET seen.fresh :
         Commit(Together(db, [s \in Cases |-> TickCase(db, s, s \in matched)]))
    /\ seen' = Nothing
    /\ UNCHANGED <<looked, ready, task, walk, booted, crashes>>

-----------------------------------------------------------------------------
(* The routes on a case: api/routes/cases.py, case_feed.py, noc_access.py *)

(* An agent's key works until the agent is terminated. *)
May(actor) == actor \in Agents => db.agent[actor].status # "terminated"

take_case(actor, s) ==
    /\ May(actor) /\ transition("take", db.case[s].status)
    /\ ~(db.case[s].owner = actor /\ db.case[s].status = "working")
    /\ Commit(take(db, s, actor)) /\ UNCHANGED memory

release_case(actor, s) ==
    /\ May(actor) /\ owns(db.case[s], actor) /\ transition("release", db.case[s].status)
    /\ Commit(release(db, s)) /\ UNCHANGED memory

Fields == [next : {"same", "later"}, prio : {"same"} \cup Priorities]

update_case(actor, s) ==
    /\ May(actor) /\ db.case[s].status \in LIVE
    /\ \E fields \in Fields : Commit(update(db, s, fields))
    /\ UNCHANGED memory

(* The next update is the one given, the one still ahead, or the one due   *)
(* by the customer's cadence: ahead in every case.                         *)
set_status(actor, s) ==
    /\ May(actor) /\ owns(db.case[s], actor) /\ transition("pend", db.case[s].status)
    /\ \E to \in PENDING :
         LET ahead == update(db, s, [next |-> "later", prio |-> "same"])
         IN  missing_none(ahead.case[s], to) /\ Commit(pend(ahead, s, to))
    /\ UNCHANGED memory

(* api/case_close.py: the situation is closed with its case, its alarms    *)
(* cleared first when the solver has seen them clear.                      *)
close_for_case(d, s, clear) ==
    [d EXCEPT !.sit[s] = IF @ = "open" THEN "cleared" ELSE @,
              !.alarm[s] = IF clear THEN [a \in Alarms |-> [@[a] EXCEPT !.on = FALSE]] ELSE @]

resolve_case(actor, s) ==
    /\ May(actor) /\ owns(db.case[s], actor) /\ transition("resolve", db.case[s].status)
    /\ missing_none(db.case[s], "resolved")
    /\ \E clear \in BOOLEAN : Commit(close_for_case(resolve(db, s), s, clear))
    /\ UNCHANGED memory

requeues(c, actor) == actor \in People /\ c.status \in PENDING /\ actor # c.owner

(* A post changes the tables of this module only when it requeues. *)
post_to_case(actor, s) ==
    /\ requeues(db.case[s], actor)
    /\ Commit(requeue(db, s)) /\ UNCHANGED memory

(* engine/noc/access.py: the agents may now use a credential for a device. *)
granted ==
    /\ noc_cases_awaiting(db, {"pending_device_access"}) # {}
    /\ Commit(Together(db, [s \in noc_cases_awaiting(db, {"pending_device_access"}) |-> requeue(db, s)]))
    /\ UNCHANGED memory

-----------------------------------------------------------------------------
(* The playbook runner: engine/noc/runbook.py *)

(* First the runs a restart interrupted. *)
RunLoopStart ==
    /\ ~booted
    /\ LET ended == [db EXCEPT !.playbook = [s \in Cases |-> FALSE]]
       IN  Commit(Together(ended, [s \in noc_runs_abandoned(db) |-> requeue(ended, s)]))
    /\ booted' = TRUE
    /\ UNCHANGED <<seen, looked, ready, task, walk, crashes>>

(* A task starts for each case in automated checks.  No playbook may match *)
(* it any more.                                                            *)
run_case(s) ==
    /\ booted /\ s \notin walk /\ db.case[s].status = "auto"
    /\ \/ Commit(noc_run_start(db, s)) /\ walk' = walk \cup {s}
       \/ Commit(requeue(db, s)) /\ UNCHANGED walk
    /\ UNCHANGED <<seen, looked, ready, task, booted, crashes>>

(* The walk ends in a conclusion, applied only if the case is still in     *)
(* automated checks; one that cannot be applied goes to the queue.         *)
finish(s) ==
    /\ s \in walk
    /\ IF db.case[s].status # "auto" THEN Commit(noc_run_end(db, s))
       ELSE \/ \E clear \in BOOLEAN :
                  Commit(noc_run_end(close_for_case(resolve(db, s), s, clear), s))
            \/ \E to \in PENDING, complete \in BOOLEAN :
                  Commit(noc_run_end(auto_pend(db, s, to, complete), s))
            \/ Commit(noc_run_end(requeue(db, s), s))
    /\ walk' = walk \ {s}
    /\ UNCHANGED <<seen, looked, ready, task, booted, crashes>>

-----------------------------------------------------------------------------
(* The organization of the agents: engine/noc/agents.py, routing.py *)

(* Whom an agent reports to.  One that left is not in everyone.            *)
Boss(everyone, a) == IF everyone[a].status = "terminated" THEN Nobody ELSE everyone[a].boss

(* The agents above one, up to the top: the least set with its boss in it, *)
(* and with each the boss of that.                                         *)
Upward(everyone, S) == \A b \in S : Boss(everyone, b) \in S \cup {Nobody}

chain(everyone, a) ==
    {b \in Agents : \A S \in SUBSET Agents :
        Upward(everyone, S) /\ Boss(everyone, a) \in S \cup {Nobody} => b \in S}

subtree(everyone, a) == {b \in Agents : a \in chain(everyone, b)}

cycle(everyone, a, boss) ==
    \/ boss = a \/ a \in chain(everyone, boss)
    \/ \E b \in {boss} \cup chain(everyone, boss) : b \in chain(everyone, b)

Entries(everyone) == {a \in Entry : everyone[a].status \in WORKING}

(* Each of the cases goes to the entry agent with the fewest, those it was *)
(* just given among them: no agent is given one more than it would have    *)
(* with every other still having as many.  Today's loads stand for those   *)
(* that were read with the organization.                                   *)
pick_entry(d, given, everyone) ==
    LET more(to, a) == noc_agent_loads(d, a) + Cardinality({s \in given : to[s] = a})
    IN  {to \in [given -> Entries(everyone)] :
           \A s \in given, b \in Entries(everyone) : more(to, to[s]) <= more(to, b) + 1}

(* agent is a row read earlier: everyone's. *)
CanAssign(d, s, a, everyone) ==
    d.case[s].status \notin {"resolved", "closed"} /\ everyone[a].status \in WORKING

assign(d, s, a) ==
    LET given == noc_case_assign(d, s, a, FALSE)
    IN  IF d.agent[a].wakes THEN noc_wake(given, a) ELSE given

with_people(d, s) ==
    LET c == d.case[s]
        left == IF c.status = "working" /\ c.owner \in Agents
                THEN noc_case_enqueue(noc_cycle_left(d, s), s) ELSE d
    IN  noc_case_assign(left, s, Nobody, TRUE)

(* The first above the agent that is working: the others are above it.     *)
Nearest(everyone, from) ==
    LET able == {b \in chain(everyone, from) : everyone[b].status \in WORKING}
    IN  {b \in able : able \ {b} \subseteq chain(everyone, b)}

escalate_to_bosses(d, s, from, everyone) ==
    IF from = Nobody \/ Nearest(everyone, from) = {} THEN d
    ELSE assign(d, s, CHOOSE b \in Nearest(everyone, from) : TRUE)

(* To the first boss above the agent that is working, else to the people.  *)
escalate(d, s, from, everyone) ==
    IF from = Nobody \/ Nearest(everyone, from) = {} THEN with_people(d, s)
    ELSE assign(d, s, CHOOSE b \in Nearest(everyone, from) : TRUE)

-----------------------------------------------------------------------------
(* The agent loop: engine/noc/agent_loop.py *)

(* A case a person owns is theirs and does not climb. *)
climb_reason(d, s) ==
    /\ d.case[s].owner \notin People
    /\ \/ d.agent[d.case[s].agent].status \in {"terminated", "paused"}
       \/ d.case[s].late

(* Reading, without the lock.  A heartbeat is due when the model says so.  *)
AgentTickRead ==
    /\ looked = Nothing /\ ready = {}
    /\ \E due \in SUBSET {a \in Agents : db.agent[a].wakes /\ db.agent[a].status = "idle"} :
         LET climbing == {s \in noc_cases_routed(db) : climb_reason(db, s)}
             unrouted == IF Entries(db.agent) = {} THEN {} ELSE noc_cases_unrouted(db)
         IN  /\ climbing \cup unrouted \cup due \cup noc_agent_runs_overdue(db) # {}
             /\ looked' = [unrouted |-> unrouted, due |-> due,
                           climbing |-> [s \in climbing |-> db.case[s].agent],
                           overdue |-> noc_agent_runs_overdue(db),
                           everyone |-> IF climbing \cup unrouted = {} THEN <<>> ELSE db.agent]
    /\ UNCHANGED <<db, seen, ready, task, walk, booted, crashes>>

(* The cases that still have to be routed.                                 *)
Route == IF Entries(looked.everyone) = {} THEN {}
         ELSE {s \in looked.unrouted : db.case[s].status = "queue" /\ db.case[s].agent = Nobody}

Climb(d, s) ==
    IF \/ s \notin DOMAIN looked.climbing
       \/ d.case[s].agent # looked.climbing[s] \/ d.case[s].people THEN d
    ELSE escalate(d, s, looked.climbing[s], looked.everyone)

AgentTickAct ==
    /\ looked # Nothing
    /\ LET given == IF looked.unrouted = {} THEN {} ELSE Route
       IN  \E to \in IF given = {} THEN {<<>>} ELSE pick_entry(db, given, looked.everyone) :
             LET routed(s) == IF s \in given THEN assign(db, s, to[s]) ELSE db
                 climbed == Together(db, [s \in Cases |-> Climb(routed(s), s)])
             IN  Commit(noc_agent_runs_finish(noc_wakes(climbed, looked.due), looked.overdue,
                                              "timed_out"))
    /\ looked' = Nothing
    /\ UNCHANGED <<seen, ready, task, walk, booted, crashes>>

(* start_ready reads the runs that may start, then starts them one by one. *)
(* The appliance runs the agent itself or wakes it over its webhook, as    *)
(* the adapter it has now says; an in-process one may not be installed.    *)
StartRead ==
    /\ ready = {} /\ looked = Nothing
    /\ ready' = noc_agent_runs_ready(db) \ Held(task) /\ ready' # {}
    /\ UNCHANGED <<db, seen, looked, task, walk, booted, crashes>>

start_ready(r) ==
    /\ r \in ready /\ ready' = ready \ {r}
    /\ \/ /\ \E kind \in {"webhook", "in process"} : task' = task \cup {<<r, kind>>}
          /\ db' = Forget(noc_agent_run_start(db, r), InUse(ready', task'))
       \/ /\ UNCHANGED task
          /\ db' = Forget(noc_agent_run_finish(db, r, "failed"), InUse(ready', task))
    /\ UNCHANGED <<seen, looked, walk, booted, crashes>>

(* The wake-up was delivered, and the agent reports its run itself; or it  *)
(* was not, and the run failed.                                            *)
wake_webhook(r) ==
    /\ <<r, "webhook">> \in task /\ task' = task \ {<<r, "webhook">>}
    /\ \/ db' = Forget(db, InUse(ready, task'))
       \/ db' = Forget(noc_set_agent_status(noc_agent_run_finish(db, r, "failed"),
                                            db.run[r].agent, "error"), InUse(ready, task'))
    /\ UNCHANGED <<seen, looked, ready, walk, booted, crashes>>

(* The run ended by itself, whatever the tables say of it by now.  A spent *)
(* budget pauses the agent.                                                *)
run_in_process(r) ==
    /\ <<r, "in process">> \in task /\ task' = task \ {<<r, "in process">>}
    /\ \E outcome \in {"succeeded", "failed", "timed_out"}, spent \in BOOLEAN :
         LET done == noc_agent_run_finish(db, r, outcome)
         IN  db' = Forget(IF spent THEN noc_set_agent_status(done, db.run[r].agent, "paused")
                                   ELSE done, InUse(ready, task'))
    /\ UNCHANGED <<seen, looked, ready, walk, booted, crashes>>

-----------------------------------------------------------------------------
(* The routes on agents: api/routes/agents.py, case_agents.py, mcp.py *)

(* An agent acts only on those below it; a person on any. *)
may_run(actor, a) == May(actor) /\ (actor \in Agents => a \in subtree(db.agent, actor))

Hired(a) == db.agent[a].status # "terminated"

invoke_agent(actor, a) ==
    /\ may_run(actor, a) /\ Hired(a) /\ db.agent[a].wakes
    /\ db.agent[a].status # "paused"
    /\ Commit(noc_wake(db, a)) /\ UNCHANGED memory

pause_agent(actor, a) ==
    /\ may_run(actor, a) /\ Hired(a)
    /\ Commit(noc_set_agent_status(db, a, "paused")) /\ UNCHANGED memory

resume_agent(actor, a) ==
    /\ may_run(actor, a) /\ db.agent[a].status \in {"paused", "error"}
    /\ Commit(noc_set_agent_status(db, a, "idle")) /\ UNCHANGED memory

(* Its reports go to its own boss. *)
terminate_agent(p, a) ==
    /\ p \in Admins /\ Hired(a)
    /\ LET moved == [db EXCEPT !.agent = [b \in Agents |->
                        IF @[b].boss = a /\ @[b].status # "terminated"
                        THEN [@[b] EXCEPT !.boss = db.agent[a].boss] ELSE @[b]]]
       IN  Commit(noc_set_agent_status(moved, a, "terminated"))
    /\ UNCHANGED memory

check_links_present(a, boss) == boss = Nobody \/ (boss \in Agents /\ Hired(boss))

check_links(a, boss) ==
    boss = Nobody \/ (boss \in Agents /\ Hired(boss) /\ ~cycle(db.agent, a, boss))

update_agent(p, a) ==
    /\ p \in Admins /\ Hired(a)
    /\ \E boss \in Bosses \cup {Nobody} :
         check_links(a, boss) /\ Commit([db EXCEPT !.agent[a].boss = boss])
    /\ UNCHANGED memory

(* An agent reports its own run; a person cancels any. *)
finish_run(actor, r) ==
    /\ May(actor) /\ db.run[r].status \in {"queued", "running"}
    /\ \/ actor = db.run[r].agent /\ \E how \in {"succeeded", "failed"} :
                                        Commit(noc_agent_run_finish(db, r, how))
       \/ actor \in People /\ Commit(noc_agent_run_finish(db, r, "cancelled"))
    /\ UNCHANGED memory

(* A tool call over MCP is a step of the agent's run, or starts one. *)
record(a) ==
    /\ Hired(a) /\ RunsOf(db, a, "running") = {} /\ FreeRuns(db) # {}
    /\ Commit(noc_agent_run_external(db, a)) /\ UNCHANGED memory

mine(actor, s) == db.case[s].owner = actor \/ db.case[s].agent = actor

assign_case(actor, s) ==
    /\ May(actor) /\ db.case[s].status \in LIVE
    /\ \/ /\ actor \in People
          /\ actor \in Admins \/ mine(actor, s) \/ db.case[s].status \in UNOWNED
          /\ Commit(with_people(db, s))
       \/ \E a \in Agents :
            /\ IF actor \in Agents THEN mine(actor, s) /\ a \in subtree(db.agent, actor)
               ELSE actor \in Admins \/ mine(actor, s) \/ db.case[s].status \in UNOWNED
            /\ Hired(a) /\ CanAssign(db, s, a, db.agent) /\ Commit(assign(db, s, a))
    /\ UNCHANGED memory

escalate_case(actor, s) ==
    /\ May(actor) /\ db.case[s].status \in LIVE
    /\ IF actor \in Agents THEN mine(actor, s)
       ELSE mine(actor, s) \/ actor \in Admins \/ db.case[s].agent # Nobody
    /\ Commit(escalate(db, s, IF actor \in Agents THEN actor ELSE db.case[s].agent, db.agent))
    /\ UNCHANGED memory

-----------------------------------------------------------------------------
(* The network and the clocks: Situations.tla has the situations' own life *)

OpenSituation(s) ==
    /\ db.sit[s] = "none" /\ \E prio \in Priorities : Commit(noc_case_open(db, s, prio))
    /\ UNCHANGED memory

ResolveSituation(s) ==
    /\ db.sit[s] = "open"
    /\ \E how \in {"cleared", "merged"} : Commit([db EXCEPT !.sit[s] = how])
    /\ UNCHANGED memory

RaiseAlarm(s, a) ==
    /\ db.sit[s] = "open" /\ db.case[s].status \in LIVE /\ db.alarm[s][a].raised < MaxRaised
    /\ Commit([db EXCEPT !.alarm[s][a] = [on |-> TRUE, raised |-> @.raised + 1]])
    /\ UNCHANGED memory

ClearAlarm(s, a) ==
    /\ db.alarm[s][a].on
    /\ Commit([db EXCEPT !.alarm[s][a].on = FALSE]) /\ UNCHANGED memory

NextUpdateComes(s) ==
    /\ db.case[s].next = "later"
    /\ Commit([db EXCEPT !.case[s].next = "due"]) /\ UNCHANGED memory

QuietEnds(s, a) ==
    /\ a \in DOMAIN db.heard[s] /\ db.heard[s][a].just
    /\ Commit([db EXCEPT !.heard[s][a].just = FALSE]) /\ UNCHANGED memory

CaseIsLate(s) ==
    /\ db.case[s].agent # Nobody /\ ~db.case[s].late
    /\ Commit([db EXCEPT !.case[s].late = TRUE]) /\ UNCHANGED memory

RunIsLate(r) ==
    /\ db.run[r].status = "running" /\ ~db.run[r].late
    /\ Commit([db EXCEPT !.run[r].late = TRUE]) /\ UNCHANGED memory

Crash ==
    /\ crashes < MaxCrashes /\ crashes' = crashes + 1
    /\ seen' = Nothing /\ looked' = Nothing /\ ready' = {} /\ task' = {} /\ walk' = {}
    /\ booted' = FALSE /\ db' = Forget(db, {})

-----------------------------------------------------------------------------
(* The cases, and the loops and the people that work them. *)
CaseNext ==
    \/ TickRead(TRUE) \/ TickRead(FALSE) \/ TickAct \/ RunLoopStart \/ granted \/ Crash
    \/ \E s \in Cases :
         \/ run_case(s) \/ finish(s)
         \/ OpenSituation(s) \/ ResolveSituation(s) \/ NextUpdateComes(s)
         \/ \E a \in Alarms : RaiseAlarm(s, a) \/ ClearAlarm(s, a) \/ QuietEnds(s, a)
         \/ \E actor \in Actors : \/ take_case(actor, s) \/ release_case(actor, s)
                                   \/ update_case(actor, s) \/ set_status(actor, s)
                                   \/ resolve_case(actor, s) \/ post_to_case(actor, s)

(* The organization of the agents and the cases routed to them. *)
RouteNext ==
    \/ AgentTickRead \/ AgentTickAct \/ granted \/ Crash
    \/ \E s \in Cases :
         \/ CaseIsLate(s)
         \/ \E actor \in Actors : \/ take_case(actor, s) \/ release_case(actor, s)
                                   \/ set_status(actor, s) \/ resolve_case(actor, s)
                                   \/ assign_case(actor, s) \/ escalate_case(actor, s)
    \/ \E a \in Agents :
         \/ \E actor \in Actors : pause_agent(actor, a) \/ resume_agent(actor, a)
         \/ \E p \in People : terminate_agent(p, a) \/ update_agent(p, a)

(* The runs of the agents. *)
RunNext ==
    \/ StartRead
    \/ \E r \in RunIds : \/ start_ready(r) \/ wake_webhook(r) \/ run_in_process(r)
                         \/ RunIsLate(r)
                         \/ \E actor \in Actors : finish_run(actor, r)
    \/ \E a \in Agents : record(a) \/ \E actor \in Actors : invoke_agent(actor, a)

Empty ==
    [case |-> [s \in Cases |-> NoCase], cycle |-> [s \in Cases |-> <<>>],
     sit |-> [s \in Cases |-> "none"], alarm |-> [s \in Cases |-> Silent],
     heard |-> [s \in Cases |-> Unheard],
     agent |-> [a \in Agents |-> [status |-> "terminated", boss |-> Nobody, wakes |-> FALSE]],
     run |-> [r \in RunIds |-> NoRun], playbook |-> [s \in Cases |-> FALSE]]

Idle ==
    /\ seen = Nothing /\ looked = Nothing /\ ready = {} /\ task = {} /\ walk = {}
    /\ booted = FALSE /\ crashes = 0

(* No agent is hired (one that is not is as one that left). *)
CaseInit == db = Empty /\ Idle

(* Some agents are hired, woken or not, and some cases are in the queue. *)
AgentInit(hired, wakes, opened) ==
    LET staffed == [Empty EXCEPT
            !.agent = [a \in Agents |-> [status |-> IF a \in hired THEN "idle" ELSE "terminated",
                                         boss |-> Nobody, wakes |-> wakes]],
            !.sit = [s \in Cases |-> IF s \in opened THEN "open" ELSE "none"],
            !.case = [s \in Cases |-> IF s \in opened THEN [NoCase EXCEPT !.status = "new"] ELSE NoCase]]
    IN  /\ db = Together(staffed, [s \in opened |-> dispatch(staffed, s, FALSE)])
        /\ Idle

Init ==
    \/ CaseInit
    \/ \E hired \in SUBSET Agents, opened \in SUBSET Cases, wakes \in BOOLEAN :
          AgentInit(hired, wakes, opened)

(* The whole NOC: its parts at once. *)
Next == CaseNext \/ RouteNext \/ RunNext

Spec == Init /\ [][Next]_vars

-----------------------------------------------------------------------------
(* The take clock is the truth about the queue: a case is in the queue     *)
(* exactly when one of its cycles waits to be taken, at the case's         *)
(* priority; a cycle is taken only while the case is being worked; and a   *)
(* case is worked by someone, waits with a next update to wake it, and     *)
(* belongs to nobody before it is taken (store/noc_cases.py, 0034, 0036).  *)
QueueLedger ==
    \A s \in Cases :
        LET c == db.case[s]
            cycles == db.cycle[s]
        IN  /\ Len(cycles) <= 1
            /\ c.status = "queue" <=> (cycles # <<>> /\ ~cycles[1].taken)
            /\ cycles # <<>> => (IF cycles[1].taken THEN c.status = "working"
                                                    ELSE cycles[1].prio = c.prio)
            /\ c.status = "working" => c.owner # Nobody
            /\ c.status \in UNOWNED => c.owner = Nobody
            /\ c.status \in PENDING => c.next # "none"

(* An agent shown running has a run that is running, so that something     *)
(* will end it: an agent with neither would never be started again         *)
(* (noc_agent_runs_ready takes only idle agents).                          *)
RunningHasRun ==
    \A a \in Agents : db.agent[a].status = "running" => RunsOf(db, a, "running") # {}

(* The organization is a forest through every hire's change of boss and    *)
(* every retirement: escalation always ends.                               *)
Forest == \A a \in Agents : Hired(a) => a \notin subtree(db.agent, a)

(* The loops leave no case behind: the automated checks end, whatever      *)
(* crashes; a case that waits goes back to the queue when its update is    *)
(* due; and a case outlives its situation only to be confirmed             *)
(* (case_loop.tick, runbook.run_loop).                                     *)
NobodyStranded ==
    \A s \in Cases :
        /\ db.case[s].status = "auto" ~> db.case[s].status # "auto"
        /\ (db.case[s].status \in PENDING /\ db.case[s].next = "due")
               ~> (db.case[s].status \notin PENDING \/ db.case[s].next # "due")
        /\ s \in noc_cases_orphaned(db) ~> s \notin noc_cases_orphaned(db)

(* Nothing an agent is given stays with it for ever: an overdue run ends,  *)
(* a wake-up starts while its agent can run, and a case its agent cannot   *)
(* conclude climbs, unless a person took it (agent_loop.tick, start_ready).*)
AgentsAnswer ==
    /\ \A r \in RunIds :
           /\ r \in noc_agent_runs_overdue(db) ~> r \notin noc_agent_runs_overdue(db)
           /\ r \in noc_agent_runs_ready(db) ~> r \notin noc_agent_runs_ready(db)
    /\ \A s \in Cases, a \in Agents :
           LET stuck == s \in noc_cases_routed(db) /\ db.case[s].agent = a /\ climb_reason(db, s)
           IN  stuck ~> ~stuck

=============================================================================
