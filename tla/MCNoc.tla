------------------------------- MODULE MCNoc -------------------------------
(***************************************************************************)
(* Small instances of Noc.  A behaviour exercises one part of the NOC: the *)
(* cases with their loops and people; the routing of cases among agents;   *)
(* or the runs of agents.  The parts share the tables and the operations   *)
(* on a case; the variable that tells them apart never changes.  Where the *)
(* runs are the matter nobody is given a boss.                             *)
(***************************************************************************)
EXTENDS Noc, TLC

VARIABLE part

MCInit ==
    \/ part = "cases" /\ CaseInit
    \/ part = "routing" /\ AgentInit(Agents, TRUE, Cases)
    \/ part = "runs" /\ AgentInit(Agents, TRUE, {})

MCNext ==
    /\ \/ part = "cases" /\ CaseNext
       \/ part # "cases" /\ RouteNext
       \/ part = "runs" /\ RunNext
    /\ part = "runs" => \A a \in Agents : db'.agent[a].boss = Nobody
    /\ UNCHANGED part

MCSpec == MCInit /\ [][MCNext]_<<vars, part>>

Cased(action) == part = "cases" /\ action /\ UNCHANGED part
Routed(action) == part # "cases" /\ action /\ UNCHANGED part

(* The loops are supervised and run for ever, each in turn looking at      *)
(* everything it looks at, and a task ends (the executor, the webhook and  *)
(* a model's turns are bounded in time).  Nothing is asked of people, of   *)
(* agents, of the network or of the clocks.                                *)
MCLiveSpec ==
    /\ MCSpec
    /\ SF_<<vars, part>>(Cased(TickRead(TRUE))) /\ WF_<<vars, part>>(Cased(TickAct))
    /\ WF_<<vars, part>>(Cased(RunLoopStart))
    /\ \A s \in Cases : /\ WF_<<vars, part>>(Cased(run_case(s)))
                        /\ WF_<<vars, part>>(Cased(finish(s)))
    /\ SF_<<vars, part>>(Routed(AgentTickRead)) /\ WF_<<vars, part>>(Routed(AgentTickAct))
    /\ SF_<<vars, part>>(Routed(StartRead))
    /\ \A r \in RunIds : /\ WF_<<vars, part>>(Routed(start_ready(r)))
                         /\ WF_<<vars, part>>(Routed(wake_webhook(r)))
                         /\ WF_<<vars, part>>(Routed(run_in_process(r)))

=============================================================================
