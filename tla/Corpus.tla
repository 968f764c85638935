------------------------------- MODULE Corpus -------------------------------
(***************************************************************************)
(* What the appliance keeps of its decisions and of what people said about *)
(* them, and what the retention sweeps take away: the observation and the  *)
(* pairs of every activation (engine/dataset/capture.py), the verdicts and *)
(* gestures that promote them (labels.py, gestures.py), the decisions of   *)
(* the autonomy (engine/operate/autonomy.py), and the three sweeps of the  *)
(* maintenance pass (store/retention.py, store/dataset.py).                *)
(*                                                                         *)
(* Time is counted in days.  Every action is a transaction under the store *)
(* lock, so it is one step; one that fails leaves the rows as they were.   *)
(* Activation n writes observation n and the pair of n with the activation *)
(* before it, when that one is still in the correlator's window: the pairs *)
(* of two situations share an observation that way.  How a situation is    *)
(* formed, joined and closed is in Situations; here it is a row with what  *)
(* refers to it: its label and its newest event (the day of each), whether *)
(* the NOC opened a case for it, and the grades autonomy decided.          *)
(***************************************************************************)
EXTENDS Integers, FiniteSets

CONSTANTS
    Sits,        \* situations
    MaxAlarm,    \* activations
    MaxDay,      \* days
    KeepDays,    \* NETCORENOC_RETENTION_DAYS, the operational retention
    Candidates,  \* the policies an administrator may send
    DefaultPolicy,     \* the policy of an appliance nobody configured
    RowCap,      \* the sink's rows, for every policy
    Grades       \* what autonomy is allowed to decide

Never == -1

\* RetentionPolicy.validate: every tier positive, sink < training <= audit.
validate(p) == 0 < p.sink /\ p.sink < p.training /\ p.training <= p.audit

ASSUME CorpusAssumption ==
    /\ MaxAlarm \in Nat /\ MaxDay \in Nat /\ KeepDays \in Nat /\ RowCap \in Nat
    /\ DefaultPolicy \in [sink : Int, training : Int, audit : Int] /\ validate(DefaultPolicy)
    /\ Candidates \subseteq [sink : Int, training : Int, audit : Int]
    /\ Grades \subseteq {"grouping", "naming", "closing", "severity"}

Nums == 1 .. MaxAlarm

VARIABLES
    sit,          \* the situation rows and what refers to them
    pair,         \* dataset_pair: pair n is of activations n and pair[n].with
    observation,  \* dataset_observation
    activations,  \* how many there have been
    known,        \* Capture._observations: is the newest activation's observation in it
    policy,       \* the retention policy, in `meta` and in the engine
    day,
    sweep,        \* how the last maintenance pass that pruned ended
    asserted,     \* history: pairs a person's verdict or gesture promoted, with their day
    given         \* history: the day of each situation's last label and gesture;
                  \* neither holds anything from before the last audit sweep's bound

rowVars == <<sit, pair, observation>>
historyVars == <<asserted, given>>
corpusVars == <<rowVars, activations, known, policy, day, sweep, historyVars>>

Live == {s \in Sits : sit[s].status \in {"new", "open"}}
Exists == {s \in Sits : sit[s].status \in {"new", "open", "resolved"}}

NoPair == [life |-> "absent", sit |-> 0, with |-> 0, at |-> Never]
NoObservation == [life |-> "absent", at |-> Never]
NoRow == [status |-> "absent", closed |-> Never, label |-> Never, event |-> Never,
          noc |-> FALSE, decided |-> {}]

CorpusInit ==
    /\ sit = [s \in Sits |-> NoRow]
    /\ pair = [n \in Nums |-> NoPair]
    /\ observation = [n \in Nums |-> NoObservation]
    /\ activations = 0 /\ known = FALSE /\ policy = DefaultPolicy /\ day = 0 /\ sweep = "done"
    /\ asserted = {} /\ given = [s \in Sits |-> [label |-> Never, event |-> Never]]

-----------------------------------------------------------------------------
(* Capture *)

\* Capture.record after _assign_situation: the activation lands in situation s,
\* new or live; its observation, and unless the situation is at its cap (`room`)
\* the pair with the previous activation, if that is still in the window.  The
\* other side's observation is the one in memory, or none after a restart.
record(s, room) ==
    LET n == activations + 1
        inWindow == activations > 0 /\ observation[activations].at = day
    IN /\ n \in Nums
       /\ s \in Live \/ sit[s].status = "absent"
       /\ activations' = n
       /\ known' = TRUE
       /\ sit' = IF s \in Live THEN sit ELSE [sit EXCEPT ![s].status = "new"]
       /\ observation' = [observation EXCEPT ![n] = [life |-> "sink", at |-> day]]
       /\ pair' = IF inWindow /\ room
                  THEN [pair EXCEPT ![n] =
                          [life |-> "sink", sit |-> s, at |-> day,
                           with |-> IF known THEN activations ELSE 0]]
                  ELSE pair
       /\ UNCHANGED <<policy, day, sweep, historyVars>>

\* A kill: the index of observation ids is rebuilt empty.
restart ==
    /\ known /\ known' = FALSE
    /\ UNCHANGED <<rowVars, activations, policy, day, sweep, historyVars>>

-----------------------------------------------------------------------------
(* What people and autonomy say *)

\* store.promote_for_situation, for the situations of one gesture: their sink
\* pairs, and the sink observations that their promoted pairs refer to.
promote_for_situation(ss) ==
    LET mine == {n \in Nums : pair[n].sit \in ss /\ pair[n].life \in {"sink", "dataset"}}
        seen == mine \cup {pair[n].with : n \in mine}
    IN /\ pair' = [n \in Nums |-> IF n \in mine THEN [pair[n] EXCEPT !.life = "dataset"]
                                                ELSE pair[n]]
       /\ observation' = [n \in Nums |-> IF n \in seen /\ observation[n].life = "sink"
                                         THEN [observation[n] EXCEPT !.life = "dataset"]
                                         ELSE observation[n]]
       /\ asserted' = asserted \cup {[n |-> n, with |-> pair[n].with, at |-> pair[n].at] : n \in mine}

\* store.promote_situation, with the trigger that opens a case for a situation
\* that becomes open.
attended(row) == IF row.status = "new" THEN [row EXCEPT !.status = "open", !.noc = TRUE] ELSE row

resolved(row) == [row EXCEPT !.status = "resolved", !.closed = day]

\* gestures.record: the event of situation s, and its label when there is a new
\* one; a gesture that asserts something about the grouping promotes.
Gesture(s, row, labels, promoted) ==
    LET label == IF labels THEN day ELSE row.label
    IN /\ sit' = [sit EXCEPT ![s] = [row EXCEPT !.label = label, !.event = day]]
       /\ given' = [given EXCEPT ![s] = [label |-> label, event |-> day]]
       /\ promote_for_situation(promoted)
       /\ UNCHANGED <<activations, known, policy, day, sweep>>

\* POST feedback (Engine.apply_feedback, record_label): a label unless the same
\* one is there, the situation attended to, and a verdict event.
feedback(s, changed) ==
    /\ s \in Exists
    /\ Gesture(s, attended(sit[s]), changed \/ sit[s].label = Never, {s})

\* A move or a split (routes/lifecycle.py): it speaks about the grouping of both
\* situations, and labels the first, when the operator is sure enough of it.
regroup(s, peer, sure, new) ==
    /\ {s, peer} \subseteq Live
    /\ Gesture(s, attended(sit[s]), sure /\ new, IF sure THEN {s, peer} ELSE {})

\* A merge: the other situation resolves, with no event of its own.
merge_situations(s, peer, sure) ==
    /\ s # peer /\ {s, peer} \subseteq Live
    /\ sit' = [sit EXCEPT ![s] = [attended(@) EXCEPT !.event = day], ![peer] = resolved(@)]
    /\ given' = [given EXCEPT ![s].event = day]
    /\ promote_for_situation(IF sure THEN {s, peer} ELSE {})
    /\ UNCHANGED <<activations, known, policy, day, sweep>>

\* A rename leaves the status alone and says nothing about the grouping.
name_situation(s) ==
    /\ s \in Exists
    /\ Gesture(s, sit[s], FALSE, {})

\* A close resolves without attending; it labels only with a verdict.
close_situation(s, judged) ==
    /\ s \in Live
    /\ Gesture(s, resolved(sit[s]), judged, IF judged THEN {s} ELSE {})

\* autonomy._act on one candidate: a decision row for each grade it decides, in
\* the order of the code.  Accepting a grouping attends to the situation, closing
\* clears its alarms by hand (events of the model) and resolves it; naming and
\* grading change only how it reads.
_act(s, acts) ==
    /\ s \in Live /\ acts # {} /\ acts \subseteq Grades
    /\ acts \cap sit[s].decided \subseteq {"severity"}
    /\ "grouping" \in acts => sit[s].status = "new"
    /\ LET row == IF "grouping" \in acts THEN attended(sit[s]) ELSE sit[s]
           done == [row EXCEPT !.decided = @ \cup acts]
       IN sit' = [sit EXCEPT ![s] =
                    IF "closing" \in acts
                    THEN [resolved(done) EXCEPT !.event = day]
                    ELSE done]
    /\ UNCHANGED <<pair, observation, activations, known, policy, day, sweep, historyVars>>

-----------------------------------------------------------------------------
(* The sweeps, each as what it leaves of the rows it is given *)

Stored(rows) == {n \in Nums : rows[n].life \in {"sink", "dataset"}}

\* The rows without those of `gone`.
Without(rows, gone, none) == [n \in Nums |-> IF n \in gone THEN none ELSE rows[n]]

\* Observations of one tier before the cutoff that no stored pair refers to.
Unreferenced(ps, os, tier, cutoff) ==
    {n \in Nums : /\ os[n].life = tier /\ os[n].at < cutoff
                  /\ \A m \in Stored(ps) : n # m /\ n # ps[m].with}

\* store.prune: resolved situations past the operational retention that carry no
\* label, no event and no case.  Their decisions still refer to them.
Collected(rows, cutoff) ==
    {s \in Sits : /\ rows[s].status = "resolved" /\ rows[s].closed < cutoff
                  /\ rows[s].label = Never /\ rows[s].event = Never /\ ~rows[s].noc}

\* The sink's bounds without their lifecycle clause.
PruneEverything(ps, os, cutoff, counted) ==
    LET aged == {n \in Nums : ps[n].life \in {"sink", "dataset"} /\ ps[n].at < cutoff}
        kept == Without(ps, aged, NoPair)
    IN [pairs |-> kept, observations |-> Without(os, Unreferenced(kept, os, "sink", cutoff), NoObservation)]

\* store.prune_sink: sink pairs by age; then, when the planner's estimate says
\* the table is near its cap (`counted`), the oldest beyond it; then observations.
prune_sink(ps, os, cutoff, counted) ==
    LET aged == {n \in Nums : ps[n].life = "sink" /\ ps[n].at < cutoff}
        left == {n \in Nums : ps[n].life = "sink"} \ aged
        excess == {n \in left : counted /\ Cardinality({m \in left : m > n}) >= RowCap}
        kept == Without(ps, aged \cup excess, NoPair)
    IN [pairs |-> kept,
        observations |-> Without(os, Unreferenced(kept, os, "sink", cutoff), NoObservation)]

\* store.prune_dataset_audit: the outer bound of the data's life.
prune_dataset_audit(ps, os, cutoff) ==
    LET kept == Without(ps, {n \in Nums : ps[n].life = "dataset" /\ ps[n].at < cutoff}, NoPair)
    IN [pairs |-> kept,
        observations |-> Without(os, Unreferenced(kept, os, "dataset", cutoff), NoObservation)]

\* ... and the labels and events before it.
Forgotten(rows, cutoff) ==
    [s \in Sits |-> [rows[s] EXCEPT !.label = IF @ < cutoff THEN Never ELSE @,
                                    !.event = IF @ < cutoff THEN Never ELSE @]]

\* The history after an audit sweep: what it was told to forget, it forgets.
Enforced(cutoff) ==
    /\ asserted' = {p \in asserted : p.at >= cutoff}
    /\ given' = [s \in Sits |-> [label |-> IF given[s].label < cutoff THEN Never ELSE given[s].label,
                                  event |-> IF given[s].event < cutoff THEN Never ELSE given[s].event]]

-----------------------------------------------------------------------------
(* The pass and the administrator *)

\* The pass closes situations that went quiet; it leaves no event.
Quiet(closing) ==
    [s \in Sits |-> IF s \in closing THEN resolved(sit[s]) ELSE sit[s]]

\* Engine.maintenance off the pruning tick.
maintenance(closing) ==
    /\ closing # {} /\ closing \subseteq Live
    /\ sit' = Quiet(closing)
    /\ UNCHANGED <<pair, observation, activations, known, policy, day, sweep, historyVars>>

\* Engine.maintenance on the pruning tick: store.prune, then the dataset's two
\* sweeps.  A decision of autonomy refers to its situation and is never deleted,
\* so the database refuses to delete that situation: the pass raises, and all of
\* it is rolled back.
maintenance_prunes(closing, counted) ==
    LET rows == Quiet(closing)
        gone == Collected(rows, day - KeepDays)
        cutoff == day - policy.audit
        sink == prune_sink(pair, observation, day - policy.sink, counted)
        audit == prune_dataset_audit(sink.pairs, sink.observations, cutoff)
    IN /\ closing \subseteq Live
       /\ UNCHANGED <<activations, known, policy, day>>
       /\ IF \E s \in gone : rows[s].decided # {}
          THEN sweep' = "refused" /\ UNCHANGED <<rowVars, historyVars>>
          ELSE /\ sweep' = "done"
               /\ sit' = Forgotten([s \in Sits |-> IF s \in gone THEN [NoRow EXCEPT !.status = "gone"]
                                                                 ELSE rows[s]], cutoff)
               /\ pair' = audit.pairs /\ observation' = audit.observations
               /\ Enforced(cutoff)

\* POST /api/dataset/retention, applied: the audit bound is enforced at once, in
\* the transaction that stores the policy.
set_retention(candidate) ==
    LET cutoff == day - candidate.audit
        audit == prune_dataset_audit(pair, observation, cutoff)
    IN /\ validate(candidate) /\ candidate # policy
       /\ policy' = candidate
       /\ sit' = Forgotten(sit, cutoff)
       /\ pair' = audit.pairs /\ observation' = audit.observations
       /\ Enforced(cutoff)
       /\ UNCHANGED <<activations, known, day, sweep>>

NextDay ==
    /\ day < MaxDay /\ day' = day + 1
    /\ UNCHANGED <<rowVars, activations, known, policy, sweep, historyVars>>

CorpusNext ==
    \/ \E s \in Sits, room \in BOOLEAN : record(s, room)
    \/ restart
    \/ \E s \in Sits, changed \in BOOLEAN : feedback(s, changed)
    \/ \E s, peer \in Sits, sure, new \in BOOLEAN : regroup(s, peer, sure, new)
    \/ \E s, peer \in Sits, sure \in BOOLEAN : merge_situations(s, peer, sure)
    \/ \E s \in Sits : name_situation(s)
    \/ \E s \in Sits, judged \in BOOLEAN : close_situation(s, judged)
    \/ \E s \in Sits, acts \in SUBSET Grades : _act(s, acts)
    \/ \E closing \in SUBSET Sits : maintenance(closing)
    \/ \E closing \in SUBSET Sits, counted \in BOOLEAN : maintenance_prunes(closing, counted)
    \/ \E candidate \in Candidates : set_retention(candidate)
    \/ NextDay

CorpusSpec == CorpusInit /\ [][CorpusNext]_corpusVars

-----------------------------------------------------------------------------
(* Properties *)

CorpusTypeOK ==
    /\ sit \in [Sits -> [status : {"absent", "new", "open", "resolved", "gone"},
                         closed : Never .. MaxDay, label : Never .. MaxDay,
                         event : Never .. MaxDay, noc : BOOLEAN, decided : SUBSET Grades]]
    /\ pair \in [Nums -> [life : {"absent", "sink", "dataset"}, sit : Sits \cup {0},
                          with : 0 .. MaxAlarm, at : Never .. MaxDay]]
    /\ observation \in [Nums -> [life : {"absent", "sink", "dataset"}, at : Never .. MaxDay]]
    /\ activations \in 0 .. MaxAlarm /\ known \in BOOLEAN /\ day \in 0 .. MaxDay
    /\ policy \in [sink : Int, training : Int, audit : Int] /\ sweep \in {"done", "refused"}
    /\ asserted \subseteq [n : Nums, with : 0 .. MaxAlarm, at : Never .. MaxDay]
    /\ given \in [Sits -> [label : Never .. MaxDay, event : Never .. MaxDay]]

\* What a person said outlives everything but the audit bound: as long as no
\* audit sweep has enforced a later bound, a label and a gesture are still there,
\* with the row of the situation they are about, and every pair they promoted is
\* there too with both of its observations -- whatever the operational sweep, the
\* sink's age and row bounds, a changed policy, autonomy or a restart did in
\* between (store/retention.py, prune_sink, prune_dataset_audit).
EvidenceKept ==
    /\ \A s \in Sits : given[s].event # Never =>
          s \in Exists /\ sit[s].label = given[s].label /\ sit[s].event >= given[s].event
    /\ \A p \in asserted :
          pair[p.n].life = "dataset" /\ {p.n, p.with} \ {0} \subseteq Stored(observation)

\* The pruning pass always ends: no row it deletes is one another row still
\* refers to (the docstring of store/retention.py gives this as the reason why a
\* labelled situation keeps its row).
SweepNeverRefused == sweep # "refused"

=============================================================================
