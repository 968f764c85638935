------------------------------ MODULE Deciders ------------------------------
(***************************************************************************)
(* Which scorer decides, and under which capture run its pairs are stored. *)
(* Four kinds of rows say who decides (store/decider.py, scoring_config.py,*)
(* promotion.py, league.py); every maintenance pass reads them, and builds *)
(* another scorer only when the key it remembers has changed               *)
(* (engine/operate/scorer_lifecycle.py).  In the same pass it opens another*)
(* capture run when the key of the newest one is not the scorer's          *)
(* (engine/dataset/capture.py), and a rolled-back batch or pass re-opens a *)
(* run it has lost (engine/operate/membership.py).                         *)
(*                                                                         *)
(* The one connection holds one transaction: a capture run that was        *)
(* re-opened after a rollback is stored with whatever commits next, and is *)
(* lost with whatever rolls back next.  The judge of the league reads in   *)
(* one transaction, compares off the loop, and writes in another.          *)
(***************************************************************************)
EXTENDS Integers, FiniteSetsExt, Functions

CONSTANTS
    Configs,   \* weights of the formula, as applied by administrators
    Fits,      \* model versions a promotion may activate
    Shipped,  \* the models the build ships
    FirstOf,   \* the shipped model that is first in the offline order
    Adapted,   \* the league's model fitted on this site, once it is registered
    Rejected,  \* rows whose content does not load in this build
    Formula,   \* the built-in default parameters
    Nil,
    Breaks,    \* which reads and writes fail: "read", "league", "pass", "insert"
    MaxRun     \* capture runs

ASSUME DecidersAssumption ==
    /\ FirstOf \in Shipped /\ Adapted \notin Shipped
    /\ Rejected \subseteq Configs \cup Fits /\ FirstOf \notin Configs \cup Fits
    /\ Nil \notin Configs \cup Fits \cup Shipped \cup {Adapted} \cup Nat
    /\ \A row \in Configs \cup Fits \cup Shipped \cup {Adapted}, refused \in BOOLEAN :
          Nil # [row |-> row, refused |-> refused]
    /\ Breaks \subseteq {"read", "league", "pass", "insert"} /\ MaxRun \in Nat

Anyone == Configs \cup Fits \cup Shipped \cup {Adapted}

VARIABLES
    setting,   \* the newest decider_setting row: mode and pin
    scorer_active,  \* scorer_active: a configuration, a model version, or nothing
    decision,  \* the newest league_decision: champion, and whether it was pinned
    adapted,   \* whether a site model is registered
    scorer,    \* the correlator's
    loaded,    \* _loaded_key
    members,   \* engine.league_members
    ruling,    \* the judge's choice between its two transactions
    capture,   \* the capture runs: rows, those not committed, the next id, Capture.run_id
    captured,     \* the pair stored last: its run's key, who scored it, and what was due
    prescribed \* history: what the rows of the last load prescribe

deciderRows == <<setting, scorer_active, decision, adapted>>
deciderVars == <<deciderRows, scorer, loaded, members, ruling, capture, captured, prescribed>>

-----------------------------------------------------------------------------
(* The rows' prescription *)

League(site) == Shipped \cup IF site THEN {Adapted} ELSE {}

\* league_judge.choose without labels: the pinned member, else the champion of
\* the last decision, else the first in the offline order.
choose(ms, current, pin) ==
    CASE pin \in ms -> pin
      [] pin \notin ms /\ current \in ms -> current
      [] OTHER -> FirstOf

LeagueDecides == setting.mode = "shipped" \/ (setting.mode = "site" /\ scorer_active \notin Fits)

\* The row the load should adopt: a league member, a model version, a
\* configuration, or nothing.
Adopted(leagueOk) ==
    CASE LeagueDecides /\ leagueOk -> choose(League(adapted), decision.champion, setting.pin)
      [] ~LeagueDecides /\ scorer_active \in Fits -> scorer_active
      [] OTHER -> IF scorer_active \in Configs THEN scorer_active ELSE Nil

\* Another key for a configuration that decides because the league did not load.
KeyOf(row, leagueOk) ==
    IF row = Nil THEN Nil ELSE [row |-> row, refused |-> LeagueDecides /\ ~leagueOk]

Built(row) == IF row = Nil \/ row \in Rejected THEN Formula ELSE row

\* The key of a capture run: scorer_config_id, and the hash of the loaded row.
RunKey(s, row) == <<IF s \in Configs THEN s ELSE Nil, row>>
LoadedRow(key) == IF key = Nil THEN Nil ELSE key.row

-----------------------------------------------------------------------------
(* Capture runs *)

Newest(c) == Max(DOMAIN c.rows)

\* Capture.open_run: the newest run again when its key is this one and a run is
\* open; an INSERT that fails leaves the run it had.
open_run(c, key, inserts) ==
    CASE c.current # Nil /\ DOMAIN c.rows # {} /\ c.rows[Newest(c)] = key -> c
      [] ~inserts -> c
      [] OTHER -> [rows |-> [r \in DOMAIN c.rows \cup {c.next} |-> IF r = c.next THEN key ELSE c.rows[r]],
                   loose |-> c.loose \cup {c.next}, next |-> c.next + 1, current |-> c.next]

\* Only the newest committed run is ever read again.
Committed(c) ==
    [c EXCEPT !.loose = {}, !.rows = IF DOMAIN @ = {} THEN @ ELSE Restrict(@, {Newest(c)})]
RolledBack(c) == [c EXCEPT !.rows = Restrict(@, DOMAIN @ \ c.loose), !.loose = {}]

\* membership.reload: a run the rollback took with it is re-opened.
reload(c, key) ==
    IF c.current # Nil /\ (DOMAIN c.rows = {} \/ Newest(c) # c.current)
    THEN open_run([c EXCEPT !.current = Nil], key, TRUE)
    ELSE c

-----------------------------------------------------------------------------
(* The engine *)

\* The key of the last good load kept through one that failed.
load_keeping_key(readable, leagueOk) ==
    LET row == Adopted(leagueOk)
        key == KeyOf(row, leagueOk)
    IN IF readable
       THEN /\ loaded' = key
            /\ scorer' = IF key = loaded THEN scorer ELSE Built(row)
            /\ prescribed' = [row |-> row, scorer |-> Built(row)]
            /\ members' = IF LeagueDecides /\ leagueOk THEN League(adapted) ELSE members
       ELSE /\ loaded' = loaded /\ scorer' = Formula
            /\ prescribed' = [row |-> Nil, scorer |-> Formula]
            /\ members' = members

\* load_scorer_config: the formula when the rows cannot be read; what is loaded
\* already is left alone.
load_scorer_config(readable, leagueOk) ==
    LET row == Adopted(leagueOk)
        key == KeyOf(row, leagueOk)
    IN IF readable
       THEN /\ loaded' = key
            /\ scorer' = IF key = loaded THEN scorer ELSE Built(row)
            /\ prescribed' = [row |-> row, scorer |-> Built(row)]
            /\ members' = IF LeagueDecides /\ leagueOk THEN League(adapted) ELSE members
       ELSE /\ loaded' = Nil /\ scorer' = Formula
            /\ prescribed' = [row |-> Nil, scorer |-> Formula]
            /\ members' = members

\* Engine.maintenance as far as deciders go: load, open a run, and at the end
\* commit; or roll back and reload.  After a read the database refused, the rest
\* of the pass is refused too.
pass(readable, leagueOk, inserts, ends) ==
    /\ ~readable => "read" \in Breaks /\ ~ends
    /\ ~leagueOk => "league" \in Breaks
    /\ ~inserts => "insert" \in Breaks
    /\ ~ends => "pass" \in Breaks
    /\ load_scorer_config(readable, leagueOk)
    /\ LET key == RunKey(scorer', LoadedRow(loaded'))
           opened == IF readable THEN open_run(capture, key, inserts) ELSE capture
       IN capture' = IF ends THEN Committed(opened) ELSE reload(RolledBack(opened), key)
    /\ capture'.next <= MaxRun
    /\ UNCHANGED <<deciderRows, ruling, captured>>

\* Capture.record of one activation in a batch that commits: the run is
\* referred to, so a pair of a run that is not there is refused, and left out.
batch_captured ==
    /\ capture.current # Nil
    /\ capture' = Committed(capture)
    /\ captured' = IF capture.current \in DOMAIN capture.rows
                THEN [run |-> capture.rows[capture.current], by |-> scorer,
                      due |-> RunKey(prescribed.scorer, prescribed.row),
                      dueBy |-> prescribed.scorer]
                ELSE captured
    /\ UNCHANGED <<deciderRows, scorer, loaded, members, ruling, prescribed>>

\* A batch the store rolls back.
batch_fails ==
    /\ capture' = reload(RolledBack(capture), RunKey(scorer, LoadedRow(loaded)))
    /\ capture'.next <= MaxRun /\ capture' # capture
    /\ UNCHANGED <<deciderRows, scorer, loaded, members, ruling, captured, prescribed>>

\* A kill and Engine.start: nothing is remembered, a run is opened, not committed.
start ==
    LET row == Adopted(TRUE)
    IN /\ loaded' = KeyOf(row, TRUE) /\ scorer' = Built(row)
       /\ prescribed' = [row |-> row, scorer |-> Built(row)]
       /\ members' = IF LeagueDecides THEN League(adapted) ELSE {}
       /\ ruling' = Nil
       /\ capture' = open_run([RolledBack(capture) EXCEPT !.current = Nil],
                              RunKey(Built(row), row), TRUE)
       /\ capture'.next <= MaxRun
       /\ UNCHANGED <<deciderRows, captured>>

\* league_loop.judge_step, first transaction and comparison: the pinned member,
\* or any member that the site's labels favour; nothing if that is already so.
judge_reads ==
    /\ ruling = Nil /\ members # {}
    /\ \E m \in members : /\ setting.pin \in members => m = setting.pin
                          /\ ruling' = [champion |-> m, pinned |-> setting.pin # Nil]
    /\ ruling' # decision
    /\ UNCHANGED <<deciderRows, scorer, loaded, members, capture, captured, prescribed>>

\* ... and the second, whatever was set meanwhile; one that fails is rolled back.
judge_writes(commits) ==
    /\ ruling # Nil /\ ruling' = Nil
    /\ decision' = IF commits THEN ruling ELSE decision
    /\ capture' = IF commits THEN Committed(capture) ELSE RolledBack(capture)
    /\ UNCHANGED <<setting, scorer_active, adapted, scorer, loaded, members, captured, prescribed>>

-----------------------------------------------------------------------------
(* Requests *)

unseen == UNCHANGED <<decision, scorer, loaded, members, ruling, captured, prescribed>>

\* POST /api/scorer and /api/scorer/rollback: a configuration decides.
set_scorer(c) ==
    /\ scorer_active' = c /\ setting' = [mode |-> "additive", pin |-> Nil]
    /\ capture' = Committed(capture) /\ UNCHANGED adapted /\ unseen

\* POST /api/decider: the league decides, with a member pinned or none.
set_decider(pin) ==
    /\ pin # Nil => pin \in members
    /\ setting' = [mode |-> "shipped", pin |-> pin]
    /\ capture' = Committed(capture) /\ UNCHANGED <<scorer_active, adapted>> /\ unseen

\* POST /api/promotion, approved: a model version decides.
propose_promotion(m) ==
    /\ scorer_active' = m /\ setting' = [mode |-> "site", pin |-> Nil]
    /\ capture' = Committed(capture) /\ UNCHANGED adapted /\ unseen

\* A search registers the league's site model.
search_registers ==
    /\ ~adapted /\ adapted' = TRUE
    /\ capture' = Committed(capture) /\ UNCHANGED <<setting, scorer_active>> /\ unseen

\* A request that fails is rolled back, and nothing is reloaded (api/perimeter.py).
request_fails ==
    /\ capture' = RolledBack(capture) /\ capture' # capture
    /\ UNCHANGED <<setting, scorer_active, adapted>> /\ unseen

DecidersInit ==
    /\ setting = [mode |-> "shipped", pin |-> Nil] /\ scorer_active = Nil
    /\ decision = [champion |-> Nil, pinned |-> FALSE] /\ adapted = FALSE
    /\ scorer = FirstOf /\ loaded = [row |-> FirstOf, refused |-> FALSE]
    /\ members = Shipped /\ ruling = Nil
    /\ capture = [rows |-> <<RunKey(FirstOf, FirstOf)>>, loose |-> {1}, next |-> 2, current |-> 1]
    /\ captured = Nil /\ prescribed = [row |-> FirstOf, scorer |-> FirstOf]

DecidersNext ==
    \/ \E readable, leagueOk, inserts, ends \in BOOLEAN : pass(readable, leagueOk, inserts, ends)
    \/ batch_captured \/ batch_fails \/ start
    \/ judge_reads \/ \E commits \in BOOLEAN : judge_writes(commits)
    \/ \E c \in Configs : set_scorer(c)
    \/ \E pin \in Shipped \cup {Adapted, Nil} : set_decider(pin)
    \/ \E m \in Fits : propose_promotion(m)
    \/ search_registers \/ request_fails

DecidersSpec == DecidersInit /\ [][DecidersNext]_deciderVars

-----------------------------------------------------------------------------
(* Properties *)

DecidersTypeOK ==
    /\ setting \in [mode : {"shipped", "site", "additive"}, pin : Shipped \cup {Adapted, Nil}]
    /\ scorer_active \in Configs \cup Fits \cup {Nil} /\ scorer \in Anyone \cup {Formula}
    /\ capture.next \in 1 .. MaxRun /\ capture.loose \subseteq DOMAIN capture.rows

\* Every stored pair was scored by the decider that the rows prescribed at the
\* last load -- whichever keys earlier loads remembered, whatever was unreadable
\* or refused in between -- and its capture run carries that row's key, through
\* failed passes, rolled-back batches and requests, and restarts
\* (load_scorer_config, open_run, membership.reload).  Pairs the formula scored
\* because no row could be used are outside the second part: a pass that could
\* not read the rows ends before it opens a run for the formula.
PairsAreOfTheirRun ==
    captured # Nil => captured.by = captured.dueBy /\ (captured.by # Formula => captured.run = captured.due)
=============================================================================
