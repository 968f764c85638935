----------------------------- MODULE Situations -----------------------------
(***************************************************************************)
(* The life of a situation.  The database holds the situations' states and *)
(* the membership rows; the engine keeps two maps that mirror the rows of  *)
(* the live ones (sit_of and members, engine/operate/membership.py), which *)
(* the trap path reads instead.  Writers: the trap batch, the maintenance  *)
(* pass and the autonomy pass, and the operator's gestures, each a         *)
(* transaction under store.lock and so one step here.  A hand-clear reads  *)
(* the situation before it takes the lock and is two steps.  A batch or a  *)
(* pass that fails is rolled back and the maps are read back; a gesture    *)
(* that fails is rolled back too, and the maps stay as it left them.       *)
(*                                                                         *)
(* Abstracted: time (a hold, an idle hour or a silence is over whenever    *)
(* the model chooses), scores (the correlator may favour any situation it  *)
(* has seen), names, links, labels and the audit trail.                    *)
(***************************************************************************)
EXTENDS Naturals, FiniteSets, FiniteSetsExt

CONSTANTS
    Alarms,      \* alarm rows: one per (element, class, instance)
    NoClear,     \* those of a class that has no clear: OCCURRENCE_NOTIFICATIONS
    Windowed,    \* those of an element that maintenance windows cover
    MaxSit,      \* bound: situation ids the sequence hands out
    HandClears,  \* hand-clear routes in use, a subset of {"clear_alarm", "clear_alarms"}
    Modes,       \* grouping rules in use, a subset of {"cluster", "components"}
    Mishaps,     \* what may go wrong, a subset of MishapClasses
    MaxMishaps   \* bound: mishaps in one behaviour

(* "gesture": a storage error rolls a gesture back after its memory half.  *)
(* "surface": a window surfaces an alarm that a live situation still       *)
(* holds.  "join": connected components take an alarm that has a situation *)
(* to one with a lower id.                                                 *)
MishapClasses == {"gesture", "surface", "join"}

ASSUME SituationConstants ==
    /\ IsFiniteSet(Alarms) /\ NoClear \subseteq Alarms /\ Windowed \subseteq Alarms
    /\ MaxSit \in Nat /\ MaxMishaps \in Nat
    /\ HandClears \subseteq {"clear_alarm", "clear_alarms"}
    /\ Modes \subseteq {"cluster", "components"} /\ Mishaps \subseteq MishapClasses

VARIABLES
    db,       \* the tables: see Tables
    mem,      \* the engine's maps: see Maps
    asked,    \* the hand-clear between its read and its lock, Nobody if none
    suffered  \* history: how many mishaps of each class so far

vars == <<db, mem, asked, suffered>>

Sits == 1 .. MaxSit
LIVE == {"new", "pending", "open"}

(* situation (status, proposed_into), situation_alarm (rows), alarm        *)
(* (active), proposal_decision (rejected) and the id sequence.  "none" is  *)
(* an id with no row: not handed out yet, or rolled back.                  *)
Tables == [seq : 0 .. MaxSit,
           status : [Sits -> LIVE \cup {"none", "resolved"}],
           into : [Sits -> 0 .. MaxSit],
           rows : [Sits -> SUBSET Alarms],
           active : SUBSET Alarms,
           rejected : SUBSET (Sits \X Sits)]

(* Engine.members is a dictionary of lists: tracked are its keys, members  *)
(* how often each alarm is in a list.  sitOf is 0 where sit_of has no key. *)
Maps == [tracked : SUBSET Sits,
         members : [Sits -> [Alarms -> Nat]],
         sitOf : [Alarms -> 0 .. MaxSit],
         rejected : SUBSET (Sits \X Sits)]

Nobody == [route |-> "none", sid |-> 0, alarms |-> {}]

Empty == [a \in Alarms |-> 0]
Held(m, s) == {a \in Alarms : m.members[s][a] > 0}

Live(d, s) == d.status[s] \in LIVE
Burning(d, s) == d.rows[s] \cap d.active # {}
(* Mutant of Quiet: what nobody touched is closed, burning or not.         *)
QuietOrNot(d) == {s \in Sits : Live(d, s)}
Quiet(d) == {s \in Sits : Live(d, s) /\ ~Burning(d, s)}
Visible(d, a) == \E s \in Sits : Live(d, s) /\ a \in d.rows[s]

Init ==
    /\ db = [seq |-> 0, status |-> [s \in Sits |-> "none"], into |-> [s \in Sits |-> 0],
             rows |-> [s \in Sits |-> {}], active |-> {}, rejected |-> {}]
    /\ mem = [tracked |-> {}, members |-> [s \in Sits |-> Empty],
              sitOf |-> [a \in Alarms |-> 0], rejected |-> {}]
    /\ asked = Nobody
    /\ suffered = [c \in MishapClasses |-> 0]

Total == suffered["gesture"] + suffered["surface"] + suffered["join"]
Suffered(c) == suffered[c] > 0

Suffer(c) ==
    /\ c \in Mishaps /\ Total < MaxMishaps
    /\ suffered' = [suffered EXCEPT ![c] = @ + 1]

SufferIf(c, happens) == IF happens THEN Suffer(c) ELSE UNCHANGED suffered

----------------------------------------------------------------------------
(* The maps.                                                               *)

(* Engine.forget_situation, for each of the situations.                    *)
Forget(m, gone) ==
    [m EXCEPT !.tracked = @ \ gone,
              !.members = [s \in Sits |-> IF s \in gone THEN Empty ELSE @[s]],
              !.sitOf = [a \in Alarms |-> IF \E s \in gone : m.members[s][a] > 0 THEN 0 ELSE @[a]]]

(* How often an alarm is in the lists of some situations.                  *)
Entries(m, S, a) == Cardinality(UNION {{s} \X (1 .. m.members[s][a]) : s \in S})

(* membership.merged and _assign_situation's merge loop: the sources'      *)
(* lists are appended to the destination's.                                *)
MemMerged(m, dst, srcs) ==
    LET gone == UNION {Held(m, s) : s \in srcs}
    IN  [m EXCEPT !.tracked = (@ \ srcs) \cup (IF gone = {} THEN {} ELSE {dst}),
                  !.members = [s \in Sits |-> IF s \in srcs THEN Empty ELSE
                                              IF s = dst THEN [a \in Alarms |-> Entries(m, srcs \cup {dst}, a)]
                                              ELSE @[s]],
                  !.sitOf = [a \in Alarms |-> IF a \in gone THEN dst ELSE @[a]]]

(* membership.moved, for each alarm that moves: one entry of the list      *)
(* travels, and an alarm with no entry or no tracked destination is        *)
(* dropped from sit_of.                                                    *)
MemMoved(m, from, to, moving) ==
    LET lands == {a \in moving \cap Held(m, from) : to \in m.tracked}
    IN  [m EXCEPT !.members[from] = [a \in Alarms |-> IF a \in moving /\ @[a] > 0 THEN @[a] - 1 ELSE @[a]],
                  !.members[to] = [a \in Alarms |-> IF a \in lands THEN @[a] + 1 ELSE @[a]],
                  !.sitOf = [a \in Alarms |-> IF a \in lands THEN to ELSE IF a \in moving THEN 0 ELSE @[a]]]

(* Mutant of MemSplit: the engine does not track the new situation.        *)
MemSplitUntracked(m, s, new, departing) ==
    [m EXCEPT !.members[s] = [a \in Alarms |-> IF a \in departing THEN 0 ELSE @[a]],
              !.sitOf = [a \in Alarms |-> IF a \in departing THEN 0 ELSE @[a]]]

(* membership.split.                                                       *)
MemSplit(m, s, new, departing) ==
    LET left == departing \cap Held(m, s)
    IN  [m EXCEPT !.tracked = @ \cup {new},
                  !.members[s] = [a \in Alarms |-> IF a \in departing THEN 0 ELSE @[a]],
                  !.members[new] = [a \in Alarms |-> IF a \in departing THEN m.members[s][a] ELSE 0],
                  !.sitOf = [a \in Alarms |-> IF a \in left THEN new ELSE @[a]]]

(* membership.reload: the rows of the live situations, read in the order   *)
(* of their ids.  The rejected pairs are not read again.                   *)
Reloaded(d, m) ==
    LET holding(a) == {s \in Sits : Live(d, s) /\ a \in d.rows[s]}
    IN  [m EXCEPT !.tracked = {s \in Sits : Live(d, s) /\ d.rows[s] # {}},
                  !.members = [s \in Sits |-> [a \in Alarms |-> IF s \in holding(a) THEN 1 ELSE 0]],
                  !.sitOf = [a \in Alarms |-> IF holding(a) = {} THEN 0 ELSE Max(holding(a))]]

----------------------------------------------------------------------------
(* The rows.                                                               *)

(* Mutants of Promoted: the proposal is left on the row; no state guard.   *)
PromotedStillProposing(d, s) ==
    IF d.status[s] \in {"new", "pending"} THEN [d EXCEPT !.status[s] = "open"] ELSE d
PromotedAnyway(d, s) == [d EXCEPT !.status[s] = "open", !.into[s] = 0]

(* promote_situation.                                                      *)
Promoted(d, s) ==
    IF d.status[s] \in {"new", "pending"}
    THEN [d EXCEPT !.status[s] = "open", !.into[s] = 0]
    ELSE d

(* Mutant of Resolved: LIVE without the pending state.                     *)
ResolvedNotPending(d, over) ==
    [d EXCEPT !.status = [s \in Sits |-> IF s \in over /\ @[s] \in {"new", "open"} THEN "resolved" ELSE @[s]]]

(* resolve_situation and manual_close_situation, for each of the           *)
(* situations that is live.                                                *)
Resolved(d, over) ==
    [d EXCEPT !.status = [s \in Sits |-> IF s \in over /\ @[s] \in LIVE THEN "resolved" ELSE @[s]]]

(* merge_situations, once per source.                                      *)
DbMerged(d, dst, srcs) ==
    [d EXCEPT !.rows = [s \in Sits |-> IF s = dst THEN UNION {@[x] : x \in srcs \cup {dst}} ELSE
                                       IF s \in srcs THEN {} ELSE @[s]],
              !.status = [s \in Sits |-> IF s \in srcs /\ @[s] # "none" THEN "resolved" ELSE @[s]]]

(* create_situation: the next id, in the state its act gives it.           *)
Created(d, status) == [d EXCEPT !.seq = @ + 1, !.status[d.seq + 1] = status]

(* Mutant of Lapsed: the pass does not look at the proposals.              *)
LapsedNever(d) == d

(* proposals.lapse: a proposal whose target is no longer open.             *)
Lapsed(d) ==
    LET orphans == {s \in Sits : /\ d.status[s] = "pending"
                                 /\ d.into[s] = 0 \/ d.status[d.into[s]] # "open"}
    IN  [d EXCEPT !.status = [s \in Sits |-> IF s \in orphans THEN "new" ELSE @[s]],
                  !.into = [s \in Sits |-> IF s \in orphans THEN 0 ELSE @[s]]]

----------------------------------------------------------------------------
(* The trap batch: where an activation goes.                               *)

(* What Grouper.place may answer when it has scored the newcomer against   *)
(* alarms of the situations in near.  Cluster: an alarm with a situation   *)
(* stays in it; another joins the best or opens one; any may be merged.    *)
(* Components: everything linked merges into its lowest id.                *)
Cluster(near, own) ==
    {p \in [join : IF own # 0 THEN {own} ELSE near \cup {0}, merge : SUBSET near] :
        p.join \notin p.merge /\ (p.join = 0 => p.merge = {})}

Components(near, own) ==
    {IF linked = {} THEN [join |-> 0, merge |-> {}]
     ELSE [join |-> Min(linked), merge |-> linked \ {Min(linked)}] :
        linked \in {(seen \cup {own}) \ {0} : seen \in SUBSET near}}

Placements(near, own) ==
    UNION {IF mode = "cluster" THEN Cluster(near, own) ELSE Components(near, own) : mode \in Modes}

(* lifecycle_states, with the default route gives an id that has no row.   *)
StateOf(d, s) == IF d.status[s] = "none" THEN "new" ELSE d.status[s]

LowestOr0(S) == IF S = {} THEN 0 ELSE Min(S)

(* The bags that may fold into a proposal to join t.                       *)
MayPropose(d, m, s, t) ==
    \/ StateOf(d, s) = "new" /\ <<s, t>> \notin m.rejected
    \/ StateOf(d, s) = "pending" /\ d.into[s] = t

(* Mutant of Route: an open situation grows as a new one does.             *)
RouteGrowsOpen(d, m, p, own) ==
    [sid |-> IF p.join \in m.tracked THEN p.join ELSE 0,
     merges |-> {x \in (p.merge \cap m.tracked) : StateOf(d, x) = "new"}, propose |-> 0]

(* proposals.route: what the engine may do with a placement.               *)
Route(d, m, p, own) ==
    LET sid == IF p.join \in m.tracked THEN p.join ELSE 0
        merges == (p.merge \cap m.tracked) \ {sid}
        ids == (merges \cup {sid}) \ {0}
        target == IF sid # 0 /\ StateOf(d, sid) = "open" THEN sid
                  ELSE LowestOr0({x \in merges : StateOf(d, x) = "open" /\ <<sid, x>> \notin m.rejected})
        pending == LowestOr0({s \in Sits : d.status[s] = "pending" /\ d.into[s] = target})
        grows == sid # 0 /\ StateOf(d, sid) = "pending"
        to(s, folds, t) == [sid |-> s, merges |-> folds, propose |-> t]
    IN  CASE grows -> to(sid, {x \in merges : MayPropose(d, m, x, d.into[sid])}, 0)
          [] ~grows /\ target = 0 -> to(sid, {x \in merges : StateOf(d, x) = "new"}, 0)
          [] ~grows /\ target # 0 /\ own = target -> to(target, {}, 0)
          [] OTHER -> to(pending, {x \in ids \ {target, pending} : MayPropose(d, m, x, target)}, target)

(* _assign_situation.  An insert that names a rolled-back id breaks the    *)
(* foreign key: landed is then FALSE and the batch fails (BatchFails).     *)
Assign(d, m, a, r) ==
    LET opens == r.sid = 0 \/ r.sid \notin m.tracked
        sid == IF opens THEN d.seq + 1 ELSE r.sid
        d1 == IF opens THEN Created(d, IF r.propose = 0 THEN "new" ELSE "pending") ELSE d
        m1 == IF opens THEN [m EXCEPT !.tracked = @ \cup {sid}] ELSE m
        d2 == IF r.propose = 0 THEN d1 ELSE [d1 EXCEPT !.into[sid] = r.propose]
        executed == (r.merges \cap m1.tracked) \ {sid}
        d3 == DbMerged(d2, sid, executed)
        m3 == MemMerged(m1, sid, executed)
        joins == m3.sitOf[a] # sid
        d4 == IF joins THEN [d3 EXCEPT !.rows[sid] = @ \cup {a}] ELSE d3
    IN  [db |-> d4,
         mem |-> IF joins THEN [m3 EXCEPT !.sitOf[a] = sid, !.members[sid][a] = @ + 1] ELSE m3,
         landed |-> d4.status[sid] # "none" \/ d4.rows[sid] = {}]

(* store.ingest and occurrence.rearm: what a raise of a leaves, when it    *)
(* goes on to be correlated.  A repeat of an active alarm does so when no  *)
(* live situation holds it, or when it was silent for the re-arm window    *)
(* and is the only member still on: its situation is then over.            *)
SoleActive(d, s, a) == d.rows[s] \cap d.active = {a}

Activates(a) ==
    \/ a \notin db.active
    \/ mem.sitOf[a] = 0
    \/ mem.sitOf[a] # 0 /\ SoleActive(db, mem.sitOf[a], a) /\ Live(db, mem.sitOf[a])

Raised(a) ==
    IF a \in db.active /\ mem.sitOf[a] # 0
    THEN [db |-> Resolved(db, {mem.sitOf[a]}), mem |-> Forget(mem, {mem.sitOf[a]})]
    ELSE [db |-> [db EXCEPT !.active = @ \cup {a}], mem |-> mem]

(* The situations of the alarms the correlator can score a against: those  *)
(* that are on, as far as its window and its memory reach.                 *)
Candidates(r, a) == {r.mem.sitOf[b] : b \in r.db.active \ {a}} \ {0}

(* _process, for a raise that is correlated.                               *)
Raise(a) ==
    /\ Activates(a)
    /\ LET r == Raised(a)
           own == r.mem.sitOf[a]
       IN  \E p \in Placements(Candidates(r, a), own) :
             LET route == Route(r.db, r.mem, p, own)
                 done == Assign(r.db, r.mem, a, route)
             IN  /\ r.db.seq < MaxSit \/ route.sid \in r.mem.tracked
                 /\ done.landed
                 /\ db' = done.db
                 /\ mem' = done.mem
                 /\ SufferIf("join", own \notin {0, p.join})
    /\ UNCHANGED asked

(* _process, for a raise the flap detector takes out before it is placed.  *)
RaiseFlapping(a) ==
    /\ Activates(a)
    /\ db' = Raised(a).db
    /\ mem' = Raised(a).mem
    /\ UNCHANGED <<asked, suffered>>

(* _handle_clear and _handle_state_clear: the situation is left live.      *)
ClearTrap(a) ==
    /\ a \in db.active
    /\ db' = [db EXCEPT !.active = @ \ {a}]
    /\ UNCHANGED <<mem, asked, suffered>>

(* A storage error in the batch or in the pass: rollback, then reload.     *)
BatchFails ==
    /\ mem' = Reloaded(db, mem)
    /\ UNCHANGED <<db, asked, suffered>>

(* The process starts again: Engine.start.                                 *)
Restart ==
    /\ mem' = [Reloaded(db, mem) EXCEPT !.rejected = db.rejected]
    /\ asked' = Nobody
    /\ UNCHANGED <<db, suffered>>

----------------------------------------------------------------------------
(* The maintenance pass and the autonomy pass.                             *)

(* _surface_entries: the faults a window saw raised and never cleared, in  *)
(* one new situation.  One that is active already is left alone.           *)
Surfaced(d, m, faults) ==
    LET new == d.seq + 1
    IN  IF faults = {} THEN [db |-> d, mem |-> m] ELSE
        [db |-> [Created(d, "new") EXCEPT !.rows[new] = faults, !.active = @ \cup faults],
         mem |-> [m EXCEPT !.tracked = @ \cup {new},
                           !.members[new] = [a \in Alarms |-> IF a \in faults THEN 1 ELSE 0],
                           !.sitOf = [a \in Alarms |-> IF a \in faults THEN new ELSE @[a]]]]

Surfaces(d, faults) ==
    /\ faults \cap d.active = {}
    /\ faults # {} => d.seq < MaxSit

ShownTwice(d, faults) == \E a \in faults : Visible(d, a)

(* Engine.maintenance: occurrences with no clear of their own end, what    *)
(* nothing has happened to for its hold is closed, proposals lapse, an     *)
(* ended window surfaces its faults, and old resolved situations are       *)
(* pruned.                                                                 *)
Maintenance(ended, closing, faults, pruned) ==
    LET d1 == [db EXCEPT !.active = @ \ ended]
        d2 == Resolved(d1, closing)
        m2 == Forget(mem, closing)
        d3 == Lapsed(d2)
        done == Surfaced(d3, m2, faults)
    IN  /\ Surfaces(d3, faults)
        /\ db' = [done.db EXCEPT !.rows = [s \in Sits |-> IF s \in pruned THEN {} ELSE @[s]]]
        /\ mem' = done.mem
        /\ SufferIf("surface", ShownTwice(d3, faults))
        /\ UNCHANGED asked

Sweep ==
    \E ended \in SUBSET (db.active \cap NoClear) :
        LET d == [db EXCEPT !.active = @ \ ended]
        IN  \E closing \in SUBSET Quiet(d), faults \in SUBSET (Windowed \ d.active),
               pruned \in SUBSET {s \in Sits : db.status[s] = "resolved" /\ db.rows[s] # {}} :
                   Maintenance(ended, closing, faults, pruned)

(* A transaction whose memory half is done before its last statement: it   *)
(* commits, or a storage error rolls the rows back and write_txn (or       *)
(* _model_ops) leaves the maps.  The id sequence is not rolled back.       *)
Txn(d, m) ==
    \/ db' = d /\ mem' = m /\ UNCHANGED suffered
    \/ /\ m # mem
       /\ db' = [db EXCEPT !.seq = d.seq]
       /\ mem' = m
       /\ Suffer("gesture")

(* Clearing alarms by hand under situation s: the model's _close, and the  *)
(* end of both hand-clear routes.                                          *)
AllCleared(d, s) == ~Burning(d, s)

ClearedUnder(d, m, s) ==
    IF s # 0 /\ AllCleared(d, s)
    THEN [db |-> Resolved(d, {s}), mem |-> Forget(m, {s})]
    ELSE [db |-> d, mem |-> m]

(* autonomy._act: the model accepts a new grouping as an incident.         *)
AutonomyAccepts(s) ==
    /\ db.status[s] = "new"
    /\ Cardinality(db.rows[s]) >= 2
    /\ db' = Promoted(db, s)
    /\ UNCHANGED <<mem, asked, suffered>>

(* autonomy._close: the alarms still on cannot clear on their own.         *)
AutonomyCloses(s) ==
    /\ Live(db, s) /\ Burning(db, s) /\ ~(db.rows[s] \subseteq db.active)
    /\ LET done == ClearedUnder([db EXCEPT !.active = @ \ db.rows[s]], mem, s)
       IN  Txn(done.db, done.mem)
    /\ UNCHANGED asked

----------------------------------------------------------------------------
(* The operator's gestures.                                                *)

(* promote_situation and feedback.                                         *)
Promote(s) ==
    /\ Live(db, s)
    /\ db' = Promoted(db, s)
    /\ UNCHANGED <<mem, asked, suffered>>

(* close_situation: the maps forget it once the close is committed, with   *)
(* no await in between.                                                    *)
Close(s) ==
    /\ Live(db, s)
    /\ db' = Resolved(db, {s})
    /\ mem' = Forget(mem, {s})
    /\ UNCHANGED <<asked, suffered>>

(* move_alarm.                                                             *)
Move(s, t, moving) ==
    /\ s # t /\ Live(db, s) /\ Live(db, t)
    /\ moving # {} /\ moving \subseteq db.rows[s] /\ moving # db.rows[s]
    /\ Txn(Promoted([db EXCEPT !.rows[s] = @ \ moving, !.rows[t] = @ \cup moving], s),
           MemMoved(mem, s, t, moving))
    /\ UNCHANGED asked

(* merge_situations.                                                       *)
Merge(s, src) ==
    /\ s # src /\ Live(db, s) /\ Live(db, src)
    /\ Txn(Promoted(DbMerged(db, s, {src}), s), MemMerged(mem, s, {src}))
    /\ UNCHANGED asked

(* split_situation.                                                        *)
Split(s, departing) ==
    LET new == db.seq + 1
    IN  /\ db.seq < MaxSit /\ Live(db, s)
        /\ departing # {} /\ departing \subseteq db.rows[s] /\ departing # db.rows[s]
        /\ Txn(Promoted([Created(db, "open") EXCEPT !.rows[s] = @ \ departing,
                                                    !.rows[new] = departing], s),
               MemSplit(mem, s, new, departing))
        /\ UNCHANGED asked

(* answer_proposal: the pending bag merges into its target, or becomes a   *)
(* situation of its own that is not proposed there again.                  *)
Answerable(s) == db.status[s] = "pending" /\ db.into[s] # 0 /\ db.status[db.into[s]] = "open"

Accept(s) ==
    /\ Answerable(s)
    /\ Txn(DbMerged(db, db.into[s], {s}), MemMerged(mem, db.into[s], {s}))
    /\ UNCHANGED asked

Reject(s) ==
    LET pair == <<s, db.into[s]>>
    IN  /\ Answerable(s)
        /\ Txn([db EXCEPT !.status[s] = "new", !.into[s] = 0, !.rejected = @ \cup {pair}],
               [mem EXCEPT !.rejected = @ \cup {pair}])
        /\ UNCHANGED asked

(* end_window: a window ended by hand surfaces what it suppressed.         *)
EndWindow(faults) ==
    /\ faults # {}
    /\ Surfaces(db, faults)
    /\ LET done == Surfaced(db, mem, faults)
       IN  \/ /\ db' = done.db /\ mem' = done.mem
              /\ SufferIf("surface", ShownTwice(db, faults))
           \/ /\ db' = [db EXCEPT !.seq = @ + 1] /\ mem' = done.mem
              /\ Suffer("gesture")
    /\ UNCHANGED asked

(* clear_alarm reads the situation of the alarm before it takes the lock:  *)
(* situation_of_alarm returns any of its rows.                             *)
AskClear(a, s) ==
    /\ asked = Nobody /\ "clear_alarm" \in HandClears
    /\ a \in db.active
    /\ IF s = 0 THEN \A x \in Sits : a \notin db.rows[x] ELSE a \in db.rows[s]
    /\ asked' = [route |-> "clear_alarm", sid |-> s, alarms |-> {a}]
    /\ UNCHANGED <<db, mem, suffered>>

(* clear_alarms reads the members of the situation it was given.           *)
AskClearAll(s, chosen) ==
    /\ asked = Nobody /\ "clear_alarms" \in HandClears
    /\ chosen # {} /\ chosen \subseteq db.rows[s]
    /\ asked' = [route |-> "clear_alarms", sid |-> s, alarms |-> chosen]
    /\ UNCHANGED <<db, mem, suffered>>

(* The rest of both, under the lock.  Nothing active is left to clear: the *)
(* single route refuses, the other does nothing.                           *)
HandClear ==
    LET cleared == asked.alarms \cap db.active
        d1 == [db EXCEPT !.active = @ \ cleared]
        done == ClearedUnder(IF asked.sid = 0 THEN d1 ELSE Promoted(d1, asked.sid), mem, asked.sid)
    IN  /\ asked # Nobody
        /\ IF cleared = {} THEN UNCHANGED <<db, mem, suffered>> ELSE Txn(done.db, done.mem)
        /\ asked' = Nobody

Gesture ==
    \/ \E s \in Sits : Promote(s) \/ Close(s) \/ Accept(s) \/ Reject(s)
    \/ \E s, t \in Sits : Merge(s, t) \/ \E A \in SUBSET Alarms : Move(s, t, A)
    \/ \E A \in SUBSET Windowed : EndWindow(A)
    \/ \E s \in Sits, A \in SUBSET Alarms : Split(s, A) \/ AskClearAll(s, A)
    \/ \E a \in Alarms, s \in 0 .. MaxSit : AskClear(a, s)
    \/ HandClear

Next ==
    \/ \E a \in Alarms : Raise(a) \/ RaiseFlapping(a) \/ ClearTrap(a)
    \/ BatchFails \/ Restart \/ Sweep
    \/ \E s \in Sits : AutonomyAccepts(s) \/ AutonomyCloses(s)
    \/ Gesture

Spec == Init /\ [][Next]_vars

(* The pass comes round while the process runs, and no hold or idle hour   *)
(* lasts for ever: what is quiet and stays quiet is closed by some pass.   *)
FairSpec == Spec /\ WF_vars(Maintenance({}, Quiet(db), {}, {}))

----------------------------------------------------------------------------
(* Properties.                                                             *)

(* The types, and a list only under a key of the dictionary.               *)
TypeOK ==
    /\ db \in Tables /\ mem \in Maps
    /\ \A s \in Sits \ mem.tracked : mem.members[s] = Empty
    /\ asked \in [route : HandClears \cup {"none"}, sid : 0 .. MaxSit, alarms : SUBSET Alarms]
    /\ suffered \in [MishapClasses -> 0 .. MaxMishaps]

(* The engine's two maps say what the rows say: it tracks exactly the live *)
(* situations, each with the members the database gives it, once, and an   *)
(* alarm's situation is the one live situation that holds it.  Unless a    *)
(* gesture was rolled back, or an alarm was put in a second situation, on  *)
(* the way.                                                                *)
MapsMatchRows ==
    Total = 0 =>
        /\ mem.tracked = {s \in Sits : Live(db, s)}
        /\ \A s \in mem.tracked, a \in Alarms : mem.members[s][a] = IF a \in db.rows[s] THEN 1 ELSE 0
        /\ \A a \in Alarms, s \in Sits : Live(db, s) /\ a \in db.rows[s] <=> mem.sitOf[a] = s

(* No step but an operator's close, or a raise taken out as flapping,      *)
(* takes an alarm that stays on out of every live situation: in particular *)
(* no sweep, no hand-clear that read its situation too early, no merge.    *)
NothingBurningIsDropped ==
    [][\A a \in db.active \cap db'.active :
          Visible(db, a) /\ ~Visible(db', a)
              => (\E s \in Sits : Close(s)) \/ (\E b \in Alarms : RaiseFlapping(b))]_vars

(* A model never grows an open situation: the members of a situation an    *)
(* operator confirmed change, and it is merged away, by a gesture only.    *)
ConfirmedIsTheOperators ==
    [][\A s \in Sits : db.status[s] = "open" /\ db'.rows[s] # db.rows[s] =>
          \/ \E t \in Sits : Merge(s, t) \/ Merge(t, s) \/ Accept(t)
          \/ \E A \in SUBSET Alarms : Split(s, A) \/ \E t \in Sits : Move(s, t, A) \/ Move(t, s, A)]_vars

(* A resolved situation is over: it is never live again and gains no       *)
(* member, whatever a late gesture or a stale map names it for.            *)
ResolvedIsFinal ==
    [][\A s \in Sits : db.status[s] = "resolved"
          => db'.status[s] = "resolved" /\ db'.rows[s] \subseteq db.rows[s]]_vars

(* A target has at most one pending bag, a pending bag names the target    *)
(* it proposes to join, and only a pending or resolved one names any;      *)
(* unless a gesture that was rolled back hid the pending bag from the      *)
(* engine.                                                                 *)
OneProposal ==
    ~Suffered("gesture") =>
        /\ \A s, t \in Sits : db.status[s] = "pending" /\ db.status[t] = "pending"
                              /\ db.into[s] = db.into[t] => s = t
        /\ \A s \in Sits : db.status[s] = "pending" => db.into[s] \notin {0, s}
        /\ \A s \in Sits : db.status[s] \in {"new", "open"} => db.into[s] = 0

(* A proposal whose target was resolved or merged away is a situation of   *)
(* its own again, or answered otherwise, in the end.                       *)
ProposalLapses ==
    \A s \in Sits :
        (db.status[s] = "pending" /\ db.into[s] # 0 /\ db.status[db.into[s]] # "open")
            ~> (db.status[s] # "pending")

(* A situation whose members have all cleared is resolved in the end, or   *)
(* burns again.                                                            *)
QuietResolves == \A s \in Sits : (s \in Quiet(db)) ~> (s \notin Quiet(db))
=============================================================================
