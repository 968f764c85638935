------------------------------ MODULE Windows ------------------------------
(***************************************************************************)
(* Maintenance windows over one network element and one fault of it        *)
(* (store/maintenance_windows.py, mw_ledger.py, mw_compile.py, engine/mw,  *)
(* engine/operate/window_sweep.py, api/routes/maintenance.py,              *)
(* maintenance_ops.py, api/mw_shape.py).                                   *)
(*                                                                         *)
(* A request acts on the row, a pass of the maintenance loop turns the rows*)
(* into the index the engine asks about every trap, and a trap the index   *)
(* hides leaves a mark in a ledger the engine keeps in memory until the    *)
(* next pass writes it to the table.  Requests that change a window read it*)
(* before their transaction.  Every window keeps a ledger; names, zones and*)
(* visibility decide nothing here.                                         *)
(***************************************************************************)
EXTENDS Integers, FiniteSets, FiniteSetsExt

CONSTANTS
    Windows,     \* ids, in the order rows are inserted
    Clients,     \* requests that change a window, in flight
    Spans,       \* the bounds a window may be given: <<starts_at, ends_at>>
    RuleSets,    \* what a window may say of the fault
    Patch,       \* patch_s: the margin at both ends
    Threshold,   \* CONFIRMATION_THRESHOLD_S
    Lookahead,   \* INDEX_LOOKAHEAD_S
    Lag,         \* bound: how long a trap waits to be classified
    MaxHour      \* bound: the clock

ASSUME WindowConstants ==
    /\ Windows \subseteq Nat /\ Windows # {}
    /\ RuleSets \subseteq {"untargeted", "admit", "hide"}
    /\ \A s \in Spans : s[1] \in Nat /\ s[2] \in Nat /\ s[1] < s[2]
    /\ {Patch, Threshold, Lookahead, Lag, MaxHour} \subseteq Nat

VARIABLES
    hour,    \* the clock
    window,  \* the maintenance_window rows with their targets and rules
    index,   \* engine.windows: what the last pass compiled
    noted,   \* StateLedger.entries: the fault under each window
    dirty,   \* StateLedger.dirty
    ledger,  \* the maintenance_ledger rows
    alarm,   \* the alarm row of the fault
    change,  \* per request, what it means to write
    held,    \* history: windows that hid the fault, if it has not cleared since
    forgone, \* history: windows whose memory was lost, ended by hand or revived
    agreed   \* history: the longest span of a window a human has agreed to

windowVars ==
    <<hour, window, index, noted, dirty, ledger, alarm, change, held, forgone, agreed>>

LIVE_STATUSES == {"pending_confirmation", "scheduled", "active"}
STATUSES == LIVE_STATUSES \cup {"absent", "ended", "cancelled", "expired"}
Absent == [status |-> "absent", starts |-> 0, ends |-> 0, rules |-> "hide", confirmed |-> FALSE]
Silent == [raised |-> FALSE, cleared |-> FALSE]
Unwritten == [raised |-> FALSE, cleared |-> FALSE, surfaced |-> FALSE]
Resting == [window |-> 0, starts |-> 0, ends |-> 0, rules |-> "hide", status |-> "absent"]

WindowsInit ==
    /\ hour = 0 /\ window = [w \in Windows |-> Absent] /\ index = {}
    /\ noted = [w \in Windows |-> Silent] /\ dirty = {}
    /\ ledger = [w \in Windows |-> Unwritten] /\ alarm = "none"
    /\ change = [c \in Clients |-> Resting]
    /\ held = {} /\ forgone = {} /\ agreed = [w \in Windows |-> 0]

Hours == 0 .. MaxHour
Bounds == {s[i] : s \in Spans, i \in 1 .. 2} \cup {0}

Changes == [window : Windows, starts : Bounds, ends : Bounds, rules : RuleSets \cup {"kept"},
            status : {"pending_confirmation", "scheduled", "active"}]

WindowsTypeOK ==
    /\ hour \in Hours /\ alarm \in {"none", "active", "cleared"}
    /\ window \in [Windows -> [status : STATUSES, starts : Bounds, ends : Bounds,
                               rules : RuleSets \cup {"hide"}, confirmed : BOOLEAN]]
    /\ index \subseteq [window : Windows, starts : Bounds, ends : Bounds,
                         rules : RuleSets \cup {"hide"}]
    /\ noted \in [Windows -> [raised : BOOLEAN, cleared : BOOLEAN]]
    /\ ledger \in [Windows -> [raised : BOOLEAN, cleared : BOOLEAN, surfaced : BOOLEAN]]
    /\ dirty \subseteq Windows /\ held \subseteq Windows /\ forgone \subseteq Windows
    /\ change \in [Clients -> Changes \cup {Resting}] /\ agreed \in [Windows -> Nat]

-----------------------------------------------------------------------------
(* Requests.                                                               *)

needs_confirmation(starts, ends) == ends - starts > Threshold

initial_status(starts) == IF starts <= hour THEN "active" ELSE "scheduled"

(* Agreement is asked for once, whatever the window grows to. *)
restatus_once(row, starts, ends) ==
    IF needs_confirmation(starts, ends) /\ ~row.confirmed
    THEN "pending_confirmation" ELSE initial_status(starts)

restatus(row, starts, ends) ==
    IF needs_confirmation(starts, ends) /\
          (~row.confirmed \/ ends - starts > row.ends - row.starts)
    THEN "pending_confirmation" ELSE initial_status(starts)

Agrees(w, row) ==
    agreed' = [agreed EXCEPT ![w] = Max({@, row.ends - row.starts})]

create_window(w) ==
    /\ window[w] = Absent /\ \A v \in Windows : v < w => window[v] # Absent
    /\ \E s \in Spans, r \in RuleSets, confirm \in BOOLEAN :
          LET needs == needs_confirmation(s[1], s[2])
              row == [status |-> IF needs /\ ~confirm THEN "pending_confirmation"
                                 ELSE initial_status(s[1]),
                      starts |-> s[1], ends |-> s[2], rules |-> r,
                      confirmed |-> needs /\ confirm]
          IN  /\ confirm => needs
              /\ window' = [window EXCEPT ![w] = row]
              /\ IF confirm THEN Agrees(w, row) ELSE UNCHANGED agreed
    /\ UNCHANGED <<hour, index, noted, dirty, ledger, alarm, change, held, forgone>>

(* What may not change under a window that runs. *)
frozen_while_active(row, starts, rules) ==
    row.status = "active" /\ (starts # row.starts \/ rules # row.rules)

Means(c, w, starts, ends, rules) ==
    /\ change' = [change EXCEPT ![c] =
         [window |-> w, starts |-> starts, ends |-> ends, rules |-> rules,
          status |-> restatus(window[w], starts, ends)]]
    /\ UNCHANGED <<hour, window, index, noted, dirty, ledger, alarm, held, forgone, agreed>>

update_window(c, w) ==
    /\ change[c] = Resting /\ window[w].status \in LIVE_STATUSES
    /\ \E s \in Spans, r \in RuleSets :
          /\ ~frozen_while_active(window[w], s[1], r)
          /\ window[w].status = "active" /\ s[2] # window[w].ends => s[2] > hour
          /\ Means(c, w, s[1], s[2], r)

(* An extension leaves the targets and the rules alone. *)
extend_window(c, w) ==
    /\ change[c] = Resting /\ window[w].status \in LIVE_STATUSES
    /\ \E e \in {s[2] : s \in Spans} :
          e > window[w].ends /\ Means(c, w, window[w].starts, e, "kept")

(* The transaction of an update or an extension: it does not read again. *)
update_window_schedule(c) ==
    LET m == change[c]
        w == m.window
    IN  /\ m # Resting
        /\ window' = [window EXCEPT ![w] =
             [status |-> m.status, starts |-> m.starts, ends |-> m.ends,
              rules |-> IF m.rules = "kept" THEN @.rules ELSE m.rules,
              confirmed |-> @.confirmed /\ m.status # "pending_confirmation"]]
        /\ forgone' = forgone \cup (IF window[w].status \in LIVE_STATUSES THEN {} ELSE {w})
        /\ change' = [change EXCEPT ![c] = Resting]
        /\ UNCHANGED <<hour, index, noted, dirty, ledger, alarm, held, agreed>>

confirm_window(w) ==
    /\ window[w].status = "pending_confirmation"
    /\ window' = [window EXCEPT ![w].status = "scheduled", ![w].confirmed = TRUE]
    /\ Agrees(w, window[w])
    /\ UNCHANGED <<hour, index, noted, dirty, ledger, alarm, change, held, forgone>>

cancel_window(w) ==
    /\ window[w].status \in LIVE_STATUSES
    /\ window' = [window EXCEPT ![w].status = "cancelled"]
    /\ UNCHANGED <<hour, index, noted, dirty, ledger, alarm, change, held, forgone, agreed>>

-----------------------------------------------------------------------------
(* The ledger and what surfaces from it.                                   *)

unresolved(row) == row.raised /\ ~row.cleared /\ ~row.surfaced

flush_ledger ==
    [w \in Windows |->
        IF w \in dirty
        THEN [raised |-> noted[w].raised \/ ledger[w].raised, cleared |-> noted[w].cleared,
              surfaced |-> ledger[w].surfaced]
        ELSE ledger[w]]

(* surface_ledger_entry leaves an active alarm as it is. *)
surface_entries(rows, ended) ==
    LET due == {w \in ended : unresolved(rows[w])}
    IN  /\ alarm' = IF due # {} THEN "active" ELSE alarm
        /\ ledger' = [w \in Windows |->
                        IF w \in due THEN [rows[w] EXCEPT !.surfaced = TRUE] ELSE rows[w]]

forget_window(ended) ==
    /\ noted' = [w \in Windows |-> IF w \in ended THEN Silent ELSE noted[w]]
    /\ dirty' = dirty \ ended

(* End now, whose transaction may still fail when it is audited: memory is *)
(* not part of it. *)
end_window(w, commits) ==
    /\ window[w].status \in LIVE_STATUSES
    /\ forget_window({w})
    /\ IF commits
       THEN /\ window' = [window EXCEPT ![w].status = "ended"]
            /\ surface_entries(ledger, {w})
            /\ forgone' = forgone \cup {w}
       ELSE /\ UNCHANGED <<window, alarm, ledger>>
            /\ forgone' = forgone \cup ({w} \cap dirty)
    /\ UNCHANGED <<hour, index, change, held, agreed>>

-----------------------------------------------------------------------------
(* A pass of the maintenance loop.                                         *)

Opens(row) == row.starts - Patch <= hour
Closes(row) == row.ends + Patch <= hour

(* A scheduled window no pass saw begin ends like an active one. *)
advance_status(row) ==
    CASE row.status = "pending_confirmation" /\ Opens(row) -> "expired"
      [] row.status \in {"scheduled", "active"} /\ Closes(row) -> "ended"
      [] row.status = "scheduled" /\ Opens(row) /\ ~Closes(row) -> "active"
      [] OTHER -> row.status

advance_statuses == [w \in Windows |-> [window[w] EXCEPT !.status = advance_status(window[w])]]

(* Only a window that was active ends. *)
just_ended_active == {w \in Windows : window[w].status = "active" /\ Closes(window[w])}

just_ended == {w \in Windows : window[w].status \in {"scheduled", "active"} /\ Closes(window[w])}

(* Rows as far ahead as the next pass may be late; those that are over have ended. *)
window_index_rows(rows) ==
    {[window |-> w, starts |-> rows[w].starts, ends |-> rows[w].ends, rules |-> rows[w].rules] :
        w \in {v \in Windows : /\ rows[v].status \in {"scheduled", "active"}
                               /\ rows[v].starts - Patch <= hour + Lookahead}}

maintenance_windows ==
    /\ window' = advance_statuses
    /\ surface_entries(flush_ledger, just_ended)
    /\ noted' = [w \in Windows |-> IF w \in just_ended THEN Silent ELSE noted[w]]
    /\ dirty' = {}
    /\ index' = window_index_rows(advance_statuses)
    /\ UNCHANGED <<hour, change, held, forgone, agreed>>

(* A pass that fails: the rows roll back; the engine keeps what it already *)
(* took out of its ledger, and the index once the pass has swapped it in.  *)
maintenance_fails(swapped) ==
    /\ IF swapped
       THEN /\ noted' = [w \in Windows |-> IF w \in just_ended THEN Silent ELSE noted[w]]
            /\ index' = window_index_rows(advance_statuses)
       ELSE UNCHANGED <<noted, index>>
    /\ forgone' = forgone \cup dirty /\ dirty' = {}
    /\ UNCHANGED <<hour, window, ledger, alarm, change, held, agreed>>

(* The process is gone and with it the ledger in memory, the index and the requests. *)
WindowsCrash ==
    /\ forgone' = forgone \cup dirty /\ dirty' = {}
    /\ noted' = [w \in Windows |-> Silent] /\ index' = {}
    /\ change' = [c \in Clients |-> Resting]
    /\ UNCHANGED <<hour, window, ledger, alarm, held, agreed>>

-----------------------------------------------------------------------------
(* A trap.                                                                 *)

covers(compiled, ts) ==
    compiled.starts - Patch <= ts /\ ts < compiled.ends + Patch

Covering(ts) == {i \in index : i.rules # "untargeted" /\ covers(i, ts)}

suppressed(ts) == Covering(ts) # {} /\ \A i \in Covering(ts) : i.rules # "admit"

(* The first of the windows that cover it answers for a hidden trap. *)
Answers(ts) == Min({i.window : i \in Covering(ts)})

observe_suppressed(w, clears) ==
    /\ noted' = [noted EXCEPT ![w] = IF clears THEN [@ EXCEPT !.cleared = TRUE]
                                     ELSE [raised |-> TRUE, cleared |-> FALSE]]
    /\ dirty' = dirty \cup {w}

process(clears, ts) ==
    /\ ts <= hour /\ hour - ts <= Lag
    /\ IF suppressed(ts)
       THEN /\ observe_suppressed(Answers(ts), clears)
            /\ held' = IF clears THEN {} ELSE held \cup {Answers(ts)}
            /\ UNCHANGED alarm
       ELSE /\ alarm' = IF ~clears THEN "active"
                        ELSE IF alarm = "active" THEN "cleared" ELSE alarm
            /\ held' = IF clears THEN {} ELSE held
            /\ UNCHANGED <<noted, dirty>>
    /\ UNCHANGED <<hour, window, index, ledger, change, forgone, agreed>>

WindowsTick ==
    /\ hour < MaxHour /\ hour' = hour + 1
    /\ UNCHANGED <<window, index, noted, dirty, ledger, alarm, change, held, forgone, agreed>>

WindowsNext ==
    \/ \E w \in Windows : create_window(w) \/ confirm_window(w) \/ cancel_window(w)
    \/ \E w \in Windows, c \in Clients : update_window(c, w) \/ extend_window(c, w)
    \/ \E c \in Clients : update_window_schedule(c)
    \/ \E w \in Windows, commits \in BOOLEAN : end_window(w, commits)
    \/ maintenance_windows
    \/ \E swapped \in BOOLEAN : maintenance_fails(swapped)
    \/ WindowsCrash
    \/ \E clears \in BOOLEAN, ts \in Hours : process(clears, ts)
    \/ WindowsTick

WindowsSpec == WindowsInit /\ [][WindowsNext]_windowVars

-----------------------------------------------------------------------------
(* A fault that outlives its window surfaces: when a window has ended by   *)
(* the clock, a fault it hid and that has not cleared since is an active   *)
(* alarm, unless the memory of the window was lost, it was ended by hand   *)
(* or a late request revived it (window_sweep.py _surface_window).         *)
OutlivesItsWindow ==
    \A w \in held \ forgone : window[w].status = "ended" => alarm = "active"

(* Two requests and a pass in any order: a window in force, and one the    *)
(* engine hides traps for, is no longer than the threshold or than what a  *)
(* human agreed to (mw_shape.py restatus).                                 *)
LongWindowsAreAgreed ==
    /\ \A w \in Windows : window[w].status \in {"scheduled", "active"} =>
          \/ ~needs_confirmation(window[w].starts, window[w].ends)
          \/ agreed[w] >= window[w].ends - window[w].starts
    /\ \A i \in index : ~needs_confirmation(i.starts, i.ends) \/ agreed[i.window] >= i.ends - i.starts

(* Nothing fails and nobody changes a window, except to end it now. *)
FaultlessSpec ==
    WindowsInit /\ [][\/ \E w \in Windows : create_window(w) \/ end_window(w, TRUE)
                     \/ maintenance_windows
                     \/ \E clears \in BOOLEAN, ts \in Hours : process(clears, ts)
                     \/ WindowsTick]_windowVars

(* "A fault that outlives its window surfaces", End now included: a fault  *)
(* hidden by a window that has ended, however it ended, is an active alarm *)
(* or waits in memory for the next pass (window_sweep.py                   *)
(* surface_window_now).                                                    *)
EndNowSurfaces ==
    \A w \in held \ dirty : window[w].status = "ended" => alarm = "active"

=============================================================================
