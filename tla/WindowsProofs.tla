--------------------------- MODULE WindowsProofs ---------------------------
(***************************************************************************)
(* For any windows, requests, clocks and margins: a window in force is no  *)
(* longer than somebody agreed to, and a fault a window hid is an alarm    *)
(* when the window has ended.                                              *)
(*                                                                         *)
(* Neither is inductive.  A request writes a status it worked out earlier, *)
(* so what it means to write must fit what was agreed; and a fault that is *)
(* hidden must be in the memory or in the table of its window until then,  *)
(* not yet surfaced, and no window that has ended may hide another.        *)
(***************************************************************************)
EXTENDS Windows, WellFoundedInduction, TLAPS

Fits(w, length) == length <= Threshold \/ agreed[w] >= length

Agreement ==
    /\ \A w \in Windows :
          window[w].status \in {"scheduled", "active"} \/ window[w].confirmed
            => Fits(w, window[w].ends - window[w].starts)
    /\ \A c \in Clients :
          change[c] # Resting /\ change[c].status # "pending_confirmation"
            => Fits(change[c].window, change[c].ends - change[c].starts)
    /\ \A i \in index : Fits(i.window, i.ends - i.starts)

InMemory(w) == w \in dirty /\ noted[w].raised /\ ~noted[w].cleared
InTable(w) == w \notin dirty /\ unresolved(ledger[w])

Surfacing ==
    \A w \in Windows \ forgone :
        /\ ledger[w].surfaced => window[w].status = "ended"
        /\ window[w].status = "ended" => \A i \in index : i.window # w
        /\ w \in held => IF window[w].status = "ended" THEN alarm = "active"
                         ELSE InMemory(w) \/ InTable(w)

-----------------------------------------------------------------------------
(* Every set of naturals that is not empty has its least element.          *)
LEMMA Least ==
    ASSUME NEW S, S \subseteq Nat, S # {}
    PROVE  Min(S) \in S
<1>1. \E R : /\ IsWellFoundedOn(R, Nat)
             /\ \A x, y \in Nat : x < y => <<x, y>> \in R
  <2>1. IsWellFoundedOn(OpToRel(<, Nat), Nat)
    BY NatLessThanWellFounded
  <2>2. \A x, y \in Nat : x < y => <<x, y>> \in OpToRel(<, Nat)
    BY Zenon DEF OpToRel
  <2> QED
    BY <2>1, <2>2, Zenon
<1>2. PICK R : /\ IsWellFoundedOn(R, Nat)
               /\ \A x, y \in Nat : x < y => <<x, y>> \in R
  BY <1>1, Zenon
<1>3. PICK x \in S : \A y \in S : ~ (<<y, x>> \in R)
  <2>1. IsWellFoundedOn(R, Nat)
    BY <1>2
  <2> QED
    BY <2>1, WFMin, ZenonT(30)
<1>4. \A y \in S : x <= y
  <2> SUFFICES ASSUME NEW y \in S, ~ (x <= y) PROVE FALSE
    OBVIOUS
  <2>1. y < x
    OBVIOUS
  <2> QED
    BY <1>2, <1>3, <2>1
<1> QED
  BY <1>3, <1>4 DEF Min

LEMMA Greater ==
    ASSUME NEW a \in Nat, NEW b \in Int
    PROVE  Max({a, b}) \in Nat /\ Max({a, b}) >= a /\ Max({a, b}) >= b
BY DEF Max

LEMMA BoundsAreNumbers == Bounds \subseteq Nat /\ 0 \in Bounds /\ \A s \in Spans : s[1] \in Bounds /\ s[2] \in Bounds
BY WindowConstants DEF Bounds

(* What a statement leaves of a row that is written whole.                 *)
Rows == [status : STATUSES, starts : Bounds, ends : Bounds, rules : RuleSets \cup {"hide"},
         confirmed : BOOLEAN]
Compiled == [window : Windows, starts : Bounds, ends : Bounds, rules : RuleSets \cup {"hide"}]
Notes == [raised : BOOLEAN, cleared : BOOLEAN]
Entries == [raised : BOOLEAN, cleared : BOOLEAN, surfaced : BOOLEAN]

LEMMA WindowTypes ==
    ASSUME WindowsTypeOK
    PROVE  /\ window \in [Windows -> Rows] /\ index \subseteq Compiled
           /\ noted \in [Windows -> Notes] /\ ledger \in [Windows -> Entries]
           /\ hour \in 0 .. MaxHour /\ alarm \in {"none", "active", "cleared"}
           /\ dirty \subseteq Windows /\ held \subseteq Windows /\ forgone \subseteq Windows
           /\ change \in [Clients -> Changes \cup {Resting}] /\ agreed \in [Windows -> Nat]
BY DEF WindowsTypeOK, Rows, Compiled, Notes, Entries, Hours

(* The status a pass gives a row.                                          *)
LEMMA Advances ==
    ASSUME NEW row \in Rows
    PROVE  /\ advance_status(row) \in STATUSES
           /\ advance_status(row) = "ended"
                <=> row.status = "ended" \/ (row.status \in {"scheduled", "active"} /\ Closes(row))
           /\ advance_status(row) \in {"scheduled", "active"} => row.status \in {"scheduled", "active"}
<1>1. row.status \in STATUSES
  BY DEF Rows
<1> QED
  BY <1>1 DEF advance_status, STATUSES, LIVE_STATUSES

LEMMA StatusesAdvance ==
    ASSUME WindowsTypeOK
    PROVE  /\ advance_statuses \in [Windows -> Rows]
           /\ \A w \in Windows :
                /\ advance_statuses[w].starts = window[w].starts
                /\ advance_statuses[w].ends = window[w].ends
                /\ advance_statuses[w].confirmed = window[w].confirmed
                /\ advance_statuses[w].status = "ended"
                     <=> window[w].status = "ended" \/ w \in just_ended
                /\ advance_statuses[w].status \in {"scheduled", "active"}
                     => window[w].status \in {"scheduled", "active"}
<1>1. \A w \in Windows : window[w] \in Rows
  BY WindowTypes
<1>2. \A w \in Windows : advance_status(window[w]) \in STATUSES
  BY <1>1, Advances
<1>3. \A w \in Windows : advance_statuses[w] = [window[w] EXCEPT !.status = advance_status(window[w])]
  BY DEF advance_statuses
<1>4. \A w \in Windows : /\ advance_statuses[w] \in Rows
                         /\ advance_statuses[w].status = advance_status(window[w])
                         /\ advance_statuses[w].starts = window[w].starts
                         /\ advance_statuses[w].ends = window[w].ends
                         /\ advance_statuses[w].confirmed = window[w].confirmed
  BY <1>1, <1>2, <1>3 DEF Rows
<1>5. advance_statuses \in [Windows -> Rows]
  <2>1. advance_statuses = [w \in Windows |-> advance_statuses[w]]
    BY DEF advance_statuses
  <2> QED
    BY <1>4, <2>1
<1> QED
  BY <1>1, <1>4, <1>5, Advances DEF just_ended

(* What the pass compiles: only rows that are in force or will be.         *)
LEMMA Compiles ==
    ASSUME NEW rows \in [Windows -> Rows]
    PROVE  /\ window_index_rows(rows) \subseteq Compiled
           /\ \A i \in window_index_rows(rows) :
                /\ i.window \in Windows
                /\ i.starts = rows[i.window].starts /\ i.ends = rows[i.window].ends
                /\ rows[i.window].status \in {"scheduled", "active"}
BY DEF window_index_rows, Rows, Compiled

-----------------------------------------------------------------------------
LEMMA WindowsBegin == WindowsInit => WindowsTypeOK /\ Agreement /\ Surfacing
<1> SUFFICES ASSUME WindowsInit PROVE WindowsTypeOK /\ Agreement /\ Surfacing
  OBVIOUS
<1>1. 0 \in Bounds /\ 0 \in Hours /\ 0 \in Nat
  BY BoundsAreNumbers, WindowConstants DEF Hours
<1>2. /\ Absent \in [status : STATUSES, starts : Bounds, ends : Bounds, rules : RuleSets \cup {"hide"},
                     confirmed : BOOLEAN]
      /\ Silent \in [raised : BOOLEAN, cleared : BOOLEAN]
      /\ Unwritten \in [raised : BOOLEAN, cleared : BOOLEAN, surfaced : BOOLEAN]
  BY <1>1 DEF Absent, Silent, Unwritten, STATUSES
<1>3. WindowsTypeOK
  BY <1>1, <1>2 DEF WindowsInit, WindowsTypeOK
<1>4. Agreement
  BY DEF WindowsInit, Agreement, Absent
<1>5. Surfacing
  BY DEF WindowsInit, Surfacing, Absent, Unwritten
<1> QED
  BY <1>3, <1>4, <1>5

(* What an edit or an extension means to write fits what was agreed: a     *)
(* confirmed window that grows is asked for again (restatus).              *)
LEMMA Restates ==
    ASSUME WindowsTypeOK, Agreement, NEW w \in Windows, NEW starts \in Bounds, NEW ends \in Bounds
    PROVE  /\ restatus(window[w], starts, ends) \in {"pending_confirmation", "scheduled", "active"}
           /\ restatus(window[w], starts, ends) # "pending_confirmation" => Fits(w, ends - starts)
<1>1. /\ window[w].starts \in Int /\ window[w].ends \in Int /\ starts \in Int /\ ends \in Int
      /\ agreed[w] \in Nat /\ Threshold \in Nat /\ window[w].confirmed \in BOOLEAN
  <2>1. window[w] \in Rows /\ agreed[w] \in Nat
    BY WindowTypes
  <2>2. Threshold \in Nat
    BY WindowConstants
  <2>3. \A b \in Bounds : b \in Int
    BY BoundsAreNumbers
  <2>4. window[w].starts \in Bounds /\ window[w].ends \in Bounds /\ window[w].confirmed \in BOOLEAN
    BY <2>1 DEF Rows
  <2> QED
    BY <2>1, <2>2, <2>3, <2>4
<1>2. restatus(window[w], starts, ends) \in {"pending_confirmation", "scheduled", "active"}
  BY DEF restatus, initial_status
<1>3. ASSUME restatus(window[w], starts, ends) # "pending_confirmation"
      PROVE  Fits(w, ends - starts)
  <2>1. CASE ~needs_confirmation(starts, ends)
    BY <1>1, <2>1 DEF needs_confirmation, Fits
  <2>2. CASE window[w].confirmed /\ ends - starts <= window[w].ends - window[w].starts
    <3>1. Fits(w, window[w].ends - window[w].starts)
      BY <2>2 DEF Agreement
    <3> QED
      BY <1>1, <2>2, <3>1 DEF Fits
  <2>3. CASE needs_confirmation(starts, ends)
             /\ (~window[w].confirmed \/ ends - starts > window[w].ends - window[w].starts)
    BY <1>3, <2>3 DEF restatus
  <2>4. window[w].confirmed => \/ ends - starts > window[w].ends - window[w].starts
                              \/ ends - starts <= window[w].ends - window[w].starts
    BY <1>1
  <2> QED
    BY <2>1, <2>2, <2>3, <2>4
<1> QED
  BY <1>2, <1>3

(* A request reads: only what it means to write changes.                   *)
LEMMA MeaningKeeps ==
    ASSUME WindowsTypeOK, Agreement, Surfacing,
           NEW c \in Clients, NEW w \in Windows, NEW starts \in Bounds, NEW ends \in Bounds,
           NEW rules \in RuleSets \cup {"kept"}, Means(c, w, starts, ends, rules)
    PROVE  WindowsTypeOK' /\ Agreement' /\ Surfacing'
<1> DEFINE status == restatus(window[w], starts, ends)
           meant == [window |-> w, starts |-> starts, ends |-> ends, rules |-> rules, status |-> status]
<1>1. /\ change' = [change EXCEPT ![c] = meant]
      /\ hour' = hour /\ window' = window /\ index' = index /\ noted' = noted /\ dirty' = dirty
      /\ ledger' = ledger /\ alarm' = alarm /\ held' = held /\ forgone' = forgone /\ agreed' = agreed
  BY DEF Means
<1>2. status \in {"pending_confirmation", "scheduled", "active"}
      /\ (status # "pending_confirmation" => Fits(w, ends - starts))
  BY Restates
<1> HIDE DEF status
<1>3. meant \in Changes
  BY <1>2 DEF Changes
<1>4. change \in [Clients -> Changes \cup {Resting}]
  BY WindowTypes
<1>5. WindowsTypeOK'
  BY <1>1, <1>3, <1>4 DEF WindowsTypeOK
<1>6. Agreement'
  <2>1. \A w2 \in Windows : \A length : Fits(w2, length)' = Fits(w2, length)
    BY <1>1 DEF Fits
  <2>2. ASSUME NEW d \in Clients, change'[d] # Resting, change'[d].status # "pending_confirmation"
        PROVE  Fits(change'[d].window, change'[d].ends - change'[d].starts)
    <3>1. CASE d = c
      BY <1>1, <1>2, <1>4, <2>2, <3>1
    <3>2. CASE d # c
      BY <1>1, <1>4, <2>2, <3>2 DEF Agreement
    <3> QED
      BY <3>1, <3>2
  <2> QED
    BY <1>1, <2>2 DEF Agreement, Fits
<1>7. Surfacing'
  BY <1>1 DEF Surfacing, InMemory, InTable, unresolved
<1> QED
  BY <1>5, <1>6, <1>7

(* A row is written, and what was agreed does not shrink: the row fits.    *)
LEMMA RowKeepsAgreement ==
    ASSUME WindowsTypeOK, Agreement, NEW w \in Windows, NEW row \in Rows,
           window' = [window EXCEPT ![w] = row], index' = index,
           agreed' \in [Windows -> Nat], \A v \in Windows : agreed'[v] >= agreed[v],
           \A c \in Clients : change'[c] = change[c] \/ change'[c] = Resting,
           row.status \in {"scheduled", "active"} \/ row.confirmed
             => row.ends - row.starts <= Threshold \/ agreed'[w] >= row.ends - row.starts
    PROVE  Agreement'
<1>1. /\ window \in [Windows -> Rows] /\ index \subseteq Compiled
      /\ change \in [Clients -> Changes \cup {Resting}] /\ agreed \in [Windows -> Nat]
      /\ Bounds \subseteq Nat /\ Threshold \in Nat
  BY WindowTypes, BoundsAreNumbers, WindowConstants
<1>2. ASSUME NEW v \in Windows, NEW a \in Bounds, NEW b \in Bounds, Fits(v, b - a)
      PROVE  b - a <= Threshold \/ agreed'[v] >= b - a
  <2>1. agreed[v] \in Int /\ agreed'[v] \in Int /\ a \in Int /\ b \in Int /\ Threshold \in Int
    BY <1>1
  <2> QED
    BY <1>2, <2>1 DEF Fits
<1>3. ASSUME NEW v \in Windows, window'[v].status \in {"scheduled", "active"} \/ window'[v].confirmed
      PROVE  window'[v].ends - window'[v].starts <= Threshold
             \/ agreed'[v] >= window'[v].ends - window'[v].starts
  <2>1. CASE v = w
    BY <1>1, <1>3, <2>1
  <2>2. CASE v # w
    <3>1. window'[v] = window[v] /\ window[v] \in Rows
      BY <1>1, <2>2
    <3>2. Fits(v, window[v].ends - window[v].starts)
      BY <1>3, <3>1 DEF Agreement
    <3> QED
      BY <1>2, <3>1, <3>2 DEF Rows
  <2> QED
    BY <2>1, <2>2
<1>4. ASSUME NEW c \in Clients, change'[c] # Resting, change'[c].status # "pending_confirmation"
      PROVE  change'[c].ends - change'[c].starts <= Threshold
             \/ agreed'[change'[c].window] >= change'[c].ends - change'[c].starts
  <2>1. change'[c] = change[c] /\ change[c] \in Changes
    BY <1>1, <1>4
  <2>2. Fits(change[c].window, change[c].ends - change[c].starts)
    BY <1>4, <2>1 DEF Agreement
  <2> QED
    BY <1>2, <2>1, <2>2 DEF Changes
<1>5. ASSUME NEW i \in index
      PROVE  i.ends - i.starts <= Threshold \/ agreed'[i.window] >= i.ends - i.starts
  <2>1. i \in Compiled /\ Fits(i.window, i.ends - i.starts)
    BY <1>1 DEF Agreement
  <2> QED
    BY <1>2, <2>1 DEF Compiled
<1> QED
  BY <1>3, <1>4, <1>5 DEF Agreement, Fits

(* A row that had not ended has not ended now, or its memory is written off. *)
LEMMA RowKeepsSurfacing ==
    ASSUME WindowsTypeOK, Surfacing, NEW w \in Windows, NEW row \in Rows,
           window' = [window EXCEPT ![w] = row], index' = index, noted' = noted, dirty' = dirty,
           ledger' = ledger, alarm' = alarm, held' = held, forgone \subseteq forgone',
           w \in forgone' \/ (window[w].status # "ended" /\ row.status # "ended")
    PROVE  Surfacing'
<1> SUFFICES ASSUME NEW v \in Windows \ forgone'
             PROVE  /\ ledger[v].surfaced => window'[v].status = "ended"
                    /\ window'[v].status = "ended" => \A i \in index : i.window # v
                    /\ v \in held => IF window'[v].status = "ended" THEN alarm = "active"
                                     ELSE InMemory(v) \/ InTable(v)
  BY DEF Surfacing, InMemory, InTable, unresolved
<1>1. v \in Windows \ forgone /\ window \in [Windows -> Rows]
  BY WindowTypes
<1>2. CASE v = w
  BY <1>1, <1>2 DEF Surfacing
<1>3. CASE v # w
  BY <1>1, <1>3 DEF Surfacing
<1> QED
  BY <1>2, <1>3

(* The two together, for every request that writes a row.                  *)
LEMMA RowKeeps ==
    ASSUME WindowsTypeOK, Agreement, Surfacing, NEW w \in Windows, NEW row \in Rows,
           window' = [window EXCEPT ![w] = row],
           /\ hour' = hour /\ index' = index /\ noted' = noted /\ dirty' = dirty
           /\ ledger' = ledger /\ alarm' = alarm /\ held' = held,
           forgone' = forgone \/ forgone' = forgone \cup {w},
           w \in forgone' \/ (window[w].status # "ended" /\ row.status # "ended"),
           change' \in [Clients -> Changes \cup {Resting}],
           \A c \in Clients : change'[c] = change[c] \/ change'[c] = Resting,
           agreed' \in [Windows -> Nat], \A v \in Windows : agreed'[v] >= agreed[v],
           row.status \in {"scheduled", "active"} \/ row.confirmed
             => row.ends - row.starts <= Threshold \/ agreed'[w] >= row.ends - row.starts
    PROVE  WindowsTypeOK' /\ Agreement' /\ Surfacing'
<1>1. window' \in [Windows -> Rows]
  BY WindowTypes
<1>2. WindowsTypeOK'
  BY <1>1 DEF WindowsTypeOK, Rows
<1>3. Agreement'
  BY RowKeepsAgreement
<1>4. Surfacing'
  BY RowKeepsSurfacing
<1> QED
  BY <1>2, <1>3, <1>4

(* Somebody agrees to the length a row has.                                *)
LEMMA Agreeing ==
    ASSUME WindowsTypeOK, NEW w \in Windows, NEW row \in Rows, Agrees(w, row)
    PROVE  /\ agreed' \in [Windows -> Nat] /\ \A v \in Windows : agreed'[v] >= agreed[v]
           /\ agreed'[w] >= row.ends - row.starts
<1>1. agreed \in [Windows -> Nat] /\ agreed[w] \in Nat /\ row.ends - row.starts \in Int
  <2>1. \A b \in Bounds : b \in Int
    BY BoundsAreNumbers
  <2>2. row.starts \in Int /\ row.ends \in Int
    BY <2>1 DEF Rows
  <2> QED
    BY <2>2, WindowTypes
<1>2. agreed' = [agreed EXCEPT ![w] = Max({agreed[w], row.ends - row.starts})]
  BY DEF Agrees
<1>3. /\ Max({agreed[w], row.ends - row.starts}) \in Nat
      /\ Max({agreed[w], row.ends - row.starts}) >= agreed[w]
      /\ Max({agreed[w], row.ends - row.starts}) >= row.ends - row.starts
  BY <1>1, Greater
<1>4. ASSUME NEW v \in Windows PROVE agreed'[v] \in Nat /\ agreed'[v] >= agreed[v]
  <2>1. CASE v = w
    BY <1>1, <1>2, <1>3, <2>1
  <2>2. CASE v # w
    BY <1>1, <1>2, <2>2
  <2> QED
    BY <2>1, <2>2
<1>5. agreed'[w] = Max({agreed[w], row.ends - row.starts})
  BY <1>1, <1>2
<1>6. agreed' \in [Windows -> Nat]
  BY <1>1, <1>2, <1>3
<1> QED
  BY <1>3, <1>4, <1>5, <1>6

LEMMA AgreedStays ==
    ASSUME WindowsTypeOK, agreed' = agreed
    PROVE  agreed' \in [Windows -> Nat] /\ \A v \in Windows : agreed'[v] >= agreed[v]
BY WindowTypes

LEMMA CreateWindowKeeps ==
    ASSUME WindowsTypeOK, Agreement, Surfacing, NEW w \in Windows, create_window(w)
    PROVE  WindowsTypeOK' /\ Agreement' /\ Surfacing'
<1>1. PICK s \in Spans, r \in RuleSets, confirm \in BOOLEAN :
        LET needs == needs_confirmation(s[1], s[2])
            row == [status |-> IF needs /\ ~confirm THEN "pending_confirmation"
                               ELSE initial_status(s[1]),
                    starts |-> s[1], ends |-> s[2], rules |-> r, confirmed |-> needs /\ confirm]
        IN  /\ confirm => needs
            /\ window' = [window EXCEPT ![w] = row]
            /\ IF confirm THEN Agrees(w, row) ELSE UNCHANGED agreed
  BY DEF create_window
<1> DEFINE needs == needs_confirmation(s[1], s[2])
           row == [status |-> IF needs /\ ~confirm THEN "pending_confirmation"
                              ELSE initial_status(s[1]),
                   starts |-> s[1], ends |-> s[2], rules |-> r, confirmed |-> needs /\ confirm]
<1>2. /\ confirm => needs
      /\ window' = [window EXCEPT ![w] = row]
      /\ IF confirm THEN Agrees(w, row) ELSE agreed' = agreed
  BY <1>1
<1>3. row \in Rows /\ row.status # "ended"
  BY BoundsAreNumbers DEF Rows, needs_confirmation, initial_status, STATUSES, LIVE_STATUSES
<1>4. window[w].status # "ended"
  BY DEF create_window, Absent
<1>5. /\ row.ends - row.starts = s[2] - s[1]
      /\ ~needs => row.ends - row.starts <= Threshold
  <2>1. s[1] \in Int /\ s[2] \in Int /\ Threshold \in Int
    BY BoundsAreNumbers, WindowConstants
  <2> QED
    BY <2>1 DEF needs_confirmation
<1>6. /\ agreed' \in [Windows -> Nat] /\ \A v \in Windows : agreed'[v] >= agreed[v]
      /\ confirm => agreed'[w] >= row.ends - row.starts
  BY <1>2, <1>3, Agreeing, AgreedStays
<1>7. row.status \in {"scheduled", "active"} \/ row.confirmed
        => row.ends - row.starts <= Threshold \/ agreed'[w] >= row.ends - row.starts
  <2>1. row.status \in {"scheduled", "active"} \/ row.confirmed => ~needs \/ confirm
    BY <1>2
  <2> QED
    BY <1>5, <1>6, <2>1
<1>8. change \in [Clients -> Changes \cup {Resting}]
  BY WindowTypes
<1> HIDE DEF row, needs
<1> QED
  BY <1>2, <1>3, <1>4, <1>6, <1>7, <1>8, RowKeeps DEF create_window

LEMMA ConfirmKeeps ==
    ASSUME WindowsTypeOK, Agreement, Surfacing, NEW w \in Windows, confirm_window(w)
    PROVE  WindowsTypeOK' /\ Agreement' /\ Surfacing'
<1> DEFINE row == [window[w] EXCEPT !.status = "scheduled", !.confirmed = TRUE]
<1>1. window[w] \in Rows /\ window \in [Windows -> Rows] /\ change \in [Clients -> Changes \cup {Resting}]
  BY WindowTypes
<1>2. /\ row \in Rows /\ row.status = "scheduled"
      /\ row.starts = window[w].starts /\ row.ends = window[w].ends
  BY <1>1 DEF Rows, STATUSES, LIVE_STATUSES
<1>3. window' = [window EXCEPT ![w] = row] /\ window[w].status = "pending_confirmation"
  BY <1>1 DEF confirm_window
<1>4. /\ agreed' \in [Windows -> Nat] /\ \A v \in Windows : agreed'[v] >= agreed[v]
      /\ agreed'[w] >= row.ends - row.starts
  BY <1>1, <1>2, Agreeing DEF confirm_window
<1> HIDE DEF row
<1> QED
  BY <1>1, <1>2, <1>3, <1>4, RowKeeps DEF confirm_window

LEMMA CancelKeeps ==
    ASSUME WindowsTypeOK, Agreement, Surfacing, NEW w \in Windows, cancel_window(w)
    PROVE  WindowsTypeOK' /\ Agreement' /\ Surfacing'
<1> DEFINE row == [window[w] EXCEPT !.status = "cancelled"]
<1>1. window[w] \in Rows /\ window \in [Windows -> Rows] /\ change \in [Clients -> Changes \cup {Resting}]
  BY WindowTypes
<1>2. /\ row \in Rows /\ row.status = "cancelled" /\ row.confirmed = window[w].confirmed
      /\ row.starts = window[w].starts /\ row.ends = window[w].ends
  BY <1>1 DEF Rows, STATUSES
<1>3. window' = [window EXCEPT ![w] = row] /\ window[w].status # "ended"
  BY <1>1 DEF cancel_window, LIVE_STATUSES
<1>4. row.confirmed => Fits(w, row.ends - row.starts)
  BY <1>2 DEF Agreement
<1>5. /\ agreed' \in [Windows -> Nat] /\ \A v \in Windows : agreed'[v] >= agreed[v] /\ agreed' = agreed
  BY WindowTypes, AgreedStays DEF cancel_window
<1>6. row.confirmed => row.ends - row.starts <= Threshold \/ agreed'[w] >= row.ends - row.starts
  BY <1>4, <1>5 DEF Fits
<1> HIDE DEF row
<1> QED
  BY <1>1, <1>2, <1>3, <1>5, <1>6, RowKeeps DEF cancel_window

(* The write that does not read again: it fits, since what was agreed has  *)
(* only grown; a window that was over by then is written off.              *)
LEMMA WritingKeeps ==
    ASSUME WindowsTypeOK, Agreement, Surfacing, NEW c \in Clients, update_window_schedule(c)
    PROVE  WindowsTypeOK' /\ Agreement' /\ Surfacing'
<1> DEFINE m == change[c]
<1>1. m \in Changes /\ window \in [Windows -> Rows] /\ change \in [Clients -> Changes \cup {Resting}]
  BY WindowTypes DEF update_window_schedule
<1> PICK w \in Windows : w = m.window
  BY <1>1 DEF Changes
<1> DEFINE row == [status |-> m.status, starts |-> m.starts, ends |-> m.ends,
                   rules |-> IF m.rules = "kept" THEN window[w].rules ELSE m.rules,
                   confirmed |-> window[w].confirmed /\ m.status # "pending_confirmation"]
<1>2. row \in Rows /\ row.status # "ended"
  BY <1>1 DEF Changes, Rows, STATUSES, LIVE_STATUSES
<1>3. /\ window' = [window EXCEPT ![w] = row]
      /\ forgone' = forgone \cup (IF window[w].status \in LIVE_STATUSES THEN {} ELSE {w})
      /\ change' = [change EXCEPT ![c] = Resting]
      /\ hour' = hour /\ index' = index /\ noted' = noted /\ dirty' = dirty
      /\ ledger' = ledger /\ alarm' = alarm /\ held' = held /\ agreed' = agreed
  BY <1>1 DEF update_window_schedule
<1>4. row.status \in {"scheduled", "active"} \/ row.confirmed
        => row.ends - row.starts <= Threshold \/ agreed'[w] >= row.ends - row.starts
  <2>1. ASSUME m.status # "pending_confirmation" PROVE Fits(w, m.ends - m.starts)
    <3>1. m # Resting
      BY DEF update_window_schedule
    <3> QED
      BY <2>1, <3>1 DEF Agreement
  <2> QED
    BY <1>3, <2>1 DEF Fits
<1>5. /\ forgone' = forgone \/ forgone' = forgone \cup {w}
      /\ w \in forgone' \/ window[w].status # "ended"
  BY <1>3 DEF LIVE_STATUSES
<1>6. /\ change' \in [Clients -> Changes \cup {Resting}]
      /\ \A d \in Clients : change'[d] = change[d] \/ change'[d] = Resting
  BY <1>1, <1>3
<1> HIDE DEF row, m
<1> QED
  BY <1>2, <1>3, <1>4, <1>5, <1>6, AgreedStays, RowKeeps

-----------------------------------------------------------------------------
(* The ledger.                                                             *)

LEMMA Flushes ==
    ASSUME WindowsTypeOK
    PROVE  /\ flush_ledger \in [Windows -> Entries]
           /\ \A w \in Windows : flush_ledger[w].surfaced = ledger[w].surfaced
           /\ \A w \in Windows :
                (InMemory(w) \/ InTable(w)) /\ ~ledger[w].surfaced => unresolved(flush_ledger[w])
BY WindowTypes DEF flush_ledger, InMemory, InTable, unresolved, Entries, Notes

(* What a window whose time is up leaves: its fault is an alarm, and its   *)
(* row of the ledger says so.                                              *)
LEMMA Surfaces ==
    ASSUME NEW rows \in [Windows -> Entries], NEW ended \in SUBSET Windows,
           alarm \in {"none", "active", "cleared"}, surface_entries(rows, ended)
    PROVE  /\ ledger' \in [Windows -> Entries] /\ alarm' \in {"none", "active", "cleared"}
           /\ alarm = "active" => alarm' = "active"
           /\ \A w \in Windows :
                /\ ledger'[w].surfaced => rows[w].surfaced \/ w \in ended
                /\ w \in ended /\ unresolved(rows[w]) => alarm' = "active"
                /\ w \notin ended => ledger'[w] = rows[w]
<1> DEFINE due == {w \in ended : unresolved(rows[w])}
<1>1. /\ alarm' = IF due # {} THEN "active" ELSE alarm
      /\ ledger' = [w \in Windows |-> IF w \in due THEN [rows[w] EXCEPT !.surfaced = TRUE] ELSE rows[w]]
  BY DEF surface_entries
<1>2. due \subseteq ended /\ \A w \in ended : unresolved(rows[w]) => w \in due
  OBVIOUS
<1> HIDE DEF due
<1> QED
  BY <1>1, <1>2 DEF Entries

LEMMA EndNowKeeps ==
    ASSUME WindowsTypeOK, Agreement, Surfacing, NEW w \in Windows, NEW commits \in BOOLEAN,
           end_window(w, commits)
    PROVE  WindowsTypeOK' /\ Agreement' /\ Surfacing'
<1> DEFINE row == [window[w] EXCEPT !.status = "ended"]
<1>1. /\ window[w] \in Rows /\ window \in [Windows -> Rows] /\ window[w].status # "ended"
      /\ noted \in [Windows -> Notes] /\ ledger \in [Windows -> Entries]
      /\ alarm \in {"none", "active", "cleared"}
  BY WindowTypes DEF end_window, LIVE_STATUSES
<1>2. /\ row \in Rows /\ row.status = "ended" /\ row.confirmed = window[w].confirmed
      /\ row.starts = window[w].starts /\ row.ends = window[w].ends
  BY <1>1 DEF Rows, STATUSES
<1>3. /\ noted' = [v \in Windows |-> IF v \in {w} THEN Silent ELSE noted[v]] /\ dirty' = dirty \ {w}
      /\ hour' = hour /\ index' = index /\ change' = change /\ held' = held /\ agreed' = agreed
  BY DEF end_window, forget_window
<1>4. noted' \in [Windows -> Notes]
  BY <1>1, <1>3 DEF Silent, Notes
<1>5. CASE commits
  <2>1. /\ window' = [window EXCEPT ![w] = row] /\ surface_entries(ledger, {w})
        /\ forgone' = forgone \cup {w}
    BY <1>1, <1>5 DEF end_window
  <2>2. /\ ledger' \in [Windows -> Entries] /\ alarm' \in {"none", "active", "cleared"}
        /\ alarm = "active" => alarm' = "active"
        /\ \A v \in Windows : v # w => ledger'[v] = ledger[v]
    BY <1>1, <2>1, Surfaces
  <2>3. window' \in [Windows -> Rows]
    BY <1>1, <1>2, <2>1
  <2>4. WindowsTypeOK'
    BY <1>3, <1>4, <2>1, <2>2, <2>3 DEF WindowsTypeOK, Rows, Entries, Notes
  <2>5. Agreement'
    <3>1. row.confirmed => Fits(w, row.ends - row.starts)
      BY <1>2 DEF Agreement
    <3> HIDE DEF row
    <3>2. row.status \in {"scheduled", "active"} \/ row.confirmed
            => row.ends - row.starts <= Threshold \/ agreed'[w] >= row.ends - row.starts
      BY <1>2, <1>3, <3>1 DEF Fits
    <3> QED
      BY <1>2, <1>3, <2>1, <3>2, AgreedStays, RowKeepsAgreement
  <2>6. Surfacing'
    <3> SUFFICES ASSUME NEW v \in Windows \ forgone'
                 PROVE  /\ ledger'[v].surfaced => window'[v].status = "ended"
                        /\ window'[v].status = "ended" => \A i \in index' : i.window # v
                        /\ v \in held' => IF window'[v].status = "ended" THEN alarm' = "active"
                                          ELSE InMemory(v)' \/ InTable(v)'
      BY DEF Surfacing
    <3>1. v # w /\ v \in Windows \ forgone
      BY <2>1
    <3>2. /\ window'[v] = window[v] /\ ledger'[v] = ledger[v] /\ noted'[v] = noted[v]
          /\ v \in dirty' <=> v \in dirty
      BY <1>1, <1>3, <2>1, <2>2, <3>1
    <3> QED
      BY <1>3, <2>2, <3>1, <3>2 DEF Surfacing, InMemory, InTable
  <2> QED
    BY <2>4, <2>5, <2>6
<1>6. CASE ~commits
  <2>1. /\ window' = window /\ alarm' = alarm /\ ledger' = ledger
        /\ forgone' = forgone \cup ({w} \cap dirty)
    BY <1>6 DEF end_window
  <2>2. WindowsTypeOK'
    BY <1>3, <1>4, <2>1 DEF WindowsTypeOK, Notes
  <2>3. Agreement'
    BY <1>3, <2>1 DEF Agreement, Fits
  <2>4. Surfacing'
    <3> SUFFICES ASSUME NEW v \in Windows \ forgone'
                 PROVE  /\ ledger[v].surfaced => window[v].status = "ended"
                        /\ window[v].status = "ended" => \A i \in index : i.window # v
                        /\ v \in held => IF window[v].status = "ended" THEN alarm = "active"
                                         ELSE InMemory(v)' \/ InTable(v)'
      BY <1>3, <2>1 DEF Surfacing
    <3>1. v \in Windows \ forgone /\ (v = w => v \notin dirty)
      BY <2>1
    <3>2. v # w => noted'[v] = noted[v] /\ (v \in dirty' <=> v \in dirty)
      BY <1>3
    <3>3. InMemory(v) \/ InTable(v) => InMemory(v)' \/ InTable(v)'
      BY <1>3, <2>1, <3>1, <3>2 DEF InMemory, InTable
    <3> QED
      BY <3>1, <3>3 DEF Surfacing
  <2> QED
    BY <2>2, <2>3, <2>4
<1> QED
  BY <1>5, <1>6

-----------------------------------------------------------------------------
(* The loop.                                                               *)

(* What the pass compiles is in force, so it fits and has not ended.       *)
LEMMA CompiledFits ==
    ASSUME WindowsTypeOK, Agreement, NEW i \in window_index_rows(advance_statuses)
    PROVE  /\ i \in Compiled /\ Fits(i.window, i.ends - i.starts)
           /\ advance_statuses[i.window].status # "ended"
<1>1. /\ i \in Compiled /\ i.window \in Windows
      /\ i.starts = advance_statuses[i.window].starts /\ i.ends = advance_statuses[i.window].ends
      /\ advance_statuses[i.window].status \in {"scheduled", "active"}
  BY StatusesAdvance, Compiles
<1>2. /\ window[i.window].status \in {"scheduled", "active"}
      /\ i.starts = window[i.window].starts /\ i.ends = window[i.window].ends
  BY <1>1, StatusesAdvance
<1> QED
  BY <1>1, <1>2 DEF Agreement

(* The part of the ledger in memory that the pass takes out.               *)
LEMMA TakenOut ==
    ASSUME WindowsTypeOK, NEW ended,
           noted' = [w \in Windows |-> IF w \in ended THEN Silent ELSE noted[w]]
    PROVE  noted' \in [Windows -> [raised : BOOLEAN, cleared : BOOLEAN]]
BY WindowTypes DEF Notes, Silent

LEMMA PassKeeps ==
    ASSUME WindowsTypeOK, Agreement, Surfacing, maintenance_windows
    PROVE  WindowsTypeOK' /\ Agreement' /\ Surfacing'
<1>1. /\ window' = advance_statuses /\ surface_entries(flush_ledger, just_ended)
      /\ noted' = [w \in Windows |-> IF w \in just_ended THEN Silent ELSE noted[w]]
      /\ dirty' = {} /\ index' = window_index_rows(advance_statuses)
      /\ hour' = hour /\ change' = change /\ held' = held /\ forgone' = forgone /\ agreed' = agreed
  BY DEF maintenance_windows
<1>2. just_ended \in SUBSET Windows
  BY DEF just_ended
<1>3. /\ ledger' \in [Windows -> Entries] /\ alarm' \in {"none", "active", "cleared"}
      /\ alarm = "active" => alarm' = "active"
      /\ \A w \in Windows :
           /\ ledger'[w].surfaced => flush_ledger[w].surfaced \/ w \in just_ended
           /\ w \in just_ended /\ unresolved(flush_ledger[w]) => alarm' = "active"
           /\ w \notin just_ended => ledger'[w] = flush_ledger[w]
  BY <1>1, <1>2, WindowTypes, Flushes, Surfaces
<1>4. /\ window' \in [Windows -> Rows] /\ index' \subseteq Compiled
      /\ noted' \in [Windows -> [raised : BOOLEAN, cleared : BOOLEAN]]
  BY <1>1, StatusesAdvance, Compiles, TakenOut
<1>5. WindowsTypeOK'
  BY <1>1, <1>3, <1>4 DEF WindowsTypeOK, Rows, Compiled, Entries
<1>6. Agreement'
  <2>1. ASSUME NEW w \in Windows, window'[w].status \in {"scheduled", "active"} \/ window'[w].confirmed
        PROVE  Fits(w, window'[w].ends - window'[w].starts)
    <3>1. window[w].status \in {"scheduled", "active"} \/ window[w].confirmed
      BY <1>1, <2>1, StatusesAdvance
    <3>2. Fits(w, window[w].ends - window[w].starts)
      BY <3>1 DEF Agreement
    <3> QED
      BY <1>1, <3>2, StatusesAdvance
  <2>2. \A i \in index' : Fits(i.window, i.ends - i.starts)
    BY <1>1, CompiledFits
  <2> QED
    BY <1>1, <2>1, <2>2 DEF Agreement, Fits
<1>7. Surfacing'
  <2> SUFFICES ASSUME NEW v \in Windows \ forgone
               PROVE  /\ ledger'[v].surfaced => window'[v].status = "ended"
                      /\ window'[v].status = "ended" => \A i \in index' : i.window # v
                      /\ v \in held => IF window'[v].status = "ended" THEN alarm' = "active"
                                       ELSE InTable(v)'
    BY <1>1 DEF Surfacing
  <2>1. window'[v].status = "ended" <=> window[v].status = "ended" \/ v \in just_ended
    BY <1>1, StatusesAdvance
  <2>2. ledger'[v].surfaced => window'[v].status = "ended"
    BY <1>3, <2>1, Flushes DEF Surfacing
  <2>3. window'[v].status = "ended" => \A i \in index' : i.window # v
    BY <1>1, CompiledFits
  <2>4. ASSUME v \in held
        PROVE  IF window'[v].status = "ended" THEN alarm' = "active" ELSE InTable(v)'
    <3>1. CASE window[v].status = "ended"
      BY <1>3, <2>1, <2>4, <3>1 DEF Surfacing
    <3>2. CASE window[v].status # "ended"
      <4>1. unresolved(flush_ledger[v])
        BY <2>4, <3>2, Flushes DEF Surfacing
      <4>2. CASE v \in just_ended
        BY <1>3, <2>1, <4>1, <4>2
      <4>3. CASE v \notin just_ended
        <5>1. ledger'[v] = flush_ledger[v] /\ window'[v].status # "ended" /\ v \notin dirty'
          BY <1>1, <1>3, <2>1, <3>2, <4>3
        <5> QED
          BY <4>1, <5>1 DEF InTable, unresolved
      <4> QED
        BY <4>2, <4>3
    <3> QED
      BY <3>1, <3>2
  <2> QED
    BY <2>2, <2>3, <2>4
<1> QED
  BY <1>5, <1>6, <1>7

(* What is lost in memory is written off; the table keeps the rest.        *)
LEMMA TableKeeps ==
    ASSUME WindowsTypeOK, Agreement, Surfacing,
           /\ window' = window /\ ledger' = ledger /\ alarm' = alarm /\ held' = held
           /\ agreed' = agreed /\ hour' = hour
           /\ forgone' = forgone \cup dirty /\ dirty' = {},
           noted' \in [Windows -> [raised : BOOLEAN, cleared : BOOLEAN]],
           index' \in {index, {}, window_index_rows(advance_statuses)},
           change' = change \/ change' = [c \in Clients |-> Resting]
    PROVE  WindowsTypeOK' /\ Agreement' /\ Surfacing'
<1>1. \A i \in index' : i \in Compiled /\ Fits(i.window, i.ends - i.starts)
  BY WindowTypes, CompiledFits DEF Agreement
<1>2. change' \in [Clients -> Changes \cup {Resting}]
  BY WindowTypes
<1>3. WindowsTypeOK'
  BY <1>1, <1>2 DEF WindowsTypeOK, Compiled
<1>4. Agreement'
  BY <1>1 DEF Agreement, Fits
<1>5. Surfacing'
  <2> SUFFICES ASSUME NEW v \in Windows \ forgone, v \notin dirty
               PROVE  /\ ledger[v].surfaced => window[v].status = "ended"
                      /\ window[v].status = "ended" => \A i \in index' : i.window # v
                      /\ v \in held => IF window[v].status = "ended" THEN alarm = "active"
                                       ELSE unresolved(ledger[v])
    BY DEF Surfacing, InTable, unresolved
  <2>1. ASSUME window[v].status = "ended", NEW i \in index' PROVE i.window # v
    <3>1. advance_statuses[v].status = "ended"
      BY <2>1, StatusesAdvance
    <3> QED
      BY <2>1, <3>1, CompiledFits DEF Surfacing
  <2> QED
    BY <2>1 DEF Surfacing, InMemory, InTable
<1> QED
  BY <1>3, <1>4, <1>5

LEMMA LossKeeps ==
    ASSUME WindowsTypeOK, Agreement, Surfacing,
           WindowsCrash \/ \E swapped \in BOOLEAN : maintenance_fails(swapped)
    PROVE  WindowsTypeOK' /\ Agreement' /\ Surfacing'
<1>1. CASE WindowsCrash
  <2>1. noted' \in [Windows -> [raised : BOOLEAN, cleared : BOOLEAN]]
    BY <1>1 DEF WindowsCrash, Silent
  <2> QED
    BY <1>1, <2>1, TableKeeps DEF WindowsCrash
<1>2. ASSUME NEW swapped \in BOOLEAN, maintenance_fails(swapped)
      PROVE  WindowsTypeOK' /\ Agreement' /\ Surfacing'
  <2>1. CASE swapped
    BY <1>2, <2>1, TakenOut, TableKeeps DEF maintenance_fails
  <2>2. CASE ~swapped
    BY <1>2, <2>2, WindowTypes, TableKeeps DEF maintenance_fails, Notes
  <2> QED
    BY <2>1, <2>2
<1> QED
  BY <1>1, <1>2

-----------------------------------------------------------------------------
(* A trap that is hidden is remembered under a window that has not ended.  *)
LEMMA TrapKeeps ==
    ASSUME WindowsTypeOK, Agreement, Surfacing, NEW clears \in BOOLEAN, NEW ts \in Hours,
           process(clears, ts)
    PROVE  WindowsTypeOK' /\ Agreement' /\ Surfacing'
<1>1. /\ hour' = hour /\ window' = window /\ index' = index /\ ledger' = ledger
      /\ change' = change /\ forgone' = forgone /\ agreed' = agreed
  BY DEF process
<1>2. Agreement'
  BY <1>1 DEF Agreement, Fits
<1>3. CASE ~suppressed(ts)
  <2>1. /\ noted' = noted /\ dirty' = dirty
        /\ alarm' = IF ~clears THEN "active" ELSE IF alarm = "active" THEN "cleared" ELSE alarm
        /\ held' = IF clears THEN {} ELSE held
    BY <1>3 DEF process
  <2>2. WindowsTypeOK'
    BY <1>1, <2>1 DEF WindowsTypeOK
  <2>3. Surfacing'
    BY <1>1, <2>1 DEF Surfacing, InMemory, InTable, unresolved
  <2> QED
    BY <1>2, <2>2, <2>3
<1>4. CASE suppressed(ts)
  <2> DEFINE w == Answers(ts)
  <2>1. w \in Windows /\ \E i \in index : i.window = w
    <3>1. {i.window : i \in Covering(ts)} # {} /\ Covering(ts) \subseteq index
      BY <1>4 DEF suppressed, Covering
    <3>2. {i.window : i \in Covering(ts)} \subseteq Windows /\ Windows \subseteq Nat
      BY <3>1, WindowTypes, WindowConstants DEF Compiled
    <3>3. w \in {i.window : i \in Covering(ts)}
      BY <3>1, <3>2, Least DEF Answers
    <3> QED
      BY <3>1, <3>2, <3>3
  <2>2. /\ noted' = [noted EXCEPT ![w] = IF clears THEN [noted[w] EXCEPT !.cleared = TRUE]
                                         ELSE [raised |-> TRUE, cleared |-> FALSE]]
        /\ dirty' = dirty \cup {w} /\ held' = (IF clears THEN {} ELSE held \cup {w})
        /\ alarm' = alarm
    BY <1>4 DEF process, observe_suppressed
  <2> HIDE DEF w
  <2>3. noted \in [Windows -> Notes]
    BY WindowTypes
  <2>4. noted' \in [Windows -> Notes]
    BY <2>1, <2>2, <2>3 DEF Notes
  <2>5. WindowsTypeOK'
    BY <1>1, <2>1, <2>2, <2>4 DEF WindowsTypeOK, Notes
  <2>6. Surfacing'
    <3> SUFFICES ASSUME NEW v \in Windows \ forgone
                 PROVE  /\ ledger[v].surfaced => window[v].status = "ended"
                        /\ window[v].status = "ended" => \A i \in index : i.window # v
                        /\ v \in held' => IF window[v].status = "ended" THEN alarm = "active"
                                          ELSE InMemory(v)' \/ InTable(v)'
      BY <1>1, <2>2 DEF Surfacing
    <3>1. ASSUME v \in held'
          PROVE  IF window[v].status = "ended" THEN alarm = "active" ELSE InMemory(v)' \/ InTable(v)'
      <4>1. ~clears /\ held' = held \cup {w}
        BY <2>2, <3>1
      <4>2. CASE v = w
        <5>1. window[v].status # "ended"
          BY <2>1, <4>2 DEF Surfacing
        <5>2. noted'[v] = [raised |-> TRUE, cleared |-> FALSE] /\ v \in dirty'
          BY <2>1, <2>2, <2>3, <4>1, <4>2
        <5> QED
          BY <5>1, <5>2 DEF InMemory
      <4>3. CASE v # w
        <5>1. v \in held /\ noted'[v] = noted[v] /\ (v \in dirty' <=> v \in dirty)
          BY <2>2, <2>3, <3>1, <4>1, <4>3
        <5> QED
          BY <1>1, <5>1 DEF Surfacing, InMemory, InTable
      <4> QED
        BY <4>2, <4>3
    <3> QED
      BY <3>1 DEF Surfacing
  <2> QED
    BY <1>2, <2>5, <2>6
<1> QED
  BY <1>3, <1>4

LEMMA WindowsKeep ==
    WindowsTypeOK /\ Agreement /\ Surfacing /\ [WindowsNext]_windowVars
      => WindowsTypeOK' /\ Agreement' /\ Surfacing'
<1> SUFFICES ASSUME WindowsTypeOK, Agreement, Surfacing, WindowsNext \/ UNCHANGED windowVars
             PROVE  WindowsTypeOK' /\ Agreement' /\ Surfacing'
  OBVIOUS
<1>1. CASE UNCHANGED windowVars
  BY <1>1 DEF windowVars, WindowsTypeOK, Agreement, Fits, Surfacing, InMemory, InTable, unresolved
<1>2. CASE WindowsTick
  <2>1. hour' \in Hours
    BY <1>2, WindowConstants DEF WindowsTick, WindowsTypeOK, Hours
  <2> QED
    BY <1>2, <2>1
       DEF WindowsTick, WindowsTypeOK, Agreement, Fits, Surfacing, InMemory, InTable, unresolved
<1>3. ASSUME NEW w \in Windows, NEW c \in Clients, update_window(c, w)
      PROVE  WindowsTypeOK' /\ Agreement' /\ Surfacing'
  BY <1>3, BoundsAreNumbers, MeaningKeeps DEF update_window
<1>4. ASSUME NEW w \in Windows, NEW c \in Clients, extend_window(c, w)
      PROVE  WindowsTypeOK' /\ Agreement' /\ Surfacing'
  <2>1. PICK s \in Spans : Means(c, w, window[w].starts, s[2], "kept")
    BY <1>4 DEF extend_window
  <2>2. window[w].starts \in Bounds /\ s[2] \in Bounds
    BY WindowTypes, BoundsAreNumbers DEF Rows
  <2> QED
    BY <2>1, <2>2, MeaningKeeps
<1>5. CASE \E w \in Windows : create_window(w) \/ confirm_window(w) \/ cancel_window(w)
  BY <1>5, CreateWindowKeeps, ConfirmKeeps, CancelKeeps
<1>6. CASE \/ \E c \in Clients : update_window_schedule(c)
           \/ \E w \in Windows, commits \in BOOLEAN : end_window(w, commits)
  BY <1>6, WritingKeeps, EndNowKeeps
<1>7. CASE \/ maintenance_windows \/ WindowsCrash
           \/ \E swapped \in BOOLEAN : maintenance_fails(swapped)
  BY <1>7, PassKeeps, LossKeeps
<1>8. CASE \E clears \in BOOLEAN, ts \in Hours : process(clears, ts)
  BY <1>8, TrapKeeps
<1> QED
  BY <1>1, <1>2, <1>3, <1>4, <1>5, <1>6, <1>7, <1>8 DEF WindowsNext

-----------------------------------------------------------------------------
(* The rows, the index, the ledger and what the requests mean to write are *)
(* what the module says they are (store/maintenance_windows.py).           *)
THEOREM WindowsTyped == WindowsSpec => []WindowsTypeOK
  BY WindowsBegin, WindowsKeep, PTL DEF WindowsSpec

(* Whatever requests read and wrote in between, a window in force, and one *)
(* the engine hides traps for, is no longer than the threshold or than     *)
(* somebody agreed to (mw_shape.py restatus).                              *)
THEOREM LongWindowsAgreed == WindowsSpec => []LongWindowsAreAgreed
<1>1. WindowsTypeOK /\ Agreement => LongWindowsAreAgreed
  <2> SUFFICES ASSUME WindowsTypeOK, Agreement PROVE LongWindowsAreAgreed
    OBVIOUS
  <2>1. \A b \in Bounds : b \in Int
    BY BoundsAreNumbers
  <2>2. Threshold \in Nat
    BY WindowConstants
  <2>3. \A w \in Windows : window[w].starts \in Int /\ window[w].ends \in Int
    BY <2>1, WindowTypes DEF Rows
  <2>4. \A i \in index : i.starts \in Int /\ i.ends \in Int
    BY <2>1, WindowTypes DEF Compiled
  <2> QED
    BY <2>2, <2>3, <2>4 DEF Agreement, Fits, LongWindowsAreAgreed, needs_confirmation
<1> QED
  BY WindowsBegin, WindowsKeep, <1>1, PTL DEF WindowsSpec

(* A fault that a window hid and that has not cleared is an active alarm   *)
(* once the window has ended by the clock, unless its memory was lost, it  *)
(* was ended by hand or a late request revived it (window_sweep.py         *)
(* _surface_window).                                                       *)
THEOREM FaultsOutlive == WindowsSpec => []OutlivesItsWindow
<1>1. WindowsTypeOK /\ Surfacing => OutlivesItsWindow
  BY WindowTypes DEF Surfacing, OutlivesItsWindow
<1> QED
  BY WindowsBegin, WindowsKeep, <1>1, PTL DEF WindowsSpec

=============================================================================
