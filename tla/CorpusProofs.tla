---------------------------- MODULE CorpusProofs ----------------------------
(***************************************************************************)
(* What a person said outlives every sweep but the audit's, for any number *)
(* of situations, activations and days, any policies and any cap.          *)
(*                                                                         *)
(* EvidenceKept is not inductive: a promotion must find both observations  *)
(* of the pairs it promotes, so every stored pair must have them, not only *)
(* the promoted ones; and a sweep compares the age of what is stored, so   *)
(* the history must agree with the rows in its days.                       *)
(***************************************************************************)
EXTENDS Corpus, Deciders, WellFoundedInduction, TLAPS

Whole(ps, os) == \A n \in Stored(ps) : {n, ps[n].with} \ {0} \subseteq Stored(os)
Dated(os) == \A n \in Nums : os[n].at # Never => n \in Stored(os)

(* The promoted pairs are there, and the history describes them.           *)
Asserted ==
    \A p \in asserted : /\ pair[p.n].life = "dataset"
                        /\ pair[p.n].with = p.with /\ pair[p.n].at = p.at

(* The rows of the situations say what the history says.                   *)
Remembered ==
    \A s \in Sits : /\ sit[s].label = given[s].label
                    /\ given[s].event <= sit[s].event /\ sit[s].event <= day
                    /\ given[s].event # Never => s \in Exists

PairInv ==
    /\ Stored(pair) \subseteq 1 .. activations
    /\ Whole(pair, observation) /\ Dated(observation) /\ Asserted

CorpusInv == CorpusTypeOK /\ PairInv /\ Remembered

PairRows == [Nums -> [life : {"absent", "sink", "dataset"}, sit : Sits \cup {0},
                      with : 0 .. MaxAlarm, at : Never .. MaxDay]]
ObservationRows == [Nums -> [life : {"absent", "sink", "dataset"}, at : Never .. MaxDay]]
Assertions == [n : Nums, with : 0 .. MaxAlarm, at : Never .. MaxDay]
History == [Sits -> [label : Never .. MaxDay, event : Never .. MaxDay]]

-----------------------------------------------------------------------------
(* The pairs *)

(* A promotion changes the tier of stored rows and nothing else.           *)
LEMMA Promotes ==
    ASSUME CorpusTypeOK, PairInv, NEW ss, promote_for_situation(ss), activations' = activations
    PROVE  /\ PairInv'
           /\ pair' \in PairRows /\ observation' \in ObservationRows
           /\ asserted' \subseteq Assertions
<1> DEFINE mine == {n \in Nums : pair[n].sit \in ss /\ pair[n].life \in {"sink", "dataset"}}
<1> DEFINE seen == mine \cup {pair[n].with : n \in mine}
<1>0. /\ pair \in PairRows /\ observation \in ObservationRows /\ asserted \subseteq Assertions
      /\ activations \in 0 .. MaxAlarm
  BY DEF CorpusTypeOK, PairRows, ObservationRows, Assertions
<1>1. /\ pair' = [n \in Nums |-> IF n \in mine THEN [pair[n] EXCEPT !.life = "dataset"] ELSE pair[n]]
      /\ observation' = [n \in Nums |-> IF n \in seen /\ observation[n].life = "sink"
                                        THEN [observation[n] EXCEPT !.life = "dataset"]
                                        ELSE observation[n]]
      /\ asserted' = asserted \cup {[n |-> n, with |-> pair[n].with, at |-> pair[n].at] : n \in mine}
  BY DEF promote_for_situation
<1>2. mine \subseteq Nums /\ mine \subseteq Stored(pair)
  BY DEF Stored
<1> HIDE DEF mine, seen
<1>3. pair' \in PairRows /\ observation' \in ObservationRows
  BY ZenonT(60), <1>0, <1>1 DEF PairRows, ObservationRows
<1>4. asserted' \subseteq Assertions
  <2>1. \A n \in mine : [n |-> n, with |-> pair[n].with, at |-> pair[n].at] \in Assertions
    BY <1>0, <1>2 DEF PairRows, Assertions
  <2> QED
    BY <1>0, <1>1, <2>1
<1>5. \A n \in Nums : /\ pair'[n].with = pair[n].with /\ pair'[n].at = pair[n].at
                      /\ pair[n].life = "dataset" => pair'[n].life = "dataset"
                      /\ n \in mine => pair'[n].life = "dataset"
  BY <1>0, <1>1 DEF PairRows
<1>6. Stored(pair)' = Stored(pair)
  <2>1. \A n \in Nums : pair'[n].life \in {"sink", "dataset"} <=> pair[n].life \in {"sink", "dataset"}
    BY <1>0, <1>1, <1>2 DEF PairRows, Stored
  <2> QED
    BY <2>1 DEF Stored
<1>7. /\ Stored(observation)' = Stored(observation)
      /\ \A n \in Nums : observation'[n].at = observation[n].at
  <2>1. \A n \in Nums : /\ observation'[n].at = observation[n].at
                        /\ observation'[n].life \in {"sink", "dataset"}
                           <=> observation[n].life \in {"sink", "dataset"}
    BY <1>0, <1>1 DEF ObservationRows
  <2> QED
    BY <2>1 DEF Stored
<1>8. Whole(pair, observation)'
  <2>1. \A n \in Stored(pair) : pair'[n].with = pair[n].with
    BY <1>5 DEF Stored
  <2> QED
    BY <2>1, <1>6, <1>7 DEF PairInv, Whole
<1>9. Dated(observation)'
  BY <1>7 DEF PairInv, Dated
<1>10. Asserted'
  <2> SUFFICES ASSUME NEW p \in asserted'
               PROVE  /\ pair'[p.n].life = "dataset"
                      /\ pair'[p.n].with = p.with /\ pair'[p.n].at = p.at
    BY DEF Asserted
  <2>1. CASE p \in asserted
    <3>1. p.n \in Nums
      BY <2>1, <1>0 DEF Assertions
    <3> QED
      BY <2>1, <3>1, <1>5 DEF PairInv, Asserted
  <2>2. CASE \E n \in mine : p = [n |-> n, with |-> pair[n].with, at |-> pair[n].at]
    BY <2>2, <1>2, <1>5
  <2> QED
    BY <1>1, <2>1, <2>2
<1> QED
  BY <1>3, <1>4, <1>6, <1>8, <1>9, <1>10 DEF PairInv

(* A sweep of any pairs, then of old observations that no pair left refers *)
(* to, leaves every pair with both of its observations.                    *)
LEMMA Deleted ==
    ASSUME NEW ps \in PairRows, NEW os \in ObservationRows, Whole(ps, os), Dated(os),
           NEW gone, NEW tier, NEW cutoff,
           NEW kept, kept = Without(ps, gone, NoPair),
           NEW left, left = Without(os, Unreferenced(kept, os, tier, cutoff), NoObservation)
    PROVE  /\ kept \in PairRows /\ left \in ObservationRows
           /\ Whole(kept, left) /\ Dated(left)
           /\ Stored(kept) = Stored(ps) \ gone
           /\ \A n \in Nums \ gone : kept[n] = ps[n]
<1>1. /\ kept = [n \in Nums |-> IF n \in gone THEN NoPair ELSE ps[n]]
      /\ left = [n \in Nums |-> IF n \in Unreferenced(kept, os, tier, cutoff)
                                THEN NoObservation ELSE os[n]]
  BY DEF Without
<1>2. NoPair \in [life : {"absent", "sink", "dataset"}, sit : Sits \cup {0},
                  with : 0 .. MaxAlarm, at : Never .. MaxDay]
      /\ NoObservation \in [life : {"absent", "sink", "dataset"}, at : Never .. MaxDay]
  BY CorpusAssumption DEF NoPair, NoObservation, Never
<1>3. kept \in PairRows /\ left \in ObservationRows
  BY ZenonT(60), <1>1, <1>2 DEF PairRows, ObservationRows
<1>4. \A n \in Nums \ gone : kept[n] = ps[n]
  BY <1>1
<1>5. Stored(kept) = Stored(ps) \ gone
  BY <1>1 DEF Stored, NoPair
<1>6. Whole(kept, left)
  <2> SUFFICES ASSUME NEW n \in Stored(kept), NEW m \in {n, kept[n].with} \ {0}
               PROVE  m \in Stored(left)
    BY DEF Whole
  <2>1. n \in Stored(ps) /\ kept[n] = ps[n]
    BY <1>4, <1>5 DEF Stored
  <2>2. m \in Stored(os)
    BY <2>1 DEF Whole
  <2>3. m \notin Unreferenced(kept, os, tier, cutoff)
    BY DEF Unreferenced
  <2> QED
    BY <1>1, <2>2, <2>3 DEF Stored
<1>7. Dated(left)
  BY <1>1 DEF Dated, Stored, NoObservation
<1> QED
  BY <1>3, <1>4, <1>5, <1>6, <1>7

(* The sink's sweep deletes pairs of the sink only.                        *)
LEMMA SinkSwept ==
    ASSUME NEW ps \in PairRows, NEW os \in ObservationRows, Whole(ps, os), Dated(os),
           NEW cutoff, NEW counted, NEW r, r = prune_sink(ps, os, cutoff, counted)
    PROVE  /\ r.pairs \in PairRows /\ r.observations \in ObservationRows
           /\ Whole(r.pairs, r.observations) /\ Dated(r.observations)
           /\ Stored(r.pairs) \subseteq Stored(ps)
           /\ \A n \in Nums : ps[n].life = "dataset" => r.pairs[n] = ps[n]
<1> DEFINE aged == {n \in Nums : ps[n].life = "sink" /\ ps[n].at < cutoff}
<1> DEFINE rest == {n \in Nums : ps[n].life = "sink"} \ aged
<1> DEFINE excess == {n \in rest : counted /\ Cardinality({m \in rest : m > n}) >= RowCap}
<1> DEFINE gone == aged \cup excess
<1> DEFINE kept == Without(ps, gone, NoPair)
<1> DEFINE left == Without(os, Unreferenced(kept, os, "sink", cutoff), NoObservation)
<1>1. r = [pairs |-> kept, observations |-> left]
  BY DEF prune_sink
<1>2. \A n \in gone : ps[n].life = "sink"
  OBVIOUS
<1> HIDE DEF gone
<1>3. kept = Without(ps, gone, NoPair)
  OBVIOUS
<1>4. left = Without(os, Unreferenced(kept, os, "sink", cutoff), NoObservation)
  OBVIOUS
<1> HIDE DEF kept, left
<1>5. /\ kept \in PairRows /\ left \in ObservationRows
      /\ Whole(kept, left) /\ Dated(left)
      /\ Stored(kept) = Stored(ps) \ gone
      /\ \A n \in Nums \ gone : kept[n] = ps[n]
  BY <1>3, <1>4, Deleted
<1> QED
  BY <1>1, <1>2, <1>5

(* The audit's sweep deletes promoted pairs before its cutoff only.        *)
LEMMA AuditSwept ==
    ASSUME NEW ps \in PairRows, NEW os \in ObservationRows, Whole(ps, os), Dated(os),
           NEW cutoff, NEW r, r = prune_dataset_audit(ps, os, cutoff)
    PROVE  /\ r.pairs \in PairRows /\ r.observations \in ObservationRows
           /\ Whole(r.pairs, r.observations) /\ Dated(r.observations)
           /\ Stored(r.pairs) \subseteq Stored(ps)
           /\ \A n \in Nums : ~(ps[n].at < cutoff) => r.pairs[n] = ps[n]
<1> DEFINE aged == {n \in Nums : ps[n].life = "dataset" /\ ps[n].at < cutoff}
<1> DEFINE kept == Without(ps, aged, NoPair)
<1> DEFINE left == Without(os, Unreferenced(kept, os, "dataset", cutoff), NoObservation)
<1>1. r = [pairs |-> kept, observations |-> left]
  BY DEF prune_dataset_audit
<1>2. \A n \in aged : ps[n].at < cutoff
  OBVIOUS
<1> HIDE DEF aged
<1>3. kept = Without(ps, aged, NoPair)
  OBVIOUS
<1>4. left = Without(os, Unreferenced(kept, os, "dataset", cutoff), NoObservation)
  OBVIOUS
<1> HIDE DEF kept, left
<1>5. /\ kept \in PairRows /\ left \in ObservationRows
      /\ Whole(kept, left) /\ Dated(left)
      /\ Stored(kept) = Stored(ps) \ aged
      /\ \A n \in Nums \ aged : kept[n] = ps[n]
  BY <1>3, <1>4, Deleted
<1> QED
  BY <1>1, <1>2, <1>5

(* What a pass or a new policy leaves of the pairs, when the history       *)
(* forgets what is before the same cutoff.                                 *)
LEMMA Enforces ==
    ASSUME CorpusTypeOK, PairInv, NEW cutoff \in Int, Enforced(cutoff), activations' = activations,
           NEW ps \in PairRows, NEW os \in ObservationRows, Whole(ps, os), Dated(os),
           Stored(ps) \subseteq Stored(pair),
           \A n \in Nums : pair[n].life = "dataset" => ps[n] = pair[n],
           NEW r, r = prune_dataset_audit(ps, os, cutoff),
           pair' = r.pairs, observation' = r.observations
    PROVE  /\ PairInv'
           /\ pair' \in PairRows /\ observation' \in ObservationRows
           /\ asserted' \subseteq Assertions
<1>1. /\ pair' \in PairRows /\ observation' \in ObservationRows
      /\ Whole(pair', observation') /\ Dated(observation')
      /\ Stored(pair') \subseteq Stored(ps)
      /\ \A n \in Nums : ~(ps[n].at < cutoff) => pair'[n] = ps[n]
  BY AuditSwept
<1>2. asserted' = {p \in asserted : p.at >= cutoff} /\ asserted \subseteq Assertions
  BY DEF Enforced, CorpusTypeOK, Assertions
<1>3. Asserted'
  <2> SUFFICES ASSUME NEW p \in asserted, p.at >= cutoff
               PROVE  /\ pair'[p.n].life = "dataset"
                      /\ pair'[p.n].with = p.with /\ pair'[p.n].at = p.at
    BY <1>2 DEF Asserted
  <2>1. p.n \in Nums /\ p.at \in Int
    BY <1>2, CorpusAssumption DEF Assertions, Never
  <2>2. pair[p.n].life = "dataset" /\ pair[p.n].with = p.with /\ pair[p.n].at = p.at
    BY DEF PairInv, Asserted
  <2>3. pair'[p.n] = pair[p.n]
    BY <1>1, <2>1, <2>2
  <2> QED
    BY <2>2, <2>3
<1>4. Stored(pair)' = Stored(pair') /\ Whole(pair, observation)' = Whole(pair', observation')
      /\ Dated(observation)' = Dated(observation')
  BY DEF Stored, Whole, Dated, Nums
<1>5. Stored(pair') \subseteq 1 .. activations
  BY <1>1 DEF PairInv
<1> QED
  BY <1>1, <1>2, <1>3, <1>4, <1>5 DEF PairInv

-----------------------------------------------------------------------------
(* The rows of the situations *)

SitRow == [status : {"absent", "new", "open", "resolved", "gone"},
           closed : Never .. MaxDay, label : Never .. MaxDay,
           event : Never .. MaxDay, noc : BOOLEAN, decided : SUBSET Grades]

(* A day that has come is one of the dates a row may hold.                 *)
LEMMA Dates ==
    ASSUME CorpusTypeOK
    PROVE  /\ day \in Never .. MaxDay /\ Never \in Never .. MaxDay /\ day \in Int
           /\ Never < day /\ Never \in Int
           /\ \A d \in Never .. MaxDay : d \in Int /\ Never <= d
BY CorpusAssumption DEF CorpusTypeOK, Never

(* Attending to a situation and resolving it keep what was said of it.     *)
LEMMA RowKept ==
    ASSUME CorpusTypeOK, NEW row \in SitRow
    PROVE  /\ attended(row) \in SitRow
           /\ attended(row).label = row.label /\ attended(row).event = row.event
           /\ attended(row).decided = row.decided
           /\ row.status \in {"new", "open", "resolved"}
                => attended(row).status \in {"new", "open", "resolved"}
           /\ resolved(row) \in SitRow /\ resolved(row).status = "resolved"
           /\ resolved(row).label = row.label /\ resolved(row).event = row.event
           /\ resolved(row).decided = row.decided
<1>1. day \in Never .. MaxDay
  BY Dates
<1>2. /\ attended(row) \in SitRow
      /\ attended(row).label = row.label /\ attended(row).event = row.event
      /\ attended(row).decided = row.decided
      /\ row.status \in {"new", "open", "resolved"}
           => attended(row).status \in {"new", "open", "resolved"}
  BY DEF attended, SitRow
<1>3. /\ resolved(row) \in SitRow /\ resolved(row).status = "resolved"
      /\ resolved(row).label = row.label /\ resolved(row).event = row.event
      /\ resolved(row).decided = row.decided
  BY <1>1 DEF resolved, SitRow
<1> QED
  BY <1>2, <1>3

(* A gesture leaves its event, today, in the rows and in the history.      *)
LEMMA Gestured ==
    ASSUME CorpusInv, NEW s \in Sits, NEW row \in SitRow, NEW labels \in BOOLEAN, NEW promoted,
           row.status \in {"new", "open", "resolved"}, row.label = sit[s].label,
           Gesture(s, row, labels, promoted)
    PROVE  CorpusInv'
<1> DEFINE label == IF labels THEN day ELSE row.label
<1>1. /\ sit' = [sit EXCEPT ![s] = [row EXCEPT !.label = label, !.event = day]]
      /\ given' = [given EXCEPT ![s] = [label |-> label, event |-> day]]
      /\ promote_for_situation(promoted)
      /\ UNCHANGED <<activations, known, policy, day, sweep>>
  BY DEF Gesture
<1>2. /\ PairInv' /\ pair' \in PairRows /\ observation' \in ObservationRows
      /\ asserted' \subseteq Assertions
  BY <1>1, Promotes DEF CorpusInv
<1>3. /\ sit \in [Sits -> SitRow] /\ given \in History
      /\ day \in Never .. MaxDay /\ label \in Never .. MaxDay
  BY Dates DEF CorpusInv, CorpusTypeOK, SitRow, History
<1> HIDE DEF label
<1>4. [row EXCEPT !.label = label, !.event = day] \in SitRow
  BY <1>3 DEF SitRow
<1>5. sit' \in [Sits -> SitRow] /\ given' \in History
  BY <1>1, <1>3, <1>4 DEF History
<1>6. CorpusTypeOK'
  BY <1>1, <1>2, <1>5
     DEF CorpusInv, CorpusTypeOK, SitRow, History, PairRows, ObservationRows, Assertions
<1>7. Remembered'
  <2> SUFFICES ASSUME NEW t \in Sits
               PROVE  /\ sit'[t].label = given'[t].label
                      /\ given'[t].event <= sit'[t].event /\ sit'[t].event <= day
                      /\ given'[t].event # Never => sit'[t].status \in {"new", "open", "resolved"}
    BY <1>1 DEF Remembered, Exists
  <2>1. CASE t = s
    <3>1. /\ sit'[s].label = label /\ sit'[s].event = day /\ sit'[s].status = row.status
          /\ given'[s].label = label /\ given'[s].event = day
      BY <1>1, <1>3 DEF SitRow, History
    <3> QED
      BY <2>1, <3>1, Dates DEF CorpusInv
  <2>2. CASE t # s
    <3>1. sit'[t] = sit[t] /\ given'[t] = given[t]
      BY <2>2, <1>1, <1>3 DEF History
    <3> QED
      BY <3>1 DEF CorpusInv, Remembered, Exists
  <2> QED
    BY <2>1, <2>2
<1> QED
  BY <1>2, <1>6, <1>7 DEF CorpusInv

(* What the audit's sweep leaves of the rows and of the history is what    *)
(* is not before its cutoff, and they still agree.                         *)
LEMMA Forgets ==
    ASSUME CorpusTypeOK, NEW cutoff \in Int, Enforced(cutoff), day' = day,
           NEW rows \in [Sits -> SitRow],
           \A s \in Sits : /\ rows[s].label = given[s].label
                           /\ given[s].event <= rows[s].event /\ rows[s].event <= day
                           /\ given[s].event # Never
                                => rows[s].status \in {"new", "open", "resolved"},
           sit' = Forgotten(rows, cutoff)
    PROVE  Remembered' /\ sit' \in [Sits -> SitRow] /\ given' \in History
<1> DEFINE after(d) == IF d < cutoff THEN Never ELSE d
<1>1. given \in History
  BY DEF CorpusTypeOK, History
<1>2. \A s \in Sits : sit'[s] = [rows[s] EXCEPT !.label = after(rows[s].label),
                                                !.event = after(rows[s].event)]
  BY DEF Forgotten, SitRow
<1>3. \A d \in Never .. MaxDay : after(d) \in Never .. MaxDay
  BY Dates
<1>4. \A d, e \in Never .. MaxDay : d <= e => after(d) <= after(e) /\ after(e) <= e
  BY Dates
<1>5. \A d \in Never .. MaxDay : after(d) # Never => d # Never
  BY Dates
<1> HIDE DEF after
<1>6. ASSUME NEW s \in Sits
      PROVE  /\ sit'[s] \in SitRow /\ sit'[s].status = rows[s].status
             /\ sit'[s].label = after(rows[s].label) /\ sit'[s].event = after(rows[s].event)
  <2> DEFINE label == after(rows[s].label)
             event == after(rows[s].event)
  <2>1. rows[s] \in SitRow
    OBVIOUS
  <2>2. label \in Never .. MaxDay /\ event \in Never .. MaxDay
    BY <2>1, <1>3 DEF SitRow
  <2>3. sit'[s] = [rows[s] EXCEPT !.label = label, !.event = event]
    BY <1>2
  <2> HIDE DEF label, event
  <2>4. /\ sit'[s] \in SitRow /\ sit'[s].status = rows[s].status
        /\ sit'[s].label = label /\ sit'[s].event = event
    BY ZenonT(60), <2>1, <2>2, <2>3 DEF SitRow
  <2> QED
    BY <2>4 DEF label, event
<1>7. sit' \in [Sits -> SitRow]
  BY ZenonT(60), <1>6 DEF Forgotten
<1>8. given' = [s \in Sits |-> [label |-> after(given[s].label), event |-> after(given[s].event)]]
  BY DEF Enforced, after
<1>9. given' \in History
  BY <1>1, <1>3, <1>8 DEF History
<1>10. ASSUME NEW s \in Sits
       PROVE  /\ sit'[s].label = given'[s].label
              /\ given'[s].event <= sit'[s].event /\ sit'[s].event <= day
              /\ given'[s].event # Never => sit'[s].status \in {"new", "open", "resolved"}
  <2>1. /\ rows[s] \in SitRow /\ rows[s].event \in Never .. MaxDay
        /\ given[s].event \in Never .. MaxDay
    BY <1>1 DEF SitRow, History
  <2>2. /\ sit'[s].label = after(rows[s].label) /\ sit'[s].event = after(rows[s].event)
        /\ sit'[s].status = rows[s].status
    BY <1>6
  <2>3. /\ given'[s].label = after(given[s].label) /\ given'[s].event = after(given[s].event)
    BY <1>8
  <2>4. /\ rows[s].label = given[s].label
        /\ given[s].event <= rows[s].event /\ rows[s].event <= day
        /\ given[s].event # Never => rows[s].status \in {"new", "open", "resolved"}
    OBVIOUS
  <2>5. after(given[s].event) <= after(rows[s].event) /\ after(rows[s].event) <= rows[s].event
    BY <1>4, <2>1, <2>4
  <2>6. after(rows[s].event) \in Int /\ rows[s].event \in Int /\ day \in Int
    BY <1>3, <2>1, Dates
  <2>7. after(rows[s].event) <= day
    BY <2>4, <2>5, <2>6
  <2>8. given'[s].event # Never => given[s].event # Never
    BY <1>5, <2>1, <2>3
  <2> QED
    BY <2>2, <2>3, <2>4, <2>5, <2>7, <2>8
<1> QED
  BY <1>7, <1>9, <1>10 DEF Remembered, Exists

-----------------------------------------------------------------------------
(* The step *)

(* An action that leaves the pairs alone and no less said of a situation.  *)
LEMMA OnlyRows ==
    ASSUME CorpusInv, UNCHANGED <<pair, observation, activations, known, policy, day, historyVars>>,
           sweep' \in {"done", "refused"}, sit' \in [Sits -> SitRow],
           \A s \in Sits : /\ sit'[s].label = sit[s].label
                           /\ sit'[s].event = sit[s].event \/ sit'[s].event = day
                           /\ s \in Exists => sit'[s].status \in {"new", "open", "resolved"}
    PROVE  CorpusInv'
<1>1. CorpusTypeOK'
  BY DEF CorpusInv, CorpusTypeOK, SitRow, historyVars
<1>2. PairInv'
  BY DEF CorpusInv, PairInv, Whole, Stored, Dated, Asserted, historyVars
<1>3. Remembered'
  <2> SUFFICES ASSUME NEW s \in Sits
               PROVE  /\ sit'[s].label = given[s].label
                      /\ given[s].event <= sit'[s].event /\ sit'[s].event <= day
                      /\ given[s].event # Never => sit'[s].status \in {"new", "open", "resolved"}
    BY DEF Remembered, Exists, historyVars
  <2>1. /\ sit[s].label = given[s].label
        /\ given[s].event <= sit[s].event /\ sit[s].event <= day
        /\ given[s].event # Never => s \in Exists
    BY DEF CorpusInv, Remembered
  <2>2. sit[s].event \in Int /\ given[s].event \in Int /\ day \in Int
    BY CorpusAssumption DEF CorpusInv, CorpusTypeOK, Never
  <2> QED
    BY <2>1, <2>2
<1> QED
  BY <1>1, <1>2, <1>3 DEF CorpusInv

(* A row that goes quiet, is attended to or resolved is still a row.       *)
LEMMA QuietRows ==
    ASSUME CorpusInv, NEW closing \in SUBSET Sits
    PROVE  /\ Quiet(closing) \in [Sits -> SitRow]
           /\ \A s \in Sits : /\ Quiet(closing)[s].label = sit[s].label
                              /\ Quiet(closing)[s].event = sit[s].event
                              /\ s \in Exists => Quiet(closing)[s].status \in {"new", "open", "resolved"}
<1>1. \A s \in Sits : sit[s] \in SitRow
  BY DEF CorpusInv, CorpusTypeOK, SitRow
<1>2. Quiet(closing) = [s \in Sits |-> IF s \in closing THEN resolved(sit[s]) ELSE sit[s]]
  BY DEF Quiet
<1>3. \A s \in Sits : /\ resolved(sit[s]) \in SitRow /\ resolved(sit[s]).status = "resolved"
                      /\ resolved(sit[s]).label = sit[s].label
                      /\ resolved(sit[s]).event = sit[s].event
  BY <1>1, RowKept DEF CorpusInv
<1>4. \A s \in Exists : s \in Sits /\ sit[s].status \in {"new", "open", "resolved"}
  BY DEF Exists
<1> QED
  BY <1>1, <1>2, <1>3, <1>4

(* An activation: its pair is new, and both of its observations are there. *)
LEMMA Recorded ==
    ASSUME CorpusInv, NEW s \in Sits, NEW room \in BOOLEAN, record(s, room)
    PROVE  CorpusInv'
<1> DEFINE n == activations + 1
           other == IF known THEN activations ELSE 0
           inWindow == activations > 0 /\ observation[activations].at = day
           new == [life |-> "sink", sit |-> s, at |-> day, with |-> other]
<1>1. /\ n \in Nums /\ activations' = n /\ known' = TRUE
      /\ s \in Live \/ sit[s].status = "absent"
      /\ sit' = IF s \in Live THEN sit ELSE [sit EXCEPT ![s].status = "new"]
      /\ observation' = [observation EXCEPT ![n] = [life |-> "sink", at |-> day]]
      /\ pair' = IF inWindow /\ room THEN [pair EXCEPT ![n] = new] ELSE pair
      /\ UNCHANGED <<policy, day, sweep, asserted, given>>
  BY DEF record, historyVars
<1>2. /\ pair \in PairRows /\ observation \in ObservationRows /\ day \in Never .. MaxDay
      /\ activations \in 0 .. MaxAlarm /\ day # Never /\ asserted \subseteq Assertions
  BY Dates DEF CorpusInv, CorpusTypeOK, PairRows, ObservationRows, Assertions
<1>3. n \in Nat /\ n > activations /\ 1 .. activations \subseteq 1 .. n /\ n \notin 1 .. activations
  BY <1>2, CorpusAssumption
<1>4. new \in [life : {"absent", "sink", "dataset"}, sit : Sits \cup {0},
               with : 0 .. MaxAlarm, at : Never .. MaxDay]
      /\ new.with = other /\ new.life = "sink"
  BY <1>2, CorpusAssumption
<1>5. inWindow => activations \in Nums /\ activations \in Stored(observation)
  BY <1>2, CorpusAssumption DEF CorpusInv, PairInv, Dated, Nums
<1> HIDE DEF n, inWindow, new
<1>6. pair' \in PairRows /\ observation' \in ObservationRows
  BY <1>1, <1>2, <1>4 DEF PairRows, ObservationRows
<1>7. Stored(observation') = Stored(observation) \cup {n} /\ Dated(observation')
  BY <1>1, <1>2 DEF ObservationRows, Stored, Dated, CorpusInv, PairInv
<1>8. \A m \in Nums \ {n} : pair'[m] = pair[m]
  BY <1>1, <1>2 DEF PairRows
<1>9. pair'[n] = pair[n] \/ (inWindow /\ pair'[n] = new)
  BY <1>1, <1>2 DEF PairRows
<1>10. n \notin Stored(pair)
  BY <1>3 DEF CorpusInv, PairInv
<1>11. Stored(pair') \subseteq 1 .. n
  BY <1>3, <1>8, <1>2, <1>1 DEF CorpusInv, PairInv, Stored, Nums
<1>12. Whole(pair', observation')
  <2> SUFFICES ASSUME NEW m \in Stored(pair'), NEW o \in {m, pair'[m].with} \ {0}
               PROVE  o \in Stored(observation')
    BY DEF Whole
  <2>1. CASE m = n
    <3>1. inWindow /\ pair'[n] = new
      BY <2>1, <1>9, <1>10 DEF Stored
    <3>2. o = n \/ o = activations
      BY <2>1, <3>1, <1>4
    <3> QED
      BY <3>1, <3>2, <1>5, <1>7
  <2>2. CASE m # n
    <3>1. pair'[m] = pair[m] /\ m \in Stored(pair)
      BY <2>2, <1>8 DEF Stored
    <3>2. o \in Stored(observation)
      BY <3>1 DEF CorpusInv, PairInv, Whole
    <3> QED
      BY <3>2, <1>7
  <2> QED
    BY <2>1, <2>2
<1>13. Asserted'
  <2> SUFFICES ASSUME NEW p \in asserted
               PROVE  /\ pair'[p.n].life = "dataset"
                      /\ pair'[p.n].with = p.with /\ pair'[p.n].at = p.at
    BY <1>1 DEF Asserted
  <2>1. /\ pair[p.n].life = "dataset" /\ pair[p.n].with = p.with /\ pair[p.n].at = p.at
        /\ p.n \in Nums
    BY <1>2 DEF CorpusInv, PairInv, Asserted, Assertions
  <2>2. p.n # n
    BY <2>1, <1>10 DEF Stored
  <2> QED
    BY <2>1, <2>2, <1>8
<1>14. Stored(pair)' = Stored(pair') /\ Whole(pair, observation)' = Whole(pair', observation')
       /\ Dated(observation)' = Dated(observation')
  BY DEF Stored, Whole, Dated, Nums
<1>15. PairInv'
  BY <1>1, <1>7, <1>11, <1>12, <1>13, <1>14 DEF PairInv
<1>16. /\ sit' \in [Sits -> SitRow]
       /\ \A t \in Sits : /\ sit'[t].label = sit[t].label /\ sit'[t].event = sit[t].event
                          /\ t \in Exists => t \in Exists'
  <2>1. sit \in [Sits -> SitRow]
    BY DEF CorpusInv, CorpusTypeOK, SitRow
  <2> QED
    BY <1>1, <2>1 DEF SitRow, Exists, Live
<1>17. CorpusTypeOK'
  <2>1. activations' \in 0 .. MaxAlarm
    BY <1>1 DEF Nums
  <2> QED
    BY <1>1, <1>6, <1>16, <2>1
       DEF CorpusInv, CorpusTypeOK, SitRow, PairRows, ObservationRows
<1>18. Remembered'
  BY <1>1, <1>16 DEF CorpusInv, Remembered
<1> QED
  BY <1>15, <1>17, <1>18 DEF CorpusInv

(* Of a row that is gone nothing is said.                                  *)
LEMMA GoneRow ==
    ASSUME CorpusTypeOK, NEW none, none = [NoRow EXCEPT !.status = "gone"]
    PROVE  none \in SitRow /\ none.label = Never /\ none.event = Never
<1>1. Never \in Never .. MaxDay
  BY Dates
<1>2. NoRow \in SitRow /\ NoRow.label = Never /\ NoRow.event = Never
  BY <1>1 DEF NoRow, SitRow
<1> QED
  BY <1>2 DEF SitRow

(* The operational sweep takes no row that anything was said of.           *)
LEMMA CollectedRows ==
    ASSUME CorpusInv, NEW closing \in SUBSET Sits, NEW cutoff,
           NEW rows, rows = Quiet(closing), NEW gone, gone = Collected(rows, cutoff),
           NEW none \in SitRow, none.label = Never, none.event = Never,
           NEW left, left = [s \in Sits |-> IF s \in gone THEN none ELSE rows[s]]
    PROVE  /\ left \in [Sits -> SitRow]
           /\ \A s \in Sits : /\ left[s].label = given[s].label
                              /\ given[s].event <= left[s].event /\ left[s].event <= day
                              /\ given[s].event # Never
                                   => left[s].status \in {"new", "open", "resolved"}
<1>1. /\ rows \in [Sits -> SitRow]
      /\ \A s \in Sits : /\ rows[s].label = sit[s].label /\ rows[s].event = sit[s].event
                         /\ s \in Exists => rows[s].status \in {"new", "open", "resolved"}
  BY QuietRows
<1>4. left \in [Sits -> SitRow]
  BY <1>1
<1>5. ASSUME NEW s \in Sits
      PROVE  /\ left[s].label = given[s].label
             /\ given[s].event <= left[s].event /\ left[s].event <= day
             /\ given[s].event # Never => left[s].status \in {"new", "open", "resolved"}
  <2>1. /\ sit[s].label = given[s].label
        /\ given[s].event <= sit[s].event /\ sit[s].event <= day
        /\ given[s].event # Never => s \in Exists
    BY DEF CorpusInv, Remembered
  <2>2. CASE s \in gone
    <3>1. rows[s].label = Never /\ rows[s].event = Never
      BY <2>2 DEF Collected
    <3>2. given[s].event \in Int /\ given[s].event >= Never
      BY CorpusAssumption DEF CorpusInv, CorpusTypeOK, Never
    <3>3. given[s].event <= Never /\ given[s].label = Never
      BY <1>1, <2>1, <3>1
    <3>6. given[s].event = Never
      BY <3>2, <3>3 DEF Never
    <3>4. Never <= day
      BY CorpusAssumption DEF CorpusInv, CorpusTypeOK, Never
    <3>5. left[s] = none
      BY <2>2
    <3> QED
      BY <3>3, <3>4, <3>5, <3>6 DEF Never
  <2>3. CASE s \notin gone
    <3>1. left[s] = rows[s]
      BY <2>3
    <3> QED
      BY <1>1, <2>1, <3>1
  <2> QED
    BY <2>2, <2>3
<1> QED
  BY <1>4, <1>5

LEMMA Pruned ==
    ASSUME CorpusInv, NEW closing \in SUBSET Sits, NEW counted \in BOOLEAN,
           maintenance_prunes(closing, counted)
    PROVE  CorpusInv'
<1> DEFINE rows == Quiet(closing)
           gone == Collected(rows, day - KeepDays)
           cutoff == day - policy.audit
           sink == prune_sink(pair, observation, day - policy.sink, counted)
           audit == prune_dataset_audit(sink.pairs, sink.observations, cutoff)
           left == [s \in Sits |-> IF s \in gone THEN [NoRow EXCEPT !.status = "gone"]
                                   ELSE rows[s]]
<1>1. CASE sweep' = "refused" /\ UNCHANGED <<rowVars, historyVars, activations, known, policy, day>>
  <2>1. CorpusTypeOK'
    BY <1>1 DEF CorpusInv, CorpusTypeOK, rowVars, historyVars
  <2>2. PairInv' /\ Remembered'
    BY <1>1 DEF CorpusInv, PairInv, Whole, Stored, Dated, Asserted, Remembered, Exists,
                rowVars, historyVars
  <2> QED
    BY <2>1, <2>2 DEF CorpusInv
<1>2. CASE /\ sweep' = "done" /\ sit' = Forgotten(left, cutoff)
           /\ pair' = audit.pairs /\ observation' = audit.observations
           /\ Enforced(cutoff) /\ UNCHANGED <<activations, known, policy, day>>
  <2>1. cutoff \in Int
    BY Dates DEF CorpusInv, CorpusTypeOK
  <2>2. /\ pair \in PairRows /\ observation \in ObservationRows
        /\ Whole(pair, observation) /\ Dated(observation)
    BY DEF CorpusInv, CorpusTypeOK, PairRows, ObservationRows, PairInv
  <2>3. PICK older : older = day - policy.sink
    OBVIOUS
  <2>4. sink = prune_sink(pair, observation, older, counted)
    BY <2>3
  <2> HIDE DEF sink
  <2>5. /\ sink.pairs \in PairRows /\ sink.observations \in ObservationRows
        /\ Whole(sink.pairs, sink.observations) /\ Dated(sink.observations)
        /\ Stored(sink.pairs) \subseteq Stored(pair)
        /\ \A n \in Nums : pair[n].life = "dataset" => sink.pairs[n] = pair[n]
    BY <2>2, <2>4, SinkSwept
  <2> HIDE DEF cutoff
  <2>6. audit = prune_dataset_audit(sink.pairs, sink.observations, cutoff)
    OBVIOUS
  <2> HIDE DEF audit
  <2>7. /\ PairInv' /\ pair' \in PairRows /\ observation' \in ObservationRows
        /\ asserted' \subseteq Assertions
    BY <1>2, <2>1, <2>5, <2>6, Enforces DEF CorpusInv
  <2>8. rows = Quiet(closing)
    OBVIOUS
  <2>9. PICK none : none = [NoRow EXCEPT !.status = "gone"]
    OBVIOUS
  <2>10. none \in SitRow /\ none.label = Never /\ none.event = Never
    BY <2>9, GoneRow DEF CorpusInv
  <2>11. left = [s \in Sits |-> IF s \in gone THEN none ELSE rows[s]]
    BY <2>9
  <2>12. PICK before : before = day - KeepDays
    OBVIOUS
  <2>13. gone = Collected(rows, before)
    BY <2>12
  <2> HIDE DEF rows, left, gone
  <2>14. /\ left \in [Sits -> SitRow]
        /\ \A s \in Sits : /\ left[s].label = given[s].label
                           /\ given[s].event <= left[s].event /\ left[s].event <= day
                           /\ given[s].event # Never
                                => left[s].status \in {"new", "open", "resolved"}
    BY <2>8, <2>11, <2>13, <2>10, CollectedRows
  <2>15. Remembered' /\ sit' \in [Sits -> SitRow] /\ given' \in History
    BY <1>2, <2>1, <2>14, Forgets DEF CorpusInv
  <2>16. CorpusTypeOK'
    BY <1>2, <2>7, <2>15
       DEF CorpusInv, CorpusTypeOK, SitRow, History, PairRows, ObservationRows, Assertions
  <2> QED
    BY <2>7, <2>15, <2>16 DEF CorpusInv
<1> QED
  BY <1>1, <1>2 DEF maintenance_prunes

LEMMA PolicySet ==
    ASSUME CorpusInv, NEW candidate \in Candidates, set_retention(candidate)
    PROVE  CorpusInv'
<1> DEFINE cutoff == day - candidate.audit
           audit == prune_dataset_audit(pair, observation, cutoff)
<1>1. /\ policy' = candidate /\ sit' = Forgotten(sit, cutoff)
      /\ pair' = audit.pairs /\ observation' = audit.observations
      /\ Enforced(cutoff) /\ UNCHANGED <<activations, known, day, sweep>>
  BY DEF set_retention
<1>2. candidate \in [sink : Int, training : Int, audit : Int] /\ cutoff \in Int
  BY CorpusAssumption, Dates DEF CorpusInv
<1>3. /\ pair \in PairRows /\ observation \in ObservationRows
      /\ Whole(pair, observation) /\ Dated(observation)
  BY DEF CorpusInv, CorpusTypeOK, PairRows, ObservationRows, PairInv
<1> HIDE DEF cutoff
<1>4. audit = prune_dataset_audit(pair, observation, cutoff)
  OBVIOUS
<1> HIDE DEF audit
<1>5. /\ PairInv' /\ pair' \in PairRows /\ observation' \in ObservationRows
      /\ asserted' \subseteq Assertions
  BY <1>1, <1>2, <1>3, <1>4, Enforces DEF CorpusInv
<1>6. /\ sit \in [Sits -> SitRow]
      /\ \A s \in Sits : /\ sit[s].label = given[s].label
                         /\ given[s].event <= sit[s].event /\ sit[s].event <= day
                         /\ given[s].event # Never
                              => sit[s].status \in {"new", "open", "resolved"}
  BY DEF CorpusInv, CorpusTypeOK, SitRow, Remembered, Exists
<1>7. Remembered' /\ sit' \in [Sits -> SitRow] /\ given' \in History
  BY <1>1, <1>2, <1>6, Forgets DEF CorpusInv
<1>8. CorpusTypeOK'
  BY <1>1, <1>2, <1>5, <1>7
     DEF CorpusInv, CorpusTypeOK, SitRow, History, PairRows, ObservationRows, Assertions
<1> QED
  BY <1>5, <1>7, <1>8 DEF CorpusInv

(* Autonomy leaves no event but that of closing, which is the model's.     *)
LEMMA Acted ==
    ASSUME CorpusInv, NEW s \in Sits, NEW acts \in SUBSET Grades, _act(s, acts)
    PROVE  CorpusInv'
<1> DEFINE row == IF "grouping" \in acts THEN attended(sit[s]) ELSE sit[s]
           done == [row EXCEPT !.decided = @ \cup acts]
           closed == resolved(done)
<1>1. /\ s \in Live
      /\ sit' = [sit EXCEPT ![s] = IF "closing" \in acts THEN [closed EXCEPT !.event = day]
                                   ELSE done]
      /\ UNCHANGED <<pair, observation, activations, known, policy, day, sweep, historyVars>>
  BY DEF _act
<1>2. /\ sit \in [Sits -> SitRow] /\ day \in Never .. MaxDay
  BY Dates DEF CorpusInv, CorpusTypeOK, SitRow
<1>3. /\ row \in SitRow /\ row.label = sit[s].label /\ row.event = sit[s].event
      /\ row.status \in {"new", "open", "resolved"}
  BY <1>1, <1>2, RowKept DEF CorpusInv, Live
<1> HIDE DEF row
<1>4. /\ done \in SitRow /\ done.label = row.label /\ done.event = row.event
      /\ done.status = row.status
  BY <1>3 DEF SitRow
<1> HIDE DEF done
<1>5. /\ closed \in SitRow /\ closed.label = done.label /\ closed.status = "resolved"
  BY <1>4, RowKept DEF CorpusInv
<1> HIDE DEF closed
<1>6. /\ [closed EXCEPT !.event = day] \in SitRow
      /\ [closed EXCEPT !.event = day].label = closed.label
      /\ [closed EXCEPT !.event = day].event = day
      /\ [closed EXCEPT !.event = day].status = closed.status
  BY <1>2, <1>5 DEF SitRow
<1>7. sit' \in [Sits -> SitRow]
  BY <1>1, <1>2, <1>4, <1>6
<1>8. ASSUME NEW t \in Sits
      PROVE  /\ sit'[t].label = sit[t].label
             /\ sit'[t].event = sit[t].event \/ sit'[t].event = day
             /\ t \in Exists => sit'[t].status \in {"new", "open", "resolved"}
  <2>1. CASE t = s
    <3>1. sit'[s] = done \/ sit'[s] = [closed EXCEPT !.event = day]
      BY <1>1, <1>2
    <3> QED
      BY <2>1, <3>1, <1>3, <1>4, <1>5, <1>6
  <2>2. CASE t # s
    BY <2>2, <1>1, <1>2 DEF Exists
  <2> QED
    BY <2>1, <2>2
<1>9. sweep' \in {"done", "refused"}
  BY <1>1 DEF CorpusInv, CorpusTypeOK
<1> QED
  BY <1>1, <1>7, <1>8, <1>9, OnlyRows

(* A merge leaves its event on the situation that stays.                   *)
LEMMA Merged ==
    ASSUME CorpusInv, NEW s \in Sits, NEW peer \in Sits, NEW sure \in BOOLEAN,
           merge_situations(s, peer, sure)
    PROVE  CorpusInv'
<1> DEFINE kept == attended(sit[s])
           lost == resolved(sit[peer])
<1>1. /\ s # peer /\ {s, peer} \subseteq Live
      /\ sit' = [sit EXCEPT ![s] = [kept EXCEPT !.event = day], ![peer] = lost]
      /\ given' = [given EXCEPT ![s].event = day]
      /\ promote_for_situation(IF sure THEN {s, peer} ELSE {})
      /\ UNCHANGED <<activations, known, policy, day, sweep>>
  BY DEF merge_situations
<1>2. /\ PairInv' /\ pair' \in PairRows /\ observation' \in ObservationRows
      /\ asserted' \subseteq Assertions
  BY <1>1, Promotes DEF CorpusInv
<1>3. sit \in [Sits -> SitRow] /\ given \in History /\ day \in Never .. MaxDay
  BY Dates DEF CorpusInv, CorpusTypeOK, SitRow, History
<1>4. /\ kept \in SitRow /\ kept.label = sit[s].label
      /\ kept.status \in {"new", "open", "resolved"}
      /\ lost \in SitRow /\ lost.label = sit[peer].label /\ lost.event = sit[peer].event
      /\ lost.status = "resolved"
  BY <1>1, <1>3, RowKept DEF CorpusInv, Live
<1> HIDE DEF kept, lost
<1>5. /\ [kept EXCEPT !.event = day] \in SitRow
      /\ [kept EXCEPT !.event = day].label = kept.label
      /\ [kept EXCEPT !.event = day].event = day
      /\ [kept EXCEPT !.event = day].status = kept.status
  BY <1>3, <1>4 DEF SitRow
<1>6. /\ sit' \in [Sits -> SitRow] /\ sit'[s] = [kept EXCEPT !.event = day] /\ sit'[peer] = lost
      /\ \A t \in Sits \ {s, peer} : sit'[t] = sit[t]
  BY <1>1, <1>3, <1>4, <1>5
<1>7. /\ given' \in History /\ given'[s].label = given[s].label /\ given'[s].event = day
      /\ \A t \in Sits \ {s} : given'[t] = given[t]
  BY <1>1, <1>3 DEF History
<1>8. CorpusTypeOK'
  BY <1>1, <1>2, <1>6, <1>7
     DEF CorpusInv, CorpusTypeOK, SitRow, History, PairRows, ObservationRows, Assertions
<1>9. Remembered'
  <2> SUFFICES ASSUME NEW t \in Sits
               PROVE  /\ sit'[t].label = given'[t].label
                      /\ given'[t].event <= sit'[t].event /\ sit'[t].event <= day
                      /\ given'[t].event # Never => sit'[t].status \in {"new", "open", "resolved"}
    BY <1>1 DEF Remembered, Exists
  <2>1. /\ sit[t].label = given[t].label
        /\ given[t].event <= sit[t].event /\ sit[t].event <= day
        /\ given[t].event # Never => sit[t].status \in {"new", "open", "resolved"}
    BY DEF CorpusInv, Remembered, Exists
  <2>2. day \in Int
    BY Dates DEF CorpusInv
  <2>3. CASE t = s
    BY <2>1, <2>2, <2>3, <1>4, <1>5, <1>6, <1>7
  <2>4. CASE t = peer
    BY <2>1, <2>4, <1>1, <1>4, <1>6, <1>7
  <2>5. CASE t \notin {s, peer}
    BY <2>1, <2>5, <1>6, <1>7
  <2> QED
    BY <2>3, <2>4, <2>5
<1> QED
  BY <1>2, <1>8, <1>9 DEF CorpusInv

LEMMA CorpusInitial == CorpusInit => CorpusInv
<1> SUFFICES ASSUME CorpusInit PROVE CorpusInv
  OBVIOUS
<1>1. 0 \in 0 .. MaxDay /\ Never \in Never .. MaxDay /\ 0 \in 0 .. MaxAlarm
  BY CorpusAssumption DEF Never
<1>2. NoRow \in SitRow
  BY <1>1 DEF NoRow, SitRow
<1>3. sit \in [Sits -> SitRow] /\ \A s \in Sits : sit[s].label = Never /\ sit[s].event = Never
  BY <1>2 DEF CorpusInit, NoRow
<1>4. pair \in PairRows /\ observation \in ObservationRows
  BY <1>1 DEF CorpusInit, PairRows, ObservationRows, NoPair, NoObservation
<1>5. given \in History /\ \A s \in Sits : given[s].label = Never /\ given[s].event = Never
  BY <1>1 DEF CorpusInit, History
<1>6. CorpusTypeOK
  BY <1>1, <1>3, <1>4, <1>5, CorpusAssumption
     DEF CorpusInit, CorpusTypeOK, SitRow, PairRows, ObservationRows, History
<1>7. PairInv
  BY DEF CorpusInit, PairInv, Stored, Whole, Dated, Asserted, NoPair, NoObservation
<1>8. Remembered
  BY <1>3, <1>5 DEF CorpusInit, Remembered, Never
<1> QED
  BY <1>6, <1>7, <1>8 DEF CorpusInv

LEMMA CorpusStep == CorpusInv /\ [CorpusNext]_corpusVars => CorpusInv'
<1> SUFFICES ASSUME CorpusInv, [CorpusNext]_corpusVars PROVE CorpusInv'
  OBVIOUS
<1>0. sit \in [Sits -> SitRow] /\ \A s \in Sits : sit[s] \in SitRow
  BY DEF CorpusInv, CorpusTypeOK, SitRow
<1>1. ASSUME NEW s \in Sits, NEW room \in BOOLEAN, record(s, room) PROVE CorpusInv'
  BY <1>1, Recorded
<1>2. CASE restart
  <2>1. UNCHANGED <<sit, pair, observation, asserted, given, activations, policy, day, sweep>>
        /\ known' = FALSE
    BY <1>2 DEF restart, rowVars, historyVars
  <2> QED
    BY <2>1 DEF CorpusInv, CorpusTypeOK, PairInv, Whole, Stored, Dated, Asserted, Remembered, Exists
<1>3. ASSUME NEW s \in Sits, NEW changed \in BOOLEAN, feedback(s, changed) PROVE CorpusInv'
  <2> DEFINE labels == changed \/ sit[s].label = Never
  <2>1. s \in Exists /\ Gesture(s, attended(sit[s]), labels, {s})
    BY <1>3 DEF feedback
  <2>2. labels \in BOOLEAN
    OBVIOUS
  <2> HIDE DEF labels
  <2>3. /\ attended(sit[s]) \in SitRow /\ attended(sit[s]).label = sit[s].label
        /\ attended(sit[s]).status \in {"new", "open", "resolved"}
    BY <1>0, <2>1, RowKept DEF CorpusInv, Exists
  <2> QED
    BY <2>1, <2>2, <2>3, Gestured
<1>4. ASSUME NEW s \in Sits, NEW peer \in Sits, NEW sure \in BOOLEAN, NEW new \in BOOLEAN,
             regroup(s, peer, sure, new)
      PROVE  CorpusInv'
  <2>1. /\ s \in Live
        /\ Gesture(s, attended(sit[s]), sure /\ new, IF sure THEN {s, peer} ELSE {})
    BY <1>4 DEF regroup
  <2>2. (sure /\ new) \in BOOLEAN
    OBVIOUS
  <2>3. /\ attended(sit[s]) \in SitRow /\ attended(sit[s]).label = sit[s].label
        /\ attended(sit[s]).status \in {"new", "open", "resolved"}
    BY <1>0, <2>1, RowKept DEF CorpusInv, Live
  <2> QED
    BY <2>1, <2>2, <2>3, Gestured
<1>5. ASSUME NEW s \in Sits, NEW peer \in Sits, NEW sure \in BOOLEAN,
             merge_situations(s, peer, sure)
      PROVE  CorpusInv'
  BY <1>5, Merged
<1>6. ASSUME NEW s \in Sits, name_situation(s) PROVE CorpusInv'
  <2>1. s \in Exists /\ Gesture(s, sit[s], FALSE, {})
    BY <1>6 DEF name_situation
  <2>2. sit[s] \in SitRow /\ sit[s].status \in {"new", "open", "resolved"}
    BY <1>0, <2>1 DEF Exists
  <2>3. PICK labels \in BOOLEAN : Gesture(s, sit[s], labels, {})
    BY <2>1
  <2> QED
    BY <2>2, <2>3, Gestured
<1>7. ASSUME NEW s \in Sits, NEW judged \in BOOLEAN, close_situation(s, judged) PROVE CorpusInv'
  <2>1. Gesture(s, resolved(sit[s]), judged, IF judged THEN {s} ELSE {})
    BY <1>7 DEF close_situation
  <2>2. /\ resolved(sit[s]) \in SitRow /\ resolved(sit[s]).label = sit[s].label
        /\ resolved(sit[s]).status \in {"new", "open", "resolved"}
    BY <1>0, RowKept DEF CorpusInv
  <2> QED
    BY <2>1, <2>2, Gestured
<1>8. ASSUME NEW s \in Sits, NEW acts \in SUBSET Grades, _act(s, acts) PROVE CorpusInv'
  BY <1>8, Acted
<1>9. ASSUME NEW closing \in SUBSET Sits, maintenance(closing) PROVE CorpusInv'
  <2>1. /\ sit' = Quiet(closing)
        /\ UNCHANGED <<pair, observation, activations, known, policy, day, sweep, historyVars>>
    BY <1>9 DEF maintenance
  <2>2. sweep' \in {"done", "refused"}
    BY <2>1 DEF CorpusInv, CorpusTypeOK
  <2>3. /\ sit' \in [Sits -> SitRow]
        /\ \A s \in Sits : /\ sit'[s].label = sit[s].label /\ sit'[s].event = sit[s].event
                           /\ s \in Exists => sit'[s].status \in {"new", "open", "resolved"}
    BY <2>1, QuietRows
  <2> QED
    BY <2>1, <2>2, <2>3, OnlyRows
<1>10. ASSUME NEW closing \in SUBSET Sits, NEW counted \in BOOLEAN,
              maintenance_prunes(closing, counted)
       PROVE  CorpusInv'
  BY <1>10, Pruned
<1>11. ASSUME NEW candidate \in Candidates, set_retention(candidate) PROVE CorpusInv'
  BY <1>11, PolicySet
<1>12. CASE NextDay
  <2>1. UNCHANGED <<sit, pair, observation, asserted, given, activations, known, policy, sweep>>
        /\ day < MaxDay /\ day' = day + 1
    BY <1>12 DEF NextDay, rowVars, historyVars
  <2>2. day' \in 0 .. MaxDay
    BY <2>1, CorpusAssumption DEF CorpusInv, CorpusTypeOK
  <2>3. CorpusTypeOK' /\ PairInv'
    BY <2>1, <2>2 DEF CorpusInv, CorpusTypeOK, PairInv, Whole, Stored, Dated, Asserted
  <2>4. \A s \in Sits : sit[s].event \in Int
    BY Dates DEF CorpusInv, CorpusTypeOK
  <2>5. \A s \in Sits : sit[s].event <= day'
    BY <2>1, <2>4, Dates DEF CorpusInv, Remembered
  <2>6. Remembered'
    BY <2>1, <2>5 DEF CorpusInv, Remembered, Exists
  <2> QED
    BY <2>3, <2>6 DEF CorpusInv
<1>13. CASE UNCHANGED corpusVars
  BY <1>13 DEF corpusVars, rowVars, historyVars, CorpusInv, CorpusTypeOK, PairInv, Whole, Stored,
               Dated, Asserted, Remembered, Exists
<1> QED
  BY <1>1, <1>2, <1>3, <1>4, <1>5, <1>6, <1>7, <1>8, <1>9, <1>10, <1>11, <1>12, <1>13
     DEF CorpusNext

(* The rows of the dataset, the situations and the history are what the    *)
(* module says they are (store/dataset.py, store/situations.py).           *)
THEOREM CorpusTyped == CorpusSpec => []CorpusTypeOK
<1>1. CorpusInv => CorpusTypeOK
  BY DEF CorpusInv
<1> QED
  BY CorpusInitial, CorpusStep, <1>1, PTL DEF CorpusSpec

(* Whatever the sweeps, the policies, autonomy and restarts do, a label, a *)
(* gesture and the pairs they promoted are kept, with both observations,   *)
(* until an audit sweep enforces a bound past their day                    *)
(* (store/retention.py, prune_sink, prune_dataset_audit).                  *)
THEOREM EvidenceIsKept == CorpusSpec => []EvidenceKept
<1>1. CorpusInv => EvidenceKept
  <2> SUFFICES ASSUME CorpusInv PROVE EvidenceKept
    OBVIOUS
  <2>1. \A s \in Sits : given[s].event # Never =>
            s \in Exists /\ sit[s].label = given[s].label /\ sit[s].event >= given[s].event
    BY CorpusAssumption DEF CorpusInv, CorpusTypeOK, Remembered, Never
  <2>2. \A p \in asserted :
            pair[p.n].life = "dataset" /\ {p.n, p.with} \ {0} \subseteq Stored(observation)
    <3> SUFFICES ASSUME NEW p \in asserted
                 PROVE  /\ pair[p.n].life = "dataset"
                        /\ {p.n, p.with} \ {0} \subseteq Stored(observation)
      OBVIOUS
    <3>1. pair[p.n].life = "dataset" /\ pair[p.n].with = p.with /\ p.n \in Nums
      BY DEF CorpusInv, CorpusTypeOK, PairInv, Asserted
    <3>2. p.n \in Stored(pair)
      BY <3>1 DEF Stored
    <3> QED
      BY <3>1, <3>2 DEF CorpusInv, PairInv, Whole
  <2> QED
    BY <2>1, <2>2 DEF EvidenceKept
<1> QED
  BY CorpusInitial, CorpusStep, <1>1, PTL DEF CorpusSpec

-----------------------------------------------------------------------------
(* The capture runs *)

(* The run in use is the newest, unless a rollback took it.                *)
Runs(c) ==
    /\ \E rows, loose, next, current :
          c = [rows |-> rows, loose |-> loose, next |-> next, current |-> current]
    /\ c.next \in Nat \ {0} /\ DOMAIN c.rows \subseteq 1 .. c.next - 1
    /\ c.current \in DOMAIN c.rows => c.current = Newest(c)
Under(c, key) == c.current \in DOMAIN c.rows => c.rows[c.current] = key

(* What scores is what the rows of the last load prescribe, and the run in *)
(* use has its key, unless it is the formula.                              *)
Loads ==
    /\ prescribed.row = LoadedRow(loaded)
    /\ prescribed.scorer = scorer /\ scorer = Built(LoadedRow(loaded))
Opened ==
    /\ Runs(capture)
    /\ scorer # Formula => Under(capture, RunKey(scorer, LoadedRow(loaded)))

DecidersInv == Loads /\ Opened /\ PairsAreOfTheirRun

(* A set of naturals that is bounded and not empty has its greatest: the   *)
(* least of its bounds, which exists because < is well-founded.            *)
LEMMA Greatest ==
    ASSUME NEW n \in Nat, NEW S, S \subseteq 1 .. n, S # {}
    PROVE  Max(S) \in S /\ \A x \in S : Max(S) >= x
<1> DEFINE Bounds == {m \in Nat : \A x \in S : m >= x}
<1>1. \E R : /\ IsWellFoundedOn(R, Nat)
             /\ \A x, y \in Nat : x < y => <<x, y>> \in R
  <2>1. IsWellFoundedOn(OpToRel(<, Nat), Nat)
    BY NatLessThanWellFounded
  <2>2. \A x, y \in Nat : x < y => <<x, y>> \in OpToRel(<, Nat)
    BY Zenon DEF OpToRel
  <2> QED
    BY <2>1, <2>2, Zenon
<1>2. PICK R : /\ IsWellFoundedOn(R, Nat)
               /\ \A x, y \in Nat : x < y => <<x, y>> \in R
  BY <1>1, Zenon
<1>3. Bounds \subseteq Nat /\ n \in Bounds
  OBVIOUS
<1> HIDE DEF Bounds
<1>4. PICK m \in Bounds : \A y \in Bounds : ~ (<<y, m>> \in R)
  <2>1. Bounds # {} /\ Bounds \subseteq Nat
    BY <1>3
  <2>2. IsWellFoundedOn(R, Nat)
    BY <1>2
  <2> QED
    BY <2>1, <2>2, WFMin, ZenonT(30)
<1>5. m \in Nat /\ \A x \in S : m >= x
  BY <1>4 DEF Bounds
<1>6. m \in S
  <2> SUFFICES ASSUME m \notin S PROVE FALSE
    OBVIOUS
  <2>1. \A x \in S : x \in Nat /\ x > 0 /\ m > x
    BY <1>5
  <2>2. m - 1 \in Nat /\ \A x \in S : m - 1 >= x
    <3>1. PICK x \in S : TRUE
      OBVIOUS
    <3>2. m > 0
      BY <1>5, <2>1, <3>1
    <3> QED
      BY <1>5, <2>1, <3>2
  <2>3. m - 1 \in Bounds /\ m - 1 < m
    BY <1>5, <2>2 DEF Bounds
  <2> QED
    BY <1>2, <1>4, <1>5, <2>2, <2>3
<1>7. \A a, b \in S : a \in Nat /\ b \in Nat
  OBVIOUS
<1> QED
  BY <1>5, <1>6, <1>7 DEF Max

LEMMA RunsOf ==
    ASSUME NEW rows, NEW loose, NEW next \in Nat \ {0}, NEW current,
           DOMAIN rows \subseteq 1 .. next - 1, current \in DOMAIN rows => current = Max(DOMAIN rows)
    PROVE  Runs([rows |-> rows, loose |-> loose, next |-> next, current |-> current])
<1> DEFINE c == [rows |-> rows, loose |-> loose, next |-> next, current |-> current]
<1>1. c.rows = rows /\ c.next = next /\ c.current = current
  OBVIOUS
<1>2. \E r, l, n, k : c = [rows |-> r, loose |-> l, next |-> n, current |-> k]
  OBVIOUS
<1> HIDE DEF c
<1>3. Runs(c)
  BY <1>1, <1>2 DEF Runs, Newest
<1> QED
  BY <1>3 DEF c

(* What a run gives up and keeps, field by field.                          *)
LEMMA Fielded ==
    ASSUME NEW c, Runs(c)
    PROVE  /\ [c EXCEPT !.current = Nil] = [rows |-> c.rows, loose |-> c.loose, next |-> c.next,
                                           current |-> Nil]
           /\ RolledBack(c) = [rows |-> Restrict(c.rows, DOMAIN c.rows \ c.loose), loose |-> {},
                               next |-> c.next, current |-> c.current]
           /\ Committed(c) = [rows |-> IF DOMAIN c.rows = {} THEN c.rows
                                       ELSE Restrict(c.rows, {Newest(c)}),
                              loose |-> {}, next |-> c.next, current |-> c.current]
<1>1. PICK rows, loose, next, current :
          c = [rows |-> rows, loose |-> loose, next |-> next, current |-> current]
  BY DEF Runs
<1>2. c.rows = rows /\ c.loose = loose /\ c.next = next /\ c.current = current
  BY <1>1
<1>3. [c EXCEPT !.current = Nil] = [rows |-> rows, loose |-> loose, next |-> next, current |-> Nil]
  BY <1>1
<1>4. \A kept : /\ [c EXCEPT !.rows = kept, !.loose = {}] =
                      [rows |-> kept, loose |-> {}, next |-> next, current |-> current]
                /\ [c EXCEPT !.loose = {}, !.rows = kept] =
                      [rows |-> kept, loose |-> {}, next |-> next, current |-> current]
  <2> SUFFICES ASSUME NEW kept
               PROVE  /\ [c EXCEPT !.rows = kept, !.loose = {}] =
                            [rows |-> kept, loose |-> {}, next |-> next, current |-> current]
                      /\ [c EXCEPT !.loose = {}, !.rows = kept] =
                            [rows |-> kept, loose |-> {}, next |-> next, current |-> current]
    OBVIOUS
  <2> DEFINE a == [c EXCEPT !.rows = kept, !.loose = {}]
  <2> DEFINE b == [c EXCEPT !.loose = {}, !.rows = kept]
  <2>1. a = [f \in DOMAIN c |-> IF f = "loose" THEN {} ELSE IF f = "rows" THEN kept ELSE c[f]]
    OBVIOUS
  <2>2. b = [f \in DOMAIN c |-> IF f = "loose" THEN {} ELSE IF f = "rows" THEN kept ELSE c[f]]
    OBVIOUS
  <2> QED
    BY <1>1, <2>1, <2>2
<1>5. RolledBack(c) = [c EXCEPT !.rows = Restrict(rows, DOMAIN rows \ loose), !.loose = {}]
  BY <1>1, <1>2 DEF RolledBack
<1>6. Committed(c) = [c EXCEPT !.loose = {}, !.rows = IF DOMAIN rows = {} THEN rows
                                                     ELSE Restrict(rows, {Newest(c)})]
  BY <1>1, <1>2 DEF Committed
<1> QED
  BY <1>2, <1>3, <1>4, <1>5, <1>6

LEMMA RunForgotten == ASSUME NEW c, Runs(c) PROVE Runs([c EXCEPT !.current = Nil])
<1>1. c.next \in Nat \ {0} /\ DOMAIN c.rows \subseteq 1 .. c.next - 1 /\ Nil \notin DOMAIN c.rows
  BY DecidersAssumption DEF Runs
<1>2. [c EXCEPT !.current = Nil] = [rows |-> c.rows, loose |-> c.loose, next |-> c.next,
                                    current |-> Nil]
  BY Fielded
<1> QED
  BY <1>1, <1>2, RunsOf

LEMMA NewestIs ==
    ASSUME NEW c, Runs(c), DOMAIN c.rows # {}
    PROVE  Newest(c) \in DOMAIN c.rows /\ \A r \in DOMAIN c.rows : Newest(c) >= r
<1>1. c.next - 1 \in Nat /\ DOMAIN c.rows \subseteq 1 .. c.next - 1
  BY DEF Runs
<1> QED
  BY <1>1, Greatest DEF Newest

LEMMA Keeps ==
    ASSUME NEW c, Runs(c), NEW S, S \subseteq DOMAIN c.rows, c.current \in S => Newest(c) \in S,
           NEW d, d = [rows |-> Restrict(c.rows, S), loose |-> {}, next |-> c.next,
                       current |-> c.current]
    PROVE  Runs(d) /\ \A key : Under(c, key) => Under(d, key)
<1> DEFINE rows == Restrict(c.rows, S)
<1>1. DOMAIN rows = S /\ \A r \in S : rows[r] = c.rows[r]
  BY DEF Restrict
<1>2. c.next \in Nat \ {0} /\ S \subseteq 1 .. c.next - 1
  BY DEF Runs
<1>3. c.current \in S => c.current = Max(S)
  <2> SUFFICES ASSUME c.current \in S PROVE c.current = Max(S)
    OBVIOUS
  <2>1. c.current = Newest(c) /\ DOMAIN c.rows # {}
    BY DEF Runs
  <2>2. \A r \in S : c.current >= r /\ r \in Nat
    BY <2>1, NewestIs DEF Runs
  <2> QED
    BY <2>2 DEF Max
<1>4. d.rows = rows /\ d.current = c.current
  OBVIOUS
<1> HIDE DEF rows
<1>5. Runs(d)
  BY <1>1, <1>2, <1>3, RunsOf DEF rows
<1> QED
  BY <1>1, <1>4, <1>5 DEF Under

LEMMA Commits ==
    ASSUME NEW c, Runs(c)
    PROVE  Runs(Committed(c)) /\ \A key : Under(c, key) => Under(Committed(c), key)
<1>1. CASE DOMAIN c.rows = {}
  <2>1. Committed(c) = [rows |-> c.rows, loose |-> {}, next |-> c.next, current |-> c.current]
    BY <1>1, Fielded
  <2>2. c.next \in Nat \ {0} /\ DOMAIN c.rows \subseteq 1 .. c.next - 1
    BY DEF Runs
  <2>3. Runs(Committed(c))
    BY <1>1, <2>1, <2>2, RunsOf
  <2> QED
    BY <1>1, <2>1, <2>3 DEF Under
<1>2. CASE DOMAIN c.rows # {}
  <2>1. Committed(c) = [rows |-> Restrict(c.rows, {Newest(c)}), loose |-> {}, next |-> c.next,
                        current |-> c.current]
    BY <1>2, Fielded
  <2> QED
    BY <1>2, <2>1, NewestIs, Keeps
<1> QED
  BY <1>1, <1>2

LEMMA RollsBack ==
    ASSUME NEW c, Runs(c)
    PROVE  Runs(RolledBack(c)) /\ \A key : Under(c, key) => Under(RolledBack(c), key)
<1> DEFINE S == DOMAIN c.rows \ c.loose
<1>1. c.current \in S => Newest(c) \in S
  BY DEF Runs
<1> QED
  BY ZenonT(60), <1>1, Fielded, Keeps

(* Whatever run it finds, opening leaves one of the key that was asked.    *)
LEMMA Opens ==
    ASSUME NEW c, Runs(c), NEW key
    PROVE  Runs(open_run(c, key, TRUE)) /\ Under(open_run(c, key, TRUE), key)
<1>1. CASE c.current # Nil /\ DOMAIN c.rows # {} /\ c.rows[Newest(c)] = key
  <2>1. open_run(c, key, TRUE) = c
    BY <1>1 DEF open_run
  <2> QED
    BY <1>1, <2>1 DEF Runs, Under
<1>2. CASE ~(c.current # Nil /\ DOMAIN c.rows # {} /\ c.rows[Newest(c)] = key)
  <2> DEFINE rows == [r \in DOMAIN c.rows \cup {c.next} |-> IF r = c.next THEN key ELSE c.rows[r]]
  <2> DEFINE d == [rows |-> rows, loose |-> c.loose \cup {c.next}, next |-> c.next + 1,
                   current |-> c.next]
  <2>1. open_run(c, key, TRUE) = d
    BY <1>2 DEF open_run
  <2>2. DOMAIN rows = DOMAIN c.rows \cup {c.next} /\ rows[c.next] = key
    OBVIOUS
  <2>3. d.rows = rows /\ d.current = c.next
    OBVIOUS
  <2> HIDE DEF rows
  <2>4. c.next \in Nat \ {0} /\ \A r \in DOMAIN c.rows : r \in Nat /\ 1 <= r /\ r < c.next
    BY DEF Runs
  <2>5. \A r \in DOMAIN rows : c.next >= r /\ r \in 1 .. (c.next + 1) - 1
    BY <2>2, <2>4
  <2>6. Max(DOMAIN rows) = c.next
    BY <2>2, <2>4, <2>5 DEF Max
  <2>7. Runs(d)
    BY <2>4, <2>5, <2>6, RunsOf
  <2> QED
    BY <2>1, <2>2, <2>3, <2>7 DEF Under
<1> QED
  BY <1>1, <1>2

LEMMA Reloads ==
    ASSUME NEW c, Runs(c), NEW key
    PROVE  /\ Runs(reload(c, key))
           /\ Under(c, key) => Under(reload(c, key), key)
  BY RunForgotten, Opens DEF reload

-----------------------------------------------------------------------------
(* The loads *)

LEMMA Adopts ==
    ASSUME NEW leagueOk \in BOOLEAN
    PROVE  LoadedRow(KeyOf(Adopted(leagueOk), leagueOk)) = Adopted(leagueOk)
<1>1. Adopted(leagueOk) \in Anyone \cup {Nil}
  BY DecidersAssumption DEF Adopted, choose, League, Anyone
<1>2. (LeagueDecides /\ ~leagueOk) \in BOOLEAN
  BY DEF LeagueDecides
<1> QED
  BY <1>1, <1>2, DecidersAssumption DEF KeyOf, LoadedRow, Anyone

(* The key that a load remembers is that of the scorer it leaves in charge,*)
(* also when the key was remembered before and nothing is built.           *)
LEMMA Loaded ==
    ASSUME Loads, NEW readable \in BOOLEAN, NEW leagueOk \in BOOLEAN,
           load_scorer_config(readable, leagueOk)
    PROVE  Loads' /\ (~readable => scorer' = Formula)
<1>1. CASE readable
  BY <1>1, Adopts DEF Loads, load_scorer_config
<1>2. CASE ~readable
  BY <1>2 DEF Loads, load_scorer_config, LoadedRow, Built
<1> QED
  BY <1>1, <1>2

-----------------------------------------------------------------------------
(* The steps *)

LEMMA Passes ==
    ASSUME DecidersInv, "insert" \notin Breaks,
           NEW readable \in BOOLEAN, NEW leagueOk \in BOOLEAN, NEW inserts \in BOOLEAN,
           NEW ends \in BOOLEAN, pass(readable, leagueOk, inserts, ends)
    PROVE  DecidersInv'
<1> DEFINE key == RunKey(scorer', LoadedRow(loaded'))
<1> DEFINE opened == IF readable THEN open_run(capture, key, inserts) ELSE capture
<1>1. inserts = TRUE /\ (~readable => ~ends) /\ captured' = captured
  BY DEF pass
<1>2. load_scorer_config(readable, leagueOk)
  BY DEF pass
<1>3. Loads' /\ (~readable => scorer' = Formula)
  BY <1>2, Loaded DEF DecidersInv
<1>4. Runs(opened) /\ (readable => Under(opened, key))
  BY <1>1, Opens DEF DecidersInv, Opened
<1>5. capture' = IF ends THEN Committed(opened) ELSE reload(RolledBack(opened), key)
  BY DEF pass
<1> HIDE DEF opened, key
<1>6. Runs(capture') /\ (readable => Under(capture', key))
  <2>1. CASE ends
    BY <1>4, <1>5, <2>1, Commits
  <2>2. CASE ~ends
    BY <1>4, <1>5, <2>2, RollsBack, Reloads
  <2> QED
    BY <2>1, <2>2
<1>7. Opened'
  BY <1>3, <1>6 DEF Opened, Runs, Under, Newest, key, RunKey, LoadedRow
<1> QED
  BY <1>1, <1>3, <1>7 DEF DecidersInv, PairsAreOfTheirRun

LEMMA Starts == ASSUME DecidersInv, start PROVE DecidersInv'
<1> DEFINE row == Adopted(TRUE)
<1> DEFINE key == RunKey(Built(row), row)
<1>1. /\ loaded' = KeyOf(row, TRUE) /\ scorer' = Built(row)
      /\ prescribed' = [row |-> row, scorer |-> Built(row)] /\ captured' = captured
      /\ capture' = open_run([RolledBack(capture) EXCEPT !.current = Nil], key, TRUE)
  BY DEF start
<1>2. LoadedRow(loaded') = row
  BY <1>1, Adopts
<1> HIDE DEF row, key
<1>3. Loads'
  <2>1. prescribed'.row = row /\ prescribed'.scorer = Built(row)
    BY <1>1
  <2>2. prescribed'.row = LoadedRow(loaded') /\ prescribed'.scorer = scorer'
        /\ scorer' = Built(LoadedRow(loaded'))
    BY <1>1, <1>2, <2>1
  <2> QED
    BY <2>2 DEF Loads, LoadedRow, Built
<1>4. Runs([RolledBack(capture) EXCEPT !.current = Nil])
  BY RollsBack, RunForgotten DEF DecidersInv, Opened
<1>5. Runs(capture') /\ Under(capture', key)
  BY <1>1, <1>4, Opens
<1>6. Opened'
  BY <1>1, <1>2, <1>5 DEF Opened, Runs, Under, Newest, key, RunKey, LoadedRow
<1> QED
  BY <1>1, <1>3, <1>6 DEF DecidersInv, PairsAreOfTheirRun

(* A step that changes neither the scorer nor the key leaves the runs to   *)
(* what commits, or to what rolls back, with or without a reload.          *)
LEMMA Others ==
    ASSUME DecidersInv, UNCHANGED <<scorer, loaded, prescribed>>,
           capture' \in {capture, Committed(capture), RolledBack(capture),
                         reload(RolledBack(capture), RunKey(scorer, LoadedRow(loaded)))}
    PROVE  Loads' /\ Opened'
<1> DEFINE key == RunKey(scorer, LoadedRow(loaded))
<1> HIDE DEF key
<1>1. Runs(capture) /\ (scorer # Formula => Under(capture, key))
  BY DEF DecidersInv, Opened, key
<1>2. Runs(capture') /\ (scorer # Formula => Under(capture', key))
  <2>1. Runs(RolledBack(capture)) /\ (scorer # Formula => Under(RolledBack(capture), key))
    BY <1>1, RollsBack
  <2>2. CASE capture' = reload(RolledBack(capture), key)
    BY <2>1, <2>2, Reloads
  <2>3. CASE capture' = RolledBack(capture)
    BY <2>1, <2>3
  <2>4. CASE capture' = Committed(capture)
    BY <1>1, <2>4, Commits
  <2>5. CASE capture' = capture
    BY <1>1, <2>5
  <2> QED
    BY <2>2, <2>3, <2>4, <2>5 DEF key
<1>3. Opened'
  BY <1>2 DEF Opened, Runs, Under, Newest, key, RunKey, LoadedRow
<1> QED
  BY <1>3 DEF DecidersInv, Loads, LoadedRow, Built

LEMMA Captures == ASSUME DecidersInv, batch_captured PROVE PairsAreOfTheirRun'
<1>1. CASE capture.current \notin DOMAIN capture.rows
  BY <1>1 DEF DecidersInv, PairsAreOfTheirRun, batch_captured
<1>2. CASE capture.current \in DOMAIN capture.rows
  <2>1. captured' = [run |-> capture.rows[capture.current], by |-> scorer,
                     due |-> RunKey(prescribed.scorer, prescribed.row),
                     dueBy |-> prescribed.scorer]
    BY <1>2 DEF batch_captured
  <2>2. scorer # Formula =>
            capture.rows[capture.current] = RunKey(prescribed.scorer, prescribed.row)
    BY <1>2 DEF DecidersInv, Loads, Opened, Under
  <2> QED
    BY <2>1, <2>2 DEF DecidersInv, Loads, PairsAreOfTheirRun
<1> QED
  BY <1>1, <1>2

LEMMA DecidersBegin == DecidersInit => DecidersInv
<1> SUFFICES ASSUME DecidersInit PROVE DecidersInv
  OBVIOUS
<1>1. /\ loaded = [row |-> FirstOf, refused |-> FALSE] /\ scorer = FirstOf
      /\ prescribed = [row |-> FirstOf, scorer |-> FirstOf]
      /\ capture = [rows |-> <<RunKey(FirstOf, FirstOf)>>, loose |-> {1}, next |-> 2, current |-> 1]
  BY DEF DecidersInit
<1>2. LoadedRow(loaded) = FirstOf /\ Built(FirstOf) = FirstOf
  BY <1>1, DecidersAssumption DEF LoadedRow, Built
<1>3. DOMAIN capture.rows = {1} /\ capture.rows[1] = RunKey(FirstOf, FirstOf)
  BY <1>1
<1>4. Newest(capture) = 1
  BY <1>3 DEF Newest, Max
<1>5. Opened
  <2>1. Runs(capture)
    BY <1>1, <1>3, <1>4, RunsOf DEF Newest
  <2> QED
    BY <1>1, <1>2, <1>3, <2>1 DEF Opened, Under
<1> QED
  BY <1>1, <1>2, <1>5 DEF DecidersInv, Loads, PairsAreOfTheirRun, DecidersInit

LEMMA DecidersStep ==
    ASSUME "insert" \notin Breaks
    PROVE  DecidersInv /\ [DecidersNext]_deciderVars => DecidersInv'
<1> SUFFICES ASSUME DecidersInv, [DecidersNext]_deciderVars PROVE DecidersInv'
  OBVIOUS
<1>1. CASE \E readable, leagueOk, inserts, ends \in BOOLEAN :
               pass(readable, leagueOk, inserts, ends)
  BY <1>1, Passes
<1>2. CASE batch_captured
  <2>1. Loads' /\ Opened'
    BY <1>2, Others DEF batch_captured
  <2> QED
    BY <1>2, <2>1, Captures DEF DecidersInv
<1>3. CASE start
  BY <1>3, Starts
<1>4. CASE batch_fails \/ request_fails \/ judge_reads \/ search_registers
  <2>1. Loads' /\ Opened' /\ captured' = captured
    BY <1>4, Others DEF batch_fails, request_fails, judge_reads, search_registers, unseen
  <2> QED
    BY <2>1 DEF DecidersInv, PairsAreOfTheirRun
<1>5. CASE \E commits \in BOOLEAN : judge_writes(commits)
  <2>1. Loads' /\ Opened' /\ captured' = captured
    BY <1>5, Others DEF judge_writes
  <2> QED
    BY <2>1 DEF DecidersInv, PairsAreOfTheirRun
<1>6. CASE \/ \E c \in Configs : set_scorer(c)
           \/ \E pin \in Shipped \cup {Adapted, Nil} : set_decider(pin)
           \/ \E m \in Fits : propose_promotion(m)
  <2>1. Loads' /\ Opened' /\ captured' = captured
    BY <1>6, Others DEF set_scorer, set_decider, propose_promotion, unseen
  <2> QED
    BY <2>1 DEF DecidersInv, PairsAreOfTheirRun
<1>7. CASE UNCHANGED deciderVars
  <2>1. Loads' /\ Opened' /\ captured' = captured
    BY <1>7, Others DEF deciderVars
  <2> QED
    BY <2>1 DEF DecidersInv, PairsAreOfTheirRun
<1> QED
  BY <1>1, <1>2, <1>3, <1>4, <1>5, <1>6, <1>7 DEF DecidersNext

(* Whichever keys earlier loads remembered, whatever could not be read,    *)
(* failed, was rolled back or restarted: a stored pair was scored by the   *)
(* decider the rows prescribed, under a run of its key (open_run,          *)
(* load_scorer_config, membership.reload), as long as the INSERT of a run  *)
(* does not fail: a pass that cannot insert stays on the run it had.       *)
THEOREM PairsUnderTheirRun ==
    ASSUME "insert" \notin Breaks
    PROVE  DecidersSpec => []PairsAreOfTheirRun
<1>1. DecidersInv => PairsAreOfTheirRun
  BY DEF DecidersInv
<1> QED
  BY DecidersBegin, DecidersStep, <1>1, PTL DEF DecidersSpec

=============================================================================
