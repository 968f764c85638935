-------------------------- MODULE SituationsProofs --------------------------
(***************************************************************************)
(* The life of situations, for any alarms and any number of situations:    *)
(* the engine's maps say what the rows say, a target has one proposal, and *)
(* what is resolved, confirmed or burning stays so.                        *)
(*                                                                         *)
(* Every step changes the tables and the maps together, so most of it is   *)
(* about what the operations do to a pair of them, whatever state they are *)
(* of: d stands for tables and m for maps throughout.                      *)
(***************************************************************************)
EXTENDS Situations, FiniteSetTheorems, WellFoundedInduction, TLAPS

(* Whatever was rolled back: an id that was not used has no row, and no    *)
(* map names an id not handed out, or a situation that is over.            *)
Rows(d) ==
    /\ d \in Tables
    /\ \A s \in Sits : d.status[s] = "none" => d.rows[s] = {} /\ d.into[s] = 0
    /\ \A s \in Sits : s > d.seq => d.status[s] = "none"
Lists(m, handed) ==
    /\ m \in Maps /\ m.tracked \subseteq 1 .. handed
    /\ \A a \in Alarms : m.sitOf[a] <= handed
    /\ \A s \in Sits \ m.tracked : m.members[s] = Empty
NoneOver(d, m) == \A s \in m.tracked : d.status[s] # "resolved"
Sound(d, m) == Rows(d) /\ Lists(m, d.seq) /\ NoneOver(d, m)

(* Where no gesture was rolled back, the engine tracks what is live, and a *)
(* list names an alarm without a row only if an operator formed it.        *)
Follows(d, m) ==
    /\ m.tracked = {s \in Sits : Live(d, s)}
    /\ \A s \in m.tracked : d.status[s] # "open" => Held(m, s) \subseteq d.rows[s]
Tracks(d, m) ==
    /\ Follows(d, m)
    /\ \A s \in m.tracked : d.rows[s] # {}
Single(d) ==
    /\ \A s, t \in Sits : d.status[s] = "pending" /\ d.status[t] = "pending"
                          /\ d.into[s] = d.into[t] => s = t
    /\ \A s \in Sits : d.status[s] = "pending" => d.into[s] \notin {0, s}
    /\ \A s \in Sits : d.status[s] \in {"new", "open"} => d.into[s] = 0
Kept(d, m) == Tracks(d, m) /\ Single(d)

(* Where nothing went wrong, the maps are what the rows say.               *)
Mirrors(d, m) ==
    /\ m.tracked = {s \in Sits : Live(d, s)}
    /\ \A s \in m.tracked, a \in Alarms : m.members[s][a] = IF a \in d.rows[s] THEN 1 ELSE 0
    /\ \A a \in Alarms, s \in Sits : Live(d, s) /\ a \in d.rows[s] <=> m.sitOf[a] = s

Asks == [route : HandClears \cup {"none"}, sid : 0 .. MaxSit, alarms : SUBSET Alarms]
SitInv ==
    /\ asked \in Asks /\ suffered \in [MishapClasses -> 0 .. MaxMishaps]
    /\ \A c \in MishapClasses : suffered[c] # 0 => c \in Mishaps
    /\ Sound(db, mem)
    /\ ~Suffered("gesture") => Kept(db, mem)
    /\ Total = 0 => Mirrors(db, mem)

-----------------------------------------------------------------------------
(* Numbers *)

LEMMA LeastOf ==
    ASSUME NEW S, S \subseteq Nat, S # {}
    PROVE  \E x \in S : \A y \in S : x <= y
<1>1. \E R : /\ IsWellFoundedOn(R, Nat)
             /\ \A x, y \in Nat : x < y => <<x, y>> \in R
  <2>1. IsWellFoundedOn(OpToRel(<, Nat), Nat)
    BY NatLessThanWellFounded
  <2>2. \A x, y \in Nat : x < y => <<x, y>> \in OpToRel(<, Nat)
    BY Zenon DEF OpToRel
  <2> QED
    BY <2>1, <2>2, Zenon
<1>2. PICK R : /\ IsWellFoundedOn(R, Nat)
               /\ \A x, y \in Nat : x < y => <<x, y>> \in R
  BY <1>1, Zenon
<1>3. PICK x \in S : \A y \in S : ~ (<<y, x>> \in R)
  <2>1. IsWellFoundedOn(R, Nat)
    BY <1>2
  <2> QED
    BY <2>1, WFMin, ZenonT(60)
<1>4. \A y \in S : x <= y
  <2> SUFFICES ASSUME NEW y \in S, ~ (x <= y) PROVE FALSE
    OBVIOUS
  <2>1. y < x /\ x \in Nat /\ y \in Nat
    OBVIOUS
  <2> QED
    BY <1>2, <1>3, <2>1
<1> QED
  BY <1>4

(* Of finitely many, one has the greatest value: otherwise there would be  *)
(* a least n among whose first n none has.                                 *)
LEMMA GreatestOf ==
    ASSUME NEW n \in Nat, NEW v \in [1 .. n -> Nat], NEW S, S \subseteq 1 .. n, S # {}
    PROVE  \E f \in S : \A g \in S : v[g] <= v[f]
<1> DEFINE Highest(m) == \E f \in S : f <= m /\ \A g \in S : g <= m => v[g] <= v[f]
<1> DEFINE B == {m \in 0 .. n : (\E f \in S : f <= m) /\ ~Highest(m)}
<1>a. \A f, m \in Nat : /\ m # 0 => (f <= m - 1 <=> f <= m /\ f # m)
                        /\ m <= f \/ f <= m
  OBVIOUS
<1>b. \A x, y, z \in Nat : (x <= y /\ y <= z => x <= z) /\ (x <= y \/ y <= x) /\ x <= x
  OBVIOUS
<1>s. \A f \in S : f \in Nat /\ 1 <= f /\ f <= n /\ v[f] \in Nat
  OBVIOUS
<1>1. B = {}
  <2> SUFFICES ASSUME B # {} PROVE FALSE
    OBVIOUS
  <2>1. B \subseteq Nat
    OBVIOUS
  <2>2. PICK m \in B : \A k \in B : m <= k
    <3> HIDE DEF B
    <3> QED
      BY <2>1, LeastOf
  <2>3. m \in 0 .. n /\ (\E f \in S : f <= m) /\ ~Highest(m)
    BY <2>2
  <2>4. m # 0 /\ m \in Nat /\ m - 1 \in 0 .. n /\ ~(m <= m - 1)
    BY <2>3, <1>s
  <2>b. \A f \in Nat : (f <= m - 1 <=> f <= m /\ f # m) /\ (m <= f \/ f <= m)
    BY <1>a, <2>4, Zenon
  <2>a. m - 1 \notin B
    <3> HIDE DEF B
    <3> QED
      BY <2>2, <2>4
  <2>5. (\E f \in S : f <= m - 1) => Highest(m - 1)
    BY <2>a, <2>4
  <2>6. CASE m \notin S
    <3>1. \A f \in S : f <= m <=> f <= m - 1
      BY <2>b, <2>6, <1>s, Zenon
    <3>2. PICK f \in S : f <= m - 1 /\ \A g \in S : g <= m - 1 => v[g] <= v[f]
      BY <2>3, <2>5, <3>1
    <3> QED
      BY <2>3, <3>1, <3>2
  <2>7. CASE m \in S
    <3>0. m <= m
      BY <2>4
    <3>1. \A f \in S : f <= m <=> f = m \/ f <= m - 1
      BY <2>b, <3>0, <1>s, Zenon
    <3>2. CASE \A f \in S : ~(f <= m - 1)
      <4>1. \A g \in S : g <= m => v[g] <= v[m]
        BY <3>1, <3>2, <1>s
      <4> QED
        BY <2>3, <2>4, <2>7, <4>1
    <3>3. CASE \E f \in S : f <= m - 1
      <4>1. PICK f \in S : f <= m - 1 /\ \A g \in S : g <= m - 1 => v[g] <= v[f]
        BY <2>5, <3>3
      <4>3. CASE v[f] <= v[m]
        <5>1. ASSUME NEW g \in S, g <= m PROVE v[g] <= v[m]
          <6>1. v[g] \in Nat /\ v[m] \in Nat /\ v[f] \in Nat /\ (g = m \/ v[g] <= v[f])
            BY <3>1, <4>1, <5>1, <1>s, <2>7, Zenon
          <6> QED
            BY <6>1, <4>3, <1>b, Zenon
        <5> QED
          BY <2>3, <2>4, <2>7, <5>1
      <4>4. CASE ~(v[f] <= v[m])
        <5>1. ASSUME NEW g \in S, g <= m PROVE v[g] <= v[f]
          <6>1. v[g] \in Nat /\ v[m] \in Nat /\ v[f] \in Nat /\ (g = m \/ v[g] <= v[f])
            BY <3>1, <4>1, <5>1, <1>s, <2>7, Zenon
          <6> QED
            BY <6>1, <4>4, <1>b, Zenon
        <5>2. f <= m
          BY <3>1, <4>1
        <5> QED
          BY <2>3, <5>1, <5>2
      <4> QED
        BY <4>3, <4>4
    <3> QED
      BY <3>2, <3>3
  <2> QED
    BY <2>6, <2>7
<1>2. \A f \in S : f <= n
  BY <1>s
<1>3. Highest(n)
  <2>0. n \in 0 .. n
    OBVIOUS
  <2>1. n \in 0 .. n /\ \E f \in S : f <= n
    BY <2>0, <1>2, Zenon
  <2> QED
    BY <1>1, <2>1
<1> QED
  BY <1>2, <1>3


LEMMA SitIds ==
    /\ MaxSit \in Nat /\ Sits \subseteq Nat /\ 0 \notin Sits
    /\ \A n \in Nat : n \in Sits <=> 1 <= n /\ n <= MaxSit
    /\ \A n \in 0 .. MaxSit : n # 0 => n \in Sits
BY SituationConstants DEF Sits

LEMMA MinIs ==
    ASSUME NEW S \in SUBSET Sits, S # {}
    PROVE  Min(S) \in S /\ \A x \in S : Min(S) <= x
<1>1. S \subseteq Nat
  BY SitIds
<1>2. \E x \in S : \A y \in S : x <= y
  BY <1>1, LeastOf
<1> QED
  BY <1>2 DEF Min

LEMMA LowestIs ==
    ASSUME NEW S \in SUBSET Sits
    PROVE  LowestOr0(S) \in S \cup {0} /\ (LowestOr0(S) = 0 <=> S = {})
BY MinIs, SitIds DEF LowestOr0

LEMMA MaxIs ==
    ASSUME NEW S \in SUBSET Sits, S # {}
    PROVE  Max(S) \in S /\ \A x \in S : x <= Max(S)
<1> DEFINE v == [x \in 1 .. MaxSit |-> x]
<1>1. v \in [1 .. MaxSit -> Nat] /\ S \subseteq 1 .. MaxSit /\ MaxSit \in Nat
  BY SitIds DEF Sits
<1>2. \E f \in S : \A g \in S : v[g] <= v[f]
  <2> HIDE DEF v
  <2> QED
    BY <1>1, GreatestOf
<1>3. \E f \in S : \A g \in S : g <= f
  BY <1>1, <1>2
<1>4. \E f \in S : \A g \in S : f >= g
  BY <1>1, <1>3
<1> QED
  BY <1>1, <1>4 DEF Max

(* How often an alarm is in the lists of some situations is a number: 0    *)
(* when it is in none, and 1 when it is in one of them, once.              *)
LEMMA EntriesAre ==
    ASSUME NEW m \in Maps, NEW S \in SUBSET Sits, NEW a \in Alarms
    PROVE  /\ Entries(m, S, a) \in Nat
           /\ (\A s \in S : m.members[s][a] = 0) => Entries(m, S, a) = 0
           /\ \A x \in S : m.members[x][a] = 1 /\ (\A s \in S : s # x => m.members[s][a] = 0)
                              => Entries(m, S, a) = 1
<1> DEFINE E == UNION {{s} \X (1 .. m.members[s][a]) : s \in S}
<1>0. Entries(m, S, a) = Cardinality(E)
  BY DEF Entries
<1>1. \A s \in Sits : m.members[s][a] \in Nat
  BY DEF Maps
<1>2. \A e : e \in E <=> \E s \in S : \E i \in 1 .. m.members[s][a] : e = <<s, i>>
  OBVIOUS
<1>3. IsFiniteSet(E)
  <2>1. CASE S = {}
    <3>1. E = {}
      BY <1>2, <2>1
    <3> QED
      BY <3>1, FS_EmptySet
  <2>2. CASE S # {}
    <3> DEFINE v == [s \in 1 .. MaxSit |-> m.members[s][a]]
    <3>1. v \in [1 .. MaxSit -> Nat] /\ S \subseteq 1 .. MaxSit /\ MaxSit \in Nat
      BY <1>1, SitIds DEF Sits
    <3>2. \E f \in S : \A g \in S : v[g] <= v[f]
      <4> HIDE DEF v
      <4> QED
        BY <2>2, <3>1, GreatestOf
    <3>3. PICK k \in Nat : \A s \in S : m.members[s][a] <= k
      BY <1>1, <3>1, <3>2
    <3>4. E \subseteq Sits \X (1 .. k)
      <4> SUFFICES ASSUME NEW e \in E PROVE e \in Sits \X (1 .. k)
        OBVIOUS
      <4>1. PICK s \in S : \E i \in 1 .. m.members[s][a] : e = <<s, i>>
        BY <1>2
      <4>2. PICK i \in 1 .. m.members[s][a] : e = <<s, i>>
        BY <4>1
      <4>3. i \in 1 .. k
        BY <1>1, <3>3
      <4> QED
        BY <4>2, <4>3
    <3>5. IsFiniteSet(Sits) /\ IsFiniteSet(1 .. k)
      BY <3>1, <3>3, FS_Interval DEF Sits
    <3>6. IsFiniteSet(Sits \X (1 .. k))
      BY <3>5, FS_Product
    <3> HIDE DEF E
    <3> QED
      BY <3>4, <3>6, FS_Subset
  <2> QED
    BY <2>1, <2>2
<1>4. Entries(m, S, a) \in Nat
  BY <1>0, <1>3, FS_CardinalityType
<1>5. ASSUME \A s \in S : m.members[s][a] = 0 PROVE Entries(m, S, a) = 0
  <2>1. E = {}
    BY <1>2, <1>5
  <2> QED
    BY <1>0, <2>1, FS_EmptySet
<1>6. ASSUME NEW x \in S, m.members[x][a] = 1, \A s \in S : s # x => m.members[s][a] = 0
      PROVE  Entries(m, S, a) = 1
  <2>1. \A e : e \in E <=> e = <<x, 1>>
    <3>1. 1 .. m.members[x][a] = {1} /\ \A s \in S : s # x => 1 .. m.members[s][a] = {}
      BY <1>6
    <3> HIDE DEF E
    <3> QED
      BY <1>2, <3>1
  <2>2. E = {<<x, 1>>}
    <3> HIDE DEF E
    <3> QED
      BY <2>1
  <2> QED
    BY <1>0, <2>2, FS_Singleton
<1> QED
  BY <1>4, <1>5, <1>6

-----------------------------------------------------------------------------
(* What the operations do to the tables *)

LEMMA TableFields ==
    ASSUME NEW d \in Tables
    PROVE  /\ d.seq \in Nat /\ d.seq \in 0 .. MaxSit
           /\ d.status \in [Sits -> LIVE \cup {"none", "resolved"}]
           /\ d.into \in [Sits -> 0 .. MaxSit] /\ d.rows \in [Sits -> SUBSET Alarms]
           /\ d.active \subseteq Alarms /\ d.rejected \subseteq Sits \X Sits
BY SitIds DEF Tables

LEMMA TablesOf ==
    ASSUME NEW seq \in 0 .. MaxSit, NEW status \in [Sits -> LIVE \cup {"none", "resolved"}],
           NEW into \in [Sits -> 0 .. MaxSit], NEW rows \in [Sits -> SUBSET Alarms],
           NEW active \in SUBSET Alarms, NEW rejected \in SUBSET (Sits \X Sits),
           NEW e, e = [seq |-> seq, status |-> status, into |-> into, rows |-> rows,
                       active |-> active, rejected |-> rejected]
    PROVE  /\ e \in Tables /\ e.seq = seq /\ e.status = status /\ e.into = into /\ e.rows = rows
           /\ e.active = active /\ e.rejected = rejected
BY DEF Tables

LEMMA ActiveIs ==
    ASSUME NEW d \in Tables, NEW on \in SUBSET Alarms, NEW e, e = [d EXCEPT !.active = on]
    PROVE  /\ e \in Tables /\ e.active = on
           /\ e.seq = d.seq /\ e.status = d.status /\ e.into = d.into /\ e.rows = d.rows
           /\ e.rejected = d.rejected
BY DEF Tables

LEMMA SeqIs ==
    ASSUME NEW d \in Tables, NEW n \in 0 .. MaxSit, NEW e, e = [d EXCEPT !.seq = n]
    PROVE  /\ e \in Tables /\ e.seq = n
           /\ e.status = d.status /\ e.into = d.into /\ e.rows = d.rows
           /\ e.active = d.active /\ e.rejected = d.rejected
BY DEF Tables

LEMMA RowsAre ==
    ASSUME NEW d \in Tables, NEW rows \in [Sits -> SUBSET Alarms], NEW e, e = [d EXCEPT !.rows = rows]
    PROVE  /\ e \in Tables /\ e.rows = rows
           /\ e.seq = d.seq /\ e.status = d.status /\ e.into = d.into
           /\ e.active = d.active /\ e.rejected = d.rejected
BY DEF Tables

LEMMA ResolvedIs ==
    ASSUME NEW d \in Tables, NEW gone \in SUBSET Sits, NEW e, e = Resolved(d, gone)
    PROVE  /\ e \in Tables /\ e.seq = d.seq /\ e.into = d.into /\ e.rows = d.rows
           /\ e.active = d.active /\ e.rejected = d.rejected
           /\ \A s \in Sits : e.status[s] = IF s \in gone /\ Live(d, s) THEN "resolved" ELSE d.status[s]
<1> DEFINE st == [s \in Sits |-> IF s \in gone /\ d.status[s] \in LIVE THEN "resolved" ELSE d.status[s]]
<1>1. e = [d EXCEPT !.status = st]
  BY TableFields DEF Resolved
<1>2. st \in [Sits -> LIVE \cup {"none", "resolved"}]
  BY TableFields
<1>3. e \in Tables /\ e.status = st /\ e.seq = d.seq /\ e.into = d.into /\ e.rows = d.rows
      /\ e.active = d.active /\ e.rejected = d.rejected
  <2> HIDE DEF st
  <2> QED
    BY <1>1, <1>2 DEF Tables
<1> QED
  BY <1>3 DEF Live

LEMMA PromotedIs ==
    ASSUME NEW d \in Tables, NEW s \in Sits, NEW e, e = Promoted(d, s)
    PROVE  /\ e \in Tables /\ e.seq = d.seq /\ e.rows = d.rows
           /\ e.active = d.active /\ e.rejected = d.rejected
           /\ \A t \in Sits : /\ e.status[t] = IF t = s /\ d.status[s] \in {"new", "pending"}
                                               THEN "open" ELSE d.status[t]
                              /\ e.into[t] = IF t = s /\ d.status[s] \in {"new", "pending"}
                                             THEN 0 ELSE d.into[t]
<1>1. CASE d.status[s] \in {"new", "pending"}
  <2> DEFINE st == [d.status EXCEPT ![s] = "open"]
  <2> DEFINE it == [d.into EXCEPT ![s] = 0]
  <2>1. e = [[d EXCEPT !.status = st] EXCEPT !.into = it]
    BY <1>1 DEF Promoted, Tables
  <2>2. /\ st \in [Sits -> LIVE \cup {"none", "resolved"}] /\ it \in [Sits -> 0 .. MaxSit]
        /\ \A t \in Sits : /\ st[t] = IF t = s THEN "open" ELSE d.status[t]
                           /\ it[t] = IF t = s THEN 0 ELSE d.into[t]
    BY TableFields, SitIds DEF LIVE
  <2>3. /\ e \in Tables /\ e.status = st /\ e.into = it /\ e.seq = d.seq /\ e.rows = d.rows
        /\ e.active = d.active /\ e.rejected = d.rejected
    <3> HIDE DEF st, it
    <3> QED
      BY <2>1, <2>2 DEF Tables
  <2> QED
    BY <1>1, <2>2, <2>3
<1>2. CASE d.status[s] \notin {"new", "pending"}
  BY <1>2 DEF Promoted
<1> QED
  BY <1>1, <1>2

LEMMA LapsedIs ==
    ASSUME NEW d \in Tables, NEW e, e = Lapsed(d)
    PROVE  /\ e \in Tables /\ e.seq = d.seq /\ e.rows = d.rows
           /\ e.active = d.active /\ e.rejected = d.rejected
           /\ \A s \in Sits :
                 \/ e.status[s] = d.status[s] /\ e.into[s] = d.into[s]
                 \/ d.status[s] = "pending" /\ e.status[s] = "new" /\ e.into[s] = 0
<1> DEFINE orphans == {s \in Sits : /\ d.status[s] = "pending"
                                    /\ d.into[s] = 0 \/ d.status[d.into[s]] # "open"}
<1> DEFINE st == [s \in Sits |-> IF s \in orphans THEN "new" ELSE d.status[s]]
<1> DEFINE it == [s \in Sits |-> IF s \in orphans THEN 0 ELSE d.into[s]]
<1>1. e = [[d EXCEPT !.status = st] EXCEPT !.into = it]
  <2> HIDE DEF orphans
  <2> QED
    BY DEF Lapsed, Tables, orphans
<1>2. st \in [Sits -> LIVE \cup {"none", "resolved"}] /\ it \in [Sits -> 0 .. MaxSit]
  <2> HIDE DEF orphans
  <2> QED
    BY TableFields, SitIds DEF LIVE
<1>3. /\ e \in Tables /\ e.status = st /\ e.into = it /\ e.seq = d.seq /\ e.rows = d.rows
      /\ e.active = d.active /\ e.rejected = d.rejected
  <2> HIDE DEF st, it
  <2> QED
    BY <1>1, <1>2 DEF Tables
<1>4. \A s \in Sits : st[s] = (IF s \in orphans THEN "new" ELSE d.status[s])
                      /\ it[s] = IF s \in orphans THEN 0 ELSE d.into[s]
  <2> HIDE DEF orphans
  <2> QED
    OBVIOUS
<1>5. \A s \in orphans : d.status[s] = "pending"
  OBVIOUS
<1> HIDE DEF st, it, orphans
<1> QED
  BY <1>3, <1>4, <1>5

LEMMA CreatedIs ==
    ASSUME NEW d \in Tables, d.seq < MaxSit, NEW status \in LIVE, NEW e, e = Created(d, status)
    PROVE  /\ d.seq + 1 \in Sits /\ d.seq + 1 \in 0 .. MaxSit
           /\ e \in Tables /\ e.seq = d.seq + 1 /\ e.into = d.into /\ e.rows = d.rows
           /\ e.active = d.active /\ e.rejected = d.rejected
           /\ \A s \in Sits : e.status[s] = IF s = d.seq + 1 THEN status ELSE d.status[s]
<1> DEFINE n == d.seq + 1
<1> DEFINE st == [d.status EXCEPT ![n] = status]
<1>1. n \in Sits /\ n \in 0 .. MaxSit
  BY TableFields, SitIds
<1>2. e = [[d EXCEPT !.seq = n] EXCEPT !.status = st]
  BY DEF Created, Tables
<1>3. st \in [Sits -> LIVE \cup {"none", "resolved"}] /\ \A s \in Sits : st[s] = IF s = n THEN status ELSE d.status[s]
  BY <1>1, TableFields
<1>4. /\ e \in Tables /\ e.seq = n /\ e.status = st /\ e.into = d.into /\ e.rows = d.rows
      /\ e.active = d.active /\ e.rejected = d.rejected
  <2> HIDE DEF st, n
  <2> QED
    BY <1>1, <1>2, <1>3 DEF Tables
<1> QED
  BY <1>1, <1>3, <1>4

LEMMA DbMergedIs ==
    ASSUME NEW d \in Tables, NEW dst \in Sits, NEW srcs \in SUBSET (Sits \ {dst}),
           NEW e, e = DbMerged(d, dst, srcs)
    PROVE  /\ e \in Tables /\ e.seq = d.seq /\ e.into = d.into
           /\ e.active = d.active /\ e.rejected = d.rejected
           /\ e.rows[dst] = UNION {d.rows[x] : x \in srcs \cup {dst}}
           /\ \A s \in Sits :
                 /\ s # dst => e.rows[s] = IF s \in srcs THEN {} ELSE d.rows[s]
                 /\ e.status[s] = IF s \in srcs /\ d.status[s] # "none" THEN "resolved" ELSE d.status[s]
<1> DEFINE all == UNION {d.rows[x] : x \in srcs \cup {dst}}
<1> DEFINE rw == [s \in Sits |-> IF s = dst THEN all ELSE IF s \in srcs THEN {} ELSE d.rows[s]]
<1> DEFINE st == [s \in Sits |-> IF s \in srcs /\ d.status[s] # "none" THEN "resolved" ELSE d.status[s]]
<1>1. e = [[d EXCEPT !.rows = rw] EXCEPT !.status = st]
  BY DEF DbMerged, Tables
<1>2. all \subseteq Alarms
  BY TableFields
<1>3. rw \in [Sits -> SUBSET Alarms] /\ st \in [Sits -> LIVE \cup {"none", "resolved"}]
  <2> HIDE DEF all
  <2> QED
    BY <1>2, TableFields
<1>4. /\ e \in Tables /\ e.seq = d.seq /\ e.status = st /\ e.into = d.into /\ e.rows = rw
      /\ e.active = d.active /\ e.rejected = d.rejected
  <2> HIDE DEF st, rw
  <2> QED
    BY <1>1, <1>3 DEF Tables
<1> QED
  BY <1>4

-----------------------------------------------------------------------------
(* What the operations do to the maps *)

LEMMA MapFields ==
    ASSUME NEW m \in Maps
    PROVE  /\ m.tracked \subseteq Sits /\ m.members \in [Sits -> [Alarms -> Nat]]
           /\ m.sitOf \in [Alarms -> 0 .. MaxSit] /\ m.rejected \subseteq Sits \X Sits
           /\ \A s \in Sits : m.members[s] \in [Alarms -> Nat]
           /\ \A s \in Sits, a \in Alarms : m.members[s][a] \in Nat
BY DEF Maps

(* Two lists that hold no alarm are the same list.                         *)
LEMMA EmptyIs ==
    /\ Empty \in [Alarms -> Nat] /\ \A a \in Alarms : Empty[a] = 0
    /\ \A f \in [Alarms -> Nat] : (\A a \in Alarms : f[a] = 0) => f = Empty
BY DEF Empty

LEMMA ForgetIs ==
    ASSUME NEW m \in Maps, NEW gone \in SUBSET Sits, NEW e, e = Forget(m, gone)
    PROVE  /\ e \in Maps /\ e.tracked = m.tracked \ gone /\ e.rejected = m.rejected
           /\ \A s \in Sits : e.members[s] = IF s \in gone THEN Empty ELSE m.members[s]
           /\ \A a \in Alarms : e.sitOf[a] = IF \E s \in gone : m.members[s][a] > 0 THEN 0 ELSE m.sitOf[a]
<1> DEFINE mb == [s \in Sits |-> IF s \in gone THEN Empty ELSE m.members[s]]
<1> DEFINE so == [a \in Alarms |-> IF \E s \in gone : m.members[s][a] > 0 THEN 0 ELSE m.sitOf[a]]
<1>1. e = [[[m EXCEPT !.tracked = m.tracked \ gone] EXCEPT !.members = mb] EXCEPT !.sitOf = so]
  BY DEF Forget, Maps
<1>2. mb \in [Sits -> [Alarms -> Nat]] /\ so \in [Alarms -> 0 .. MaxSit] /\ m.tracked \ gone \in SUBSET Sits
  BY MapFields, EmptyIs, SitIds
<1>3. /\ e \in Maps /\ e.tracked = m.tracked \ gone /\ e.members = mb /\ e.sitOf = so
      /\ e.rejected = m.rejected
  <2> HIDE DEF mb, so
  <2> QED
    BY <1>1, <1>2 DEF Maps
<1> QED
  BY <1>3

LEMMA MemMergedIs ==
    ASSUME NEW m \in Maps, NEW dst \in Sits, NEW srcs \in SUBSET (Sits \ {dst}),
           NEW e, e = MemMerged(m, dst, srcs)
    PROVE  /\ e \in Maps /\ e.rejected = m.rejected
           /\ m.tracked \ srcs \subseteq e.tracked /\ e.tracked \subseteq (m.tracked \ srcs) \cup {dst}
           /\ dst \in e.tracked <=> dst \in m.tracked \/ \E s \in srcs : \E a \in Alarms : m.members[s][a] > 0
<1> DEFINE gone == UNION {Held(m, s) : s \in srcs}
<1> DEFINE tr == (m.tracked \ srcs) \cup (IF gone = {} THEN {} ELSE {dst})
<1> DEFINE here == [a \in Alarms |-> Entries(m, srcs \cup {dst}, a)]
<1> DEFINE mb == [s \in Sits |-> IF s \in srcs THEN Empty ELSE IF s = dst THEN here ELSE m.members[s]]
<1> DEFINE so == [a \in Alarms |-> IF a \in gone THEN dst ELSE m.sitOf[a]]
<1>0. \A a : a \in gone <=> a \in Alarms /\ \E s \in srcs : m.members[s][a] > 0
  BY DEF Held
<1>1. e = [[[m EXCEPT !.tracked = tr] EXCEPT !.members = mb] EXCEPT !.sitOf = so]
  BY DEF MemMerged, Maps
<1>2. here \in [Alarms -> Nat]
  <2>1. \A a \in Alarms : Entries(m, srcs \cup {dst}, a) \in Nat
    BY EntriesAre
  <2> QED
    BY <2>1
<1>3. mb \in [Sits -> [Alarms -> Nat]]
  <2> HIDE DEF here
  <2> QED
    BY <1>2, MapFields, EmptyIs
<1>4. so \in [Alarms -> 0 .. MaxSit] /\ tr \in SUBSET Sits
  <2> HIDE DEF gone
  <2> QED
    BY MapFields, SitIds DEF Sits
<1>5. /\ e \in Maps /\ e.tracked = tr /\ e.members = mb /\ e.sitOf = so /\ e.rejected = m.rejected
  <2> HIDE DEF mb, so, tr
  <2> QED
    BY <1>1, <1>3, <1>4 DEF Maps
<1>6. /\ m.tracked \ srcs \subseteq tr /\ tr \subseteq (m.tracked \ srcs) \cup {dst}
      /\ dst \in tr <=> dst \in m.tracked \/ gone # {}
  <2> HIDE DEF gone
  <2> QED
    OBVIOUS
<1>7. gone # {} <=> \E s \in srcs : \E a \in Alarms : m.members[s][a] > 0
  <2> HIDE DEF gone
  <2> QED
    BY <1>0
<1> HIDE DEF mb, so, tr, gone
<1> QED
  BY <1>5, <1>6, <1>7

LEMMA MemMergedLists ==
    ASSUME NEW m \in Maps, NEW dst \in Sits, NEW srcs \in SUBSET (Sits \ {dst}),
           NEW e, e = MemMerged(m, dst, srcs)
    PROVE  /\ \A s \in Sits : s # dst => e.members[s] = IF s \in srcs THEN Empty ELSE m.members[s]
           /\ \A a \in Alarms : e.members[dst][a] = Entries(m, srcs \cup {dst}, a)
<1> DEFINE here == [a \in Alarms |-> Entries(m, srcs \cup {dst}, a)]
<1>1. e.members = [s \in Sits |-> IF s \in srcs THEN Empty ELSE IF s = dst THEN here ELSE m.members[s]]
  BY DEF MemMerged, Maps
<1>2. \A a \in Alarms : here[a] = Entries(m, srcs \cup {dst}, a)
  OBVIOUS
<1> HIDE DEF here
<1> QED
  BY <1>1, <1>2

LEMMA MemMergedLeads ==
    ASSUME NEW m \in Maps, NEW dst \in Sits, NEW srcs \in SUBSET (Sits \ {dst}),
           NEW e, e = MemMerged(m, dst, srcs)
    PROVE  \A a \in Alarms : e.sitOf[a] = IF \E s \in srcs : m.members[s][a] > 0 THEN dst ELSE m.sitOf[a]
<1> DEFINE gone == UNION {Held(m, s) : s \in srcs}
<1>1. \A a : a \in gone <=> a \in Alarms /\ \E s \in srcs : m.members[s][a] > 0
  BY DEF Held
<1>2. e.sitOf = [a \in Alarms |-> IF a \in gone THEN dst ELSE m.sitOf[a]]
  BY DEF MemMerged, Maps
<1> HIDE DEF gone
<1> QED
  BY <1>1, <1>2

LEMMA MemMovedIs ==
    ASSUME NEW m \in Maps, NEW from \in Sits, NEW to \in Sits, from # to, NEW moving \in SUBSET Alarms,
           NEW e, e = MemMoved(m, from, to, moving)
    PROVE  /\ e \in Maps /\ e.rejected = m.rejected /\ e.tracked = m.tracked
           /\ \A s \in Sits : s \notin {from, to} => e.members[s] = m.members[s]
           /\ \A a \in Alarms :
                 /\ e.members[from][a] = IF a \in moving /\ m.members[from][a] > 0
                                         THEN m.members[from][a] - 1 ELSE m.members[from][a]
                 /\ e.members[to][a] = IF a \in moving /\ m.members[from][a] > 0 /\ to \in m.tracked
                                       THEN m.members[to][a] + 1 ELSE m.members[to][a]
                 /\ e.sitOf[a] = IF a \in moving
                                 THEN IF m.members[from][a] > 0 /\ to \in m.tracked THEN to ELSE 0
                                 ELSE m.sitOf[a]
<1> DEFINE lands == {a \in moving \cap Held(m, from) : to \in m.tracked}
<1> DEFINE f == [a \in Alarms |-> IF a \in moving /\ m.members[from][a] > 0
                                  THEN m.members[from][a] - 1 ELSE m.members[from][a]]
<1> DEFINE g == [a \in Alarms |-> IF a \in lands THEN m.members[to][a] + 1 ELSE m.members[to][a]]
<1> DEFINE mb == [[m.members EXCEPT ![from] = f] EXCEPT ![to] = g]
<1> DEFINE so == [a \in Alarms |-> IF a \in lands THEN to ELSE IF a \in moving THEN 0 ELSE m.sitOf[a]]
<1>0. \A a : a \in lands <=> a \in Alarms /\ a \in moving /\ m.members[from][a] > 0 /\ to \in m.tracked
  BY DEF Held
<1>1. e = [[[m EXCEPT !.tracked = m.tracked] EXCEPT !.members = mb] EXCEPT !.sitOf = so]
  BY DEF MemMoved, Maps
<1>2. f \in [Alarms -> Nat]
  <2>1. \A a \in Alarms : (IF a \in moving /\ m.members[from][a] > 0
                           THEN m.members[from][a] - 1 ELSE m.members[from][a]) \in Nat
    BY MapFields
  <2> QED
    BY <2>1
<1>3. g \in [Alarms -> Nat]
  <2> HIDE DEF lands
  <2> QED
    BY MapFields
<1>4. mb \in [Sits -> [Alarms -> Nat]] /\ mb[from] = f /\ mb[to] = g
      /\ \A s \in Sits : s \notin {from, to} => mb[s] = m.members[s]
  <2> HIDE DEF f, g
  <2> QED
    BY <1>2, <1>3, MapFields
<1>5. so \in [Alarms -> 0 .. MaxSit]
  <2> HIDE DEF lands
  <2> QED
    BY MapFields, SitIds DEF Sits
<1>6. /\ e \in Maps /\ e.tracked = m.tracked /\ e.members = mb /\ e.sitOf = so /\ e.rejected = m.rejected
  <2>1. m.tracked \in SUBSET Sits
    BY MapFields
  <2> HIDE DEF mb, so
  <2> QED
    BY <1>1, <1>4, <1>5, <2>1 DEF Maps
<1>7. \A a \in Alarms :
         /\ f[a] = IF a \in moving /\ m.members[from][a] > 0
                   THEN m.members[from][a] - 1 ELSE m.members[from][a]
         /\ g[a] = IF a \in lands THEN m.members[to][a] + 1 ELSE m.members[to][a]
         /\ so[a] = IF a \in lands THEN to ELSE IF a \in moving THEN 0 ELSE m.sitOf[a]
  <2> HIDE DEF lands
  <2> QED
    OBVIOUS
<1> HIDE DEF mb, so, lands, f, g
<1> QED
  BY <1>0, <1>4, <1>6, <1>7

LEMMA MemSplitIs ==
    ASSUME NEW m \in Maps, NEW s \in Sits, NEW new \in Sits, s # new, NEW departing \in SUBSET Alarms,
           NEW e, e = MemSplit(m, s, new, departing)
    PROVE  /\ e \in Maps /\ e.rejected = m.rejected /\ e.tracked = m.tracked \cup {new}
           /\ \A t \in Sits : t \notin {s, new} => e.members[t] = m.members[t]
           /\ \A a \in Alarms :
                 /\ e.members[s][a] = IF a \in departing THEN 0 ELSE m.members[s][a]
                 /\ e.members[new][a] = IF a \in departing THEN m.members[s][a] ELSE 0
                 /\ e.sitOf[a] = IF a \in departing /\ m.members[s][a] > 0 THEN new ELSE m.sitOf[a]
<1> DEFINE left == departing \cap Held(m, s)
<1> DEFINE f == [a \in Alarms |-> IF a \in departing THEN 0 ELSE m.members[s][a]]
<1> DEFINE g == [a \in Alarms |-> IF a \in departing THEN m.members[s][a] ELSE 0]
<1> DEFINE mb == [[m.members EXCEPT ![s] = f] EXCEPT ![new] = g]
<1> DEFINE so == [a \in Alarms |-> IF a \in left THEN new ELSE m.sitOf[a]]
<1> DEFINE tr == m.tracked \cup {new}
<1>0. \A a : a \in left <=> a \in Alarms /\ a \in departing /\ m.members[s][a] > 0
  BY DEF Held
<1>1. e = [[[m EXCEPT !.tracked = tr] EXCEPT !.members = mb] EXCEPT !.sitOf = so]
  BY DEF MemSplit, Maps
<1>2. f \in [Alarms -> Nat] /\ g \in [Alarms -> Nat]
  BY MapFields
<1>4. mb \in [Sits -> [Alarms -> Nat]] /\ mb[s] = f /\ mb[new] = g
      /\ \A t \in Sits : t \notin {s, new} => mb[t] = m.members[t]
  <2> HIDE DEF f, g
  <2> QED
    BY <1>2, MapFields
<1>5. so \in [Alarms -> 0 .. MaxSit] /\ tr \in SUBSET Sits
  <2> HIDE DEF left
  <2> QED
    BY MapFields, SitIds DEF Sits
<1>6. /\ e \in Maps /\ e.tracked = tr /\ e.members = mb /\ e.sitOf = so /\ e.rejected = m.rejected
  <2> HIDE DEF mb, so, tr
  <2> QED
    BY <1>1, <1>4, <1>5 DEF Maps
<1>7. \A a \in Alarms :
         /\ f[a] = IF a \in departing THEN 0 ELSE m.members[s][a]
         /\ g[a] = IF a \in departing THEN m.members[s][a] ELSE 0
         /\ so[a] = IF a \in left THEN new ELSE m.sitOf[a]
  <2> HIDE DEF left
  <2> QED
    OBVIOUS
<1> HIDE DEF mb, so, left, f, g
<1> QED
  BY <1>0, <1>4, <1>6, <1>7

LEMMA ReloadedIs ==
    ASSUME NEW d \in Tables, NEW m \in Maps, NEW e, e = Reloaded(d, m)
    PROVE  /\ e \in Maps /\ e.tracked = {s \in Sits : Live(d, s) /\ d.rows[s] # {}}
           /\ \A s \in Sits, a \in Alarms : e.members[s][a] = IF Live(d, s) /\ a \in d.rows[s] THEN 1 ELSE 0
           /\ \A a \in Alarms :
                 LET holding == {s \in Sits : Live(d, s) /\ a \in d.rows[s]}
                 IN  IF holding = {} THEN e.sitOf[a] = 0
                     ELSE e.sitOf[a] \in holding /\ \A s \in holding : s <= e.sitOf[a]
<1> DEFINE holding(a) == {s \in Sits : Live(d, s) /\ a \in d.rows[s]}
<1> DEFINE tr == {s \in Sits : Live(d, s) /\ d.rows[s] # {}}
<1> DEFINE mb == [s \in Sits |-> [a \in Alarms |-> IF s \in holding(a) THEN 1 ELSE 0]]
<1> DEFINE so == [a \in Alarms |-> IF holding(a) = {} THEN 0 ELSE Max(holding(a))]
<1>1. e = [[[m EXCEPT !.tracked = tr] EXCEPT !.members = mb] EXCEPT !.sitOf = so]
  <2> HIDE DEF tr, mb, so
  <2>1. e = [m EXCEPT !.tracked = tr, !.members = mb, !.sitOf = so]
    BY DEF Reloaded, tr, mb, so
  <2> QED
    BY <2>1
<1>2. tr \in SUBSET Sits /\ mb \in [Sits -> [Alarms -> Nat]]
  OBVIOUS
<1>3. \A a \in Alarms : holding(a) # {} => Max(holding(a)) \in holding(a) /\ \A s \in holding(a) : s <= Max(holding(a))
  <2> TAKE a \in Alarms
  <2>1. holding(a) \in SUBSET Sits
    OBVIOUS
  <2> HIDE DEF holding
  <2> QED
    BY <2>1, MaxIs
<1>4. \A a \in Alarms : holding(a) \subseteq Sits
  OBVIOUS
<1>5. so \in [Alarms -> 0 .. MaxSit]
  <2>1. \A a \in Alarms : (IF holding(a) = {} THEN 0 ELSE Max(holding(a))) \in 0 .. MaxSit
    <3> HIDE DEF holding
    <3> QED
      BY <1>3, <1>4, SitIds DEF Sits
  <2> HIDE DEF holding
  <2> QED
    BY <2>1
<1>6. /\ e \in Maps /\ e.tracked = tr /\ e.members = mb /\ e.sitOf = so /\ e.rejected = m.rejected
  <2> HIDE DEF mb, so, tr
  <2> QED
    BY <1>1, <1>2, <1>5 DEF Maps
<1>7. \A a \in Alarms : IF holding(a) = {} THEN so[a] = 0
                        ELSE so[a] \in holding(a) /\ \A s \in holding(a) : s <= so[a]
  <2> HIDE DEF holding
  <2> QED
    BY <1>3
<1>8. \A s \in Sits, a \in Alarms : mb[s][a] = IF Live(d, s) /\ a \in d.rows[s] THEN 1 ELSE 0
  OBVIOUS
<1> HIDE DEF mb, so
<1> QED
  BY <1>6, <1>7, <1>8

-----------------------------------------------------------------------------
(* What an operation keeps of the tables and the maps together *)

LEMMA SoundIs ==
    ASSUME NEW d, NEW m, Sound(d, m)
    PROVE  /\ d \in Tables /\ m \in Maps /\ m.tracked \subseteq Sits /\ d.seq \in Nat /\ d.seq <= MaxSit
           /\ \A s \in m.tracked : s <= d.seq /\ d.status[s] # "resolved"
           /\ \A s \in Sits : s \notin m.tracked => m.members[s] = Empty
           /\ \A s \in Sits, a \in Alarms : m.members[s][a] \in Nat
           /\ \A s \in Sits, a \in Alarms : m.members[s][a] > 0 => s \in m.tracked
           /\ \A a \in Alarms : m.sitOf[a] \in 0 .. MaxSit /\ m.sitOf[a] <= d.seq
           /\ \A s \in Sits : d.status[s] = "none" => d.rows[s] = {} /\ d.into[s] = 0
           /\ \A s \in Sits : s > d.seq => d.status[s] = "none"
<1>1. /\ d \in Tables /\ m \in Maps
      /\ \A s \in Sits : s \notin m.tracked => m.members[s] = Empty
  BY DEF Sound, Rows, Lists
<1>2. \A s \in Sits, a \in Alarms : m.members[s][a] > 0 => s \in m.tracked
  BY <1>1, EmptyIs
<1>3. m.tracked \subseteq Sits /\ d.seq \in Nat /\ d.seq <= MaxSit
  BY <1>1, TableFields, MapFields, SitIds
<1>4. \A a \in Alarms : m.sitOf[a] \in 0 .. MaxSit
  BY <1>1, MapFields
<1>5. \A s \in Sits, a \in Alarms : m.members[s][a] \in Nat
  BY <1>1, MapFields
<1> QED
  BY <1>1, <1>2, <1>3, <1>4, <1>5, SitIds DEF Sound, Rows, Lists, NoneOver

(* What is said of a pair is said of four of the tables.                   *)
LEMMA SameTables ==
    ASSUME NEW d, NEW m, NEW e \in Tables, e.seq = d.seq, e.status = d.status, e.into = d.into, e.rows = d.rows
    PROVE  /\ Sound(d, m) => Sound(e, m)
           /\ Kept(d, m) => Kept(e, m)
           /\ Mirrors(d, m) => Mirrors(e, m)
BY DEF Sound, Rows, Lists, NoneOver, Kept, Tracks, Follows, Single, Mirrors, Live

LEMMA RolledBack ==
    ASSUME NEW d, NEW m, NEW n, NEW k \in 0 .. MaxSit, Sound(d, m), d.seq <= k,
           Lists(n, k), NoneOver(d, n), NEW e, e = [d EXCEPT !.seq = k]
    PROVE  Sound(e, n)
<1>1. /\ e \in Tables /\ e.seq = k /\ e.status = d.status /\ e.into = d.into /\ e.rows = d.rows
  BY SoundIs, SeqIs
<1>2. \A s \in Sits : s > k => s > d.seq
  BY SoundIs, SitIds
<1> QED
  BY <1>1, <1>2 DEF Sound, Rows, NoneOver

LEMMA ForgetKeeps ==
    ASSUME NEW d, NEW m, Sound(d, m), NEW gone \in SUBSET Sits,
           NEW e, e = Resolved(d, gone), NEW n, n = Forget(m, gone)
    PROVE  /\ Sound(e, n) /\ NoneOver(d, n)
           /\ Kept(d, m) => Kept(e, n)
           /\ Mirrors(d, m) => Mirrors(e, n)
<1>0. d \in Tables /\ m \in Maps
  BY SoundIs
<1>1. /\ e \in Tables /\ e.seq = d.seq /\ e.into = d.into /\ e.rows = d.rows
      /\ \A s \in Sits : e.status[s] = IF s \in gone /\ Live(d, s) THEN "resolved" ELSE d.status[s]
  BY <1>0, ResolvedIs
<1>2. /\ n \in Maps /\ n.tracked = m.tracked \ gone
      /\ \A s \in Sits : n.members[s] = IF s \in gone THEN Empty ELSE m.members[s]
      /\ \A a \in Alarms : n.sitOf[a] = IF \E s \in gone : m.members[s][a] > 0 THEN 0 ELSE m.sitOf[a]
  BY <1>0, ForgetIs
<1>3. \A s \in Sits : Live(e, s) <=> Live(d, s) /\ s \notin gone
  BY <1>1 DEF Live, LIVE
<1>4. Rows(e)
  <2>1. \A s \in Sits : e.status[s] = "none" => d.status[s] = "none"
    BY <1>1
  <2>2. \A s \in Sits : d.status[s] = "none" => e.status[s] = "none"
    BY <1>1 DEF Live, LIVE
  <2> QED
    BY <1>1, <2>1, <2>2, SoundIs DEF Rows
<1>5. Lists(n, e.seq)
  <2>1. n.tracked \subseteq 1 .. d.seq
    BY <1>2 DEF Sound, Lists
  <2>2. \A a \in Alarms : n.sitOf[a] <= d.seq
    BY <1>0, <1>2, SoundIs
  <2>3. \A s \in Sits \ n.tracked : n.members[s] = Empty
    BY <1>2, SoundIs
  <2> QED
    BY <1>1, <1>2, <2>1, <2>2, <2>3 DEF Lists
<1>6. NoneOver(e, n) /\ NoneOver(d, n)
  BY <1>1, <1>2, SoundIs DEF NoneOver
<1>7. ASSUME Kept(d, m) PROVE Kept(e, n)
  <2>1. Tracks(d, m) /\ Single(d)
    BY <1>7 DEF Kept
  <2>2. n.tracked = {s \in Sits : Live(e, s)}
    BY <1>2, <1>3, <2>1 DEF Tracks, Follows
  <2>3. \A s \in n.tracked : s \in m.tracked /\ s \in Sits /\ s \notin gone /\ e.status[s] = d.status[s]
    BY <1>1, <1>2, SoundIs
  <2>4. \A s \in n.tracked : e.rows[s] # {}
    BY <1>1, <2>1, <2>3 DEF Tracks, Follows
  <2>5. \A s \in n.tracked : Held(n, s) = Held(m, s)
    BY <1>2, <2>3 DEF Held
  <2>6. Tracks(e, n)
    BY <1>1, <2>1, <2>2, <2>3, <2>4, <2>5 DEF Tracks, Follows
  <2>7. Single(e)
    BY <1>1, <2>1 DEF Single
  <2> QED
    BY <2>6, <2>7 DEF Kept
<1>8. ASSUME Mirrors(d, m) PROVE Mirrors(e, n)
  <2>1. n.tracked = {s \in Sits : Live(e, s)}
    BY <1>2, <1>3, <1>8 DEF Mirrors
  <2>2. \A s \in n.tracked, a \in Alarms : n.members[s][a] = IF a \in e.rows[s] THEN 1 ELSE 0
    BY <1>1, <1>2, <1>8, SoundIs DEF Mirrors
  <2>3. ASSUME NEW a \in Alarms, NEW s \in Sits PROVE Live(e, s) /\ a \in e.rows[s] <=> n.sitOf[a] = s
    <3>1. \A t \in Sits : Live(d, t) /\ a \in d.rows[t] <=> m.sitOf[a] = t
      BY <1>8 DEF Mirrors
    <3>2. \A t \in Sits : m.members[t][a] > 0 <=> Live(d, t) /\ a \in d.rows[t]
      <4> TAKE t \in Sits
      <4>1. CASE t \in m.tracked
        BY <4>1, <1>8 DEF Mirrors
      <4>2. CASE t \notin m.tracked
        <5>1. ~Live(d, t)
          BY <4>2, <1>8 DEF Mirrors
        <5>2. m.members[t][a] = 0
          BY <4>2, SoundIs, EmptyIs
        <5> QED
          BY <5>1, <5>2
      <4> QED
        BY <4>1, <4>2
    <3>3. 0 \notin Sits
      BY SitIds
    <3> QED
      BY <1>1, <1>2, <1>3, <3>1, <3>2, <3>3
  <2> QED
    BY <2>1, <2>2, <2>3 DEF Mirrors
<1> QED
  BY <1>4, <1>5, <1>6, <1>7, <1>8 DEF Sound

(* Neither what promotes a situation nor what lets a proposal lapse        *)
(* changes what is live.                                                   *)
LEMMA StatesKeep ==
    ASSUME NEW d, NEW m, Sound(d, m), NEW e \in Tables, e.seq = d.seq, e.rows = d.rows,
           \A s \in Sits : \/ e.status[s] = d.status[s] /\ e.into[s] = d.into[s]
                           \/ d.status[s] = "pending" /\ e.status[s] = "new" /\ e.into[s] = 0
                           \/ d.status[s] \in {"new", "pending"} /\ e.status[s] = "open" /\ e.into[s] = 0
    PROVE  /\ Sound(e, m) /\ \A s \in Sits : Live(e, s) <=> Live(d, s)
           /\ Kept(d, m) => Kept(e, m)
           /\ Mirrors(d, m) => Mirrors(e, m)
<1>1. \A s \in Sits : (Live(e, s) <=> Live(d, s)) /\ (e.status[s] = "none" <=> d.status[s] = "none")
                      /\ (e.status[s] = "resolved" <=> d.status[s] = "resolved")
  BY DEF Live, LIVE
<1>2. Rows(e)
  BY <1>1, SoundIs DEF Rows
<1>3. NoneOver(e, m)
  BY <1>1, SoundIs DEF NoneOver
<1>4. ASSUME Kept(d, m) PROVE Kept(e, m)
  <2>1. Tracks(e, m)
    <3>1. Tracks(d, m)
      BY <1>4 DEF Kept
    <3>2. m.tracked = {s \in Sits : Live(e, s)}
      BY <1>1, <3>1 DEF Tracks, Follows
    <3>3. \A s \in m.tracked : e.status[s] # "open" => d.status[s] # "open"
      BY SoundIs
    <3> QED
      BY <3>1, <3>2, <3>3 DEF Tracks, Follows
  <2>2. Single(e)
    <3>1. Single(d)
      BY <1>4 DEF Kept
    <3>2. \A s \in Sits : e.status[s] = "pending" => d.status[s] = "pending" /\ e.into[s] = d.into[s]
      OBVIOUS
    <3>3. \A s \in Sits : e.status[s] \in {"new", "open"} => e.into[s] = 0
      BY <3>1 DEF Single
    <3> QED
      BY <3>1, <3>2, <3>3 DEF Single
  <2> QED
    BY <2>1, <2>2 DEF Kept
<1>5. Mirrors(d, m) => Mirrors(e, m)
  BY <1>1 DEF Mirrors
<1> QED
  BY <1>1, <1>2, <1>3, <1>4, <1>5 DEF Sound

LEMMA PromotedKeeps ==
    ASSUME NEW d, NEW m, Sound(d, m), NEW s \in Sits, NEW e, e = Promoted(d, s)
    PROVE  /\ Sound(e, m) /\ \A t \in Sits : Live(e, t) <=> Live(d, t)
           /\ Kept(d, m) => Kept(e, m)
           /\ Mirrors(d, m) => Mirrors(e, m)
<1>1. d \in Tables
  BY SoundIs
<1> QED
  BY SMTT(60), <1>1, PromotedIs, StatesKeep

LEMMA LapsedKeeps ==
    ASSUME NEW d, NEW m, Sound(d, m), NEW e, e = Lapsed(d)
    PROVE  /\ Sound(e, m) /\ \A t \in Sits : Live(e, t) <=> Live(d, t)
           /\ Kept(d, m) => Kept(e, m)
           /\ Mirrors(d, m) => Mirrors(e, m)
<1>1. d \in Tables
  BY SoundIs
<1> QED
  BY <1>1, LapsedIs, StatesKeep

(* Pruning deletes rows of what is resolved.                               *)
LEMMA PrunedKeeps ==
    ASSUME NEW d, NEW m, Sound(d, m), NEW pruned \in SUBSET Sits, \A s \in pruned : d.status[s] = "resolved",
           NEW e, e = [d EXCEPT !.rows = [s \in Sits |-> IF s \in pruned THEN {} ELSE @[s]]]
    PROVE  /\ Sound(e, m) /\ e \in Tables /\ e.status = d.status /\ e.active = d.active
           /\ \A s \in Sits : e.rows[s] = IF s \in pruned THEN {} ELSE d.rows[s]
           /\ Kept(d, m) => Kept(e, m)
           /\ Mirrors(d, m) => Mirrors(e, m)
<1> DEFINE rw == [s \in Sits |-> IF s \in pruned THEN {} ELSE d.rows[s]]
<1>0. d \in Tables
  BY SoundIs
<1>1. rw \in [Sits -> SUBSET Alarms] /\ \A s \in Sits : rw[s] = IF s \in pruned THEN {} ELSE d.rows[s]
  BY <1>0, TableFields
<1>2. e = [d EXCEPT !.rows = rw]
  BY <1>0 DEF Tables
<1>3. e \in Tables /\ e.rows = rw /\ e.seq = d.seq /\ e.status = d.status /\ e.into = d.into /\ e.active = d.active
  <2> HIDE DEF rw
  <2> QED
    BY <1>0, <1>1, <1>2, RowsAre
<1> HIDE DEF rw
<1>4. \A s \in Sits : Live(d, s) => e.rows[s] = d.rows[s]
  BY <1>1, <1>3 DEF Live, LIVE
<1>5. \A s \in Sits : Live(e, s) <=> Live(d, s)
  BY <1>3 DEF Live
<1>6. Rows(e)
  BY <1>1, <1>3, SoundIs DEF Rows
<1>7. NoneOver(e, m)
  BY <1>3, SoundIs DEF NoneOver
<1>8. Kept(d, m) => Kept(e, m)
  BY <1>3, <1>4, <1>5 DEF Kept, Tracks, Follows, Single
<1>9. Mirrors(d, m) => Mirrors(e, m)
  BY <1>4, <1>5 DEF Mirrors
<1> QED
  BY <1>1, <1>3, <1>6, <1>7, <1>8, <1>9 DEF Sound

LEMMA SameMaps ==
    ASSUME NEW d, NEW m, NEW n \in Maps, n.tracked = m.tracked, n.members = m.members, n.sitOf = m.sitOf
    PROVE  /\ Sound(d, m) => Sound(d, n)
           /\ Kept(d, m) => Kept(d, n)
           /\ Mirrors(d, m) => Mirrors(d, n)
BY DEF Sound, Lists, NoneOver, Kept, Tracks, Follows, Held, Mirrors

LEMMA SurfacedIs ==
    ASSUME NEW d \in Tables, NEW m \in Maps, NEW faults \in SUBSET Alarms, faults # {}, d.seq < MaxSit,
           NEW r, r = Surfaced(d, m, faults)
    PROVE  LET fresh == d.seq + 1
           IN  /\ fresh \in Sits /\ fresh \in 0 .. MaxSit /\ r.db \in Tables /\ r.mem \in Maps
               /\ r.db.seq = fresh /\ r.db.into = d.into /\ r.db.active = d.active \cup faults
               /\ r.mem.tracked = m.tracked \cup {fresh}
               /\ \A s \in Sits :
                     /\ r.db.status[s] = IF s = fresh THEN "new" ELSE d.status[s]
                     /\ r.db.rows[s] = IF s = fresh THEN faults ELSE d.rows[s]
                     /\ s # fresh => r.mem.members[s] = m.members[s]
               /\ \A a \in Alarms : /\ r.mem.members[fresh][a] = IF a \in faults THEN 1 ELSE 0
                                    /\ r.mem.sitOf[a] = IF a \in faults THEN fresh ELSE m.sitOf[a]
<1> DEFINE fresh == d.seq + 1
<1> DEFINE c == Created(d, "new")
<1> DEFINE rw == [c.rows EXCEPT ![fresh] = faults]
<1> DEFINE on == c.active \cup faults
<1> DEFINE g == [a \in Alarms |-> IF a \in faults THEN 1 ELSE 0]
<1> DEFINE mb == [m.members EXCEPT ![fresh] = g]
<1> DEFINE so == [a \in Alarms |-> IF a \in faults THEN fresh ELSE m.sitOf[a]]
<1> DEFINE tr == m.tracked \cup {fresh}
<1>1. /\ fresh \in Sits /\ fresh \in 0 .. MaxSit
      /\ c \in Tables /\ c.seq = fresh /\ c.into = d.into /\ c.rows = d.rows /\ c.active = d.active
      /\ \A s \in Sits : c.status[s] = IF s = fresh THEN "new" ELSE d.status[s]
  <2>1. "new" \in LIVE
    BY DEF LIVE
  <2> QED
    BY <2>1, CreatedIs
<1> HIDE DEF c, fresh
<1>2. /\ rw \in [Sits -> SUBSET Alarms] /\ on \in SUBSET Alarms
      /\ \A s \in Sits : rw[s] = IF s = fresh THEN faults ELSE d.rows[s]
  BY <1>1, TableFields
<1>3. r.db = [[c EXCEPT !.rows = rw] EXCEPT !.active = on]
  BY <1>1 DEF Surfaced, Tables, c, fresh
<1>4. /\ r.db \in Tables /\ r.db.rows = rw /\ r.db.active = on /\ r.db.seq = c.seq
      /\ r.db.into = c.into /\ r.db.status = c.status
  <2> HIDE DEF rw, on
  <2> QED
    BY ZenonT(60), <1>1, <1>2, <1>3 DEF Tables
<1>5. r.mem = [[[m EXCEPT !.tracked = tr] EXCEPT !.members = mb] EXCEPT !.sitOf = so]
  BY DEF Surfaced, Maps, fresh
<1>6. /\ tr \in SUBSET Sits /\ mb \in [Sits -> [Alarms -> Nat]] /\ so \in [Alarms -> 0 .. MaxSit]
      /\ mb[fresh] = g /\ \A s \in Sits : s # fresh => mb[s] = m.members[s]
  <2>1. g \in [Alarms -> Nat]
    OBVIOUS
  <2> HIDE DEF g
  <2> QED
    BY <1>1, <2>1, MapFields
<1>7. /\ r.mem \in Maps /\ r.mem.tracked = tr /\ r.mem.members = mb /\ r.mem.sitOf = so
  <2> HIDE DEF tr, mb, so
  <2> QED
    BY <1>5, <1>6 DEF Maps
<1>8. \A a \in Alarms : g[a] = (IF a \in faults THEN 1 ELSE 0)
                        /\ so[a] = IF a \in faults THEN fresh ELSE m.sitOf[a]
  OBVIOUS
<1> HIDE DEF rw, mb, so, g
<1> QED
  BY <1>1, <1>2, <1>4, <1>6, <1>7, <1>8 DEF fresh

LEMMA SurfacedKeeps ==
    ASSUME NEW d, NEW m, Sound(d, m), NEW faults \in SUBSET Alarms, Surfaces(d, faults),
           NEW r, r = Surfaced(d, m, faults), NEW e, e = r.db, NEW n, n = r.mem
    PROVE  /\ Sound(e, n) /\ NoneOver(d, n)
           /\ e.seq = IF faults = {} THEN d.seq ELSE d.seq + 1
           /\ e.active = d.active \cup faults
           /\ \A s \in Sits : d.status[s] # "none" => e.status[s] = d.status[s] /\ e.rows[s] = d.rows[s]
           /\ Kept(d, m) => Kept(e, n)
           /\ Mirrors(d, m) /\ ~ShownTwice(d, faults) => Mirrors(e, n)
<1>1. CASE faults = {}
  BY <1>1, SoundIs DEF Surfaced, Sound
<1>2. CASE faults # {}
  <2>0. d \in Tables /\ m \in Maps /\ d.seq < MaxSit /\ d.seq \in Nat
    BY <1>2, SoundIs DEF Surfaces
  <2> DEFINE fresh == d.seq + 1
  <2>1. /\ fresh \in Sits /\ fresh \in 0 .. MaxSit /\ e \in Tables /\ n \in Maps
        /\ e.seq = fresh /\ e.into = d.into /\ e.active = d.active \cup faults
        /\ n.tracked = m.tracked \cup {fresh}
        /\ \A s \in Sits :
              /\ e.status[s] = IF s = fresh THEN "new" ELSE d.status[s]
              /\ e.rows[s] = IF s = fresh THEN faults ELSE d.rows[s]
              /\ s # fresh => n.members[s] = m.members[s]
        /\ \A a \in Alarms : /\ n.members[fresh][a] = IF a \in faults THEN 1 ELSE 0
                             /\ n.sitOf[a] = IF a \in faults THEN fresh ELSE m.sitOf[a]
    BY <1>2, <2>0, SurfacedIs
  <2>2. /\ fresh > d.seq /\ d.seq < fresh /\ fresh # 0 /\ fresh \in Nat /\ 1 <= fresh
        /\ \A k \in Nat : (k <= d.seq => k <= fresh /\ k # fresh) /\ (k > fresh => k > d.seq)
    BY <2>0
  <2> HIDE DEF fresh
  <2>3. d.status[fresh] = "none" /\ d.into[fresh] = 0 /\ fresh \notin m.tracked
    BY <2>0, <2>1, <2>2, SoundIs, SitIds
  <2>t. n.tracked = m.tracked \cup {fresh}
    BY <2>1
  <2>u. \A s : s \in n.tracked <=> s \in m.tracked \/ s = fresh
    BY <2>t
  <2>v. \A s \in m.tracked : s \in Sits /\ s # fresh /\ d.status[s] # "resolved"
    BY <2>3, SoundIs
  <2>w. \A s \in Sits : s \notin m.tracked => m.members[s] = Empty
    BY SoundIs
  <2>s. fresh \in Sits
    BY <2>1
  <2>a. \A s \in Sits : /\ s # fresh => e.status[s] = d.status[s] /\ e.rows[s] = d.rows[s] /\ n.members[s] = m.members[s]
                        /\ s = fresh => e.status[s] = "new" /\ e.rows[s] = faults
    BY <2>1, Zenon
  <2>b. \A a \in Alarms : n.members[fresh][a] = IF a \in faults THEN 1 ELSE 0
    BY <2>1
  <2>4. Rows(e)
    <3>1. \A s \in Sits : e.status[s] = "none" => s # fresh /\ d.status[s] = "none"
      BY <2>1
    <3>2. \A s \in Sits : s > e.seq => e.status[s] = "none"
      BY <2>1, <2>2, SoundIs, SitIds
    <3> QED
      BY <2>1, <3>1, <3>2, SoundIs DEF Rows
  <2>5. Lists(n, e.seq)
    <3>1. n.tracked \subseteq 1 .. fresh
      <4>1. \A s \in m.tracked : s \in Nat /\ 1 <= s /\ s <= fresh
        BY <2>2, SoundIs, SitIds
      <4> QED
        BY <2>1, <2>2, <4>1
    <3>2. \A a \in Alarms : n.sitOf[a] <= fresh
      BY <2>1, <2>2, SoundIs
    <3>3. \A s \in Sits \ n.tracked : n.members[s] = Empty
      BY <2>1, <2>u, <2>v, <2>w
    <3> QED
      BY <2>1, <3>1, <3>2, <3>3 DEF Lists
  <2>6. NoneOver(e, n) /\ NoneOver(d, n)
    BY <2>s, <2>3, <2>a, <2>u, <2>v DEF NoneOver
  <2>7. \A s \in Sits : Live(e, s) <=> Live(d, s) \/ s = fresh
    BY <2>1 DEF Live, LIVE
  <2>8. ASSUME Kept(d, m) PROVE Kept(e, n)
    <3>1. Tracks(d, m) /\ Single(d)
      BY <2>8 DEF Kept
    <3>2. n.tracked = {s \in Sits : Live(e, s)}
      BY <2>s, <2>u, <2>v, <2>7, <3>1 DEF Tracks, Follows
    <3>3. \A s \in n.tracked : e.rows[s] # {}
      BY <2>s, <1>2, <2>a, <2>u, <2>v, <3>1 DEF Tracks, Follows
    <3>4. ASSUME NEW s \in n.tracked, e.status[s] # "open" PROVE Held(n, s) \subseteq e.rows[s]
      <4>1. CASE s = fresh
        BY <2>1, <4>1 DEF Held
      <4>2. CASE s # fresh
        <5>1. s \in m.tracked /\ s \in Sits
          BY <2>1, <4>2, SoundIs
        <5>2. Held(n, s) = Held(m, s)
          BY <2>1, <4>2, <5>1 DEF Held
        <5> QED
          BY <2>1, <3>1, <3>4, <4>2, <5>1, <5>2 DEF Tracks, Follows
      <4> QED
        BY <4>1, <4>2
    <3>5. Single(e)
      <4>1. \A s \in Sits : e.status[s] = "pending" => d.status[s] = "pending"
        BY <2>1
      <4>2. \A s \in Sits : e.status[s] \in {"new", "open"} => d.into[s] = 0
        BY <2>1, <2>3, <3>1 DEF Single
      <4> QED
        BY <2>1, <3>1, <4>1, <4>2 DEF Single
    <3> QED
      BY <3>2, <3>3, <3>4, <3>5 DEF Kept, Tracks, Follows
  <2>9. ASSUME Mirrors(d, m), ~ShownTwice(d, faults) PROVE Mirrors(e, n)
    <3>1. n.tracked = {s \in Sits : Live(e, s)}
      BY <2>s, <2>u, <2>v, <2>7, <2>9 DEF Mirrors
    <3>2. \A s \in n.tracked, a \in Alarms : n.members[s][a] = IF a \in e.rows[s] THEN 1 ELSE 0
      BY <2>s, <2>a, <2>b, <2>u, <2>v, <2>9 DEF Mirrors
    <3>3. ASSUME NEW a \in Alarms, NEW s \in Sits PROVE Live(e, s) /\ a \in e.rows[s] <=> n.sitOf[a] = s
      <4>1. Live(d, s) /\ a \in d.rows[s] <=> m.sitOf[a] = s
        BY <2>9 DEF Mirrors
      <4>2. a \in faults => ~(Live(d, s) /\ a \in d.rows[s])
        BY <2>9 DEF ShownTwice, Visible
      <4>3. m.sitOf[a] # fresh
        BY <2>2, SoundIs
      <4> QED
        BY <2>1, <2>7, <4>1, <4>2, <4>3
    <3> QED
      BY <3>1, <3>2, <3>3 DEF Mirrors
  <2>10. \A s \in Sits : d.status[s] # "none" => e.status[s] = d.status[s] /\ e.rows[s] = d.rows[s]
    BY <2>1, <2>3
  <2> QED
    BY <1>2, <2>1, <2>4, <2>5, <2>6, <2>8, <2>9, <2>10 DEF Sound, fresh
<1> QED
  BY <1>1, <1>2

LEMMA SurfacedShows ==
    ASSUME NEW d, NEW m, Sound(d, m), NEW faults \in SUBSET Alarms, Surfaces(d, faults),
           NEW e, e = Surfaced(d, m, faults).db
    PROVE  \A b \in faults : Visible(e, b)
<1>1. CASE faults = {}
  BY <1>1
<1>2. CASE faults # {}
  <2>1. PICK r : r = Surfaced(d, m, faults)
    OBVIOUS
  <2>2. PICK k : k = d.seq + 1
    OBVIOUS
  <2>3. d \in Tables /\ m \in Maps /\ d.seq < MaxSit
    BY <1>2, SoundIs DEF Surfaces
  <2>4. /\ k \in Sits
        /\ \A s \in Sits : /\ r.db.status[s] = IF s = k THEN "new" ELSE d.status[s]
                           /\ r.db.rows[s] = IF s = k THEN faults ELSE d.rows[s]
    BY <1>2, <2>1, <2>2, <2>3, SurfacedIs
  <2>5. k \in Sits /\ e.status[k] = "new" /\ e.rows[k] = faults
    BY <2>1, <2>4
  <2> QED
    BY <2>5 DEF Visible, Live, LIVE
<1> QED
  BY <1>1, <1>2

(* The sources' members go to the destination, in the rows and in the      *)
(* lists; a destination with no row can only take what has none.           *)
LEMMA MergeKeeps ==
    ASSUME NEW d, NEW m, Sound(d, m), NEW dst \in Sits, NEW srcs \in SUBSET (Sits \ {dst}),
           dst <= d.seq, d.status[dst] # "resolved",
           NEW e, e = DbMerged(d, dst, srcs), NEW n, n = MemMerged(m, dst, srcs),
           d.status[dst] = "none" => e.rows[dst] = {}
    PROVE  /\ Sound(e, n) /\ NoneOver(d, n)
           /\ Follows(d, m) /\ Single(d) /\ dst \in m.tracked /\ srcs \subseteq m.tracked
              /\ (d.status[dst] = "open" \/ \A s \in srcs : d.status[s] # "open") => Follows(e, n) /\ Single(e)
           /\ Kept(d, m) /\ dst \in m.tracked /\ srcs \subseteq m.tracked
              /\ (d.status[dst] = "open" \/ \A s \in srcs : d.status[s] # "open") => Kept(e, n)
           /\ Mirrors(d, m) /\ dst \in m.tracked /\ srcs \subseteq m.tracked => Mirrors(e, n)
<1>0. d \in Tables /\ m \in Maps
  BY SoundIs
<1>1. /\ e \in Tables /\ e.seq = d.seq /\ e.into = d.into
      /\ e.rows[dst] = UNION {d.rows[x] : x \in srcs \cup {dst}}
      /\ \A s \in Sits :
            /\ s # dst => e.rows[s] = IF s \in srcs THEN {} ELSE d.rows[s]
            /\ e.status[s] = IF s \in srcs /\ d.status[s] # "none" THEN "resolved" ELSE d.status[s]
  BY <1>0, DbMergedIs
<1>2. /\ n \in Maps
      /\ m.tracked \ srcs \subseteq n.tracked /\ n.tracked \subseteq (m.tracked \ srcs) \cup {dst}
      /\ dst \in n.tracked <=> dst \in m.tracked \/ \E s \in srcs : \E a \in Alarms : m.members[s][a] > 0
  BY <1>0, MemMergedIs
<1>mb. /\ \A s \in Sits : s # dst => n.members[s] = IF s \in srcs THEN Empty ELSE m.members[s]
       /\ \A a \in Alarms : n.members[dst][a] = Entries(m, srcs \cup {dst}, a)
  BY <1>0, MemMergedLists
<1>so. \A a \in Alarms : n.sitOf[a] = IF \E s \in srcs : m.members[s][a] > 0 THEN dst ELSE m.sitOf[a]
  BY <1>0, MemMergedLeads
<1>3. \A a \in Alarms :
         /\ n.members[dst][a] \in Nat
         /\ (\A s \in srcs \cup {dst} : m.members[s][a] = 0) => n.members[dst][a] = 0
         /\ \A x \in srcs \cup {dst} : m.members[x][a] = 1 /\ (\A s \in srcs \cup {dst} : s # x => m.members[s][a] = 0)
                                          => n.members[dst][a] = 1
  <2> TAKE a \in Alarms
  <2>1. srcs \cup {dst} \in SUBSET Sits /\ n.members[dst][a] = Entries(m, srcs \cup {dst}, a)
    BY <1>mb
  <2> QED
    BY <1>0, <2>1, EntriesAre
<1>4. Rows(e)
  <2>1. \A s \in Sits : e.status[s] = "none" <=> d.status[s] = "none"
    BY <1>1
  <2>2. \A s \in Sits : e.status[s] = "none" => e.rows[s] = {}
    BY <1>1, <2>1, SoundIs
  <2> QED
    BY <1>1, <2>1, <2>2, SoundIs DEF Rows
<1>5. Lists(n, e.seq)
  <2>1. n.tracked \subseteq 1 .. d.seq
    <3>1. \A s \in m.tracked \cup {dst} : s \in Nat /\ 1 <= s /\ s <= d.seq
      BY SoundIs, SitIds
    <3> QED
      BY <1>2, <3>1, SoundIs
  <2>2. \A a \in Alarms : n.sitOf[a] <= d.seq
    BY <1>so, SoundIs
  <2>3. ASSUME NEW s \in Sits, s \notin n.tracked PROVE n.members[s] = Empty
    <3>1. CASE s # dst
      BY <1>2, <1>mb, <2>3, <3>1, SoundIs
    <3>2. CASE s = dst
      <4>1. dst \notin m.tracked /\ \A x \in srcs : \A a \in Alarms : ~(m.members[x][a] > 0)
        BY <1>2, <2>3, <3>2
      <4>2. \A x \in srcs \cup {dst}, a \in Alarms : m.members[x][a] = 0
        BY <4>1, SoundIs, EmptyIs
      <4>3. \A a \in Alarms : n.members[dst][a] = 0
        BY <1>3, <4>2
      <4>4. n.members[dst] \in [Alarms -> Nat]
        BY <1>2, MapFields
      <4> QED
        BY <3>2, <4>3, <4>4, EmptyIs
    <3> QED
      BY <3>1, <3>2
  <2> QED
    BY <1>1, <1>2, <2>1, <2>2, <2>3 DEF Lists
<1>6. NoneOver(e, n) /\ NoneOver(d, n)
  <2>1. \A s \in n.tracked : s \in Sits /\ s \notin srcs /\ d.status[s] # "resolved"
    BY <1>2, SoundIs
  <2> QED
    BY <1>1, <2>1 DEF NoneOver
<1>7. ASSUME dst \in m.tracked, srcs \subseteq m.tracked, m.tracked = {s \in Sits : Live(d, s)}
      PROVE  n.tracked = m.tracked \ srcs /\ n.tracked = {s \in Sits : Live(e, s)}
  <2>1. n.tracked = m.tracked \ srcs
    BY <1>2, <1>7
  <2>2. \A s \in Sits : Live(e, s) <=> Live(d, s) /\ s \notin srcs
    BY <1>1 DEF Live, LIVE
  <2> QED
    BY <1>7, <2>1, <2>2
<1>8. ASSUME Follows(d, m), Single(d), dst \in m.tracked, srcs \subseteq m.tracked,
             d.status[dst] = "open" \/ \A s \in srcs : d.status[s] # "open"
      PROVE  /\ Follows(e, n) /\ Single(e)
             /\ (\A s \in m.tracked : d.rows[s] # {}) => \A s \in n.tracked : e.rows[s] # {}
  <2>1. Follows(d, m) /\ Single(d)
    BY <1>8
  <2>2. n.tracked = m.tracked \ srcs /\ n.tracked = {s \in Sits : Live(e, s)}
    BY <1>7, <1>8, <2>1 DEF Follows
  <2>3. \A s \in n.tracked : s \in Sits /\ s \in m.tracked /\ s \notin srcs /\ e.status[s] = d.status[s]
    BY <1>1, <2>2, SoundIs
  <2>4. \A s \in n.tracked : d.rows[s] \subseteq e.rows[s]
    BY <1>1, <2>3
  <2>5. (\A s \in m.tracked : d.rows[s] # {}) => \A s \in n.tracked : e.rows[s] # {}
    BY <2>3, <2>4
  <2>6. ASSUME NEW s \in n.tracked, e.status[s] # "open" PROVE Held(n, s) \subseteq e.rows[s]
    <3>1. CASE s # dst
      <4>1. n.members[s] = m.members[s]
        BY <1>mb, <2>3, <3>1
      <4>2. Held(m, s) \subseteq d.rows[s]
        BY <2>1, <2>3, <2>6 DEF Follows
      <4> QED
        BY <2>4, <4>1, <4>2 DEF Held
    <3>2. CASE s = dst
      <4>1. \A x \in srcs \cup {dst} : Held(m, x) \subseteq d.rows[x]
        BY <1>8, <2>1, <2>3, <2>6, <3>2 DEF Follows
      <4>2. \A x \in srcs \cup {dst} : d.rows[x] \subseteq e.rows[dst]
        BY <1>1
      <4>3. ASSUME NEW a \in Held(n, dst) PROVE a \in e.rows[dst]
        <5>1. a \in Alarms /\ n.members[dst][a] > 0
          BY DEF Held
        <5>2. PICK x \in srcs \cup {dst} : m.members[x][a] # 0
          BY <1>3, <5>1
        <5>3. m.members[x][a] > 0
          BY <5>1, <5>2, SoundIs
        <5> QED
          BY <4>1, <4>2, <5>1, <5>3 DEF Held
      <4> QED
        BY <3>2, <4>3
    <3> QED
      BY <3>1, <3>2
  <2>7. Single(e)
    <3>1. \A s \in Sits : e.status[s] \in LIVE => e.status[s] = d.status[s]
      BY <1>1 DEF LIVE
    <3> QED
      BY <1>1, <2>1, <3>1 DEF Single, LIVE
  <2> QED
    BY <2>2, <2>5, <2>6, <2>7 DEF Follows
<1>9. ASSUME Mirrors(d, m), dst \in m.tracked, srcs \subseteq m.tracked
      PROVE  Mirrors(e, n)
  <2>1. n.tracked = m.tracked \ srcs /\ n.tracked = {s \in Sits : Live(e, s)}
    BY <1>7, <1>9 DEF Mirrors
  <2>2. \A s \in n.tracked : s \in Sits /\ s \in m.tracked /\ s \notin srcs
    BY <2>1, SoundIs
  <2>3. \A s \in m.tracked, a \in Alarms :
           /\ m.members[s][a] = IF a \in d.rows[s] THEN 1 ELSE 0
           /\ m.members[s][a] > 0 <=> a \in d.rows[s]
           /\ a \in d.rows[s] <=> m.sitOf[a] = s
    BY <1>9, SoundIs DEF Mirrors
  <2>4. \A a \in Alarms : a \in e.rows[dst] <=> \E x \in srcs \cup {dst} : a \in d.rows[x]
    BY <1>1
  <2>5. ASSUME NEW s \in n.tracked, NEW a \in Alarms PROVE n.members[s][a] = IF a \in e.rows[s] THEN 1 ELSE 0
    <3>1. CASE s # dst
      BY <1>1, <1>mb, <2>2, <2>3, <3>1
    <3>2. CASE s = dst
      <4>1. CASE a \in e.rows[dst]
        <5>1. PICK x \in srcs \cup {dst} : a \in d.rows[x]
          BY <2>4, <4>1
        <5>2. srcs \cup {dst} \subseteq m.tracked
          BY <1>9
        <5>3. m.members[x][a] = 1 /\ \A y \in srcs \cup {dst} : y # x => m.members[y][a] = 0
          BY <2>3, <5>1, <5>2
        <5> QED
          BY <1>3, <3>2, <4>1, <5>3
      <4>2. CASE a \notin e.rows[dst]
        <5>1. \A x \in srcs \cup {dst} : m.members[x][a] = 0
          BY <1>9, <2>3, <2>4, <4>2
        <5> QED
          BY <1>3, <3>2, <4>2, <5>1
      <4> QED
        BY <4>1, <4>2
    <3> QED
      BY <3>1, <3>2
  <2>6. ASSUME NEW a \in Alarms, NEW s \in Sits PROVE Live(e, s) /\ a \in e.rows[s] <=> n.sitOf[a] = s
    <3>1. Live(e, s) <=> s \in m.tracked /\ s \notin srcs
      BY <2>1
    <3>2. Live(d, s) /\ a \in d.rows[s] <=> m.sitOf[a] = s
      BY <1>9 DEF Mirrors
    <3>3. s \in m.tracked <=> Live(d, s)
      BY <1>9 DEF Mirrors
    <3>4. CASE \E x \in srcs : m.members[x][a] > 0
      <4>1. PICK x \in srcs : m.members[x][a] > 0
        BY <3>4
      <4>2. x \in m.tracked /\ a \in d.rows[x] /\ m.sitOf[a] = x /\ n.sitOf[a] = dst /\ a \in e.rows[dst]
        BY <1>so, <1>9, <2>3, <2>4, <3>4, <4>1
      <4>3. CASE s = dst
        BY <1>9, <3>1, <4>2, <4>3
      <4>4. CASE s # dst
        <5>1. s \notin srcs => e.rows[s] = d.rows[s]
          BY <1>1, <4>4
        <5>2. s \in m.tracked /\ s \notin srcs => a \notin d.rows[s]
          BY <2>3, <4>2
        <5> QED
          BY <3>1, <4>2, <4>4, <5>1, <5>2
      <4> QED
        BY <4>3, <4>4
    <3>5. CASE ~ \E x \in srcs : m.members[x][a] > 0
      <4>1. n.sitOf[a] = m.sitOf[a] /\ \A x \in srcs : a \notin d.rows[x]
        BY <1>so, <1>9, <2>3, <3>5
      <4>2. a \in e.rows[s] /\ s \notin srcs => a \in d.rows[s]
        BY <1>1, <2>4, <4>1
      <4>3. a \in d.rows[s] /\ s \notin srcs => a \in e.rows[s]
        BY <1>1, <2>4
      <4> QED
        BY <3>1, <3>2, <3>3, <4>1, <4>2, <4>3
    <3> QED
      BY <3>4, <3>5
  <2> QED
    BY <2>1, <2>5, <2>6 DEF Mirrors
<1>10. Kept(d, m) <=> Follows(d, m) /\ Single(d) /\ \A s \in m.tracked : d.rows[s] # {}
  BY DEF Kept, Tracks
<1>11. Kept(e, n) <=> Follows(e, n) /\ Single(e) /\ \A s \in n.tracked : e.rows[s] # {}
  BY DEF Kept, Tracks
<1> QED
  BY <1>4, <1>5, <1>6, <1>8, <1>9, <1>10, <1>11 DEF Sound

(* Alarms move from s to t: s had others and, as the operator formed it,   *)
(* is confirmed.                                                           *)
MovedRows(rows, s, t, moving) ==
    [x \in Sits |-> IF x = s THEN rows[s] \ moving ELSE IF x = t THEN rows[t] \cup moving ELSE rows[x]]

LEMMA MoveKeeps ==
    ASSUME NEW d, NEW m, Sound(d, m), NEW s \in Sits, NEW t \in Sits, s # t, Live(d, s), Live(d, t),
           NEW moving \in SUBSET Alarms, moving \subseteq d.rows[s], moving # d.rows[s],
           NEW e \in Tables, e.seq = d.seq, e.status = d.status, e.into = d.into,
           e.rows = MovedRows(d.rows, s, t, moving),
           NEW n, n = MemMoved(m, s, t, moving)
    PROVE  /\ Sound(e, n) /\ NoneOver(d, n)
           /\ Kept(d, m) /\ d.status[s] = "open" => Kept(e, n)
           /\ Mirrors(d, m) => Mirrors(e, n)
<1>0. d \in Tables /\ m \in Maps
  BY SoundIs
<1>r. \A x \in Sits : e.rows[x] = IF x = s THEN d.rows[s] \ moving ELSE
                                   IF x = t THEN d.rows[t] \cup moving ELSE d.rows[x]
  BY DEF MovedRows
<1>1. /\ n \in Maps /\ n.tracked = m.tracked
      /\ \A x \in Sits : x \notin {s, t} => n.members[x] = m.members[x]
      /\ \A a \in Alarms :
            /\ n.members[s][a] = IF a \in moving /\ m.members[s][a] > 0
                                 THEN m.members[s][a] - 1 ELSE m.members[s][a]
            /\ n.members[t][a] = IF a \in moving /\ m.members[s][a] > 0 /\ t \in m.tracked
                                 THEN m.members[t][a] + 1 ELSE m.members[t][a]
            /\ n.sitOf[a] = IF a \in moving
                            THEN IF m.members[s][a] > 0 /\ t \in m.tracked THEN t ELSE 0
                            ELSE m.sitOf[a]
  BY <1>0, MemMovedIs
<1>2. t <= d.seq /\ d.status[s] # "none" /\ d.status[t] # "none"
  <2>1. d.status[s] # "none" /\ d.status[t] # "none"
    BY DEF Live, LIVE
  <2> QED
    BY <2>1, SoundIs, SitIds
<1>3. Rows(e)
  BY <1>r, <1>2, SoundIs DEF Rows
<1>4. Lists(n, e.seq)
  <2>1. n.tracked \subseteq 1 .. d.seq
    BY <1>1 DEF Sound, Lists
  <2>2. \A a \in Alarms : n.sitOf[a] <= d.seq
    BY <1>1, <1>2, SoundIs
  <2>3. ASSUME NEW x \in Sits, x \notin m.tracked PROVE n.members[x] = Empty
    <3>1. m.members[x] = Empty
      BY <2>3, SoundIs
    <3>2. \A a \in Alarms : n.members[x][a] = 0
      BY <1>1, <2>3, <3>1, EmptyIs
    <3>3. n.members[x] \in [Alarms -> Nat]
      BY <1>1, MapFields
    <3> QED
      BY <3>2, <3>3, EmptyIs
  <2> QED
    BY <1>1, <2>1, <2>2, <2>3 DEF Lists
<1>5. NoneOver(e, n) /\ NoneOver(d, n)
  BY <1>1, SoundIs DEF NoneOver
<1>6. \A x \in Sits : Live(e, x) <=> Live(d, x)
  BY DEF Live
<1>7. ASSUME Kept(d, m), d.status[s] = "open" PROVE Kept(e, n)
  <2>1. Tracks(d, m) /\ Single(d)
    BY <1>7 DEF Kept
  <2>2. n.tracked = {x \in Sits : Live(e, x)}
    BY <1>1, <1>6, <2>1 DEF Tracks, Follows
  <2>3. d.rows[s] \subseteq Alarms /\ \A x \in m.tracked : x \in Sits
    BY <1>0, TableFields, SoundIs
  <2>4. \A x \in n.tracked : e.rows[x] # {}
    BY ZenonT(60), <1>r, <1>1, <2>1, <2>3 DEF Tracks, Follows
  <2>5. ASSUME NEW x \in n.tracked, e.status[x] # "open" PROVE Held(n, x) \subseteq e.rows[x]
    <3>1. Held(m, x) \subseteq d.rows[x] /\ x # s /\ x \in Sits
      BY <1>1, <1>7, <2>1, <2>3, <2>5 DEF Tracks, Follows
    <3>2. CASE x # t
      BY <1>r, <1>1, <3>1, <3>2 DEF Held
    <3>3. CASE x = t
      <4>1. \A a \in Alarms : n.members[t][a] > 0 => a \in moving \/ m.members[t][a] > 0
        BY <1>1
      <4> QED
        BY <1>r, <3>1, <3>3, <4>1 DEF Held
    <3> QED
      BY <3>2, <3>3
  <2>6. Single(e)
    BY <2>1 DEF Single
  <2> QED
    BY <2>2, <2>4, <2>5, <2>6 DEF Kept, Tracks, Follows
<1>8. ASSUME Mirrors(d, m) PROVE Mirrors(e, n)
  <2>1. n.tracked = {x \in Sits : Live(e, x)}
    BY <1>1, <1>6, <1>8 DEF Mirrors
  <2>2. s \in m.tracked /\ t \in m.tracked
    BY <1>8 DEF Mirrors
  <2>3. \A x \in m.tracked, a \in Alarms :
           /\ m.members[x][a] = IF a \in d.rows[x] THEN 1 ELSE 0
           /\ x \in Sits /\ (a \in d.rows[x] <=> m.sitOf[a] = x)
    BY <1>8, SoundIs DEF Mirrors
  <2>4. \A a \in Alarms : a \in moving => m.members[s][a] = 1 /\ m.members[t][a] = 0
    BY <2>2, <2>3
  <2>5. ASSUME NEW x \in n.tracked, NEW a \in Alarms PROVE n.members[x][a] = IF a \in e.rows[x] THEN 1 ELSE 0
    <3>1. x \in m.tracked /\ x \in Sits /\ m.members[x][a] = IF a \in d.rows[x] THEN 1 ELSE 0
      BY <1>1, <2>3
    <3>2. CASE x = s
      BY <1>r, <1>1, <2>4, <3>1, <3>2
    <3>3. CASE x = t
      BY <1>r, <1>1, <2>2, <2>4, <3>1, <3>3
    <3>4. CASE x # s /\ x # t
      BY <1>r, <1>1, <3>1, <3>4
    <3> QED
      BY <3>2, <3>3, <3>4
  <2>6. ASSUME NEW a \in Alarms, NEW x \in Sits PROVE Live(e, x) /\ a \in e.rows[x] <=> n.sitOf[a] = x
    <3>1. Live(d, x) /\ a \in d.rows[x] <=> m.sitOf[a] = x
      BY <1>8 DEF Mirrors
    <3>2. CASE a \in moving
      <4>1. n.sitOf[a] = t /\ m.sitOf[a] = s
        BY <1>1, <2>2, <2>3, <2>4, <3>2
      <4>2. x \notin {s, t} => ~(Live(d, x) /\ a \in d.rows[x])
        BY <3>1, <4>1
      <4>3. x = s => a \notin e.rows[x]
        BY <1>r, <3>2
      <4>4. x = t => a \in e.rows[x]
        BY <1>r, <3>2
      <4> QED
        BY <1>r, <1>6, <4>1, <4>2, <4>3, <4>4
    <3>3. CASE a \notin moving
      BY <1>r, <1>1, <1>6, <3>1, <3>3
    <3> QED
      BY <3>2, <3>3
  <2> QED
    BY <2>1, <2>5, <2>6 DEF Mirrors
<1> QED
  BY <1>3, <1>4, <1>5, <1>7, <1>8 DEF Sound

(* Some of the alarms of s leave it for k, a situation of their own.       *)
SplitRows(rows, s, k, departing) ==
    [x \in Sits |-> IF x = k THEN departing ELSE IF x = s THEN rows[s] \ departing ELSE rows[x]]
Departed(d, s, k, departing) == [Created(d, "open") EXCEPT !.rows = SplitRows(d.rows, s, k, departing)]

LEMMA SplitKeeps ==
    ASSUME NEW d, NEW m, Sound(d, m), d.seq < MaxSit, NEW s \in Sits, Live(d, s),
           NEW departing \in SUBSET Alarms, departing # {}, departing \subseteq d.rows[s], departing # d.rows[s],
           NEW k, k = d.seq + 1,
           NEW e, e = Departed(d, s, k, departing),
           NEW n, n = MemSplit(m, s, k, departing)
    PROVE  /\ Sound(e, n) /\ NoneOver(d, n) /\ e.seq = k
           /\ Kept(d, m) => Kept(e, n)
           /\ Mirrors(d, m) => Mirrors(e, n)
<1>0. d \in Tables /\ m \in Maps
  BY SoundIs
<1>d. PICK c : c = Created(d, "open")
  OBVIOUS
<1>e. /\ k \in Sits /\ c \in Tables /\ c.seq = k /\ c.into = d.into
      /\ \A x \in Sits : c.status[x] = IF x = k THEN "open" ELSE d.status[x]
  <2>1. "open" \in LIVE
    BY DEF LIVE
  <2> QED
    BY <1>0, <1>d, <2>1, CreatedIs
<1>f. SplitRows(d.rows, s, k, departing) \in [Sits -> SUBSET Alarms]
  BY <1>0, TableFields DEF SplitRows
<1>g. /\ e \in Tables /\ e.seq = k /\ e.into = d.into /\ e.status = c.status
      /\ e.rows = SplitRows(d.rows, s, k, departing)
  <2>1. e = [c EXCEPT !.rows = SplitRows(d.rows, s, k, departing)]
    BY <1>d DEF Departed
  <2> QED
    BY <1>e, <1>f, <2>1, RowsAre
<1>r. \A x \in Sits : /\ e.status[x] = IF x = k THEN "open" ELSE d.status[x]
                      /\ e.rows[x] = IF x = k THEN departing ELSE
                                     IF x = s THEN d.rows[s] \ departing ELSE d.rows[x]
  BY <1>e, <1>g DEF SplitRows
<1> USE <1>e, <1>g, <1>r
<1>1. /\ k \in Nat /\ d.seq < k /\ k > d.seq /\ d.status[k] = "none" /\ k \notin m.tracked /\ k # s
      /\ d.into[k] = 0
  <2>1. k > d.seq /\ k \in Nat /\ d.seq < k
    BY SoundIs
  <2>2. d.status[k] = "none"
    BY <2>1, SoundIs
  <2>3. k \notin m.tracked
    BY <2>1, SoundIs, SitIds
  <2> QED
    BY <2>1, <2>2, <2>3, SoundIs DEF Live, LIVE
<1>2. /\ n \in Maps /\ n.tracked = m.tracked \cup {k}
      /\ \A t \in Sits : t \notin {s, k} => n.members[t] = m.members[t]
      /\ \A a \in Alarms :
            /\ n.members[s][a] = IF a \in departing THEN 0 ELSE m.members[s][a]
            /\ n.members[k][a] = IF a \in departing THEN m.members[s][a] ELSE 0
            /\ n.sitOf[a] = IF a \in departing /\ m.members[s][a] > 0 THEN k ELSE m.sitOf[a]
  BY <1>0, <1>1, MemSplitIs
<1>t. \A x : x \in n.tracked <=> x \in m.tracked \/ x = k
  <2>1. n.tracked = m.tracked \cup {k}
    BY <1>2
  <2> QED
    BY <2>1
<1>3. Rows(e)
  <2>1. \A x \in Sits : e.status[x] = "none" => d.status[x] = "none" /\ x # k /\ x # s
    BY DEF Live, LIVE
  <2>2. \A x \in Sits : x > k => e.status[x] = "none"
    <3> TAKE x \in Sits
    <3>1. x > k => x > d.seq /\ x # k
      BY <1>1, SoundIs, SitIds
    <3> QED
      BY <3>1, SoundIs
  <2> QED
    BY <2>1, <2>2, SoundIs DEF Rows
<1>4. Lists(n, e.seq)
  <2>1. n.tracked \subseteq 1 .. k
    <3>1. \A x \in m.tracked : x \in Nat /\ 1 <= x /\ x <= k
      <4>1. \A x \in Nat : x <= d.seq => x <= k
        BY SoundIs
      <4> QED
        BY <4>1, SoundIs, SitIds
    <3>2. 1 <= k /\ k <= k
      BY SitIds
    <3> QED
      BY <1>1, <1>2, <3>1, <3>2
  <2>2. \A a \in Alarms : n.sitOf[a] <= k
    <3>1. \A a \in Alarms : m.sitOf[a] <= k
      BY SoundIs
    <3>2. k <= k
      BY <1>1
    <3> QED
      BY <1>2, <3>1, <3>2
  <2>3. ASSUME NEW x \in Sits, x \notin n.tracked PROVE n.members[x] = Empty
    <3>1. x \notin m.tracked /\ x # k /\ m.members[x] = Empty
      BY <1>2, <2>3, SoundIs
    <3>2. \A a \in Alarms : n.members[x][a] = 0
      BY <1>2, <3>1, EmptyIs
    <3>3. n.members[x] \in [Alarms -> Nat]
      BY <1>2, MapFields
    <3> QED
      BY <3>2, <3>3, EmptyIs
  <2> QED
    BY <1>2, <2>1, <2>2, <2>3 DEF Lists
<1>5. NoneOver(e, n) /\ NoneOver(d, n)
  <2>1. \A x \in m.tracked : x \in Sits /\ x # k /\ d.status[x] # "resolved"
    BY <1>1, SoundIs
  <2> QED
    BY ZenonT(60), <1>1, <1>t, <2>1 DEF NoneOver
<1>6. \A x \in Sits : Live(e, x) <=> Live(d, x) \/ x = k
  BY DEF Live, LIVE
<1>7. ASSUME Kept(d, m) PROVE Kept(e, n)
  <2>1. Tracks(d, m) /\ Single(d)
    BY <1>7 DEF Kept
  <2>2. n.tracked = {x \in Sits : Live(e, x)}
    BY ZenonT(60), <1>t, <1>6, <2>1 DEF Tracks, Follows
  <2>3. d.rows[s] \subseteq Alarms /\ \A x \in n.tracked : x \in Sits /\ (x # k => x \in m.tracked)
    BY <1>0, <1>2, TableFields, SoundIs
  <2>4. \A x \in n.tracked : e.rows[x] # {}
    <3>1. \A x \in m.tracked : d.rows[x] # {}
      BY <2>1 DEF Tracks, Follows
    <3>2. d.rows[s] \ departing # {}
      BY <2>3
    <3> QED
      BY <2>3, <3>1, <3>2
  <2>5. ASSUME NEW x \in n.tracked, e.status[x] # "open" PROVE Held(n, x) \subseteq e.rows[x]
    <3>1. x # k /\ x \in Sits /\ Held(m, x) \subseteq d.rows[x]
      BY <2>1, <2>3, <2>5 DEF Tracks, Follows
    <3>2. CASE x # s
      BY <1>2, <3>1, <3>2 DEF Held
    <3>3. CASE x = s
      <4>1. \A a \in Alarms : n.members[s][a] > 0 => a \notin departing /\ m.members[s][a] > 0
        BY <1>2
      <4> QED
        BY <3>1, <3>3, <4>1 DEF Held
    <3> QED
      BY <3>2, <3>3
  <2>6. Single(e)
    <3>1. \A x \in Sits : e.status[x] = "pending" => d.status[x] = "pending"
      OBVIOUS
    <3>2. \A x \in Sits : e.status[x] \in {"new", "open"} => e.into[x] = 0
      BY <1>1, <2>1 DEF Single
    <3> QED
      BY <2>1, <3>1, <3>2 DEF Single
  <2> QED
    BY <2>2, <2>4, <2>5, <2>6 DEF Kept, Tracks, Follows
<1>8. ASSUME Mirrors(d, m) PROVE Mirrors(e, n)
  <2>1. n.tracked = {x \in Sits : Live(e, x)}
    <3>1. m.tracked = {x \in Sits : Live(d, x)}
      BY <1>8 DEF Mirrors
    <3> QED
      BY <1>t, <1>6, <3>1
  <2>2. s \in m.tracked /\ \A x \in n.tracked : x \in Sits /\ (x # k => x \in m.tracked)
    BY <1>2, <1>8, SoundIs DEF Mirrors
  <2>3. \A x \in m.tracked, a \in Alarms : m.members[x][a] = IF a \in d.rows[x] THEN 1 ELSE 0
    BY <1>8 DEF Mirrors
  <2>4. \A a \in Alarms : m.members[s][a] > 0 <=> a \in d.rows[s]
    BY <2>2, <2>3
  <2>5. ASSUME NEW x \in n.tracked, NEW a \in Alarms PROVE n.members[x][a] = IF a \in e.rows[x] THEN 1 ELSE 0
    <3>1. CASE x = k
      <4>1. a \in departing => m.members[s][a] = 1
        BY <2>2, <2>3
      <4> QED
        BY <1>2, <3>1, <4>1
    <3>2. CASE x = s
      BY <1>1, <1>2, <2>2, <2>3, <3>2
    <3>3. CASE x # k /\ x # s
      BY <1>2, <2>2, <2>3, <3>3
    <3> QED
      BY <3>1, <3>2, <3>3
  <2>6. ASSUME NEW a \in Alarms, NEW x \in Sits PROVE Live(e, x) /\ a \in e.rows[x] <=> n.sitOf[a] = x
    <3>1. \A y \in Sits : Live(d, y) /\ a \in d.rows[y] <=> m.sitOf[a] = y
      BY <1>8 DEF Mirrors
    <3>2. m.sitOf[a] # k
      BY <1>1, SoundIs
    <3>3. CASE a \in departing
      <4>1. n.sitOf[a] = k /\ m.sitOf[a] = s
        BY <1>2, <2>4, <3>1, <3>3
      <4>2. x # s /\ x # k => ~(Live(d, x) /\ a \in d.rows[x])
        BY <3>1, <4>1
      <4>3. x = s => a \notin e.rows[x]
        BY <1>1, <3>3
      <4>4. x # s /\ x # k => e.rows[x] = d.rows[x]
        OBVIOUS
      <4> QED
        BY <1>6, <3>3, <4>1, <4>2, <4>3, <4>4
    <3>4. CASE a \notin departing
      <4>1. n.sitOf[a] = m.sitOf[a]
        BY <1>2, <3>4
      <4>2. x # k => (a \in e.rows[x] <=> a \in d.rows[x])
        BY <3>4
      <4>3. x = k => a \notin e.rows[x]
        BY <3>4
      <4> QED
        BY <1>6, <3>1, <3>2, <4>1, <4>2, <4>3
    <3> QED
      BY <3>3, <3>4
  <2> QED
    BY <2>1, <2>5, <2>6 DEF Mirrors
<1> QED
  BY <1>3, <1>4, <1>5, <1>7, <1>8 DEF Sound

(* What is read back is what the rows say.                                 *)
LEMMA ReloadKeeps ==
    ASSUME NEW d, NEW m, Sound(d, m), NEW n, n = Reloaded(d, m)
    PROVE  /\ Sound(d, n)
           /\ Kept(d, m) => Kept(d, n)
           /\ Kept(d, m) /\ Mirrors(d, m) => Mirrors(d, n)
<1>0. d \in Tables /\ m \in Maps
  BY SoundIs
<1>1. /\ n \in Maps /\ n.tracked = {s \in Sits : Live(d, s) /\ d.rows[s] # {}}
      /\ \A s \in Sits, a \in Alarms : n.members[s][a] = IF Live(d, s) /\ a \in d.rows[s] THEN 1 ELSE 0
      /\ \A a \in Alarms :
            LET holding == {s \in Sits : Live(d, s) /\ a \in d.rows[s]}
            IN  IF holding = {} THEN n.sitOf[a] = 0
                ELSE n.sitOf[a] \in holding /\ \A s \in holding : s <= n.sitOf[a]
  BY <1>0, ReloadedIs
<1>2. ASSUME NEW a \in Alarms
      PROVE  /\ n.sitOf[a] = 0 \/ (n.sitOf[a] \in Sits /\ Live(d, n.sitOf[a]) /\ a \in d.rows[n.sitOf[a]])
             /\ (\E s \in Sits : Live(d, s) /\ a \in d.rows[s]) => n.sitOf[a] # 0
  <2> DEFINE holding == {s \in Sits : Live(d, s) /\ a \in d.rows[s]}
  <2>1. IF holding = {} THEN n.sitOf[a] = 0 ELSE n.sitOf[a] \in holding
    BY <1>1
  <2>2. \A s : s \in holding <=> s \in Sits /\ Live(d, s) /\ a \in d.rows[s]
    OBVIOUS
  <2>3. 0 \notin Sits
    BY SitIds
  <2> HIDE DEF holding
  <2> QED
    BY <2>1, <2>2, <2>3
<1>3. \A s \in Sits : Live(d, s) => s \in Nat /\ 1 <= s /\ s <= d.seq
  <2> TAKE s \in Sits
  <2>1. Live(d, s) => d.status[s] # "none"
    BY DEF Live, LIVE
  <2>2. s \in Nat /\ 1 <= s /\ (d.status[s] # "none" => ~(s > d.seq))
    BY SoundIs, SitIds
  <2> QED
    BY <2>1, <2>2, SoundIs
<1>4. Lists(n, d.seq)
  <2>1. n.tracked \subseteq 1 .. d.seq
    BY <1>1, <1>3, SoundIs
  <2>2. \A a \in Alarms : n.sitOf[a] <= d.seq
    BY <1>2, <1>3, SoundIs
  <2>3. ASSUME NEW s \in Sits, s \notin n.tracked PROVE n.members[s] = Empty
    <3>1. \A a \in Alarms : n.members[s][a] = 0
      BY <1>1, <2>3
    <3>2. n.members[s] \in [Alarms -> Nat]
      BY <1>1, MapFields
    <3> QED
      BY <3>1, <3>2, EmptyIs
  <2> QED
    BY <1>1, <2>1, <2>2, <2>3 DEF Lists
<1>5. NoneOver(d, n)
  BY <1>1 DEF NoneOver, Live, LIVE
<1>6. ASSUME Kept(d, m) PROVE Kept(d, n) /\ n.tracked = {s \in Sits : Live(d, s)}
  <2>1. n.tracked = {s \in Sits : Live(d, s)}
    BY <1>1, <1>6 DEF Kept, Tracks, Follows
  <2>2. \A s \in n.tracked : Held(n, s) \subseteq d.rows[s]
    BY <1>1 DEF Held
  <2> QED
    BY <1>1, <1>6, <2>1, <2>2 DEF Kept, Tracks, Follows
<1>7. ASSUME Kept(d, m), Mirrors(d, m) PROVE Mirrors(d, n)
  <2>1. \A s \in n.tracked, a \in Alarms : n.members[s][a] = IF a \in d.rows[s] THEN 1 ELSE 0
    BY <1>1
  <2>2. ASSUME NEW a \in Alarms, NEW s \in Sits PROVE Live(d, s) /\ a \in d.rows[s] <=> n.sitOf[a] = s
    <3>1. \A t \in Sits : Live(d, t) /\ a \in d.rows[t] <=> m.sitOf[a] = t
      BY <1>7 DEF Mirrors
    <3>2. 0 \notin Sits
      BY SitIds
    <3> QED
      BY <1>2, <3>1, <3>2
  <2> QED
    BY <1>6, <1>7, <2>1, <2>2 DEF Mirrors
<1> QED
  BY <1>0, <1>4, <1>5, <1>6, <1>7, SoundIs DEF Sound

LEMMA ClearedKeeps ==
    ASSUME NEW d, NEW m, Sound(d, m), NEW s \in 0 .. MaxSit, NEW r, r = ClearedUnder(d, m, s),
           NEW e, e = r.db, NEW n, n = r.mem
    PROVE  /\ Sound(e, n) /\ NoneOver(d, n) /\ e.seq = d.seq
           /\ Kept(d, m) => Kept(e, n)
           /\ Mirrors(d, m) => Mirrors(e, n)
<1>1. CASE s # 0 /\ AllCleared(d, s)
  <2>1. e = Resolved(d, {s}) /\ n = Forget(m, {s})
    BY <1>1 DEF ClearedUnder
  <2>2. {s} \in SUBSET Sits /\ d \in Tables
    BY <1>1, SitIds, SoundIs
  <2>3. e.seq = d.seq
    BY <2>1, <2>2, ResolvedIs
  <2> QED
    BY <2>1, <2>2, <2>3, ForgetKeeps
<1>2. CASE ~(s # 0 /\ AllCleared(d, s))
  <2>1. e = d /\ n = m
    BY <1>2 DEF ClearedUnder
  <2> QED
    BY <2>1 DEF Sound
<1> QED
  BY <1>1, <1>2

LEMMA OnlyActive ==
    ASSUME NEW d, NEW m, Sound(d, m), NEW off, NEW e, e = [d EXCEPT !.active = @ \ off]
    PROVE  /\ Sound(e, m) /\ e.active = d.active \ off
           /\ e.seq = d.seq /\ e.status = d.status /\ e.into = d.into /\ e.rows = d.rows
           /\ Kept(d, m) => Kept(e, m)
           /\ Mirrors(d, m) => Mirrors(e, m)
<1>1. d \in Tables /\ d.active \ off \in SUBSET Alarms
  BY SoundIs, TableFields
<1>2. e = [d EXCEPT !.active = d.active \ off]
  BY <1>1 DEF Tables
<1>3. /\ e \in Tables /\ e.active = d.active \ off
      /\ e.seq = d.seq /\ e.status = d.status /\ e.into = d.into /\ e.rows = d.rows
  BY <1>1, <1>2, ActiveIs
<1> QED
  BY <1>3, SameTables

-----------------------------------------------------------------------------
(* The mishaps, and what a step has to show of the pair it leaves *)

LEMMA CountsAre ==
    ASSUME suffered \in [MishapClasses -> 0 .. MaxMishaps]
    PROVE  /\ Total \in Nat /\ \A c \in MishapClasses : suffered[c] \in Nat /\ suffered[c] <= Total
           /\ Total = 0 => ~Suffered("gesture")
BY SituationConstants DEF Total, Suffered, MishapClasses

LEMMA SufferIs ==
    ASSUME suffered \in [MishapClasses -> 0 .. MaxMishaps], NEW c \in MishapClasses, Suffer(c)
    PROVE  /\ suffered' \in [MishapClasses -> 0 .. MaxMishaps]
           /\ Total' # 0 /\ suffered'[c] > 0
           /\ \A b \in MishapClasses : b # c => suffered'[b] = suffered[b]
           /\ \A b \in MishapClasses : suffered'[b] # 0 => suffered[b] # 0 \/ b \in Mishaps
<1>1. MaxMishaps \in Nat /\ suffered' = [suffered EXCEPT ![c] = suffered[c] + 1] /\ Total < MaxMishaps /\ c \in Mishaps
  BY SituationConstants DEF Suffer
<1>2. suffered[c] \in Nat /\ suffered[c] <= Total /\ Total \in Nat
  BY CountsAre
<1>3. suffered[c] + 1 \in 0 .. MaxMishaps /\ suffered[c] + 1 > 0
  BY <1>1, <1>2
<1>4. /\ suffered' \in [MishapClasses -> 0 .. MaxMishaps] /\ suffered'[c] > 0
      /\ \A b \in MishapClasses : b # c => suffered'[b] = suffered[b]
  BY <1>1, <1>3
<1>5. Total' # 0
  <2>1. suffered'["gesture"] \in Nat /\ suffered'["surface"] \in Nat /\ suffered'["join"] \in Nat
    BY <1>4, SituationConstants DEF MishapClasses
  <2>2. suffered'["gesture"] > 0 \/ suffered'["surface"] > 0 \/ suffered'["join"] > 0
    BY <1>4 DEF MishapClasses
  <2>3. Total' = suffered'["gesture"] + suffered'["surface"] + suffered'["join"]
    BY DEF Total
  <2> QED
    BY <2>1, <2>2, <2>3
<1> QED
  BY <1>1, <1>4, <1>5

LEMMA QuietStep ==
    ASSUME SitInv, asked' \in Asks, UNCHANGED suffered, Sound(db', mem'),
           Kept(db, mem) => Kept(db', mem'),
           Kept(db, mem) /\ Mirrors(db, mem) => Mirrors(db', mem')
    PROVE  SitInv'
<1>1. suffered \in [MishapClasses -> 0 .. MaxMishaps] /\ (~Suffered("gesture") => Kept(db, mem))
      /\ (Total = 0 => Mirrors(db, mem))
  BY DEF SitInv
<1>2. Total' = Total /\ (Suffered("gesture") <=> Suffered("gesture")')
  BY DEF Total, Suffered
<1>3. Total = 0 => ~Suffered("gesture")
  BY <1>1, CountsAre
<1> QED
  BY <1>1, <1>2, <1>3 DEF SitInv

(* A step that may put an alarm in a second situation.                     *)
LEMMA TwiceStep ==
    ASSUME SitInv, asked' \in Asks, NEW c \in {"surface", "join"}, NEW happens \in BOOLEAN,
           SufferIf(c, happens), Sound(db', mem'),
           Kept(db, mem) => Kept(db', mem'),
           Kept(db, mem) /\ Mirrors(db, mem) /\ ~happens => Mirrors(db', mem')
    PROVE  SitInv'
<1>1. CASE ~happens
  BY <1>1, QuietStep DEF SufferIf
<1>2. CASE happens
  <2>1. Suffer(c) /\ c \in MishapClasses /\ "gesture" \in MishapClasses /\ c # "gesture"
    BY <1>2 DEF SufferIf, MishapClasses
  <2>2. suffered \in [MishapClasses -> 0 .. MaxMishaps] /\ (~Suffered("gesture") => Kept(db, mem))
    BY DEF SitInv
  <2>3. /\ suffered' \in [MishapClasses -> 0 .. MaxMishaps] /\ Total' # 0
        /\ suffered'["gesture"] = suffered["gesture"]
        /\ \A b \in MishapClasses : suffered'[b] # 0 => suffered[b] # 0 \/ b \in Mishaps
    BY <2>1, <2>2, SufferIs
  <2>4. Suffered("gesture") <=> Suffered("gesture")'
    BY <2>3 DEF Suffered
  <2> QED
    BY <2>2, <2>3, <2>4 DEF SitInv
<1> QED
  BY <1>1, <1>2

(* A gesture that is rolled back.                                          *)
LEMMA GestureStep ==
    ASSUME SitInv, asked' \in Asks, Suffer("gesture"), Sound(db', mem')
    PROVE  SitInv'
<1>1. suffered \in [MishapClasses -> 0 .. MaxMishaps] /\ "gesture" \in MishapClasses
  BY DEF SitInv, MishapClasses
<1>2. /\ suffered' \in [MishapClasses -> 0 .. MaxMishaps] /\ Total' # 0 /\ suffered'["gesture"] > 0
      /\ \A b \in MishapClasses : suffered'[b] # 0 => suffered[b] # 0 \/ b \in Mishaps
  BY <1>1, SufferIs
<1>3. Suffered("gesture")'
  BY <1>2 DEF Suffered
<1> QED
  BY <1>2, <1>3 DEF SitInv

LEMMA TxnStep ==
    ASSUME SitInv, asked' \in Asks, NEW d, NEW m, Txn(d, m), Sound(d, m), NoneOver(db, m), db.seq <= d.seq,
           Kept(db, mem) => Kept(d, m),
           Kept(db, mem) /\ Mirrors(db, mem) => Mirrors(d, m)
    PROVE  SitInv'
<1>1. CASE db' = d /\ mem' = m /\ UNCHANGED suffered
  BY <1>1, QuietStep
<1>2. CASE db' = [db EXCEPT !.seq = d.seq] /\ mem' = m /\ Suffer("gesture")
  <2>1. Sound(db, mem) /\ Lists(m, d.seq) /\ d.seq \in 0 .. MaxSit
    BY SoundIs, TableFields DEF SitInv, Sound
  <2>2. Sound(db', mem')
    BY <1>2, <2>1, RolledBack
  <2> QED
    BY <1>2, <2>2, GestureStep
<1> QED
  BY <1>1, <1>2 DEF Txn

LEMMA Tabled == SitInv => db \in Tables /\ mem \in Maps /\ Sound(db, mem) /\ asked \in Asks
BY SoundIs DEF SitInv

LEMMA NobodyAsks == Nobody \in Asks
BY SituationConstants DEF Nobody, Asks

-----------------------------------------------------------------------------
(* The steps, but for the raise of an alarm *)

LEMMA InitHolds == Init => SitInv
<1> SUFFICES ASSUME Init PROVE SitInv
  OBVIOUS
<1>1. /\ db.seq = 0 /\ db.status = [s \in Sits |-> "none"] /\ db.into = [s \in Sits |-> 0]
      /\ db.rows = [s \in Sits |-> {}] /\ db \in Tables
  BY SitIds DEF Init, Tables
<1>2. /\ mem.tracked = {} /\ mem.members = [s \in Sits |-> Empty] /\ mem.sitOf = [a \in Alarms |-> 0]
      /\ mem \in Maps
  BY SitIds, EmptyIs DEF Init, Maps
<1>3. Sound(db, mem)
  BY <1>1, <1>2 DEF Sound, Rows, Lists, NoneOver
<1>4. \A s \in Sits : ~Live(db, s)
  BY <1>1 DEF Live, LIVE
<1>5. Kept(db, mem)
  BY <1>1, <1>2, <1>4 DEF Kept, Tracks, Follows, Single
<1>6. Mirrors(db, mem)
  BY ZenonT(60), <1>1, <1>2, <1>4, SitIds DEF Mirrors
<1>7. suffered \in [MishapClasses -> 0 .. MaxMishaps] /\ \A c \in MishapClasses : suffered[c] = 0
  BY SituationConstants DEF Init
<1>8. asked \in Asks
  BY NobodyAsks DEF Init
<1> QED
  BY <1>3, <1>5, <1>6, <1>7, <1>8 DEF SitInv

LEMMA ClearTrapKeeps == ASSUME SitInv, NEW a \in Alarms, ClearTrap(a) PROVE SitInv'
<1>1. /\ Sound(db', mem) /\ (Kept(db, mem) => Kept(db', mem)) /\ (Mirrors(db, mem) => Mirrors(db', mem))
  <2>0. PICK off : off = {a}
    OBVIOUS
  <2>1. PICK e : e = [db EXCEPT !.active = @ \ off]
    OBVIOUS
  <2>2. db' = e
    BY <2>0, <2>1 DEF ClearTrap
  <2>3. Sound(e, mem) /\ (Kept(db, mem) => Kept(e, mem)) /\ (Mirrors(db, mem) => Mirrors(e, mem))
    BY <2>1, Tabled, OnlyActive
  <2> QED
    BY <2>2, <2>3
<1>2. mem' = mem /\ asked' = asked /\ UNCHANGED suffered
  BY DEF ClearTrap
<1> QED
  BY <1>1, <1>2, Tabled, QuietStep

LEMMA BatchFailsKeeps == ASSUME SitInv, BatchFails PROVE SitInv'
<1>1. /\ Sound(db, mem') /\ (Kept(db, mem) => Kept(db, mem'))
      /\ (Kept(db, mem) /\ Mirrors(db, mem) => Mirrors(db, mem'))
  BY Tabled, ReloadKeeps DEF BatchFails
<1>2. db' = db /\ asked' = asked /\ UNCHANGED suffered
  BY DEF BatchFails
<1> QED
  BY <1>1, <1>2, Tabled, QuietStep

LEMMA RestartKeeps == ASSUME SitInv, Restart PROVE SitInv'
<1>1. PICK m : m = Reloaded(db, mem)
  OBVIOUS
<1>2. /\ Sound(db, m) /\ (Kept(db, mem) => Kept(db, m)) /\ (Kept(db, mem) /\ Mirrors(db, mem) => Mirrors(db, m))
  BY <1>1, Tabled, ReloadKeeps
<1>3. mem' = [m EXCEPT !.rejected = db.rejected] /\ m \in Maps /\ db.rejected \subseteq Sits \X Sits
  BY <1>1, <1>2, SoundIs, Tabled, TableFields DEF Restart
<1>4. mem' \in Maps /\ mem'.tracked = m.tracked /\ mem'.members = m.members /\ mem'.sitOf = m.sitOf
  BY <1>3 DEF Maps
<1>5. /\ Sound(db, mem') /\ (Kept(db, mem) => Kept(db, mem')) /\ (Kept(db, mem) /\ Mirrors(db, mem) => Mirrors(db, mem'))
  BY <1>2, <1>4, SameMaps
<1>6. db' = db /\ asked' \in Asks /\ UNCHANGED suffered
  BY NobodyAsks DEF Restart
<1> QED
  BY <1>5, <1>6, QuietStep

(* What each part of the pass leaves, in the order they run.               *)
Pass(ended, closing, faults, pruned, d1, d2, d3, d4) ==
    /\ d1 \in Tables /\ d1.active = db.active \ ended /\ d1.status = db.status /\ d1.rows = db.rows
    /\ d2 \in Tables /\ d2.active = d1.active /\ d2.rows = db.rows
    /\ \A s \in Sits : d2.status[s] = IF s \in closing /\ Live(d1, s) THEN "resolved" ELSE db.status[s]
    /\ d3 \in Tables /\ d3.active = d1.active /\ d3.rows = db.rows
    /\ \A s \in Sits : Live(d3, s) <=> Live(d2, s)
    /\ \A s \in Sits : d3.status[s] = d2.status[s] \/ (d2.status[s] = "pending" /\ d3.status[s] = "new")
    /\ d4.active = d3.active \cup faults
    /\ \A s \in Sits : d3.status[s] # "none" => d4.status[s] = d3.status[s] /\ d4.rows[s] = d3.rows[s]
    /\ \A b \in faults : Visible(d4, b)
    /\ db'.status = d4.status /\ db'.active = d4.active
    /\ \A s \in Sits : db'.rows[s] = IF s \in pruned THEN {} ELSE d4.rows[s]

LEMMA PassIs ==
    ASSUME SitInv, NEW ended, NEW closing \in SUBSET Sits, NEW faults \in SUBSET Alarms,
           NEW pruned \in SUBSET {s \in Sits : db.status[s] = "resolved"},
           Maintenance(ended, closing, faults, pruned)
    PROVE  \E d1, d2, d3, d4 :
              /\ Pass(ended, closing, faults, pruned, d1, d2, d3, d4)
              /\ SufferIf("surface", ShownTwice(d3, faults))
              /\ Sound(db', mem')
              /\ Kept(db, mem) => Kept(db', mem')
              /\ Mirrors(db, mem) /\ ~ShownTwice(d3, faults) => Mirrors(db', mem')
<1>1. PICK d1 : d1 = [db EXCEPT !.active = @ \ ended]
  OBVIOUS
<1>2. /\ Sound(d1, mem) /\ d1.active = db.active \ ended
      /\ d1.status = db.status /\ d1.into = db.into /\ d1.rows = db.rows
      /\ (Kept(db, mem) => Kept(d1, mem)) /\ (Mirrors(db, mem) => Mirrors(d1, mem))
  BY <1>1, Tabled, OnlyActive
<1>3. PICK d2, m2 : d2 = Resolved(d1, closing) /\ m2 = Forget(mem, closing)
  OBVIOUS
<1>4. d1 \in Tables
  BY <1>2, SoundIs
<1>5. /\ d2 \in Tables /\ d2.active = d1.active /\ d2.rows = db.rows
      /\ \A s \in Sits : d2.status[s] = IF s \in closing /\ Live(d1, s) THEN "resolved" ELSE db.status[s]
  BY <1>2, <1>3, <1>4, ResolvedIs
<1>6. /\ Sound(d2, m2) /\ (Kept(db, mem) => Kept(d2, m2)) /\ (Mirrors(db, mem) => Mirrors(d2, m2))
  BY <1>2, <1>3, ForgetKeeps
<1>7. PICK d3 : d3 = Lapsed(d2)
  OBVIOUS
<1>8. /\ d3 \in Tables /\ d3.active = d1.active /\ d3.rows = db.rows
      /\ \A s \in Sits : d3.status[s] = d2.status[s] \/ (d2.status[s] = "pending" /\ d3.status[s] = "new")
  BY <1>5, <1>7, LapsedIs
<1>9. /\ Sound(d3, m2) /\ (Kept(db, mem) => Kept(d3, m2)) /\ (Mirrors(db, mem) => Mirrors(d3, m2))
      /\ \A s \in Sits : Live(d3, s) <=> Live(d2, s)
  BY <1>6, <1>7, LapsedKeeps
<1>10. PICK r : r = Surfaced(d3, m2, faults)
  OBVIOUS
<1>11. PICK d4, m4 : d4 = r.db /\ m4 = r.mem
  OBVIOUS
<1>12. /\ Surfaces(d3, faults)
       /\ db' = [d4 EXCEPT !.rows = [s \in Sits |-> IF s \in pruned THEN {} ELSE @[s]]]
       /\ mem' = m4
       /\ SufferIf("surface", ShownTwice(d3, faults))
  BY <1>1, <1>3, <1>7, <1>10, <1>11 DEF Maintenance
<1>13. /\ Sound(d4, m4) /\ d4.active = d3.active \cup faults
       /\ \A s \in Sits : d3.status[s] # "none" => d4.status[s] = d3.status[s] /\ d4.rows[s] = d3.rows[s]
       /\ (Kept(d3, m2) => Kept(d4, m4))
       /\ (Mirrors(d3, m2) /\ ~ShownTwice(d3, faults) => Mirrors(d4, m4))
  BY <1>9, <1>10, <1>11, <1>12, SurfacedKeeps
<1>14. pruned \in SUBSET Sits /\ \A s \in pruned : d4.status[s] = "resolved"
  <2>1. \A s \in pruned : s \in Sits /\ db.status[s] = "resolved"
    OBVIOUS
  <2>2. \A s \in pruned : d2.status[s] = "resolved"
    BY <1>5, <2>1
  <2>3. \A s \in pruned : d3.status[s] = "resolved"
    BY <1>8, <2>1, <2>2
  <2> QED
    BY <1>13, <2>1, <2>3
<1>15. /\ Sound(db', mem') /\ db'.status = d4.status /\ db'.active = d4.active
       /\ \A s \in Sits : db'.rows[s] = IF s \in pruned THEN {} ELSE d4.rows[s]
       /\ (Kept(d4, m4) => Kept(db', mem')) /\ (Mirrors(d4, m4) => Mirrors(db', mem'))
  BY <1>12, <1>13, <1>14, PrunedKeeps
<1>s. \A b \in faults : Visible(d4, b)
  BY <1>9, <1>10, <1>11, <1>12, SurfacedShows
<1>16. Pass(ended, closing, faults, pruned, d1, d2, d3, d4)
  BY <1>2, <1>4, <1>5, <1>8, <1>9, <1>13, <1>15, <1>s DEF Pass
<1>17. (Kept(db, mem) => Kept(db', mem')) /\ (Mirrors(db, mem) /\ ~ShownTwice(d3, faults) => Mirrors(db', mem'))
  BY <1>6, <1>9, <1>13, <1>15
<1> QED
  BY <1>12, <1>15, <1>16, <1>17, Zenon

LEMMA SweepIs ==
    ASSUME SitInv, Sweep
    PROVE  \E ended, closing, faults, pruned, d1, d2, d3, d4 :
              /\ \A s \in closing : db.rows[s] \cap (db.active \ ended) = {}
              /\ pruned \subseteq {s \in Sits : db.status[s] = "resolved"}
              /\ Pass(ended, closing, faults, pruned, d1, d2, d3, d4)
              /\ SufferIf("surface", ShownTwice(d3, faults)) /\ asked' = asked
              /\ Sound(db', mem')
              /\ Kept(db, mem) => Kept(db', mem')
              /\ Mirrors(db, mem) /\ ~ShownTwice(d3, faults) => Mirrors(db', mem')
<1>1. PICK ended \in SUBSET (db.active \cap NoClear) :
         LET d == [db EXCEPT !.active = @ \ ended]
         IN  \E closing \in SUBSET Quiet(d), faults \in SUBSET (Windowed \ d.active),
                pruned \in SUBSET {s \in Sits : db.status[s] = "resolved" /\ db.rows[s] # {}} :
                    Maintenance(ended, closing, faults, pruned)
  BY DEF Sweep
<1>2. PICK d : d = [db EXCEPT !.active = @ \ ended]
  OBVIOUS
<1>3. PICK closing \in SUBSET Quiet(d), faults \in SUBSET (Windowed \ d.active),
           pruned \in SUBSET {s \in Sits : db.status[s] = "resolved" /\ db.rows[s] # {}} :
               Maintenance(ended, closing, faults, pruned)
  BY <1>1, <1>2
<1>4. closing \in SUBSET Sits /\ faults \in SUBSET Alarms /\ pruned \in SUBSET {s \in Sits : db.status[s] = "resolved"}
  BY SituationConstants DEF Quiet
<1>5. PICK d1, d2, d3, d4 :
         /\ Pass(ended, closing, faults, pruned, d1, d2, d3, d4)
         /\ SufferIf("surface", ShownTwice(d3, faults)) /\ Sound(db', mem')
         /\ (Kept(db, mem) => Kept(db', mem')) /\ (Mirrors(db, mem) /\ ~ShownTwice(d3, faults) => Mirrors(db', mem'))
  BY <1>3, <1>4, PassIs, Zenon
<1>6. asked' = asked
  BY <1>3 DEF Maintenance
<1>7. d.active = db.active \ ended /\ d.rows = db.rows
  BY <1>2, Tabled DEF Tables
<1>8. \A s \in closing : db.rows[s] \cap (db.active \ ended) = {}
  BY <1>7 DEF Quiet, Burning
<1>9. pruned \subseteq {s \in Sits : db.status[s] = "resolved"}
  BY <1>4
<1> QED
  BY <1>5, <1>6, <1>8, <1>9, Zenon

LEMMA SweepKeeps == ASSUME SitInv, Sweep PROVE SitInv'
<1>1. PICK ended, closing, faults, pruned, d1, d2, d3, d4 :
         /\ \A s \in closing : db.rows[s] \cap (db.active \ ended) = {}
         /\ pruned \subseteq {s \in Sits : db.status[s] = "resolved"}
         /\ Pass(ended, closing, faults, pruned, d1, d2, d3, d4)
         /\ SufferIf("surface", ShownTwice(d3, faults)) /\ asked' = asked
         /\ Sound(db', mem')
         /\ Kept(db, mem) => Kept(db', mem')
         /\ Mirrors(db, mem) /\ ~ShownTwice(d3, faults) => Mirrors(db', mem')
  BY SweepIs, Zenon
<1>2. ShownTwice(d3, faults) \in BOOLEAN
  BY DEF ShownTwice
<1> QED
  BY <1>1, <1>2, Tabled, TwiceStep

LEMMA PromoteStepKeeps ==
    ASSUME SitInv, NEW s \in Sits, db' = Promoted(db, s), UNCHANGED <<mem, asked, suffered>> PROVE SitInv'
<1>1. /\ Sound(db', mem) /\ (Kept(db, mem) => Kept(db', mem)) /\ (Mirrors(db, mem) => Mirrors(db', mem))
  BY Tabled, PromotedKeeps
<1> QED
  BY <1>1, Tabled, QuietStep

LEMMA AutonomyClosesKeeps == ASSUME SitInv, NEW s \in Sits, AutonomyCloses(s) PROVE SitInv'
<1>0. PICK off : off = db.rows[s]
  OBVIOUS
<1>1. PICK d : d = [db EXCEPT !.active = @ \ off]
  OBVIOUS
<1>2. /\ Sound(d, mem) /\ d.seq = db.seq /\ d.status = db.status
      /\ (Kept(db, mem) => Kept(d, mem)) /\ (Mirrors(db, mem) => Mirrors(d, mem))
  BY <1>1, Tabled, OnlyActive
<1>3. PICK r : r = ClearedUnder(d, mem, s)
  OBVIOUS
<1>4. PICK e, n : e = r.db /\ n = r.mem
  OBVIOUS
<1>5. /\ Sound(e, n) /\ NoneOver(d, n) /\ e.seq = d.seq
      /\ (Kept(d, mem) => Kept(e, n)) /\ (Mirrors(d, mem) => Mirrors(e, n))
  <2>1. s \in 0 .. MaxSit
    BY SitIds DEF Sits
  <2> QED
    BY <1>2, <1>3, <1>4, <2>1, ClearedKeeps
<1>6. Txn(e, n) /\ asked' = asked
  BY <1>0, <1>1, <1>3, <1>4 DEF AutonomyCloses
<1>7. NoneOver(db, n) /\ db.seq <= e.seq
  BY <1>2, <1>5, Tabled, TableFields DEF NoneOver
<1> QED
  BY <1>2, <1>5, <1>6, <1>7, Tabled, TxnStep

LEMMA CloseKeeps == ASSUME SitInv, NEW s \in Sits, Close(s) PROVE SitInv'
<1>0. PICK gone : gone = {s}
  OBVIOUS
<1>1. db' = Resolved(db, gone) /\ mem' = Forget(mem, gone) /\ asked' = asked /\ UNCHANGED suffered
  BY <1>0 DEF Close
<1>2. PICK e, n : e = db' /\ n = mem'
  OBVIOUS
<1>3. /\ Sound(e, n) /\ (Kept(db, mem) => Kept(e, n)) /\ (Mirrors(db, mem) => Mirrors(e, n))
  <2>1. gone \in SUBSET Sits
    BY <1>0
  <2> QED
    BY <1>1, <1>2, <2>1, Tabled, ForgetKeeps
<1> QED
  BY <1>1, <1>2, <1>3, Tabled, QuietStep

(* A gesture confirms its situation last; it might as well have been done  *)
(* first.                                                                  *)
LEMMA PromotedLate ==
    ASSUME NEW d \in Tables, NEW s \in Sits, NEW rows \in [Sits -> SUBSET Alarms],
           NEW e, e = Promoted([d EXCEPT !.rows = rows], s), NEW c, c = Promoted(d, s)
    PROVE  /\ e \in Tables /\ e.rows = rows
           /\ e.seq = c.seq /\ e.status = c.status /\ e.into = c.into /\ e.active = d.active
<1>1. PICK f : f = [d EXCEPT !.rows = rows]
  OBVIOUS
<1>2. /\ f \in Tables /\ f.rows = rows /\ f.seq = d.seq /\ f.status = d.status /\ f.into = d.into
      /\ f.active = d.active
  BY <1>1, RowsAre
<1>3. e = Promoted(f, s)
  BY <1>1
<1>4. /\ e \in Tables /\ e.seq = f.seq /\ e.rows = f.rows /\ e.active = f.active
      /\ \A t \in Sits : /\ e.status[t] = IF t = s /\ f.status[s] \in {"new", "pending"}
                                          THEN "open" ELSE f.status[t]
                         /\ e.into[t] = IF t = s /\ f.status[s] \in {"new", "pending"}
                                        THEN 0 ELSE f.into[t]
  <2>1. f \in Tables /\ s \in Sits
    BY <1>2
  <2> QED
    BY ONLY <2>1, <1>3, PromotedIs
<1>5. /\ c \in Tables /\ c.seq = d.seq
      /\ \A t \in Sits : /\ c.status[t] = IF t = s /\ d.status[s] \in {"new", "pending"}
                                          THEN "open" ELSE d.status[t]
                         /\ c.into[t] = IF t = s /\ d.status[s] \in {"new", "pending"}
                                        THEN 0 ELSE d.into[t]
  BY PromotedIs
<1>6. \A t \in Sits : e.status[t] = c.status[t] /\ e.into[t] = c.into[t]
  BY <1>2, <1>4, <1>5
<1>7. /\ e.status \in [Sits -> LIVE \cup {"none", "resolved"}] /\ e.into \in [Sits -> 0 .. MaxSit]
      /\ c.status \in [Sits -> LIVE \cup {"none", "resolved"}] /\ c.into \in [Sits -> 0 .. MaxSit]
  BY <1>4, <1>5, TableFields
<1>8. e.status = c.status /\ e.into = c.into
  BY <1>6, <1>7
<1> QED
  BY <1>2, <1>4, <1>5, <1>8

LEMMA MoveIs ==
    ASSUME SitInv, NEW s \in Sits, NEW t \in Sits, NEW moving \in SUBSET Alarms, Move(s, t, moving)
    PROVE  Txn(Promoted([db EXCEPT !.rows = MovedRows(db.rows, s, t, moving)], s), MemMoved(mem, s, t, moving))
<1>1. PICK rows, f : rows = MovedRows(db.rows, s, t, moving) /\ f = db.rows
  OBVIOUS
<1>2. f \in [Sits -> SUBSET Alarms] /\ s # t /\ db \in Tables
  BY <1>1, Tabled, TableFields DEF Move
<1>3. rows = [x \in Sits |-> IF x = s THEN f[s] \ moving ELSE IF x = t THEN f[t] \cup moving ELSE f[x]]
  BY <1>1 DEF MovedRows
<1>4. rows = [[f EXCEPT ![s] = @ \ moving] EXCEPT ![t] = @ \cup moving]
  BY ONLY <1>2, <1>3, s \in Sits, t \in Sits
<1>5. [db EXCEPT !.rows[s] = @ \ moving, !.rows[t] = @ \cup moving] = [db EXCEPT !.rows = rows]
  BY <1>1, <1>2, <1>4 DEF Tables
<1> QED
  BY <1>1, <1>5 DEF Move

LEMMA MoveStepKeeps ==
    ASSUME SitInv, NEW s \in Sits, NEW t \in Sits, NEW moving \in SUBSET Alarms, Move(s, t, moving) PROVE SitInv'
<1>1. /\ s # t /\ Live(db, s) /\ Live(db, t)
      /\ moving \subseteq db.rows[s] /\ moving # db.rows[s] /\ asked' = asked
  BY DEF Move
<1>2. PICK rows : rows = MovedRows(db.rows, s, t, moving)
  OBVIOUS
<1>3. rows \in [Sits -> SUBSET Alarms] /\ db \in Tables
  BY <1>2, Tabled, TableFields DEF MovedRows
<1>4. PICK e, c, n : /\ e = Promoted([db EXCEPT !.rows = rows], s) /\ c = Promoted(db, s)
                     /\ n = MemMoved(mem, s, t, moving)
  OBVIOUS
<1>5. Txn(e, n)
  BY <1>2, <1>4, MoveIs
<1>6. /\ Sound(c, mem) /\ (\A x \in Sits : Live(c, x) <=> Live(db, x))
      /\ (Kept(db, mem) => Kept(c, mem)) /\ (Mirrors(db, mem) => Mirrors(c, mem))
  BY <1>4, Tabled, PromotedKeeps
<1>7. /\ e \in Tables /\ e.rows = rows /\ e.seq = c.seq /\ e.status = c.status /\ e.into = c.into
  BY <1>3, <1>4, PromotedLate
<1>8. /\ c.rows = db.rows /\ c.seq = db.seq
      /\ \A x \in Sits : c.status[x] = IF x = s /\ db.status[s] \in {"new", "pending"} THEN "open" ELSE db.status[x]
  BY SMTT(60), <1>3, <1>4, PromotedIs
<1>9. c.status[s] = "open"
  BY <1>1, <1>8 DEF Live, LIVE
<1>10. /\ Sound(e, n) /\ NoneOver(c, n) /\ (Kept(c, mem) => Kept(e, n)) /\ (Mirrors(c, mem) => Mirrors(e, n))
  <2>1. e.rows = MovedRows(c.rows, s, t, moving)
    BY <1>2, <1>7, <1>8
  <2>2. Live(c, s) /\ Live(c, t) /\ moving \subseteq c.rows[s] /\ moving # c.rows[s]
    BY <1>1, <1>6, <1>8
  <2> QED
    <3>1. Sound(c, mem) /\ s \in Sits /\ t \in Sits /\ s # t /\ moving \in SUBSET Alarms
      BY <1>1, <1>6
    <3>2. e \in Tables /\ e.seq = c.seq /\ e.status = c.status /\ e.into = c.into /\ n = MemMoved(mem, s, t, moving)
      BY <1>4, <1>7
    <3> QED
      BY ONLY <1>9, <2>1, <2>2, <3>1, <3>2, MoveKeeps
<1>11. NoneOver(db, n)
  <2>1. n \in Maps
    BY <1>10, SoundIs
  <2>2. \A x \in Sits : c.status[x] # "resolved" => db.status[x] # "resolved"
    BY <1>8
  <2> QED
    BY <1>10, <2>1, <2>2, MapFields DEF NoneOver
<1>12. db.seq <= e.seq
  BY <1>3, <1>7, <1>8, TableFields
<1> QED
  BY <1>1, <1>5, <1>6, <1>10, <1>11, <1>12, Tabled, TxnStep

LEMMA MergedLate ==
    ASSUME NEW d \in Tables, NEW s \in Sits, NEW srcs \in SUBSET (Sits \ {s}),
           NEW e, e = Promoted(DbMerged(d, s, srcs), s), NEW f, f = DbMerged(Promoted(d, s), s, srcs)
    PROVE  /\ e \in Tables /\ f \in Tables /\ e.active = d.active
           /\ e.seq = f.seq /\ e.status = f.status /\ e.into = f.into /\ e.rows = f.rows
<1>1. PICK g, c : g = DbMerged(d, s, srcs) /\ c = Promoted(d, s)
  OBVIOUS
<1>2. /\ g \in Tables /\ g.seq = d.seq /\ g.into = d.into /\ g.active = d.active
      /\ g.rows[s] = UNION {d.rows[x] : x \in srcs \cup {s}}
      /\ \A x \in Sits :
            /\ x # s => g.rows[x] = IF x \in srcs THEN {} ELSE d.rows[x]
            /\ g.status[x] = IF x \in srcs /\ d.status[x] # "none" THEN "resolved" ELSE d.status[x]
  BY <1>1, DbMergedIs
<1>3. /\ c \in Tables /\ c.seq = d.seq /\ c.rows = d.rows
      /\ \A t \in Sits : /\ c.status[t] = IF t = s /\ d.status[s] \in {"new", "pending"}
                                          THEN "open" ELSE d.status[t]
                         /\ c.into[t] = IF t = s /\ d.status[s] \in {"new", "pending"}
                                        THEN 0 ELSE d.into[t]
  BY <1>1, PromotedIs
<1>4. e = Promoted(g, s) /\ f = DbMerged(c, s, srcs)
  BY <1>1
<1>5. e \in Tables /\ e.seq = g.seq /\ e.rows = g.rows /\ e.active = g.active
  BY <1>2, <1>4, PromotedIs
<1>6. \A t \in Sits : /\ e.status[t] = IF t = s /\ g.status[s] \in {"new", "pending"}
                                       THEN "open" ELSE g.status[t]
                      /\ e.into[t] = IF t = s /\ g.status[s] \in {"new", "pending"}
                                     THEN 0 ELSE g.into[t]
  <2>1. g \in Tables
    BY <1>2
  <2> QED
    BY ONLY <1>4, <2>1, s \in Sits, PromotedIs
<1>7. /\ f \in Tables /\ f.seq = c.seq /\ f.into = c.into
      /\ f.rows[s] = UNION {c.rows[x] : x \in srcs \cup {s}}
      /\ \A x \in Sits :
            /\ x # s => f.rows[x] = IF x \in srcs THEN {} ELSE c.rows[x]
            /\ f.status[x] = IF x \in srcs /\ c.status[x] # "none" THEN "resolved" ELSE c.status[x]
  <2>1. c \in Tables
    BY <1>3
  <2> QED
    BY ONLY <1>4, <2>1, s \in Sits, srcs \in SUBSET (Sits \ {s}), DbMergedIs
<1>8. s \notin srcs
  OBVIOUS
<1>9. \A t \in Sits : e.status[t] = f.status[t] /\ e.into[t] = f.into[t]
  BY <1>2, <1>3, <1>6, <1>7, <1>8
<1>10. f.rows[s] = g.rows[s] /\ \A t \in Sits : t # s => f.rows[t] = g.rows[t]
  BY <1>2, <1>3, <1>7
<1>11. /\ e.status \in [Sits -> LIVE \cup {"none", "resolved"}] /\ e.into \in [Sits -> 0 .. MaxSit]
       /\ e.rows \in [Sits -> SUBSET Alarms]
  BY <1>5, TableFields
<1>12. /\ f.status \in [Sits -> LIVE \cup {"none", "resolved"}] /\ f.into \in [Sits -> 0 .. MaxSit]
       /\ f.rows \in [Sits -> SUBSET Alarms]
  BY <1>7, TableFields
<1>13. e.status = f.status /\ e.into = f.into
  BY <1>9, <1>11, <1>12
<1>14. e.rows = f.rows
  BY <1>5, <1>10, <1>11, <1>12
<1> QED
  BY <1>2, <1>3, <1>5, <1>7, <1>13, <1>14

LEMMA MergeStepKeeps == ASSUME SitInv, NEW s \in Sits, NEW src \in Sits, Merge(s, src) PROVE SitInv'
<1>1. s # src /\ Live(db, s) /\ Live(db, src) /\ asked' = asked
  BY DEF Merge
<1>2. PICK srcs : srcs = {src}
  OBVIOUS
<1>3. srcs \in SUBSET (Sits \ {s}) /\ db \in Tables
  BY <1>1, <1>2, Tabled
<1>4. PICK c, f, e, n : /\ c = Promoted(db, s) /\ f = DbMerged(c, s, srcs)
                        /\ e = Promoted(DbMerged(db, s, srcs), s) /\ n = MemMerged(mem, s, srcs)
  OBVIOUS
<1>5. Txn(e, n)
  BY <1>2, <1>4 DEF Merge
<1>6. /\ Sound(c, mem) /\ (\A x \in Sits : Live(c, x) <=> Live(db, x))
      /\ (Kept(db, mem) => Kept(c, mem)) /\ (Mirrors(db, mem) => Mirrors(c, mem))
  BY <1>4, Tabled, PromotedKeeps
<1>7. /\ e \in Tables /\ e.seq = f.seq /\ e.status = f.status /\ e.into = f.into /\ e.rows = f.rows
  BY <1>3, <1>4, MergedLate
<1>8. /\ c \in Tables /\ c.seq = db.seq
      /\ \A x \in Sits : c.status[x] = IF x = s /\ db.status[s] \in {"new", "pending"} THEN "open" ELSE db.status[x]
  BY SMTT(60), <1>3, <1>4, PromotedIs
<1>9. c.status[s] = "open" /\ s <= c.seq
  <2>1. c.status[s] = "open"
    BY <1>1, <1>8 DEF Live, LIVE
  <2>2. ~(s > c.seq) /\ s \in Nat /\ c.seq \in Nat
    BY <1>6, <2>1, SoundIs, SitIds
  <2> QED
    BY <2>1, <2>2
<1>10. f.seq = c.seq
  BY <1>3, <1>4, <1>8, DbMergedIs
<1>11. /\ Sound(f, n) /\ NoneOver(c, n)
       /\ (Kept(c, mem) /\ s \in mem.tracked /\ srcs \subseteq mem.tracked => Kept(f, n))
       /\ (Mirrors(c, mem) /\ s \in mem.tracked /\ srcs \subseteq mem.tracked => Mirrors(f, n))
  <2>1. c.status[s] # "resolved" /\ c.status[s] # "none"
    BY <1>9
  <2> QED
    BY ONLY s \in Sits, <1>3, <1>4, <1>6, <1>9, <2>1, MergeKeeps
<1>12. /\ Sound(e, n) /\ (Kept(f, n) => Kept(e, n)) /\ (Mirrors(f, n) => Mirrors(e, n))
  BY <1>7, <1>11, SameTables
<1>13. Kept(db, mem) => s \in mem.tracked /\ srcs \subseteq mem.tracked
  BY <1>1, <1>2 DEF Kept, Tracks, Follows
<1>14. NoneOver(db, n)
  <2>1. n \in Maps
    BY <1>11, SoundIs
  <2>2. \A x \in Sits : c.status[x] # "resolved" => db.status[x] # "resolved"
    BY <1>8
  <2> QED
    BY <1>11, <2>1, <2>2, MapFields DEF NoneOver
<1>15. db.seq <= e.seq
  BY <1>3, <1>7, <1>8, <1>10, TableFields
<1> QED
  BY <1>1, <1>5, <1>6, <1>11, <1>12, <1>13, <1>14, <1>15, Tabled, TxnStep

LEMMA AcceptKeeps == ASSUME SitInv, NEW s \in Sits, Accept(s) PROVE SitInv'
<1>1. db.status[s] = "pending" /\ db.into[s] # 0 /\ db.status[db.into[s]] = "open" /\ asked' = asked
  BY DEF Accept, Answerable
<1>2. PICK t, srcs : t = db.into[s] /\ srcs = {s}
  OBVIOUS
<1>3. t \in Sits /\ t # s /\ srcs \in SUBSET (Sits \ {t}) /\ db \in Tables /\ db.status[t] = "open" /\ srcs \subseteq Sits
  BY <1>1, <1>2, Tabled, TableFields, SitIds
<1>4. PICK e, n : e = DbMerged(db, t, srcs) /\ n = MemMerged(mem, t, srcs)
  OBVIOUS
<1>5. Txn(e, n)
  BY <1>2, <1>4 DEF Accept
<1>6. t <= db.seq
  <2>1. ~(t > db.seq) /\ t \in Nat /\ db.seq \in Nat
    BY <1>3, Tabled, SoundIs, SitIds
  <2> QED
    BY <2>1
<1>7. /\ Sound(e, n) /\ NoneOver(db, n)
      /\ (Kept(db, mem) /\ t \in mem.tracked /\ srcs \subseteq mem.tracked => Kept(e, n))
      /\ (Mirrors(db, mem) /\ t \in mem.tracked /\ srcs \subseteq mem.tracked => Mirrors(e, n))
  <2>1. db.status[t] # "resolved" /\ db.status[t] # "none" /\ Sound(db, mem)
    BY <1>3, Tabled
  <2> QED
    BY ONLY <1>3, <1>4, <1>6, <2>1, MergeKeeps
<1>8. Kept(db, mem) => t \in mem.tracked /\ srcs \subseteq mem.tracked
  BY <1>1, <1>2, <1>3 DEF Kept, Tracks, Follows, Live, LIVE
<1>9. db.seq <= e.seq
  BY <1>3, <1>4, DbMergedIs, TableFields
<1> QED
  BY <1>1, <1>5, <1>7, <1>8, <1>9, Tabled, TxnStep

LEMMA SplitIs ==
    ASSUME SitInv, NEW s \in Sits, NEW departing \in SUBSET Alarms, Split(s, departing), NEW k, k = db.seq + 1
    PROVE  /\ k \in Sits /\ k # s
           /\ Txn(Promoted(Departed(db, s, k, departing), s), MemSplit(mem, s, k, departing))
<1>1. PICK c : c = Created(db, "open")
  OBVIOUS
<1>2. PICK rows, g : rows = SplitRows(db.rows, s, k, departing) /\ g = db.rows
  OBVIOUS
<1>3. k \in Sits /\ c \in Tables /\ c.rows = g /\ g \in [Sits -> SUBSET Alarms]
  <2>1. "open" \in LIVE /\ db \in Tables /\ db.seq < MaxSit
    BY Tabled DEF LIVE, Split
  <2> QED
    BY <1>1, <1>2, <2>1, CreatedIs, TableFields
<1>4. k # s
  <2>1. db.status[s] # "none"
    BY DEF Split, Live, LIVE
  <2>2. k > db.seq
    BY Tabled, TableFields
  <2>3. db.status[k] = "none"
    BY <1>3, <2>2, Tabled, SoundIs
  <2> QED
    BY <2>1, <2>3
<1>5. rows = [x \in Sits |-> IF x = k THEN departing ELSE IF x = s THEN g[s] \ departing ELSE g[x]]
  BY <1>2 DEF SplitRows
<1>6. rows = [[g EXCEPT ![s] = @ \ departing] EXCEPT ![k] = departing]
  BY ONLY <1>3, <1>4, <1>5, s \in Sits
<1>7. [c EXCEPT !.rows[s] = @ \ departing, !.rows[k] = departing] = [c EXCEPT !.rows = rows]
  BY <1>3, <1>4, <1>6 DEF Tables
<1> QED
  BY <1>1, <1>2, <1>3, <1>4, <1>7 DEF Split, Departed

LEMMA SplitStepKeeps ==
    ASSUME SitInv, NEW s \in Sits, NEW departing \in SUBSET Alarms, Split(s, departing) PROVE SitInv'
<1>1. /\ db.seq < MaxSit /\ Live(db, s) /\ departing # {} /\ departing \subseteq db.rows[s]
      /\ departing # db.rows[s] /\ asked' = asked
  BY DEF Split
<1>2. PICK k : k = db.seq + 1
  OBVIOUS
<1>3. PICK e, f, n : /\ e = Departed(db, s, k, departing) /\ f = Promoted(e, s)
                     /\ n = MemSplit(mem, s, k, departing)
  OBVIOUS
<1>4. Txn(f, n)
  BY <1>2, <1>3, SplitIs
<1>5. /\ Sound(e, n) /\ NoneOver(db, n) /\ e.seq = k
      /\ (Kept(db, mem) => Kept(e, n)) /\ (Mirrors(db, mem) => Mirrors(e, n))
  BY <1>1, <1>2, <1>3, Tabled, SplitKeeps
<1>6. /\ Sound(f, n) /\ (Kept(e, n) => Kept(f, n)) /\ (Mirrors(e, n) => Mirrors(f, n))
  BY <1>3, <1>5, PromotedKeeps
<1>7. db.seq <= f.seq
  <2>1. e \in Tables /\ f = Promoted(e, s)
    BY <1>3, <1>5, SoundIs
  <2>2. f.seq = e.seq
    BY ONLY <2>1, s \in Sits, PromotedIs
  <2> QED
    BY <1>2, <1>5, <2>2, Tabled, TableFields
<1> QED
  BY <1>1, <1>4, <1>5, <1>6, <1>7, Tabled, TxnStep

LEMMA RejectKeeps == ASSUME SitInv, NEW s \in Sits, Reject(s) PROVE SitInv'
<1>1. db.status[s] = "pending" /\ asked' = asked /\ db \in Tables /\ mem \in Maps /\ Sound(db, mem)
      /\ db.into[s] # 0
  BY Tabled DEF Reject, Answerable
<1>2. PICK pair : pair = <<s, db.into[s]>>
  OBVIOUS
<1>3. pair \in Sits \X Sits
  BY <1>1, <1>2, TableFields, SitIds
<1>4. PICK e, n : /\ e = [db EXCEPT !.status[s] = "new", !.into[s] = 0, !.rejected = @ \cup {pair}]
                  /\ n = [mem EXCEPT !.rejected = @ \cup {pair}]
  OBVIOUS
<1>5. Txn(e, n)
  BY <1>2, <1>4 DEF Reject
<1>6. n \in Maps /\ n.tracked = mem.tracked /\ n.members = mem.members /\ n.sitOf = mem.sitOf
  BY <1>1, <1>3, <1>4 DEF Maps
<1>7. PICK st, it : st = [db.status EXCEPT ![s] = "new"] /\ it = [db.into EXCEPT ![s] = 0]
  OBVIOUS
<1>8. /\ st \in [Sits -> LIVE \cup {"none", "resolved"}] /\ it \in [Sits -> 0 .. MaxSit]
      /\ \A x \in Sits : st[x] = (IF x = s THEN "new" ELSE db.status[x])
                         /\ it[x] = IF x = s THEN 0 ELSE db.into[x]
  BY <1>1, <1>7, TableFields, SitIds DEF LIVE
<1>9. /\ e \in Tables /\ e.seq = db.seq /\ e.rows = db.rows /\ e.status = st /\ e.into = it
  BY <1>1, <1>3, <1>4, <1>7, <1>8 DEF Tables
<1>10. \A x \in Sits : \/ e.status[x] = db.status[x] /\ e.into[x] = db.into[x]
                       \/ db.status[x] = "pending" /\ e.status[x] = "new" /\ e.into[x] = 0
                       \/ db.status[x] \in {"new", "pending"} /\ e.status[x] = "open" /\ e.into[x] = 0
  BY <1>1, <1>8, <1>9
<1>11. /\ Sound(e, mem) /\ (Kept(db, mem) => Kept(e, mem)) /\ (Mirrors(db, mem) => Mirrors(e, mem))
  BY <1>1, <1>9, <1>10, StatesKeep
<1>12. /\ Sound(e, n) /\ (Kept(db, mem) => Kept(e, n)) /\ (Mirrors(db, mem) => Mirrors(e, n))
  BY <1>6, <1>11, SameMaps
<1>13. NoneOver(db, n) /\ db.seq <= e.seq
  BY <1>1, <1>6, <1>9, TableFields DEF NoneOver, Sound
<1> QED
  BY <1>1, <1>5, <1>12, <1>13, Tabled, TxnStep

LEMMA EndWindowKeeps == ASSUME SitInv, NEW faults \in SUBSET Windowed, EndWindow(faults) PROVE SitInv'
<1>1. faults \in SUBSET Alarms /\ Surfaces(db, faults) /\ faults # {} /\ asked' = asked
  BY SituationConstants DEF EndWindow
<1>2. PICK r : r = Surfaced(db, mem, faults)
  OBVIOUS
<1>3. PICK e, n : e = r.db /\ n = r.mem
  OBVIOUS
<1>4. /\ Sound(e, n) /\ NoneOver(db, n) /\ e.seq = db.seq + 1
      /\ (Kept(db, mem) => Kept(e, n))
      /\ (Mirrors(db, mem) /\ ~ShownTwice(db, faults) => Mirrors(e, n))
  BY <1>1, <1>2, <1>3, Tabled, SurfacedKeeps
<1>5. \/ db' = e /\ mem' = n /\ SufferIf("surface", ShownTwice(db, faults))
      \/ db' = [db EXCEPT !.seq = @ + 1] /\ mem' = n /\ Suffer("gesture")
  BY <1>2, <1>3 DEF EndWindow
<1>6. CASE db' = e /\ mem' = n /\ SufferIf("surface", ShownTwice(db, faults))
  <2>1. ShownTwice(db, faults) \in BOOLEAN
    BY DEF ShownTwice
  <2> QED
    BY <1>1, <1>4, <1>6, <2>1, Tabled, TwiceStep
<1>7. CASE db' = [db EXCEPT !.seq = @ + 1] /\ mem' = n /\ Suffer("gesture")
  <2>1. db' = [db EXCEPT !.seq = e.seq]
    BY <1>4, <1>7, Tabled DEF Tables
  <2>2. Lists(n, e.seq) /\ e.seq \in 0 .. MaxSit /\ db.seq <= e.seq /\ Sound(db, mem)
    BY <1>4, SoundIs, Tabled, TableFields DEF Sound
  <2>3. Sound(db', n)
    BY <1>4, <2>1, <2>2, RolledBack
  <2> QED
    BY <1>1, <1>7, <2>3, Tabled, GestureStep
<1> QED
  BY <1>5, <1>6, <1>7

LEMMA AskKeeps ==
    ASSUME SitInv, asked' \in Asks, UNCHANGED <<db, mem, suffered>> PROVE SitInv'
BY Tabled, QuietStep

LEMMA AskClearKeeps == ASSUME SitInv, NEW a \in Alarms, NEW s \in 0 .. MaxSit, AskClear(a, s) PROVE SitInv'
<1>1. asked' \in Asks
  BY DEF AskClear, Asks
<1> QED
  BY <1>1, AskKeeps DEF AskClear

LEMMA AskClearAllKeeps ==
    ASSUME SitInv, NEW s \in Sits, NEW chosen \in SUBSET Alarms, AskClearAll(s, chosen) PROVE SitInv'
<1>1. asked' \in Asks
  BY SitIds DEF AskClearAll, Asks, Sits
<1> QED
  BY <1>1, AskKeeps DEF AskClearAll

LEMMA HandClearKeeps == ASSUME SitInv, HandClear PROVE SitInv'
<1>1. PICK cleared, d1 : cleared = asked.alarms \cap db.active /\ d1 = [db EXCEPT !.active = @ \ cleared]
  OBVIOUS
<1>2. PICK d2 : d2 = IF asked.sid = 0 THEN d1 ELSE Promoted(d1, asked.sid)
  OBVIOUS
<1>3. PICK r : r = ClearedUnder(d2, mem, asked.sid)
  OBVIOUS
<1>4. PICK e, n : e = r.db /\ n = r.mem
  OBVIOUS
<1>5. /\ asked' = Nobody
      /\ IF cleared = {} THEN UNCHANGED <<db, mem, suffered>> ELSE Txn(e, n)
  BY <1>1, <1>2, <1>3, <1>4 DEF HandClear
<1>6. asked.sid \in 0 .. MaxSit
  BY Tabled DEF Asks
<1>7. /\ Sound(d1, mem) /\ d1.seq = db.seq /\ d1.status = db.status
      /\ (Kept(db, mem) => Kept(d1, mem)) /\ (Mirrors(db, mem) => Mirrors(d1, mem))
  BY <1>1, Tabled, OnlyActive
<1>8. /\ Sound(d2, mem) /\ d2.seq = db.seq
      /\ \A x \in Sits : d2.status[x] # "resolved" => db.status[x] # "resolved"
      /\ (Kept(d1, mem) => Kept(d2, mem)) /\ (Mirrors(d1, mem) => Mirrors(d2, mem))
  <2>1. CASE asked.sid = 0
    BY <1>2, <1>7, <2>1
  <2>2. CASE asked.sid # 0
    <3>1. PICK s \in Sits : s = asked.sid
      BY <1>6, <2>2, SitIds
    <3>2. d2 = Promoted(d1, s) /\ d1 \in Tables
      BY <1>2, <1>7, <2>2, <3>1, SoundIs
    <3>3. /\ d2.seq = d1.seq
          /\ \A x \in Sits : d2.status[x] = IF x = s /\ d1.status[s] \in {"new", "pending"} THEN "open" ELSE d1.status[x]
      BY <3>2, PromotedIs
    <3>4. \A x \in Sits : d2.status[x] # "resolved" => db.status[x] # "resolved"
      BY <1>7, <3>3
    <3> QED
      BY <1>7, <3>2, <3>3, <3>4, PromotedKeeps
  <2> QED
    BY <2>1, <2>2
<1>9. /\ Sound(e, n) /\ NoneOver(d2, n) /\ e.seq = d2.seq
      /\ (Kept(d2, mem) => Kept(e, n)) /\ (Mirrors(d2, mem) => Mirrors(e, n))
  BY <1>3, <1>4, <1>6, <1>8, ClearedKeeps
<1>10. NoneOver(db, n) /\ db.seq <= e.seq
  <2>1. n.tracked \subseteq Sits
    BY <1>9, SoundIs
  <2> QED
    BY <1>8, <1>9, <2>1, Tabled, TableFields DEF NoneOver
<1> QED
  BY <1>5, <1>7, <1>8, <1>9, <1>10, NobodyAsks, AskKeeps, TxnStep

-----------------------------------------------------------------------------
(* The raise of an alarm *)

LEMMA RaisedKeeps ==
    ASSUME SitInv, NEW a \in Alarms, NEW r, r = Raised(a), NEW d, d = r.db, NEW m, m = r.mem
    PROVE  /\ Sound(d, m)
           /\ Kept(db, mem) => Kept(d, m)
           /\ Mirrors(db, mem) => Mirrors(d, m)
           /\ d.rows = db.rows /\ db.active \subseteq d.active /\ d.active \subseteq db.active \cup {a}
           /\ \A s \in Sits : \/ d.status[s] = db.status[s]
                              \/ /\ a \in db.active /\ s = mem.sitOf[a]
                                 /\ Live(db, s) /\ d.status[s] = "resolved"
           /\ a \in db.active => m.sitOf[a] \notin m.tracked
<1>0. db \in Tables /\ mem \in Maps /\ Sound(db, mem)
  BY Tabled
<1>1. CASE a \in db.active /\ mem.sitOf[a] # 0
  <2>1. PICK x \in Sits : x = mem.sitOf[a]
    BY <1>0, <1>1, MapFields, SitIds
  <2>2. PICK gone : gone = {x}
    OBVIOUS
  <2>3. gone \in SUBSET Sits /\ d = Resolved(db, gone) /\ m = Forget(mem, gone)
    BY <1>1, <2>1, <2>2 DEF Raised
  <2>4. /\ Sound(d, m) /\ (Kept(db, mem) => Kept(d, m)) /\ (Mirrors(db, mem) => Mirrors(d, m))
    BY <1>0, <2>3, ForgetKeeps
  <2>5. /\ d.rows = db.rows /\ d.active = db.active
        /\ \A s \in Sits : d.status[s] = IF s \in gone /\ Live(db, s) THEN "resolved" ELSE db.status[s]
    BY <1>0, <2>3, ResolvedIs
  <2>6. /\ m.tracked = mem.tracked \ gone
        /\ m.sitOf[a] = IF \E s \in gone : mem.members[s][a] > 0 THEN 0 ELSE mem.sitOf[a]
    BY <1>0, <2>3, ForgetIs
  <2>7. m.sitOf[a] \notin m.tracked
    BY <1>0, <2>1, <2>2, <2>6, SitIds, SoundIs
  <2> QED
    BY <1>1, <2>1, <2>2, <2>4, <2>5, <2>7
<1>2. CASE ~(a \in db.active /\ mem.sitOf[a] # 0)
  <2>1. PICK on : on = db.active \cup {a}
    OBVIOUS
  <2>2. d = [db EXCEPT !.active = on] /\ m = mem
    BY <1>2, <2>1 DEF Raised
  <2>3. on \in SUBSET Alarms
    BY <1>0, <2>1, TableFields
  <2>4. /\ d \in Tables /\ d.active = on
        /\ d.seq = db.seq /\ d.status = db.status /\ d.into = db.into /\ d.rows = db.rows
    BY <1>0, <2>2, <2>3, ActiveIs
  <2>5. /\ Sound(d, mem) /\ (Kept(db, mem) => Kept(d, mem)) /\ (Mirrors(db, mem) => Mirrors(d, mem))
    BY <1>0, <2>4, SameTables
  <2>6. 0 \notin mem.tracked
    BY <1>0, SoundIs, SitIds
  <2> QED
    BY <1>2, <2>1, <2>2, <2>4, <2>5, <2>6
<1> QED
  BY <1>1, <1>2

LEMMA RaiseFlappingKeeps == ASSUME SitInv, NEW a \in Alarms, RaiseFlapping(a) PROVE SitInv'
<1>1. PICK r : r = Raised(a)
  OBVIOUS
<1>2. PICK d, m : d = r.db /\ m = r.mem
  OBVIOUS
<1>3. db' = d /\ mem' = m /\ asked' = asked /\ UNCHANGED suffered
  BY <1>1, <1>2 DEF RaiseFlapping
<1>4. Sound(d, m) /\ (Kept(db, mem) => Kept(d, m)) /\ (Mirrors(db, mem) => Mirrors(d, m))
  BY <1>1, <1>2, RaisedKeeps
<1> QED
  BY <1>3, <1>4, Tabled, QuietStep

(* What the engine makes of a placement: it folds only situations that no  *)
(* operator confirmed, joins one that is confirmed only for an alarm that  *)
(* is in it, and reuses the one bag that proposes to join a target.        *)
Routed(d, m, r) ==
    /\ r.sid \in 0 .. MaxSit /\ r.propose \in 0 .. MaxSit /\ r.merges \subseteq m.tracked
    /\ \A x \in r.merges : d.status[x] # "open"
    /\ r.propose = 0 => r.sid = 0 \/ r.sid \in m.tracked
    /\ r.propose # 0 => /\ r.propose \in m.tracked
                        /\ r.sid # 0 => d.status[r.sid] = "pending" /\ d.into[r.sid] = r.propose
                        /\ r.sid = 0 => \A s \in Sits : d.status[s] = "pending" => d.into[s] # r.propose

LEMMA RouteIs ==
    ASSUME NEW d, NEW m, Sound(d, m), NEW p, p.join \in 0 .. MaxSit, NEW own \in 0 .. MaxSit,
           NEW r, r = Route(d, m, p, own)
    PROVE  /\ Routed(d, m, r)
           /\ r.sid # 0 /\ d.status[r.sid] = "open" => r.merges = {} /\ own = r.sid
           /\ own \in {0, p.join} /\ (own # 0 => own \in m.tracked) => own \in {0, r.sid} \cup r.merges
<1> DEFINE sid == IF p.join \in m.tracked THEN p.join ELSE 0
<1> DEFINE merges == (p.merge \cap m.tracked) \ {sid}
<1> DEFINE ids == (merges \cup {sid}) \ {0}
<1> DEFINE beside == {x \in merges : StateOf(d, x) = "open" /\ <<sid, x>> \notin m.rejected}
<1> DEFINE target == IF sid # 0 /\ StateOf(d, sid) = "open" THEN sid ELSE LowestOr0(beside)
<1> DEFINE bags == {s \in Sits : d.status[s] = "pending" /\ d.into[s] = target}
<1> DEFINE pending == LowestOr0(bags)
<1> DEFINE grows == sid # 0 /\ StateOf(d, sid) = "pending"
<1>0. d \in Tables /\ m \in Maps /\ m.tracked \subseteq Sits /\ 0 \notin Sits /\ Sits \subseteq 0 .. MaxSit
  BY SoundIs, SitIds DEF Sits
<1>1. \A s \in Sits : /\ StateOf(d, s) = "open" <=> d.status[s] = "open"
                      /\ StateOf(d, s) = "pending" <=> d.status[s] = "pending"
                      /\ StateOf(d, s) = "new" => d.status[s] \in {"new", "none"}
  BY <1>0, TableFields DEF StateOf
<1>2. sid \in m.tracked \cup {0} /\ merges \subseteq m.tracked /\ sid \notin merges /\ 0 \notin merges
      /\ (sid # 0 => sid = p.join)
  BY <1>0
<1>3. /\ target \in {0, sid} \cup beside /\ beside \subseteq merges
      /\ target # 0 => target \in m.tracked
      /\ target = 0 => ~(sid # 0 /\ StateOf(d, sid) = "open")
      /\ sid # 0 /\ StateOf(d, sid) = "open" => target = sid
  <2>1. beside \subseteq merges
    OBVIOUS
  <2>2. LowestOr0(beside) \in beside \cup {0}
    <3>1. beside \in SUBSET Sits
      BY <1>0, <1>2
    <3> HIDE DEF beside
    <3> QED
      BY <3>1, LowestIs
  <2> HIDE DEF beside, merges, sid
  <2> QED
    BY <1>2, <2>1, <2>2
<1>4. pending \in bags \cup {0} /\ (pending = 0 <=> bags = {})
  <2>1. bags \in SUBSET Sits
    OBVIOUS
  <2> HIDE DEF bags
  <2> QED
    BY <2>1, LowestIs
<1>5. \A s : s \in bags <=> s \in Sits /\ d.status[s] = "pending" /\ d.into[s] = target
  OBVIOUS
<1>6. \A x \in ids : x \in m.tracked /\ x \in Sits
  BY <1>0, <1>2
<1>7. \A x \in Sits : \A t : MayPropose(d, m, x, t) => d.status[x] # "open"
  BY <1>1 DEF MayPropose
<1>8. r = CASE grows -> [sid |-> sid, merges |-> {x \in merges : MayPropose(d, m, x, d.into[sid])}, propose |-> 0]
            [] ~grows /\ target = 0 -> [sid |-> sid, merges |-> {x \in merges : StateOf(d, x) = "new"}, propose |-> 0]
            [] ~grows /\ target # 0 /\ own = target -> [sid |-> target, merges |-> {}, propose |-> 0]
            [] OTHER -> [sid |-> pending, merges |-> {x \in ids \ {target, pending} : MayPropose(d, m, x, target)},
                         propose |-> target]
  BY DEF Route
<1>9. \A x : x \in ids <=> x # 0 /\ (x \in merges \/ x = sid)
  OBVIOUS
<1>10. \A x \in beside : x \in merges /\ StateOf(d, x) = "open" /\ <<sid, x>> \notin m.rejected
  OBVIOUS
<1> HIDE DEF sid, merges, ids, beside, target, bags, pending
<1>11. CASE grows
  <2>1. r.sid = sid /\ r.merges = {x \in merges : MayPropose(d, m, x, d.into[sid])} /\ r.propose = 0
    BY <1>8, <1>11
  <2>2. sid \in Sits /\ d.status[sid] = "pending"
    BY <1>0, <1>1, <1>2, <1>11
  <2>3. \A x \in r.merges : x \in merges /\ x \in Sits /\ d.status[x] # "open"
    BY <1>0, <1>2, <1>7, <2>1
  <2>4. Routed(d, m, r)
    BY <1>0, <1>2, <2>1, <2>3, SitIds DEF Routed
  <2>5. own \in {0, p.join} /\ (own # 0 => own \in m.tracked) => own \in {0, r.sid}
    BY <1>2, <1>11, <2>1
  <2> QED
    BY <2>1, <2>2, <2>4, <2>5
<1>12. CASE ~grows /\ target = 0
  <2>1. r.sid = sid /\ r.merges = {x \in merges : StateOf(d, x) = "new"} /\ r.propose = 0
    BY <1>8, <1>12
  <2>2. sid # 0 => d.status[sid] # "open"
    BY <1>0, <1>1, <1>2, <1>3, <1>12
  <2>3. \A x \in r.merges : x \in merges /\ x \in Sits /\ d.status[x] # "open"
    BY <1>0, <1>1, <1>2, <2>1
  <2>4. Routed(d, m, r)
    BY <1>0, <1>2, <2>1, <2>3, SitIds DEF Routed
  <2>5. own \in {0, p.join} /\ (own # 0 => own \in m.tracked) => own \in {0, r.sid}
    BY <2>1 DEF sid
  <2> QED
    BY <2>1, <2>2, <2>4, <2>5
<1>13. CASE ~grows /\ target # 0 /\ own = target
  <2>1. r.sid = target /\ r.merges = {} /\ r.propose = 0
    BY <1>8, <1>13
  <2>2. Routed(d, m, r)
    BY <1>0, <1>3, <1>13, <2>1, SitIds DEF Routed
  <2> QED
    BY <1>13, <2>1, <2>2
<1>14. CASE ~grows /\ target # 0 /\ own # target
  <2>1. /\ r.sid = pending /\ r.merges = {x \in ids \ {target, pending} : MayPropose(d, m, x, target)}
        /\ r.propose = target
    BY <1>8, <1>14
  <2>2. pending # 0 => pending \in Sits /\ d.status[pending] = "pending" /\ d.into[pending] = target
    BY <1>4, <1>5
  <2>3. pending = 0 => \A s \in Sits : d.status[s] = "pending" => d.into[s] # target
    BY <1>4, <1>5
  <2>4. \A x \in r.merges : x \in m.tracked /\ x \in Sits /\ d.status[x] # "open"
    BY <1>6, <1>7, <2>1
  <2>5. Routed(d, m, r)
    <3>1. r.sid \in 0 .. MaxSit /\ r.propose \in 0 .. MaxSit /\ r.propose \in m.tracked
      <4>1. target \in m.tracked /\ target \in 0 .. MaxSit
        BY <1>0, <1>3, <1>14
      <4>2. 0 \in 0 .. MaxSit
        BY SitIds
      <4>3. pending \in 0 .. MaxSit
        BY <1>0, <2>2, <4>2
      <4> QED
        BY <2>1, <4>1, <4>3
    <3> QED
      BY <1>14, <2>1, <2>2, <2>3, <2>4, <3>1 DEF Routed
  <2>6. ASSUME own \in {0, p.join}, own # 0, own \in m.tracked PROVE own \in r.merges
    <3>1. own = sid /\ sid # 0 /\ sid \in Sits
      BY <1>0, <2>6 DEF sid
    <3>2. StateOf(d, sid) # "open" /\ StateOf(d, sid) # "pending"
      BY <1>3, <1>14, <3>1
    <3>3. StateOf(d, sid) = "new"
      <4>1. d.status[sid] # "resolved" /\ d.status[sid] \in LIVE \cup {"none", "resolved"}
        BY <1>0, <2>6, <3>1, SoundIs, TableFields
      <4> QED
        BY <3>2, <4>1 DEF StateOf, LIVE
    <3>4. target \in beside /\ <<sid, target>> \notin m.rejected
      BY <1>3, <1>10, <1>14, <3>1
    <3>5. sid \in ids /\ sid # target /\ sid # pending
      BY <1>1, <1>9, <1>14, <2>2, <3>1, <3>3
    <3> QED
      BY <2>1, <3>1, <3>3, <3>4, <3>5 DEF MayPropose
  <2> QED
    BY <2>1, <2>2, <2>5, <2>6
<1> QED
  BY <1>11, <1>12, <1>13, <1>14

(* _assign_situation in three parts: the situation k is opened when there  *)
(* is none to join, others are folded into it, and the alarm joins.        *)
Ready(d, m, r, k, e, n) ==
    LET opens == r.sid = 0 \/ r.sid \notin m.tracked
        d1 == IF opens THEN Created(d, IF r.propose = 0 THEN "new" ELSE "pending") ELSE d
    IN  /\ k = IF opens THEN d.seq + 1 ELSE r.sid
        /\ e = IF r.propose = 0 THEN d1 ELSE [d1 EXCEPT !.into[k] = r.propose]
        /\ n = IF opens THEN [m EXCEPT !.tracked = @ \cup {k}] ELSE m

LEMMA ReadyKeeps ==
    ASSUME NEW d, NEW m, Sound(d, m), NEW r, Routed(d, m, r), d.seq < MaxSit \/ r.sid \in m.tracked,
           NEW k, NEW e, NEW n, Ready(d, m, r, k, e, n)
    PROVE  /\ k \in Sits /\ k <= e.seq /\ d.seq <= e.seq /\ Sound(e, n) /\ NoneOver(d, n)
           /\ e.rows = d.rows /\ e.active = d.active
           /\ n.tracked = m.tracked \cup {k} /\ n.members = m.members /\ n.sitOf = m.sitOf
           /\ \A s \in Sits : s # k => e.status[s] = d.status[s]
           /\ k \in m.tracked => k = r.sid /\ e.status[k] = d.status[k]
           /\ k \notin m.tracked => k > d.seq /\ r.sid \notin m.tracked
           /\ Kept(d, m) => Follows(e, n) /\ Single(e)
           /\ Mirrors(d, m) => Mirrors(e, n)
<1>0. d \in Tables /\ m \in Maps /\ m.tracked \subseteq Sits /\ 0 \notin m.tracked /\ d.seq \in 0 .. MaxSit
  BY SoundIs, SitIds, TableFields
<1>1. CASE r.sid \in m.tracked
  <2>1. k = r.sid /\ n = m /\ k \in Sits /\ k <= d.seq
    BY <1>0, <1>1, SoundIs DEF Ready
  <2>2. e = IF r.propose = 0 THEN d ELSE [d EXCEPT !.into[k] = r.propose]
    BY <1>0, <1>1, <2>1 DEF Ready
  <2>3. PICK it : it = IF r.propose = 0 THEN d.into ELSE [d.into EXCEPT ![k] = r.propose]
    OBVIOUS
  <2>4. it \in [Sits -> 0 .. MaxSit] /\ e = [d EXCEPT !.into = it]
    BY <1>0, <2>2, <2>3, TableFields DEF Tables, Routed
  <2>5. /\ e \in Tables /\ e.seq = d.seq /\ e.status = d.status /\ e.into = it /\ e.rows = d.rows
        /\ e.active = d.active
    BY <1>0, <2>4 DEF Tables
  <2>6. r.propose # 0 => d.status[k] = "pending" /\ d.into[k] = r.propose
    BY <1>0, <1>1, <2>1 DEF Routed
  <2>7. it = d.into
    BY <1>0, <2>3, <2>6, TableFields
  <2>8. /\ Sound(e, m) /\ (Kept(d, m) => Kept(e, m)) /\ (Mirrors(d, m) => Mirrors(e, m))
    BY <2>5, <2>7, SameTables
  <2>9. NoneOver(d, m) /\ d.seq <= e.seq
    BY <1>0, <2>5, TableFields DEF Sound
  <2> QED
    BY <1>1, <2>1, <2>5, <2>8, <2>9 DEF Kept, Tracks
<1>2. CASE r.sid \notin m.tracked
  <2>1. d.seq < MaxSit
    BY <1>2
  <2>2. PICK st : st = IF r.propose = 0 THEN "new" ELSE "pending"
    OBVIOUS
  <2>3. PICK c : c = Created(d, st)
    OBVIOUS
  <2>4. st \in LIVE /\ st # "open" /\ (r.propose = 0 <=> st = "new") /\ (r.propose # 0 <=> st = "pending")
    BY <2>2 DEF LIVE
  <2>5. /\ k = d.seq + 1 /\ e = (IF r.propose = 0 THEN c ELSE [c EXCEPT !.into[k] = r.propose])
        /\ n = [m EXCEPT !.tracked = @ \cup {k}]
    BY <1>2, <2>2, <2>3 DEF Ready
  <2>6. /\ k \in Sits /\ k \in 0 .. MaxSit /\ c \in Tables /\ c.seq = k
        /\ c.into = d.into /\ c.rows = d.rows /\ c.active = d.active
        /\ \A s \in Sits : c.status[s] = IF s = k THEN st ELSE d.status[s]
    BY <1>0, <2>1, <2>3, <2>4, <2>5, CreatedIs
  <2>7. k > d.seq /\ k \notin m.tracked /\ d.status[k] = "none" /\ d.rows[k] = {} /\ d.into[k] = 0
        /\ m.members[k] = Empty /\ d.seq <= k /\ k <= k
    <3>1. k > d.seq /\ ~(k <= d.seq) /\ d.seq <= k /\ k <= k
      BY <1>0, <2>5
    <3> QED
      BY <2>6, <3>1, SoundIs
  <2>8. PICK it : it = IF r.propose = 0 THEN d.into ELSE [d.into EXCEPT ![k] = r.propose]
    OBVIOUS
  <2>9. /\ it \in [Sits -> 0 .. MaxSit] /\ e = [c EXCEPT !.into = it]
        /\ \A s \in Sits : it[s] = IF s = k THEN r.propose ELSE d.into[s]
    BY SMTT(60), <1>0, <2>5, <2>6, <2>7, <2>8, TableFields DEF Tables, Routed
  <2>10. /\ e \in Tables /\ e.seq = k /\ e.into = it /\ e.rows = d.rows /\ e.active = d.active
         /\ \A s \in Sits : e.status[s] = IF s = k THEN st ELSE d.status[s]
    BY <2>6, <2>9 DEF Tables
  <2>11. /\ n \in Maps /\ n.tracked = m.tracked \cup {k} /\ n.members = m.members /\ n.sitOf = m.sitOf
    BY <1>0, <2>5, <2>6 DEF Maps
  <2>12. \A s \in Sits : e.status[s] = "none" => d.status[s] = "none" /\ s # k
    BY <2>4, <2>10 DEF LIVE
  <2>13. \A s \in Sits : s > k => s > d.seq /\ s # k
    BY <1>0, <2>6, <2>7, SitIds
  <2>14. Rows(e)
    <3>1. \A s \in Sits : e.status[s] = "none" => e.rows[s] = {} /\ e.into[s] = 0
      BY <2>9, <2>10, <2>12, SoundIs
    <3>2. \A s \in Sits : s > e.seq => e.status[s] = "none"
      BY <2>10, <2>13, SoundIs
    <3> QED
      BY <2>10, <3>1, <3>2 DEF Rows
  <2>15. Lists(n, e.seq)
    <3>1. n.tracked \subseteq 1 .. k
      <4>1. ASSUME NEW s \in m.tracked PROVE s \in 1 .. k
        <5>1. s \in Sits /\ s <= d.seq
          BY SoundIs
        <5>2. s \in Nat /\ 1 <= s /\ k \in Nat /\ d.seq \in Nat
          BY <1>0, <2>6, <5>1, SitIds
        <5> QED
          BY <2>7, <5>1, <5>2
      <4>2. k \in 1 .. k
        BY <2>6, SitIds
      <4> QED
        BY <2>11, <4>1, <4>2
    <3>2. \A a \in Alarms : n.sitOf[a] <= k
      <4> TAKE a \in Alarms
      <4>1. m.sitOf[a] \in Nat /\ m.sitOf[a] <= d.seq
        BY SoundIs, SitIds
      <4> QED
        BY <1>0, <2>6, <2>7, <2>11, <4>1
    <3> QED
      BY <2>10, <2>11, <3>1, <3>2, SoundIs DEF Lists
  <2>16. NoneOver(e, n) /\ NoneOver(d, n)
    <3>1. st # "resolved" /\ d.status[k] # "resolved"
      BY <2>4, <2>7 DEF LIVE
    <3>2. \A s \in m.tracked : d.status[s] # "resolved" /\ s # k
      BY <2>7, SoundIs
    <3>3. \A s \in n.tracked : s \in m.tracked \/ s = k
      BY <2>11
    <3> QED
      BY <1>0, <2>6, <2>10, <3>1, <3>2, <3>3 DEF NoneOver
  <2>17. \A s \in Sits : Live(e, s) <=> Live(d, s) \/ s = k
    BY <2>4, <2>10 DEF Live
  <2>18. ASSUME Kept(d, m) PROVE Follows(e, n) /\ Single(e)
    <3>1. n.tracked = {s \in Sits : Live(e, s)}
      BY ZenonT(60), <1>0, <2>6, <2>11, <2>17, <2>18 DEF Kept, Tracks, Follows
    <3>2. \A s \in n.tracked : e.status[s] # "open" => Held(n, s) \subseteq e.rows[s]
      <4> SUFFICES ASSUME NEW s \in n.tracked, e.status[s] # "open", NEW a \in Alarms, n.members[s][a] > 0
                   PROVE  a \in e.rows[s]
        BY DEF Held
      <4>1. s # k
        BY <2>7, <2>11, EmptyIs
      <4> QED
        BY <1>0, <2>10, <2>11, <2>18, <4>1 DEF Kept, Tracks, Follows, Held
    <3>3. \A s \in Sits : d.status[s] = "pending" => s \in m.tracked
      BY <2>18 DEF Kept, Tracks, Follows, Live, LIVE
    <3>4. r.propose # 0 => \A s \in Sits : d.status[s] = "pending" => d.into[s] # r.propose
      BY <1>2, <3>3, SitIds DEF Routed
    <3>5. r.propose # k
      BY <1>0, <2>6, <2>7, SitIds DEF Routed
    <3>6. \A s, t \in Sits : e.status[s] = "pending" /\ e.status[t] = "pending" /\ e.into[s] = e.into[t] => s = t
      BY <2>4, <2>9, <2>10, <2>18, <3>4 DEF Kept, Single
    <3>7. \A s \in Sits : e.status[s] = "pending" => e.into[s] \notin {0, s}
      BY <2>4, <2>9, <2>10, <2>18, <3>5 DEF Kept, Single
    <3>8. \A s \in Sits : e.status[s] \in {"new", "open"} => e.into[s] = 0
      BY <2>4, <2>9, <2>10, <2>18 DEF Kept, Single
    <3> QED
      BY <3>1, <3>2, <3>6, <3>7, <3>8 DEF Follows, Single
  <2>19. ASSUME Mirrors(d, m) PROVE Mirrors(e, n)
    <3>1. n.tracked = {s \in Sits : Live(e, s)}
      <4>1. m.tracked = {s \in Sits : Live(d, s)}
        BY <2>19 DEF Mirrors
      <4>2. \A x : x \in n.tracked <=> x \in Sits /\ Live(e, x)
        BY <2>6, <2>11, <2>17, <4>1
      <4> QED
        BY <4>2
    <3>2. \A s \in n.tracked, a \in Alarms : n.members[s][a] = IF a \in e.rows[s] THEN 1 ELSE 0
      <4> SUFFICES ASSUME NEW s \in n.tracked, NEW a \in Alarms
                   PROVE  n.members[s][a] = IF a \in e.rows[s] THEN 1 ELSE 0
        OBVIOUS
      <4>1. CASE s = k
        BY <2>7, <2>10, <2>11, <4>1, EmptyIs
      <4>2. CASE s # k
        BY <2>10, <2>11, <2>19, <4>2 DEF Mirrors
      <4> QED
        BY <4>1, <4>2
    <3>3. \A a \in Alarms, s \in Sits : Live(e, s) /\ a \in e.rows[s] <=> n.sitOf[a] = s
      <4> SUFFICES ASSUME NEW a \in Alarms, NEW s \in Sits
                   PROVE  Live(e, s) /\ a \in e.rows[s] <=> n.sitOf[a] = s
        OBVIOUS
      <4>1. CASE s = k
        <5>1. m.sitOf[a] # k
          <6>1. m.sitOf[a] \in Nat /\ m.sitOf[a] <= d.seq
            BY SoundIs, SitIds
          <6> QED
            BY <1>0, <2>7, <6>1
        <5> QED
          BY <2>7, <2>10, <2>11, <4>1, <5>1
      <4>2. CASE s # k
        BY <2>10, <2>11, <2>17, <2>19, <4>2 DEF Mirrors
      <4> QED
        BY <4>1, <4>2
    <3> QED
      BY <3>1, <3>2, <3>3 DEF Mirrors
  <2>20. Sound(e, n)
    BY <2>14, <2>15, <2>16 DEF Sound
  <2> QED
    BY <1>2, <2>6, <2>7, <2>10, <2>11, <2>16, <2>18, <2>19, <2>20
<1> QED
  BY <1>1, <1>2

JoinedRows(d, k, a) == [d EXCEPT !.rows[k] = @ \cup {a}]
JoinedMaps(m, k, a) == [m EXCEPT !.sitOf[a] = k, !.members[k][a] = @ + 1]

LEMMA JoinedRowsAre ==
    ASSUME NEW d \in Tables, NEW k \in Sits, NEW a \in Alarms, NEW e, e = JoinedRows(d, k, a)
    PROVE  /\ e \in Tables /\ e.seq = d.seq /\ e.status = d.status /\ e.into = d.into /\ e.active = d.active
           /\ e.rows[k] = d.rows[k] \cup {a} /\ \A s \in Sits : s # k => e.rows[s] = d.rows[s]
<1>1. PICK rw : rw = [d.rows EXCEPT ![k] = @ \cup {a}]
  OBVIOUS
<1>2. /\ rw \in [Sits -> SUBSET Alarms]
      /\ \A s \in Sits : rw[s] = IF s = k THEN d.rows[k] \cup {a} ELSE d.rows[s]
  BY <1>1, TableFields
<1>3. e = [d EXCEPT !.rows = rw]
  BY <1>1 DEF Tables, JoinedRows
<1>4. e \in Tables /\ e.rows = rw /\ e.seq = d.seq /\ e.status = d.status /\ e.into = d.into /\ e.active = d.active
  BY <1>2, <1>3 DEF Tables
<1> QED
  BY <1>2, <1>4

LEMMA JoinedMapsAre ==
    ASSUME NEW m \in Maps, NEW k \in Sits, NEW a \in Alarms, NEW n, n = JoinedMaps(m, k, a)
    PROVE  /\ n \in Maps /\ n.tracked = m.tracked
           /\ \A s \in Sits : s # k => n.members[s] = m.members[s]
           /\ \A b \in Alarms : n.members[k][b] = IF b = a THEN m.members[k][a] + 1 ELSE m.members[k][b]
           /\ \A b \in Alarms : n.sitOf[b] = IF b = a THEN k ELSE m.sitOf[b]
<1>1. PICK f : f = [m.members[k] EXCEPT ![a] = @ + 1]
  OBVIOUS
<1>2. f \in [Alarms -> Nat] /\ \A b \in Alarms : f[b] = IF b = a THEN m.members[k][a] + 1 ELSE m.members[k][b]
  <2>1. PICK g : g = m.members[k]
    OBVIOUS
  <2>2. g \in [Alarms -> Nat]
    BY <2>1, MapFields
  <2>3. g[a] + 1 \in Nat
    BY <2>2
  <2>4. f \in [Alarms -> Nat] /\ \A b \in Alarms : f[b] = IF b = a THEN g[a] + 1 ELSE g[b]
    BY <1>1, <2>1, <2>2, <2>3
  <2> QED
    BY <2>1, <2>4
<1>3. PICK mb, so : mb = [m.members EXCEPT ![k] = f] /\ so = [m.sitOf EXCEPT ![a] = k]
  OBVIOUS
<1>4. /\ mb \in [Sits -> [Alarms -> Nat]] /\ mb[k] = f /\ \A s \in Sits : s # k => mb[s] = m.members[s]
  BY <1>2, <1>3, MapFields
<1>5. so \in [Alarms -> 0 .. MaxSit] /\ \A b \in Alarms : so[b] = IF b = a THEN k ELSE m.sitOf[b]
  BY <1>3, MapFields, SitIds DEF Sits
<1>6. n = [[m EXCEPT !.sitOf = so] EXCEPT !.members = mb]
  BY <1>1, <1>3 DEF Maps, JoinedMaps
<1>7. n \in Maps /\ n.tracked = m.tracked /\ n.members = mb /\ n.sitOf = so
  BY <1>4, <1>5, <1>6 DEF Maps
<1> QED
  BY <1>2, <1>4, <1>5, <1>7

LEMMA JoinKeeps ==
    ASSUME NEW d, NEW m, Sound(d, m), NEW k \in m.tracked, d.status[k] # "none", NEW a \in Alarms,
           NEW e, e = JoinedRows(d, k, a),
           NEW n, n = JoinedMaps(m, k, a)
    PROVE  /\ Sound(e, n) /\ (NoneOver(d, m) => NoneOver(d, n))
           /\ Follows(d, m) /\ Single(d) => Follows(e, n) /\ Single(e)
           /\ Mirrors(d, m) /\ m.sitOf[a] = 0 => Mirrors(e, n)
<1>0. d \in Tables /\ m \in Maps /\ k \in Sits
  BY SoundIs
<1>1. /\ e \in Tables /\ e.seq = d.seq /\ e.status = d.status /\ e.into = d.into
      /\ e.rows[k] = d.rows[k] \cup {a} /\ \A s \in Sits : s # k => e.rows[s] = d.rows[s]
      /\ n \in Maps /\ n.tracked = m.tracked
      /\ \A s \in Sits : s # k => n.members[s] = m.members[s]
      /\ \A b \in Alarms : n.members[k][b] = IF b = a THEN m.members[k][a] + 1 ELSE m.members[k][b]
      /\ \A b \in Alarms : n.sitOf[b] = IF b = a THEN k ELSE m.sitOf[b]
  <2>1. /\ e \in Tables /\ e.seq = d.seq /\ e.status = d.status /\ e.into = d.into
        /\ e.rows[k] = d.rows[k] \cup {a} /\ \A s \in Sits : s # k => e.rows[s] = d.rows[s]
    BY <1>0, JoinedRowsAre
  <2>2. /\ n \in Maps /\ n.tracked = m.tracked
        /\ \A s \in Sits : s # k => n.members[s] = m.members[s]
        /\ \A b \in Alarms : n.members[k][b] = IF b = a THEN m.members[k][a] + 1 ELSE m.members[k][b]
        /\ \A b \in Alarms : n.sitOf[b] = IF b = a THEN k ELSE m.sitOf[b]
    BY <1>0, JoinedMapsAre
  <2> QED
    BY <2>1, <2>2
<1>2. Rows(e)
  <2>1. \A s \in Sits : s > e.seq => e.status[s] = "none"
    BY <1>1, SoundIs
  <2>2. \A s \in Sits : e.status[s] = "none" => e.rows[s] = {} /\ e.into[s] = 0
    BY <1>1, SoundIs
  <2> QED
    BY <1>1, <2>1, <2>2 DEF Rows
<1>3. Lists(n, e.seq)
  <2>1. k <= d.seq
    BY SoundIs
  <2>2. \A b \in Alarms : n.sitOf[b] <= d.seq
    BY <1>1, <2>1, SoundIs
  <2>3. \A s \in Sits \ n.tracked : n.members[s] = Empty
    BY <1>1, SoundIs
  <2> QED
    BY <1>1, <2>2, <2>3 DEF Lists, Sound
<1>4. NoneOver(e, n) /\ (NoneOver(d, m) => NoneOver(d, n))
  BY <1>1 DEF NoneOver, Sound
<1>5. \A s \in Sits : Live(e, s) <=> Live(d, s)
  BY <1>1 DEF Live
<1>6. ASSUME Follows(d, m), Single(d) PROVE Follows(e, n) /\ Single(e)
  <2>1. n.tracked = {s \in Sits : Live(e, s)}
    BY <1>1, <1>5, <1>6 DEF Follows
  <2>2. \A s \in n.tracked : e.status[s] # "open" => Held(n, s) \subseteq e.rows[s]
    <3> SUFFICES ASSUME NEW s \in m.tracked, d.status[s] # "open", NEW b \in Alarms, n.members[s][b] > 0
                 PROVE  b \in e.rows[s]
      BY <1>1 DEF Held
    <3>1. s \in Sits /\ (m.members[s][b] > 0 => b \in d.rows[s])
      BY <1>0, <1>6, MapFields DEF Follows, Held
    <3>2. CASE s = k /\ b = a
      BY <1>1, <3>1, <3>2
    <3>3. CASE ~(s = k /\ b = a)
      BY <1>1, <3>1, <3>3
    <3> QED
      BY <3>2, <3>3
  <2>3. Single(e)
    BY <1>1, <1>6 DEF Single
  <2> QED
    BY <2>1, <2>2, <2>3 DEF Follows
<1>7. ASSUME Mirrors(d, m), m.sitOf[a] = 0 PROVE Mirrors(e, n)
  <2>1. n.tracked = {s \in Sits : Live(e, s)} /\ Live(e, k)
    BY <1>0, <1>1, <1>5, <1>7 DEF Mirrors
  <2>2. \A s \in Sits : ~(Live(d, s) /\ a \in d.rows[s])
    BY <1>7, SitIds DEF Mirrors
  <2>3. \A s \in n.tracked, b \in Alarms : n.members[s][b] = IF b \in e.rows[s] THEN 1 ELSE 0
    <3> SUFFICES ASSUME NEW s \in n.tracked, NEW b \in Alarms
                 PROVE  n.members[s][b] = IF b \in e.rows[s] THEN 1 ELSE 0
      OBVIOUS
    <3>1. s \in Sits /\ Live(d, s) /\ m.members[s][b] = IF b \in d.rows[s] THEN 1 ELSE 0
      BY <1>1, <1>7 DEF Mirrors
    <3>2. CASE s = k /\ b = a
      <4>1. m.members[k][a] = 0
        BY <2>2, <3>1, <3>2
      <4>2. n.members[k][a] = m.members[k][a] + 1
        BY <1>1
      <4>3. a \in e.rows[k]
        BY <1>0, <1>1
      <4> QED
        BY <3>2, <4>1, <4>2, <4>3
    <3>3. CASE ~(s = k /\ b = a)
      BY <1>1, <3>1, <3>3
    <3> QED
      BY <3>2, <3>3
  <2>4. \A b \in Alarms, s \in Sits : Live(e, s) /\ b \in e.rows[s] <=> n.sitOf[b] = s
    <3> SUFFICES ASSUME NEW b \in Alarms, NEW s \in Sits
                 PROVE  Live(e, s) /\ b \in e.rows[s] <=> n.sitOf[b] = s
      OBVIOUS
    <3>1. CASE b = a
      <4>1. n.sitOf[b] = k
        BY <1>1, <3>1
      <4>2. CASE s = k
        BY <1>0, <1>1, <2>1, <3>1, <4>1, <4>2
      <4>3. CASE s # k
        <5>1. e.rows[s] = d.rows[s]
          BY <1>1, <4>3
        <5> QED
          BY <1>5, <2>2, <3>1, <4>1, <4>3, <5>1
      <4> QED
        BY <4>2, <4>3
    <3>2. CASE b # a
      <4>1. n.sitOf[b] = m.sitOf[b]
        BY <1>1, <3>2
      <4>2. b \in e.rows[s] <=> b \in d.rows[s]
        BY <1>1, <3>2
      <4>3. Live(d, s) /\ b \in d.rows[s] <=> m.sitOf[b] = s
        BY <1>7 DEF Mirrors
      <4> QED
        BY <1>5, <4>1, <4>2, <4>3
    <3> QED
      BY <3>1, <3>2
  <2> QED
    BY <2>1, <2>3, <2>4 DEF Mirrors
<1>8. Sound(e, n)
  BY <1>2, <1>3, <1>4 DEF Sound
<1> QED
  BY <1>4, <1>6, <1>7, <1>8

Assigned(d, m, a, r, e, n, k, d2, m2, gone, d3, m3) ==
    /\ Ready(d, m, r, k, d2, m2) /\ gone = (r.merges \cap m2.tracked) \ {k}
    /\ d3 = DbMerged(d2, k, gone) /\ m3 = MemMerged(m2, k, gone)
    /\ m3.sitOf[a] # k => e = JoinedRows(d3, k, a) /\ n = JoinedMaps(m3, k, a)
    /\ m3.sitOf[a] = k => e = d3 /\ n = m3
    /\ e.status[k] # "none" \/ e.rows[k] = {}

LEMMA AssignIs ==
    ASSUME NEW d, NEW m, NEW a, NEW r, NEW g, g = Assign(d, m, a, r), g.landed
    PROVE  \E k, d2, m2, gone, d3, m3 : Assigned(d, m, a, r, g.db, g.mem, k, d2, m2, gone, d3, m3)
<1> DEFINE opens == r.sid = 0 \/ r.sid \notin m.tracked
<1> DEFINE k == IF opens THEN d.seq + 1 ELSE r.sid
<1> DEFINE d1 == IF opens THEN Created(d, IF r.propose = 0 THEN "new" ELSE "pending") ELSE d
<1> DEFINE m2 == IF opens THEN [m EXCEPT !.tracked = @ \cup {k}] ELSE m
<1> DEFINE d2 == IF r.propose = 0 THEN d1 ELSE [d1 EXCEPT !.into[k] = r.propose]
<1> DEFINE gone == (r.merges \cap m2.tracked) \ {k}
<1> DEFINE d3 == DbMerged(d2, k, gone)
<1> DEFINE m3 == MemMerged(m2, k, gone)
<1> DEFINE d4 == IF m3.sitOf[a] # k THEN [d3 EXCEPT !.rows[k] = @ \cup {a}] ELSE d3
<1> DEFINE m4 == IF m3.sitOf[a] # k THEN [m3 EXCEPT !.sitOf[a] = k, !.members[k][a] = @ + 1] ELSE m3
<1>1. g = [db |-> d4, mem |-> m4, landed |-> d4.status[k] # "none" \/ d4.rows[k] = {}]
  BY ZenonT(60) DEF Assign
<1>2. Ready(d, m, r, k, d2, m2)
  BY DEF Ready
<1>3. /\ m3.sitOf[a] # k => d4 = JoinedRows(d3, k, a) /\ m4 = JoinedMaps(m3, k, a)
      /\ m3.sitOf[a] = k => d4 = d3 /\ m4 = m3
  <2> HIDE DEF d3, m3, k
  <2> QED
    BY DEF JoinedRows, JoinedMaps
<1>4. g.db = d4 /\ g.mem = m4
  <2> HIDE DEF d4, m4, k
  <2> QED
    BY <1>1
<1>5. d4.status[k] # "none" \/ d4.rows[k] = {}
  <2> HIDE DEF d4, m4, k
  <2>1. g.landed = (d4.status[k] # "none" \/ d4.rows[k] = {})
    BY ONLY <1>1
  <2> QED
    BY <2>1
<1>6. gone = (r.merges \cap m2.tracked) \ {k} /\ d3 = DbMerged(d2, k, gone) /\ m3 = MemMerged(m2, k, gone)
  OBVIOUS
<1> HIDE DEF k, d1, m2, d2, gone, d3, m3, d4, m4
<1>7. Assigned(d, m, a, r, g.db, g.mem, k, d2, m2, gone, d3, m3)
  BY <1>2, <1>3, <1>4, <1>5, <1>6 DEF Assigned
<1> QED
  BY SMTT(60), <1>7

LEMMA AssignKeeps ==
    ASSUME NEW d, NEW m, Sound(d, m), NEW a \in Alarms, NEW r, Routed(d, m, r),
           d.seq < MaxSit \/ r.sid \in m.tracked, NEW g, g = Assign(d, m, a, r), g.landed,
           NEW e, e = g.db, NEW n, n = g.mem
    PROVE  /\ Sound(e, n)
           /\ Kept(d, m) => Kept(e, n)
           /\ Mirrors(d, m) /\ m.sitOf[a] \in {0, r.sid} \cup r.merges => Mirrors(e, n)
<1>a. PICK k, d2, m2, gone, d3, m3 : Assigned(d, m, a, r, e, n, k, d2, m2, gone, d3, m3)
  BY AssignIs
<1>1.    /\ Ready(d, m, r, k, d2, m2) /\ gone = (r.merges \cap m2.tracked) \ {k}
         /\ d3 = DbMerged(d2, k, gone) /\ m3 = MemMerged(m2, k, gone)
         /\ m3.sitOf[a] # k => e = JoinedRows(d3, k, a) /\ n = JoinedMaps(m3, k, a)
         /\ m3.sitOf[a] = k => e = d3 /\ n = m3
         /\ e.status[k] # "none" \/ e.rows[k] = {}
  BY <1>a DEF Assigned
<1>2. /\ k \in Sits /\ k <= d2.seq /\ Sound(d2, m2) /\ d2.rows = d.rows
      /\ m2.tracked = m.tracked \cup {k} /\ m2.members = m.members /\ m2.sitOf = m.sitOf
      /\ \A s \in Sits : s # k => d2.status[s] = d.status[s]
      /\ k \in m.tracked => k = r.sid
      /\ k \notin m.tracked => k > d.seq /\ r.sid \notin m.tracked
      /\ Kept(d, m) => Follows(d2, m2) /\ Single(d2)
      /\ Mirrors(d, m) => Mirrors(d2, m2)
  BY <1>1, ReadyKeeps
<1>3. /\ r.merges \subseteq m.tracked /\ m.tracked \subseteq Sits
      /\ gone \in SUBSET (Sits \ {k}) /\ k \in m2.tracked /\ gone \subseteq m2.tracked
      /\ d2.status[k] # "resolved"
  BY <1>1, <1>2, SoundIs DEF Routed
<1>4. \A s \in gone : s \in m.tracked /\ s \in r.merges /\ d2.status[s] # "open"
  BY <1>1, <1>2, <1>3 DEF Routed
<1>5. d2 \in Tables /\ m2 \in Maps
  BY <1>2, SoundIs
<1>6. /\ d3 \in Tables /\ d3.rows[k] = UNION {d2.rows[x] : x \in gone \cup {k}}
      /\ d3.status[k] = d2.status[k]
      /\ \A s \in Sits : s # k => d3.rows[s] = IF s \in gone THEN {} ELSE d2.rows[s]
  BY <1>1, <1>2, <1>3, <1>5, DbMergedIs
<1>7. /\ m3 \in Maps /\ m2.tracked \ gone \subseteq m3.tracked /\ m3.tracked \subseteq (m2.tracked \ gone) \cup {k}
  BY <1>1, <1>2, <1>3, <1>5, MemMergedIs
<1>8. \A b \in Alarms : m3.sitOf[b] = IF \E s \in gone : m2.members[s][b] > 0 THEN k ELSE m2.sitOf[b]
  BY <1>1, <1>2, <1>3, <1>5, MemMergedLeads
<1>9. k \in m3.tracked
  BY <1>3, <1>7
<1>10. d2.status[k] = "none" => d3.rows[k] = {}
  <2>1. CASE m3.sitOf[a] = k
    BY <1>1, <1>6, <2>1
  <2>2. CASE m3.sitOf[a] # k
    <3>0. e = JoinedRows(d3, k, a) /\ d3 \in Tables /\ k \in Sits
      BY <1>1, <1>2, <1>6, <2>2
    <3>1. e.status = d3.status /\ e.rows[k] = d3.rows[k] \cup {a}
      BY <3>0, JoinedRowsAre
    <3> QED
      BY <1>1, <1>6, <3>1
  <2> QED
    BY <2>1, <2>2
<1>11. /\ Sound(d3, m3)
       /\ Kept(d, m) => Follows(d3, m3) /\ Single(d3)
       /\ Mirrors(d, m) => Mirrors(d3, m3)
  <2>1. Sound(d3, m3) /\ (Mirrors(d2, m2) => Mirrors(d3, m3))
        /\ (Follows(d2, m2) /\ Single(d2) => Follows(d3, m3) /\ Single(d3))
    <3>1. Sound(d2, m2) /\ k \in Sits /\ gone \in SUBSET (Sits \ {k}) /\ k <= d2.seq /\ d2.status[k] # "resolved"
      BY <1>2, <1>3
    <3>2. d3 = DbMerged(d2, k, gone) /\ m3 = MemMerged(m2, k, gone)
      BY <1>1
    <3>3. k \in m2.tracked /\ gone \subseteq m2.tracked /\ \A s \in gone : d2.status[s] # "open"
      BY <1>3, <1>4
    <3> QED
      BY ONLY <3>1, <3>2, <3>3, <1>10, MergeKeeps
  <2> QED
    BY <1>2, <2>1
<1>12. ASSUME m3.sitOf[a] # k PROVE d3.status[k] # "none"
  <2>0. e = JoinedRows(d3, k, a) /\ d3 \in Tables /\ k \in Sits
    BY <1>1, <1>2, <1>6, <1>12
  <2>1. e.status = d3.status /\ a \in e.rows[k]
    BY <2>0, JoinedRowsAre
  <2> QED
    BY <1>1, <2>1
<1>13. /\ Sound(e, n)
       /\ Kept(d, m) => Follows(e, n) /\ Single(e)
       /\ Mirrors(d, m) /\ (m3.sitOf[a] # k => m3.sitOf[a] = 0) => Mirrors(e, n)
  <2>1. CASE m3.sitOf[a] = k
    BY <1>1, <1>11, <2>1
  <2>2. CASE m3.sitOf[a] # k
    BY <1>1, <1>9, <1>11, <1>12, <2>2, JoinKeeps
  <2> QED
    BY <2>1, <2>2
<1>14. /\ n.tracked = m3.tracked /\ d3.rows[k] \subseteq e.rows[k]
       /\ m3.sitOf[a] # k => a \in e.rows[k]
       /\ \A s \in Sits : s # k => e.rows[s] = d3.rows[s]
  <2>1. CASE m3.sitOf[a] = k
    BY <1>1, <2>1
  <2>2. CASE m3.sitOf[a] # k
    <3>0. e = JoinedRows(d3, k, a) /\ d3 \in Tables /\ k \in Sits /\ n = JoinedMaps(m3, k, a) /\ m3 \in Maps
      BY <1>1, <1>2, <1>6, <1>7, <2>2
    <3>1. e.rows[k] = d3.rows[k] \cup {a} /\ \A s \in Sits : s # k => e.rows[s] = d3.rows[s]
      BY <3>0, JoinedRowsAre
    <3>2. n.tracked = m3.tracked
      BY <3>0, JoinedMapsAre
    <3> QED
      BY <2>2, <3>1, <3>2
  <2> QED
    BY <2>1, <2>2
<1>15. ASSUME Kept(d, m) PROVE \A s \in n.tracked : e.rows[s] # {}
  <2> SUFFICES ASSUME NEW s \in n.tracked PROVE e.rows[s] # {}
    OBVIOUS
  <2>0. \A x \in m.tracked : d.rows[x] # {}
    BY <1>15 DEF Kept, Tracks
  <2>1. CASE s # k
    <3>1. s \in m.tracked /\ s \notin gone /\ s \in Sits
      BY <1>2, <1>3, <1>7, <1>14, <2>1
    <3>2. e.rows[s] = d.rows[s]
      BY <1>2, <1>6, <1>14, <2>1, <3>1
    <3> QED
      BY <2>0, <3>1, <3>2
  <2>2. CASE s = k /\ m3.sitOf[a] # k
    BY <1>14, <2>2
  <2>3. CASE s = k /\ k \in m.tracked
    <3>1. d2.rows[k] \subseteq d3.rows[k]
      BY <1>6
    <3> QED
      BY <1>2, <1>14, <2>0, <2>3, <3>1
  <2>4. CASE s = k /\ m3.sitOf[a] = k /\ k \notin m.tracked
    <3>1. m.sitOf[a] # k
      <4>1. m.sitOf[a] \in Nat /\ m.sitOf[a] <= d.seq /\ d.seq \in Nat /\ k \in Nat
        BY <1>2, SoundIs, SitIds
      <4> QED
        BY <1>2, <2>4, <4>1
    <3>2. PICK x \in gone : m2.members[x][a] > 0
      BY <1>2, <1>8, <2>4, <3>1
    <3>3. d2.rows[x] # {} /\ d2.rows[x] \subseteq d3.rows[k]
      BY <1>2, <1>4, <1>6, <2>0
    <3> QED
      BY <1>14, <2>4, <3>3
  <2> QED
    BY <2>1, <2>2, <2>3, <2>4
<1>16. ASSUME Mirrors(d, m), m.sitOf[a] \in {0, r.sid} \cup r.merges, m3.sitOf[a] # k
       PROVE  m3.sitOf[a] = 0
  <2>1. PICK own : own = m.sitOf[a]
    OBVIOUS
  <2>2. m3.sitOf[a] = own /\ own # k /\ \A s \in gone : ~(m.members[s][a] > 0)
    BY <1>2, <1>8, <1>16, <2>1
  <2>3. ASSUME own # 0 PROVE FALSE
    <3>1. own \in Sits
      BY <2>1, <2>3, SoundIs, SitIds
    <3>2. own \in m.tracked /\ m.members[own][a] = 1
      <4>1. Live(d, own) /\ a \in d.rows[own]
        BY <1>16, <2>1, <3>1 DEF Mirrors
      <4> QED
        BY <1>16, <3>1, <4>1 DEF Mirrors
    <3>3. own # r.sid
      BY <1>2, <2>2, <3>2
    <3>4. own \in gone
      BY <1>1, <1>2, <1>16, <2>1, <2>2, <2>3, <3>2, <3>3
    <3> QED
      BY <2>2, <3>2, <3>4
  <2> QED
    BY <2>2, <2>3
<1>17. Kept(d, m) => Kept(e, n)
  BY <1>13, <1>15 DEF Kept, Tracks
<1> QED
  BY <1>13, <1>16, <1>17

LEMMA PlacementsJoin ==
    ASSUME NEW near \in SUBSET Sits, NEW own \in 0 .. MaxSit, NEW p \in Placements(near, own)
    PROVE  p.join \in 0 .. MaxSit
<1>0. Sits \subseteq 0 .. MaxSit /\ 0 \in 0 .. MaxSit
  BY SitIds DEF Sits
<1>1. p \in Cluster(near, own) \/ p \in Components(near, own)
  BY DEF Placements
<1>2. ASSUME p \in Cluster(near, own) PROVE p.join \in 0 .. MaxSit
  BY <1>0, <1>2 DEF Cluster
<1>3. ASSUME p \in Components(near, own) PROVE p.join \in 0 .. MaxSit
  <2>1. PICK linked \in {(seen \cup {own}) \ {0} : seen \in SUBSET near} :
           p = IF linked = {} THEN [join |-> 0, merge |-> {}]
               ELSE [join |-> Min(linked), merge |-> linked \ {Min(linked)}]
    BY <1>3 DEF Components
  <2>2. linked \in SUBSET Sits
    BY <2>1, SitIds
  <2>3. linked # {} => Min(linked) \in Sits
    BY <2>2, MinIs
  <2> QED
    BY <1>0, <2>1, <2>3
<1> QED
  BY <1>1, <1>2, <1>3

(* A raise that is correlated, in its parts.                               *)
RaisedBy(a, d, m, p, r, g) ==
    /\ d = Raised(a).db /\ m = Raised(a).mem /\ p.join \in 0 .. MaxSit
    /\ r = Route(d, m, p, m.sitOf[a]) /\ g = Assign(d, m, a, r)
    /\ d.seq < MaxSit \/ r.sid \in m.tracked
    /\ g.landed /\ db' = g.db /\ mem' = g.mem
    /\ SufferIf("join", m.sitOf[a] \notin {0, p.join})

LEMMA RaiseIs ==
    ASSUME SitInv, NEW a \in Alarms, Raise(a)
    PROVE  Activates(a) /\ asked' = asked /\ \E d, m, p, r, g : RaisedBy(a, d, m, p, r, g)
<1>1. PICK x : x = Raised(a)
  OBVIOUS
<1>2. PICK d, m : d = x.db /\ m = x.mem
  OBVIOUS
<1>3. m \in Maps /\ d.active \subseteq Alarms
  BY <1>1, <1>2, RaisedKeeps, SoundIs, TableFields
<1>4. PICK near : near = Candidates(x, a)
  OBVIOUS
<1>5. near \in SUBSET Sits /\ m.sitOf[a] \in 0 .. MaxSit
  BY <1>2, <1>3, <1>4, MapFields, SitIds DEF Candidates
<1>6. PICK p \in Placements(near, m.sitOf[a]) :
         LET route == Route(d, m, p, m.sitOf[a])
             done == Assign(d, m, a, route)
         IN  /\ d.seq < MaxSit \/ route.sid \in m.tracked
             /\ done.landed /\ db' = done.db /\ mem' = done.mem
             /\ SufferIf("join", m.sitOf[a] \notin {0, p.join})
  BY <1>1, <1>2, <1>4 DEF Raise
<1>7. p.join \in 0 .. MaxSit
  BY <1>5, PlacementsJoin
<1>8. PICK r, g : r = Route(d, m, p, m.sitOf[a]) /\ g = Assign(d, m, a, r)
  OBVIOUS
<1>9. RaisedBy(a, d, m, p, r, g)
  BY <1>1, <1>2, <1>6, <1>7, <1>8 DEF RaisedBy
<1>10. Activates(a) /\ asked' = asked
  BY DEF Raise
<1> QED
  BY <1>9, <1>10

LEMMA RaiseKeeps == ASSUME SitInv, NEW a \in Alarms, Raise(a) PROVE SitInv'
<1>1. asked' = asked /\ \E d, m, p, r, g : RaisedBy(a, d, m, p, r, g)
  BY RaiseIs
<1>2. PICK d, m, p, r, g : RaisedBy(a, d, m, p, r, g)
  BY <1>1
<1>3. PICK own : own = m.sitOf[a]
  OBVIOUS
<1>4. PICK x : x = Raised(a)
  OBVIOUS
<1>5. d = x.db /\ m = x.mem
  BY <1>2, <1>4 DEF RaisedBy
<1>6. Sound(d, m) /\ (Kept(db, mem) => Kept(d, m)) /\ (Mirrors(db, mem) => Mirrors(d, m))
  BY <1>4, <1>5, RaisedKeeps
<1>7. own \in 0 .. MaxSit
  BY <1>3, <1>6, SoundIs
<1>8. /\ r = Route(d, m, p, own) /\ g = Assign(d, m, a, r) /\ p.join \in 0 .. MaxSit
      /\ d.seq < MaxSit \/ r.sid \in m.tracked
      /\ g.landed /\ db' = g.db /\ mem' = g.mem
      /\ SufferIf("join", own \notin {0, p.join})
  BY <1>2, <1>3 DEF RaisedBy
<1>9. /\ Routed(d, m, r)
      /\ own \in {0, p.join} /\ (own # 0 => own \in m.tracked) => own \in {0, r.sid} \cup r.merges
  BY <1>6, <1>7, <1>8, RouteIs
<1>10. PICK e, n : e = g.db /\ n = g.mem
  OBVIOUS
<1>11. /\ Sound(e, n) /\ (Kept(d, m) => Kept(e, n))
       /\ Mirrors(d, m) /\ own \in {0, r.sid} \cup r.merges => Mirrors(e, n)
  BY <1>3, <1>6, <1>8, <1>9, <1>10, AssignKeeps
<1>12. Mirrors(d, m) /\ own # 0 => own \in m.tracked
  BY <1>3, <1>7, SitIds DEF Mirrors
<1>13. PICK happens : happens = (own \notin {0, p.join})
  OBVIOUS
<1>14. happens \in BOOLEAN /\ (~happens => own \in {0, p.join}) /\ SufferIf("join", happens)
  BY <1>8, <1>13
<1>15. Kept(db, mem) /\ Mirrors(db, mem) /\ ~happens => Mirrors(e, n)
  BY <1>6, <1>9, <1>11, <1>12, <1>14
<1>16. Sound(db', mem') /\ (Kept(db, mem) => Kept(db', mem')) /\ asked' \in Asks
       /\ (Kept(db, mem) /\ Mirrors(db, mem) /\ ~happens => Mirrors(db', mem'))
  BY <1>1, <1>6, <1>8, <1>10, <1>11, <1>15, Tabled
<1>17. "join" \in {"surface", "join"}
  OBVIOUS
<1> QED
  BY <1>14, <1>16, <1>17, TwiceStep

-----------------------------------------------------------------------------
(* The invariant *)

LEMMA GestureKeeps == ASSUME SitInv, Gesture PROVE SitInv'
<1>1. ASSUME NEW s \in Sits, Promote(s) PROVE SitInv'
  BY <1>1, PromoteStepKeeps DEF Promote
<1>2. ASSUME NEW s, NEW A \in SUBSET Alarms, s \in Sits, Split(s, A) PROVE SitInv'
  BY <1>2, SplitStepKeeps
<1>3. ASSUME NEW s \in Sits, NEW t \in Sits, NEW A \in SUBSET Alarms, Move(s, t, A) PROVE SitInv'
  BY <1>3, MoveStepKeeps
<1> QED
  BY <1>1, <1>2, <1>3, CloseKeeps, AcceptKeeps, RejectKeeps, MergeStepKeeps, EndWindowKeeps, AskClearKeeps,
     AskClearAllKeeps, HandClearKeeps DEF Gesture

LEMMA NextKeeps == ASSUME SitInv, Next PROVE SitInv'
<1>1. ASSUME NEW s \in Sits, AutonomyAccepts(s) PROVE SitInv'
  BY <1>1, PromoteStepKeeps DEF AutonomyAccepts
<1> QED
  BY <1>1, RaiseKeeps, RaiseFlappingKeeps, ClearTrapKeeps, BatchFailsKeeps, RestartKeeps, SweepKeeps,
     AutonomyClosesKeeps, GestureKeeps DEF Next

(* The invariant the rest follows from.                                    *)
LEMMA SitInvHolds == Spec => []SitInv
<1>1. SitInv /\ [Next]_vars => SitInv'
  <2> SUFFICES ASSUME SitInv, [Next]_vars PROVE SitInv'
    OBVIOUS
  <2>1. CASE Next
    BY <2>1, NextKeeps
  <2>2. CASE UNCHANGED vars
    <3>1. UNCHANGED <<db, mem, asked, suffered>>
      BY <2>2 DEF vars
    <3> QED
      BY <3>1, Tabled, QuietStep
  <2> QED
    BY <2>1, <2>2
<1> QED
  BY InitHolds, <1>1, PTL DEF Spec

(* Everything keeps its type, and the dictionary holds no list for a       *)
(* situation that is not a key of it: TypeOK.                              *)
THEOREM SituationsTyped == Spec => []TypeOK
<1>1. SitInv => TypeOK
  <2> SUFFICES ASSUME SitInv PROVE TypeOK
    OBVIOUS
  <2>1. /\ asked \in Asks /\ suffered \in [MishapClasses -> 0 .. MaxMishaps]
        /\ db \in Tables /\ mem \in Maps /\ Sound(db, mem)
    BY Tabled DEF SitInv
  <2>2. \A s \in Sits \ mem.tracked : mem.members[s] = Empty
    BY <2>1, SoundIs
  <2> QED
    BY <2>1, <2>2 DEF TypeOK, Asks
<1> QED
  BY <1>1, SitInvHolds, PTL

(* The engine's maps say what the rows say: MapsMatchRows, of the maps the *)
(* trap path reads and the batches, passes and gestures that keep them     *)
(* (engine/operate/membership.py).                                         *)
THEOREM MapsMatch == Spec => []MapsMatchRows
<1>1. SitInv => MapsMatchRows
  BY DEF SitInv, MapsMatchRows, Mirrors
<1> QED
  BY <1>1, SitInvHolds, PTL

(* A target has one pending bag at most, and only a pending situation      *)
(* proposes: OneProposal, of proposals.route and the gestures that answer. *)
THEOREM OneBagATarget == Spec => []OneProposal
<1>1. SitInv => OneProposal
  BY DEF SitInv, OneProposal, Kept, Single
<1> QED
  BY <1>1, SitInvHolds, PTL

-----------------------------------------------------------------------------
(* What a step may not do *)

(* Between the tables d and e: what is resolved is over; the rows of what  *)
(* an operator confirmed are as they were; and an alarm that stays on and  *)
(* was in a live situation is in one.                                      *)
Onward(d, e) == \A s \in Sits : d.status[s] = "resolved" => e.status[s] = "resolved" /\ e.rows[s] \subseteq d.rows[s]
Firm(d, e) == \A s \in Sits : d.status[s] = "open" => e.rows[s] = d.rows[s]
Shows(d, e) == \A b \in d.active \cap e.active : Visible(d, b) => Visible(e, b)

LEMMA SameRows ==
    ASSUME NEW d, NEW e, e.rows = d.rows, \A s \in Sits : e.status[s] = d.status[s] \/ Live(d, s)
    PROVE  /\ Onward(d, e) /\ Firm(d, e)
           /\ (\A s \in Sits : Live(d, s) /\ ~Live(e, s) => e.rows[s] \cap e.active = {}) => Shows(d, e)
BY DEF Onward, Firm, Shows, Visible, Live, LIVE

LEMMA TxnLeaves ==
    ASSUME db \in Tables, NEW d, NEW m, Txn(d, m), d.seq \in 0 .. MaxSit
    PROVE  /\ Onward(db, d) => Onward(db, db')
           /\ Firm(db, d) => Firm(db, db')
           /\ Shows(db, d) => Shows(db, db')
<1>1. CASE db' = d
  BY <1>1
<1>2. CASE db' = [db EXCEPT !.seq = d.seq]
  <2>1. db'.rows = db.rows /\ db'.status = db.status /\ db'.active = db.active
    BY <1>2, SeqIs
  <2> QED
    BY <2>1 DEF Onward, Firm, Shows, Visible, Live
<1> QED
  BY <1>1, <1>2 DEF Txn

(* What _assign_situation leaves alone: what is over or confirmed, and     *)
(* what is seen in a live situation; and the alarm itself is in one.       *)
LEMMA AssignSpares ==
    ASSUME NEW d, NEW m, Sound(d, m), NEW a \in Alarms, NEW r, Routed(d, m, r),
           d.seq < MaxSit \/ r.sid \in m.tracked, NEW g, g = Assign(d, m, a, r), g.landed,
           r.sid # 0 /\ d.status[r.sid] = "open" => r.merges = {} /\ m.sitOf[a] = r.sid,
           NEW e, e = g.db
    PROVE  /\ e.active = d.active
           /\ \A s \in Sits : d.status[s] = "resolved" => e.status[s] = "resolved" /\ e.rows[s] = d.rows[s]
           /\ \A s \in Sits : d.status[s] = "open" => e.rows[s] = d.rows[s]
           /\ Kept(d, m) => \A b : Visible(d, b) => Visible(e, b)
           /\ Kept(d, m) /\ m.sitOf[a] \notin m.tracked => Visible(e, a)
<1>0. PICK n : n = g.mem
  OBVIOUS
<1>a. PICK k, d2, m2, gone, d3, m3 : Assigned(d, m, a, r, e, n, k, d2, m2, gone, d3, m3)
  BY <1>0, AssignIs
<1>1. /\ Ready(d, m, r, k, d2, m2) /\ gone = (r.merges \cap m2.tracked) \ {k}
      /\ d3 = DbMerged(d2, k, gone) /\ m3 = MemMerged(m2, k, gone)
      /\ m3.sitOf[a] # k => e = JoinedRows(d3, k, a) /\ n = JoinedMaps(m3, k, a)
      /\ m3.sitOf[a] = k => e = d3 /\ n = m3
  BY <1>a DEF Assigned
<1>2. /\ k \in Sits /\ Sound(d2, m2) /\ d2.rows = d.rows /\ d2.active = d.active
      /\ m2.tracked = m.tracked \cup {k} /\ m2.members = m.members /\ m2.sitOf = m.sitOf
      /\ \A s \in Sits : s # k => d2.status[s] = d.status[s]
      /\ k \in m.tracked => k = r.sid /\ d2.status[k] = d.status[k]
      /\ k \notin m.tracked => k > d.seq /\ r.sid \notin m.tracked
  BY <1>1, ReadyKeeps
<1>3. /\ r.merges \subseteq m.tracked /\ m.tracked \subseteq Sits /\ gone \in SUBSET (Sits \ {k})
      /\ d2 \in Tables /\ m2 \in Maps
  BY <1>1, <1>2, SoundIs DEF Routed
<1>4. \A s \in gone : s \in Sits /\ s \in m.tracked /\ s \in r.merges /\ s # k /\ d.status[s] # "open"
                      /\ d.status[s] # "resolved"
  BY <1>1, <1>2, <1>3, SoundIs DEF Routed
<1>5. d.status[k] # "resolved" /\ (d.status[k] = "open" => k \in m.tracked)
  <2>1. CASE k \in m.tracked
    BY <2>1, SoundIs
  <2>2. CASE k \notin m.tracked
    <3>1. d.status[k] = "none"
      BY <1>2, <2>2, SoundIs
    <3> QED
      BY <3>1
  <2> QED
    BY <2>1, <2>2
<1>6. /\ d3 \in Tables /\ d3.active = d2.active /\ d3.rows[k] = UNION {d2.rows[x] : x \in gone \cup {k}}
      /\ \A s \in Sits : s # k => d3.rows[s] = IF s \in gone THEN {} ELSE d2.rows[s]
      /\ \A s \in Sits : d3.status[s] = IF s \in gone /\ d2.status[s] # "none" THEN "resolved" ELSE d2.status[s]
  BY <1>1, <1>2, <1>3, DbMergedIs
<1>7. m3.sitOf[a] = IF \E s \in gone : m2.members[s][a] > 0 THEN k ELSE m2.sitOf[a]
  BY <1>1, <1>2, <1>3, MemMergedLeads
<1>8. /\ e.active = d3.active /\ e.status = d3.status /\ d3.rows[k] \subseteq e.rows[k]
      /\ m3.sitOf[a] # k => a \in e.rows[k]
      /\ m3.sitOf[a] = k => e.rows = d3.rows
      /\ \A s \in Sits : s # k => e.rows[s] = d3.rows[s]
  <2>1. CASE m3.sitOf[a] = k
    BY <1>1, <2>1
  <2>2. CASE m3.sitOf[a] # k
    <3>0. e = JoinedRows(d3, k, a) /\ d3 \in Tables /\ k \in Sits
      BY <1>1, <1>2, <1>6, <2>2
    <3>1. /\ e.active = d3.active /\ e.status = d3.status
          /\ e.rows[k] = d3.rows[k] \cup {a} /\ \A s \in Sits : s # k => e.rows[s] = d3.rows[s]
      BY <3>0, JoinedRowsAre
    <3> QED
      BY <2>2, <3>1
  <2> QED
    BY <2>1, <2>2
<1>9. \A s \in Sits : s # k /\ s \notin gone => e.status[s] = d.status[s] /\ e.rows[s] = d.rows[s]
  BY <1>2, <1>6, <1>8
<1>10. \A s \in Sits : d.status[s] = "resolved" => e.status[s] = "resolved" /\ e.rows[s] = d.rows[s]
  BY <1>4, <1>5, <1>9
<1>11. ASSUME d.status[k] = "open" PROVE e.rows[k] = d.rows[k]
  <2>1. k = r.sid /\ r.sid # 0
    BY <1>2, <1>5, <1>11, SitIds
  <2>2. r.merges = {} /\ m.sitOf[a] = k
    BY <1>11, <2>1
  <2>3. gone = {}
    BY <1>1, <2>2
  <2>4. m3.sitOf[a] = k
    BY <1>2, <1>7, <2>2, <2>3
  <2>5. d3.rows[k] = d2.rows[k]
    BY <1>6, <2>3
  <2> QED
    BY <1>2, <1>8, <2>4, <2>5
<1>12. \A s \in Sits : d.status[s] = "open" => e.rows[s] = d.rows[s]
  BY <1>4, <1>9, <1>11
<1>13. \A x \in gone \cup {k} : d.rows[x] \subseteq e.rows[k]
  <2>1. \A x \in gone \cup {k} : d2.rows[x] \subseteq d3.rows[k]
    BY <1>6
  <2> QED
    BY <1>2, <1>8, <2>1
<1>14. ASSUME Kept(d, m) PROVE Live(e, k)
  <2>1. Live(d2, k)
    <3>1. Follows(d2, m2)
      BY <1>1, <1>14, ReadyKeeps
    <3> QED
      BY <1>2, <3>1 DEF Follows
  <2>2. e.status[k] = d2.status[k]
    BY <1>2, <1>3, <1>6, <1>8
  <2> QED
    BY <2>1, <2>2 DEF Live
<1>15. ASSUME Kept(d, m), NEW b, Visible(d, b) PROVE Visible(e, b)
  <2>1. PICK s \in Sits : Live(d, s) /\ b \in d.rows[s]
    BY <1>15 DEF Visible
  <2>2. CASE s \in gone \cup {k}
    BY <1>2, <1>13, <1>14, <1>15, <2>1, <2>2 DEF Visible
  <2>3. CASE s \notin gone \cup {k}
    BY <1>9, <2>1, <2>3 DEF Visible, Live
  <2> QED
    BY <2>2, <2>3
<1>16. ASSUME Kept(d, m), m.sitOf[a] \notin m.tracked PROVE Visible(e, a)
  <2>1. CASE m3.sitOf[a] # k
    BY <1>2, <1>8, <1>14, <1>16, <2>1 DEF Visible
  <2>2. CASE m3.sitOf[a] = k
    <3>1. m.sitOf[a] # k
      <4>1. CASE k \in m.tracked
        BY <1>16, <4>1
      <4>2. CASE k \notin m.tracked
        <5>1. m.sitOf[a] \in Nat /\ m.sitOf[a] <= d.seq /\ d.seq \in Nat /\ k \in Nat
          BY <1>2, SoundIs, SitIds
        <5> QED
          BY <1>2, <4>2, <5>1
      <4> QED
        BY <4>1, <4>2
    <3>2. PICK x \in gone : m.members[x][a] > 0
      BY <1>2, <1>7, <2>2, <3>1
    <3>3. a \in d.rows[x]
      BY <1>4, <1>16, <3>2 DEF Kept, Tracks, Follows, Held
    <3> QED
      BY <1>2, <1>13, <1>14, <1>16, <3>3 DEF Visible
  <2> QED
    BY <2>1, <2>2
<1> QED
  BY <1>2, <1>6, <1>8, <1>10, <1>12, <1>15, <1>16

LEMMA RaiseLeaves ==
    ASSUME SitInv, NEW a \in Alarms, Raise(a)
    PROVE  Onward(db, db') /\ Firm(db, db') /\ (~Suffered("gesture") => Shows(db, db'))
<1>1. Activates(a) /\ \E d, m, p, r, g : RaisedBy(a, d, m, p, r, g)
  BY RaiseIs
<1>2. PICK d, m, p, r, g : RaisedBy(a, d, m, p, r, g)
  BY <1>1
<1>3. PICK own : own = m.sitOf[a]
  OBVIOUS
<1>4. PICK x : x = Raised(a)
  OBVIOUS
<1>5. d = x.db /\ m = x.mem
  BY <1>2, <1>4 DEF RaisedBy
<1>6. /\ Sound(d, m) /\ (Kept(db, mem) => Kept(d, m))
      /\ d.rows = db.rows /\ db.active \subseteq d.active
      /\ \A s \in Sits : \/ d.status[s] = db.status[s]
                         \/ /\ a \in db.active /\ s = mem.sitOf[a]
                            /\ Live(db, s) /\ d.status[s] = "resolved"
      /\ a \in db.active => own \notin m.tracked
  BY <1>3, <1>4, <1>5, RaisedKeeps
<1>7. own \in 0 .. MaxSit
  BY <1>3, <1>6, SoundIs
<1>8. /\ r = Route(d, m, p, own) /\ g = Assign(d, m, a, r) /\ p.join \in 0 .. MaxSit
      /\ d.seq < MaxSit \/ r.sid \in m.tracked
      /\ g.landed
  BY <1>2, <1>3 DEF RaisedBy
<1>e. PICK e : e = g.db
  OBVIOUS
<1>f. db' = e
  BY <1>2, <1>e DEF RaisedBy
<1>9. Routed(d, m, r) /\ (r.sid # 0 /\ d.status[r.sid] = "open" => r.merges = {} /\ own = r.sid)
  BY <1>6, <1>7, <1>8, RouteIs
<1>10. /\ e.active = d.active
       /\ \A s \in Sits : d.status[s] = "resolved" => e.status[s] = "resolved" /\ e.rows[s] = d.rows[s]
       /\ \A s \in Sits : d.status[s] = "open" => e.rows[s] = d.rows[s]
       /\ Kept(d, m) => \A b : Visible(d, b) => Visible(e, b)
       /\ Kept(d, m) /\ own \notin m.tracked => Visible(e, a)
  BY <1>3, <1>6, <1>8, <1>9, <1>e, AssignSpares
<1>11. Onward(db, e)
  BY <1>6, <1>10 DEF Onward, Live, LIVE
<1>12. Firm(db, e)
  BY <1>6, <1>10 DEF Firm
<1>13. ASSUME ~Suffered("gesture") PROVE Shows(db, e)
  <2>0. Kept(d, m)
    BY <1>6, <1>13 DEF SitInv
  <2> SUFFICES ASSUME NEW b \in db.active, Visible(db, b) PROVE Visible(e, b)
    BY DEF Shows
  <2>1. PICK s \in Sits : Live(db, s) /\ b \in db.rows[s]
    BY DEF Visible
  <2>2. CASE Live(d, s)
    <3>1. Visible(d, b)
      BY <1>6, <2>1, <2>2 DEF Visible
    <3> QED
      BY <1>10, <2>0, <3>1
  <2>3. CASE ~Live(d, s)
    <3>1. a \in db.active /\ s = mem.sitOf[a]
      BY <1>6, <2>1, <2>3 DEF Live
    <3>2. SoleActive(db, s, a)
      BY <1>1, <3>1, SitIds DEF Activates
    <3>3. b = a
      BY <2>1, <3>2 DEF SoleActive
    <3> QED
      BY <1>6, <1>10, <2>0, <3>1, <3>3
  <2> QED
    BY <2>2, <2>3
<1> QED
  BY <1>f, <1>11, <1>12, <1>13

LEMMA RaiseFlappingLeaves ==
    ASSUME SitInv, NEW a \in Alarms, RaiseFlapping(a) PROVE Onward(db, db') /\ Firm(db, db')
<1>1. PICK x, e : x = Raised(a) /\ e = x.db
  OBVIOUS
<1>2. PICK m : m = x.mem
  OBVIOUS
<1>3. e.rows = db.rows /\ \A s \in Sits : e.status[s] = db.status[s] \/ Live(db, s)
  BY <1>1, <1>2, RaisedKeeps
<1>4. db' = e
  BY <1>1 DEF RaiseFlapping
<1> QED
  BY <1>3, <1>4, SameRows

LEMMA SameStates ==
    ASSUME db'.rows = db.rows, db'.status = db.status
    PROVE  Onward(db, db') /\ Firm(db, db') /\ Shows(db, db')
BY SameRows DEF Live

LEMMA ClearTrapLeaves ==
    ASSUME SitInv, NEW a \in Alarms, ClearTrap(a) PROVE Onward(db, db') /\ Firm(db, db') /\ Shows(db, db')
<1>1. db'.rows = db.rows /\ db'.status = db.status
  BY Tabled, TableFields DEF ClearTrap, Tables
<1> QED
  BY <1>1, SameStates

LEMMA PromoteLeaves ==
    ASSUME SitInv, NEW s \in Sits, db' = Promoted(db, s)
    PROVE  Onward(db, db') /\ Firm(db, db') /\ Shows(db, db')
<1>1. PICK e : e = Promoted(db, s)
  OBVIOUS
<1>2. /\ e.rows = db.rows
      /\ \A t \in Sits : e.status[t] = IF t = s /\ db.status[s] \in {"new", "pending"} THEN "open" ELSE db.status[t]
  BY <1>1, Tabled, PromotedIs
<1>3. \A t \in Sits : e.status[t] = db.status[t] \/ (Live(db, t) /\ Live(e, t))
  BY <1>2 DEF Live, LIVE
<1>4. \A t \in Sits : Live(db, t) => Live(e, t)
  BY <1>3 DEF Live
<1> QED
  BY <1>1, <1>2, <1>3, <1>4, SameRows

LEMMA CloseLeaves ==
    ASSUME SitInv, NEW s \in Sits, Close(s) PROVE Onward(db, db') /\ Firm(db, db')
<1>1. PICK gone, e : gone = {s} /\ e = Resolved(db, gone)
  OBVIOUS
<1>2. /\ e.rows = db.rows
      /\ \A t \in Sits : e.status[t] = IF t \in gone /\ Live(db, t) THEN "resolved" ELSE db.status[t]
  <2>1. gone \in SUBSET Sits
    BY <1>1
  <2> QED
    BY <1>1, <2>1, Tabled, ResolvedIs
<1>3. db' = e
  BY <1>1 DEF Close
<1> QED
  BY <1>2, <1>3, SameRows

(* ClearedUnder resolves a situation only when nothing in it is on.        *)
LEMMA ClearedLeaves ==
    ASSUME NEW d \in Tables, NEW m, NEW s \in 0 .. MaxSit, NEW e, e = ClearedUnder(d, m, s).db
    PROVE  /\ e.rows = d.rows /\ e.active = d.active /\ e.seq = d.seq
           /\ \A t \in Sits : e.status[t] = d.status[t] \/ (Live(d, t) /\ e.rows[t] \cap e.active = {})
<1>1. CASE s # 0 /\ AllCleared(d, s)
  <2>1. PICK gone : gone = {s}
    OBVIOUS
  <2>2. gone \in SUBSET Sits /\ e = Resolved(d, gone)
    BY <1>1, <2>1, SitIds DEF ClearedUnder
  <2>3. /\ e.rows = d.rows /\ e.active = d.active /\ e.seq = d.seq
        /\ \A t \in Sits : e.status[t] = IF t \in gone /\ Live(d, t) THEN "resolved" ELSE d.status[t]
    BY <2>2, ResolvedIs
  <2> QED
    BY <1>1, <2>1, <2>3 DEF AllCleared, Burning
<1>2. CASE ~(s # 0 /\ AllCleared(d, s))
  BY <1>2 DEF ClearedUnder
<1> QED
  BY <1>1, <1>2

LEMMA AutonomyClosesLeaves ==
    ASSUME SitInv, NEW s \in Sits, AutonomyCloses(s) PROVE Onward(db, db') /\ Firm(db, db') /\ Shows(db, db')
<1>0. PICK off : off = db.rows[s]
  OBVIOUS
<1>1. PICK d : d = [db EXCEPT !.active = @ \ off]
  OBVIOUS
<1>2. d \in Tables /\ d.seq = db.seq /\ d.status = db.status /\ d.rows = db.rows
  BY <1>1, Tabled, OnlyActive, SoundIs
<1>3. PICK e, n : e = ClearedUnder(d, mem, s).db /\ n = ClearedUnder(d, mem, s).mem
  OBVIOUS
<1>4. Txn(e, n)
  BY <1>0, <1>1, <1>3 DEF AutonomyCloses
<1>5. s \in 0 .. MaxSit
  BY SitIds DEF Sits
<1>6. /\ e.rows = d.rows /\ e.seq = d.seq
      /\ \A t \in Sits : e.status[t] = d.status[t] \/ (Live(d, t) /\ e.rows[t] \cap e.active = {})
  BY <1>2, <1>3, <1>5, ClearedLeaves
<1>7. Onward(db, e) /\ Firm(db, e) /\ Shows(db, e)
  BY <1>2, <1>6, SameRows DEF Live
<1>8. db \in Tables /\ e.seq \in 0 .. MaxSit
  BY <1>2, <1>6, Tabled, TableFields
<1> QED
  BY <1>4, <1>7, <1>8, TxnLeaves

LEMMA HandClearLeaves ==
    ASSUME SitInv, HandClear PROVE Onward(db, db') /\ Firm(db, db') /\ Shows(db, db')
<1>1. PICK cleared, d1 : cleared = asked.alarms \cap db.active /\ d1 = [db EXCEPT !.active = @ \ cleared]
  OBVIOUS
<1>2. PICK d2 : d2 = IF asked.sid = 0 THEN d1 ELSE Promoted(d1, asked.sid)
  OBVIOUS
<1>3. PICK e, n : e = ClearedUnder(d2, mem, asked.sid).db /\ n = ClearedUnder(d2, mem, asked.sid).mem
  OBVIOUS
<1>4. IF cleared = {} THEN UNCHANGED <<db, mem, suffered>> ELSE Txn(e, n)
  BY <1>1, <1>2, <1>3 DEF HandClear
<1>5. asked.sid \in 0 .. MaxSit
  BY Tabled DEF Asks
<1>6. d1 \in Tables /\ d1.seq = db.seq /\ d1.status = db.status /\ d1.rows = db.rows
  BY <1>1, Tabled, OnlyActive, SoundIs
<1>7. /\ d2 \in Tables /\ d2.seq = d1.seq /\ d2.rows = d1.rows
      /\ \A t \in Sits : d2.status[t] = d1.status[t] \/ (Live(d1, t) /\ Live(d2, t))
  <2>1. CASE asked.sid = 0
    BY <1>2, <1>6, <2>1
  <2>2. CASE asked.sid # 0
    <3>1. PICK s \in Sits : s = asked.sid
      BY <1>5, <2>2, SitIds
    <3>2. d2 = Promoted(d1, s)
      BY <1>2, <2>2, <3>1
    <3>3. /\ d2 \in Tables /\ d2.seq = d1.seq /\ d2.rows = d1.rows
          /\ \A x \in Sits : d2.status[x] = IF x = s /\ d1.status[s] \in {"new", "pending"} THEN "open" ELSE d1.status[x]
      BY <1>6, <3>2, PromotedIs
    <3> QED
      BY <3>3 DEF Live, LIVE
  <2> QED
    BY <2>1, <2>2
<1>8. /\ e.rows = d2.rows /\ e.seq = d2.seq
      /\ \A t \in Sits : e.status[t] = d2.status[t] \/ (Live(d2, t) /\ e.rows[t] \cap e.active = {})
  BY <1>3, <1>5, <1>7, ClearedLeaves
<1>9. Onward(db, e) /\ Firm(db, e) /\ Shows(db, e)
  <2>1. e.rows = db.rows
    BY <1>6, <1>7, <1>8
  <2>2. \A t \in Sits : e.status[t] = db.status[t] \/ Live(db, t)
    BY <1>6, <1>7, <1>8 DEF Live
  <2>3. \A t \in Sits : Live(db, t) /\ ~Live(e, t) => e.rows[t] \cap e.active = {}
    BY <1>6, <1>7, <1>8 DEF Live
  <2> QED
    BY <2>1, <2>2, <2>3, SameRows
<1>10. db \in Tables /\ e.seq \in 0 .. MaxSit
  BY <1>6, <1>7, <1>8, Tabled, TableFields
<1>11. CASE UNCHANGED <<db, mem, suffered>>
  BY <1>11, SameStates
<1> QED
  BY <1>4, <1>9, <1>10, <1>11, TxnLeaves

LEMMA RejectLeaves ==
    ASSUME SitInv, NEW s \in Sits, Reject(s) PROVE Onward(db, db') /\ Firm(db, db') /\ Shows(db, db')
<1>1. PICK pair, e, n : /\ pair = <<s, db.into[s]>>
                        /\ e = [db EXCEPT !.status[s] = "new", !.into[s] = 0, !.rejected = @ \cup {pair}]
                        /\ n = [mem EXCEPT !.rejected = @ \cup {pair}]
  OBVIOUS
<1>2. Txn(e, n) /\ db.status[s] = "pending" /\ db \in Tables
  BY <1>1, Tabled DEF Reject, Answerable
<1>3. e.rows = db.rows /\ e.seq = db.seq /\ e.status = [db.status EXCEPT ![s] = "new"]
  BY <1>1, <1>2 DEF Tables
<1>4. \A t \in Sits : e.status[t] = IF t = s THEN "new" ELSE db.status[t]
  BY <1>2, <1>3, TableFields
<1>5. \A t \in Sits : e.status[t] = db.status[t] \/ (Live(db, t) /\ Live(e, t))
  BY <1>2, <1>4 DEF Live, LIVE
<1>6. \A t \in Sits : Live(db, t) => Live(e, t)
  BY <1>5 DEF Live
<1>7. Onward(db, e) /\ Firm(db, e) /\ Shows(db, e)
  BY <1>3, <1>5, <1>6, SameRows
<1> QED
  BY <1>2, <1>3, <1>7, TableFields, TxnLeaves

(* Alarms carried from one situation to another.                           *)
LEMMA CarriedAlong ==
    ASSUME NEW d, NEW e,
           \A s \in Sits : d.status[s] = "resolved" => e.status[s] = "resolved" /\ e.rows[s] = d.rows[s],
           \A s \in Sits : Live(d, s) => \A b \in d.rows[s] : Visible(e, b)
    PROVE  Onward(d, e) /\ Shows(d, e)
BY DEF Onward, Shows, Visible

LEMMA MoveLeaves ==
    ASSUME SitInv, NEW s \in Sits, NEW t \in Sits, NEW moving \in SUBSET Alarms, Move(s, t, moving)
    PROVE  Onward(db, db') /\ Shows(db, db')
<1>1. PICK rows : rows = MovedRows(db.rows, s, t, moving)
  OBVIOUS
<1>2. PICK e, c, n : /\ e = Promoted([db EXCEPT !.rows = rows], s) /\ c = Promoted(db, s)
                     /\ n = MemMoved(mem, s, t, moving)
  OBVIOUS
<1>3. Txn(e, n) /\ s # t /\ Live(db, s) /\ Live(db, t)
  BY <1>1, <1>2, MoveIs DEF Move
<1>4. rows \in [Sits -> SUBSET Alarms] /\ db \in Tables
  BY <1>1, Tabled, TableFields DEF MovedRows
<1>5. e \in Tables /\ e.rows = rows /\ e.seq = c.seq /\ e.status = c.status
  BY <1>2, <1>4, PromotedLate
<1>6. /\ c.seq = db.seq
      /\ \A x \in Sits : c.status[x] = IF x = s /\ db.status[s] \in {"new", "pending"} THEN "open" ELSE db.status[x]
  BY SMTT(60), <1>2, <1>4, PromotedIs
<1>7. \A x \in Sits : rows[x] = IF x = s THEN db.rows[s] \ moving ELSE IF x = t THEN db.rows[t] \cup moving ELSE db.rows[x]
  BY <1>1 DEF MovedRows
<1>8. \A x \in Sits : Live(db, x) => Live(e, x)
  BY <1>5, <1>6 DEF Live, LIVE
<1>9. \A x \in Sits : db.status[x] = "resolved" => e.status[x] = "resolved" /\ e.rows[x] = db.rows[x]
  BY <1>3, <1>5, <1>6, <1>7 DEF Live, LIVE
<1>10. ASSUME NEW x \in Sits, Live(db, x), NEW b \in db.rows[x] PROVE Visible(e, b)
  <2>1. CASE x = s /\ b \in moving
    <3>1. Live(e, t) /\ b \in e.rows[t]
      BY <1>3, <1>5, <1>7, <1>8, <2>1
    <3> QED
      BY <3>1 DEF Visible
  <2>2. CASE ~(x = s /\ b \in moving)
    <3>1. Live(e, x) /\ b \in e.rows[x]
      BY <1>5, <1>7, <1>8, <1>10, <2>2
    <3> QED
      BY <3>1 DEF Visible
  <2> QED
    BY <2>1, <2>2
<1>11. Onward(db, e) /\ Shows(db, e)
  BY <1>9, <1>10, CarriedAlong
<1> QED
  BY <1>3, <1>4, <1>5, <1>6, <1>11, TableFields, TxnLeaves

(* Both merges: the destination stays live.                                *)
LEMMA MergedLeaves ==
    ASSUME NEW d \in Tables, NEW dst \in Sits, NEW src \in Sits, src # dst, Live(d, dst), Live(d, src),
           NEW srcs, srcs = {src}, NEW f, f = DbMerged(d, dst, srcs),
           NEW e, e.rows = f.rows, \A s \in Sits : s # dst => e.status[s] = f.status[s], Live(e, dst)
    PROVE  Onward(d, e) /\ Shows(d, e)
<1>1. f = DbMerged(d, dst, srcs)
  OBVIOUS
<1>2. srcs \in SUBSET (Sits \ {dst})
  OBVIOUS
<1>3. /\ f.rows[dst] = UNION {d.rows[x] : x \in srcs \cup {dst}}
      /\ \A s \in Sits :
            /\ s # dst => f.rows[s] = IF s \in srcs THEN {} ELSE d.rows[s]
            /\ f.status[s] = IF s \in srcs /\ d.status[s] # "none" THEN "resolved" ELSE d.status[s]
  BY <1>1, <1>2, DbMergedIs
<1>4. e.rows = f.rows /\ \A s \in Sits : s # dst => e.status[s] = f.status[s]
  BY <1>1
<1>5. \A s \in Sits : s # dst /\ s # src => e.status[s] = d.status[s] /\ e.rows[s] = d.rows[s]
  BY <1>3, <1>4
<1>6. \A s \in Sits : d.status[s] = "resolved" => s # dst /\ s # src
  BY DEF Live, LIVE
<1>7. d.rows[dst] \subseteq e.rows[dst] /\ d.rows[src] \subseteq e.rows[dst]
  BY <1>3, <1>4
<1>8. ASSUME NEW s \in Sits, Live(d, s), NEW b \in d.rows[s] PROVE Visible(e, b)
  <2>1. CASE s = dst \/ s = src
    BY <1>7, <2>1 DEF Visible
  <2>2. CASE s # dst /\ s # src
    BY <1>5, <1>8, <2>2 DEF Visible, Live
  <2> QED
    BY <2>1, <2>2
<1> QED
  BY SMTT(60), <1>5, <1>6, <1>8, CarriedAlong

LEMMA MergeLeaves ==
    ASSUME SitInv, NEW s \in Sits, NEW src \in Sits, Merge(s, src) PROVE Onward(db, db') /\ Shows(db, db')
<1>1. PICK srcs : srcs = {src}
  OBVIOUS
<1>2. s # src /\ Live(db, s) /\ Live(db, src) /\ srcs \in SUBSET (Sits \ {s}) /\ db \in Tables
  BY <1>1, Tabled DEF Merge
<1>3. PICK f, e, n : f = DbMerged(db, s, srcs) /\ e = Promoted(f, s) /\ n = MemMerged(mem, s, srcs)
  OBVIOUS
<1>4. Txn(e, n)
  BY <1>1, <1>3 DEF Merge
<1>5. /\ f \in Tables /\ f.seq = db.seq
      /\ \A x \in Sits : f.status[x] = IF x \in srcs /\ db.status[x] # "none" THEN "resolved" ELSE db.status[x]
  BY <1>2, <1>3, DbMergedIs
<1>6. /\ e.seq = f.seq /\ e.rows = f.rows
      /\ \A x \in Sits : e.status[x] = IF x = s /\ f.status[s] \in {"new", "pending"} THEN "open" ELSE f.status[x]
  BY SMTT(60), <1>3, <1>5, PromotedIs
<1>7. Live(e, s)
  BY <1>1, <1>2, <1>5, <1>6 DEF Live, LIVE
<1>8. Onward(db, e) /\ Shows(db, e)
  <2>1. f = DbMerged(db, s, srcs) /\ e.rows = f.rows /\ \A x \in Sits : x # s => e.status[x] = f.status[x]
    BY <1>3, <1>6
  <2>2. db \in Tables /\ src # s /\ Live(db, s) /\ Live(db, src)
    BY <1>2
  <2> QED
    BY ONLY s \in Sits, src \in Sits, <1>1, <1>7, <2>1, <2>2, MergedLeaves
<1>9. e.seq \in 0 .. MaxSit
  BY <1>2, <1>5, <1>6, TableFields
<1> QED
  BY <1>2, <1>4, <1>8, <1>9, TxnLeaves

LEMMA AcceptLeaves ==
    ASSUME SitInv, NEW s \in Sits, Accept(s) PROVE Onward(db, db') /\ Shows(db, db')
<1>1. PICK t, srcs : t = db.into[s] /\ srcs = {s}
  OBVIOUS
<1>2. db.status[s] = "pending" /\ t # 0 /\ db.status[t] = "open" /\ db \in Tables
  BY <1>1, Tabled DEF Accept, Answerable
<1>3. t \in Sits /\ t # s /\ srcs \in SUBSET (Sits \ {t})
  BY <1>1, <1>2, TableFields, SitIds
<1>4. PICK e, n : e = DbMerged(db, t, srcs) /\ n = MemMerged(mem, t, srcs)
  OBVIOUS
<1>5. Txn(e, n)
  BY <1>1, <1>4 DEF Accept
<1>6. /\ e.seq = db.seq
      /\ \A x \in Sits : e.status[x] = IF x \in srcs /\ db.status[x] # "none" THEN "resolved" ELSE db.status[x]
  BY <1>2, <1>3, <1>4, DbMergedIs
<1>7. Live(e, t) /\ Live(db, t) /\ Live(db, s)
  BY <1>1, <1>2, <1>3, <1>6 DEF Live, LIVE
<1>8. Onward(db, e) /\ Shows(db, e)
  <2>1. srcs = {s} /\ db \in Tables /\ e = DbMerged(db, t, srcs)
    BY <1>1, <1>2, <1>4
  <2> QED
    BY ONLY s \in Sits, <1>3, <1>7, <2>1, MergedLeaves
<1>9. e.seq \in 0 .. MaxSit
  BY <1>2, <1>6, TableFields
<1> QED
  BY <1>2, <1>5, <1>8, <1>9, TxnLeaves

LEMMA SplitLeaves ==
    ASSUME SitInv, NEW s \in Sits, NEW departing \in SUBSET Alarms, Split(s, departing)
    PROVE  Onward(db, db') /\ Shows(db, db')
<1>1. PICK k : k = db.seq + 1
  OBVIOUS
<1>2. PICK c, rows : c = Created(db, "open") /\ rows = SplitRows(db.rows, s, k, departing)
  OBVIOUS
<1>3. PICK e, f, n : /\ e = Departed(db, s, k, departing) /\ f = Promoted(e, s)
                     /\ n = MemSplit(mem, s, k, departing)
  OBVIOUS
<1>4. Txn(f, n) /\ k \in Sits /\ k # s /\ Live(db, s) /\ db \in Tables
  BY <1>1, <1>3, SplitIs, Tabled DEF Split
<1>5. /\ c \in Tables /\ c.seq = k /\ c.rows = db.rows
      /\ \A x \in Sits : c.status[x] = IF x = k THEN "open" ELSE db.status[x]
  <2>1. "open" \in LIVE /\ db \in Tables /\ db.seq < MaxSit
    BY Tabled DEF LIVE, Split
  <2> QED
    BY <1>1, <1>2, <2>1, CreatedIs
<1>6. e = [c EXCEPT !.rows = rows]
  BY <1>2, <1>3 DEF Departed
<1>7. /\ rows \in [Sits -> SUBSET Alarms]
      /\ \A x \in Sits : rows[x] = IF x = k THEN departing ELSE IF x = s THEN db.rows[s] \ departing ELSE db.rows[x]
  BY <1>2, Tabled, TableFields DEF SplitRows
<1>8. e \in Tables /\ e.rows = rows /\ e.seq = c.seq /\ e.status = c.status
  BY <1>5, <1>6, <1>7, RowsAre
<1>9. /\ f.seq = e.seq /\ f.rows = e.rows
      /\ \A x \in Sits : f.status[x] = IF x = s /\ e.status[s] \in {"new", "pending"} THEN "open" ELSE e.status[x]
  <2>1. e \in Tables /\ f = Promoted(e, s)
    BY <1>3, <1>8
  <2> QED
    BY ONLY <2>1, s \in Sits, PromotedIs
<1>10. db.status[k] = "none" /\ db.rows[k] = {}
  <2>1. k > db.seq
    BY <1>1, <1>4, TableFields
  <2> QED
    BY <1>4, <2>1, Tabled, SoundIs
<1>11. /\ Live(f, k) /\ \A x \in Sits : Live(db, x) => Live(f, x)
       /\ \A x \in Sits : db.status[x] = "resolved" => f.status[x] = "resolved" /\ x # k /\ x # s
  BY <1>4, <1>5, <1>8, <1>9, <1>10 DEF Live, LIVE
<1>12. \A x \in Sits : db.status[x] = "resolved" => f.status[x] = "resolved" /\ f.rows[x] = db.rows[x]
  BY <1>7, <1>8, <1>9, <1>11
<1>13. ASSUME NEW x \in Sits, Live(db, x), NEW b \in db.rows[x] PROVE Visible(f, b)
  <2>1. CASE x = s /\ b \in departing
    BY <1>4, <1>7, <1>8, <1>9, <1>11, <2>1 DEF Visible
  <2>2. CASE ~(x = s /\ b \in departing)
    <3>1. Live(f, x) /\ b \in f.rows[x]
      BY <1>7, <1>8, <1>9, <1>10, <1>11, <1>13, <2>2
    <3> QED
      BY <3>1 DEF Visible
  <2> QED
    BY <2>1, <2>2
<1>14. Onward(db, f) /\ Shows(db, f)
  BY <1>12, <1>13, CarriedAlong
<1> QED
  BY <1>4, <1>5, <1>8, <1>9, <1>14, TableFields, TxnLeaves

LEMMA EndWindowLeaves ==
    ASSUME SitInv, NEW faults \in SUBSET Windowed, EndWindow(faults)
    PROVE  Onward(db, db') /\ Firm(db, db') /\ Shows(db, db')
<1>1. PICK r : r = Surfaced(db, mem, faults)
  OBVIOUS
<1>2. PICK e, n : e = r.db /\ n = r.mem
  OBVIOUS
<1>3. faults \in SUBSET Alarms /\ Surfaces(db, faults)
  BY SituationConstants DEF EndWindow
<1>4. \A s \in Sits : db.status[s] # "none" => e.status[s] = db.status[s] /\ e.rows[s] = db.rows[s]
  BY <1>1, <1>2, <1>3, Tabled, SurfacedKeeps
<1>5. db' = e \/ db' = [db EXCEPT !.seq = @ + 1]
  BY <1>1, <1>2 DEF EndWindow
<1>6. CASE db' = e
  <2>1. Firm(db, e)
    BY <1>4 DEF Firm
  <2>2. \A s \in Sits : db.status[s] = "resolved" => e.status[s] = "resolved" /\ e.rows[s] = db.rows[s]
    BY <1>4
  <2>3. \A s \in Sits : Live(db, s) => \A b \in db.rows[s] : Visible(e, b)
    BY <1>4 DEF Visible, Live, LIVE
  <2> QED
    BY <1>6, <2>1, <2>2, <2>3, CarriedAlong
<1>7. CASE db' = [db EXCEPT !.seq = @ + 1]
  <2>1. db'.rows = db.rows /\ db'.status = db.status
    BY <1>7, Tabled DEF Tables
  <2> QED
    BY <2>1, SameStates
<1> QED
  BY <1>5, <1>6, <1>7

(* The pass closes only what is quiet; an occurrence that ended in the     *)
(* same pass and is on again was surfaced by a window, and is in the       *)
(* situation the window opened.                                            *)
LEMMA SweepLeaves == ASSUME SitInv, Sweep PROVE Onward(db, db') /\ Firm(db, db') /\ Shows(db, db')
<1>1. PICK ended, closing, faults, pruned, d1, d2, d3, d4 :
         /\ \A s \in closing : db.rows[s] \cap (db.active \ ended) = {}
         /\ pruned \subseteq {s \in Sits : db.status[s] = "resolved"}
         /\ Pass(ended, closing, faults, pruned, d1, d2, d3, d4)
         /\ SufferIf("surface", ShownTwice(d3, faults)) /\ asked' = asked
         /\ Sound(db', mem')
         /\ Kept(db, mem) => Kept(db', mem')
         /\ Mirrors(db, mem) /\ ~ShownTwice(d3, faults) => Mirrors(db', mem')
  BY SweepIs, Zenon
<1>2. /\ \A s \in closing : db.rows[s] \cap (db.active \ ended) = {}
      /\ \A s \in pruned : db.status[s] = "resolved"
  BY <1>1
<1>3. /\ \A s \in Sits : \/ d3.status[s] = db.status[s]
                         \/ s \in closing /\ Live(db, s) /\ d3.status[s] = "resolved"
                         \/ db.status[s] = "pending" /\ d3.status[s] = "new"
      /\ d3.rows = db.rows
  BY <1>1 DEF Pass, Live, LIVE
<1>4. \A s \in Sits : db.status[s] # "none" => d4.status[s] = d3.status[s] /\ d4.rows[s] = db.rows[s]
  BY <1>1, <1>3 DEF Pass, Live, LIVE
<1>5. /\ db'.status = d4.status /\ db'.active = (db.active \ ended) \cup faults
      /\ \A b \in faults : Visible(d4, b)
      /\ \A s \in Sits : db'.rows[s] = IF s \in pruned THEN {} ELSE d4.rows[s]
  BY <1>1 DEF Pass
<1>6. \A s \in pruned : s \in Sits => ~Live(d4, s)
  BY <1>2, <1>3, <1>4 DEF Live, LIVE
<1>7. \A b : Visible(d4, b) => Visible(db', b)
  BY <1>5, <1>6 DEF Visible, Live
<1>8. Onward(db, db')
  BY <1>3, <1>4, <1>5 DEF Onward, Live, LIVE
<1>9. Firm(db, db')
  BY <1>2, <1>4, <1>5 DEF Firm
<1>10. Shows(db, db')
  <2> SUFFICES ASSUME NEW b \in db.active \cap db'.active, Visible(db, b) PROVE Visible(db', b)
    BY DEF Shows
  <2>1. PICK s \in Sits : Live(db, s) /\ b \in db.rows[s]
    BY DEF Visible
  <2>2. CASE d3.status[s] # "resolved"
    <3>1. Live(d4, s) /\ b \in d4.rows[s]
      BY <1>3, <1>4, <2>1, <2>2 DEF Live, LIVE
    <3> QED
      BY <1>7, <3>1 DEF Visible
  <2>3. CASE d3.status[s] = "resolved"
    <3>1. s \in closing
      BY <1>3, <2>1, <2>3 DEF Live, LIVE
    <3>2. b \in faults
      BY <1>2, <1>5, <2>1, <3>1
    <3> QED
      BY <1>5, <1>7, <3>2
  <2> QED
    BY <2>2, <2>3
<1> QED
  BY <1>8, <1>9, <1>10

-----------------------------------------------------------------------------
(* The action properties *)

LEMMA NextIsOnward == ASSUME SitInv, Next PROVE Onward(db, db')
<1>1. ASSUME db' = db PROVE Onward(db, db')
  BY <1>1, SameStates
<1>2. ASSUME NEW s \in Sits, AutonomyAccepts(s) \/ Promote(s) PROVE Onward(db, db')
  BY <1>2, PromoteLeaves DEF AutonomyAccepts, Promote
<1>3. ASSUME BatchFails \/ Restart PROVE Onward(db, db')
  BY <1>1, <1>3 DEF BatchFails, Restart
<1>4. ASSUME NEW s, NEW A, AskClear(A, s) \/ AskClearAll(s, A) PROVE Onward(db, db')
  BY <1>1, <1>4 DEF AskClear, AskClearAll
<1>5. ASSUME Gesture PROVE Onward(db, db')
  BY <1>2, <1>4, <1>5, CloseLeaves, AcceptLeaves, RejectLeaves, MergeLeaves, MoveLeaves, EndWindowLeaves,
     SplitLeaves, HandClearLeaves DEF Gesture
<1> QED
  BY <1>2, <1>3, <1>5, RaiseLeaves, RaiseFlappingLeaves, ClearTrapLeaves, SweepLeaves, AutonomyClosesLeaves DEF Next

(* A resolved situation is never live again and gains no member, whatever  *)
(* a late gesture or a stale map names it for: ResolvedIsFinal, of every   *)
(* statement that sets situation.status and of the routes to it.           *)
THEOREM ResolvedStaysResolved == Spec => ResolvedIsFinal
<1>1. SitInv /\ [Next]_vars =>
         [\A s \in Sits : db.status[s] = "resolved"
             => db'.status[s] = "resolved" /\ db'.rows[s] \subseteq db.rows[s]]_vars
  BY NextIsOnward DEF Onward
<1> QED
  BY <1>1, SitInvHolds, PTL DEF Spec, ResolvedIsFinal

LEMMA NextIsFirm ==
    ASSUME SitInv, Next, NEW s \in Sits, db.status[s] = "open", db'.rows[s] # db.rows[s]
    PROVE  \/ \E t \in Sits : Merge(s, t) \/ Merge(t, s) \/ Accept(t)
           \/ \E A \in SUBSET Alarms : Split(s, A) \/ \E t \in Sits : Move(s, t, A) \/ Move(t, s, A)
<1> DEFINE Formed == \/ \E t \in Sits : Merge(s, t) \/ Merge(t, s) \/ Accept(t)
                     \/ \E A \in SUBSET Alarms : Split(s, A) \/ \E t \in Sits : Move(s, t, A) \/ Move(t, s, A)
<1>0. ~Firm(db, db')
  BY DEF Firm
<1>1. db' # db
  OBVIOUS
<1>2. ASSUME NEW x \in Sits, AutonomyAccepts(x) \/ Promote(x) PROVE FALSE
  BY <1>0, <1>2, PromoteLeaves DEF AutonomyAccepts, Promote
<1>3. ~(BatchFails \/ Restart)
  BY <1>1 DEF BatchFails, Restart
<1>4. ASSUME NEW x, NEW A, AskClear(A, x) \/ AskClearAll(x, A) PROVE FALSE
  BY <1>1, <1>4 DEF AskClear, AskClearAll
<1>5. ASSUME NEW x \in Sits, NEW y \in Sits, Merge(x, y) PROVE Formed
  <2>1. CASE s = x \/ s = y
    BY <1>5, <2>1
  <2>2. CASE s # x /\ s # y
    <3>1. PICK srcs : srcs = {y}
      OBVIOUS
    <3>2. x # y /\ srcs \in SUBSET (Sits \ {x}) /\ db \in Tables
      BY <1>5, <3>1, Tabled DEF Merge
    <3>3. PICK f, e, n : f = DbMerged(db, x, srcs) /\ e = Promoted(f, x) /\ n = MemMerged(mem, x, srcs)
      OBVIOUS
    <3>4. Txn(e, n)
      BY <1>5, <3>1, <3>3 DEF Merge
    <3>5. /\ f \in Tables /\ f.seq = db.seq
          /\ \A z \in Sits : z # x => f.rows[z] = IF z \in srcs THEN {} ELSE db.rows[z]
      BY <3>2, <3>3, DbMergedIs
    <3>6. e.rows = f.rows /\ e.seq = f.seq
      BY <3>3, <3>5, PromotedIs
    <3>7. e.rows[s] = db.rows[s]
      BY <2>2, <3>1, <3>5, <3>6
    <3>8. db'.rows[s] = db.rows[s]
      BY <3>2, <3>4, <3>7 DEF Txn, Tables
    <3> QED
      BY <3>8
  <2> QED
    BY <2>1, <2>2
<1>6. ASSUME NEW x \in Sits, NEW A \in SUBSET Alarms, Split(x, A) PROVE Formed
  <2>1. CASE s = x
    BY <1>6, <2>1
  <2>2. CASE s # x
    <3>1. PICK k : k = db.seq + 1
      OBVIOUS
    <3>2. PICK c, rows : c = Created(db, "open") /\ rows = SplitRows(db.rows, x, k, A)
      OBVIOUS
    <3>3. PICK e, f, n : e = Departed(db, x, k, A) /\ f = Promoted(e, x) /\ n = MemSplit(mem, x, k, A)
      OBVIOUS
    <3>4. Txn(f, n) /\ k \in Sits /\ db \in Tables
      BY <1>6, <3>1, <3>3, SplitIs, Tabled
    <3>5. c \in Tables
      <4>1. "open" \in LIVE /\ db.seq < MaxSit
        BY <1>6 DEF LIVE, Split
      <4> QED
        BY <3>2, <3>4, <4>1, CreatedIs
    <3>6. s # k
      <4>1. k > db.seq
        BY <3>1, <3>4, TableFields
      <4>2. db.status[k] = "none"
        BY <3>4, <4>1, Tabled, SoundIs
      <4> QED
        BY <4>2
    <3>7. rows \in [Sits -> SUBSET Alarms] /\ rows[s] = db.rows[s]
      BY <2>2, <3>2, <3>4, <3>6, TableFields DEF SplitRows
    <3>8. e = [c EXCEPT !.rows = rows]
      BY <3>2, <3>3 DEF Departed
    <3>9. e \in Tables /\ e.rows = rows
      BY <3>5, <3>7, <3>8, RowsAre
    <3>10. f.rows = e.rows
      BY <3>3, <3>9, PromotedIs
    <3>11. db'.rows[s] = db.rows[s]
      BY <3>4, <3>7, <3>9, <3>10 DEF Txn, Tables
    <3> QED
      BY <3>11
  <2> QED
    BY <2>1, <2>2
<1>7. ASSUME NEW x \in Sits, NEW y \in Sits, NEW A \in SUBSET Alarms, Move(x, y, A) PROVE Formed
  <2>1. CASE s = x \/ s = y
    BY <1>7, <2>1
  <2>2. CASE s # x /\ s # y
    <3>1. PICK rows : rows = MovedRows(db.rows, x, y, A)
      OBVIOUS
    <3>2. PICK e, n : e = Promoted([db EXCEPT !.rows = rows], x) /\ n = MemMoved(mem, x, y, A)
      OBVIOUS
    <3>3. Txn(e, n) /\ db \in Tables
      BY <1>7, <3>1, <3>2, MoveIs, Tabled
    <3>4. rows \in [Sits -> SUBSET Alarms] /\ rows[s] = db.rows[s]
      BY <2>2, <3>1, <3>3, TableFields DEF MovedRows
    <3>5. e.rows = rows
      BY <3>2, <3>3, <3>4, PromotedLate
    <3>6. db'.rows[s] = db.rows[s]
      BY <3>3, <3>4, <3>5 DEF Txn, Tables
    <3> QED
      BY <3>6
  <2> QED
    BY <2>1, <2>2
<1>8. ASSUME NEW x \in Sits, Accept(x) PROVE Formed
  BY <1>8
<1>9. ASSUME NEW x \in Sits, Close(x) \/ Reject(x) PROVE FALSE
  BY <1>0, <1>9, CloseLeaves, RejectLeaves
<1>10. ASSUME NEW A \in SUBSET Windowed, EndWindow(A) PROVE FALSE
  BY <1>0, <1>10, EndWindowLeaves
<1>11. ~HandClear
  BY <1>0, HandClearLeaves
<1> HIDE DEF Formed
<1>12. Gesture => Formed
  BY <1>2, <1>4, <1>5, <1>6, <1>7, <1>8, <1>9, <1>10, <1>11 DEF Gesture
<1>13. ASSUME NEW a \in Alarms, Raise(a) \/ RaiseFlapping(a) \/ ClearTrap(a) PROVE FALSE
  BY <1>0, <1>13, RaiseLeaves, RaiseFlappingLeaves, ClearTrapLeaves
<1>14. ~Sweep
  BY <1>0, SweepLeaves
<1>15. ASSUME NEW x \in Sits, AutonomyCloses(x) PROVE FALSE
  BY <1>0, <1>15, AutonomyClosesLeaves
<1>16. Formed
  BY <1>2, <1>3, <1>12, <1>13, <1>14, <1>15 DEF Next
<1> QED
  BY <1>16 DEF Formed

(* The members of a situation an operator confirmed change by a gesture    *)
(* only, never by the correlator, the pass or the model:                   *)
(* ConfirmedIsTheOperators, of proposals.route, Engine.maintenance and     *)
(* autonomy.run.                                                           *)
THEOREM ConfirmedStaysTheOperators == Spec => ConfirmedIsTheOperators
<1>1. SitInv /\ [Next]_vars =>
         [\A s \in Sits : db.status[s] = "open" /\ db'.rows[s] # db.rows[s] =>
             \/ \E t \in Sits : Merge(s, t) \/ Merge(t, s) \/ Accept(t)
             \/ \E A \in SUBSET Alarms : Split(s, A) \/ \E t \in Sits : Move(s, t, A) \/ Move(t, s, A)]_vars
  <2> SUFFICES ASSUME SitInv, Next, NEW s \in Sits, db.status[s] = "open", db'.rows[s] # db.rows[s]
               PROVE  \/ \E t \in Sits : Merge(s, t) \/ Merge(t, s) \/ Accept(t)
                      \/ \E A \in SUBSET Alarms : Split(s, A) \/ \E t \in Sits : Move(s, t, A) \/ Move(t, s, A)
    OBVIOUS
  <2> QED
    BY NextIsFirm
<1> QED
  BY <1>1, SitInvHolds, PTL DEF Spec, ConfirmedIsTheOperators

(* A burning alarm goes dark by an operator's close or by the raise that  *)
(* takes a flapping one out, and by nothing else.                          *)
LEMMA NextShows ==
    ASSUME SitInv, Next, ~Suffered("gesture")
    PROVE  Shows(db, db') \/ (\E s \in Sits : Close(s)) \/ (\E b \in Alarms : RaiseFlapping(b))
<1>1. ASSUME NEW s \in Sits, AutonomyAccepts(s) \/ Promote(s) PROVE Shows(db, db')
  BY <1>1, PromoteLeaves DEF AutonomyAccepts, Promote
<1>2. ASSUME BatchFails \/ Restart PROVE Shows(db, db')
  BY <1>2, SameStates DEF BatchFails, Restart
<1>3. ASSUME NEW s, NEW A, AskClear(A, s) \/ AskClearAll(s, A) PROVE Shows(db, db')
  BY <1>3, SameStates DEF AskClear, AskClearAll
<1>4. ASSUME Gesture, ~\E s \in Sits : Close(s) PROVE Shows(db, db')
  BY <1>1, <1>3, <1>4, AcceptLeaves, RejectLeaves, MergeLeaves, MoveLeaves, EndWindowLeaves, SplitLeaves,
     HandClearLeaves DEF Gesture
<1> QED
  BY <1>1, <1>2, <1>4, RaiseLeaves, ClearTrapLeaves, SweepLeaves, AutonomyClosesLeaves DEF Next

(* Until a gesture is rolled back, no step but an operator's close, or a   *)
(* raise taken out as flapping, takes an alarm that stays on out of every  *)
(* live situation: no pass, no hand-clear that read its situation too      *)
(* early, no merge, split or rejection.                                    *)
THEOREM BurningStaysShown ==
    Spec => [][~Suffered("gesture") =>
                  \A a \in db.active \cap db'.active :
                     Visible(db, a) /\ ~Visible(db', a)
                         => (\E s \in Sits : Close(s)) \/ (\E b \in Alarms : RaiseFlapping(b))]_vars
<1>1. SitInv /\ [Next]_vars =>
         [~Suffered("gesture") =>
             \A a \in db.active \cap db'.active :
                Visible(db, a) /\ ~Visible(db', a)
                    => (\E s \in Sits : Close(s)) \/ (\E b \in Alarms : RaiseFlapping(b))]_vars
  BY NextShows DEF Shows
<1> QED
  BY <1>1, SitInvHolds, PTL DEF Spec

(* Where no gesture is rolled back at all, that is NothingBurningIsDropped *)
(* itself.                                                                 *)
THEOREM BurningIsNeverDropped == ASSUME "gesture" \notin Mishaps PROVE Spec => NothingBurningIsDropped
<1>1. SitInv /\ [Next]_vars =>
         [\A a \in db.active \cap db'.active :
             Visible(db, a) /\ ~Visible(db', a)
                 => (\E s \in Sits : Close(s)) \/ (\E b \in Alarms : RaiseFlapping(b))]_vars
  <2>1. SitInv => ~Suffered("gesture")
    BY DEF SitInv, Suffered, MishapClasses
  <2> QED
    BY <2>1, NextShows DEF Shows
<1> QED
  BY <1>1, SitInvHolds, PTL DEF Spec, NothingBurningIsDropped

=============================================================================
