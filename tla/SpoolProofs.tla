----------------------------- MODULE SpoolProofs -----------------------------
(***************************************************************************)
(* The spool, for any number of traps and faults and any sizes: no trap is *)
(* classified twice, whatever happens; and as long as no number of a trap  *)
(* is given away, every trap reported durable is kept until it is          *)
(* classified, and the reader never finds a number missing.                *)
(*                                                                         *)
(* A trap gets its number when it joins the outbox, long before it is      *)
(* written: its place there and the next number make it.  So what is       *)
(* numbered is the records of all segments, deleted ones too, and the      *)
(* places of the outbox, and only a new trap adds to it.                   *)
(***************************************************************************)
EXTENDS Spool, SequenceTheorems, WellFoundedInduction, TLAPS

File == [first : Nat \ {0}, recs : Seq(Record), torn : BOOLEAN, synced : Nat]
Size(f) == Len(files[f].recs)
First(f) == files[f].first

Shaped ==
    /\ born \in Nat /\ born <= MaxTraps /\ outbox \in Seq(1 .. born) /\ files \in Seq(File)
    /\ dir \subseteq DOMAIN files /\ wfd = Len(files) /\ (wfd # 0 => dir # {})
    /\ wpc \in {"down", "idle", "write", "sync"}
    /\ wsize \in Nat /\ nextSeq \in Nat \ {0} /\ group \in Nat /\ done \in Nat
    /\ acked \subseteq 1 .. born /\ taken \subseteq 1 .. born /\ rotted \subseteq 1 .. born
    /\ rfd \in DOMAIN files \cup {0} /\ roff \in Nat /\ after \in Nat /\ cursor \in Nat
    /\ count \in [Traps -> Nat] /\ skipped \in Nat /\ faults \in [FaultClasses -> Nat]

(* A record is where its number says, in every segment.                    *)
Placed ==
    \A f \in DOMAIN files : \A i \in DOMAIN files[f].recs :
        files[f].recs[i].seq = First(f) + i - 1 /\ files[f].recs[i].trap \in 1 .. born

(* The segment written to ends where the outbox begins, but for what is    *)
(* being written.                                                          *)
Writing ==
    /\ wpc = "down" => outbox = <<>> /\ group = 0 /\ done = 0
    /\ wpc # "down" =>
          /\ wfd # 0 /\ First(wfd) + wsize = nextSeq /\ Size(wfd) = wsize + done
          /\ group <= Len(outbox) /\ done <= group
          /\ \A i \in 1 .. done : files[wfd].recs[wsize + i].trap = outbox[i]
    /\ wpc = "idle" => done = 0
    /\ wpc = "write" => done < group
    /\ wpc = "sync" => done = group

Written(s, t) ==
    \E f \in DOMAIN files : \E i \in DOMAIN files[f].recs :
        files[f].recs[i].seq = s /\ files[f].recs[i].trap = t
Waiting(s, t) == \E i \in DOMAIN outbox : s = nextSeq + i - 1 /\ t = outbox[i]
Numbered(s, t) == Written(s, t) \/ Waiting(s, t)

(* A trap has one number, and what was read of it is behind the reader,    *)
(* what was classified of it behind the cursor.                            *)
Once ==
    /\ cursor <= after
    /\ \A i, j \in DOMAIN outbox : outbox[i] = outbox[j] => i = j
    /\ \A i \in DOMAIN outbox : outbox[i] \notin acked
    /\ \A t \in Traps, s1, s2 \in Nat : Numbered(s1, t) /\ Numbered(s2, t) => s1 = s2
    /\ \A t \in taken : count[t] = 0 /\ \A s \in Nat : Numbered(s, t) => s <= after
    /\ \A t \in Traps : count[t] # 0 =>
          count[t] = 1 /\ t <= born /\ \A s \in Nat : Numbered(s, t) => s <= cursor

(* What the state owes to a fault.                                         *)
Faulted ==
    /\ wpc = "down" /\ files # <<>> => Suffered("crash") \/ Suffered("power")
    /\ files = <<>> => wpc = "down" /\ ~Suffered("fail") /\ ~Suffered("rot")
    /\ \A f \in DOMAIN files : \A i \in DOMAIN files[f].recs :
          /\ files[f].recs[i].is = "long" => Suffered("header")
          /\ files[f].recs[i].is # "ok" => files[f].recs[i].trap \in rotted
    /\ rotted # {} => Suffered("rot") \/ Suffered("header")

(* While the numbers hold, each segment begins where the one before it     *)
(* ends, and no number is of two traps.                                    *)
Chained ==
    /\ wfd # 0 => wfd \in dir
    /\ \A f, g \in DOMAIN files : f < g => First(f) + Size(f) <= First(g)
    /\ \A f \in dir : f # wfd => Size(f) > 0 /\ \E g \in dir : First(g) = First(f) + Size(f)
    /\ dir # {} => \E f \in dir : First(f) <= cursor + 1
    /\ \A s \in Nat, t, u \in Traps : Numbered(s, t) /\ Numbered(s, u) => t = u

(* A number below n is settled, or read, or its record has decayed; n is   *)
(* no further than what was written, and no further than what was read     *)
(* when nothing decayed.                                                   *)
End == IF wfd = 0 THEN 1 ELSE First(wfd) + Size(wfd)
Top == IF Suffered("fail") THEN nextSeq + Len(outbox) ELSE End
Dealt(n) ==
    \A s \in Nat, t \in Traps :
        Numbered(s, t) /\ s < n => count[t] # 0 \/ t \in taken \/ t \in rotted
Reached(n) == Dealt(n) /\ n <= Top /\ (Intact => n <= after + 1)

(* So are all numbers before the one the reader expects, before its place  *)
(* in its segment, and before a segment that follows one deleted under it. *)
Reading ==
    /\ Reached(after + 1)
    /\ rfd # 0 => Reached(First(rfd) + roff)
    /\ rfd # 0 /\ rfd \notin dir => \E g \in dir : First(g) >= First(rfd) /\ Reached(First(g))
    /\ \A s \in Nat, t \in Traps : Numbered(s, t) /\ s <= cursor => count[t] # 0 \/ t \in rotted
    /\ Intact => skipped = 0

Basic == Shaped /\ Placed /\ Writing /\ Once /\ Faulted
SpoolInv == Basic /\ (NumbersHold => Chained /\ Reading /\ AckedKept)

-----------------------------------------------------------------------------
(* Numbers and segments *)

LEMMA LeastOf ==
    ASSUME NEW S, S \subseteq Nat, S # {}
    PROVE  \E x \in S : \A y \in S : x <= y
<1>1. \E R : /\ IsWellFoundedOn(R, Nat)
             /\ \A x, y \in Nat : x < y => <<x, y>> \in R
  <2>1. IsWellFoundedOn(OpToRel(<, Nat), Nat)
    BY NatLessThanWellFounded
  <2>2. \A x, y \in Nat : x < y => <<x, y>> \in OpToRel(<, Nat)
    BY Zenon DEF OpToRel
  <2> QED
    BY <2>1, <2>2, Zenon
<1>2. PICK R : /\ IsWellFoundedOn(R, Nat)
               /\ \A x, y \in Nat : x < y => <<x, y>> \in R
  BY <1>1, Zenon
<1>3. PICK x \in S : \A y \in S : ~ (<<y, x>> \in R)
  <2>1. IsWellFoundedOn(R, Nat)
    BY <1>2
  <2> QED
    BY <2>1, WFMin, ZenonT(60)
<1>4. \A y \in S : x <= y
  <2> SUFFICES ASSUME NEW y \in S, ~ (x <= y) PROVE FALSE
    OBVIOUS
  <2>1. y < x /\ x \in Nat /\ y \in Nat
    OBVIOUS
  <2> QED
    BY <1>2, <1>3, <2>1
<1> QED
  BY <1>4

(* Of finitely many, one has the greatest value: otherwise there would be  *)
(* a least n among whose first n none has.                                 *)
LEMMA GreatestOf ==
    ASSUME NEW n \in Nat, NEW v \in [1 .. n -> Nat], NEW S, S \subseteq 1 .. n, S # {}
    PROVE  \E f \in S : \A g \in S : v[g] <= v[f]
<1> DEFINE Highest(m) == \E f \in S : f <= m /\ \A g \in S : g <= m => v[g] <= v[f]
<1> DEFINE B == {m \in 0 .. n : (\E f \in S : f <= m) /\ ~Highest(m)}
<1>a. \A f, m \in Nat : /\ m # 0 => (f <= m - 1 <=> f <= m /\ f # m)
                        /\ m <= f \/ f <= m
  OBVIOUS
<1>b. \A x, y, z \in Nat : (x <= y /\ y <= z => x <= z) /\ (x <= y \/ y <= x) /\ x <= x
  OBVIOUS
<1>s. \A f \in S : f \in Nat /\ 1 <= f /\ f <= n /\ v[f] \in Nat
  OBVIOUS
<1>1. B = {}
  <2> SUFFICES ASSUME B # {} PROVE FALSE
    OBVIOUS
  <2>1. B \subseteq Nat
    OBVIOUS
  <2>2. PICK m \in B : \A k \in B : m <= k
    <3> HIDE DEF B
    <3> QED
      BY <2>1, LeastOf
  <2>3. m \in 0 .. n /\ (\E f \in S : f <= m) /\ ~Highest(m)
    BY <2>2
  <2>4. m # 0 /\ m \in Nat /\ m - 1 \in 0 .. n /\ ~(m <= m - 1)
    BY <2>3, <1>s
  <2>b. \A f \in Nat : (f <= m - 1 <=> f <= m /\ f # m) /\ (m <= f \/ f <= m)
    BY <1>a, <2>4, Zenon
  <2>a. m - 1 \notin B
    <3> HIDE DEF B
    <3> QED
      BY <2>2, <2>4
  <2>5. (\E f \in S : f <= m - 1) => Highest(m - 1)
    BY <2>a, <2>4
  <2>6. CASE m \notin S
    <3>1. \A f \in S : f <= m <=> f <= m - 1
      BY <2>b, <2>6, <1>s, Zenon
    <3>2. PICK f \in S : f <= m - 1 /\ \A g \in S : g <= m - 1 => v[g] <= v[f]
      BY <2>3, <2>5, <3>1
    <3> QED
      BY <2>3, <3>1, <3>2
  <2>7. CASE m \in S
    <3>0. m <= m
      BY <2>4
    <3>1. \A f \in S : f <= m <=> f = m \/ f <= m - 1
      BY <2>b, <3>0, <1>s, Zenon
    <3>2. CASE \A f \in S : ~(f <= m - 1)
      <4>1. \A g \in S : g <= m => v[g] <= v[m]
        BY <3>1, <3>2, <1>s
      <4> QED
        BY <2>3, <2>4, <2>7, <4>1
    <3>3. CASE \E f \in S : f <= m - 1
      <4>1. PICK f \in S : f <= m - 1 /\ \A g \in S : g <= m - 1 => v[g] <= v[f]
        BY <2>5, <3>3
      <4>3. CASE v[f] <= v[m]
        <5>1. ASSUME NEW g \in S, g <= m PROVE v[g] <= v[m]
          <6>1. v[g] \in Nat /\ v[m] \in Nat /\ v[f] \in Nat /\ (g = m \/ v[g] <= v[f])
            BY <3>1, <4>1, <5>1, <1>s, <2>7, Zenon
          <6> QED
            BY <6>1, <4>3, <1>b, Zenon
        <5> QED
          BY <2>3, <2>4, <2>7, <5>1
      <4>4. CASE ~(v[f] <= v[m])
        <5>1. ASSUME NEW g \in S, g <= m PROVE v[g] <= v[f]
          <6>1. v[g] \in Nat /\ v[m] \in Nat /\ v[f] \in Nat /\ (g = m \/ v[g] <= v[f])
            BY <3>1, <4>1, <5>1, <1>s, <2>7, Zenon
          <6> QED
            BY <6>1, <4>4, <1>b, Zenon
        <5>2. f <= m
          BY <3>1, <4>1
        <5> QED
          BY <2>3, <5>1, <5>2
      <4> QED
        BY <4>3, <4>4
    <3> QED
      BY <3>2, <3>3
  <2> QED
    BY <2>6, <2>7
<1>2. \A f \in S : f <= n
  BY <1>s
<1>3. Highest(n)
  <2>0. n \in 0 .. n
    OBVIOUS
  <2>1. n \in 0 .. n /\ \E f \in S : f <= n
    BY <2>0, <1>2, Zenon
  <2> QED
    BY <1>1, <2>1
<1> QED
  BY <1>2, <1>3

LEMMA SpoolFields ==
    ASSUME Shaped
    PROVE  /\ DOMAIN files = 1 .. Len(files) /\ Len(files) \in Nat
           /\ DOMAIN outbox = 1 .. Len(outbox) /\ Len(outbox) \in Nat
           /\ \A i \in DOMAIN outbox : outbox[i] \in 1 .. born /\ outbox[i] \in Traps
           /\ \A f \in DOMAIN files :
                 /\ files[f] \in File /\ First(f) \in Nat \ {0} /\ files[f].recs \in Seq(Record)
                 /\ Size(f) \in Nat /\ DOMAIN files[f].recs = 1 .. Size(f)
                 /\ \A i \in DOMAIN files[f].recs :
                       /\ files[f].recs[i] \in Record /\ files[f].recs[i].seq \in Nat \ {0}
                       /\ files[f].recs[i].trap \in Traps
                       /\ files[f].recs[i].is \in {"ok", "bad", "long"}
           /\ \A t \in taken : t \in Traps
           /\ \A t \in acked : t \in Traps
<1>1. /\ born \in Nat /\ born <= MaxTraps /\ outbox \in Seq(1 .. born) /\ files \in Seq(File)
      /\ MaxTraps \in Nat /\ taken \subseteq 1 .. born /\ acked \subseteq 1 .. born
  BY SpoolConstants DEF Shaped
<1>2. \A t \in 1 .. born : t \in Traps
  BY <1>1 DEF Traps
<1>3. \A f \in DOMAIN files : files[f] \in File
  BY <1>1
<1>4. \A f \in DOMAIN files : /\ First(f) \in Nat \ {0} /\ files[f].recs \in Seq(Record)
                              /\ Size(f) \in Nat /\ DOMAIN files[f].recs = 1 .. Size(f)
  BY <1>3 DEF File, First, Size
<1>5. \A f \in DOMAIN files : \A i \in DOMAIN files[f].recs : files[f].recs[i] \in Record
  BY <1>4
<1>6. \A r \in Record : r.seq \in Nat \ {0} /\ r.trap \in Traps /\ r.is \in {"ok", "bad", "long"}
  BY DEF Record
<1>7. /\ DOMAIN files = 1 .. Len(files) /\ Len(files) \in Nat
      /\ DOMAIN outbox = 1 .. Len(outbox) /\ Len(outbox) \in Nat
      /\ \A i \in DOMAIN outbox : outbox[i] \in 1 .. born
  BY <1>1
<1>8. \A f \in DOMAIN files : \A i \in DOMAIN files[f].recs :
          /\ files[f].recs[i].seq \in Nat \ {0} /\ files[f].recs[i].trap \in Traps
          /\ files[f].recs[i].is \in {"ok", "bad", "long"}
  BY <1>5, <1>6
<1>9. (\A t \in taken : t \in Traps) /\ \A t \in acked : t \in Traps
  BY <1>1, <1>2
<1> QED
  BY <1>2, <1>3, <1>4, <1>5, <1>7, <1>8, <1>9

LEMMA CutTo ==
    ASSUME NEW recs \in Seq(Record), NEW n \in 0 .. Len(recs), NEW r, r = SubSeq(recs, 1, n)
    PROVE  /\ r \in Seq(Record) /\ Len(r) = n /\ DOMAIN r = 1 .. n
           /\ \A i \in 1 .. n : r[i] = recs[i]
<1>1. n \in Nat /\ \A i \in 1 .. n : recs[i] \in Record
  OBVIOUS
<1>2. /\ SubSeq(recs, 1, n) \in Seq(Record) /\ Len(SubSeq(recs, 1, n)) = n
      /\ \A i \in 1 .. n : SubSeq(recs, 1, n)[i] = recs[i]
  BY <1>1, SubSeqProperties
<1> QED
  BY <1>1, <1>2

LEMMA IntactPrefixIs ==
    ASSUME NEW recs \in Seq(Record)
    PROVE  /\ IntactPrefix(recs) \in 0 .. Len(recs)
           /\ (\A i \in DOMAIN recs : recs[i].is = "ok") => IntactPrefix(recs) = Len(recs)
<1> DEFINE bad == {i \in DOMAIN recs : recs[i].is # "ok"}
<1>1. Len(recs) \in Nat /\ DOMAIN recs = 1 .. Len(recs) /\ bad \subseteq 1 .. Len(recs)
  OBVIOUS
<1>2. CASE bad = {}
  BY <1>1, <1>2 DEF IntactPrefix
<1>3. CASE bad # {}
  <2>1. \E i \in bad : \A j \in bad : i <= j
    <3>1. bad \subseteq Nat
      BY <1>1
    <3> HIDE DEF bad
    <3> QED
      BY <1>3, <3>1, LeastOf
  <2>2. PICK i \in bad : i = CHOOSE k \in bad : \A j \in bad : k <= j
    BY <2>1
  <2>3. IntactPrefix(recs) = i - 1
    BY <1>3, <2>2 DEF IntactPrefix
  <2> QED
    BY <1>1, <1>3, <2>2, <2>3
<1> QED
  BY <1>2, <1>3

LEMMA NewestIs ==
    ASSUME Shaped, NEW S, S \subseteq DOMAIN files, S # {}
    PROVE  Newest(S) \in S /\ \A g \in S : First(g) <= First(Newest(S))
<1> DEFINE v == [f \in 1 .. Len(files) |-> First(f)]
<1>1. Len(files) \in Nat /\ v \in [1 .. Len(files) -> Nat] /\ S \subseteq 1 .. Len(files)
  BY SpoolFields
<1>2. \E f \in S : \A g \in S : v[g] <= v[f]
  <2> HIDE DEF v
  <2> QED
    BY <1>1, GreatestOf
<1>3. \E f \in S : \A g \in S : First(g) <= First(f)
  BY <1>1, <1>2
<1> QED
  BY <1>3 DEF Newest, First

LEMMA OldestIs ==
    ASSUME Shaped, NEW S, S \subseteq DOMAIN files, S # {}
    PROVE  Oldest(S) \in S /\ \A g \in S : First(Oldest(S)) <= First(g)
<1> DEFINE N == {First(f) : f \in S}
<1>1. N \subseteq Nat /\ N # {}
  BY SpoolFields
<1>2. \E x \in N : \A y \in N : x <= y
  BY <1>1, LeastOf
<1>3. \E f \in S : \A g \in S : First(f) <= First(g)
  BY <1>2
<1> QED
  BY <1>3 DEF Oldest, First

-----------------------------------------------------------------------------
(* What a step does to the segments *)

(* A step that writes no record leaves of each segment its first records,  *)
(* number for number, and adds only empty ones.                            *)
Kept(f) ==
    /\ First(f)' = First(f) /\ Size(f)' <= Size(f)
    /\ \A i \in DOMAIN files'[f].recs :
          /\ i \in DOMAIN files[f].recs
          /\ files'[f].recs[i].seq = files[f].recs[i].seq
          /\ files'[f].recs[i].trap = files[f].recs[i].trap
Trimmed ==
    /\ files' \in Seq(File) /\ DOMAIN files \subseteq DOMAIN files' /\ Len(files) <= Len(files')
    /\ \A f \in DOMAIN files : Kept(f)
    /\ \A f \in DOMAIN files' \ DOMAIN files : files'[f].recs = <<>>
SameRecords ==
    \A f \in DOMAIN files : \A i \in DOMAIN files'[f].recs : files'[f].recs[i] = files[f].recs[i]

LEMMA ReplaceOne ==
    ASSUME NEW fs \in Seq(File), NEW w \in DOMAIN fs, NEW d \in File,
           NEW e, e = [fs EXCEPT ![w] = d]
    PROVE  /\ e \in Seq(File) /\ Len(e) = Len(fs) /\ DOMAIN e = DOMAIN fs
           /\ e[w] = d /\ \A f \in DOMAIN fs : f # w => e[f] = fs[f]
BY ExceptSeq

LEMMA AddOne ==
    ASSUME NEW fs \in Seq(File), NEW d \in File, NEW e, e = Append(fs, d)
    PROVE  /\ e \in Seq(File) /\ Len(e) = Len(fs) + 1 /\ Len(fs) \in Nat
           /\ DOMAIN e = 1 .. Len(fs) + 1 /\ DOMAIN fs = 1 .. Len(fs)
           /\ e[Len(e)] = d /\ \A f \in DOMAIN fs : e[f] = fs[f]
BY AppendProperties

LEMMA SegmentIs ==
    ASSUME NEW n \in Nat \ {0}
    PROVE  /\ Segment(n) \in File /\ Segment(n).first = n /\ Segment(n).recs = <<>>
           /\ Len(Segment(n).recs) = 0
BY DEF Segment, File

LEMMA SameFiles ==
    ASSUME Shaped, UNCHANGED files
    PROVE  Trimmed /\ \A f \in DOMAIN files : Size(f)' = Size(f)
BY SpoolFields DEF Shaped, Trimmed, Kept, First, Size

LEMMA WriterOpen ==
    ASSUME Shaped, Writing, wpc # "down"
    PROVE  /\ wfd \in DOMAIN files /\ files[wfd] \in File /\ files \in Seq(File)
           /\ files[wfd].recs \in Seq(Record) /\ Size(wfd) \in Nat
           /\ DOMAIN files[wfd].recs = 1 .. Size(wfd) /\ First(wfd) \in Nat \ {0}
           /\ wfd = Len(files) /\ Size(wfd) = wsize + done /\ First(wfd) + wsize = nextSeq
<1>1. wfd # 0 /\ wfd = Len(files) /\ files \in Seq(File)
  BY DEF Shaped, Writing
<1>2. wfd \in DOMAIN files
  BY <1>1
<1> QED
  BY <1>1, <1>2, SpoolFields DEF Writing

LEMMA WriteTornFiles ==
    ASSUME Shaped, Writing, WriteTorn
    PROVE  /\ Trimmed /\ Len(files') = Len(files) /\ DOMAIN files' = DOMAIN files
           /\ \A f \in DOMAIN files : files'[f].recs = files[f].recs
<1>1. wfd \in DOMAIN files /\ files[wfd] \in File /\ files \in Seq(File)
  BY WriterOpen DEF WriteTorn
<1> DEFINE d == [files[wfd] EXCEPT !.torn = TRUE]
<1>2. d \in File /\ d.first = files[wfd].first /\ d.recs = files[wfd].recs
  BY <1>1 DEF File
<1>3. files' = [files EXCEPT ![wfd] = d]
  BY <1>1 DEF WriteTorn
<1> HIDE DEF d
<1>4. /\ files' \in Seq(File) /\ Len(files') = Len(files) /\ DOMAIN files' = DOMAIN files
      /\ files'[wfd] = d /\ \A f \in DOMAIN files : f # wfd => files'[f] = files[f]
  BY <1>1, <1>2, <1>3, ReplaceOne
<1>5. \A f \in DOMAIN files : files'[f].recs = files[f].recs /\ files'[f].first = files[f].first
  BY <1>2, <1>4
<1> QED
  BY <1>4, <1>5, SpoolFields DEF Trimmed, Kept, First, Size

LEMMA WriteRecordFiles ==
    ASSUME Shaped, Writing, WriteRecord
    PROVE  /\ files' \in Seq(File) /\ Len(files') = Len(files) /\ DOMAIN files' = DOMAIN files
           /\ wfd \in DOMAIN files
           /\ \A f \in DOMAIN files : f # wfd => files'[f] = files[f]
           /\ First(wfd)' = First(wfd) /\ Size(wfd)' = Size(wfd) + 1
           /\ done + 1 \in DOMAIN outbox
           /\ \A i \in DOMAIN files[wfd].recs : files'[wfd].recs[i] = files[wfd].recs[i]
           /\ files'[wfd].recs[Size(wfd) + 1] =
                 [seq |-> nextSeq + done, trap |-> outbox[done + 1], is |-> "ok"]
<1>1. /\ wfd \in DOMAIN files /\ files[wfd] \in File /\ files \in Seq(File)
      /\ files[wfd].recs \in Seq(Record) /\ Size(wfd) \in Nat
      /\ nextSeq + done \in Nat \ {0} /\ done + 1 \in DOMAIN outbox
      /\ DOMAIN files[wfd].recs = 1 .. Size(wfd)
      /\ outbox[done + 1] \in Traps
  <2>1. wpc # "down" /\ done < group /\ group <= Len(outbox) /\ done \in Nat /\ group \in Nat
    BY DEF Writing, WriteRecord, Shaped
  <2>2. done + 1 \in DOMAIN outbox
    BY <2>1, SpoolFields
  <2>3. nextSeq + done \in Nat \ {0}
    BY <2>1 DEF Shaped
  <2> QED
    BY <2>1, <2>2, <2>3, WriterOpen, SpoolFields
<1> DEFINE r == [seq |-> nextSeq + done, trap |-> outbox[done + 1], is |-> "ok"]
<1> DEFINE d == [files[wfd] EXCEPT !.recs = Append(files[wfd].recs, r), !.torn = FALSE]
<1>2. r \in Record
  BY <1>1 DEF Record
<1>3. files' = [files EXCEPT ![wfd] = d]
  BY <1>1 DEF WriteRecord, File
<1>4. /\ Append(files[wfd].recs, r) \in Seq(Record)
      /\ Len(Append(files[wfd].recs, r)) = Size(wfd) + 1
      /\ \A i \in DOMAIN files[wfd].recs : Append(files[wfd].recs, r)[i] = files[wfd].recs[i]
      /\ Append(files[wfd].recs, r)[Size(wfd) + 1] = r
  <2> HIDE DEF r
  <2> QED
    BY <1>1, <1>2, AppendProperties DEF Size
<1>5. d \in File /\ d.first = files[wfd].first /\ d.recs = Append(files[wfd].recs, r)
  <2> HIDE DEF r
  <2> QED
    BY <1>1, <1>4 DEF File
<1>6. /\ files' \in Seq(File) /\ Len(files') = Len(files) /\ DOMAIN files' = DOMAIN files
      /\ files'[wfd] = d /\ \A f \in DOMAIN files : f # wfd => files'[f] = files[f]
  <2> HIDE DEF d
  <2> QED
    BY <1>1, <1>3, <1>5, ReplaceOne
<1> HIDE DEF d
<1>7. /\ files'[wfd].first = files[wfd].first /\ files'[wfd].recs = Append(files[wfd].recs, r)
  BY <1>5, <1>6
<1>8. First(wfd)' = First(wfd) /\ Size(wfd)' = Size(wfd) + 1
  <2>1. wfd' = wfd
    BY DEF WriteRecord
  <2> QED
    BY <1>4, <1>7, <2>1 DEF First, Size
<1> QED
  BY <1>1, <1>4, <1>6, <1>7, <1>8

LEMMA SyncFiles ==
    ASSUME Shaped, Writing, Sync
    PROVE  /\ Trimmed /\ \A f \in DOMAIN files : files'[f].recs = files[f].recs
           /\ wfd' \in DOMAIN files' /\ wfd' = Len(files') /\ dir' = dir \cup {wfd'}
           /\ wfd \in DOMAIN files
           /\ \/ Len(files') = Len(files) /\ wfd' = wfd /\ wsize' = Size(wfd)
              \/ /\ Len(files') = Len(files) + 1 /\ files'[wfd'].recs = <<>> /\ wsize' = 0
                 /\ files'[wfd'].first = nextSeq + group /\ Size(wfd) > 0
<1> DEFINE size == Len(files[wfd].recs)
<1> DEFINE synced == [files EXCEPT ![wfd].synced = size]
<1> DEFINE d == [files[wfd] EXCEPT !.synced = size]
<1>1. /\ wfd \in DOMAIN files /\ files[wfd] \in File /\ files \in Seq(File) /\ size \in Nat
      /\ nextSeq + group \in Nat \ {0}
  <2>1. wpc # "down" /\ nextSeq \in Nat \ {0} /\ group \in Nat
    BY DEF Sync, Shaped
  <2>2. nextSeq + group \in Nat \ {0}
    BY <2>1
  <2> QED
    BY <2>1, <2>2, WriterOpen DEF Size
<1>2. d \in File /\ d.first = files[wfd].first /\ d.recs = files[wfd].recs
  <2> HIDE DEF size
  <2> QED
    BY <1>1 DEF File
<1>3. synced = [files EXCEPT ![wfd] = d]
  BY <1>1 DEF File
<1>4. /\ synced \in Seq(File) /\ Len(synced) = Len(files) /\ DOMAIN synced = DOMAIN files
      /\ \A f \in DOMAIN files : synced[f].recs = files[f].recs /\ synced[f].first = files[f].first
  <2> HIDE DEF d, synced
  <2>1. /\ synced \in Seq(File) /\ Len(synced) = Len(files) /\ DOMAIN synced = DOMAIN files
        /\ synced[wfd] = d /\ \A f \in DOMAIN files : f # wfd => synced[f] = files[f]
    BY <1>1, <1>2, <1>3, ReplaceOne
  <2> QED
    BY <2>1, <1>2
<1>5. /\ files' = IF size >= SegLen THEN Append(synced, Segment(nextSeq + group)) ELSE synced
      /\ wfd' = IF size >= SegLen THEN Len(files') ELSE wfd
      /\ dir' = dir \cup {wfd'} /\ wsize' = IF size >= SegLen THEN 0 ELSE size
  BY DEF Sync
<1>6. CASE ~(size >= SegLen)
  <2>1. files' = synced /\ wfd' = wfd /\ wsize' = size
    BY <1>5, <1>6
  <2> HIDE DEF size, synced, d
  <2>2. Trimmed
    BY SMTT(60), <1>4, <2>1, SpoolFields DEF Trimmed, Kept, First, Size
  <2>3. wfd' \in DOMAIN files' /\ wfd' = Len(files')
    BY <1>1, <1>4, <2>1 DEF Shaped
  <2> QED
    BY ZenonT(60), <1>1, <1>4, <1>5, <2>1, <2>2, <2>3 DEF Size, size
<1>7. CASE size >= SegLen
  <2>0. Size(wfd) > 0
    <3> HIDE DEF synced, d
    <3> QED
      BY <1>1, <1>7, SpoolConstants DEF Size
  <2>1. files' = Append(synced, Segment(nextSeq + group)) /\ wfd' = Len(files') /\ wsize' = 0
    BY <1>5, <1>7
  <2> HIDE DEF size, synced, d
  <2>2. /\ files' \in Seq(File) /\ Len(files') = Len(synced) + 1 /\ Len(synced) \in Nat
        /\ DOMAIN files' = 1 .. Len(synced) + 1 /\ DOMAIN synced = 1 .. Len(synced)
        /\ files'[Len(files')] = Segment(nextSeq + group)
        /\ \A f \in DOMAIN synced : files'[f] = synced[f]
    <3>1. Segment(nextSeq + group) \in File /\ synced \in Seq(File)
      BY <1>1, <1>4, SegmentIs
    <3> QED
      BY <2>1, <3>1, AddOne
  <2>3. wfd' \in DOMAIN files' /\ files'[wfd'].first = nextSeq + group /\ files'[wfd'].recs = <<>>
    BY <1>1, <2>1, <2>2, SegmentIs
  <2>4. \A f \in DOMAIN files : files'[f].recs = files[f].recs /\ files'[f].first = files[f].first
    BY <1>4, <2>2
  <2>5. \A f \in DOMAIN files' \ DOMAIN files : files'[f].recs = <<>>
    BY <1>4, <2>1, <2>2, <2>3
  <2>6. Trimmed
    BY <1>4, <2>2, <2>4, <2>5, SpoolFields DEF Trimmed, Kept, First, Size
  <2> QED
    BY ZenonT(60), <1>1, <1>4, <1>5, <2>0, <2>1, <2>2, <2>3, <2>4, <2>6
<1> QED
  BY <1>6, <1>7

LEMMA AppendFailsFiles ==
    ASSUME Shaped, Writing, AppendFails
    PROVE  /\ Trimmed /\ Len(files') = Len(files) /\ DOMAIN files' = DOMAIN files
           /\ wfd \in DOMAIN files /\ Size(wfd)' = wsize /\ First(wfd)' = First(wfd)
           /\ \A f \in DOMAIN files : f # wfd => files'[f] = files[f]
           /\ \A i \in DOMAIN files'[wfd].recs :
                 i \in DOMAIN files[wfd].recs /\ files'[wfd].recs[i] = files[wfd].recs[i]
<1>1. /\ wfd \in DOMAIN files /\ files[wfd] \in File /\ files \in Seq(File)
      /\ wsize \in 0 .. Size(wfd) /\ Size(wfd) \in Nat
  <2>1. wpc # "down" /\ done \in Nat /\ wsize \in Nat /\ Size(wfd) = wsize + done
    BY WriterOpen DEF AppendFails, Shaped
  <2> QED
    BY <2>1, WriterOpen
<1> DEFINE r == SubSeq(files[wfd].recs, 1, wsize)
<1> DEFINE n == IF files[wfd].synced < wsize THEN files[wfd].synced ELSE wsize
<1> DEFINE d == [files[wfd] EXCEPT !.recs = r, !.torn = FALSE, !.synced = n]
<1>2. n \in Nat /\ files' = [files EXCEPT ![wfd] = d]
  BY <1>1 DEF AppendFails, File, CutBack, Cut
<1>3. /\ r \in Seq(Record) /\ Len(r) = wsize /\ DOMAIN r = 1 .. wsize
      /\ \A i \in 1 .. wsize : r[i] = files[wfd].recs[i]
  <2>1. files[wfd].recs \in Seq(Record) /\ wsize \in 0 .. Len(files[wfd].recs)
    BY <1>1 DEF File, Size
  <2> HIDE DEF r
  <2>2. r = SubSeq(files[wfd].recs, 1, wsize)
    BY DEF r
  <2> QED
    BY <2>1, <2>2, CutTo
<1>4. /\ d \in File /\ d.first = files[wfd].first /\ Len(d.recs) = wsize
      /\ DOMAIN d.recs = 1 .. wsize /\ \A i \in 1 .. wsize : d.recs[i] = files[wfd].recs[i]
  <2> HIDE DEF n, r
  <2> QED
    BY <1>1, <1>2, <1>3 DEF File
<1> HIDE DEF n, r, d
<1>5. /\ files' \in Seq(File) /\ Len(files') = Len(files) /\ DOMAIN files' = DOMAIN files
      /\ files'[wfd] = d /\ \A f \in DOMAIN files : f # wfd => files'[f] = files[f]
  BY <1>1, <1>2, <1>4, ReplaceOne
<1>6. wfd' = wfd
  BY DEF AppendFails
<1>7. First(wfd)' = First(wfd) /\ Size(wfd)' = wsize
  BY <1>4, <1>5, <1>6 DEF First, Size
<1>8. \A i \in DOMAIN files'[wfd].recs :
          i \in DOMAIN files[wfd].recs /\ files'[wfd].recs[i] = files[wfd].recs[i]
  BY <1>1, <1>4, <1>5, SpoolFields
<1>9. Trimmed
  <2>0. files'[wfd].first = files[wfd].first /\ Len(files'[wfd].recs) <= Len(files[wfd].recs)
    BY <1>1, <1>4, <1>5 DEF Size
  <2>1. \A f \in DOMAIN files : Kept(f)
    BY SMTT(60), <1>5, <1>8, <2>0, SpoolFields DEF Kept, First, Size
  <2> QED
    BY <1>5, <2>1, SpoolFields DEF Trimmed
<1> QED
  BY <1>1, <1>5, <1>7, <1>8, <1>9

LEMMA DecaysFiles ==
    ASSUME Shaped, Placed, NEW how \in {"bad", "long"}, Decays(how)
    PROVE  /\ Trimmed /\ Len(files') = Len(files) /\ DOMAIN files' = DOMAIN files
           /\ \A f \in DOMAIN files : Size(f)' = Size(f)
           /\ rotted \subseteq rotted' /\ rotted' \subseteq 1 .. born /\ rotted' # {}
           /\ \A f \in DOMAIN files : \A i \in DOMAIN files[f].recs :
                 \/ files'[f].recs[i] = files[f].recs[i]
                 \/ /\ files'[f].recs[i].is = how /\ files'[f].recs[i].trap \in rotted'
                    /\ files'[f].recs[i].trap = files[f].recs[i].trap
<1>0. PICK f \in dir : \E i \in DOMAIN files[f].recs :
          /\ files' = [files EXCEPT ![f].recs[i].is = how]
          /\ rotted' = rotted \cup {files[f].recs[i].trap}
  BY DEF Decays
<1>1. PICK i \in DOMAIN files[f].recs :
          /\ files' = [files EXCEPT ![f].recs[i].is = how]
          /\ rotted' = rotted \cup {files[f].recs[i].trap}
  BY <1>0
<1>2. /\ f \in DOMAIN files /\ files[f] \in File /\ files \in Seq(File)
      /\ files[f].recs \in Seq(Record) /\ files[f].recs[i] \in Record
      /\ files[f].recs[i].trap \in 1 .. born
      /\ i \in 1 .. Len(files[f].recs)
  BY SpoolFields DEF Shaped, Placed, Size
<1> DEFINE r == [files[f].recs[i] EXCEPT !.is = how]
<1> DEFINE recs == [files[f].recs EXCEPT ![i] = r]
<1> DEFINE d == [files[f] EXCEPT !.recs = recs]
<1>3. r \in Record /\ r.seq = files[f].recs[i].seq /\ r.trap = files[f].recs[i].trap /\ r.is = how
  BY <1>2 DEF Record
<1>4. files' = [files EXCEPT ![f] = d]
  BY <1>1, <1>2 DEF File
<1> HIDE DEF r
<1>5. /\ recs \in Seq(Record) /\ Len(recs) = Len(files[f].recs) /\ DOMAIN recs = DOMAIN files[f].recs
      /\ recs[i] = r /\ \A j \in DOMAIN recs : j # i => recs[j] = files[f].recs[j]
  BY <1>2, <1>3, ExceptSeq
<1> HIDE DEF recs
<1>6. d \in File /\ d.first = files[f].first /\ d.recs = recs
  BY <1>2, <1>5 DEF File
<1> HIDE DEF d
<1>7. /\ files' \in Seq(File) /\ Len(files') = Len(files) /\ DOMAIN files' = DOMAIN files
      /\ files'[f] = d /\ \A g \in DOMAIN files : g # f => files'[g] = files[g]
  BY <1>2, <1>4, <1>6, ReplaceOne
<1>8. \A g \in DOMAIN files : \A j \in DOMAIN files[g].recs :
          \/ files'[g].recs[j] = files[g].recs[j]
          \/ /\ files'[g].recs[j].is = how /\ files'[g].recs[j].trap \in rotted'
             /\ files'[g].recs[j].trap = files[g].recs[j].trap
             /\ files'[g].recs[j].seq = files[g].recs[j].seq
  BY <1>1, <1>3, <1>5, <1>6, <1>7
<1>9. \A g \in DOMAIN files : /\ First(g)' = First(g) /\ Size(g)' = Size(g)
                              /\ DOMAIN files'[g].recs = DOMAIN files[g].recs
  BY <1>5, <1>6, <1>7 DEF First, Size
<1>10. \A g \in DOMAIN files : Kept(g)
  BY <1>8, <1>9, SpoolFields DEF Kept
<1>11. Trimmed
  BY <1>7, <1>10, SpoolFields DEF Trimmed
<1>12. rotted \subseteq rotted' /\ rotted' \subseteq 1 .. born /\ rotted' # {}
  BY <1>1, <1>2 DEF Shaped
<1> QED
  BY <1>7, <1>8, <1>9, <1>11, <1>12

LEMMA RecoverFiles ==
    ASSUME Shaped, Placed, Recover
    PROVE  /\ Trimmed /\ Len(files') = Len(files) + 1
           /\ wfd' = Len(files') /\ wfd' \in DOMAIN files' /\ wfd' \notin DOMAIN files
           /\ files'[wfd'].recs = <<>> /\ files'[wfd'].first = nextSeq' /\ nextSeq' \in Nat \ {0}
           /\ \/ files = <<>> /\ dir = {} /\ dir' = {wfd'} /\ nextSeq' = 1
              \/ \E nw \in dir, keep \in Nat :
                    /\ nw = Newest(dir) /\ keep = IntactPrefix(files[nw].recs)
                    /\ Size(nw)' = keep /\ nextSeq' = First(nw) + keep
                    /\ \A f \in DOMAIN files : f # nw => files'[f] = files[f]
                    /\ \A i \in DOMAIN files'[nw].recs :
                          i \in DOMAIN files[nw].recs /\ files'[nw].recs[i] = files[nw].recs[i]
                    /\ dir' = (IF keep = 0 THEN dir \ {nw} ELSE dir) \cup {wfd'}
<1>1. CASE dir = {}
  <2>1. files = <<>> /\ Len(files) = 0 /\ DOMAIN files = {}
    BY <1>1, SpoolFields DEF Shaped
  <2>2. files' = Append(files, Segment(1)) /\ wfd' = Len(files') /\ nextSeq' = 1 /\ dir' = {wfd'}
    BY <1>1 DEF Recover
  <2>3. /\ files' \in Seq(File) /\ Len(files') = 1 /\ DOMAIN files' = 1 .. 1
        /\ files'[Len(files')] = Segment(1)
    BY <2>1, <2>2, SegmentIs, AddOne DEF Shaped
  <2>4. Trimmed
    BY <2>1, <2>2, <2>3, SegmentIs DEF Trimmed
  <2> QED
    BY <1>1, <2>1, <2>2, <2>3, <2>4, SegmentIs
<1>2. CASE dir # {}
  <2>0. PICK nw \in dir : nw = Newest(dir)
    BY <1>2, NewestIs DEF Shaped
  <2> DEFINE keep == IntactPrefix(files[nw].recs)
  <2> DEFINE r == SubSeq(files[nw].recs, 1, keep)
  <2> DEFINE n == IF files[nw].synced < keep THEN files[nw].synced ELSE keep
  <2> DEFINE d == [files[nw] EXCEPT !.recs = r, !.torn = FALSE, !.synced = n]
  <2> DEFINE cut == [files EXCEPT ![nw] = d]
  <2> DEFINE next == IF keep = 0 THEN files[nw].first ELSE files[nw].recs[keep].seq + 1
  <2>1. /\ nw \in dir /\ nw \in DOMAIN files /\ files[nw] \in File /\ files \in Seq(File)
        /\ files[nw].recs \in Seq(Record) /\ First(nw) \in Nat \ {0} /\ Size(nw) \in Nat
        /\ DOMAIN files[nw].recs = 1 .. Size(nw)
    <3>1. nw \in DOMAIN files
      BY DEF Shaped
    <3> QED
      BY <3>1, SpoolFields DEF Shaped
  <2>2. /\ files' = Append(cut, Segment(next)) /\ nextSeq' = next /\ wfd' = Len(files')
        /\ dir' = (IF keep = 0 THEN dir \ {nw} ELSE dir) \cup {wfd'}
    <3>1. [files EXCEPT ![nw] = Cut(@, keep)] = cut
      BY <2>1 DEF Cut
    <3> QED
      BY <1>2, <2>0, <3>1 DEF Recover, EmptyRestartsAt
  <2>3. keep \in 0 .. Size(nw) /\ keep \in Nat
    BY <2>1, IntactPrefixIs DEF Size
  <2> HIDE DEF keep
  <2>4. next = First(nw) + keep /\ next \in Nat \ {0}
    <3>1. CASE keep = 0
      BY <2>1, <3>1 DEF First
    <3>2. CASE keep # 0
      <4>1. keep \in DOMAIN files[nw].recs
        BY <2>1, <2>3, <3>2
      <4>2. files[nw].recs[keep].seq = First(nw) + keep - 1
        BY <2>1, <4>1 DEF Placed
      <4> QED
        BY <2>1, <2>3, <3>2, <4>2
    <3> QED
      BY <3>1, <3>2
  <2> HIDE DEF next
  <2>5. /\ r \in Seq(Record) /\ Len(r) = keep /\ DOMAIN r = 1 .. keep
        /\ \A i \in 1 .. keep : r[i] = files[nw].recs[i]
    <3>1. r = SubSeq(files[nw].recs, 1, keep) /\ keep \in 0 .. Len(files[nw].recs)
      BY <2>3 DEF Size
    <3> HIDE DEF r
    <3> QED
      BY <2>1, <3>1, CutTo
  <2> HIDE DEF r
  <2>6. d \in File /\ d.first = files[nw].first /\ d.recs = r
    <3>1. n \in Nat
      BY <2>1, <2>3 DEF File
    <3> HIDE DEF n
    <3> QED
      BY <2>1, <2>5, <3>1 DEF File
  <2> HIDE DEF d
  <2>7. /\ cut \in Seq(File) /\ Len(cut) = Len(files) /\ DOMAIN cut = DOMAIN files
        /\ cut[nw] = d /\ \A f \in DOMAIN files : f # nw => cut[f] = files[f]
    <3>1. cut = [files EXCEPT ![nw] = d]
      OBVIOUS
    <3> HIDE DEF cut
    <3> QED
      BY <2>1, <2>6, <3>1, ReplaceOne
  <2> HIDE DEF cut
  <2>8. /\ files' \in Seq(File) /\ Len(files') = Len(files) + 1 /\ DOMAIN files' = 1 .. Len(files) + 1
        /\ DOMAIN files = 1 .. Len(files) /\ Len(files) \in Nat
        /\ files'[Len(files')] = Segment(next) /\ \A f \in DOMAIN files : files'[f] = cut[f]
    BY <2>2, <2>4, <2>7, SegmentIs, AddOne
  <2>9. /\ wfd' \in DOMAIN files' /\ wfd' \notin DOMAIN files
        /\ files'[wfd'].first = next /\ files'[wfd'].recs = <<>>
        /\ \A f \in DOMAIN files' \ DOMAIN files : f = wfd'
    BY <2>2, <2>4, <2>8, SegmentIs
  <2>10. /\ \A f \in DOMAIN files : f # nw => files'[f] = files[f]
         /\ files'[nw].first = files[nw].first /\ files'[nw].recs = r
    BY <2>1, <2>6, <2>7, <2>8
  <2>11. /\ Len(files'[nw].recs) = keep
         /\ \A i \in DOMAIN files'[nw].recs :
               i \in DOMAIN files[nw].recs /\ files'[nw].recs[i] = files[nw].recs[i]
    BY <2>1, <2>3, <2>5, <2>10
  <2>12. Trimmed
    <3>1. Kept(nw)
      <4>1. Len(files'[nw].recs) <= Len(files[nw].recs)
        BY <2>1, <2>3, <2>11 DEF Size
      <4> QED
        BY <2>10, <2>11, <4>1 DEF Kept, First, Size
    <3>2. ASSUME NEW f \in DOMAIN files, f # nw PROVE Kept(f)
      <4>1. files'[f] = files[f] /\ Size(f) \in Nat
        BY <2>10, <3>2, SpoolFields
      <4> QED
        BY <4>1 DEF Kept, First, Size
    <3> QED
      BY <2>8, <2>9, <3>1, <3>2 DEF Trimmed
  <2>13. nw = Newest(dir) /\ keep = IntactPrefix(files[nw].recs)
    BY <2>0 DEF keep
  <2>14. /\ nw = Newest(dir) /\ keep = IntactPrefix(files[nw].recs)
         /\ Size(nw)' = keep /\ nextSeq' = First(nw) + keep
         /\ \A f \in DOMAIN files : f # nw => files'[f] = files[f]
         /\ \A i \in DOMAIN files'[nw].recs :
               i \in DOMAIN files[nw].recs /\ files'[nw].recs[i] = files[nw].recs[i]
         /\ dir' = (IF keep = 0 THEN dir \ {nw} ELSE dir) \cup {wfd'}
    <3>1. Size(nw)' = keep
      BY <2>11 DEF Size
    <3> QED
      BY <2>2, <2>4, <2>10, <2>11, <2>13, <3>1
  <2>15. /\ Len(files') = Len(files) + 1
         /\ wfd' = Len(files') /\ wfd' \in DOMAIN files' /\ wfd' \notin DOMAIN files
         /\ files'[wfd'].recs = <<>> /\ files'[wfd'].first = nextSeq' /\ nextSeq' \in Nat \ {0}
    BY <2>2, <2>4, <2>8, <2>9
  <2> QED
    BY <2>1, <2>3, <2>12, <2>14, <2>15
<1> QED
  BY <1>1, <1>2

LEMMA PowerCutFiles ==
    ASSUME Shaped, PowerCut
    PROVE  Trimmed /\ SameRecords /\ Len(files') = Len(files) /\ DOMAIN files' = DOMAIN files
<1>1. PICK left \in [dir -> 0 .. MaxTraps] :
          /\ \A f \in dir : left[f] \in files[f].synced .. Len(files[f].recs)
          /\ \E tear \in SUBSET {f \in dir : left[f] < Len(files[f].recs) \/ files[f].torn} :
                files' = [f \in DOMAIN files |-> IF f \in dir THEN OnDisk(f, left[f], f \in tear)
                                                 ELSE files[f]]
  BY DEF PowerCut
<1>2. PICK tear \in SUBSET {f \in dir : left[f] < Len(files[f].recs) \/ files[f].torn} :
          files' = [f \in DOMAIN files |-> IF f \in dir THEN OnDisk(f, left[f], f \in tear)
                                           ELSE files[f]]
  BY <1>1
<1>3. /\ DOMAIN files' = DOMAIN files /\ DOMAIN files = 1 .. Len(files) /\ Len(files) \in Nat
      /\ \A f \in DOMAIN files : files'[f] = IF f \in dir THEN OnDisk(f, left[f], f \in tear) ELSE files[f]
  BY <1>2, SpoolFields
<1>4. ASSUME NEW f \in DOMAIN files
      PROVE  /\ files'[f] \in File /\ files'[f].first = files[f].first
             /\ Len(files'[f].recs) <= Len(files[f].recs)
             /\ \A i \in DOMAIN files'[f].recs :
                   i \in DOMAIN files[f].recs /\ files'[f].recs[i] = files[f].recs[i]
  <2>1. /\ files[f] \in File /\ files[f].recs \in Seq(Record) /\ Len(files[f].recs) \in Nat
        /\ DOMAIN files[f].recs = 1 .. Len(files[f].recs)
    BY SpoolFields DEF Size
  <2>2. CASE f \notin dir
    BY <1>3, <2>1, <2>2
  <2>3. CASE f \in dir
    <3> DEFINE n == left[f]
    <3> DEFINE torn == f \in tear
    <3> DEFINE r == SubSeq(files[f].recs, 1, n)
    <3>1. n \in 0 .. Len(files[f].recs) /\ n \in Nat
      BY <1>1, <2>1, <2>3 DEF File
    <3>2. files'[f] = [files[f] EXCEPT !.recs = r, !.torn = torn, !.synced = n]
      BY <1>3, <2>1, <2>3 DEF OnDisk, File
    <3> HIDE DEF n
    <3>3. /\ r \in Seq(Record) /\ Len(r) = n /\ DOMAIN r = 1 .. n
          /\ \A i \in 1 .. n : r[i] = files[f].recs[i]
      <4>1. r = SubSeq(files[f].recs, 1, n)
        OBVIOUS
      <4> HIDE DEF r
      <4> QED
        BY <2>1, <3>1, <4>1, CutTo
    <3>4. torn \in BOOLEAN
      OBVIOUS
    <3> DEFINE d == [files[f] EXCEPT !.recs = r, !.torn = torn, !.synced = n]
    <3> HIDE DEF r, torn
    <3>5. d \in File /\ d.first = files[f].first /\ d.recs = r
      BY <2>1, <3>1, <3>3, <3>4 DEF File
    <3>6. files'[f] = d
      BY <3>2
    <3> HIDE DEF d
    <3> QED
      BY <2>1, <3>1, <3>3, <3>5, <3>6
  <2> QED
    BY <2>2, <2>3
<1>5. files' \in Seq(File) /\ Len(files') = Len(files)
  <2>1. files' \in [1 .. Len(files) -> File]
    BY <1>2, <1>3, <1>4
  <2> QED
    BY <1>3, <2>1
<1>6. \A f \in DOMAIN files : Kept(f)
  BY <1>4 DEF Kept, First, Size
<1> QED
  BY <1>3, <1>4, <1>5, <1>6 DEF Trimmed, SameRecords

LEMMA FaultHappens ==
    ASSUME Shaped, NEW class \in FaultClasses, Fault(class)
    PROVE  /\ faults' \in [FaultClasses -> Nat] /\ Suffered(class)'
           /\ \A c \in FaultClasses : /\ Suffered(c) => Suffered(c)'
                                      /\ c # class => (Suffered(c)' <=> Suffered(c))
<1>1. faults' = [faults EXCEPT ![class] = faults[class] + 1] /\ faults \in [FaultClasses -> Nat]
  BY DEF Fault, Shaped
<1> QED
  BY <1>1 DEF Suffered

-----------------------------------------------------------------------------
(* What holds whatever happens *)

LEMMA ShapedKept ==
    ASSUME Shaped, Placed, Writing, Next
    PROVE  Shaped'
<1> USE DEF Shaped
<1>1. CASE Receive
  <2>1. born' = born + 1 /\ born' \in Nat /\ born' <= MaxTraps /\ outbox' = Append(outbox, born + 1)
    BY <1>1, SpoolConstants DEF Receive
  <2>2. outbox \in Seq(1 .. born') /\ born + 1 \in 1 .. born' /\ 1 .. born \subseteq 1 .. born'
    <3>1. born + 1 \in 1 .. born' /\ 1 .. born \subseteq 1 .. born'
      BY <2>1
    <3> QED
      BY <3>1, SeqMonotonic
  <2>3. outbox' \in Seq(1 .. born')
    BY <2>1, <2>2
  <2> QED
    BY <1>1, <2>1, <2>2, <2>3 DEF Receive, usageVars, readerVars
<1>2. CASE Refused \/ Measure \/ Store
  BY <1>2 DEF Refused, Measure, Store, writerVars, readerVars
<1>3. CASE BeginAppend
  <2>1. group' \in Nat
    BY <1>3, SpoolFields, SpoolConstants DEF BeginAppend
  <2> QED
    BY <1>3, <2>1 DEF BeginAppend, usageVars, readerVars
<1>4. CASE WriteTorn
  BY <1>4, WriteTornFiles DEF WriteTorn, Trimmed, writerVars, usageVars, readerVars
<1>5. CASE WriteRecord
  <2>1. files' \in Seq(File) /\ Len(files') = Len(files) /\ DOMAIN files' = DOMAIN files
    BY <1>5, WriteRecordFiles
  <2>2. done' \in Nat /\ wpc' \in {"write", "sync"}
    BY <1>5 DEF WriteRecord
  <2>3. UNCHANGED <<born, outbox, dir, wfd, wsize, nextSeq, group, acked, rotted, faults, rfd, roff,
                    after, taken, cursor, count, skipped>>
    BY <1>5 DEF WriteRecord, usageVars, readerVars
  <2> QED
    BY <2>1, <2>2, <2>3
<1>6. CASE Sync
  <2>1. /\ files' \in Seq(File) /\ dir' \subseteq DOMAIN files' /\ wfd' = Len(files') /\ dir' # {}
        /\ DOMAIN files \subseteq DOMAIN files'
    BY <1>6, SyncFiles DEF Trimmed
  <2>2. wsize' \in Nat
    <3>1. wpc # "down"
      BY <1>6 DEF Sync
    <3>2. Size(wfd) \in Nat
      BY <3>1, WriterOpen
    <3> HIDE DEF Shaped
    <3> QED
      BY <1>6, <3>2, SyncFiles
  <2>3. nextSeq' \in Nat \ {0}
    <3>1. nextSeq' = nextSeq + group /\ nextSeq \in Nat \ {0} /\ group \in Nat
      BY <1>6 DEF Sync
    <3> HIDE DEF Shaped
    <3> QED
      BY <3>1
  <2>4. /\ outbox' \in Seq(1 .. born) /\ acked' \subseteq 1 .. born
    <3>1. group \in Nat /\ group <= Len(outbox) /\ Len(outbox) \in Nat
      BY <1>6, SpoolFields DEF Sync, Writing
    <3>2. \A i \in group + 1 .. Len(outbox) : outbox[i] \in 1 .. born
      BY <3>1, SpoolFields
    <3>3. \A i \in 1 .. group : outbox[i] \in 1 .. born
      BY SMTT(60), <3>1, SpoolFields
    <3>4. outbox' = SubSeq(outbox, group + 1, Len(outbox))
      BY <1>6 DEF Sync
    <3>5. acked' = acked \cup {outbox[i] : i \in 1 .. group}
      BY <1>6 DEF Sync
    <3>6. group + 1 \in Int /\ Len(outbox) \in Int
      BY <3>1
    <3>7. outbox' \in Seq(1 .. born)
      BY <3>2, <3>4, <3>6, SubSeqProperties
    <3> QED
      BY <3>3, <3>5, <3>7
  <2> QED
    BY <1>6, <2>1, <2>2, <2>3, <2>4 DEF Sync, readerVars
<1>7. CASE Recover
  <2>1. /\ files' \in Seq(File) /\ wfd' = Len(files') /\ wfd' \in DOMAIN files'
        /\ DOMAIN files \subseteq DOMAIN files' /\ nextSeq' \in Nat \ {0}
    BY <1>7, RecoverFiles DEF Trimmed
  <2>2. dir' \subseteq DOMAIN files' /\ dir' # {}
    BY <1>7, RecoverFiles, <2>1
  <2> QED
    BY <1>7, <2>1, <2>2 DEF Recover, readerVars
<1>8. CASE OpenSegment
  <2> DEFINE holding == {f \in dir : files[f].first <= after + 1}
  <2>1. dir # {} /\ dir \subseteq DOMAIN files /\ holding \subseteq DOMAIN files
    BY <1>8 DEF OpenSegment
  <2>2. Oldest(dir) \in DOMAIN files /\ First(Oldest(dir)) \in Nat \ {0}
    BY <2>1, OldestIs, SpoolFields
  <2>3. rfd' \in DOMAIN files /\ skipped' \in Nat
    <3>1. CASE holding # {}
      BY <1>8, <2>1, <3>1, NewestIs DEF OpenSegment
    <3>2. CASE holding = {}
      <4>1. rfd' = Oldest(dir) /\ skipped' = skipped + (files[Oldest(dir)].first - (after + 1))
        BY <1>8, <3>2 DEF OpenSegment
      <4>2. Oldest(dir) \notin holding /\ Oldest(dir) \in dir
        BY <2>1, <3>2, OldestIs
      <4>3. files[Oldest(dir)].first > after + 1
        BY <2>2, <4>2 DEF First
      <4> QED
        BY <2>2, <4>1, <4>3 DEF First
    <3> QED
      BY <3>1, <3>2
  <2> QED
    BY <1>8, <2>3 DEF OpenSegment, writerVars, usageVars
<1>9. CASE ReadRecord
  <2>1. rfd \in DOMAIN files /\ roff + 1 \in DOMAIN files[rfd].recs
    BY <1>9, SpoolFields DEF ReadRecord, Size
  <2>2. files[rfd].recs[roff + 1].seq \in Nat /\ files[rfd].recs[roff + 1].trap \in 1 .. born
    BY <2>1, SpoolFields DEF Placed
  <2>3. after' \in Nat /\ taken' \subseteq 1 .. born
    BY <1>9, <2>2 DEF ReadRecord
  <2>4. roff' = roff + 1 /\ rfd' = rfd /\ roff' \in Nat
    BY <1>9 DEF ReadRecord
  <2>5. UNCHANGED <<born, outbox, files, dir, wpc, wfd, wsize, nextSeq, group, done, acked, rotted,
                    faults, cursor, count, skipped>>
    BY <1>9 DEF ReadRecord, writerVars, usageVars
  <2> QED
    BY <2>3, <2>4, <2>5
<1>10. CASE NextSegment
  <2> DEFINE later == {f \in dir : files[f].first > files[rfd].first \/ Replaces(f)}
  <2>1. later # {} /\ later \subseteq DOMAIN files /\ rfd' = Oldest(later)
    BY <1>10 DEF NextSegment
  <2>2. Oldest(later) \in DOMAIN files /\ First(Oldest(later)) \in Nat
    <3> HIDE DEF later
    <3> QED
      BY <2>1, OldestIs, SpoolFields
  <2>3. skipped' \in Nat
    BY <1>10, <2>2 DEF NextSegment, First
  <2> QED
    BY <1>10, <2>1, <2>2, <2>3 DEF NextSegment, writerVars, usageVars
<1>11. CASE Commit
  BY <1>11 DEF Commit, writerVars, usageVars
<1>12. CASE Prune
  <2>1. dir' \subseteq dir
    BY <1>12 DEF Prune
  <2>2. wfd # 0 => dir' # {}
    <3> SUFFICES ASSUME wfd # 0 PROVE dir' # {}
      OBVIOUS
    <3>1. Newest(dir) \in dir /\ \A g \in dir : First(g) <= First(Newest(dir))
      BY NewestIs
    <3>2. ~Prunable(Newest(dir))
      BY SMTT(60), <3>1, SpoolFields DEF Prunable, First
    <3> QED
      BY <1>12, <3>1, <3>2 DEF Prune
  <2> QED
    BY <1>12, <2>1, <2>2 DEF Prune, writerVars, usageVars, readerVars
<1>13. CASE AppendFails
  BY <1>13, AppendFailsFiles, FaultHappens DEF AppendFails, Trimmed, readerVars, FaultClasses
<1>14. CASE Crash
  <2>1. faults' \in [FaultClasses -> Nat]
    BY <1>14, FaultHappens DEF Crash, FaultClasses
  <2>2. wpc' = "down" /\ outbox' = <<>> /\ group' = 0 /\ done' = 0
    BY <1>14 DEF Crash, WriterLost
  <2>3. UNCHANGED <<born, files, dir, wfd, wsize, nextSeq, acked, rotted, rfd, roff, after, taken,
                    cursor, count, skipped>>
    BY <1>14 DEF Crash, readerVars
  <2> QED
    BY <2>1, <2>2, <2>3
<1>15. CASE ReaderRestart
  BY <1>15, FaultHappens DEF ReaderRestart, ReaderLost, writerVars, usageVars, FaultClasses
<1>16. CASE PowerCut
  <2>1. faults' \in [FaultClasses -> Nat]
    BY <1>16, FaultHappens DEF PowerCut, FaultClasses
  <2>2. files' \in Seq(File) /\ Len(files') = Len(files) /\ DOMAIN files' = DOMAIN files
    BY <1>16, PowerCutFiles DEF Trimmed
  <2>3. /\ wpc' = "down" /\ outbox' = <<>> /\ group' = 0 /\ done' = 0
        /\ rfd' = 0 /\ roff' = 0 /\ after' = cursor /\ taken' = {}
    BY <1>16 DEF PowerCut, WriterLost, ReaderLost
  <2>4. UNCHANGED <<born, dir, wfd, wsize, nextSeq, acked, rotted, cursor, count, skipped>>
    BY SMTT(60), <1>16 DEF PowerCut
  <2> QED
    BY <2>1, <2>2, <2>3, <2>4
<1>17. CASE Rot
  BY ZenonT(60), <1>17, DecaysFiles, FaultHappens
     DEF Rot, Decays, Trimmed, writerVars, usageVars, readerVars, FaultClasses
<1>18. CASE HeaderRot
  BY ZenonT(60), <1>18, DecaysFiles, FaultHappens
     DEF HeaderRot, Decays, Trimmed, writerVars, usageVars, readerVars, FaultClasses
<1> QED
  BY <1>1, <1>2, <1>3, <1>4, <1>5, <1>6, <1>7, <1>8, <1>9, <1>10, <1>11, <1>12, <1>13, <1>14, <1>15,
     <1>16, <1>17, <1>18 DEF Next, WriterStep, ReaderStep, FaultStep

LEMMA StepTrims ==
    ASSUME Shaped, Placed, Writing, Next
    PROVE  \/ WriteRecord
           \/ Trimmed /\ (Rot \/ HeaderRot)
           \/ Trimmed /\ SameRecords
<1>1. CASE UNCHANGED files
  BY <1>1, SameFiles DEF SameRecords
<1>2. CASE WriteTorn
  BY <1>2, WriteTornFiles DEF SameRecords
<1>3. CASE Sync
  BY <1>3, SyncFiles DEF SameRecords
<1>4. CASE AppendFails
  <2>1. SameRecords
    BY <1>4, AppendFailsFiles DEF SameRecords
  <2> QED
    BY <1>4, <2>1, AppendFailsFiles
<1>5. CASE Recover
  <2>1. SameRecords
    <3>1. CASE files = <<>>
      BY <3>1 DEF SameRecords
    <3>2. CASE files # <<>>
      BY <1>5, <3>2, RecoverFiles DEF SameRecords
    <3> QED
      BY <3>1, <3>2
  <2> QED
    BY <1>5, <2>1, RecoverFiles
<1>6. CASE PowerCut
  BY <1>6, PowerCutFiles
<1>7. CASE Rot \/ HeaderRot
  BY <1>7, DecaysFiles DEF Rot, HeaderRot
<1>8. CASE Receive \/ Measure \/ Store \/ Refused \/ BeginAppend
  BY <1>1, <1>8 DEF Receive, Measure, Store, Refused, BeginAppend
<1>9. CASE ReaderStep \/ Commit \/ Prune
  BY <1>1, <1>9 DEF ReaderStep, OpenSegment, ReadRecord, NextSegment, Commit, Prune
<1>10. CASE Crash \/ ReaderRestart
  BY SMTT(60), <1>1, <1>10 DEF Crash, ReaderRestart
<1> QED
  BY <1>2, <1>3, <1>4, <1>5, <1>6, <1>7, <1>8, <1>9, <1>10 DEF Next, WriterStep, FaultStep

LEMMA BornGrows ==
    ASSUME Shaped, Next
    PROVE  born' = born \/ (Receive /\ born' = born + 1)
BY DEF Next, WriterStep, ReaderStep, FaultStep, Receive, Measure, Store, Refused, BeginAppend, WriteTorn,
       WriteRecord, Sync, Recover, OpenSegment, ReadRecord, NextSegment, Commit, Prune, AppendFails,
       Crash, ReaderRestart, PowerCut, Rot, HeaderRot, Decays

LEMMA PlacedKept ==
    ASSUME Shaped, Placed, Writing, Next
    PROVE  Placed'
<1>1. 1 .. born \subseteq 1 .. born'
  BY BornGrows DEF Shaped
<1>2. CASE Trimmed
  <2> SUFFICES ASSUME NEW f \in DOMAIN files', NEW i \in DOMAIN files'[f].recs
               PROVE  /\ files'[f].recs[i].seq = files'[f].first + i - 1
                      /\ files'[f].recs[i].trap \in 1 .. born'
    BY DEF Placed, First
  <2>1. f \in DOMAIN files
    BY <1>2 DEF Trimmed
  <2>2. /\ files'[f].first = files[f].first /\ i \in DOMAIN files[f].recs
        /\ files'[f].recs[i].seq = files[f].recs[i].seq
        /\ files'[f].recs[i].trap = files[f].recs[i].trap
    BY <1>2, <2>1 DEF Trimmed, Kept, First
  <2> QED
    BY <1>1, <2>1, <2>2 DEF Placed, First
<1>3. CASE WriteRecord
  <2> SUFFICES ASSUME NEW f \in DOMAIN files', NEW i \in DOMAIN files'[f].recs
               PROVE  /\ files'[f].recs[i].seq = files'[f].first + i - 1
                      /\ files'[f].recs[i].trap \in 1 .. born'
    BY DEF Placed, First
  <2>1. f \in DOMAIN files /\ born' = born
    BY <1>3, WriteRecordFiles DEF WriteRecord
  <2>2. CASE f # wfd
    BY <1>3, <2>1, <2>2, WriteRecordFiles DEF Placed, First
  <2>3. CASE f = wfd
    <3>1. /\ files'[f].first = First(wfd) /\ files'[f].recs \in Seq(Record)
          /\ Len(files'[f].recs) = Size(wfd) + 1 /\ wfd' = wfd
      BY <1>3, <2>1, <2>3, WriteRecordFiles DEF WriteRecord, First, Size, File
    <3>2. /\ First(wfd) \in Nat /\ Size(wfd) \in Nat /\ DOMAIN files[wfd].recs = 1 .. Size(wfd)
          /\ First(wfd) + Size(wfd) = nextSeq + done
          /\ nextSeq \in Nat /\ done \in Nat /\ wsize \in Nat
      <4>1. wpc # "down"
        BY <1>3 DEF WriteRecord
      <4>2. nextSeq \in Nat /\ done \in Nat /\ wsize \in Nat
        BY DEF Shaped
      <4>3. /\ First(wfd) \in Nat /\ Size(wfd) \in Nat /\ DOMAIN files[wfd].recs = 1 .. Size(wfd)
            /\ Size(wfd) = wsize + done /\ First(wfd) + wsize = nextSeq
        BY <4>1, WriterOpen
      <4> QED
        BY <4>2, <4>3
    <3>3. i \in DOMAIN files[wfd].recs \/ i = Size(wfd) + 1
      BY <3>1, <3>2
    <3>4. CASE i \in DOMAIN files[wfd].recs
      BY <1>3, <2>1, <2>3, <3>1, <3>4, WriteRecordFiles DEF Placed, First
    <3>5. CASE i = Size(wfd) + 1
      <4>1. files'[f].recs[i].seq = nextSeq + done /\ files'[f].recs[i].trap = outbox[done + 1]
        BY <1>3, <2>3, <3>5, WriteRecordFiles
      <4>2. outbox[done + 1] \in 1 .. born
        BY <1>3, WriteRecordFiles, SpoolFields
      <4> QED
        BY <2>1, <3>1, <3>2, <3>5, <4>1, <4>2
    <3> QED
      BY <3>3, <3>4, <3>5
  <2> QED
    BY <2>2, <2>3
<1> QED
  BY <1>2, <1>3, StepTrims

LEMMA WritingKept ==
    ASSUME Shaped, Placed, Writing, Next
    PROVE  Writing'
<1>1. CASE Receive
  <2>1. /\ outbox' = Append(outbox, born + 1) /\ wpc # "down"
        /\ UNCHANGED <<files, wpc, wfd, wsize, nextSeq, group, done>>
    BY <1>1 DEF Receive
  <2>2. /\ Len(outbox') = Len(outbox) + 1 /\ Len(outbox) \in Nat /\ group \in Nat /\ done \in Nat
        /\ \A i \in 1 .. Len(outbox) : outbox'[i] = outbox[i]
    BY <2>1, SpoolFields DEF Shaped
  <2> QED
    BY <2>1, <2>2 DEF Writing, First, Size
<1>2. CASE Refused \/ Measure \/ Store \/ OpenSegment \/ ReadRecord \/ NextSegment \/ Commit \/ Prune
           \/ ReaderRestart
  <2>1. UNCHANGED <<outbox, files, wpc, wfd, wsize, nextSeq, group, done>>
    BY <1>2 DEF Refused, Measure, Store, OpenSegment, ReadRecord, NextSegment, Commit, Prune,
                ReaderRestart, writerVars
  <2> QED
    BY <2>1 DEF Writing, First, Size
<1>3. CASE BeginAppend
  <2>1. /\ group' = IF Len(outbox) < GroupMax THEN Len(outbox) ELSE GroupMax
        /\ wpc = "idle" /\ done' = 0 /\ wpc' = "write" /\ outbox # <<>>
        /\ UNCHANGED <<outbox, files, wfd, wsize, nextSeq>>
    BY <1>3 DEF BeginAppend
  <2>2. Len(outbox) \in Nat \ {0} /\ outbox \in Seq(1 .. born) /\ GroupMax \in Nat \ {0}
    BY <2>1, SpoolConstants DEF Shaped
  <2>3. group' <= Len(outbox') /\ 0 < group' /\ group' \in Nat
    BY <2>1, <2>2
  <2>4. wfd # 0 /\ First(wfd) + wsize = nextSeq /\ Size(wfd) = wsize + done /\ done = 0
    BY <2>1 DEF Writing
  <2>5. First(wfd)' = First(wfd) /\ Size(wfd)' = Size(wfd)
    BY <2>1 DEF First, Size
  <2> QED
    BY <2>1, <2>3, <2>4, <2>5 DEF Writing
<1>4. CASE WriteTorn
  <2>1. UNCHANGED <<outbox, wpc, wfd, wsize, nextSeq, group, done>> /\ wfd \in DOMAIN files
    BY <1>4, WriterOpen DEF WriteTorn, writerVars
  <2>2. files'[wfd].recs = files[wfd].recs /\ files'[wfd].first = files[wfd].first
    BY <1>4, <2>1, WriteTornFiles DEF Trimmed, Kept, First
  <2> QED
    BY <2>1, <2>2 DEF Writing, First, Size
<1>5. CASE WriteRecord
  <2>1. /\ UNCHANGED <<outbox, wfd, wsize, nextSeq, group>> /\ done' = done + 1
        /\ wpc' = IF done + 1 = group THEN "sync" ELSE "write"
        /\ done < group /\ group <= Len(outbox) /\ wfd # 0
    BY <1>5 DEF WriteRecord, Writing
  <2>2. /\ done \in Nat /\ group \in Nat /\ wsize \in Nat /\ Size(wfd) = wsize + done
        /\ First(wfd) + wsize = nextSeq /\ DOMAIN files[wfd].recs = 1 .. wsize + done
    BY <1>5, WriterOpen DEF WriteRecord, Shaped
  <2>3. First(wfd)' = First(wfd) /\ Size(wfd)' = wsize' + done'
    BY <1>5, <2>1, <2>2, WriteRecordFiles
  <2>4. \A i \in 1 .. done' : files'[wfd].recs[wsize + i].trap = outbox[i]
    <3> SUFFICES ASSUME NEW i \in 1 .. done' PROVE files'[wfd].recs[wsize + i].trap = outbox[i]
      OBVIOUS
    <3>1. CASE i \in 1 .. done
      <4>1. files[wfd].recs[wsize + i].trap = outbox[i] /\ wsize + i \in DOMAIN files[wfd].recs
        BY SMTT(60), <1>5, <2>2, <3>1 DEF Writing, WriteRecord
      <4> QED
        BY <1>5, <4>1, WriteRecordFiles
    <3>2. CASE i = done + 1
      <4>1. wsize + i = Size(wfd) + 1
        BY <2>2, <3>2
      <4> QED
        BY <1>5, <3>2, <4>1, WriteRecordFiles
    <3> QED
      BY <2>1, <2>2, <3>1, <3>2
  <2>5. done' <= group' /\ (wpc' = "write" => done' < group') /\ (wpc' = "sync" => done' = group')
    BY <2>1, <2>2
  <2> QED
    BY <2>1, <2>2, <2>3, <2>4, <2>5 DEF Writing
<1>6. CASE Sync
  <2>1. /\ wpc' = "idle" /\ group' = 0 /\ done' = 0 /\ nextSeq' = nextSeq + group /\ wpc = "sync"
        /\ outbox' = SubSeq(outbox, group + 1, Len(outbox))
    BY <1>6 DEF Sync
  <2>2. /\ done = group /\ group \in Nat /\ wsize \in Nat /\ First(wfd) \in Nat /\ nextSeq \in Nat
        /\ Size(wfd) = wsize + group /\ First(wfd) + wsize = nextSeq
    BY <2>1, WriterOpen DEF Writing, Shaped
  <2>3. wfd' # 0 /\ First(wfd)' + wsize' = nextSeq' /\ Size(wfd)' = wsize'
    <3>1. wfd' # 0
      BY <1>6, <2>1, SyncFiles, ShapedKept DEF Shaped
    <3>2. CASE wfd' = wfd /\ wsize' = Size(wfd)
      <4>1. files'[wfd].recs = files[wfd].recs /\ files'[wfd].first = files[wfd].first
        BY <1>6, SyncFiles DEF Trimmed, Kept, First
      <4>2. First(wfd)' = First(wfd) /\ Size(wfd)' = Size(wfd)
        BY <4>1, <3>2 DEF First, Size
      <4>3. First(wfd) + (wsize + group) = nextSeq + group
        BY <2>2
      <4> QED
        BY <2>1, <2>2, <3>1, <3>2, <4>2, <4>3
    <3>3. CASE files'[wfd'].recs = <<>> /\ wsize' = 0 /\ files'[wfd'].first = nextSeq + group
      BY <2>1, <2>2, <3>1, <3>3 DEF First, Size
    <3> QED
      BY <1>6, <3>2, <3>3, SyncFiles
  <2>4. Len(outbox') \in Nat
    BY ShapedKept, SpoolFields DEF Shaped
  <2>5. wsize' \in Nat
    BY ShapedKept DEF Shaped
  <2>6. wsize' + 0 = wsize'
    <3>1. \A n \in Nat : n + 0 = n
      OBVIOUS
    <3> QED
      BY <2>5, <3>1
  <2>9. 0 <= Len(outbox')
    BY <2>4
  <2>8. 1 .. 0 = {}
    OBVIOUS
  <2>7. wpc' = "idle" /\ group' = 0 /\ done' = 0
    BY <2>1
  <2> QED
    BY <2>3, <2>6, <2>7, <2>8, <2>9 DEF Writing
<1>7. CASE Recover
  <2>1. wpc' = "idle" /\ wsize' = 0 /\ UNCHANGED <<outbox, group, done>> /\ wpc = "down"
    BY <1>7 DEF Recover
  <2>2. outbox = <<>> /\ group = 0 /\ done = 0
    BY <2>1 DEF Writing
  <2>3. /\ wfd' # 0 /\ First(wfd)' = nextSeq' /\ Size(wfd)' = 0 /\ nextSeq' \in Nat
    <3>1. wfd' \in DOMAIN files' /\ DOMAIN files' = 1 .. Len(files') /\ Len(files') \in Nat
      BY <1>7, RecoverFiles DEF Trimmed
    <3> QED
      BY <1>7, <3>1, RecoverFiles DEF First, Size
  <2>4. /\ First(wfd)' + wsize' = nextSeq' /\ Size(wfd)' = wsize' + done' /\ 1 .. done' = {}
        /\ group' <= Len(outbox') /\ done' <= group' /\ done' = 0 /\ wpc' = "idle"
    <3>1. outbox' = <<>> /\ group' = 0 /\ done' = 0 /\ wsize' = 0 /\ wpc' = "idle"
      BY <2>1, <2>2
    <3>2. Len(<<>>) = 0 /\ 1 .. 0 = {} /\ 0 + 0 = 0 /\ 0 <= 0
      OBVIOUS
    <3>3. \A n \in Nat : n + 0 = n
      OBVIOUS
    <3> QED
      BY <2>3, <3>1, <3>2, <3>3, Zenon
  <2> QED
    BY <2>3, <2>4 DEF Writing
<1>8. CASE AppendFails
  <2>1. /\ wpc' = "idle" /\ group' = 0 /\ done' = 0 /\ UNCHANGED <<outbox, wfd, wsize, nextSeq>>
        /\ wpc # "down"
    BY <1>8 DEF AppendFails
  <2>2. /\ wfd # 0 /\ First(wfd) + wsize = nextSeq /\ wsize \in Nat /\ Len(outbox) \in Nat
    BY <2>1, SpoolFields DEF Writing, Shaped
  <2> QED
    BY <1>8, <2>1, <2>2, AppendFailsFiles DEF Writing
<1>9. CASE Crash \/ PowerCut
  BY <1>9 DEF Crash, PowerCut, WriterLost, Writing
<1>10. CASE Rot \/ HeaderRot
  <2>1. UNCHANGED <<outbox, wpc, wfd, wsize, nextSeq, group, done>>
    BY <1>10 DEF Rot, HeaderRot, Decays, writerVars
  <2>2. CASE wpc = "down"
    BY <2>1, <2>2 DEF Writing
  <2>3. CASE wpc # "down"
    <3>1. /\ wfd \in DOMAIN files /\ DOMAIN files[wfd].recs = 1 .. wsize + done
          /\ wsize \in Nat /\ done \in Nat
      BY <2>3, WriterOpen DEF Shaped
    <3>2. /\ files'[wfd].first = files[wfd].first /\ Len(files'[wfd].recs) = Len(files[wfd].recs)
          /\ \A i \in DOMAIN files[wfd].recs : files'[wfd].recs[i].trap = files[wfd].recs[i].trap
      <4>1. PICK how \in {"bad", "long"} : Decays(how)
        BY <1>10 DEF Rot, HeaderRot
      <4> QED
        BY <3>1, <4>1, DecaysFiles DEF Trimmed, Kept, First, Size
    <3>3. \A i \in 1 .. done : files'[wfd].recs[wsize + i].trap = outbox[i]
      <4>1. \A i \in 1 .. done : wsize + i \in DOMAIN files[wfd].recs
        BY <3>1
      <4> QED
        BY <2>3, <3>2, <4>1 DEF Writing
    <3> QED
      BY <2>1, <2>3, <3>2, <3>3 DEF Writing, First, Size
  <2> QED
    BY <2>2, <2>3
<1> QED
  BY <1>1, <1>2, <1>3, <1>4, <1>5, <1>6, <1>7, <1>8, <1>9, <1>10
     DEF Next, WriterStep, ReaderStep, FaultStep

LEMMA NumberedBorn ==
    ASSUME Shaped, Placed, NEW s, NEW t, Numbered(s, t)
    PROVE  s \in Nat /\ t \in 1 .. born /\ t \in Traps
<1>1. CASE Written(s, t)
  BY <1>1, SpoolFields DEF Written, Placed
<1>2. CASE Waiting(s, t)
  <2>1. PICK i \in DOMAIN outbox : s = nextSeq + i - 1 /\ t = outbox[i]
    BY <1>2 DEF Waiting
  <2>2. i \in Nat \ {0} /\ nextSeq \in Nat
    BY SpoolFields DEF Shaped
  <2> QED
    BY <2>1, <2>2, SpoolFields
<1> QED
  BY <1>1, <1>2 DEF Numbered

(* Only a new trap gets a number.                                          *)
LEMMA NumberedLess ==
    ASSUME Shaped, Placed, Writing, Next, NEW s, NEW t, Numbered(s, t)'
    PROVE  \/ Numbered(s, t)
           \/ Receive /\ s = nextSeq + Len(outbox) /\ t = born + 1
<1>1. ASSUME Trimmed, Written(s, t)' PROVE Written(s, t)
  <2>1. PICK f \in DOMAIN files' : \E i \in DOMAIN files'[f].recs :
            files'[f].recs[i].seq = s /\ files'[f].recs[i].trap = t
    BY <1>1 DEF Written
  <2>2. f \in DOMAIN files /\ Kept(f)
    BY <1>1, <2>1 DEF Trimmed
  <2> QED
    BY <2>1, <2>2 DEF Kept, Written
<1>2. CASE Receive
  <2>1. UNCHANGED <<files, nextSeq>> /\ outbox' = Append(outbox, born + 1)
    BY <1>2 DEF Receive
  <2>2. Written(s, t)' => Written(s, t)
    BY <2>1 DEF Written
  <2>3. ASSUME Waiting(s, t)' PROVE Waiting(s, t) \/ (s = nextSeq + Len(outbox) /\ t = born + 1)
    <3>1. PICK i \in DOMAIN outbox' : s = nextSeq + i - 1 /\ t = outbox'[i]
      BY <2>1, <2>3 DEF Waiting
    <3>2. /\ outbox \in Seq(1 .. born) /\ Len(outbox) \in Nat /\ DOMAIN outbox = 1 .. Len(outbox)
          /\ nextSeq \in Nat
      BY SpoolFields DEF Shaped
    <3>3. /\ DOMAIN outbox' = 1 .. Len(outbox) + 1 /\ outbox'[Len(outbox) + 1] = born + 1
          /\ \A j \in DOMAIN outbox : outbox'[j] = outbox[j]
      BY <2>1, <3>2
    <3>4. CASE i \in DOMAIN outbox
      BY <3>1, <3>3, <3>4 DEF Waiting
    <3>5. CASE i = Len(outbox) + 1
      BY <3>1, <3>2, <3>3, <3>5
    <3> QED
      BY <3>2, <3>3, <3>4, <3>5
  <2> QED
    BY <1>2, <2>2, <2>3 DEF Numbered
<1>3. CASE WriteRecord
  <2>1. UNCHANGED <<outbox, nextSeq>>
    BY <1>3 DEF WriteRecord
  <2>2. Waiting(s, t)' => Waiting(s, t)
    BY <2>1 DEF Waiting
  <2>3. ASSUME Written(s, t)' PROVE Numbered(s, t)
    <3>1. PICK f \in DOMAIN files' : \E j \in DOMAIN files'[f].recs :
              files'[f].recs[j].seq = s /\ files'[f].recs[j].trap = t
      BY <2>3 DEF Written
    <3>2. PICK i \in DOMAIN files'[f].recs :
              files'[f].recs[i].seq = s /\ files'[f].recs[i].trap = t
      BY <3>1
    <3>3. CASE f # wfd
      BY <1>3, <3>2, <3>3, WriteRecordFiles DEF Written, Numbered
    <3>4. CASE f = wfd
      <4>1. /\ files'[f].recs \in Seq(Record) /\ Len(files'[f].recs) = Size(wfd) + 1
            /\ Size(wfd) \in Nat /\ DOMAIN files[wfd].recs = 1 .. Size(wfd)
        <5>1. wpc # "down" /\ wfd' = wfd /\ wfd \in DOMAIN files'
          BY <1>3, WriteRecordFiles DEF WriteRecord
        <5>2. files'[wfd] \in File /\ Len(files'[wfd].recs) = Size(wfd)'
          BY <1>3, <5>1, WriteRecordFiles DEF Size
        <5> QED
          BY <1>3, <3>4, <5>1, <5>2, WriteRecordFiles, WriterOpen DEF File
      <4>2. CASE i \in DOMAIN files[wfd].recs
        BY <1>3, <3>2, <3>4, <4>2, WriteRecordFiles DEF Written, Numbered
      <4>3. CASE i = Size(wfd) + 1
        <5>1. s = nextSeq + done /\ t = outbox[done + 1] /\ done + 1 \in DOMAIN outbox
          BY <1>3, <3>2, <3>4, <4>3, WriteRecordFiles
        <5>2. nextSeq + done = nextSeq + (done + 1) - 1
          BY DEF Shaped
        <5> QED
          BY <5>1, <5>2 DEF Waiting, Numbered
      <4> QED
        BY <4>1, <4>2, <4>3
    <3> QED
      BY <3>3, <3>4
  <2> QED
    BY <2>2, <2>3 DEF Numbered
<1>4. CASE Sync
  <2>1. nextSeq' = nextSeq + group /\ outbox' = SubSeq(outbox, group + 1, Len(outbox))
    BY <1>4 DEF Sync
  <2>2. ASSUME Waiting(s, t)' PROVE Waiting(s, t)
    <3>1. PICK i \in DOMAIN outbox' : s = nextSeq' + i - 1 /\ t = outbox'[i]
      BY <2>2 DEF Waiting
    <3>2. /\ group \in Nat /\ nextSeq \in Nat /\ Len(outbox) \in Nat /\ group <= Len(outbox)
          /\ DOMAIN outbox = 1 .. Len(outbox) /\ \A j \in DOMAIN outbox : outbox[j] \in 1 .. born
      BY <1>4, SpoolFields DEF Sync, Shaped, Writing
    <3>3. /\ DOMAIN outbox' = 1 .. Len(outbox) - group
          /\ \A j \in 1 .. Len(outbox) - group : outbox'[j] = outbox[group + j]
      BY <2>1, <3>2
    <3>4. group + i \in DOMAIN outbox /\ s = nextSeq + (group + i) - 1 /\ t = outbox[group + i]
      <4>1. /\ i \in 1 .. Len(outbox) - group /\ s = nextSeq + group + i - 1
            /\ t = outbox[group + i]
        BY <2>1, <3>1, <3>3
      <4> QED
        BY <3>2, <4>1
    <3> QED
      BY <3>4 DEF Waiting
  <2> QED
    BY <1>1, <1>4, <2>2, SyncFiles DEF Numbered
<1>5. CASE outbox' = <<>> /\ Trimmed
  <2>1. ~Waiting(s, t)'
    BY <1>5 DEF Waiting
  <2> QED
    BY <1>1, <1>5, <2>1 DEF Numbered
<1>6. CASE UNCHANGED <<outbox, nextSeq>> /\ Trimmed
  BY <1>1, <1>6 DEF Numbered, Waiting
<1>7. CASE Recover
  <2>1. outbox' = <<>>
    BY <1>7 DEF Recover, Writing
  <2> QED
    BY <1>5, <1>7, <2>1, RecoverFiles
<1>8. CASE Crash \/ PowerCut
  <2>1. outbox' = <<>>
    BY <1>8 DEF Crash, PowerCut, WriterLost
  <2>2. ~WriteRecord
    BY <1>8 DEF Crash, PowerCut, WriterLost, WriteRecord
  <2> QED
    BY <1>5, <2>1, <2>2, StepTrims
<1>9. CASE \/ Measure \/ Store \/ Refused \/ BeginAppend \/ WriteTorn \/ ReaderStep \/ Commit \/ Prune
           \/ AppendFails \/ ReaderRestart \/ Rot \/ HeaderRot
  <2>1. UNCHANGED <<outbox, nextSeq>>
    BY <1>9 DEF Measure, Store, Refused, BeginAppend, WriteTorn, ReaderStep, OpenSegment, ReadRecord,
                NextSegment, Commit, Prune, AppendFails, ReaderRestart, Rot, HeaderRot, Decays, writerVars
  <2> QED
    BY <1>3, <1>6, <2>1, StepTrims
<1> QED
  BY <1>2, <1>3, <1>4, <1>7, <1>8, <1>9 DEF Next, WriterStep, FaultStep

LEMMA OnceKept ==
    ASSUME Shaped, Placed, Writing, Once, Next
    PROVE  Once'
<1>1. \A s \in Nat, t \in Traps : Numbered(s, t) => t \in 1 .. born
  BY NumberedBorn
<1>2. CASE Receive
  <2>1. /\ outbox' = Append(outbox, born + 1) /\ UNCHANGED <<acked, after, taken, cursor, count>>
        /\ born' = born + 1
    BY <1>2 DEF Receive, readerVars
  <2>2. /\ born \in Nat /\ outbox \in Seq(1 .. born) /\ Len(outbox) \in Nat
        /\ DOMAIN outbox = 1 .. Len(outbox) /\ \A i \in DOMAIN outbox : outbox[i] \in 1 .. born
        /\ acked \subseteq 1 .. born /\ taken \subseteq 1 .. born /\ born + 1 \notin 1 .. born
    BY SMTT(60), SpoolFields DEF Shaped
  <2>3. /\ DOMAIN outbox' = 1 .. Len(outbox) + 1 /\ outbox'[Len(outbox) + 1] = born + 1
        /\ \A j \in DOMAIN outbox : outbox'[j] = outbox[j]
    BY <2>1, <2>2
  <2>4. \A i, j \in DOMAIN outbox' : outbox'[i] = outbox'[j] => i = j
    <3>1. \A i \in DOMAIN outbox' : i \in DOMAIN outbox \/ i = Len(outbox) + 1
      BY <2>2, <2>3
    <3>2. \A i \in DOMAIN outbox : outbox'[i] # born + 1
      BY <2>2, <2>3
    <3> QED
      BY <2>3, <3>1, <3>2 DEF Once
  <2>5. \A i \in DOMAIN outbox' : outbox'[i] \notin acked'
    BY <2>1, <2>2, <2>3 DEF Once
  <2>6. \A s \in Nat, t \in Traps : Numbered(s, t)' =>
            Numbered(s, t) \/ (s = nextSeq + Len(outbox) /\ t = born + 1)
    BY NumberedLess
  <2>7. \A t \in Traps, s1, s2 \in Nat : Numbered(s1, t)' /\ Numbered(s2, t)' => s1 = s2
    BY <1>1, <2>2, <2>6 DEF Once
  <2>8. \A t \in taken' : count'[t] = 0 /\ \A s \in Nat : Numbered(s, t)' => s <= after'
    BY <2>1, <2>2, <2>6, SpoolFields DEF Once
  <2>9. \A t \in Traps : count'[t] # 0 =>
            count'[t] = 1 /\ t <= born' /\ \A s \in Nat : Numbered(s, t)' => s <= cursor'
    <3> SUFFICES ASSUME NEW t \in Traps, count'[t] # 0
                 PROVE  count'[t] = 1 /\ t <= born' /\ \A s \in Nat : Numbered(s, t)' => s <= cursor'
      OBVIOUS
    <3>1. count[t] = 1 /\ t <= born /\ (\A s \in Nat : Numbered(s, t) => s <= cursor) /\ t \in Nat
      BY <2>1 DEF Once, Traps
    <3>2. t # born + 1 /\ t <= born + 1
      BY <2>2, <3>1
    <3> QED
      BY <2>1, <2>6, <3>1, <3>2
  <2> QED
    BY <2>1, <2>4, <2>5, <2>7, <2>8, <2>9 DEF Once
<1> SUFFICES ASSUME ~Receive PROVE Once'
  BY <1>2
<1>3. \A s \in Nat, t \in Traps : Numbered(s, t)' => Numbered(s, t)
  BY NumberedLess
<1>4. \A t \in Traps, s1, s2 \in Nat : Numbered(s1, t)' /\ Numbered(s2, t)' => s1 = s2
  BY <1>3 DEF Once
<1>5. born' = born
  BY BornGrows
<1>6. /\ \A i, j \in DOMAIN outbox' : outbox'[i] = outbox'[j] => i = j
      /\ \A i \in DOMAIN outbox' : outbox'[i] \notin acked'
  <2>1. CASE UNCHANGED <<outbox, acked>>
    BY <2>1 DEF Once
  <2>2. CASE outbox' = <<>>
    BY <2>2
  <2>3. CASE Sync
    <3>1. /\ outbox' = SubSeq(outbox, group + 1, Len(outbox))
          /\ acked' = acked \cup {outbox[i] : i \in 1 .. group}
      BY <2>3 DEF Sync
    <3>2. /\ group \in Nat /\ Len(outbox) \in Nat /\ group <= Len(outbox)
          /\ DOMAIN outbox = 1 .. Len(outbox) /\ \A j \in DOMAIN outbox : outbox[j] \in 1 .. born
      BY <2>3, SpoolFields DEF Sync, Shaped, Writing
    <3>3. /\ DOMAIN outbox' = 1 .. Len(outbox) - group
          /\ \A j \in 1 .. Len(outbox) - group : outbox'[j] = outbox[group + j]
      BY <3>1, <3>2
    <3>4. \A i \in DOMAIN outbox' : /\ group + i \in DOMAIN outbox /\ i \in Nat
                                    /\ outbox'[i] = outbox[group + i] /\ group + i \notin 1 .. group
      BY <3>2, <3>3
    <3>5. \A i, j \in DOMAIN outbox' : outbox'[i] = outbox'[j] => i = j
      <4> SUFFICES ASSUME NEW i \in DOMAIN outbox', NEW j \in DOMAIN outbox', outbox'[i] = outbox'[j]
                   PROVE  i = j
        OBVIOUS
      <4>1. group + i = group + j
        BY <3>4 DEF Once
      <4> QED
        BY <3>2, <3>4, <4>1
    <3>6. \A i \in DOMAIN outbox' : outbox'[i] \notin acked'
      <4> SUFFICES ASSUME NEW i \in DOMAIN outbox', outbox'[i] \in acked' PROVE FALSE
        OBVIOUS
      <4>1. outbox[group + i] \notin acked /\ group + i \in DOMAIN outbox
        BY <3>4 DEF Once
      <4>2. PICK j \in 1 .. group : outbox[group + i] = outbox[j]
        BY <3>1, <3>4, <4>1
      <4>3. j \in DOMAIN outbox
        BY <3>2
      <4> QED
        BY <3>4, <4>1, <4>2, <4>3 DEF Once
    <3> QED
      BY <3>5, <3>6
  <2>4. CASE Crash \/ PowerCut
    BY <2>2, <2>4 DEF Crash, PowerCut, WriterLost
  <2>5. CASE ~Sync /\ ~Crash /\ ~PowerCut
    BY <2>1, <2>5
       DEF Next, WriterStep, ReaderStep, FaultStep, Measure, Store, Refused, BeginAppend, WriteTorn,
           WriteRecord, Recover, OpenSegment, ReadRecord, NextSegment, Commit, Prune, AppendFails,
           ReaderRestart, Rot, HeaderRot, Decays, writerVars
  <2> QED
    BY <2>3, <2>4, <2>5
<1>7. /\ cursor' <= after'
      /\ \A t \in taken' : count'[t] = 0 /\ \A s \in Nat : Numbered(s, t)' => s <= after'
      /\ \A t \in Traps : count'[t] # 0 =>
            count'[t] = 1 /\ t <= born' /\ \A s \in Nat : Numbered(s, t)' => s <= cursor'
  <2>1. CASE UNCHANGED <<after, taken, cursor, count>>
    BY <1>3, <1>5, <2>1, SpoolFields DEF Once
  <2>2. CASE ReadRecord
    <3>1. UNCHANGED <<cursor, count>>
      BY <2>2 DEF ReadRecord
    <3>2. CASE UNCHANGED <<after, taken>>
      BY <2>1, <3>1, <3>2
    <3>3. CASE ~(UNCHANGED <<after, taken>>)
      <4> DEFINE r == files[rfd].recs[roff + 1]
      <4>1. after' = r.seq /\ taken' = taken \cup {r.trap} /\ r.seq > after
        BY <2>2, <3>3 DEF ReadRecord, Unseen
      <4>2. rfd \in DOMAIN files /\ roff + 1 \in DOMAIN files[rfd].recs
        <5>1. rfd \in DOMAIN files /\ roff \in Nat /\ roff < Len(files[rfd].recs)
          BY <2>2 DEF ReadRecord, Shaped
        <5> QED
          BY <5>1, SpoolFields DEF Size
      <4>3. /\ Numbered(r.seq, r.trap) /\ r.seq \in Nat /\ r.trap \in Traps
            /\ after \in Nat /\ cursor \in Nat /\ cursor <= after
        BY <4>2, SpoolFields DEF Numbered, Written, Once, Shaped
      <4> HIDE DEF r
      <4>4. count[r.trap] = 0
        <5>1. ~(r.seq <= cursor)
          BY <4>1, <4>3
        <5> QED
          BY <4>3, <5>1 DEF Once
      <4>5. \A s \in Nat : Numbered(s, r.trap) => s <= r.seq
        BY <4>3 DEF Once
      <4>6. \A t \in taken : \A s \in Nat : Numbered(s, t) => s <= r.seq
        BY <4>1, <4>3 DEF Once
      <4>7. \A t \in taken' : count'[t] = 0 /\ \A s \in Nat : Numbered(s, t)' => s <= after'
        BY <1>3, <3>1, <4>1, <4>3, <4>4, <4>5, <4>6, SpoolFields DEF Once
      <4>8. cursor' <= after'
        BY <3>1, <4>1, <4>3
      <4> QED
        BY <1>3, <1>5, <3>1, <4>7, <4>8 DEF Once
    <3> QED
      BY <3>2, <3>3
  <2>3. CASE Commit
    <3>1. /\ after > cursor /\ cursor' = after /\ after' = after /\ taken' = {}
          /\ \A t \in Traps : count'[t] = IF t \in taken THEN count[t] + 1 ELSE count[t]
      BY <2>3 DEF Commit
    <3>2. after \in Nat /\ cursor \in Nat /\ cursor' <= after'
      BY <3>1 DEF Shaped
    <3>3. ASSUME NEW t \in Traps, count'[t] # 0
          PROVE  count'[t] = 1 /\ t <= born' /\ \A s \in Nat : Numbered(s, t)' => s <= cursor'
      <4>1. CASE t \in taken
        <5>1. count[t] = 0 /\ (\A s \in Nat : Numbered(s, t) => s <= after) /\ t \in 1 .. born
          BY <4>1 DEF Once, Shaped
        <5> QED
          BY <1>3, <1>5, <3>1, <4>1, <5>1
      <4>2. CASE t \notin taken
        <5>1. count[t] = 1 /\ t <= born /\ (\A s \in Nat : Numbered(s, t) => s <= cursor)
          BY <3>1, <3>3, <4>2 DEF Once
        <5> QED
          BY <1>3, <1>5, <3>1, <3>2, <4>2, <5>1
      <4> QED
        BY <4>1, <4>2
    <3> QED
      BY <3>1, <3>2, <3>3
  <2>4. CASE ReaderRestart \/ PowerCut
    <3>1. after' = cursor /\ taken' = {} /\ UNCHANGED <<cursor, count>>
      BY <2>4 DEF ReaderRestart, PowerCut, ReaderLost
    <3>2. cursor' <= after'
      BY SMTT(60), <3>1 DEF Shaped
    <3> QED
      BY <1>3, <1>5, <3>1, <3>2 DEF Once
  <2>5. CASE ~ReadRecord /\ ~Commit /\ ~ReaderRestart /\ ~PowerCut
    BY <2>1, <2>5
       DEF Next, WriterStep, ReaderStep, FaultStep, Measure, Store, Refused, BeginAppend, WriteTorn,
           WriteRecord, Sync, Recover, OpenSegment, NextSegment, Prune, AppendFails,
           Crash, Rot, HeaderRot, Decays, readerVars
  <2> QED
    BY <2>2, <2>3, <2>4, <2>5
<1> QED
  BY <1>4, <1>6, <1>7 DEF Once

LEMMA FaultsStay ==
    ASSUME Shaped, Next
    PROVE  /\ \A c \in FaultClasses : Suffered(c) => Suffered(c)'
           /\ ~AppendFails => (Suffered("fail")' <=> Suffered("fail"))
           /\ ~Crash => (Suffered("crash")' <=> Suffered("crash"))
           /\ ~PowerCut => (Suffered("power")' <=> Suffered("power"))
           /\ ~Rot => (Suffered("rot")' <=> Suffered("rot"))
           /\ ~HeaderRot => (Suffered("header")' <=> Suffered("header"))
<1>1. CASE UNCHANGED faults
  BY <1>1 DEF Suffered
<1>2. CASE FaultStep
  <2>1. CASE AppendFails
    BY <2>1, FaultHappens DEF AppendFails, FaultClasses
  <2>2. CASE Crash
    BY <2>2, FaultHappens DEF Crash, FaultClasses
  <2>3. CASE ReaderRestart
    BY <2>3, FaultHappens DEF ReaderRestart, FaultClasses
  <2>4. CASE PowerCut
    BY <2>4, FaultHappens DEF PowerCut, FaultClasses
  <2>5. CASE Rot
    BY <2>5, FaultHappens DEF Rot, FaultClasses
  <2>6. CASE HeaderRot
    BY <2>6, FaultHappens DEF HeaderRot, FaultClasses
  <2> QED
    BY <1>2, <2>1, <2>2, <2>3, <2>4, <2>5, <2>6 DEF FaultStep
<1>3. CASE ~FaultStep
  BY <1>1, <1>3 DEF Next, WriterStep, ReaderStep, Receive, Measure, Store, Refused, BeginAppend,
                    WriteTorn, WriteRecord, Sync, Recover, OpenSegment, ReadRecord, NextSegment, Commit, Prune
<1> QED
  BY <1>2, <1>3

LEMMA FaultedKept ==
    ASSUME Shaped, Placed, Writing, Faulted, Next
    PROVE  Faulted'
<1>1. \A c \in FaultClasses : Suffered(c) => Suffered(c)'
  BY FaultsStay
<1>2. {"fail", "crash", "power", "rot", "header"} \subseteq FaultClasses
  BY DEF FaultClasses
<1>3. rotted \subseteq rotted' /\ (rotted' # {} => Suffered("rot")' \/ Suffered("header")')
  <2>1. CASE Rot \/ HeaderRot
    <3>1. rotted \subseteq rotted'
      BY <2>1, DecaysFiles DEF Rot, HeaderRot
    <3>2. Suffered("rot")' \/ Suffered("header")'
      BY <1>2, <2>1, FaultHappens DEF Rot, HeaderRot
    <3> QED
      BY <3>1, <3>2
  <2>2. CASE UNCHANGED rotted
    BY <1>1, <1>2, <2>2 DEF Faulted
  <2> QED
    BY <2>1, <2>2
       DEF Next, WriterStep, ReaderStep, FaultStep, Receive, Measure, Store, Refused, BeginAppend,
           WriteTorn, WriteRecord, Sync, Recover, OpenSegment, ReadRecord, NextSegment, Commit, Prune,
           AppendFails, Crash, ReaderRestart, PowerCut
<1>4. ASSUME NEW f \in DOMAIN files', NEW i \in DOMAIN files'[f].recs
      PROVE  /\ files'[f].recs[i].is = "long" => Suffered("header")'
             /\ files'[f].recs[i].is # "ok" => files'[f].recs[i].trap \in rotted'
  <2>1. CASE Trimmed /\ SameRecords
    <3>1. /\ f \in DOMAIN files /\ i \in DOMAIN files[f].recs
          /\ files'[f].recs[i] = files[f].recs[i]
      BY <2>1 DEF Trimmed, SameRecords, Kept
    <3> QED
      BY <1>1, <1>2, <1>3, <3>1 DEF Faulted
  <2>2. CASE Trimmed /\ (Rot \/ HeaderRot)
    <3>1. f \in DOMAIN files /\ i \in DOMAIN files[f].recs
      BY <2>2 DEF Trimmed, Kept
    <3>2. CASE files'[f].recs[i] = files[f].recs[i]
      BY <1>1, <1>2, <1>3, <3>1, <3>2 DEF Faulted
    <3>3. CASE Rot /\ files'[f].recs[i] # files[f].recs[i]
      BY <3>1, <3>3, DecaysFiles DEF Rot
    <3>4. CASE HeaderRot /\ files'[f].recs[i] # files[f].recs[i]
      <4>1. Suffered("header")'
        BY <1>2, <3>4, FaultHappens DEF HeaderRot
      <4> QED
        BY <3>1, <3>4, <4>1, DecaysFiles DEF HeaderRot
    <3> QED
      BY <2>2, <3>2, <3>3, <3>4
  <2>3. CASE WriteRecord
    <3>1. f \in DOMAIN files /\ wfd' = wfd
      BY <2>3, WriteRecordFiles DEF WriteRecord
    <3>2. CASE f # wfd
      BY <1>1, <1>2, <1>3, <2>3, <3>1, <3>2, WriteRecordFiles DEF Faulted
    <3>3. CASE f = wfd
      <4>1. /\ files'[f].recs \in Seq(Record) /\ Len(files'[f].recs) = Size(wfd) + 1
            /\ Size(wfd) \in Nat /\ DOMAIN files[wfd].recs = 1 .. Size(wfd)
        <5>1. wpc # "down" /\ wfd \in DOMAIN files'
          BY <2>3, WriteRecordFiles DEF WriteRecord
        <5>2. files'[wfd] \in File /\ Len(files'[wfd].recs) = Size(wfd)'
          BY <2>3, <3>1, <5>1, WriteRecordFiles DEF Size
        <5> QED
          BY <2>3, <3>3, <5>1, <5>2, WriteRecordFiles, WriterOpen DEF File
      <4>2. CASE i \in DOMAIN files[wfd].recs
        BY <1>1, <1>2, <1>3, <2>3, <3>1, <3>3, <4>2, WriteRecordFiles DEF Faulted
      <4>3. CASE i = Size(wfd) + 1
        BY <2>3, <3>3, <4>3, WriteRecordFiles
      <4> QED
        BY <4>1, <4>2, <4>3
    <3> QED
      BY <3>2, <3>3
  <2> QED
    BY <2>1, <2>2, <2>3, StepTrims
<1>5. wpc' = "down" /\ files' # <<>> => Suffered("crash")' \/ Suffered("power")'
  <2>1. CASE Crash
    BY <1>2, <2>1, FaultHappens DEF Crash
  <2>2. CASE PowerCut
    BY <1>2, <2>2, FaultHappens DEF PowerCut
  <2>3. CASE Recover
    BY <2>3 DEF Recover
  <2>4. CASE Rot \/ HeaderRot
    <3>1. wpc' = wpc /\ files # <<>>
      BY <2>4 DEF Rot, HeaderRot, Decays, writerVars, Shaped
    <3> QED
      BY <1>1, <1>2, <3>1 DEF Faulted
  <2>5. CASE WriteTorn \/ WriteRecord \/ Sync \/ AppendFails
    <3>1. wpc' # "down"
      BY <2>5 DEF WriteTorn, WriteRecord, Sync, AppendFails, writerVars
    <3> QED
      BY <3>1
  <2>6. CASE UNCHANGED <<wpc, files>>
    BY <1>1, <1>2, <2>6 DEF Faulted
  <2>7. CASE Receive \/ Measure \/ Store \/ Refused \/ ReaderStep \/ Commit \/ Prune \/ ReaderRestart
    BY <2>6, <2>7 DEF Receive, Measure, Store, Refused, ReaderStep, OpenSegment, ReadRecord, NextSegment,
                      Commit, Prune, ReaderRestart, writerVars
  <2>8. CASE BeginAppend
    BY <2>8 DEF BeginAppend
  <2> QED
    BY <2>1, <2>2, <2>3, <2>4, <2>5, <2>7, <2>8 DEF Next, WriterStep, FaultStep
<1>6. files' = <<>> => wpc' = "down" /\ ~Suffered("fail")' /\ ~Suffered("rot")'
  <2> SUFFICES ASSUME files' = <<>> PROVE wpc' = "down" /\ ~Suffered("fail")' /\ ~Suffered("rot")'
    OBVIOUS
  <2>1. files = <<>> /\ DOMAIN files = {}
    <3>1. DOMAIN files \subseteq DOMAIN files'
      BY StepTrims, WriteRecordFiles DEF Trimmed
    <3> QED
      BY <3>1, SpoolFields DEF Shaped
  <2>2. /\ wpc = "down" /\ wfd = 0 /\ dir = {} /\ ~Suffered("fail") /\ ~Suffered("rot")
    BY <2>1 DEF Faulted, Shaped
  <2>3. ~Recover /\ ~PowerCut
    BY <2>2, RecoverFiles DEF PowerCut
  <2>4. ~AppendFails /\ ~Rot /\ ~HeaderRot
    BY <2>2 DEF AppendFails, Rot, HeaderRot, Decays
  <2>5. wpc' = "down"
    BY <2>2, <2>3, <2>4
       DEF Next, WriterStep, ReaderStep, FaultStep, Receive, Measure, Store, Refused, BeginAppend,
           WriteTorn, WriteRecord, Sync, OpenSegment, ReadRecord, NextSegment, Commit, Prune,
           Crash, ReaderRestart, writerVars
  <2> QED
    BY <2>2, <2>4, <2>5, FaultsStay
<1> QED
  BY <1>3, <1>4, <1>5, <1>6 DEF Faulted

LEMMA BasicInit == Init => Basic
<1> SUFFICES ASSUME Init PROVE Basic
  OBVIOUS
<1>1. DOMAIN files = {} /\ DOMAIN outbox = {}
  BY DEF Init
<1>2. Shaped
  BY SpoolConstants DEF Init, Shaped
<1>3. Placed /\ Faulted
  BY <1>1 DEF Init, Placed, Faulted, Suffered, FaultClasses
<1>4. Writing
  BY DEF Init, Writing
<1>5. Once
  BY <1>1 DEF Init, Once, Numbered, Written, Waiting
<1> QED
  BY <1>2, <1>3, <1>4, <1>5 DEF Basic

LEMMA BasicStep == Basic /\ [Next]_vars => Basic'
<1> SUFFICES ASSUME Basic, [Next]_vars PROVE Basic'
  OBVIOUS
<1> USE DEF Basic
<1>1. CASE Next
  BY <1>1, ShapedKept, PlacedKept, WritingKept, OnceKept, FaultedKept
<1>2. CASE UNCHANGED vars
  <2>1. Shaped' /\ Placed'
    BY <1>2 DEF vars, Shaped, Placed, First
  <2>2. Writing'
    BY <1>2 DEF vars, Writing, First, Size
  <2>3. Once'
    BY <1>2 DEF vars, Once, Numbered, Written, Waiting
  <2>4. Faulted'
    BY <1>2 DEF vars, Faulted, Suffered
  <2> QED
    BY <2>1, <2>2, <2>3, <2>4
<1> QED
  BY <1>1, <1>2

(* No trap is classified twice, whatever fails, crashes or decays.         *)
THEOREM NoTrapTwice == Spec => []ReadOnce
<1>1. Spec => []Basic
  BY BasicInit, BasicStep, PTL DEF Spec
<1>2. Basic => ReadOnce
  BY DEF Basic, Once, ReadOnce, Shaped
<1> QED
  BY <1>1, <1>2, PTL

-----------------------------------------------------------------------------
(* What holds while no number of a trap is given away *)

LEMMA HoldBefore ==
    ASSUME Shaped, Next
    PROVE  /\ NumbersHold' => NumbersHold /\ ~PowerCut /\ ~HeaderRot
           /\ Intact' => Intact /\ ~Rot
           /\ NumbersHold' /\ Crash => ~Suffered("fail")
<1>1. {"fail", "crash", "power", "rot", "header"} \subseteq FaultClasses
  BY DEF FaultClasses
<1>2. PowerCut => Suffered("power")'
  BY <1>1, FaultHappens DEF PowerCut
<1>3. HeaderRot => Suffered("header")'
  BY <1>1, FaultHappens DEF HeaderRot
<1>4. Rot => Suffered("rot")'
  BY <1>1, FaultHappens DEF Rot
<1>5. Crash => Suffered("crash")'
  BY <1>1, FaultHappens DEF Crash
<1>6. \A c \in FaultClasses : Suffered(c) => Suffered(c)'
  BY FaultsStay
<1> QED
  BY <1>1, <1>2, <1>3, <1>4, <1>5, <1>6 DEF NumbersHold, Intact

LEMMA DownIntact ==
    ASSUME Basic, NumbersHold, wpc = "down"
    PROVE  /\ ~Suffered("fail")
           /\ \A f \in DOMAIN files : \A i \in DOMAIN files[f].recs : files[f].recs[i].is = "ok"
<1>1. CASE files = <<>>
  BY <1>1 DEF Basic, Faulted
<1>2. CASE files # <<>>
  <2>1. ~Suffered("fail") /\ ~Suffered("rot") /\ ~Suffered("header")
    BY <1>2 DEF Basic, Faulted, NumbersHold
  <2> QED
    BY <2>1 DEF Basic, Faulted
<1> QED
  BY <1>1, <1>2

LEMMA ChainEnd ==
    ASSUME Basic, Chained, wfd # 0
    PROVE  /\ wfd \in dir /\ wfd \in DOMAIN files
           /\ End = First(wfd) + Size(wfd) /\ End \in Nat \ {0}
           /\ \A f \in DOMAIN files : f # wfd => First(f) + Size(f) <= First(wfd)
           /\ \A f \in DOMAIN files : First(f) + Size(f) <= End
           /\ \A f \in dir : f # wfd => First(f) < First(wfd)
<1>1. Shaped
  BY DEF Basic
<1>2. wfd \in dir /\ wfd \in DOMAIN files /\ dir \subseteq DOMAIN files
  BY <1>1 DEF Chained, Shaped
<1>3. \A f \in DOMAIN files : f \in Nat /\ First(f) \in Nat \ {0} /\ Size(f) \in Nat /\ f <= wfd
  BY <1>1, SpoolFields DEF Shaped
<1>4. End = First(wfd) + Size(wfd)
  BY DEF End
<1>5. \A f \in DOMAIN files : f # wfd => First(f) + Size(f) <= First(wfd)
  <2> SUFFICES ASSUME NEW f \in DOMAIN files, f # wfd PROVE First(f) + Size(f) <= First(wfd)
    OBVIOUS
  <2>1. f < wfd
    BY <1>2, <1>3
  <2> QED
    BY <1>2, <2>1 DEF Chained
<1>6. \A f \in DOMAIN files : First(f) + Size(f) <= End
  <2> SUFFICES ASSUME NEW f \in DOMAIN files PROVE First(f) + Size(f) <= End
    OBVIOUS
  <2>1. First(f) \in Nat /\ Size(f) \in Nat /\ First(wfd) \in Nat /\ Size(wfd) \in Nat
    BY <1>2, <1>3
  <2>2. CASE f = wfd
    BY <1>4, <2>1, <2>2
  <2>3. CASE f # wfd
    BY <1>4, <1>5, <2>1, <2>3
  <2> QED
    BY <2>2, <2>3
<1>7. \A f \in dir : f # wfd => First(f) < First(wfd)
  <2> SUFFICES ASSUME NEW f \in dir, f # wfd PROVE First(f) < First(wfd)
    OBVIOUS
  <2>1. Size(f) > 0 /\ First(f) + Size(f) <= First(wfd)
    BY <1>2, <1>5 DEF Chained
  <2>2. First(f) \in Nat /\ Size(f) \in Nat /\ First(wfd) \in Nat
    BY <1>2, <1>3
  <2> QED
    BY <2>1, <2>2
<1>8. End \in Nat \ {0}
  BY <1>2, <1>3, <1>4
<1> QED
  BY <1>2, <1>4, <1>5, <1>6, <1>7, <1>8

(* Every number is below the end of what is written or of what waits.      *)
LEMMA NumbersEnd ==
    ASSUME Basic, Chained
    PROVE  /\ End \in Nat /\ Top \in Nat /\ nextSeq + Len(outbox) \in Nat
           /\ wpc # "down" => /\ End = nextSeq + done /\ done \in Nat
                              /\ End <= nextSeq + Len(outbox) /\ Top <= nextSeq + Len(outbox)
           /\ NumbersHold => End <= Top
           /\ \A s \in Nat, t \in Traps : Written(s, t) => s < End
           /\ \A s \in Nat, t \in Traps : Waiting(s, t) => s < nextSeq + Len(outbox)
<1>1. Shaped /\ Placed /\ Writing
  BY DEF Basic
<1>2. End \in Nat
  BY ChainEnd DEF End
<1>3. nextSeq + Len(outbox) \in Nat /\ nextSeq \in Nat /\ Len(outbox) \in Nat /\ done \in Nat /\ wsize \in Nat
  BY <1>1, SpoolFields DEF Shaped
<1>4. Top \in Nat
  BY <1>2, <1>3 DEF Top
<1>5. ASSUME wpc # "down"
      PROVE  /\ End = nextSeq + done /\ End <= nextSeq + Len(outbox) /\ Top <= nextSeq + Len(outbox)
  <2>1. /\ wfd # 0 /\ First(wfd) + wsize = nextSeq /\ Size(wfd) = wsize + done
        /\ done <= group /\ group <= Len(outbox) /\ group \in Nat /\ First(wfd) \in Nat
    BY <1>1, <1>5, WriterOpen DEF Writing, Shaped
  <2>2. End = nextSeq + done
    BY <1>3, <2>1 DEF End
  <2>3. nextSeq + done <= nextSeq + Len(outbox)
    BY <1>3, <2>1
  <2> QED
    BY <1>3, <2>2, <2>3 DEF Top
<1>6. NumbersHold => End <= Top
  BY <1>2, <1>5, DownIntact DEF Top
<1>7. ASSUME NEW s \in Nat, NEW t \in Traps, Written(s, t) PROVE s < End
  <2>1. PICK f \in DOMAIN files : \E i \in DOMAIN files[f].recs :
            files[f].recs[i].seq = s /\ files[f].recs[i].trap = t
    BY <1>7 DEF Written
  <2>2. PICK i \in DOMAIN files[f].recs : files[f].recs[i].seq = s
    BY <2>1
  <2>3. s = First(f) + i - 1 /\ i \in 1 .. Size(f) /\ First(f) \in Nat /\ Size(f) \in Nat
    BY <1>1, <2>2, SpoolFields DEF Placed
  <2>4. First(f) + Size(f) <= End
    BY <1>1, ChainEnd, SpoolFields DEF Shaped
  <2> QED
    BY <1>2, <2>3, <2>4
<1>8. ASSUME NEW s \in Nat, NEW t \in Traps, Waiting(s, t) PROVE s < nextSeq + Len(outbox)
  BY <1>1, <1>3, <1>8, SpoolFields DEF Waiting
<1> QED
  BY <1>2, <1>3, <1>4, <1>5, <1>6, <1>7, <1>8

(* A step adds no number before the top.                                   *)
LEMMA NumberedBefore ==
    ASSUME Basic, Chained, Next, NEW n \in Nat, n <= Top
    PROVE  \A s \in Nat, t \in Traps : Numbered(s, t)' /\ s < n => Numbered(s, t)
<1> SUFFICES ASSUME NEW s \in Nat, NEW t \in Traps, Numbered(s, t)', s < n, ~Numbered(s, t) PROVE FALSE
  OBVIOUS
<1>1. Receive /\ s = nextSeq + Len(outbox)
  BY NumberedLess DEF Basic
<1>2. wpc # "down"
  BY <1>1 DEF Receive
<1>3. Top <= nextSeq + Len(outbox) /\ Top \in Nat
  BY <1>2, NumbersEnd
<1> QED
  BY <1>1, <1>3

LEMMA RecoverKeeps ==
    ASSUME Basic, Chained, NumbersHold, Recover
    PROVE  /\ \A f \in DOMAIN files : First(f)' = First(f) /\ Size(f)' = Size(f)
           /\ \A f \in DOMAIN files : \A i \in DOMAIN files[f].recs :
                 i \in DOMAIN files'[f].recs /\ files'[f].recs[i] = files[f].recs[i]
           /\ nextSeq' = End /\ First(wfd)' = End /\ Size(wfd)' = 0
           /\ wfd # 0 => dir' = (IF Size(wfd) = 0 THEN dir \ {wfd} ELSE dir) \cup {wfd'}
           /\ wfd = 0 => dir' = {wfd'}
<1>1. Shaped /\ Placed
  BY DEF Basic
<1>2. /\ Trimmed /\ wfd' \in DOMAIN files' /\ wfd' \notin DOMAIN files
      /\ files'[wfd'].recs = <<>> /\ files'[wfd'].first = nextSeq'
  BY <1>1, RecoverFiles
<1>3. First(wfd)' = nextSeq' /\ Size(wfd)' = 0
  BY <1>2 DEF First, Size
<1>4. CASE dir = {}
  <2>1. files = <<>> /\ wfd = 0 /\ nextSeq' = 1 /\ dir' = {wfd'}
    BY <1>1, <1>4, RecoverFiles DEF Shaped
  <2> QED
    BY <1>3, <2>1 DEF End
<1>5. CASE dir # {}
  <2>1. PICK nw \in dir, keep \in Nat :
            /\ nw = Newest(dir) /\ keep = IntactPrefix(files[nw].recs)
            /\ Size(nw)' = keep /\ nextSeq' = First(nw) + keep
            /\ \A f \in DOMAIN files : f # nw => files'[f] = files[f]
            /\ \A i \in DOMAIN files'[nw].recs :
                  i \in DOMAIN files[nw].recs /\ files'[nw].recs[i] = files[nw].recs[i]
            /\ dir' = (IF keep = 0 THEN dir \ {nw} ELSE dir) \cup {wfd'}
    BY <1>1, <1>5, RecoverFiles
  <2>2. wfd # 0
    BY <1>1, <1>5 DEF Shaped
  <2>3. nw = wfd
    <3>1. wfd \in dir /\ \A f \in dir : f # wfd => First(f) < First(wfd)
      BY <2>2, ChainEnd
    <3>2. dir \subseteq DOMAIN files /\ First(wfd) <= First(nw)
      BY <1>1, <2>1, <3>1, NewestIs DEF Shaped
    <3>3. First(wfd) \in Nat /\ First(nw) \in Nat
      BY <1>1, <3>1, <3>2, SpoolFields
    <3> QED
      BY <3>1, <3>2, <3>3
  <2>4. wfd \in DOMAIN files /\ files[wfd].recs \in Seq(Record) /\ DOMAIN files[wfd].recs = 1 .. Size(wfd)
    BY <1>1, <2>2, ChainEnd, SpoolFields
  <2>5. keep = Size(wfd)
    <3>1. \A i \in DOMAIN files[wfd].recs : files[wfd].recs[i].is = "ok"
      BY <2>4, DownIntact DEF Recover
    <3> QED
      BY <2>1, <2>3, <2>4, <3>1, IntactPrefixIs DEF Size
  <2>6. files'[wfd].recs \in Seq(Record) /\ Len(files'[wfd].recs) = Size(wfd)
    <3>1. files'[wfd] \in File
      BY <1>2, <2>4 DEF Trimmed
    <3>2. Len(files'[nw].recs) = keep
      BY <2>1 DEF Size
    <3> QED
      BY <2>3, <2>5, <3>1, <3>2 DEF File
  <2>7. \A i \in DOMAIN files[wfd].recs :
            i \in DOMAIN files'[wfd].recs /\ files'[wfd].recs[i] = files[wfd].recs[i]
    BY <2>1, <2>3, <2>4, <2>6
  <2>8. ASSUME NEW f \in DOMAIN files
        PROVE  /\ First(f)' = First(f) /\ Size(f)' = Size(f)
               /\ \A i \in DOMAIN files[f].recs :
                     i \in DOMAIN files'[f].recs /\ files'[f].recs[i] = files[f].recs[i]
    <3>1. First(f)' = First(f)
      BY <1>2 DEF Trimmed, Kept
    <3>2. CASE f # wfd
      BY <2>1, <2>3, <3>1, <3>2 DEF Size
    <3>3. CASE f = wfd
      BY <2>6, <2>7, <3>1, <3>3 DEF Size
    <3> QED
      BY <3>2, <3>3
  <2> QED
    BY <1>3, <2>1, <2>2, <2>3, <2>5, <2>8 DEF End
<1> QED
  BY <1>4, <1>5

LEMMA ChainedSame ==
    ASSUME Basic, Chained, UNCHANGED <<dir, wfd>>, DOMAIN files' = DOMAIN files, cursor <= cursor',
           cursor' \in Nat,
           \A f \in DOMAIN files : First(f)' = First(f) /\ (f # wfd => Size(f)' = Size(f))
    PROVE  /\ wfd' # 0 => wfd' \in dir'
           /\ \A f, g \in DOMAIN files' : f < g => First(f)' + Size(f)' <= First(g)'
           /\ \A f \in dir' : f # wfd' =>
                 Size(f)' > 0 /\ \E g \in dir' : First(g)' = First(f)' + Size(f)'
           /\ dir' # {} => \E f \in dir' : First(f)' <= cursor' + 1
<1>1. Shaped
  BY DEF Basic
<1>2. dir \subseteq DOMAIN files
  BY <1>1 DEF Shaped
<1>3. wfd' # 0 => wfd' \in dir'
  BY DEF Chained
<1>4. ASSUME NEW f \in DOMAIN files', NEW g \in DOMAIN files', f < g
      PROVE  First(f)' + Size(f)' <= First(g)'
  <2>1. f # wfd
    BY <1>1, <1>4, SpoolFields DEF Shaped
  <2> QED
    BY <1>4, <2>1 DEF Chained
<1>5. ASSUME NEW f \in dir', f # wfd'
      PROVE  Size(f)' > 0 /\ \E g \in dir' : First(g)' = First(f)' + Size(f)'
  <2>1. f \in dir /\ f # wfd /\ f \in DOMAIN files /\ First(f)' = First(f) /\ Size(f)' = Size(f)
    BY <1>2, <1>5
  <2>2. Size(f) > 0 /\ \E g \in dir : First(g) = First(f) + Size(f)
    BY <2>1 DEF Chained
  <2> QED
    BY <1>2, <2>1, <2>2
<1>6. dir' # {} => \E f \in dir' : First(f)' <= cursor' + 1
  <2> SUFFICES ASSUME dir' # {} PROVE \E f \in dir' : First(f)' <= cursor' + 1
    OBVIOUS
  <2>1. PICK f \in dir : First(f) <= cursor + 1
    BY DEF Chained
  <2>2. First(f) \in Nat /\ cursor \in Nat /\ First(f)' = First(f)
    BY <1>1, <1>2, SpoolFields DEF Shaped
  <2>3. First(f)' <= cursor' + 1
    BY <2>1, <2>2
  <2> QED
    BY <2>3
<1> QED
  BY <1>3, <1>4, <1>5, <1>6

LEMMA ChainedKept ==
    ASSUME Basic, Chained, NumbersHold', Next
    PROVE  Chained'
<1>1. /\ Shaped /\ Placed /\ Writing /\ Shaped' /\ NumbersHold /\ ~PowerCut /\ ~HeaderRot
      /\ dir \subseteq DOMAIN files /\ cursor \in Nat /\ after \in Nat /\ cursor <= after
  <2>1. Shaped /\ Placed /\ Writing /\ cursor <= after
    BY DEF Basic, Once
  <2> QED
    BY <2>1, ShapedKept, HoldBefore DEF Shaped
<1>d. DOMAIN files' = 1 .. Len(files') /\ Len(files') \in Nat
  <2>1. files' \in Seq(File)
    BY <1>1 DEF Shaped
  <2> QED
    BY <2>1, LenProperties
<1>2. \A f \in DOMAIN files : First(f) \in Nat \ {0} /\ Size(f) \in Nat
  BY <1>1, SpoolFields
<1>3. \A s \in Nat, t, u \in Traps : Numbered(s, t)' /\ Numbered(s, u)' => t = u
  <2> SUFFICES ASSUME NEW s \in Nat, NEW t \in Traps, NEW u \in Traps, Numbered(s, t)', Numbered(s, u)'
               PROVE  t = u
    OBVIOUS
  <2>1. \/ Numbered(s, t)
        \/ Receive /\ s = nextSeq + Len(outbox) /\ t = born + 1
    BY <1>1, NumberedLess
  <2>2. \/ Numbered(s, u)
        \/ Receive /\ s = nextSeq + Len(outbox) /\ u = born + 1
    BY <1>1, NumberedLess
  <2>3. CASE Numbered(s, t) /\ Numbered(s, u)
    BY <2>3 DEF Chained
  <2>4. CASE Receive /\ s = nextSeq + Len(outbox)
    <3>1. /\ \A w \in Traps : Written(s, w) => s < End
          /\ \A w \in Traps : Waiting(s, w) => s < nextSeq + Len(outbox)
          /\ End <= nextSeq + Len(outbox) /\ End \in Nat
      BY <2>4, NumbersEnd DEF Receive
    <3>2. ~Numbered(s, t) /\ ~Numbered(s, u)
      BY <2>4, <3>1 DEF Numbered
    <3> QED
      BY <2>1, <2>2, <3>2
  <2> QED
    BY <2>1, <2>2, <2>3, <2>4
<1>4. CASE UNCHANGED <<files, dir, wfd>> /\ (cursor' = cursor \/ cursor' = after)
  <2>1. \A f \in DOMAIN files : First(f)' = First(f) /\ Size(f)' = Size(f)
    BY <1>4 DEF First, Size
  <2>2. DOMAIN files' = DOMAIN files /\ cursor <= cursor' /\ cursor' \in Nat
    BY <1>1, <1>4
  <2> QED
    BY <1>3, <1>4, <2>1, <2>2, ChainedSame DEF Chained
<1>5. CASE WriteTorn
  <2>1. \A f \in DOMAIN files : First(f)' = First(f) /\ Size(f)' = Size(f)
    BY <1>1, <1>5, WriteTornFiles DEF Trimmed, Kept, Size
  <2>2. UNCHANGED <<dir, wfd, cursor>> /\ DOMAIN files' = DOMAIN files /\ cursor <= cursor'
    BY <1>1, <1>5, WriteTornFiles DEF WriteTorn, writerVars, readerVars
  <2> QED
    BY <1>1, <1>3, <2>1, <2>2, ChainedSame DEF Chained
<1>6. CASE WriteRecord
  <2>1. \A f \in DOMAIN files : First(f)' = First(f) /\ (f # wfd => Size(f)' = Size(f))
    <3> SUFFICES ASSUME NEW f \in DOMAIN files
                 PROVE  First(f)' = First(f) /\ (f # wfd => Size(f)' = Size(f))
      OBVIOUS
    <3>1. CASE f # wfd
      BY <1>1, <1>6, <3>1, WriteRecordFiles DEF First, Size
    <3>2. CASE f = wfd
      <4>1. wfd' = wfd
        BY <1>6 DEF WriteRecord
      <4> QED
        BY <1>1, <1>6, <3>2, <4>1, WriteRecordFiles DEF First
    <3> QED
      BY <3>1, <3>2
  <2>2. UNCHANGED <<dir, wfd, cursor>> /\ DOMAIN files' = DOMAIN files /\ cursor <= cursor'
    BY <1>1, <1>6, WriteRecordFiles DEF WriteRecord, readerVars
  <2> QED
    BY <1>1, <1>3, <2>1, <2>2, ChainedSame DEF Chained
<1>7. CASE AppendFails
  <2>1. \A f \in DOMAIN files : First(f)' = First(f) /\ (f # wfd => Size(f)' = Size(f))
    BY <1>1, <1>7, AppendFailsFiles DEF Trimmed, Kept, Size
  <2>2. UNCHANGED <<dir, wfd, cursor>> /\ DOMAIN files' = DOMAIN files /\ cursor <= cursor'
    BY <1>1, <1>7, AppendFailsFiles DEF AppendFails, readerVars
  <2> QED
    BY <1>1, <1>3, <2>1, <2>2, ChainedSame DEF Chained
<1>8. CASE Rot
  <2>1. \A f \in DOMAIN files : First(f)' = First(f) /\ Size(f)' = Size(f)
    BY SMTT(60), <1>1, <1>8, DecaysFiles DEF Rot, Trimmed, Kept
  <2>2. UNCHANGED <<dir, wfd, cursor>> /\ DOMAIN files' = DOMAIN files /\ cursor <= cursor'
    BY <1>1, <1>8, DecaysFiles DEF Rot, Decays, writerVars, readerVars
  <2> QED
    BY <1>1, <1>3, <2>1, <2>2, ChainedSame DEF Chained
<1>9. CASE Sync
  <2>1. /\ \A f \in DOMAIN files : First(f)' = First(f) /\ Size(f)' = Size(f)
        /\ wfd' \in dir' /\ dir' = dir \cup {wfd'} /\ wfd \in DOMAIN files /\ cursor' = cursor
        /\ wfd # 0 /\ wfd' \in DOMAIN files' /\ wfd' = Len(files')
    <3>1. /\ wfd' \in dir' /\ dir' = dir \cup {wfd'} /\ wfd \in DOMAIN files /\ cursor' = cursor
          /\ wfd' \in DOMAIN files' /\ wfd' = Len(files')
      BY <1>1, <1>9, SyncFiles DEF Sync, readerVars
    <3>2. wfd # 0
      BY <1>1, <3>1, SpoolFields
    <3>3. \A f \in DOMAIN files : First(f)' = First(f) /\ Size(f)' = Size(f)
      BY <1>1, <1>9, SyncFiles DEF Trimmed, Kept, Size
    <3> QED
      BY <3>1, <3>2, <3>3
  <2>2. CASE Len(files') = Len(files) /\ wfd' = wfd
    <3>1. dir' = dir
      BY <2>1, <2>2, ChainEnd
    <3>2. DOMAIN files' = DOMAIN files
      BY <1>1, <2>2 DEF Shaped
    <3>3. cursor <= cursor' /\ cursor' \in Nat
      BY <1>1, <2>1
    <3> QED
      BY <1>3, <2>1, <2>2, <3>1, <3>2, <3>3, ChainedSame DEF Chained
  <2>3. CASE /\ Len(files') = Len(files) + 1 /\ files'[wfd'].recs = <<>> /\ wsize' = 0
             /\ files'[wfd'].first = nextSeq + group /\ Size(wfd) > 0
    <3>1. First(wfd)' = End /\ Size(wfd)' = 0
      <4>1. End = nextSeq + group
        BY <1>1, <1>9, NumbersEnd DEF Sync, Writing
      <4> QED
        BY <2>3, <4>1 DEF First, Size
    <3>2. \A f \in DOMAIN files' : f = wfd' \/ (f \in DOMAIN files /\ f < wfd')
      <4>1. /\ DOMAIN files = 1 .. Len(files) /\ Len(files) \in Nat
            /\ DOMAIN files' = 1 .. Len(files')
        BY <1>1, <1>d, SpoolFields DEF Shaped
      <4> QED
        BY <2>1, <2>3, <4>1
    <3>3. \A f, g \in DOMAIN files' : f < g => f # wfd'
      <4>1. DOMAIN files' = 1 .. Len(files') /\ Len(files') \in Nat
        BY <1>d
      <4> QED
        BY <2>1, <4>1
    <3>4. ASSUME NEW f \in DOMAIN files', NEW g \in DOMAIN files', f < g
          PROVE  First(f)' + Size(f)' <= First(g)'
      <4>1. f \in DOMAIN files
        BY <3>2, <3>3, <3>4
      <4>2. CASE g = wfd'
        <5>1. First(g)' = End
          BY <3>1, <4>2 DEF First
        <5> QED
          BY <2>1, <4>1, <5>1, ChainEnd
      <4>3. CASE g # wfd'
        BY <2>1, <3>2, <3>4, <4>1, <4>3 DEF Chained
      <4> QED
        BY <4>2, <4>3
    <3>5. ASSUME NEW f \in dir', f # wfd'
          PROVE  Size(f)' > 0 /\ \E g \in dir' : First(g)' = First(f)' + Size(f)'
      <4>1. f \in dir /\ f \in DOMAIN files /\ First(f)' = First(f) /\ Size(f)' = Size(f)
        BY <1>1, <2>1, <3>5
      <4>2. CASE f = wfd
        <5>1. First(wfd') = First(wfd') /\ files'[wfd'].first = First(f) + Size(f)
          BY <2>1, <2>3, <3>1, <4>2, ChainEnd DEF First
        <5> QED
          BY <2>1, <2>3, <4>1, <4>2, <5>1 DEF First
      <4>3. CASE f # wfd
        <5>1. Size(f) > 0 /\ \E g \in dir : First(g) = First(f) + Size(f)
          BY <4>1, <4>3 DEF Chained
        <5>2. PICK g \in dir : First(g) = First(f) + Size(f)
          BY <5>1
        <5>3. g \in dir' /\ First(g)' = First(g)
          BY <1>1, <2>1
        <5> QED
          BY <4>1, <5>1, <5>2, <5>3
      <4> QED
        BY <4>2, <4>3
    <3>6. dir' # {} => \E f \in dir' : First(f)' <= cursor' + 1
      <4>1. PICK f \in dir : First(f) <= cursor + 1
        BY <2>1, ChainEnd DEF Chained
      <4>2. f \in dir' /\ First(f)' = First(f)
        BY <1>1, <2>1
      <4> QED
        BY <2>1, <4>1, <4>2
    <3> QED
      BY <1>3, <2>1, <3>4, <3>5, <3>6 DEF Chained
  <2> QED
    BY <1>1, <1>9, <2>2, <2>3, SyncFiles
<1>10. CASE Recover
  <2>1. /\ \A f \in DOMAIN files : First(f)' = First(f) /\ Size(f)' = Size(f)
        /\ First(wfd)' = End /\ Size(wfd)' = 0
        /\ wfd # 0 => dir' = (IF Size(wfd) = 0 THEN dir \ {wfd} ELSE dir) \cup {wfd'}
        /\ wfd = 0 => dir' = {wfd'}
    BY SMTT(60), <1>1, <1>10, RecoverKeeps
  <2>2. /\ Len(files') = Len(files) + 1 /\ wfd' = Len(files') /\ wfd' \in DOMAIN files'
        /\ wfd' \notin DOMAIN files /\ cursor' = cursor /\ wfd' \in dir'
    BY ZenonT(60), <1>1, <1>10, <2>1, RecoverFiles DEF Recover, readerVars
  <2>3. \A f \in DOMAIN files' : f = wfd' \/ (f \in DOMAIN files /\ f < wfd' /\ wfd # 0)
    <3>1. /\ DOMAIN files = 1 .. Len(files) /\ Len(files) \in Nat /\ wfd = Len(files)
          /\ DOMAIN files' = 1 .. Len(files')
      BY <1>1, <1>d, SpoolFields DEF Shaped
    <3> QED
      BY <2>2, <3>1
  <2>9. \A f, g \in DOMAIN files' : f < g => f # wfd'
    <3>1. DOMAIN files' = 1 .. Len(files') /\ Len(files') \in Nat
      BY <1>d
    <3> QED
      BY <2>2, <3>1
  <2>4. files'[wfd'].first = End
    BY <2>1 DEF First
  <2>5. ASSUME NEW f \in DOMAIN files', NEW g \in DOMAIN files', f < g
        PROVE  First(f)' + Size(f)' <= First(g)'
    <3>1. f \in DOMAIN files /\ wfd # 0
      BY <2>3, <2>5, <2>9
    <3>2. CASE g = wfd'
      <4>1. First(g)' = End
        BY <2>4, <3>2 DEF First
      <4> QED
        BY <2>1, <3>1, <4>1, ChainEnd
    <3>3. CASE g # wfd'
      BY <2>1, <2>3, <2>5, <3>1, <3>3 DEF Chained
    <3> QED
      BY <3>2, <3>3
  <2>6. ASSUME NEW f \in dir', f # wfd'
        PROVE  Size(f)' > 0 /\ \E g \in dir' : First(g)' = First(f)' + Size(f)'
    <3>1. /\ f \in dir /\ f \in DOMAIN files /\ First(f)' = First(f) /\ Size(f)' = Size(f)
          /\ wfd # 0 /\ (f = wfd => Size(wfd) # 0)
      BY <1>1, <2>1, <2>6
    <3>2. CASE f = wfd
      <4>1. files'[wfd'].first = First(f) + Size(f) /\ Size(f) > 0
        BY <1>2, <2>4, <3>1, <3>2, ChainEnd
      <4> QED
        BY <2>2, <3>1, <4>1 DEF First
    <3>3. CASE f # wfd
      <4>1. Size(f) > 0 /\ \E g \in dir : First(g) = First(f) + Size(f)
        BY <3>1, <3>3 DEF Chained
      <4>2. PICK g \in dir : First(g) = First(f) + Size(f)
        BY <4>1
      <4>3. CASE g \in dir'
        <5>1. First(g)' = First(g)
          BY <1>1, <2>1
        <5> QED
          BY <3>1, <4>1, <4>2, <4>3, <5>1
      <4>4. CASE g \notin dir'
        <5>1. g = wfd /\ Size(wfd) = 0
          BY <2>1, <3>1, <4>4
        <5>2. files'[wfd'].first = First(g)
          BY <1>2, <2>4, <3>1, <5>1, ChainEnd
        <5> QED
          BY <2>2, <3>1, <4>1, <4>2, <5>2 DEF First
      <4> QED
        BY <4>3, <4>4
    <3> QED
      BY <3>2, <3>3
  <2>7. \E f \in dir' : First(f)' <= cursor' + 1
    <3>1. CASE wfd = 0
      <4>1. files'[wfd'].first = 1 /\ 1 <= cursor + 1
        BY <1>1, <2>4, <3>1 DEF End
      <4> QED
        BY <2>2, <4>1 DEF First
    <3>2. CASE wfd # 0
      <4>1. PICK f \in dir : First(f) <= cursor + 1
        BY <3>2, ChainEnd DEF Chained
      <4>2. CASE f \in dir'
        <5>1. First(f)' = First(f)
          BY <1>1, <2>1
        <5> QED
          BY <2>2, <4>1, <4>2, <5>1
      <4>3. CASE f \notin dir'
        <5>1. f = wfd /\ Size(wfd) = 0
          BY <2>1, <3>2, <4>3
        <5>2. files'[wfd'].first = First(f)
          BY <1>2, <2>4, <3>2, <5>1, ChainEnd
        <5> QED
          BY <2>2, <4>1, <5>2 DEF First
      <4> QED
        BY <4>2, <4>3
    <3> QED
      BY <3>1, <3>2
  <2> QED
    BY <1>3, <2>2, <2>5, <2>6, <2>7 DEF Chained
<1>11. CASE Prune
  <2>1. /\ UNCHANGED <<files, wfd, cursor>> /\ dir' = {f \in dir : ~Prunable(f)}
        /\ dir # {} /\ wfd # 0
    BY <1>1, <1>11 DEF Prune, writerVars, readerVars, Shaped
  <2>2. \A f \in DOMAIN files : First(f)' = First(f) /\ Size(f)' = Size(f)
    BY <2>1 DEF First, Size
  <2>3. \A f : Prunable(f) <=> \E g \in dir : First(g) > First(f) /\ First(g) <= cursor + 1
    BY DEF Prunable, First
  <2>4. wfd \in dir'
    <3>1. wfd \in dir /\ (\A g \in dir : g # wfd => First(g) < First(wfd)) /\ wfd \in DOMAIN files
      BY <2>1, ChainEnd
    <3>2. \A g \in dir : ~(First(g) > First(wfd))
      BY <1>1, <1>2, <3>1
    <3> QED
      BY <2>1, <2>3, <3>1, <3>2
  <2>5. ASSUME NEW f \in dir', f # wfd'
        PROVE  Size(f)' > 0 /\ \E g \in dir' : First(g)' = First(f)' + Size(f)'
    <3>1. f \in dir /\ ~Prunable(f) /\ f # wfd /\ f \in DOMAIN files
      BY <1>1, <2>1, <2>5
    <3>2. Size(f) > 0 /\ \E g \in dir : First(g) = First(f) + Size(f)
      BY <3>1 DEF Chained
    <3>3. PICK g \in dir : First(g) = First(f) + Size(f)
      BY <3>2
    <3>4. g \in dir'
      <4>1. \A h \in dir : First(h) > First(g) => First(h) > First(f)
        BY <1>1, <1>2, <3>1, <3>2, <3>3
      <4>2. ~Prunable(g)
        BY <2>3, <3>1, <4>1
      <4> QED
        BY <2>1, <4>2
    <3> QED
      BY <1>1, <2>2, <3>1, <3>2, <3>3, <3>4
  <2>6. \E f \in dir' : First(f)' <= cursor' + 1
    <3> DEFINE S == {f \in dir : First(f) <= cursor + 1}
    <3>1. S # {} /\ S \subseteq DOMAIN files
      BY <1>1, <2>1 DEF Chained
    <3> DEFINE m == Newest(S)
    <3>2. m \in S /\ \A g \in S : First(g) <= First(m)
      <4> HIDE DEF S
      <4> QED
        BY <1>1, <3>1, NewestIs
    <3> HIDE DEF m
    <3>3. ~Prunable(m)
      BY <1>1, <1>2, <2>3, <3>2
    <3>4. m \in dir'
      BY <2>1, <3>2, <3>3
    <3>5. files'[m].first <= cursor' + 1
      BY <2>1, <3>2 DEF First
    <3> QED
      BY <3>4, <3>5 DEF First
  <2> QED
    BY <1>3, <2>1, <2>2, <2>4, <2>5, <2>6 DEF Chained
<1>12. CASE Receive \/ Measure \/ Store \/ Refused \/ BeginAppend \/ ReaderStep \/ Commit \/ Crash
            \/ ReaderRestart
  BY <1>4, <1>12 DEF Receive, Measure, Store, Refused, BeginAppend, ReaderStep, OpenSegment, ReadRecord,
                     NextSegment, Commit, Crash, ReaderRestart, writerVars, readerVars
<1> QED
  BY <1>1, <1>5, <1>6, <1>7, <1>8, <1>9, <1>10, <1>11, <1>12 DEF Next, WriterStep, FaultStep

LEMMA TopGrows ==
    ASSUME Basic, Chained, NumbersHold', Next
    PROVE  Top <= Top' /\ Top' \in Nat
<1>1. /\ Shaped /\ Placed /\ Writing /\ Faulted /\ NumbersHold /\ ~PowerCut /\ ~HeaderRot /\ Basic' /\ Chained'
  BY HoldBefore, ChainedKept, BasicStep DEF Basic
<1>2. /\ Top \in Nat /\ End \in Nat /\ nextSeq + Len(outbox) \in Nat /\ nextSeq \in Nat /\ Len(outbox) \in Nat
      /\ wpc # "down" => End <= nextSeq + Len(outbox) /\ Top <= nextSeq + Len(outbox)
  BY <1>1, NumbersEnd, SpoolFields DEF Shaped
<1>3. Top' \in Nat /\ End' \in Nat
  <2>1. Shaped'
    BY <1>1 DEF Basic
  <2>2. files' \in Seq(File) /\ wfd' = Len(files') /\ nextSeq' \in Nat /\ Len(outbox') \in Nat
    BY <2>1 DEF Shaped
  <2>3. wfd' # 0 => files'[wfd'].first \in Nat /\ Len(files'[wfd'].recs) \in Nat
    <3> SUFFICES ASSUME wfd' # 0 PROVE files'[wfd'].first \in Nat /\ Len(files'[wfd'].recs) \in Nat
      OBVIOUS
    <3>1. files'[wfd'] \in File
      BY <2>2
    <3> QED
      BY <3>1 DEF File
  <2>4. End' \in Nat
    BY <2>3 DEF End, First, Size
  <2> QED
    BY <2>2, <2>4 DEF Top
<1>4. CASE /\ End <= End' /\ nextSeq + Len(outbox) <= nextSeq' + Len(outbox')
           /\ (Suffered("fail")' <=> Suffered("fail"))
  BY <1>3, <1>4 DEF Top
<1>5. CASE UNCHANGED <<files, wfd, nextSeq, outbox>> /\ ~AppendFails
  <2>1. End' = End
    BY <1>5 DEF End, First, Size
  <2>2. Suffered("fail")' <=> Suffered("fail")
    BY <1>1, <1>5, FaultsStay
  <2> QED
    BY <1>2, <1>3, <1>5, <2>1, <2>2 DEF Top
<1>6. CASE Receive
  <2>1. /\ UNCHANGED <<files, wfd, nextSeq>> /\ outbox' = Append(outbox, born + 1) /\ ~AppendFails
    BY <1>6 DEF Receive, AppendFails
  <2>2. End' = End
    BY <2>1 DEF End, First, Size
  <2>3. Len(outbox') = Len(outbox) + 1
    <3>1. outbox \in Seq(1 .. born)
      BY <1>1 DEF Shaped
    <3> QED
      BY <2>1, <3>1
  <2>4. Suffered("fail")' <=> Suffered("fail")
    BY <1>1, <2>1, FaultsStay
  <2> QED
    BY <1>2, <1>4, <2>1, <2>2, <2>3, <2>4
<1>7. CASE WriteTorn \/ Rot
  <2>1. UNCHANGED <<wfd, nextSeq, outbox>> /\ ~AppendFails
    BY <1>1, <1>7, WriterOpen DEF WriteTorn, Rot, Decays, AppendFails, writerVars
  <2>2. \A f \in DOMAIN files : First(f)' = First(f) /\ Size(f)' = Size(f)
    BY <1>1, <1>7, WriteTornFiles, DecaysFiles DEF Rot, Trimmed, Kept, Size
  <2>3. wfd # 0 => files'[wfd].first = First(wfd) /\ Len(files'[wfd].recs) = Size(wfd)
    BY <2>2, ChainEnd DEF First, Size
  <2>4. End' = End
    BY <2>1, <2>3 DEF End, First, Size
  <2>5. Suffered("fail")' <=> Suffered("fail")
    BY <1>1, <2>1, FaultsStay
  <2> QED
    BY <1>2, <1>4, <2>1, <2>4, <2>5
<1>8. CASE WriteRecord
  <2>1. UNCHANGED <<wfd, nextSeq, outbox>> /\ ~AppendFails /\ wpc # "down"
    BY <1>8 DEF WriteRecord, AppendFails
  <2>2. End' = First(wfd) + (Size(wfd) + 1) /\ End = First(wfd) + Size(wfd)
    BY <1>1, <1>8, <2>1, WriteRecordFiles, WriterOpen DEF End, Writing
  <2>3. End <= End'
    BY <1>1, <2>1, <2>2, WriterOpen
  <2>5. Suffered("fail")' <=> Suffered("fail")
    BY <1>1, <2>1, FaultsStay
  <2> QED
    BY <1>2, <1>4, <2>1, <2>3, <2>5
<1>9. CASE Sync /\ ~AppendFails
  <2>1. /\ nextSeq' = nextSeq + group /\ outbox' = SubSeq(outbox, group + 1, Len(outbox)) /\ ~AppendFails
        /\ wpc # "down" /\ wpc' # "down" /\ done = group /\ done' = 0
    <3>1. wpc = "sync" /\ wpc' = "idle"
      BY <1>9 DEF Sync
    <3>2. done = group
      BY <1>1, <3>1 DEF Writing
    <3>3. nextSeq' = nextSeq + group /\ outbox' = SubSeq(outbox, group + 1, Len(outbox)) /\ done' = 0
      BY <1>9 DEF Sync
    <3> QED
      BY <1>9, <3>1, <3>2, <3>3
  <2>2. group \in Nat /\ group <= Len(outbox) /\ outbox \in Seq(1 .. born)
    BY <1>1, <2>1 DEF Shaped, Writing
  <2>3. Len(outbox') = Len(outbox) - group
    BY <1>2, <2>1, <2>2
  <2>4. End = nextSeq + group /\ End' = nextSeq + group
    <3>1. End = nextSeq + done
      BY <2>1, NumbersEnd
    <3>2. End' = nextSeq' + done'
      <4>1. /\ wfd' # 0 /\ First(wfd)' + wsize' = nextSeq' /\ Size(wfd)' = wsize' + done'
            /\ wsize' \in Nat /\ nextSeq' \in Nat
        BY <1>1, <2>1, WritingKept DEF Basic, Writing, Shaped
      <4>2. First(wfd)' \in Nat
        <5>0. Shaped'
          BY <1>1 DEF Basic
        <5>1. files' \in Seq(File) /\ wfd' = Len(files')
          BY <5>0 DEF Shaped
        <5>2. files'[wfd'] \in File
          BY <4>1, <5>1
        <5> QED
          BY <5>2 DEF First, File
      <4> QED
        BY <2>1, <4>1, <4>2 DEF End
    <3> QED
      BY <1>2, <2>1, <2>2, <3>1, <3>2
  <2>5. Suffered("fail")' <=> Suffered("fail")
    BY <1>1, <2>1, FaultsStay
  <2>6. nextSeq + Len(outbox) <= nextSeq' + Len(outbox')
    <3>1. nextSeq' + Len(outbox') = (nextSeq + group) + (Len(outbox) - group)
      BY <2>1, <2>3
    <3> QED
      BY <1>2, <2>2, <3>1
  <2> QED
    BY <1>2, <1>4, <2>2, <2>4, <2>5, <2>6
<1>10. CASE Recover
  <2>1. ~AppendFails /\ wpc = "down"
    BY <1>10 DEF Recover, AppendFails
  <2>2. ~Suffered("fail") /\ ~Suffered("fail")'
    BY <1>1, <2>1, DownIntact, FaultsStay
  <2>3. End' = End
    <3>1. First(wfd)' = End /\ Size(wfd)' = 0 /\ wfd' # 0
      BY <1>1, <1>10, RecoverKeeps, RecoverFiles, SpoolFields
    <3> QED
      BY <1>2, <3>1 DEF End
  <2> QED
    BY <1>2, <1>3, <2>2, <2>3 DEF Top
<1>11. CASE AppendFails
  <2>1. Suffered("fail")' /\ UNCHANGED <<nextSeq, outbox>> /\ wpc # "down"
    BY <1>1, <1>11, FaultHappens DEF AppendFails, FaultClasses
  <2> QED
    BY <1>2, <1>3, <2>1 DEF Top
<1>12. CASE Crash
  <2>1. ~Suffered("fail") /\ UNCHANGED <<files, wfd>> /\ ~AppendFails
    <3>1. wpc' = "down" /\ UNCHANGED <<files, wfd>>
      BY <1>12 DEF Crash, WriterLost
    <3>2. ~AppendFails
      BY <3>1 DEF AppendFails
    <3> QED
      BY <1>1, <1>12, <3>1, <3>2, HoldBefore
  <2>2. ~Suffered("fail")' /\ End' = End
    BY <1>1, <2>1, FaultsStay DEF End, First, Size
  <2> QED
    BY <1>2, <1>3, <2>1, <2>2 DEF Top
<1>13. CASE Measure \/ Store \/ Refused \/ BeginAppend \/ ReaderStep \/ Commit \/ Prune \/ ReaderRestart
  <2>1. UNCHANGED <<files, wfd, nextSeq, outbox>>
    BY <1>13 DEF Measure, Store, Refused, BeginAppend, ReaderStep, OpenSegment, ReadRecord, NextSegment,
                 Commit, Prune, ReaderRestart, writerVars
  <2> QED
    BY <1>5, <1>11, <2>1
<1> QED
  BY <1>1, <1>6, <1>7, <1>8, <1>9, <1>10, <1>11, <1>12, <1>13 DEF Next, WriterStep, FaultStep

(* What happened to a trap stays so.                                       *)
LEMMA SettledStays ==
    ASSUME Basic, Next, ~ReaderRestart, ~PowerCut, NEW t \in Traps
    PROVE  /\ count[t] # 0 => count'[t] # 0
           /\ t \in taken => t \in taken' \/ count'[t] # 0
           /\ t \in rotted => t \in rotted'
<1>1. Shaped /\ Placed
  BY DEF Basic
<1>2. after \in Nat /\ count \in [Traps -> Nat]
  BY <1>1 DEF Shaped
<1>3. CASE Commit
  BY <1>2, <1>3 DEF Commit
<1>4. CASE ReadRecord
  BY <1>4 DEF ReadRecord
<1>5. CASE UNCHANGED <<count, taken>> /\ rotted \subseteq rotted'
  BY <1>2, <1>5
<1>6. CASE Rot \/ HeaderRot
  BY SMTT(60), <1>1, <1>5, <1>6, DecaysFiles DEF Rot, HeaderRot, Decays, readerVars
<1> QED
  BY <1>3, <1>4, <1>5, <1>6
     DEF Next, WriterStep, ReaderStep, FaultStep, Receive, Measure, Store, Refused, BeginAppend,
         WriteTorn, WriteRecord, Sync, Recover, OpenSegment, NextSegment, Prune, AppendFails, Crash, readerVars

LEMMA AfterGrows ==
    ASSUME Basic, Next, ~ReaderRestart, ~PowerCut
    PROVE  after <= after' /\ after \in Nat /\ after' \in Nat
<1>1. after \in Nat /\ after' \in Nat
  BY ShapedKept DEF Basic, Shaped
<1>2. CASE ReadRecord /\ after' # after
  <2>1. after' = files[rfd].recs[roff + 1].seq /\ files[rfd].recs[roff + 1].seq > after
    BY <1>2 DEF ReadRecord, Unseen
  <2> QED
    BY <1>1, <2>1
<1>3. CASE after' = after
  BY <1>1, <1>3
<1> QED
  BY <1>2, <1>3
     DEF Next, WriterStep, ReaderStep, FaultStep, Receive, Measure, Store, Refused, BeginAppend,
         WriteTorn, WriteRecord, Sync, Recover, OpenSegment, NextSegment, Commit, Prune, AppendFails, Crash,
         Rot, HeaderRot, Decays, readerVars

LEMMA ReachedStays ==
    ASSUME Basic, Chained, NumbersHold', Next, ~ReaderRestart, NEW n \in Nat, Reached(n)
    PROVE  Reached(n)'
<1>1. Shaped /\ ~PowerCut /\ (Intact' => Intact)
  BY HoldBefore DEF Basic
<1>2. n <= Top /\ Top <= Top' /\ Top \in Nat /\ Top' \in Nat
  BY TopGrows, NumbersEnd DEF Reached
<1>3. \A s \in Nat, t \in Traps : Numbered(s, t)' /\ s < n => Numbered(s, t)
  BY <1>2, NumberedBefore
<1>4. Dealt(n)'
  <2> SUFFICES ASSUME NEW s \in Nat, NEW t \in Traps, Numbered(s, t)', s < n
               PROVE  count'[t] # 0 \/ t \in taken' \/ t \in rotted'
    BY DEF Dealt
  <2>1. count[t] # 0 \/ t \in taken \/ t \in rotted
    BY <1>3 DEF Reached, Dealt
  <2> QED
    BY <1>1, <2>1, SettledStays
<1>5. Intact' => n <= after' + 1
  <2>1. after <= after' /\ after \in Nat /\ after' \in Nat
    BY <1>1, AfterGrows
  <2> SUFFICES ASSUME Intact' PROVE n <= after' + 1
    OBVIOUS
  <2>2. n <= after + 1
    BY <1>1 DEF Reached
  <2>3. \A x, y, z \in Nat : x <= y + 1 /\ y <= z => x <= z + 1
    OBVIOUS
  <2> QED
    BY <2>1, <2>2, <2>3, Zenon
<1> QED
  BY <1>2, <1>4, <1>5 DEF Reached

LEMMA ReachedBelow ==
    ASSUME NEW n \in Nat, NEW m \in Nat, m <= n, Reached(n), Top \in Nat, after \in Nat
    PROVE  Reached(m)
<1>1. Dealt(m)
  BY DEF Reached, Dealt
<1>2. m <= Top /\ (Intact => m <= after + 1)
  BY DEF Reached
<1> QED
  BY <1>1, <1>2 DEF Reached

LEMMA FirstStays ==
    ASSUME Basic, Next, NEW f \in DOMAIN files
    PROVE  f \in DOMAIN files' /\ files'[f].first = First(f) /\ First(f) \in Nat
<1>1. Shaped /\ Placed /\ Writing
  BY DEF Basic
<1>2. CASE WriteRecord
  <2>1. wfd' = wfd
    BY <1>2 DEF WriteRecord
  <2> QED
    BY <1>1, <1>2, <2>1, WriteRecordFiles, SpoolFields DEF First
<1>3. CASE Trimmed
  BY <1>1, <1>3, SpoolFields DEF Trimmed, Kept, First
<1> QED
  BY <1>1, <1>2, <1>3, StepTrims

(* Where the reader's numbers stand when it is not the reader that steps.  *)
LEMMA ReadingUnder ==
    ASSUME Basic, Chained, Reading, NumbersHold', Next, UNCHANGED readerVars, ~ReaderRestart
    PROVE  /\ Reached(after + 1)'
           /\ rfd' # 0 => Reached(First(rfd) + roff)'
           /\ \A g \in DOMAIN files : Reached(First(g)) => Reached(First(g))'
<1>1. Shaped /\ after \in Nat /\ roff \in Nat /\ rfd \in DOMAIN files \cup {0}
      /\ UNCHANGED <<after, rfd, roff>>
  BY DEF Basic, Shaped, readerVars
<1>2. Reached(after + 1)'
  <2>1. PICK n \in Nat : n = after + 1
    BY <1>1
  <2>2. Reached(n)'
    BY <2>1, ReachedStays DEF Reading
  <2> QED
    BY <1>1, <2>1, <2>2
<1>3. ASSUME rfd' # 0 PROVE Reached(First(rfd) + roff)'
  <2>1. /\ rfd \in DOMAIN files /\ files'[rfd'].first = First(rfd) /\ First(rfd) \in Nat
        /\ Reached(First(rfd) + roff)
    BY <1>1, <1>3, FirstStays DEF Reading
  <2>2. PICK n \in Nat : n = First(rfd) + roff
    BY <1>1, <2>1
  <2>3. Reached(n)'
    BY <2>1, <2>2, ReachedStays
  <2>4. n = files'[rfd'].first + roff'
    BY <1>1, <2>1, <2>2
  <2> QED
    BY <2>3, <2>4 DEF First
<1>4. ASSUME NEW g \in DOMAIN files, Reached(First(g)) PROVE Reached(First(g))'
  <2>1. PICK n \in Nat : n = First(g)
    BY FirstStays
  <2>2. Reached(n)' /\ n = files'[g].first
    BY <1>4, <2>1, ReachedStays, FirstStays
  <2> QED
    BY <2>2 DEF First
<1> QED
  BY <1>2, <1>3, <1>4

LEMMA SettledKept ==
    ASSUME Basic, Chained, Reading, NumbersHold', Next
    PROVE  \A s \in Nat, t \in Traps : Numbered(s, t)' /\ s <= cursor' => count'[t] # 0 \/ t \in rotted'
<1> SUFFICES ASSUME NEW s \in Nat, NEW t \in Traps, Numbered(s, t)', s <= cursor'
             PROVE  count'[t] # 0 \/ t \in rotted'
  OBVIOUS
<1>1. /\ Shaped /\ ~PowerCut /\ after \in Nat /\ cursor \in Nat /\ cursor <= after
      /\ count \in [Traps -> Nat]
  BY HoldBefore DEF Basic, Shaped, Once
<1>2. CASE Commit
  <2>1. /\ cursor' = after /\ rotted' = rotted
        /\ count'[t] = IF t \in taken THEN count[t] + 1 ELSE count[t]
    BY <1>2 DEF Commit
  <2>2. after + 1 <= Top /\ after + 1 \in Nat /\ s < after + 1
    BY <1>1, <2>1 DEF Reading, Reached
  <2>3. Numbered(s, t)
    BY <2>2, NumberedBefore
  <2>4. count[t] # 0 \/ t \in taken \/ t \in rotted
    BY SMTT(60), <2>2, <2>3 DEF Reading, Reached, Dealt
  <2> QED
    BY <1>1, <2>1, <2>4
<1>3. CASE ~Commit
  <2>1. cursor' = cursor
    BY <1>3 DEF Next, WriterStep, ReaderStep, FaultStep, Receive, Measure, Store, Refused, BeginAppend,
                WriteTorn, WriteRecord, Sync, Recover, OpenSegment, ReadRecord, NextSegment, Prune,
                AppendFails, Crash, ReaderRestart, PowerCut, Rot, HeaderRot, Decays, readerVars
  <2>2. after + 1 <= Top /\ after + 1 \in Nat /\ s < after + 1
    BY <1>1, <2>1 DEF Reading, Reached
  <2>3. Numbered(s, t)
    BY <2>2, NumberedBefore
  <2>4. count[t] # 0 \/ t \in rotted
    BY <2>1, <2>3 DEF Reading
  <2>5. CASE ReaderRestart
    BY <2>4, <2>5 DEF ReaderRestart
  <2>6. CASE ~ReaderRestart
    BY <1>1, <2>4, <2>6, SettledStays
  <2> QED
    BY <2>5, <2>6
<1> QED
  BY <1>2, <1>3

(* The record the reader comes to is the one of its place.                 *)
LEMMA ReadRecordReaches ==
    ASSUME Basic, Chained, Reading, NumbersHold', ReadRecord
    PROVE  /\ Reached(after + 1)' /\ Reached(First(rfd) + roff)' /\ rfd' = rfd
           /\ rfd \in DOMAIN files /\ UNCHANGED files
<1>1. /\ Shaped /\ Placed /\ Faulted /\ NumbersHold /\ Next /\ ~ReaderRestart /\ Basic'
      /\ after \in Nat /\ roff \in Nat
  <2>1. ~ReaderRestart
    BY DEF ReadRecord, ReaderRestart, Shaped, Basic, ReaderLost
  <2>2. Next
    BY DEF Next, ReaderStep
  <2> QED
    BY <2>1, <2>2, HoldBefore, BasicStep DEF Basic, Shaped
<1> DEFINE r == files[rfd].recs[roff + 1]
<1>2. /\ rfd \in DOMAIN files /\ roff + 1 \in DOMAIN files[rfd].recs /\ roff + 1 <= Size(rfd)
      /\ roff' = roff + 1 /\ rfd' = rfd /\ UNCHANGED <<files, wfd, rotted, count, outbox, nextSeq, faults>>
  <2>1. rfd # 0 /\ roff < Size(rfd) /\ rfd \in DOMAIN files
    BY <1>1 DEF ReadRecord, Size, Shaped
  <2>2. Size(rfd) \in Nat /\ DOMAIN files[rfd].recs = 1 .. Size(rfd)
    BY <1>1, <2>1, SpoolFields
  <2> QED
    BY <1>1, <2>1, <2>2 DEF ReadRecord, writerVars
<1>3. PICK n \in Nat : n = First(rfd) + roff
  BY <1>1, <1>2, SpoolFields
<1>4. r.seq = n /\ r.trap \in Traps /\ Numbered(n, r.trap)
  <2>1. r.seq = First(rfd) + (roff + 1) - 1 /\ r.trap \in Traps /\ First(rfd) \in Nat
    BY <1>1, <1>2, SpoolFields DEF Placed
  <2>2. r.seq = n
    BY <1>1, <1>3, <2>1
  <2>3. Written(n, r.trap)
    BY <1>2, <2>2 DEF Written
  <2> QED
    BY <2>1, <2>2, <2>3 DEF Numbered
<1>5. \A s \in Nat, t \in Traps : Numbered(s, t)' => Numbered(s, t)
  BY <1>2 DEF Numbered, Written, Waiting
<1>6. Top' = Top /\ Top \in Nat /\ (Intact' <=> Intact)
  BY <1>2, NumbersEnd DEF Top, End, First, Size, Suffered, Intact, NumbersHold
<1>7. n + 1 <= Top
  <2>1. First(rfd) + Size(rfd) <= End /\ End <= Top /\ End \in Nat
    BY <1>1, <1>2, ChainEnd, NumbersEnd, SpoolFields DEF Shaped
  <2> QED
    BY SMTT(60), <1>1, <1>2, <1>3, <1>6, <2>1, SpoolFields
<1>8. Reached(n)
  BY <1>2, <1>3, SpoolFields DEF Reading, Shaped
<1>9. Reached(n + 1)' /\ Reached(after + 1)'
  <2>1. \A t \in Traps : Numbered(n, t) => t = r.trap
    BY <1>4 DEF Chained
  <2>2. CASE r.is = "ok" /\ Unseen(r)
    <3>1. after' = n /\ taken' = taken \cup {r.trap}
      BY <1>4, <2>2 DEF ReadRecord
    <3>2. Dealt(n + 1)'
      <4> SUFFICES ASSUME NEW s \in Nat, NEW t \in Traps, Numbered(s, t)', s < n + 1
                   PROVE  count'[t] # 0 \/ t \in taken' \/ t \in rotted'
        BY DEF Dealt
      <4>1. s < n \/ s = n
        OBVIOUS
      <4>2. CASE s < n
        BY <1>2, <1>5, <1>8, <3>1, <4>2 DEF Reached, Dealt
      <4>3. CASE s = n
        BY <1>5, <2>1, <3>1, <4>3
      <4> QED
        BY <4>1, <4>2, <4>3
    <3>3. Reached(n + 1)'
      BY <1>6, <1>7, <3>1, <3>2 DEF Reached
    <3> QED
      BY <3>1, <3>3
  <2>3. CASE ~(r.is = "ok" /\ Unseen(r))
    <3>1. UNCHANGED <<after, taken>>
      BY <2>3 DEF ReadRecord
    <3>2. \A m \in Nat : Reached(m) => Reached(m)'
      BY <1>2, <1>5, <1>6, <3>1 DEF Reached, Dealt
    <3>3. Reached(after + 1)'
      <4>1. PICK m \in Nat : m = after + 1
        BY <1>1
      <4>2. Reached(m)'
        BY <3>2, <4>1 DEF Reading
      <4> QED
        BY <3>1, <4>1, <4>2
    <3>4. CASE r.is = "ok"
      <4>1. n <= after
        BY <1>1, <1>4, <2>3, <3>4 DEF Unseen
      <4>2. Reached(n + 1)
        <5>1. PICK m \in Nat : m = after + 1
          BY <1>1
        <5>2. Reached(m) /\ n + 1 <= m /\ n + 1 \in Nat
          BY <1>1, <4>1, <5>1 DEF Reading
        <5> QED
          BY <1>1, <1>6, <5>2, ReachedBelow
      <4> QED
        BY <3>2, <3>3, <4>2
    <3>5. CASE r.is # "ok"
      <4>1. r.trap \in rotted /\ ~Intact
        BY <1>1, <1>2, <3>5 DEF Faulted, Intact, NumbersHold
      <4>2. Dealt(n + 1)
        <5> SUFFICES ASSUME NEW s \in Nat, NEW t \in Traps, Numbered(s, t), s < n + 1
                     PROVE  count[t] # 0 \/ t \in taken \/ t \in rotted
          BY DEF Dealt
        <5>1. s < n \/ s = n
          OBVIOUS
        <5>2. CASE s < n
          BY <1>8, <5>2 DEF Reached, Dealt
        <5>3. CASE s = n
          BY <2>1, <4>1, <5>3
        <5> QED
          BY <5>1, <5>2, <5>3
      <4>3. Reached(n + 1)
        BY <1>7, <4>1, <4>2 DEF Reached
      <4> QED
        BY <3>2, <3>3, <4>3
    <3> QED
      BY <3>4, <3>5
  <2> QED
    BY <2>2, <2>3
<1>10. Reached(First(rfd) + roff)'
  <2>1. n + 1 = files'[rfd'].first + roff'
    BY SMTT(60), <1>1, <1>2, <1>3, SpoolFields DEF First
  <2> QED
    BY <1>9, <2>1 DEF First
<1> QED
  BY <1>2, <1>9, <1>10

(* The reader goes to the segment that follows, or to one no further.      *)
LEMMA OpensReached ==
    ASSUME Basic, Chained, Reading, NumbersHold', OpenSegment \/ NextSegment
    PROVE  /\ rfd' \in dir /\ Reached(First(rfd')) /\ roff' = 0
           /\ Intact => skipped' = skipped
<1>1. /\ Shaped /\ NumbersHold /\ Next /\ dir \subseteq DOMAIN files
      /\ after \in Nat /\ roff \in Nat /\ cursor \in Nat /\ cursor <= after /\ Top \in Nat
      /\ rfd \in DOMAIN files \cup {0}
  <2>1. Next
    BY DEF Next, ReaderStep
  <2> QED
    BY <2>1, HoldBefore, NumbersEnd DEF Basic, Shaped, Once
<1>2. \A f \in DOMAIN files : First(f) \in Nat \ {0} /\ Size(f) \in Nat
  BY <1>1, SpoolFields
<1>3. roff' = 0
  BY DEF OpenSegment, NextSegment
<1>4. CASE OpenSegment
  <2> DEFINE holding == {f \in dir : files[f].first <= after + 1}
  <2>1. holding # {} /\ holding \subseteq DOMAIN files
    <3>1. PICK f \in dir : First(f) <= cursor + 1
      BY <1>4 DEF OpenSegment, Chained
    <3>2. files[f].first <= after + 1
      BY <1>1, <1>2, <3>1 DEF First
    <3> QED
      BY <1>1, <3>2
  <2>2. rfd' = Newest(holding) /\ skipped' = skipped
    BY <1>4, <2>1 DEF OpenSegment
  <2>3. Newest(holding) \in holding
    <3> HIDE DEF holding
    <3> QED
      BY <1>1, <2>1, NewestIs
  <2>4. rfd' \in dir /\ First(rfd') <= after + 1 /\ First(rfd') \in Nat
    BY <1>1, <1>2, <2>2, <2>3 DEF First
  <2>5. Reached(First(rfd'))
    BY <1>1, <2>4, ReachedBelow DEF Reading
  <2> QED
    BY <1>3, <2>2, <2>4, <2>5
<1>5. CASE NextSegment
  <2> DEFINE later == {f \in dir : files[f].first > files[rfd].first \/ Replaces(f)}
  <2>1. /\ later # {} /\ later \subseteq DOMAIN files /\ rfd' = Oldest(later) /\ AtEnd
        /\ rfd \in DOMAIN files
        /\ skipped' = skipped + (IF files[Oldest(later)].first > after + 1
                                 THEN files[Oldest(later)].first - (after + 1) ELSE 0)
    BY <1>1, <1>5 DEF NextSegment
  <2>2. Oldest(later) \in later /\ \A g \in later : First(Oldest(later)) <= First(g)
    <3> HIDE DEF later
    <3> QED
      BY <1>1, <2>1, OldestIs
  <2>3. \E g \in dir : g \in later /\ Reached(First(g))
    <3>1. CASE rfd \notin dir
      <4>1. PICK g \in dir : First(g) >= First(rfd) /\ Reached(First(g))
        BY <2>1, <3>1, <1>5 DEF Reading, NextSegment
      <4>2. First(g) > First(rfd) \/ (First(g) = First(rfd) /\ g # rfd)
        BY <1>1, <1>2, <2>1, <3>1, <4>1
      <4> QED
        BY <4>1, <4>2 DEF Replaces, First
    <3>2. CASE rfd \in dir
      <4>1. roff >= Size(rfd)
        <5>1. ~Waits(files[rfd].recs, roff + 1)
          <6>1. ASSUME Waits(files[rfd].recs, roff + 1) PROVE FALSE
            <7>1. roff + 1 \in DOMAIN files[rfd].recs /\ files[rfd].recs[roff + 1].is = "long"
              <8>1. DOMAIN files[rfd].recs = 1 .. Size(rfd) /\ roff + 1 <= Size(rfd)
                BY <1>1, <2>1, <6>1, SpoolFields DEF Waits, Size
              <8> QED
                BY <1>1, <1>2, <2>1, <6>1, <8>1 DEF Waits
            <7>2. Suffered("header")
              BY <2>1, <7>1 DEF Basic, Faulted
            <7> QED
              BY <1>1, <7>2 DEF NumbersHold
          <6> QED
            BY <6>1
        <5> QED
          BY <2>1, <5>1 DEF AtEnd, Size
      <4>2. rfd # wfd
        <5> SUFFICES ASSUME rfd = wfd PROVE FALSE
          OBVIOUS
        <5>1. wfd # 0
          BY <1>5 DEF NextSegment
        <5>2. PICK f \in later : f \in dir
          BY <2>1
        <5>3. f # wfd
          <6>1. First(f) > First(rfd) \/ f # rfd
            BY <5>2 DEF Replaces, First
          <6>2. First(rfd) \in Nat
            BY <1>2, <2>1
          <6> QED
            BY <6>1, <6>2
        <5>4. First(f) < First(wfd) /\ First(f) \in Nat /\ First(wfd) \in Nat
          BY <1>1, <1>2, <2>1, <5>1, <5>2, <5>3, ChainEnd
        <5>5. First(f) > First(wfd) \/ First(f) = First(wfd)
          BY <5>2 DEF Replaces, First
        <5> QED
          BY <5>4, <5>5
      <4>3. Size(rfd) > 0 /\ \E g \in dir : First(g) = First(rfd) + Size(rfd)
        BY <3>2, <4>2 DEF Chained
      <4>4. PICK g \in dir : First(g) = First(rfd) + Size(rfd)
        BY <4>3
      <4>5. First(g) > First(rfd) /\ First(g) <= First(rfd) + roff /\ First(rfd) + roff \in Nat
            /\ First(g) \in Nat
        BY <1>1, <1>2, <2>1, <4>1, <4>3, <4>4
      <4>6. Reached(First(rfd) + roff)
        BY <1>5 DEF Reading, NextSegment
      <4>7. Reached(First(g))
        BY <1>1, <4>5, <4>6, ReachedBelow
      <4> QED
        BY <4>5, <4>7 DEF First
    <3> QED
      BY <3>1, <3>2
  <2>4. PICK g \in dir : g \in later /\ Reached(First(g))
    BY <2>3
  <2>5. rfd' \in dir /\ First(rfd') <= First(g) /\ First(rfd') \in Nat /\ First(g) \in Nat
    BY <1>1, <1>2, <2>1, <2>2, <2>4
  <2>6. Reached(First(rfd'))
    BY <1>1, <2>4, <2>5, ReachedBelow
  <2>7. Intact => skipped' = skipped
    <3> SUFFICES ASSUME Intact PROVE skipped' = skipped
      OBVIOUS
    <3>1. First(rfd') <= after + 1
      BY <2>6 DEF Reached
    <3>2. ~(files[Oldest(later)].first > after + 1)
      BY <1>1, <2>1, <2>5, <3>1 DEF First
    <3> QED
      BY <1>1, <2>1, <3>2 DEF Shaped
  <2> QED
    BY <1>3, <2>5, <2>6, <2>7
<1> QED
  BY <1>4, <1>5

LEMMA ReadingKept ==
    ASSUME Basic, Chained, Reading, NumbersHold', Next
    PROVE  Reading'
<1>1. /\ Shaped /\ Placed /\ Writing /\ Shaped' /\ NumbersHold /\ ~PowerCut /\ ~HeaderRot
      /\ dir \subseteq DOMAIN files /\ cursor \in Nat /\ after \in Nat /\ cursor <= after
      /\ rfd \in DOMAIN files \cup {0} /\ (Intact' => Intact)
  BY HoldBefore, ShapedKept DEF Basic, Shaped, Once
<1>2. \A f \in DOMAIN files : First(f) \in Nat \ {0} /\ Size(f) \in Nat
  BY <1>1, SpoolFields
<1>3. \A s \in Nat, t \in Traps : Numbered(s, t)' /\ s <= cursor' => count'[t] # 0 \/ t \in rotted'
  BY SettledKept
<1>4. CASE UNCHANGED readerVars /\ ~ReaderRestart
  <2>1. UNCHANGED <<rfd, skipped>>
    BY <1>4 DEF readerVars
  <2>2. /\ Reached(after + 1)' /\ (rfd' # 0 => Reached(First(rfd) + roff)')
        /\ \A g \in DOMAIN files : Reached(First(g)) => Reached(First(g))'
    BY <1>4, ReadingUnder
  <2>3. ASSUME rfd' # 0, rfd' \notin dir'
        PROVE  \E g \in dir' : First(g)' >= First(rfd)' /\ Reached(First(g))'
    <3>1. /\ rfd \in DOMAIN files /\ First(rfd)' = First(rfd)
          /\ \A g \in DOMAIN files : First(g)' = First(g)
      BY <1>1, <2>1, <2>3, FirstStays DEF First
    <3>2. ASSUME NEW g \in dir, g \in dir', First(g) >= First(rfd), Reached(First(g))
          PROVE  \E h \in dir' : First(h)' >= First(rfd)' /\ Reached(First(h))'
      BY <1>1, <2>2, <3>1, <3>2
    <3>3. CASE dir \subseteq dir'
      BY <2>1, <2>3, <3>2, <3>3 DEF Reading
    <3>4. CASE Prune
      <4> DEFINE S == {f \in dir : First(f) <= cursor + 1}
      <4> DEFINE m == Newest(S)
      <4>1. \A f : Prunable(f) <=> \E g \in dir : First(g) > First(f) /\ First(g) <= cursor + 1
        BY DEF Prunable, First
      <4>2. dir' = {f \in dir : ~Prunable(f)}
        BY <3>4 DEF Prune
      <4>3. S # {} /\ S \subseteq DOMAIN files
        BY <1>1, <3>4 DEF Chained, Prune
      <4>4. m \in S /\ \A g \in S : First(g) <= First(m)
        <5> HIDE DEF S
        <5> QED
          BY <1>1, <4>3, NewestIs
      <4> HIDE DEF m
      <4>5. m \in dir'
        BY <1>1, <1>2, <4>1, <4>2, <4>4
      <4>6. First(m) \in Nat /\ First(m) <= after + 1
        BY <1>1, <1>2, <4>4
      <4>7. Reached(First(m))
        BY <1>1, <4>6, ReachedBelow, NumbersEnd DEF Reading
      <4>8. CASE rfd \in dir
        <5>1. Prunable(rfd)
          BY <2>1, <2>3, <4>2, <4>8
        <5>2. PICK h \in dir : First(h) > First(rfd) /\ First(h) <= cursor + 1
          BY <4>1, <5>1
        <5>3. First(m) >= First(rfd)
          BY <1>1, <1>2, <3>1, <4>4, <4>6, <5>2
        <5>4. m \in dir
          BY <4>4
        <5> QED
          BY <3>2, <4>5, <4>7, <5>3, <5>4
      <4>9. CASE rfd \notin dir
        <5>1. PICK g \in dir : First(g) >= First(rfd) /\ Reached(First(g))
          BY <2>1, <2>3, <4>9 DEF Reading
        <5>2. CASE g \in dir'
          BY <3>2, <5>1, <5>2
        <5>3. CASE g \notin dir'
          <6>1. PICK h \in dir : First(h) > First(g) /\ First(h) <= cursor + 1
            BY <4>1, <4>2, <5>3
          <6>2. First(m) >= First(rfd)
            BY <1>1, <1>2, <3>1, <4>4, <4>6, <5>1, <6>1
          <6>3. m \in dir
            BY <4>4
          <6> QED
            BY <3>2, <4>5, <4>7, <6>2, <6>3
        <5> QED
          BY <5>2, <5>3
      <4> QED
        BY <4>8, <4>9
    <3>5. CASE Recover
      <4>1. wfd # 0 /\ wfd \in dir /\ wfd \in DOMAIN files
        <5>1. wfd = Len(files) /\ DOMAIN files = 1 .. Len(files) /\ Len(files) \in Nat
          BY <1>1, SpoolFields DEF Shaped
        <5>2. wfd # 0
          BY <3>1, <5>1
        <5> QED
          BY <5>2, ChainEnd
      <4>2. /\ dir' = (IF Size(wfd) = 0 THEN dir \ {wfd} ELSE dir) \cup {wfd'}
            /\ files'[wfd'].first = End
        BY <1>1, <3>5, <4>1, RecoverKeeps DEF First
      <4>3. \E g \in dir : First(g) >= First(rfd) /\ Reached(First(g)) /\ (g \in dir' \/ g = wfd)
        <5>1. CASE rfd \in dir
          <6>1. rfd = wfd
            BY <2>1, <2>3, <4>2, <5>1
          <6>2. /\ Reached(First(rfd) + roff) /\ First(rfd) \in Nat /\ First(rfd) + roff \in Nat
                /\ First(rfd) <= First(rfd) + roff
            <7>1. roff \in Nat
              BY <1>1 DEF Shaped
            <7> QED
              BY <1>2, <2>1, <2>3, <3>1, <7>1 DEF Reading
          <6>3. Reached(First(rfd))
            BY <1>1, <6>2, ReachedBelow, NumbersEnd
          <6> QED
            BY <5>1, <6>1, <6>2, <6>3
        <5>2. CASE rfd \notin dir
          BY <2>1, <2>3, <4>2, <5>2 DEF Reading
        <5> QED
          BY <5>1, <5>2
      <4>4. PICK g \in dir : First(g) >= First(rfd) /\ Reached(First(g)) /\ (g \in dir' \/ g = wfd)
        BY <4>3
      <4>5. CASE g \in dir'
        BY <3>2, <4>4, <4>5
      <4>6. CASE g \notin dir'
        <5>1. g = wfd /\ Size(wfd) = 0
          BY <4>2, <4>4, <4>6
        <5>2. End = First(g)
          BY <1>2, <4>1, <5>1, ChainEnd
        <5>3. PICK n \in Nat : n = First(g)
          BY <1>2, <4>1, <5>1
        <5>4. Reached(n)'
          BY <1>4, <4>4, <5>3, ReachedStays
        <5>5. wfd' \in dir' /\ files'[wfd'].first = n
          BY <4>2, <5>2, <5>3
        <5>6. files'[wfd'].first >= First(rfd)'
          BY <3>1, <4>4, <5>2, <4>2
        <5> QED
          BY <5>4, <5>5, <5>6 DEF First
      <4> QED
        BY <4>5, <4>6
    <3>6. dir \subseteq dir' \/ Prune \/ Recover
      BY <1>1, <1>4 DEF Next, WriterStep, ReaderStep, FaultStep, Receive, Measure, Store, Refused, BeginAppend,
           WriteTorn, WriteRecord, Sync, OpenSegment, ReadRecord, NextSegment, Commit, AppendFails,
           Crash, ReaderRestart, Rot, Decays, writerVars
    <3> QED
      BY <3>3, <3>4, <3>5, <3>6
  <2>4. Intact' => skipped' = 0
    BY <1>1, <2>1 DEF Reading
  <2> QED
    BY <1>3, <2>2, <2>3, <2>4 DEF Reading
<1>5. CASE ReaderRestart
  <2>1. /\ rfd' = 0 /\ after' = cursor /\ taken' = {}
        /\ UNCHANGED <<files, outbox, nextSeq, wfd, cursor, count, skipped, rotted>>
    BY <1>5 DEF ReaderRestart, ReaderLost, writerVars
  <2>2. PICK n \in Nat : n = cursor + 1
    BY <1>1
  <2>3. Dealt(n)'
    <3> SUFFICES ASSUME NEW s \in Nat, NEW t \in Traps, Numbered(s, t)', s < n
                 PROVE  count'[t] # 0 \/ t \in taken' \/ t \in rotted'
      BY DEF Dealt
    <3>1. s <= cursor'
      BY <1>1, <2>1, <2>2
    <3> QED
      BY <1>3, <3>1
  <2>4. n <= Top /\ Top <= Top' /\ Top \in Nat /\ Top' \in Nat
    BY <1>1, <2>2, TopGrows, NumbersEnd DEF Reading, Reached
  <2>5. Reached(n)' /\ n = after' + 1
    BY <1>1, <2>1, <2>2, <2>3, <2>4 DEF Reached
  <2> QED
    BY <1>1, <1>3, <2>1, <2>5 DEF Reading
<1>6. CASE OpenSegment \/ NextSegment
  <2>1. /\ rfd' \in dir /\ Reached(First(rfd')) /\ roff' = 0 /\ (Intact => skipped' = skipped)
    BY <1>6, OpensReached
  <2>2. UNCHANGED <<files, dir, after>> /\ ~ReaderRestart
    <3>1. UNCHANGED <<files, dir, after>>
      BY <1>6 DEF OpenSegment, NextSegment
    <3>2. rfd' # 0
      <4>1. DOMAIN files = 1 .. Len(files) /\ rfd' \in DOMAIN files
        BY <1>1, <2>1, SpoolFields
      <4> QED
        BY <4>1
    <3> QED
      BY <3>1, <3>2 DEF ReaderRestart, ReaderLost
  <2>3. PICK n \in Nat : n = after + 1
    BY <1>1
  <2>4. Reached(n)'
    BY <2>2, <2>3, ReachedStays DEF Reading
  <2>5. PICK m \in Nat : m = First(rfd')
    BY <1>1, <1>2, <2>1
  <2>6. Reached(m)'
    BY <2>1, <2>2, <2>5, ReachedStays
  <2>7. m = files'[rfd'].first + roff'
    BY <1>2, <2>1, <2>2, <2>5 DEF First
  <2>8. Reached(First(rfd) + roff)'
    BY <2>6, <2>7 DEF First
  <2> QED
    BY <1>1, <1>3, <2>1, <2>2, <2>3, <2>4, <2>8 DEF Reading
<1>7. CASE ReadRecord
  <2>1. Reached(after + 1)' /\ Reached(First(rfd) + roff)' /\ rfd' = rfd /\ rfd \in DOMAIN files
        /\ UNCHANGED <<files, dir, skipped>> /\ ~ReaderRestart
    BY <1>1, <1>7, ReadRecordReaches DEF ReadRecord, ReaderRestart, ReaderLost
  <2>2. ASSUME rfd' \notin dir'
        PROVE  \E g \in dir' : First(g)' >= First(rfd)' /\ Reached(First(g))'
    <3>1. PICK g \in dir : First(g) >= First(rfd) /\ Reached(First(g))
      BY <1>1, <2>1, <2>2, <1>7 DEF Reading, ReadRecord
    <3>2. PICK n \in Nat : n = First(g)
      BY <1>1, <1>2
    <3>3. Reached(n)' /\ n = files'[g].first /\ files'[g].first >= First(rfd)'
      BY <2>1, <3>1, <3>2, ReachedStays DEF First
    <3> QED
      BY <2>1, <3>3 DEF First
  <2> QED
    BY <1>1, <1>3, <2>1, <2>2 DEF Reading
<1>8. CASE Commit
  <2>1. UNCHANGED <<files, dir, after, rfd, roff, skipped>> /\ ~ReaderRestart
    <3>1. UNCHANGED <<files, dir, after, rfd, roff, skipped>> /\ cursor' = after /\ after > cursor
      BY <1>8 DEF Commit
    <3>2. cursor' # cursor
      BY <1>1, <3>1
    <3> QED
      BY <3>1, <3>2 DEF ReaderRestart
  <2>2. PICK n \in Nat : n = after + 1
    BY <1>1
  <2>3. Reached(n)'
    BY <2>1, <2>2, ReachedStays DEF Reading
  <2>4. ASSUME rfd' # 0 PROVE Reached(First(rfd) + roff)'
    <3>1. rfd \in DOMAIN files /\ Reached(First(rfd) + roff) /\ roff \in Nat
      BY <1>1, <2>1, <2>4 DEF Reading, Shaped
    <3>2. PICK m \in Nat : m = First(rfd) + roff
      BY <1>2, <3>1
    <3>3. Reached(m)' /\ m = files'[rfd'].first + roff'
      BY <2>1, <3>1, <3>2, ReachedStays DEF First
    <3> QED
      BY <3>3 DEF First
  <2>5. ASSUME rfd' # 0, rfd' \notin dir'
        PROVE  \E g \in dir' : First(g)' >= First(rfd)' /\ Reached(First(g))'
    <3>1. PICK g \in dir : First(g) >= First(rfd) /\ Reached(First(g))
      BY <2>1, <2>5 DEF Reading
    <3>2. PICK m \in Nat : m = First(g)
      BY <1>1, <1>2
    <3>3. Reached(m)' /\ m = files'[g].first /\ files'[g].first >= First(rfd)'
      BY <2>1, <3>1, <3>2, ReachedStays DEF First
    <3> QED
      BY <2>1, <3>3 DEF First
  <2> QED
    BY <1>1, <1>3, <2>1, <2>2, <2>3, <2>4, <2>5 DEF Reading
<1>9. UNCHANGED readerVars \/ OpenSegment \/ NextSegment \/ ReadRecord \/ Commit \/ ReaderRestart
  BY <1>1 DEF Next, WriterStep, ReaderStep, FaultStep, Receive, Measure, Store, Refused, BeginAppend,
       WriteTorn, WriteRecord, Sync, Recover, Prune, AppendFails, Crash, Rot, Decays
<1> QED
  BY <1>4, <1>5, <1>6, <1>7, <1>8, <1>9

(* The record of a trap reported durable is not cut: what is cut back when *)
(* a group fails is of the outbox, and a recovery finds nothing to cut.    *)
LEMMA RecordStays ==
    ASSUME Basic, Chained, NumbersHold', Next, NEW f \in DOMAIN files,
           NEW i \in DOMAIN files[f].recs, files[f].recs[i].trap \in acked
    PROVE  /\ f \in DOMAIN files' /\ i \in DOMAIN files'[f].recs
           /\ files'[f].recs[i].trap = files[f].recs[i].trap
           /\ files'[f].recs[i].seq = files[f].recs[i].seq
<1>1. Shaped /\ Placed /\ Writing /\ NumbersHold /\ ~PowerCut /\ ~HeaderRot
  BY HoldBefore DEF Basic
<1>2. /\ Size(f) \in Nat /\ DOMAIN files[f].recs = 1 .. Size(f) /\ i \in Nat /\ i <= Size(f) /\ 1 <= i
  BY <1>1, SpoolFields
<1>3. CASE Trimmed /\ Size(f)' \in Nat /\ i <= Size(f)'
  <2>1. f \in DOMAIN files' /\ files'[f] \in File
    BY <1>3 DEF Trimmed
  <2>2. files'[f].recs \in Seq(Record) /\ Len(files'[f].recs) = Size(f)'
    BY <2>1 DEF File, Size
  <2>3. i \in DOMAIN files'[f].recs
    BY <1>2, <1>3, <2>2
  <2> QED
    BY <1>3, <2>1, <2>3 DEF Trimmed, Kept
<1>4. CASE UNCHANGED files
  BY <1>4
<1>5. CASE WriteRecord
  <2>1. /\ files' \in Seq(File) /\ DOMAIN files' = DOMAIN files
        /\ \A g \in DOMAIN files : g # wfd => files'[g] = files[g]
        /\ Size(wfd)' = Size(wfd) + 1 /\ wfd' = wfd
        /\ \A j \in DOMAIN files[wfd].recs : files'[wfd].recs[j] = files[wfd].recs[j]
    BY <1>1, <1>5, WriteRecordFiles DEF WriteRecord
  <2>2. CASE f = wfd
    <3>1. files'[f] \in File
      BY <2>1
    <3>2. files'[f].recs \in Seq(Record) /\ Len(files'[f].recs) = Size(f) + 1
      BY <2>1, <2>2, <3>1 DEF File, Size
    <3>3. i \in DOMAIN files'[f].recs
      BY <1>2, <3>2
    <3> QED
      BY <2>1, <2>2, <3>3
  <2>3. CASE f # wfd
    BY <2>1, <2>3
  <2> QED
    BY <2>2, <2>3
<1>6. CASE WriteTorn \/ Sync
  <2>1. Trimmed /\ files'[f].recs = files[f].recs
    BY <1>1, <1>6, WriteTornFiles, SyncFiles
  <2> QED
    BY <1>2, <1>3, <2>1 DEF Size
<1>7. CASE Rot
  BY <1>1, <1>2, <1>3, <1>7, DecaysFiles DEF Rot
<1>8. CASE Recover
  BY <1>1, <1>2, <1>3, <1>8, RecoverKeeps, RecoverFiles
<1>9. CASE AppendFails
  <2>1. /\ Trimmed /\ Size(wfd)' = wsize /\ wfd' = wfd /\ wsize \in Nat
        /\ \A g \in DOMAIN files : g # wfd => files'[g] = files[g]
    BY <1>1, <1>9, AppendFailsFiles DEF AppendFails, Shaped
  <2>2. CASE f # wfd
    <3>1. Size(f)' = Size(f)
      BY <2>1, <2>2 DEF Size
    <3> QED
      BY <1>2, <1>3, <2>1, <3>1
  <2>3. CASE f = wfd
    <3>1. /\ Size(wfd) = wsize + done /\ done <= group /\ group <= Len(outbox)
          /\ \A j \in 1 .. done : files[wfd].recs[wsize + j].trap = outbox[j]
      BY <1>9 DEF AppendFails, Basic, Writing
    <3>2. done \in Nat /\ group \in Nat /\ Len(outbox) \in Nat /\ DOMAIN outbox = 1 .. Len(outbox)
      BY <1>1, SpoolFields DEF Shaped
    <3>3. i <= wsize
      <4> SUFFICES ASSUME ~(i <= wsize) PROVE FALSE
        OBVIOUS
      <4>1. PICK j \in 1 .. done : i = wsize + j
        <5>1. i - wsize \in 1 .. done /\ i = wsize + (i - wsize)
          BY <1>2, <2>1, <2>3, <3>1, <3>2
        <5> QED
          BY <5>1
      <4>2. files[f].recs[i].trap = outbox[j] /\ j \in DOMAIN outbox
        BY <2>3, <3>1, <3>2, <4>1
      <4> QED
        BY <4>2 DEF Basic, Once
    <3>4. Size(f)' = wsize
      BY <2>1, <2>3 DEF Size
    <3> QED
      BY <1>3, <2>1, <3>3, <3>4
  <2> QED
    BY <2>2, <2>3
<1> QED
  BY <1>1, <1>4, <1>5, <1>6, <1>7, <1>8, <1>9
     DEF Next, WriterStep, ReaderStep, FaultStep, Receive, Measure, Store, Refused, BeginAppend,
         OpenSegment, ReadRecord, NextSegment, Commit, Prune, Crash, ReaderRestart

(* Its segment is deleted only when all its records are before the cursor. *)
LEMMA SegmentStays ==
    ASSUME Basic, Chained, NumbersHold', Next, NEW f \in dir, NEW i \in DOMAIN files[f].recs,
           files[f].recs[i].seq > cursor
    PROVE  f \in dir'
<1>1. Shaped /\ Placed /\ NumbersHold /\ ~PowerCut /\ ~HeaderRot /\ cursor \in Nat /\ dir \subseteq DOMAIN files
  BY HoldBefore DEF Basic, Shaped
<1>2. /\ First(f) \in Nat /\ Size(f) \in Nat /\ i \in 1 .. Size(f)
      /\ files[f].recs[i].seq = First(f) + i - 1
  BY <1>1, SpoolFields DEF Placed
<1>3. CASE Prune
  <2> SUFFICES ASSUME f \notin dir' PROVE FALSE
    OBVIOUS
  <2>1. PICK g \in dir : First(g) > First(f) /\ First(g) <= cursor + 1
    BY <1>3 DEF Prune, Prunable, First
  <2>2. f # wfd
    <3>1. ASSUME f = wfd PROVE FALSE
      <4>1. wfd # 0 /\ g # wfd /\ First(g) \in Nat /\ g \in dir
        <5>1. DOMAIN files = 1 .. Len(files) /\ f \in DOMAIN files /\ First(g) \in Nat
          BY <1>1, <2>1, SpoolFields
        <5> QED
          BY <1>2, <2>1, <3>1, <5>1
      <4>2. First(g) < First(wfd)
        BY <4>1, ChainEnd
      <4> QED
        BY <1>2, <2>1, <3>1, <4>1, <4>2
    <3> QED
      BY <3>1
  <2>3. f \in DOMAIN files /\ g \in DOMAIN files /\ f \in Nat /\ g \in Nat
        /\ First(g) \in Nat /\ Size(g) \in Nat
    <3>1. DOMAIN files = 1 .. Len(files)
      BY <1>1, SpoolFields
    <3> QED
      BY <1>1, <2>1, <3>1, SpoolFields
  <2>4. First(f) + Size(f) <= First(g)
    <3>1. CASE f < g
      BY <2>3, <3>1 DEF Chained
    <3>2. CASE g < f
      <4>1. First(g) + Size(g) <= First(f)
        BY <2>3, <3>2 DEF Chained
      <4> QED
        BY <1>2, <2>1, <2>3, <4>1
    <3>3. CASE f = g
      BY <1>2, <2>1, <3>3
    <3> QED
      BY <2>3, <3>1, <3>2, <3>3
  <2> QED
    BY <1>1, <1>2, <2>1, <2>3, <2>4
<1>4. CASE Recover
  <2>1. CASE f # wfd
    BY <1>1, <1>4, <2>1, RecoverKeeps DEF Shaped
  <2>2. CASE f = wfd
    <3>1. Size(f) # 0 /\ wfd # 0
      <4>1. DOMAIN files = 1 .. Len(files)
        BY <1>1, SpoolFields
      <4> QED
        BY <1>1, <1>2, <2>2, <4>1
    <3> QED
      BY <1>1, <1>4, <2>2, <3>1, RecoverKeeps
  <2> QED
    BY <2>1, <2>2
<1>5. CASE dir \subseteq dir'
  BY <1>5
<1> QED
  BY <1>1, <1>3, <1>4, <1>5
     DEF Next, WriterStep, ReaderStep, FaultStep, Receive, Measure, Store, Refused, BeginAppend,
         WriteTorn, WriteRecord, Sync, OpenSegment, ReadRecord, NextSegment, Commit, AppendFails,
         Crash, ReaderRestart, Rot, Decays

LEMMA AckedStays ==
    ASSUME Basic, Chained, Reading, AckedKept, NumbersHold', Next
    PROVE  AckedKept'
<1>1. /\ Shaped /\ Placed /\ Writing /\ NumbersHold /\ ~PowerCut /\ cursor \in Nat
      /\ dir \subseteq DOMAIN files /\ \A t \in acked : t \in Traps
  BY HoldBefore, SpoolFields DEF Basic, Shaped
<1>2. count \in [Traps -> Nat] /\ count' \in [Traps -> Nat]
  BY <1>1, ShapedKept DEF Shaped
<1>3. \A t \in Traps : /\ count[t] # 0 => count'[t] # 0
                       /\ t \in rotted => t \in rotted'
  <2>1. CASE ReaderRestart
    BY <2>1 DEF ReaderRestart
  <2>2. CASE ~ReaderRestart
    BY <1>1, <2>2, SettledStays
  <2> QED
    BY <2>1, <2>2
<1> DEFINE Held(t) == \E f \in dir : \E i \in DOMAIN files[f].recs :
                          /\ files[f].recs[i].trap = t /\ files[f].recs[i].seq > cursor
<1>4. ASSUME NEW t \in acked', t \notin rotted'
      PROVE  t \in Traps /\ (count'[t] # 0 \/ Held(t)')
  <2>1. CASE t \in acked
    <3>1. t \in Traps /\ (count[t] # 0 \/ Held(t))
      BY <1>1, <1>2, <1>3, <1>4, <2>1 DEF AckedKept
    <3>2. CASE count[t] # 0
      BY <1>3, <3>1, <3>2
    <3>3. CASE Held(t)
      <4>1. PICK f \in dir : \E i \in DOMAIN files[f].recs :
                files[f].recs[i].trap = t /\ files[f].recs[i].seq > cursor
        BY <3>3
      <4>2. PICK i \in DOMAIN files[f].recs :
                files[f].recs[i].trap = t /\ files[f].recs[i].seq > cursor
        BY <4>1
      <4>3. PICK s : s = files[f].recs[i].seq
        OBVIOUS
      <4>4. /\ f \in dir' /\ f \in DOMAIN files' /\ i \in DOMAIN files'[f].recs
            /\ files'[f].recs[i].trap = t /\ files'[f].recs[i].seq = s
        BY <1>1, <2>1, <4>2, <4>3, RecordStays, SegmentStays
      <4>5. CASE s > cursor'
        BY <3>1, <4>4, <4>5
      <4>6. CASE ~(s > cursor')
        <5>1. s \in Nat /\ cursor' \in Nat
          <6>1. s \in Nat
            BY <1>1, <4>2, <4>3, SpoolFields
          <6>2. cursor' \in Nat
            BY <1>1, ShapedKept DEF Shaped
          <6> QED
            BY <6>1, <6>2
        <5>2. Numbered(s, t)'
          BY <4>4 DEF Numbered, Written
        <5>3. s <= cursor'
          BY <4>6, <5>1
        <5> QED
          BY <1>4, <3>1, <5>1, <5>2, <5>3, SettledKept
      <4> QED
        BY <4>5, <4>6
    <3> QED
      BY <3>1, <3>2, <3>3
  <2>2. CASE t \notin acked
    <3>1. Sync
      BY <1>1, <1>4, <2>2
         DEF Next, WriterStep, ReaderStep, FaultStep, Receive, Measure, Store, Refused, BeginAppend,
             WriteTorn, WriteRecord, Recover, OpenSegment, ReadRecord, NextSegment, Commit, Prune,
             AppendFails, Crash, ReaderRestart, Rot, HeaderRot, Decays, writerVars
    <3>2. PICK i \in 1 .. group : t = outbox[i]
      BY <1>4, <2>2, <3>1 DEF Sync
    <3>3. /\ wfd # 0 /\ done = group /\ group <= Len(outbox) /\ First(wfd) + wsize = nextSeq
          /\ files[wfd].recs[wsize + i].trap = outbox[i] /\ cursor' = cursor
      BY <1>1, <3>1, <3>2 DEF Sync, Writing, readerVars
    <3>4. /\ wsize \in Nat /\ group \in Nat /\ Len(outbox) \in Nat /\ wfd \in dir /\ wfd \in DOMAIN files
          /\ DOMAIN files[wfd].recs = 1 .. Size(wfd) /\ Size(wfd) = wsize + done
          /\ i \in DOMAIN outbox /\ t \in Traps
      <4>1. wsize \in Nat /\ group \in Nat /\ Len(outbox) \in Nat /\ i \in DOMAIN outbox
        BY <1>1, <3>2, <3>3, SpoolFields DEF Shaped
      <4>2. wfd \in dir /\ wfd \in DOMAIN files
        BY <3>3, ChainEnd
      <4>3. DOMAIN files[wfd].recs = 1 .. Size(wfd) /\ t \in Traps
        BY <1>1, <3>2, <4>1, <4>2, SpoolFields
      <4>4. Size(wfd) = wsize + done
        BY <1>1, <3>1 DEF Sync, Writing
      <4> QED
        BY <4>1, <4>2, <4>3, <4>4
    <3>5. wsize + i \in DOMAIN files[wfd].recs
      BY <3>2, <3>3, <3>4
    <3>6. PICK s \in Nat : s = files[wfd].recs[wsize + i].seq
      BY <1>1, <3>4, <3>5, SpoolFields
    <3>7. CASE s <= cursor
      <4>1. Numbered(s, t)
        BY <3>2, <3>3, <3>4, <3>5, <3>6 DEF Numbered, Written
      <4>2. count[t] # 0 \/ t \in rotted
        BY <3>4, <3>7, <4>1 DEF Reading
      <4> QED
        BY <1>3, <1>4, <3>4, <4>2
    <3>8. CASE ~(s <= cursor)
      <4>1. wfd \in dir' /\ files'[wfd].recs = files[wfd].recs
        BY <1>1, <3>1, <3>4, SyncFiles
      <4>2. s > cursor'
        BY <1>1, <3>3, <3>6, <3>8
      <4> QED
        BY <3>2, <3>3, <3>4, <3>5, <3>6, <4>1, <4>2
    <3> QED
      BY SMTT(60), <3>7, <3>8
  <2> QED
    BY <2>1, <2>2
<1> QED
  BY <1>2, <1>4 DEF AckedKept

LEMMA SpoolInit == Init => SpoolInv
<1> SUFFICES ASSUME Init PROVE SpoolInv
  OBVIOUS
<1>1. /\ DOMAIN files = {} /\ DOMAIN outbox = {} /\ dir = {} /\ wfd = 0 /\ rfd = 0 /\ acked = {}
      /\ after = 0 /\ skipped = 0 /\ nextSeq = 1 /\ Len(outbox) = 0
  BY DEF Init
<1>2. \A s, t : ~Numbered(s, t)
  BY <1>1 DEF Numbered, Written, Waiting
<1>3. Chained
  BY <1>1, <1>2 DEF Chained
<1>4. Reached(after + 1)
  <2>1. after + 1 = 1 /\ Top = 1
    BY <1>1 DEF Top, End
  <2>2. Dealt(after + 1)
    BY <1>2 DEF Dealt
  <2> QED
    BY <2>1, <2>2 DEF Reached
<1>5. Reading /\ AckedKept
  BY <1>1, <1>2, <1>4 DEF Reading, AckedKept
<1> QED
  BY <1>3, <1>5, BasicInit DEF SpoolInv

LEMMA SpoolStep == SpoolInv /\ [Next]_vars => SpoolInv'
<1> SUFFICES ASSUME SpoolInv, [Next]_vars PROVE SpoolInv'
  OBVIOUS
<1>1. Basic /\ Basic'
  BY BasicStep DEF SpoolInv
<1>2. CASE Next
  <2>1. NumbersHold' => NumbersHold
    BY <1>1, <1>2, HoldBefore DEF Basic
  <2> SUFFICES ASSUME NumbersHold' PROVE Chained' /\ Reading' /\ AckedKept'
    BY <1>1 DEF SpoolInv
  <2>2. Chained /\ Reading /\ AckedKept
    BY <2>1 DEF SpoolInv
  <2> QED
    BY <1>1, <1>2, <2>2, ChainedKept, ReadingKept, AckedStays
<1>3. CASE UNCHANGED vars
  <2> USE <1>3 DEF vars
  <2>1. NumbersHold' = NumbersHold /\ Intact' = Intact
    BY DEF NumbersHold, Intact, Suffered
  <2>2. \A s, t : Numbered(s, t)' = Numbered(s, t)
    BY DEF Numbered, Written, Waiting
  <2>3. Chained => Chained'
    BY <2>2 DEF Chained, First, Size
  <2>4. ASSUME NEW n, Reached(n) PROVE Dealt(n)' /\ n <= Top' /\ (Intact' => n <= after' + 1)
    BY <2>1, <2>2, <2>4 DEF Reached, Dealt, Top, End, Suffered, First, Size
  <2>5. Reading => Reading'
    <3> SUFFICES ASSUME Reading PROVE Reading'
      OBVIOUS
    <3>1. Reached(after + 1)'
      BY <2>4 DEF Reading, Reached
    <3>2. rfd' # 0 => Reached(First(rfd) + roff)'
      BY <2>4 DEF Reading, Reached, First
    <3>3. rfd' # 0 /\ rfd' \notin dir' => \E g \in dir' : First(g)' >= First(rfd)' /\ Reached(First(g))'
      BY <2>4 DEF Reading, Reached, First
    <3> QED
      BY <2>1, <2>2, <3>1, <3>2, <3>3 DEF Reading
  <2>6. AckedKept => AckedKept'
    BY DEF AckedKept
  <2> QED
    BY <1>1, <2>1, <2>3, <2>5, <2>6 DEF SpoolInv
<1> QED
  BY <1>2, <1>3

LEMMA SpoolInvariant == Spec => []SpoolInv
BY SpoolInit, SpoolStep, PTL DEF Spec

(* Every trap the spool reported durable, and whose record did not decay,  *)
(* is classified or in a segment the reader still comes to, as long as no  *)
(* number was given to another trap: rotation, pruning, a failed group     *)
(* written again and every restart keep it.                                *)
THEOREM AckedUntilClassified == Spec => []AckedKeptSafe
<1>1. SpoolInv => AckedKeptSafe
  BY DEF SpoolInv, AckedKeptSafe
<1> QED
  BY <1>1, SpoolInvariant, PTL

(* On an intact disk the reader never misses a number, wherever the writer *)
(* rotates and whatever is pruned under the segment it reads.              *)
THEOREM NoNumberMissing == Spec => []NothingMissing
<1>1. SpoolInv => NothingMissing
  BY DEF SpoolInv, NothingMissing, Reading, Intact
<1> QED
  BY <1>1, SpoolInvariant, PTL

=============================================================================
