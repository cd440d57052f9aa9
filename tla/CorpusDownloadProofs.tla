------------------------ MODULE CorpusDownloadProofs ------------------------
(***************************************************************************)
(* Theorems about CorpusDownload, for any services, limits and page size,  *)
(* and any number of runs and crashes: a file never has too many lines,    *)
(* and resuming by counting them misses at most two entries for a kill.    *)
(***************************************************************************)
EXTENDS CorpusDownload, FiniteSetTheorems, FunctionTheorems, SequenceTheorems, TLAPS

\* What the lines were written for.
Records(lines) == UNION {lines[i].of : i \in DOMAIN lines}

\* What the lines were written for that cannot be read.
Lost(lines) == UNION {lines[i].of : i \in {j \in DOMAIN lines : lines[j].state # "whole"}}

\* Of a file and a number of kills: two records are lost for each of them, one of which
\* is yet to be lost where the last line has no end.
LossOf(lines, kills) ==
    /\ IsFiniteSet(Lost(lines))
    /\ Cardinality(Lost(lines)) <= 2 * kills
    /\ Torn(lines) => Cardinality(Lost(lines)) + 1 <= 2 * kills

\* Up to a position, whatever was listed from the beginning and is usable is written.
Covered(s, n) ==
    \A i \in 1..Len(results[s]) :
        i <= n /\ results[s][i] \in OldUsable(s) => results[s][i] \in Records(file[s])

\* A loop is below its limit, the file has no more lines than it counts, and nothing
\* before the position of arXiv is missing.
LoopInv ==
    InLoop => /\ Got(Current, loop) < MaxPapers
              /\ Len(file[Current]) <= Got(Current, loop)
              /\ Current = "arxiv" => Covered("arxiv", loop.position)

\* arXiv does not take back what it listed.
StillListed == OldUsable("arxiv") \subseteq Listed("arxiv")

DownloadInv ==
    /\ TypeOK /\ NeverBeyondMax /\ LoopInv /\ StillListed
    /\ Covered("arxiv", Len(file["arxiv"]))
    /\ LossOf(file["arxiv"], crashes)

-----------------------------------------------------------------------------
(* Pages and batches *)

\* How many entries First takes, and which.
LEMMA FirstIs ==
  ASSUME NEW S, NEW q \in Seq(S), NEW n \in Nat
  PROVE  /\ First(q, n) \in Seq(S)
         /\ Len(First(q, n)) = Lesser(n, Len(q))
         /\ \A i \in 1..Lesser(n, Len(q)) : First(q, n)[i] = q[i]
<1>1. Lesser(n, Len(q)) \in Nat /\ Lesser(n, Len(q)) <= Len(q)
  BY DEF Lesser
<1> QED
  BY <1>1 DEF First

\* The entries of a page are those behind the position; an empty one is the end.
LEMMA PageIs ==
  ASSUME NEW q \in Seq(Entry), NEW p \in Nat
  PROVE  /\ Page(q, p) \in Seq(Entry)
         /\ \A k \in 1..Len(Page(q, p)) : p + k \in 1..Len(q) /\ Page(q, p)[k] = q[p + k]
         /\ Page(q, p) = <<>> => p >= Len(q)
<1> DEFINE n == Lesser(p + PageSize, Len(q)) - Lesser(p, Len(q))
<1>1. n \in Nat /\ (n = 0 => p >= Len(q)) /\ \A k \in 1..n : p + k \in 1..Len(q)
  BY LimitAssumption DEF Lesser
<1>2. Page(q, p) = [i \in 1..n |-> q[p + i]]
  BY DEF Page
<1> HIDE DEF n
<1>3. Page(q, p) \in Seq(Entry) /\ Len(Page(q, p)) = n
  BY <1>1, <1>2
<1> QED
  BY <1>1, <1>2, <1>3

\* There are n positions up to n.
LEMMA Interval ==
  ASSUME NEW n \in Nat
  PROVE  IsFiniteSet(1..n) /\ Cardinality(1..n) = n
<1>1. IsFiniteSet(1..n) /\ Cardinality(1..n) = IF 1 > n THEN 0 ELSE n - 1 + 1
  BY FS_Interval
<1> QED
  BY <1>1

\* The records of a page are its usable entries: the n-th record is the n-th of them.
LEMMA ParseIs ==
  ASSUME NEW s \in Source, NEW page \in Seq(Entry)
  PROVE  /\ Parse(s, page) \in Seq(Entry)
         /\ Len(Parse(s, page)) <= Len(page)
         /\ \A k \in 1..Len(page) : page[k] \in Usable[s] =>
               \E n \in 1..Len(Parse(s, page)) : n <= k /\ Parse(s, page)[n] = page[k]
<1> DEFINE kept == {i \in DOMAIN page : page[i] \in Usable[s]}
           upTo(i) == {k \in kept : k <= i}
           rank == [i \in kept |-> Cardinality(upTo(i))]
           size == Cardinality(kept)
<1>1. kept \subseteq 1..Len(page) /\ Len(page) \in Nat
  OBVIOUS
<1>2. IsFiniteSet(kept) /\ size \in Nat /\ size <= Len(page)
  <2>1. IsFiniteSet(1..Len(page)) /\ Cardinality(1..Len(page)) = Len(page)
    BY <1>1, Interval
  <2>2. kept \in SUBSET (1..Len(page))
    BY <1>1
  <2> HIDE DEF kept
  <2>3. IsFiniteSet(kept) /\ Cardinality(kept) <= Cardinality(1..Len(page))
    BY <2>1, <2>2, FS_Subset
  <2> QED
    BY <2>1, <2>3, FS_CardinalityType
<1>3. ASSUME NEW i \in kept
      PROVE  /\ IsFiniteSet(upTo(i)) /\ Cardinality(upTo(i)) \in 1..size
             /\ Cardinality(upTo(i)) <= i
  <2>1. upTo(i) \subseteq kept /\ i \in upTo(i) /\ i \in 1..Len(page) /\ upTo(i) \subseteq 1..i
    BY <1>1
  <2>2. /\ IsFiniteSet(upTo(i)) /\ Cardinality(upTo(i)) \in Nat
        /\ Cardinality(upTo(i)) <= size
    <3> HIDE DEF upTo, kept
    <3>1. upTo(i) \in SUBSET kept
      BY <2>1
    <3>2. IsFiniteSet(upTo(i)) /\ Cardinality(upTo(i)) <= Cardinality(kept)
      BY <3>1, <1>2, FS_Subset
    <3> QED
      BY <3>2, FS_CardinalityType
  <2>3. Cardinality(upTo(i)) # 0
    BY <2>1, <2>2, FS_EmptySet
  <2>4. IsFiniteSet(1..i) /\ Cardinality(1..i) = i
    BY <2>1, Interval
  <2>5. Cardinality(upTo(i)) <= i
    <3> HIDE DEF upTo
    <3>1. upTo(i) \in SUBSET (1..i)
      BY <2>1
    <3> QED
      BY <3>1, <2>4, FS_Subset
  <2> QED
    BY <2>2, <2>3, <2>5, <1>2
<1>4. ASSUME NEW i \in kept, NEW j \in kept, Cardinality(upTo(i)) = Cardinality(upTo(j))
      PROVE  i = j
  <2>1. i \in Nat /\ j \in Nat
    BY <1>1
  <2>2. CASE i <= j
    <3>1. upTo(i) \subseteq upTo(j)
      BY <2>1, <2>2, <1>1
    <3>2. upTo(i) = upTo(j)
      BY <3>1, <1>3, <1>4, FS_Subset
    <3> QED
      BY <3>2, <2>1, <2>2
  <2>3. CASE j <= i
    <3>1. upTo(j) \subseteq upTo(i)
      BY <2>1, <2>3, <1>1
    <3>2. upTo(i) = upTo(j)
      BY <3>1, <1>3, <1>4, FS_Subset
    <3> QED
      BY <3>2, <2>1, <2>3
  <2> QED
    BY <2>1, <2>2, <2>3
<1>5. \A n \in 1..size : \E i \in kept : Cardinality(upTo(i)) = n
  <2>1. rank \in [kept -> 1..size]
    BY <1>3
  <2>2. rank \in Injection(kept, 1..size)
    BY <2>1, <1>4, Fun_IsInj
  <2>3. IsFiniteSet(1..size) /\ Cardinality(1..size) = size
    BY <1>2, Interval
  <2>4. rank \in Surjection(kept, 1..size)
    BY <2>2, <2>3, FS_Injection
  <2> QED
    BY <2>4 DEF Surjection
<1> DEFINE at(n) == CHOOSE i \in kept : Cardinality(upTo(i)) = n
<1>6. \A n \in 1..size : at(n) \in kept
  BY <1>5
<1>7. \A i \in kept : at(Cardinality(upTo(i))) = i
  BY <1>4
<1>8. Parse(s, page) = [n \in 1..size |-> page[at(n)]]
  BY DEF Parse
<1> HIDE DEF upTo, rank, size, at
<1>9. \A n \in 1..size : page[at(n)] \in Entry
  BY <1>1, <1>6
<1> HIDE DEF kept
<1>10. Parse(s, page) \in Seq(Entry) /\ Len(Parse(s, page)) = size
  BY <1>2, <1>8, <1>9
<1>11. ASSUME NEW k \in 1..Len(page), page[k] \in Usable[s]
       PROVE  \E n \in 1..size : n <= k /\ Parse(s, page)[n] = page[k]
  <2>1. k \in kept
    BY <1>11 DEF kept
  <2> QED
    BY <2>1, <1>3, <1>7, <1>8
<1> QED
  BY <1>2, <1>10, <1>11

-----------------------------------------------------------------------------
(* Files *)

\* The records of a file are those of its lines.
LEMMA RecordsAre ==
  ASSUME NEW lines \in Seq(Line)
  PROVE  /\ \A i \in 1..Len(lines) : lines[i].of \subseteq Records(lines)
         /\ \A r \in Records(lines) : \E i \in 1..Len(lines) : r \in lines[i].of
<1>1. DOMAIN lines = 1..Len(lines)
  OBVIOUS
<1> QED
  BY <1>1 DEF Records

\* A batch that is written whole has a line per entry.
LEMMA WholeIs ==
  ASSUME NEW batch \in Seq(Entry)
  PROVE  /\ Whole(batch) \in Seq(Line) /\ Len(Whole(batch)) = Len(batch)
         /\ \A i \in 1..Len(batch) : batch[i] \in Whole(batch)[i].of
<1>1. \A i \in 1..Len(batch) : [of |-> {batch[i]}, state |-> "whole"] \in Line
  BY DEF Line
<1> QED
  BY <1>1 DEF Whole

\* A torn line swallows the record after it, and no other.
LEMMA GlueIs ==
  ASSUME NEW lines \in Seq(Line), Len(lines) > 0, NEW record \in Entry,
         NEW state \in {"whole", "torn", "broken"}
  PROVE  /\ Glue(lines, record, state) \in Seq(Line)
         /\ Len(Glue(lines, record, state)) = Len(lines)
         /\ Records(lines) \subseteq Records(Glue(lines, record, state))
         /\ record \in Records(Glue(lines, record, state))
<1> DEFINE last == [of |-> lines[Len(lines)].of \union {record}, state |-> state]
           glued == Glue(lines, record, state)
<1>1. Len(lines) \in 1..Len(lines) /\ lines[Len(lines)] \in Line
  OBVIOUS
<1>2. last \in Line
  BY <1>1 DEF Line
<1>3. glued = [lines EXCEPT ![Len(lines)] = last]
  BY DEF Glue
<1>4. last.of = lines[Len(lines)].of \union {record}
  OBVIOUS
<1> HIDE DEF last, glued
<1>5. /\ glued \in Seq(Line) /\ Len(glued) = Len(lines) /\ glued[Len(lines)] = last
      /\ \A i \in 1..Len(lines) : i # Len(lines) => glued[i] = lines[i]
  BY <1>1, <1>2, <1>3
<1>6. \A i \in 1..Len(lines) : lines[i].of \subseteq glued[i].of
  BY <1>4, <1>5
<1>7. Records(lines) \subseteq Records(glued) /\ record \in Records(glued)
  BY <1>1, <1>4, <1>5, <1>6 DEF Records
<1> QED
  BY <1>5, <1>7 DEF glued

\* Appending records adds their entries, and their number at most.
LEMMA ConcatRecords ==
  ASSUME NEW l1 \in Seq(Line), NEW l2 \in Seq(Line)
  PROVE  /\ l1 \o l2 \in Seq(Line) /\ Len(l1 \o l2) = Len(l1) + Len(l2)
         /\ Records(l1) \subseteq Records(l1 \o l2)
         /\ Records(l2) \subseteq Records(l1 \o l2)
<1>1. /\ l1 \o l2 \in Seq(Line) /\ Len(l1 \o l2) = Len(l1) + Len(l2)
      /\ \A i \in 1..Len(l1) : i \in DOMAIN (l1 \o l2) /\ (l1 \o l2)[i] = l1[i]
      /\ \A i \in 1..Len(l2) : /\ Len(l1) + i \in DOMAIN (l1 \o l2)
                               /\ (l1 \o l2)[Len(l1) + i] = l2[i]
  OBVIOUS
<1> HIDE DEF Line
<1>2. DOMAIN l1 = 1..Len(l1) /\ DOMAIN l2 = 1..Len(l2)
  OBVIOUS
<1>3. ASSUME NEW r \in Records(l1)
      PROVE  r \in Records(l1 \o l2)
  <2>1. PICK i \in 1..Len(l1) : r \in l1[i].of
    BY RecordsAre
  <2>2. i \in DOMAIN (l1 \o l2) /\ r \in (l1 \o l2)[i].of
    BY <1>1, <2>1
  <2> QED
    BY <2>2 DEF Records
<1>4. ASSUME NEW r \in Records(l2)
      PROVE  r \in Records(l1 \o l2)
  <2>1. PICK i \in 1..Len(l2) : r \in l2[i].of
    BY RecordsAre
  <2>2. Len(l1) + i \in DOMAIN (l1 \o l2) /\ r \in (l1 \o l2)[Len(l1) + i].of
    BY <1>1, <2>1
  <2> QED
    BY <2>2 DEF Records
<1> QED
  BY <1>1, <1>3, <1>4

\* A batch that is appended makes at most as many lines as it has records, and loses
\* none, nor what was there.
LEMMA WriteIs ==
  ASSUME NEW lines \in Seq(Line), NEW batch \in Seq(Entry)
  PROVE  /\ Write(lines, batch) \in Seq(Line)
         /\ Len(Write(lines, batch)) <= Len(lines) + Len(batch)
         /\ Records(lines) \subseteq Records(Write(lines, batch))
         /\ \A i \in 1..Len(batch) : batch[i] \in Records(Write(lines, batch))
<1>1. CASE batch # <<>> /\ Torn(lines)
  <2> DEFINE glued == Glue(lines, batch[1], "broken")
             rest == Whole(Tail(batch))
  <2>1. /\ batch[1] \in Entry /\ Tail(batch) \in Seq(Entry)
        /\ Len(batch) \in Nat \ {0} /\ Len(Tail(batch)) = Len(batch) - 1
        /\ \A i \in 1..Len(batch) : i # 1 => i - 1 \in 1..Len(Tail(batch))
                                             /\ Tail(batch)[i - 1] = batch[i]
    BY <1>1
  <2>2. Len(lines) > 0
    BY <1>1 DEF Torn
  <2>3. /\ glued \in Seq(Line) /\ Len(glued) = Len(lines)
        /\ Records(lines) \subseteq Records(glued) /\ batch[1] \in Records(glued)
    BY <2>1, <2>2, GlueIs
  <2>4. /\ rest \in Seq(Line) /\ Len(rest) = Len(batch) - 1
        /\ \A i \in 1..Len(Tail(batch)) : Tail(batch)[i] \in rest[i].of
    BY <2>1, WholeIs
  <2>5. Write(lines, batch) = glued \o rest
    BY <1>1 DEF Write
  <2> HIDE DEF glued, rest
  <2>6. \A i \in 1..Len(Tail(batch)) : Tail(batch)[i] \in Records(rest)
    BY <2>1, <2>4, RecordsAre
  <2>7. /\ glued \o rest \in Seq(Line) /\ Len(glued \o rest) = Len(glued) + Len(rest)
        /\ Records(glued) \subseteq Records(glued \o rest)
        /\ Records(rest) \subseteq Records(glued \o rest)
    BY <2>3, <2>4, ConcatRecords
  <2>8. \A i \in 1..Len(batch) : batch[i] \in Records(glued \o rest)
    BY <2>1, <2>3, <2>6, <2>7
  <2> QED
    BY <2>1, <2>3, <2>4, <2>5, <2>7, <2>8
<1>2. CASE ~(batch # <<>> /\ Torn(lines))
  <2> DEFINE rest == Whole(batch)
  <2>1. /\ rest \in Seq(Line) /\ Len(rest) = Len(batch)
        /\ \A i \in 1..Len(batch) : batch[i] \in rest[i].of
    BY WholeIs
  <2>2. Write(lines, batch) = lines \o rest
    BY <1>2 DEF Write
  <2> HIDE DEF rest
  <2>3. \A i \in 1..Len(batch) : batch[i] \in Records(rest)
    BY <2>1, RecordsAre
  <2> QED
    BY <2>1, <2>2, <2>3, ConcatRecords
<1> QED
  BY <1>1, <1>2

\* So does what is left of it when the process is killed, for the records up to some m.
LEMMA WriteCutIs ==
  ASSUME NEW lines \in Seq(Line), NEW batch \in Seq(Entry), NEW n \in 0..Len(batch),
         NEW cut \in {n < Len(batch), FALSE}
  PROVE  \E m \in 0..Len(batch) :
           /\ WriteCut(lines, batch, n, cut) \in Seq(Line)
           /\ Len(WriteCut(lines, batch, n, cut)) <= Len(lines) + m
           /\ Records(lines) \subseteq Records(WriteCut(lines, batch, n, cut))
           /\ \A i \in 1..m : batch[i] \in Records(WriteCut(lines, batch, n, cut))
<1> DEFINE before == Write(lines, First(batch, n))
           after == WriteCut(lines, batch, n, cut)
<1>1. /\ First(batch, n) \in Seq(Entry) /\ Len(First(batch, n)) = n /\ n \in Nat
      /\ \A i \in 1..n : First(batch, n)[i] = batch[i]
  BY FirstIs DEF Lesser
<1>2. /\ before \in Seq(Line) /\ Len(before) <= Len(lines) + n
      /\ Records(lines) \subseteq Records(before)
      /\ \A i \in 1..n : batch[i] \in Records(before)
  BY <1>1, WriteIs
<1>3. CASE ~cut
  BY <1>2, <1>3 DEF WriteCut
<1>4. CASE cut
  <2>1. n + 1 \in 1..Len(batch) /\ batch[n + 1] \in Entry
    <3>1. n < Len(batch)
      BY <1>4, Zenon
    <3> QED
      BY <3>1, <1>1
  <2>2. /\ after \in Seq(Line) /\ Len(after) <= Len(before) + 1
        /\ Records(before) \subseteq Records(after) /\ batch[n + 1] \in Records(after)
    <3>1. CASE Torn(before)
      <4>1. after = Glue(before, batch[n + 1], "torn") /\ Len(before) > 0
        BY <1>4, <3>1 DEF WriteCut, Torn
      <4> HIDE DEF before, after
      <4>2. before \in Seq(Line) /\ Len(before) \in Nat /\ batch[n + 1] \in Entry
        BY <1>2, <2>1
      <4>3. /\ after \in Seq(Line) /\ Len(after) = Len(before)
            /\ Records(before) \subseteq Records(after) /\ batch[n + 1] \in Records(after)
        BY <4>1, <4>2, GlueIs
      <4> QED
        BY <4>2, <4>3
    <3>2. CASE ~Torn(before)
      <4> DEFINE line == [of |-> {batch[n + 1]}, state |-> "torn"]
      <4>1. after = Append(before, line)
        BY <1>4, <3>2 DEF WriteCut
      <4>2. line \in Line /\ batch[n + 1] \in line.of
        BY <2>1 DEF Line
      <4> HIDE DEF line, before, after
      <4>3. /\ after \in Seq(Line) /\ Len(after) = Len(before) + 1
            /\ after[Len(before) + 1] = line
            /\ \A i \in 1..Len(before) : after[i] = before[i]
        BY <1>2, <4>1, <4>2
      <4>4. batch[n + 1] \in Records(after)
        BY <1>2, <4>2, <4>3, RecordsAre
      <4>5. ASSUME NEW r \in Records(before)
            PROVE  r \in Records(after)
        <5>1. PICK i \in 1..Len(before) : r \in before[i].of
          BY <1>2, RecordsAre
        <5>2. i \in 1..Len(after) /\ r \in after[i].of
          BY <1>2, <4>3, <5>1
        <5> QED
          BY <4>3, <5>2, RecordsAre
      <4> QED
        BY <4>3, <4>4, <4>5
    <3> QED
      BY <3>1, <3>2
  <2>3. \A i \in 1..(n + 1) : batch[i] \in Records(after)
    BY <1>1, <1>2, <2>2
  <2> HIDE DEF before, after
  <2>4. Len(after) <= Len(lines) + (n + 1) /\ n + 1 \in 0..Len(batch)
    BY <1>1, <1>2, <2>1, <2>2
  <2>5. Records(lines) \subseteq Records(after)
    BY <1>2, <2>2
  <2> QED
    BY <2>2, <2>3, <2>4, <2>5 DEF after
<1> QED
  BY <1>3, <1>4

-----------------------------------------------------------------------------
(* What a kill costs *)

\* A set with at most one more element.
LEMMA OneMore ==
  ASSUME NEW S, IsFiniteSet(S), NEW x, NEW T, T \subseteq S \union {x}
  PROVE  IsFiniteSet(T) /\ Cardinality(T) \in Nat /\ Cardinality(S) \in Nat
         /\ Cardinality(T) <= Cardinality(S) + 1
<1>1. /\ IsFiniteSet(S \union {x}) /\ Cardinality(S) \in Nat
      /\ \/ Cardinality(S \union {x}) = Cardinality(S)
         \/ Cardinality(S \union {x}) = Cardinality(S) + 1
  BY FS_AddElement, FS_CardinalityType
<1>2. IsFiniteSet(T) /\ Cardinality(T) <= Cardinality(S \union {x})
  BY <1>1, FS_Subset
<1> QED
  BY <1>1, <1>2, FS_CardinalityType

\* A file without more lost records keeps its bound; more kills allow for more.
LEMMA NoMore ==
  ASSUME NEW before, NEW after, NEW c \in Nat, NEW d \in Nat, c <= d,
         LossOf(before, c), Lost(after) \subseteq Lost(before),
         Torn(after) => Torn(before)
  PROVE  LossOf(after, d)
<1>1. IsFiniteSet(Lost(before)) /\ Cardinality(Lost(before)) \in Nat
  BY FS_CardinalityType DEF LossOf
<1>2. /\ IsFiniteSet(Lost(after)) /\ Cardinality(Lost(after)) \in Nat
      /\ Cardinality(Lost(after)) <= Cardinality(Lost(before))
  BY <1>1, FS_Subset, FS_CardinalityType
<1>3. Cardinality(Lost(before)) <= 2 * c
  BY DEF LossOf
<1>4. Torn(after) => Cardinality(Lost(before)) + 1 <= 2 * c
  BY DEF LossOf
<1> QED
  BY <1>1, <1>2, <1>3, <1>4 DEF LossOf

\* The next record is all that a torn line takes with it.
LEMMA GlueLoses ==
  ASSUME NEW lines \in Seq(Line), Torn(lines), NEW record \in Entry,
         NEW state \in {"whole", "torn", "broken"}
  PROVE  /\ Lost(Glue(lines, record, state)) \subseteq Lost(lines) \union {record}
         /\ Torn(Glue(lines, record, state)) => state = "torn"
<1> DEFINE last == [of |-> lines[Len(lines)].of \union {record}, state |-> state]
           glued == Glue(lines, record, state)
<1>1. /\ Len(lines) \in 1..Len(lines) /\ lines[Len(lines)].state = "torn"
      /\ DOMAIN lines = 1..Len(lines)
  BY DEF Torn
<1>2. glued = [lines EXCEPT ![Len(lines)] = last]
  BY DEF Glue
<1>3. last.of = lines[Len(lines)].of \union {record} /\ last.state = state
  OBVIOUS
<1> HIDE DEF last, glued
<1>4. /\ DOMAIN glued = 1..Len(lines) /\ glued[Len(lines)] = last
      /\ \A i \in 1..Len(lines) : i # Len(lines) => glued[i] = lines[i]
  BY <1>1, <1>2
<1>5. Len(glued) = Len(lines)
  <2>1. Len(lines) > 0
    BY <1>1
  <2> QED
    BY <2>1, GlueIs DEF glued
<1>6. Torn(glued) => state = "torn"
  BY <1>3, <1>4, <1>5 DEF Torn
<1>7. ASSUME NEW r \in Lost(glued), r # record
      PROVE  r \in Lost(lines)
  <2>1. PICK i \in 1..Len(lines) : r \in glued[i].of /\ glued[i].state # "whole"
    BY <1>4, <1>7 DEF Lost
  <2>2. r \in lines[i].of /\ lines[i].state # "whole"
    <3>1. CASE i = Len(lines)
      BY <1>1, <1>3, <1>4, <1>7, <2>1, <3>1
    <3>2. CASE i # Len(lines)
      BY <1>4, <2>1, <3>2
    <3> QED
      BY <3>1, <3>2
  <2> QED
    BY <1>1, <2>1, <2>2 DEF Lost
<1> QED
  BY <1>6, <1>7 DEF glued

\* Whole lines lose nothing, and the last of them has its end.
LEMMA WholeLosesNothing ==
  ASSUME NEW lines \in Seq(Line), NEW batch \in Seq(Entry)
  PROVE  /\ Lost(lines \o Whole(batch)) \subseteq Lost(lines)
         /\ Torn(lines \o Whole(batch)) => Torn(lines)
<1> DEFINE rest == Whole(batch)
           all == lines \o rest
<1>1. /\ rest \in Seq(Line) /\ Len(rest) = Len(batch) /\ Len(batch) \in Nat
      /\ \A i \in 1..Len(batch) : rest[i].state = "whole"
  BY WholeIs DEF Whole
<1> HIDE DEF rest
<1>2. /\ all \in Seq(Line) /\ Len(all) = Len(lines) + Len(rest) /\ Len(lines) \in Nat
      /\ DOMAIN all = 1..(Len(lines) + Len(rest)) /\ DOMAIN lines = 1..Len(lines)
      /\ \A i \in 1..Len(all) : IF i <= Len(lines) THEN all[i] = lines[i]
                                 ELSE all[i] = rest[i - Len(lines)]
  BY <1>1
<1> HIDE DEF all
<1>3. \A i \in 1..Len(all) : all[i].state # "whole" => i \in 1..Len(lines) /\ all[i] = lines[i]
  <2> SUFFICES ASSUME NEW i \in 1..Len(all), all[i].state # "whole", i > Len(lines)
               PROVE  FALSE
    BY <1>2
  <2>1. i - Len(lines) \in 1..Len(batch) /\ all[i] = rest[i - Len(lines)]
    BY <1>1, <1>2
  <2> QED
    BY <1>1, <2>1
<1>4. Lost(all) \subseteq Lost(lines)
  BY <1>2, <1>3 DEF Lost
<1>5. ASSUME Torn(all)
      PROVE  Torn(lines)
  <2>1. Len(all) \in 1..Len(all) /\ all[Len(all)].state = "torn"
    BY <1>2, <1>5 DEF Torn
  <2>2. Len(all) \in 1..Len(lines) /\ all[Len(all)] = lines[Len(all)]
    BY <1>3, <2>1
  <2>3. Len(all) = Len(lines)
    <3>1. Len(all) = Len(lines) + Len(batch) /\ Len(lines) \in Nat /\ Len(batch) \in Nat
      BY <1>1, <1>2
    <3> QED
      BY <2>2, <3>1
  <2> QED
    BY <1>2, <2>1, <2>2, <2>3 DEF Torn
<1> QED
  BY <1>4, <1>5 DEF all, rest

\* Appending loses a record if it ends a torn line, which has been allowed for.
LEMMA WriteLoses ==
  ASSUME NEW lines \in Seq(Line), NEW batch \in Seq(Entry), NEW c \in Nat, LossOf(lines, c)
  PROVE  LossOf(Write(lines, batch), c)
<1>1. CASE batch # <<>> /\ Torn(lines)
  <2> DEFINE glued == Glue(lines, batch[1], "broken")
  <2>1. batch[1] \in Entry /\ Tail(batch) \in Seq(Entry)
    BY <1>1
  <2>2. /\ Lost(glued) \subseteq Lost(lines) \union {batch[1]} /\ ~Torn(glued)
        /\ glued \in Seq(Line)
    <3>1. Len(lines) > 0
      BY <1>1 DEF Torn
    <3> QED
      BY <1>1, <2>1, <3>1, GlueLoses, GlueIs
  <2>3. Write(lines, batch) = glued \o Whole(Tail(batch))
    BY <1>1 DEF Write
  <2> HIDE DEF glued
  <2>4. LossOf(glued, c)
    <3>1. IsFiniteSet(Lost(lines)) /\ Cardinality(Lost(lines)) + 1 <= 2 * c
      BY <1>1 DEF LossOf
    <3>2. /\ IsFiniteSet(Lost(glued)) /\ Cardinality(Lost(glued)) \in Nat
          /\ Cardinality(Lost(lines)) \in Nat
          /\ Cardinality(Lost(glued)) <= Cardinality(Lost(lines)) + 1
      BY <2>2, <3>1, OneMore
    <3> QED
      BY <2>2, <3>1, <3>2 DEF LossOf
  <2>5. /\ Lost(Write(lines, batch)) \subseteq Lost(glued)
        /\ Torn(Write(lines, batch)) => Torn(glued)
    BY <2>1, <2>2, <2>3, WholeLosesNothing
  <2>6. c <= c
    OBVIOUS
  <2> QED
    BY <2>4, <2>5, <2>6, NoMore
<1>2. CASE ~(batch # <<>> /\ Torn(lines))
  <2>1. Write(lines, batch) = lines \o Whole(batch)
    BY <1>2 DEF Write
  <2>2. /\ Lost(Write(lines, batch)) \subseteq Lost(lines)
        /\ Torn(Write(lines, batch)) => Torn(lines)
    BY <2>1, WholeLosesNothing
  <2>3. c <= c
    OBVIOUS
  <2> QED
    BY <2>2, <2>3, NoMore
<1> QED
  BY <1>1, <1>2

\* A kill while a batch is appended loses the record it cuts, and perhaps the next one.
LEMMA WriteCutLoses ==
  ASSUME NEW lines \in Seq(Line), NEW batch \in Seq(Entry), NEW n \in 0..Len(batch),
         NEW cut \in {n < Len(batch), FALSE}, NEW c \in Nat, LossOf(lines, c)
  PROVE  LossOf(WriteCut(lines, batch, n, cut), c + 1)
<1> DEFINE before == Write(lines, First(batch, n))
           after == WriteCut(lines, batch, n, cut)
<1>1. First(batch, n) \in Seq(Entry) /\ n \in Nat
  BY FirstIs
<1>2. before \in Seq(Line) /\ LossOf(before, c)
  BY <1>1, WriteIs, WriteLoses
<1>3. CASE ~cut
  <2>1. after = before
    BY <1>3 DEF WriteCut
  <2>2. Lost(after) \subseteq Lost(before) /\ (Torn(after) => Torn(before))
    BY <2>1
  <2>3. c + 1 \in Nat /\ c <= c + 1
    OBVIOUS
  <2> HIDE DEF before, after
  <2>4. LossOf(after, c + 1)
    BY <1>2, <2>2, <2>3, NoMore
  <2> QED
    BY <2>4 DEF after
<1>4. CASE cut
  <2> DEFINE x == batch[n + 1]
  <2>1. x \in Entry
    <3>1. n < Len(batch)
      BY <1>4, Zenon
    <3> QED
      BY <3>1, <1>1
  <2>2. Lost(after) \subseteq Lost(before) \union {x}
    <3>1. CASE Torn(before)
      <4>1. after = Glue(before, x, "torn")
        BY <1>4, <3>1 DEF WriteCut
      <4> HIDE DEF before, after, x
      <4> QED
        BY <1>2, <2>1, <3>1, <4>1, GlueLoses
    <3>2. CASE ~Torn(before)
      <4> DEFINE line == [of |-> {x}, state |-> "torn"]
      <4>1. after = Append(before, line)
        BY <1>4, <3>2 DEF WriteCut
      <4>2. line \in Line /\ line.of = {x}
        BY <2>1 DEF Line
      <4> HIDE DEF line, before, after
      <4>3. /\ DOMAIN after = 1..(Len(before) + 1) /\ after[Len(before) + 1] = line
            /\ DOMAIN before = 1..Len(before) /\ Len(before) \in Nat
            /\ \A i \in 1..Len(before) : after[i] = before[i]
        BY <1>2, <4>1, <4>2
      <4>4. \A i \in DOMAIN after : i # Len(before) + 1 => i \in DOMAIN before
        BY <4>3
      <4>5. ASSUME NEW r \in Lost(after), r # x
            PROVE  r \in Lost(before)
        <5>1. PICK i \in DOMAIN after : r \in after[i].of /\ after[i].state # "whole"
          BY <4>5 DEF Lost
        <5>2. i # Len(before) + 1
          BY <4>2, <4>3, <4>5, <5>1
        <5>3. i \in DOMAIN before /\ after[i] = before[i]
          BY <4>3, <4>4, <5>2
        <5> QED
          BY <5>1, <5>3 DEF Lost
      <4> QED
        BY <4>5
    <3> QED
      BY <3>1, <3>2
  <2> HIDE DEF before, after, x
  <2>3. IsFiniteSet(Lost(before))
    BY <1>2 DEF LossOf
  <2>4. /\ IsFiniteSet(Lost(after)) /\ Cardinality(Lost(after)) \in Nat
        /\ Cardinality(Lost(before)) \in Nat
        /\ Cardinality(Lost(after)) <= Cardinality(Lost(before)) + 1
    BY <2>2, <2>3, OneMore
  <2>5. Cardinality(Lost(before)) <= 2 * c
    BY <1>2 DEF LossOf
  <2>6. LossOf(after, c + 1)
    BY <2>4, <2>5 DEF LossOf
  <2> QED
    BY <2>6 DEF after
<1> QED
  BY <1>3, <1>4

-----------------------------------------------------------------------------
(* The steps of a run *)

LoopType == [phase : Phase, already : Nat, written : Nat, position : Nat, attempt : Nat]

\* What a step in a loop has to work with: a page, its records, and the ones it keeps.
LEMMA BatchIs ==
  ASSUME DownloadInv, InLoop
  PROVE  LET parsed == Parse(Current, CurrentPage)
         IN /\ Current \in Source /\ CurrentPage \in Seq(Entry) /\ parsed \in Seq(Entry)
            /\ Len(parsed) <= Len(CurrentPage)
            /\ CurrentPage = <<>> => loop.position >= Len(results[Current])
            /\ \A k \in 1..Len(CurrentPage) :
                  /\ loop.position + k \in 1..Len(results[Current])
                  /\ CurrentPage[k] = results[Current][loop.position + k]
                  /\ CurrentPage[k] \in Usable[Current] =>
                        \E n \in 1..Len(parsed) : n <= k /\ parsed[n] = CurrentPage[k]
            /\ Batch \in Seq(Entry)
            /\ MaxPapers - Got(Current, loop) \in Nat
            /\ Len(Batch) = Lesser(MaxPapers - Got(Current, loop), Len(parsed))
            /\ \A n \in 1..Len(Batch) : Batch[n] = parsed[n]
<1> DEFINE parsed == Parse(Current, CurrentPage)
<1>1. Current \in Source /\ results[Current] \in Seq(Entry) /\ loop \in LoopType
  BY DEF DownloadInv, TypeOK, InLoop, Current, LoopType
<1>2. loop.position \in Nat /\ Got(Current, loop) \in Nat
  BY <1>1 DEF LoopType, Got
<1>3. /\ CurrentPage \in Seq(Entry)
      /\ \A k \in 1..Len(CurrentPage) :
            /\ loop.position + k \in 1..Len(results[Current])
            /\ CurrentPage[k] = results[Current][loop.position + k]
      /\ CurrentPage = <<>> => loop.position >= Len(results[Current])
  BY <1>1, <1>2, PageIs DEF CurrentPage
<1>4. /\ parsed \in Seq(Entry) /\ Len(parsed) <= Len(CurrentPage)
      /\ \A k \in 1..Len(CurrentPage) : CurrentPage[k] \in Usable[Current] =>
            \E n \in 1..Len(parsed) : n <= k /\ parsed[n] = CurrentPage[k]
  BY <1>1, <1>3, ParseIs
<1>5. MaxPapers - Got(Current, loop) \in Nat
  BY <1>2, LimitAssumption DEF DownloadInv, LoopInv
<1> HIDE DEF parsed
<1>6. /\ Batch \in Seq(Entry)
      /\ Len(Batch) = Lesser(MaxPapers - Got(Current, loop), Len(parsed))
      /\ \A n \in 1..Len(Batch) : Batch[n] = parsed[n]
  BY <1>4, <1>5, FirstIs DEF Batch, parsed
<1> QED
  BY <1>1, <1>3, <1>4, <1>5, <1>6 DEF parsed

\* A file to which the first m records of the batch were added keeps to its limit, and
\* that of arXiv has everything up to its number of lines.
LEMMA AppendStep ==
  ASSUME DownloadInv, InLoop, NEW new \in Seq(Line), NEW m \in 0..Len(Batch),
         file' = [file EXCEPT ![Current] = new], UNCHANGED results,
         Len(new) <= Len(file[Current]) + m,
         Records(file[Current]) \subseteq Records(new),
         \A i \in 1..m : Batch[i] \in Records(new)
  PROVE  /\ file' \in [Source -> Seq(Line)] /\ NeverBeyondMax'
         /\ Covered("arxiv", Len(file["arxiv"]))'
         /\ file'[Current] = new
         /\ \A t \in Source : t # Current => file'[t] = file[t]
<1> DEFINE s == Current
           p == loop.position
<1>1. /\ s \in Source /\ file \in [Source -> Seq(Line)] /\ p \in Nat
      /\ results[s] \in Seq(Entry) /\ Got(s, loop) \in Nat
  <2>1. s \in Source
    BY BatchIs
  <2>2. loop \in LoopType
    BY DEF DownloadInv, TypeOK, LoopType
  <2>3. p \in Nat /\ Got(s, loop) \in Nat
    BY <2>2 DEF LoopType, Got
  <2> QED
    BY <2>1, <2>3 DEF DownloadInv, TypeOK
<1>2. file'[s] = new /\ \A t \in Source : t # s => file'[t] = file[t]
  BY <1>1
<1>3. file' \in [Source -> Seq(Line)]
  BY <1>1
<1>4. NeverBeyondMax'
  <2>1. Len(new) <= MaxPapers
    <3>1. Len(Batch) <= MaxPapers - Got(s, loop) /\ Len(Batch) \in Nat
      BY BatchIs DEF Lesser
    <3>2. Len(file[s]) <= Got(s, loop) /\ Len(file[s]) \in Nat /\ Len(new) \in Nat
      BY <1>1 DEF DownloadInv, LoopInv
    <3> QED
      BY <3>1, <3>2, <1>1, LimitAssumption
  <2> QED
    BY <1>1, <1>2, <2>1 DEF DownloadInv, NeverBeyondMax
<1>5. ASSUME s = "arxiv",
             NEW i \in 1..Len(results[s]), i <= p + m, results[s][i] \in OldUsable(s)
      PROVE  results[s][i] \in Records(new)
  <2>1. CASE i <= p
    BY <1>5, <2>1 DEF DownloadInv, LoopInv, Covered
  <2>2. CASE i > p
    <3> DEFINE k == i - p
    <3>1. k \in 1..m /\ p + k = i
      BY <1>1, <1>5, <2>2
    <3> HIDE DEF k
    <3>2. /\ Len(Batch) <= Len(Parse(Current, CurrentPage))
          /\ Len(Parse(Current, CurrentPage)) <= Len(CurrentPage)
          /\ Len(Batch) \in Nat /\ Len(CurrentPage) \in Nat
          /\ Len(Parse(Current, CurrentPage)) \in Nat
      BY BatchIs DEF Lesser
    <3>3. k \in 1..Len(CurrentPage)
      BY <3>1, <3>2
    <3>4. CurrentPage[k] = results[s][i] /\ CurrentPage[k] \in Usable[s]
      BY <1>5, <3>1, <3>3, BatchIs DEF OldUsable
    <3>5. PICK n \in 1..Len(Parse(Current, CurrentPage)) :
            n <= k /\ Parse(Current, CurrentPage)[n] = results[s][i]
      BY <3>3, <3>4, BatchIs
    <3>6. n \in 1..m /\ n \in 1..Len(Batch)
      BY <3>1, <3>2, <3>5
    <3>7. Batch[n] = results[s][i]
      BY <3>5, <3>6, BatchIs
    <3> QED
      BY <3>6, <3>7
  <2> QED
    BY <1>1, <2>1, <2>2
<1>6. Covered("arxiv", Len(file["arxiv"]))'
  <2>1. CASE s = "arxiv"
    <3>1. Len(new) <= p + m
      <4>1. Len(file[s]) <= p
        BY <1>1, <2>1 DEF DownloadInv, LoopInv, Got
      <4>2. Len(file[s]) \in Nat /\ Len(new) \in Nat
        BY <1>1
      <4> QED
        BY <4>1, <4>2, <1>1
    <3>2. OldUsable("arxiv")' = OldUsable("arxiv")
      BY DEF OldUsable
    <3>3. Len(new) \in Nat /\ Len(results[s]) \in Nat
      BY <1>1
    <3>4. ASSUME NEW i \in 1..Len(results[s]), i <= Len(new), results[s][i] \in OldUsable(s)
          PROVE  results[s][i] \in Records(new)
      <4>1. i <= p + m
        BY <1>1, <3>1, <3>3, <3>4
      <4> QED
        BY <1>5, <2>1, <3>4, <4>1
    <3> QED
      BY <1>2, <2>1, <3>2, <3>4 DEF Covered
  <2>2. CASE s # "arxiv"
    BY <1>2, <2>2 DEF DownloadInv, Covered, OldUsable, Source
  <2> QED
    BY <2>1, <2>2
<1> QED
  BY <1>2, <1>3, <1>4, <1>5, <1>6

\* One iteration, wherever the service then stands.
LEMMA IterateStep ==
  ASSUME DownloadInv, InLoop, UNCHANGED <<results, todo, runs, crashes>>,
         NEW pos \in Nat, NEW ended \in BOOLEAN, Iterate(pos, ended),
         Current = "arxiv" => pos = loop.position + Len(Parse(Current, CurrentPage))
  PROVE  DownloadInv'
<1> DEFINE s == Current
           parsed == Parse(Current, CurrentPage)
           new == Write(file[s], Batch)
           next == [loop EXCEPT !.written = @ + Len(Batch), !.position = pos, !.attempt = 1]
           why == IF ended THEN "end" ELSE AtHead(s, next)
<1>1. /\ s \in Source /\ file[s] \in Seq(Line) /\ Batch \in Seq(Entry) /\ Len(Batch) \in Nat
      /\ Len(parsed) \in Nat /\ Len(CurrentPage) \in Nat /\ parsed \in Seq(Entry)
      /\ Len(Batch) <= Len(parsed) /\ Len(parsed) <= Len(CurrentPage)
  <2>1. Current \in Source /\ Batch \in Seq(Entry) /\ CurrentPage \in Seq(Entry)
        /\ Parse(Current, CurrentPage) \in Seq(Entry)
    BY BatchIs
  <2>2. /\ Len(Batch) <= Len(Parse(Current, CurrentPage))
        /\ Len(Parse(Current, CurrentPage)) <= Len(CurrentPage)
    BY BatchIs DEF Lesser
  <2> QED
    BY <2>1, <2>2 DEF DownloadInv, TypeOK
<1>2. /\ new \in Seq(Line) /\ Len(new) <= Len(file[s]) + Len(Batch)
      /\ Records(file[s]) \subseteq Records(new)
      /\ \A i \in 1..Len(Batch) : Batch[i] \in Records(new)
  BY <1>1, WriteIs
<1>3. file' = [file EXCEPT ![s] = new] /\ loop' = [next EXCEPT !.phase = why]
  BY DEF Iterate
<1> HIDE DEF new
<1>4. /\ file' \in [Source -> Seq(Line)] /\ NeverBeyondMax'
      /\ Covered("arxiv", Len(file["arxiv"]))'
      /\ file'[s] = new /\ \A t \in Source : t # s => file'[t] = file[t]
  <2>1. Len(Batch) \in 0..Len(Batch)
    BY <1>1
  <2> QED
    BY <1>2, <1>3, <2>1, AppendStep
<1>b. LossOf(file["arxiv"], crashes)'
  <2>1. CASE s = "arxiv"
    <3>1. LossOf(file[s], crashes) /\ crashes \in Nat
      BY <2>1 DEF DownloadInv, TypeOK
    <3>2. LossOf(new, crashes)
      BY <1>1, <3>1, WriteLoses DEF new
    <3> QED
      BY <1>4, <2>1, <3>2
  <2>2. CASE s # "arxiv"
    BY <1>4, <2>2 DEF DownloadInv, Source
  <2> QED
    BY <2>1, <2>2
<1>5. /\ next \in LoopType /\ next.position = pos /\ next.already = loop.already
      /\ next.written = loop.written + Len(Batch)
      /\ loop \in LoopType
  <2>1. loop \in LoopType
    BY DEF DownloadInv, TypeOK, LoopType
  <2>2. loop.written + Len(Batch) \in Nat
    BY <1>1, <2>1 DEF LoopType
  <2> QED
    BY <2>1, <2>2 DEF LoopType
<1> HIDE DEF next
<1>a. Got(s, next) \in Nat
  BY <1>5 DEF Got, LoopType
<1>6. why \in Phase /\ (why = "loop" => Got(s, next) < MaxPapers)
  BY <1>a, LimitAssumption DEF AtHead, Phase
<1> HIDE DEF why
<1>7. /\ loop' \in LoopType /\ loop'.phase = why /\ loop'.position = pos
      /\ loop'.already = next.already /\ loop'.written = next.written
  BY <1>3, <1>5, <1>6 DEF LoopType
<1>8. Got(s, next) = IF s = "arxiv" THEN pos ELSE loop.already + loop.written + Len(Batch)
  BY <1>1, <1>5 DEF Got, LoopType
<1>9. Got(s, loop') = Got(s, next)
  BY <1>7, <1>5 DEF Got
<1>10. Got(s, loop) = IF s = "arxiv" THEN loop.position ELSE loop.already + loop.written
  BY DEF Got
<1>11. /\ loop.position \in Nat /\ loop.already \in Nat /\ loop.written \in Nat
       /\ Got(s, loop) < MaxPapers /\ Len(file[s]) <= Got(s, loop)
       /\ Len(new) \in Nat /\ Len(file[s]) \in Nat
  BY <1>1, <1>2, <1>5 DEF LoopType, DownloadInv, LoopInv
<1>12. Len(new) <= Got(s, next)
  <2>1. CASE s = "arxiv"
    BY <1>1, <1>2, <1>8, <1>10, <1>11, <2>1
  <2>2. CASE s # "arxiv"
    BY <1>1, <1>2, <1>8, <1>10, <1>11, <2>2
  <2> QED
    BY <2>1, <2>2
<1>13. ASSUME Got(s, next) < MaxPapers, s = "arxiv"
       PROVE  Covered(s, pos)'
  <2>1. Len(Batch) = Len(parsed)
    <3>1. Len(Batch) = Lesser(MaxPapers - Got(s, loop), Len(parsed))
      BY BatchIs
    <3> QED
      BY <3>1, <1>1, <1>8, <1>10, <1>11, <1>13, LimitAssumption DEF Lesser
  <2>2. ASSUME NEW i \in 1..Len(results[s]), i <= pos, results[s][i] \in OldUsable(s)
        PROVE  results[s][i] \in Records(new)
    <3>1. CASE i <= loop.position
      BY <1>2, <1>13, <2>2, <3>1 DEF DownloadInv, LoopInv, Covered
    <3>2. CASE i > loop.position
      <4> DEFINE k == i - loop.position
      <4>1. k \in 1..Len(CurrentPage) /\ loop.position + k = i
        <5>1. i \in Nat
          BY <1>1, <2>2 DEF DownloadInv, TypeOK
        <5>2. i <= loop.position + Len(CurrentPage)
          BY <5>1, <1>1, <1>11, <1>13, <2>2
        <5> QED
          BY <5>1, <5>2, <1>1, <1>11, <3>2
      <4> HIDE DEF k
      <4>2. CurrentPage[k] = results[s][i] /\ CurrentPage[k] \in Usable[s]
        BY <2>2, <4>1, BatchIs DEF OldUsable
      <4>3. PICK n \in 1..Len(parsed) : parsed[n] = results[s][i]
        BY <4>1, <4>2, BatchIs
      <4>4. n \in 1..Len(Batch) /\ Batch[n] = results[s][i]
        BY <2>1, <4>3, BatchIs
      <4> QED
        BY <1>2, <4>4
    <3> QED
      <4>1. i \in Nat
        BY <1>1, <2>2 DEF DownloadInv, TypeOK
      <4> QED
        BY <4>1, <3>1, <3>2, <1>11
  <2>3. OldUsable(s)' = OldUsable(s) /\ s' = s
    BY DEF OldUsable, Current
  <2> QED
    BY <1>4, <2>2, <2>3 DEF Covered
<1>14. Current' = s
  BY DEF Current
<1>15. TypeOK'
  BY <1>4, <1>7 DEF DownloadInv, TypeOK, LoopType
<1>16. LoopInv'
  BY <1>4, <1>6, <1>7, <1>9, <1>12, <1>13, <1>14 DEF LoopInv, InLoop
<1>17. StillListed'
  BY DEF DownloadInv, StillListed, OldUsable, Listed
<1> QED
  BY <1>4, <1>b, <1>15, <1>16, <1>17 DEF DownloadInv

\* A step that leaves files and results alone, and leaves no loop running.
LEMMA OutsideStep ==
  ASSUME DownloadInv, UNCHANGED <<results, file, crashes>>, TypeOK', ~InLoop'
  PROVE  DownloadInv'
<1>1. OldUsable("arxiv")' = OldUsable("arxiv")
  BY DEF OldUsable
<1>2. NeverBeyondMax' /\ StillListed'
  BY <1>1 DEF DownloadInv, NeverBeyondMax, StillListed, Listed
<1>3. Covered("arxiv", Len(file["arxiv"]))' /\ LossOf(file["arxiv"], crashes)'
  BY <1>1 DEF DownloadInv, Covered
<1>4. LoopInv'
  BY DEF LoopInv
<1> QED
  BY <1>2, <1>3, <1>4 DEF DownloadInv

\* A loop that ends keeps what it wrote.
LEMMA StopStep ==
  ASSUME DownloadInv, InLoop, UNCHANGED <<results, todo, runs, crashes>>,
         NEW why \in Phase \ {"start", "loop"}, Stop(why)
  PROVE  DownloadInv'
<1>1. loop' = [loop EXCEPT !.phase = why] /\ UNCHANGED file
  BY DEF Stop
<1>2. loop \in LoopType
  BY DEF DownloadInv, TypeOK, LoopType
<1>3. loop' \in LoopType /\ loop'.phase = why
  BY <1>1, <1>2 DEF LoopType, Phase
<1>4. TypeOK' /\ ~InLoop'
  BY <1>1, <1>3 DEF DownloadInv, TypeOK, LoopType, InLoop
<1> QED
  BY <1>1, <1>4, OutsideStep

\* An iteration of a loop, whatever the answer lacks.
LEMMA FetchStep ==
  ASSUME DownloadInv, Fetch
  PROVE  DownloadInv'
<1>1. InLoop /\ UNCHANGED <<results, todo, runs, crashes>>
  BY DEF Fetch
<1>2. /\ loop.position \in Nat /\ Len(CurrentPage) \in Nat
      /\ Len(Parse(Current, CurrentPage)) \in Nat
  <2>1. loop.position \in Nat
    BY DEF DownloadInv, TypeOK
  <2>2. CurrentPage \in Seq(Entry) /\ Parse(Current, CurrentPage) \in Seq(Entry)
    BY <1>1, BatchIs
  <2> QED
    BY <2>1, <2>2
<1>3. CASE FetchArxiv
  <2>1. CASE Stop("nothing usable")
    BY <1>1, <2>1, StopStep DEF Phase
  <2>2. CASE \E total \in {Len(results["arxiv"]), 0} :
               Iterate(ArxivPosition, ArxivPosition >= total)
    <3>1. PICK total \in {Len(results["arxiv"]), 0} :
            Iterate(ArxivPosition, ArxivPosition >= total)
      BY <2>2
    <3> DEFINE pos == ArxivPosition
               ended == ArxivPosition >= total
    <3>2. Current = "arxiv" => pos = loop.position + Len(Parse(Current, CurrentPage))
      BY DEF ArxivPosition
    <3>3. pos \in Nat /\ ended \in BOOLEAN /\ Iterate(pos, ended)
      BY <1>2, <3>1 DEF ArxivPosition
    <3> HIDE DEF pos, ended
    <3> QED
      BY <1>1, <3>2, <3>3, IterateStep
  <2> QED
    BY <1>3, <2>1, <2>2 DEF FetchArxiv
<1>4. CASE FetchS2
  <2>1. CASE Stop("end")
    BY <1>1, <2>1, StopStep DEF Phase
  <2>2. CASE Iterate(S2Position, FALSE)
    <3>1. Current # "arxiv" /\ S2Position \in Nat
      BY <1>2, <1>4 DEF FetchS2, S2Position
    <3> QED
      BY <1>1, <2>2, <3>1, IterateStep
  <2> QED
    BY <1>4, <2>1, <2>2 DEF FetchS2
<1>5. CASE FetchOpenAlex
  <2> DEFINE pos == loop.position + Len(CurrentPage)
  <2>1. Current # "arxiv" /\ pos \in Nat
    BY <1>2, <1>5 DEF FetchOpenAlex
  <2>2. Stop("end") \/ \E ended \in BOOLEAN : Iterate(pos, ended)
    BY <1>5 DEF FetchOpenAlex
  <2> HIDE DEF pos
  <2>3. CASE Stop("end")
    BY <1>1, <2>3, StopStep DEF Phase
  <2>4. CASE \E ended \in BOOLEAN : Iterate(pos, ended)
    BY <1>1, <2>1, <2>4, IterateStep
  <2> QED
    BY <2>2, <2>3, <2>4
<1> QED
  BY <1>3, <1>4, <1>5 DEF Fetch

\* The state between two loops.
LEMMA NoLoopType == NoLoop \in LoopType /\ NoLoop.phase = "start"
  BY DEF NoLoop, LoopType, Phase

\* main chooses the services.
LEMMA StartRunStep ==
  ASSUME DownloadInv, StartRun
  PROVE  DownloadInv'
<1>1. todo' \in Seq(Source) /\ loop' = NoLoop /\ runs' \in Nat
  <2>1. \A s \in Source : <<s>> \in Seq(Source)
    OBVIOUS
  <2>2. AllSources \in Seq(Source)
    BY DEF AllSources, Source
  <2>3. todo' \in {<<s>> : s \in Source} \union {AllSources} /\ loop' = NoLoop
    BY DEF StartRun
  <2>4. runs' \in Nat
    BY DEF StartRun, DownloadInv, TypeOK
  <2> QED
    BY <2>1, <2>2, <2>3, <2>4
<1>2. TypeOK'
  BY <1>1, NoLoopType DEF StartRun, DownloadInv, TypeOK, LoopType
<1> QED
  BY <1>1, <1>2, NoLoopType, OutsideStep DEF StartRun, InLoop

\* The function of a service returned or raised.
LEMMA NextSourceStep ==
  ASSUME DownloadInv, NextSource
  PROVE  DownloadInv'
<1>1. todo' \in Seq(Source) /\ loop' = NoLoop
  BY DEF NextSource, DownloadInv, TypeOK
<1>2. TypeOK'
  BY <1>1, NoLoopType DEF NextSource, DownloadInv, TypeOK, LoopType
<1> QED
  BY <1>1, <1>2, NoLoopType, OutsideStep DEF NextSource, InLoop

\* Counting the lines is where it matters that nothing before them is missing.
LEMMA BeginStep ==
  ASSUME DownloadInv, Begin
  PROVE  DownloadInv'
<1> DEFINE s == Current
           count == Len(file[s])
           at == ResumeAt(s, count)
           l == [NoLoop EXCEPT !.already = count, !.position = at]
           why == AtHead(s, l)
<1>1. s \in Source /\ count \in Nat /\ at \in Nat /\ todo # <<>>
  <2>1. s \in Source /\ todo # <<>>
    BY DEF Begin, Current, DownloadInv, TypeOK
  <2>2. count \in Nat
    BY <2>1 DEF DownloadInv, TypeOK
  <2> HIDE DEF count
  <2> QED
    BY <2>1, <2>2 DEF ResumeAt
<1>2. loop' = [l EXCEPT !.phase = why]
  BY DEF Begin
<1> HIDE DEF count
<1>3. at = IF s \in OffsetSource THEN count ELSE 0
  BY DEF ResumeAt
<1> HIDE DEF at
<1>4. l \in LoopType /\ l.position = at /\ l.already = count /\ l.written = 0
  BY <1>1, NoLoopType DEF NoLoop, LoopType
<1> HIDE DEF l
<1>5. Got(s, l) = count
  BY <1>1, <1>3, <1>4 DEF Got, OffsetSource, Source
<1>6. why \in Phase /\ (why = "loop" => count < MaxPapers)
  BY <1>1, <1>5, LimitAssumption DEF AtHead, Phase
<1> HIDE DEF why
<1>7. /\ loop' \in LoopType /\ loop'.phase = why /\ loop'.position = at
      /\ loop'.already = count /\ loop'.written = 0
  BY <1>2, <1>4, <1>6 DEF LoopType
<1>8. Got(s, loop') = count
  BY <1>1, <1>3, <1>7 DEF Got, OffsetSource, Source
<1>9. UNCHANGED <<results, file, todo, runs, crashes>> /\ Current' = s
  BY DEF Begin, Current
<1>10. TypeOK'
  BY <1>7, <1>9 DEF DownloadInv, TypeOK, LoopType
<1>11. \A t \in Source : OldUsable(t)' = OldUsable(t)
  BY DEF OldUsable
<1>12. s = "arxiv" => Covered("arxiv", loop.position)'
  <2> HAVE s = "arxiv"
  <2>1. loop'.position = Len(file["arxiv"])
    BY <1>3, <1>7 DEF count, OffsetSource, Source
  <2>2. Covered("arxiv", Len(file["arxiv"]))
    BY DEF DownloadInv
  <2> QED
    BY <1>9, <1>11, <2>1, <2>2 DEF Covered, Source
<1>13. LoopInv'
  <2>1. Len(file[s]) = count
    BY DEF count
  <2>2. ASSUME InLoop'
        PROVE  Got(s, loop') < MaxPapers /\ Len(file[s]) <= Got(s, loop')
    <3>1. why = "loop"
      BY <1>7, <2>2 DEF InLoop
    <3> HIDE DEF s
    <3> QED
      BY <1>1, <1>6, <1>8, <2>1, <3>1
  <2>3. Got(Current, loop)' = Got(s, loop') /\ file' = file
    BY <1>9 DEF Got
  <2> QED
    BY <1>9, <1>12, <2>2, <2>3 DEF LoopInv
<1>14. NeverBeyondMax' /\ StillListed' /\ Covered("arxiv", Len(file["arxiv"]))'
       /\ LossOf(file["arxiv"], crashes)'
  BY <1>9 DEF DownloadInv, NeverBeyondMax, StillListed, OldUsable, Listed, Covered
<1> QED
  BY <1>10, <1>13, <1>14 DEF DownloadInv

\* A request that failed is made again.
LEMMA RetryStep ==
  ASSUME DownloadInv, Retry
  PROVE  DownloadInv'
<1>1. loop \in LoopType /\ InLoop
  BY DEF Retry, DownloadInv, TypeOK, LoopType
<1>2. /\ loop' \in LoopType /\ loop'.phase = loop.phase /\ loop'.position = loop.position
      /\ loop'.already = loop.already /\ loop'.written = loop.written
  BY <1>1 DEF Retry, LoopType
<1>3. UNCHANGED <<results, file, todo, runs, crashes>> /\ Current' = Current
  BY DEF Retry, Current
<1>4. TypeOK'
  BY <1>2, <1>3 DEF DownloadInv, TypeOK, LoopType
<1>5. Got(Current, loop') = Got(Current, loop)
  BY <1>2 DEF Got
<1>6. LoopInv' /\ StillListed' /\ NeverBeyondMax'
  BY <1>1, <1>2, <1>3, <1>5 DEF DownloadInv, LoopInv, InLoop, Covered, OldUsable, StillListed,
     Listed, NeverBeyondMax
<1>7. Covered("arxiv", Len(file["arxiv"]))' /\ LossOf(file["arxiv"], crashes)'
  BY <1>3 DEF DownloadInv, Covered, OldUsable
<1> QED
  BY <1>4, <1>6, <1>7 DEF DownloadInv

\* The kill may come while a batch is written.
LEMMA CrashStep ==
  ASSUME DownloadInv, Crash
  PROVE  DownloadInv'
<1>1. /\ UNCHANGED <<results, runs>> /\ todo' = <<>> /\ loop' = NoLoop
      /\ crashes \in Nat /\ crashes' = crashes + 1
  BY DEF Crash, DownloadInv, TypeOK
<1>2. /\ file' \in [Source -> Seq(Line)] /\ NeverBeyondMax'
      /\ Covered("arxiv", Len(file["arxiv"]))' /\ LossOf(file["arxiv"], crashes)'
  <2>a. LossOf(file["arxiv"], crashes + 1)
    <3>1. LossOf(file["arxiv"], crashes) /\ crashes + 1 \in Nat /\ crashes <= crashes + 1
      BY <1>1 DEF DownloadInv
    <3> QED
      BY <1>1, <3>1, NoMore
  <2>1. CASE UNCHANGED file
    BY <1>1, <2>a, <2>1 DEF DownloadInv, TypeOK, NeverBeyondMax, Covered, OldUsable
  <2>2. CASE InLoop /\ \E n \in 0..Len(Batch) : \E cut \in {n < Len(Batch), FALSE} :
                file' = [file EXCEPT ![Current] = WriteCut(@, Batch, n, cut)]
    <3>a. PICK n \in 0..Len(Batch) : \E cut \in {n < Len(Batch), FALSE} :
            file' = [file EXCEPT ![Current] = WriteCut(file[Current], Batch, n, cut)]
      BY <2>2
    <3>1. PICK cut \in {n < Len(Batch), FALSE} :
            file' = [file EXCEPT ![Current] = WriteCut(file[Current], Batch, n, cut)]
      BY <3>a
    <3> DEFINE new == WriteCut(file[Current], Batch, n, cut)
    <3>2. Current \in Source /\ Batch \in Seq(Entry) /\ file[Current] \in Seq(Line)
      BY <2>2, BatchIs DEF DownloadInv, TypeOK
    <3>3. PICK m \in 0..Len(Batch) :
            /\ new \in Seq(Line) /\ Len(new) <= Len(file[Current]) + m
            /\ Records(file[Current]) \subseteq Records(new)
            /\ \A i \in 1..m : Batch[i] \in Records(new)
      BY <3>1, <3>2, WriteCutIs
    <3>4. file' = [file EXCEPT ![Current] = new]
      BY <3>1
    <3>5. Current = "arxiv" => LossOf(new, crashes + 1)
      BY <1>1, <3>1, <3>2, WriteCutLoses DEF DownloadInv
    <3> HIDE DEF new
    <3>6. /\ file' \in [Source -> Seq(Line)] /\ NeverBeyondMax'
          /\ Covered("arxiv", Len(file["arxiv"]))'
          /\ file'[Current] = new
          /\ \A t \in Source : t # Current => file'[t] = file[t]
      BY <1>1, <2>2, <3>3, <3>4, AppendStep
    <3>7. LossOf(file'["arxiv"], crashes + 1)
      <4>1. "arxiv" \in Source
        BY DEF Source
      <4> QED
        BY <2>a, <3>5, <3>6, <4>1
    <3> QED
      BY <1>1, <3>6, <3>7
  <2> QED
    BY <2>1, <2>2 DEF Crash
<1>3. TypeOK'
  BY <1>1, <1>2, NoLoopType DEF DownloadInv, TypeOK, LoopType
<1>4. LoopInv'
  BY <1>1 DEF LoopInv, InLoop
<1>5. StillListed'
  BY <1>1 DEF DownloadInv, StillListed, OldUsable, Listed
<1> QED
  BY <1>2, <1>3, <1>4, <1>5 DEF DownloadInv

\* A new entry at the head of arXiv only moves the old ones back, so what has everything
\* up to a number of results still has.  Nothing depends on the other services' order.
LEMMA PublishStep ==
  ASSUME DownloadInv, Publish
  PROVE  DownloadInv'
<1> DEFINE old == results["arxiv"]
<1>1. InLoop /\ UNCHANGED <<file, todo, loop, runs, crashes>>
  BY DEF Publish
<1>2. results \in [Source -> Seq(Entry)] /\ "arxiv" \in Source /\ old \in Seq(Entry)
  BY DEF DownloadInv, TypeOK, Source
<1>3. OldUsable("arxiv")' = OldUsable("arxiv")
  BY DEF OldUsable
<1>4. /\ results' \in [Source -> Seq(Entry)] /\ StillListed'
      /\ \A n \in Nat : Covered("arxiv", n) =>
            \A i \in 1..Len(results'["arxiv"]) :
               i <= n /\ results'["arxiv"][i] \in OldUsable("arxiv")
               => results'["arxiv"][i] \in Records(file["arxiv"])
  <2>1. CASE \E e \in Entry \ Listed("arxiv") :
               results' = [results EXCEPT !["arxiv"] = <<e>> \o @]
    <3>1. PICK e \in Entry \ Listed("arxiv") :
            results' = [results EXCEPT !["arxiv"] = <<e>> \o @]
      BY <2>1
    <3> DEFINE new == <<e>> \o old
    <3>2. results' = [results EXCEPT !["arxiv"] = new]
      BY <3>1
    <3>3. /\ new \in Seq(Entry) /\ Len(new) = Len(old) + 1 /\ Len(old) \in Nat
          /\ new[1] = e /\ \A k \in 1..Len(old) : new[k + 1] = old[k]
          /\ DOMAIN new = 1..Len(new) /\ DOMAIN old = 1..Len(old)
      BY <1>2
    <3> HIDE DEF new, old
    <3>4. results'["arxiv"] = new /\ results' \in [Source -> Seq(Entry)]
      BY <1>2, <3>2, <3>3
    <3>5. e \notin OldUsable("arxiv")
      BY DEF DownloadInv, StillListed
    <3>6. StillListed'
      <4> SUFFICES ASSUME NEW r \in OldUsable("arxiv")
                   PROVE  \E i \in DOMAIN new : new[i] = r
        BY <1>3, <3>4 DEF StillListed, Listed
      <4>1. PICK k \in DOMAIN old : old[k] = r
        BY DEF DownloadInv, StillListed, Listed, old
      <4>2. k + 1 \in DOMAIN new /\ new[k + 1] = r
        BY <3>3, <4>1
      <4> QED
        BY <4>2
    <3>7. ASSUME NEW n \in Nat, Covered("arxiv", n), NEW i \in 1..Len(new), i <= n,
                 new[i] \in OldUsable("arxiv")
          PROVE  new[i] \in Records(file["arxiv"])
      <4>1. i # 1
        BY <3>3, <3>5, <3>7
      <4>2. i - 1 \in 1..Len(old) /\ new[i] = old[i - 1] /\ i - 1 <= n
        BY <3>3, <3>7, <4>1
      <4> QED
        BY <3>7, <4>2 DEF Covered, old
    <3> QED
      BY <3>4, <3>6, <3>7
  <2>2. CASE \E ranking \in Rankings :
               results' = [results EXCEPT !["semantic-scholar"] = ranking]
    <3>1. results' \in [Source -> Seq(Entry)] /\ results'["arxiv"] = old
      BY <1>2, <2>2, ResultsAssumption
    <3>2. StillListed'
      BY <1>3, <3>1 DEF DownloadInv, StillListed, Listed
    <3> QED
      BY <3>1, <3>2 DEF Covered
  <2> QED
    BY <2>1, <2>2 DEF Publish
<1>5. TypeOK' /\ NeverBeyondMax' /\ Current' = Current /\ LossOf(file["arxiv"], crashes)'
  BY <1>1, <1>4 DEF DownloadInv, TypeOK, NeverBeyondMax, Current
<1>6. Covered("arxiv", Len(file["arxiv"]))'
  <2>1. Len(file["arxiv"]) \in Nat /\ Covered("arxiv", Len(file["arxiv"]))
    BY <1>2 DEF DownloadInv, TypeOK
  <2> QED
    BY <1>1, <1>3, <1>4, <2>1 DEF Covered
<1>7. LoopInv'
  <2>1. CASE Current = "arxiv"
    <3>1. loop.position \in Nat /\ Covered("arxiv", loop.position)
      BY <1>1, <2>1 DEF DownloadInv, LoopInv, TypeOK
    <3>2. Covered("arxiv", loop.position)'
      BY <1>1, <1>3, <1>4, <3>1 DEF Covered
    <3> QED
      BY <1>1, <1>5, <3>2 DEF DownloadInv, LoopInv, InLoop, Got
  <2>2. CASE Current # "arxiv"
    BY <1>1, <1>5, <2>2 DEF DownloadInv, LoopInv, InLoop, Got
  <2> QED
    BY <2>1, <2>2
<1> QED
  BY <1>4, <1>5, <1>6, <1>7 DEF DownloadInv

-----------------------------------------------------------------------------
(* The theorems *)

\* The invariant holds of the first run.
LEMMA DownloadInit == Init => DownloadInv
<1> SUFFICES ASSUME Init PROVE DownloadInv
  OBVIOUS
<1>1. \A s \in Source : file[s] = <<>> /\ Len(file[s]) = 0
  BY DEF Init
<1>2. TypeOK
  <2>1. file \in [Source -> Seq(Line)] /\ todo \in Seq(Source)
    BY DEF Init
  <2> QED
    BY <2>1, ResultsAssumption, NoLoopType DEF Init, TypeOK, LoopType
<1>3. NeverBeyondMax
  BY <1>1, LimitAssumption DEF NeverBeyondMax
<1>4. LoopInv
  BY DEF Init, LoopInv, InLoop
<1>5. StillListed
  BY DEF Init, StillListed, OldUsable, Listed
<1>6. "arxiv" \in Source
  BY DEF Source
<1>7. Covered("arxiv", Len(file["arxiv"]))
  <2>1. results["arxiv"] \in Seq(Entry) /\ Len(file["arxiv"]) = 0
    BY <1>1, <1>2, <1>6 DEF TypeOK
  <2> QED
    BY <2>1 DEF Covered
<1>8. LossOf(file["arxiv"], crashes)
  <2>1. Lost(file["arxiv"]) = {} /\ ~Torn(file["arxiv"]) /\ crashes = 0
    BY <1>1, <1>6 DEF Lost, Torn, Init
  <2> QED
    BY <2>1, FS_EmptySet DEF LossOf
<1> QED
  BY <1>2, <1>3, <1>4, <1>5, <1>7, <1>8 DEF DownloadInv

\* Every step keeps the invariant.
LEMMA DownloadNext == DownloadInv /\ [Next]_vars => DownloadInv'
<1> SUFFICES ASSUME DownloadInv, [Next]_vars PROVE DownloadInv'
  OBVIOUS
<1>1. CASE StartRun
  BY <1>1, StartRunStep
<1>2. CASE Begin
  BY <1>2, BeginStep
<1>3. CASE Fetch
  BY <1>3, FetchStep
<1>4. CASE Retry
  BY <1>4, RetryStep
<1>5. CASE GiveUp
  BY <1>5, StopStep DEF GiveUp, Phase
<1>6. CASE NextSource
  BY <1>6, NextSourceStep
<1>7. CASE Crash
  BY <1>7, CrashStep
<1>8. CASE Publish
  BY <1>8, PublishStep
<1>9. CASE UNCHANGED vars
  <2>1. UNCHANGED <<results, file, todo, loop, runs, crashes>>
    BY <1>9 DEF vars
  <2>2. TypeOK' /\ NeverBeyondMax'
    BY <2>1 DEF DownloadInv, TypeOK, NeverBeyondMax
  <2>3. StillListed'
    BY <2>1 DEF DownloadInv, StillListed, Listed, OldUsable
  <2>4. LoopInv'
    BY <2>1 DEF DownloadInv, LoopInv, InLoop, Current, Got, Covered, OldUsable
  <2>5. Covered("arxiv", Len(file["arxiv"]))' /\ LossOf(file["arxiv"], crashes)'
    BY <2>1 DEF DownloadInv, Covered, OldUsable
  <2> QED
    BY <2>2, <2>3, <2>4, <2>5 DEF DownloadInv
<1> QED
  BY <1>1, <1>2, <1>3, <1>4, <1>5, <1>6, <1>7, <1>8, <1>9 DEF Next, Work

\* The invariant holds in every behaviour.
THEOREM DownloadInvariant == Spec => []DownloadInv
BY DownloadInit, DownloadNext, PTL DEF Spec

\* The loops of download_corpus.py and the appending of their batches keep every file at
\* max_papers lines or less, over any number of runs and kills.
THEOREM FilesAreBounded == Spec => []NeverBeyondMax
<1>1. DownloadInv => NeverBeyondMax
  BY DEF DownloadInv
<1> QED
  BY <1>1, DownloadInvariant, PTL

\* The number of lines that _count_lines returns is an offset of arXiv before which at
\* most two entries for a kill are missing, of the usable ones listed from the beginning.
THEOREM ResumingMissesFew == Spec => []FewAreMissed
<1>1. DownloadInv => FewAreMissed
  <2> SUFFICES ASSUME DownloadInv
               PROVE  Cardinality(Missed("arxiv")) <= 2 * crashes
    BY DEF FewAreMissed
  <2> DEFINE lines == file["arxiv"]
             listed == results["arxiv"]
  <2>1. lines \in Seq(Line) /\ listed \in Seq(Entry) /\ crashes \in Nat
    BY DEF DownloadInv, TypeOK, Source
  <2>2. ASSUME NEW r \in Missed("arxiv")
        PROVE  r \in Lost(lines)
    <3>1. PICK i \in 1..Lesser(Len(lines), Len(listed)) :
            r = listed[i] /\ r \in OldUsable("arxiv") /\ r \notin Readable("arxiv")
      BY <2>2 DEF Missed
    <3>2. i \in 1..Len(listed) /\ i <= Len(lines)
      BY <2>1, <3>1 DEF Lesser
    <3>3. r \in Records(lines)
      BY <3>1, <3>2 DEF DownloadInv, Covered
    <3>4. PICK k \in DOMAIN lines : r \in lines[k].of
      BY <3>3 DEF Records
    <3>5. lines[k].state # "whole"
      BY <3>1, <3>4 DEF Readable, Range
    <3> QED
      BY <3>4, <3>5 DEF Lost
  <2>3. Missed("arxiv") \in SUBSET Lost(lines)
    BY <2>2
  <2>4. IsFiniteSet(Lost(lines)) /\ Cardinality(Lost(lines)) <= 2 * crashes
    BY DEF DownloadInv, LossOf
  <2> HIDE DEF lines
  <2>5. /\ Cardinality(Missed("arxiv")) <= Cardinality(Lost(lines))
        /\ Cardinality(Missed("arxiv")) \in Nat /\ Cardinality(Lost(lines)) \in Nat
    BY <2>3, <2>4, FS_Subset, FS_CardinalityType
  <2> QED
    BY <2>1, <2>4, <2>5
<1> QED
  BY <1>1, DownloadInvariant, PTL

=============================================================================
