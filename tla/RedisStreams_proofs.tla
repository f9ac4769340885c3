------------------------- MODULE RedisStreams_proofs -------------------------
(***************************************************************************)
(* Facts about the stream operators, for streams of any length, about what *)
(* is computed from the elements of a sequence one after the other, and    *)
(* about bags.                                                             *)
(***************************************************************************)
EXTENDS RedisStreams, Bags, SequenceTheorems, FiniteSetTheorems, WellFoundedInduction, TLAPS

(* A set of numbers that is not empty has a least one. *)
LEMMA LeastNumber ==
  ASSUME NEW T \in SUBSET Nat, T # {}
  PROVE  \E n \in T : \A m \in T : n <= m
<1>1. PICK n \in T : \A m \in T : ~(<<m, n>> \in OpToRel(<, Nat))
  BY NatLessThanWellFounded, WFMin
<1>2. \A m \in T : ~(m < n)
  BY <1>1 DEF OpToRel
<1> QED BY <1>2

(* What holds of 0, and of every number up to N if of the one before it,     *)
(* holds of all of them.                                                     *)
LEMMA StepByStep ==
  ASSUME NEW N \in Nat, NEW Good, 0 \in Good,
         \A n \in 1 .. N : n - 1 \in Good => n \in Good
  PROVE  \A n \in 0 .. N : n \in Good
<1> DEFINE Bad == {n \in 0 .. N : n \notin Good}
<1>1. SUFFICES ASSUME Bad # {} PROVE FALSE
  OBVIOUS
<1>2. PICK n \in Bad : \A m \in Bad : n <= m
  <2>1. Bad \in SUBSET Nat
    OBVIOUS
  <2> HIDE DEF Bad
  <2> QED BY <1>1, <2>1, LeastNumber
<1>3. n \in 1 .. N /\ n - 1 \in 0 .. N /\ n \notin Good
  BY <1>2
<1>4. n - 1 \in Good
  BY <1>2, <1>3
<1> QED BY <1>3, <1>4

(* What a value of S, starting as `base', becomes with each element of q. *)
Stepwise(S, base, Step, q, N) ==
  {f \in [0 .. N -> S] : /\ f[0] = base
                         /\ \A n \in 1 .. N : f[n] = Step[<<f[n - 1], q[n]>>]}

(* There is such a function, whatever a step does to a value of S.           *)
LEMMA StepwiseExists ==
  ASSUME NEW S, NEW T, NEW base \in S, NEW Step \in [S \X T -> S],
         NEW N \in Nat, NEW q \in [1 .. N -> T]
  PROVE  Stepwise(S, base, Step, q, N) # {}
<1> DEFINE Upto(m) == {f \in [0 .. m -> S] :
                         f[0] = base /\ \A n \in 1 .. m : f[n] = Step[<<f[n - 1], q[n]>>]}
           Good == {m \in 0 .. N : Upto(m) # {}}
<1>1. 0 \in Good
  <2>1. [n \in 0 .. 0 |-> base] \in Upto(0)
    OBVIOUS
  <2> QED BY <2>1
<1>2. ASSUME NEW m \in 1 .. N, m - 1 \in Good
      PROVE  m \in Good
  <2>1. PICK f \in Upto(m - 1) : TRUE
    BY <1>2
  <2> DEFINE g == [n \in 0 .. m |-> IF n = m THEN Step[<<f[m - 1], q[m]>>] ELSE f[n]]
  <2>2. f[m - 1] \in S /\ q[m] \in T /\ m - 1 \in 0 .. N /\ 0 # m
    BY <2>1
  <2>3. Step[<<f[m - 1], q[m]>>] \in S
    BY <2>2
  <2>4. g \in [0 .. m -> S]
    BY <2>1, <2>3
  <2>5. g[0] = base
    BY <2>1, <2>2
  <2>6. \A n \in 1 .. m : g[n] = Step[<<g[n - 1], q[n]>>]
    <3> SUFFICES ASSUME NEW n \in 1 .. m PROVE g[n] = Step[<<g[n - 1], q[n]>>]
      OBVIOUS
    <3>1. g[n - 1] = f[n - 1]
      OBVIOUS
    <3>2. CASE n = m
      <4>1. g[n] = Step[<<f[m - 1], q[m]>>] /\ f[m - 1] = f[n - 1] /\ q[m] = q[n]
        BY <3>2
      <4> HIDE DEF g
      <4> QED BY <3>1, <4>1
    <3>3. CASE n # m
      <4>1. n \in 1 .. m - 1
        BY <3>3
      <4>2. f[n] = Step[<<f[n - 1], q[n]>>] /\ g[n] = f[n]
        BY <4>1, <2>1
      <4> QED BY <3>1, <4>2
    <3> QED BY <3>2, <3>3
  <2>7. g \in Upto(m)
    BY <2>4, <2>5, <2>6
  <2> HIDE DEF g, Upto
  <2>8. m \in 0 .. N
    OBVIOUS
  <2> QED BY <2>7, <2>8
<1>3. N \in Good
  <2> HIDE DEF Good
  <2>1. \A n \in 0 .. N : n \in Good
    BY <1>1, <1>2, StepByStep
  <2> QED BY <2>1
<1> QED BY <1>3 DEF Stepwise

-----------------------------------------------------------------------------
EntriesOf(E) == Seq([id : Ids, event : E])
StreamsOf(E) == [last : Ids, entries : EntriesOf(E)]

(* The number of entries on one side of an ID is at most that of the entries. *)
LEMMA CountsAreSmall ==
  ASSUME NEW stream, Len(stream.entries) \in Nat, NEW id
  PROVE  /\ CountUpTo(stream, id) \in 0 .. Len(stream.entries)
         /\ CountBelow(stream, id) \in 0 .. Len(stream.entries)
<1> DEFINE all == 1 .. Len(stream.entries)
<1>1. IsFiniteSet(all) /\ Cardinality(all) = Len(stream.entries)
  BY FS_Interval
<1>2. ASSUME NEW part \in SUBSET all
      PROVE  Cardinality(part) \in 0 .. Len(stream.entries)
  <2>1. IsFiniteSet(part) /\ Cardinality(part) <= Cardinality(all)
    BY <1>1, FS_Subset
  <2>2. Cardinality(part) \in Nat
    BY <2>1, FS_CardinalityType
  <2> QED BY <1>1, <2>1, <2>2
<1>3. {i \in all : IdLeq(stream.entries[i].id, id)} \in SUBSET all
  OBVIOUS
<1>4. {i \in all : IdLess(stream.entries[i].id, id)} \in SUBSET all
  OBVIOUS
<1> QED BY <1>2, <1>3, <1>4 DEF CountUpTo, CountBelow

(* XREAD and XRANGE return entries of the stream. *)
LEMMA ReadsAreEntries ==
  ASSUME NEW T, NEW stream, stream.entries \in Seq(T), NEW after, NEW n \in Nat
  PROVE  XRead(stream, after, n) \in Seq(T)
<1> DEFINE k    == CountUpTo(stream, after)
           size == Len(stream.entries)
           last == IF size < k + n THEN size ELSE k + n
<1>1. size \in Nat
  BY LenProperties
<1>2. k \in 0 .. size
  BY <1>1, CountsAreSmall
<1>3. k + 1 \in Int /\ last \in Int /\ last <= size
  BY <1>1, <1>2
<1>4. \A i \in k + 1 .. last : i \in 1 .. size
  BY <1>1, <1>2, <1>3
<1>5. \A i \in k + 1 .. last : stream.entries[i] \in T
  BY <1>4, ElementOfSeq
<1> HIDE DEF k, size, last
<1>6. SubSeq(stream.entries, k + 1, last) \in Seq(T)
  BY <1>3, <1>5, SubSeqProperties
<1> QED BY <1>6 DEF XRead, k, size, last

LEMMA RangesAreEntries ==
  ASSUME NEW T, NEW stream, stream.entries \in Seq(T), NEW from, NEW to
  PROVE  XRange(stream, from, to) \in Seq(T)
<1> DEFINE k    == CountBelow(stream, from)
           size == Len(stream.entries)
           last == IF to = Plus THEN size ELSE CountUpTo(stream, to)
<1>1. size \in Nat
  BY LenProperties
<1>2. k \in 0 .. size /\ last \in 0 .. size
  BY <1>1, CountsAreSmall
<1>3. k + 1 \in Int /\ last \in Int
  BY <1>1, <1>2
<1>4. \A i \in k + 1 .. last : i \in 1 .. size
  BY <1>1, <1>2
<1>5. \A i \in k + 1 .. last : stream.entries[i] \in T
  BY <1>4, ElementOfSeq
<1> HIDE DEF k, size, last
<1>6. SubSeq(stream.entries, k + 1, last) \in Seq(T)
  BY <1>3, <1>5, SubSeqProperties
<1> QED BY <1>6 DEF XRange, k, size, last

(* The ID of a new entry is greater than the last one, whatever the clock.   *)
LEMMA NewIdIsGreater ==
  ASSUME NEW stream, stream.last \in Ids, NEW t \in Nat
  PROVE  NewId(stream, t) \in Ids /\ IdLess(stream.last, NewId(stream, t))
<1>1. PICK ms \in Nat, n \in Nat : stream.last = <<ms, n>>
  BY DEF Ids
<1> QED BY <1>1 DEF NewId, Ids, IdLess

(* XADD keeps the type of a stream. *)
LEMMA AddKeepsType ==
  ASSUME NEW E, NEW stream \in StreamsOf(E), NEW t \in Nat, NEW event \in E
  PROVE  XAdd(stream, t, event) \in StreamsOf(E)
<1>1. NewId(stream, t) \in Ids
  BY NewIdIsGreater DEF StreamsOf
<1>2. [id |-> NewId(stream, t), event |-> event] \in [id : Ids, event : E]
  BY <1>1
<1>3. Append(stream.entries, [id |-> NewId(stream, t), event |-> event]) \in EntriesOf(E)
  BY <1>2, AppendProperties DEF StreamsOf, EntriesOf
<1> QED BY <1>1, <1>3 DEF XAdd, StreamsOf

-----------------------------------------------------------------------------
(* IDs are totally ordered. *)
LEMMA IdsAreOrdered ==
  ASSUME NEW a \in Ids, NEW b \in Ids, NEW c \in Ids
  PROVE  /\ ~IdLess(a, a)
         /\ IdLess(a, b) \/ a = b \/ IdLess(b, a)
         /\ IdLess(a, b) /\ IdLess(b, c) => IdLess(a, c)
<1>1. PICK a1 \in Nat, a2 \in Nat : a = <<a1, a2>>
  BY DEF Ids
<1>2. PICK b1 \in Nat, b2 \in Nat : b = <<b1, b2>>
  BY DEF Ids
<1>3. PICK d1 \in Nat, d2 \in Nat : c = <<d1, d2>>
  BY DEF Ids
<1> QED BY <1>1, <1>2, <1>3 DEF IdLess

(* In an ordered stream, the number of entries up to an ID tells which       *)
(* entries they are: the first ones.                                         *)
LEMMA CountTellsWhich ==
  ASSUME NEW E, NEW stream \in StreamsOf(E), InOrder(stream), NEW after \in Ids,
         NEW i \in 1 .. Len(stream.entries)
  PROVE  i <= CountUpTo(stream, after) <=> IdLeq(stream.entries[i].id, after)
<1> DEFINE e    == stream.entries
           size == Len(e)
           upTo == {j \in 1 .. size : IdLeq(e[j].id, after)}
<1>1. e \in EntriesOf(E) /\ size \in Nat
  BY LenProperties DEF StreamsOf, EntriesOf
<1>2. \A j \in 1 .. size : e[j].id \in Ids
  <2>1. \A j \in 1 .. size : e[j] \in [id : Ids, event : E]
    BY <1>1, ElementOfSeq DEF EntriesOf
  <2> QED BY <2>1
<1>3. \A j, m \in 1 .. size : j < m => IdLess(e[j].id, e[m].id)
  BY <1>1 DEF InOrder
<1>4. CountUpTo(stream, after) = Cardinality(upTo)
  BY DEF CountUpTo
<1>5. i \in 1 .. size
  OBVIOUS
<1>6. IsFiniteSet(upTo)
  <2>1. IsFiniteSet(1 .. size)
    BY <1>1, FS_Interval
  <2>2. upTo \in SUBSET (1 .. size)
    OBVIOUS
  <2> HIDE DEF upTo, size
  <2> QED BY <2>1, <2>2, FS_Subset
<1> HIDE DEF e, size
<1>7. CASE IdLeq(e[i].id, after)
  <2>1. 1 .. i \subseteq upTo
    <3> SUFFICES ASSUME NEW j \in 1 .. i PROVE j \in upTo
      OBVIOUS
    <3>1. j \in 1 .. size
      BY <1>1, <1>5
    <3>2. j = i \/ IdLess(e[j].id, e[i].id)
      BY <1>1, <1>3, <1>5, <3>1
    <3>3. IdLeq(e[j].id, after)
      BY <1>2, <1>5, <1>7, <3>1, <3>2, IdsAreOrdered DEF IdLeq
    <3> QED BY <3>1, <3>3
  <2>2. IsFiniteSet(1 .. i) /\ Cardinality(1 .. i) = i
    BY <1>1, <1>5, FS_Interval
  <2>3. i <= Cardinality(upTo)
    BY <1>6, <2>1, <2>2, FS_Subset
  <2> QED BY <1>4, <1>7, <2>3 DEF e
<1>8. CASE ~IdLeq(e[i].id, after)
  <2>1. upTo \subseteq 1 .. i - 1
    <3> SUFFICES ASSUME NEW j \in upTo, ~(j \in 1 .. i - 1) PROVE FALSE
      OBVIOUS
    <3>1. j \in 1 .. size /\ IdLeq(e[j].id, after) /\ (j = i \/ i < j)
      BY <1>1, <1>5
    <3>2. i < j
      BY <1>8, <3>1
    <3>3. IdLess(e[i].id, e[j].id)
      BY <1>3, <1>5, <3>1, <3>2
    <3>4. IdLeq(e[i].id, after)
      BY <1>2, <1>5, <3>1, <3>3, IdsAreOrdered DEF IdLeq
    <3> QED BY <1>8, <3>4
  <2>2. IsFiniteSet(1 .. i - 1) /\ Cardinality(1 .. i - 1) = i - 1
    <3>1. 1 \in Int /\ i - 1 \in Int /\ 1 <= i
      BY <1>1, <1>5
    <3>2. (IF i - 1 < 1 THEN 0 ELSE i - 1 - 1 + 1) = i - 1
      BY <3>1
    <3> QED BY <3>1, <3>2, FS_Interval
  <2>3. Cardinality(upTo) <= i - 1
    BY <2>1, <2>2, FS_Subset
  <2>4. Cardinality(upTo) \in Nat
    BY <1>6, FS_CardinalityType
  <2>5. ~(i <= Cardinality(upTo))
    BY <1>1, <1>5, <2>3, <2>4
  <2> QED BY <1>4, <1>8, <2>5 DEF e
<1> QED BY <1>7, <1>8

(* XREAD returns the entries that follow the ID, without a gap. *)
LEMMA ReadIsExact ==
  ASSUME NEW E, NEW stream \in StreamsOf(E), InOrder(stream),
         NEW after \in Ids, NEW n \in Nat, XRead(stream, after, n) # <<>>
  PROVE  LET results == XRead(stream, after, n)
         IN  EntriesIn(results) = Between(stream, after, results[Len(results)].id)
<1> DEFINE e       == stream.entries
           size    == Len(e)
           k       == CountUpTo(stream, after)
           last    == IF size < k + n THEN size ELSE k + n
           results == SubSeq(e, k + 1, last)
<1>1. e \in EntriesOf(E) /\ size \in Nat
  BY LenProperties DEF StreamsOf, EntriesOf
<1>2. k \in 0 .. size
  BY <1>1, CountsAreSmall
<1>3. \A j \in 1 .. size : e[j] \in [id : Ids, event : E] /\ e[j].id \in Ids
  <2>1. \A j \in 1 .. size : e[j] \in [id : Ids, event : E]
    BY <1>1, ElementOfSeq DEF EntriesOf
  <2> QED BY <2>1
<1>4. \A j, m \in 1 .. size : j < m => IdLess(e[j].id, e[m].id)
  BY <1>1 DEF InOrder
<1>5. \A j \in 1 .. size : j <= k <=> IdLeq(e[j].id, after)
  BY <1>1, CountTellsWhich
<1>6. XRead(stream, after, n) = results /\ results # <<>>
  BY DEF XRead
<1>7. k \in Nat /\ last \in Nat /\ last <= size
  BY <1>1, <1>2
<1> HIDE DEF e, size, k, last
<1>8. /\ results \in EntriesOf(E)
      /\ Len(results) = IF k + 1 <= last THEN last - (k + 1) + 1 ELSE 0
      /\ \A j \in 1 .. last - (k + 1) + 1 : results[j] = e[(k + 1) + j - 1]
  <2>1. \A j \in k + 1 .. last : e[j] \in [id : Ids, event : E]
    BY <1>1, <1>3, <1>7
  <2> QED BY <1>7, <2>1, SubSeqProperties DEF EntriesOf
<1>9. k + 1 <= last /\ Len(results) = last - k
  <2>1. Len(results) # 0
    BY <1>6, <1>8, EmptySeq DEF EntriesOf
  <2> QED BY <1>7, <1>8, <2>1
<1>10. \A j \in 1 .. last - k : results[j] = e[k + j]
  BY <1>7, <1>8
<1> HIDE DEF results
<1>11. results[Len(results)] = e[last]
  BY <1>7, <1>9, <1>10
<1>12. EntriesIn(results) = {e[j] : j \in k + 1 .. last}
  <2>1. \A j \in 1 .. Len(results) : k + j \in k + 1 .. last /\ results[j] = e[k + j]
    BY <1>7, <1>9, <1>10
  <2>2. \A m \in k + 1 .. last : m - k \in 1 .. Len(results) /\ results[m - k] = e[m]
    <3> TAKE m \in k + 1 .. last
    <3>1. m - k \in 1 .. last - k /\ k + (m - k) = m
      BY <1>7
    <3> QED BY <1>9, <1>10, <3>1
  <2>3. EntriesIn(results) \subseteq {e[j] : j \in k + 1 .. last}
    BY <2>1 DEF EntriesIn
  <2>4. {e[j] : j \in k + 1 .. last} \subseteq EntriesIn(results)
    BY <2>2 DEF EntriesIn
  <2> QED BY <2>3, <2>4
<1>13. \A j \in 1 .. size : j \in k + 1 .. last <=> IdLess(after, e[j].id) /\ IdLeq(e[j].id, e[last].id)
  <2> TAKE j \in 1 .. size
  <2>1. last \in 1 .. size /\ k \in Nat /\ size \in Nat
    BY <1>1, <1>7, <1>9
  <2>2. k < j <=> IdLess(after, e[j].id)
    BY <1>3, <1>5, <2>1, IdsAreOrdered DEF IdLeq
  <2>3. j <= last <=> IdLeq(e[j].id, e[last].id)
    BY <1>3, <1>4, <2>1, IdsAreOrdered DEF IdLeq
  <2> QED BY <2>1, <2>2, <2>3
<1>14. {e[j] : j \in k + 1 .. last} =
         {x \in EntriesIn(e) : IdLess(after, x.id) /\ IdLeq(x.id, e[last].id)}
  <2>1. \A j \in k + 1 .. last : j \in 1 .. size
    BY <1>1, <1>7
  <2> QED BY <1>13, <2>1 DEF EntriesIn, size
<1> QED BY <1>6, <1>11, <1>12, <1>14 DEF Between, e

(* XADD keeps a stream in order, and leaves what was there where it was. *)
LEMMA AddKeepsOrder ==
  ASSUME NEW E, NEW stream \in StreamsOf(E), InOrder(stream),
         NEW t \in Nat, NEW event \in E
  PROVE  /\ InOrder(XAdd(stream, t, event))
         /\ \A after \in Ids : \A upTo \in Ids : IdLeq(upTo, stream.last) =>
               Between(XAdd(stream, t, event), after, upTo) = Between(stream, after, upTo)
<1> DEFINE e    == stream.entries
           id   == NewId(stream, t)
           x    == [id |-> id, event |-> event]
           more == Append(e, x)
<1>1. e \in EntriesOf(E) /\ stream.last \in Ids /\ Len(e) \in Nat
  BY LenProperties DEF StreamsOf, EntriesOf
<1>2. id \in Ids /\ IdLess(stream.last, id)
  BY <1>1, NewIdIsGreater
<1>3. /\ Len(more) = Len(e) + 1
      /\ \A i \in 1 .. Len(e) : more[i] = e[i]
      /\ more[Len(e) + 1] = x
  BY <1>1, <1>2, AppendProperties DEF EntriesOf
<1>4. XAdd(stream, t, event).last = id /\ XAdd(stream, t, event).entries = more
  BY DEF XAdd
<1>5. \A i \in 1 .. Len(e) : e[i].id \in Ids
  <2>1. \A i \in 1 .. Len(e) : e[i] \in [id : Ids, event : E]
    BY <1>1, ElementOfSeq DEF EntriesOf
  <2> QED BY <2>1
<1>6. /\ \A i \in 1 .. Len(e) : IdLeq(e[i].id, stream.last)
      /\ \A i \in 1 .. Len(e) : \A j \in 1 .. i - 1 : IdLess(e[j].id, e[i].id)
  BY DEF InOrder
<1>7. \A i \in 1 .. Len(e) : IdLess(e[i].id, id)
  BY <1>1, <1>2, <1>5, <1>6, IdsAreOrdered DEF IdLeq
<1>8. x.id = id
  OBVIOUS
<1> HIDE DEF id, x, more, e
<1>9. InOrder(XAdd(stream, t, event))
  <2> SUFFICES ASSUME NEW i \in 1 .. Len(more)
               PROVE  /\ IdLeq(more[i].id, id)
                      /\ \A j \in 1 .. i - 1 : IdLess(more[j].id, more[i].id)
    BY <1>4 DEF InOrder
  <2>1. CASE i \in 1 .. Len(e)
    <3>1. \A j \in 1 .. i - 1 : j \in 1 .. Len(e)
      BY <1>1, <2>1
    <3> QED BY <1>3, <1>6, <1>7, <2>1, <3>1 DEF IdLeq
  <2>2. CASE i = Len(e) + 1
    <3>1. \A j \in 1 .. i - 1 : j \in 1 .. Len(e)
      BY <1>1, <2>2
    <3> QED BY <1>3, <1>7, <1>8, <2>2, <3>1 DEF IdLeq
  <2> QED BY <1>1, <1>3, <2>1, <2>2
<1>10. EntriesIn(more) = EntriesIn(e) \cup {x}
  <2>1. \A i \in 1 .. Len(more) : i \in 1 .. Len(e) \/ i = Len(e) + 1
    BY <1>1, <1>3
  <2>2. \A i \in 1 .. Len(e) : i \in 1 .. Len(more)
    BY <1>1, <1>3
  <2>3. Len(e) + 1 \in 1 .. Len(more)
    BY <1>1, <1>3
  <2> QED BY <1>3, <2>1, <2>2, <2>3 DEF EntriesIn
<1>11. ASSUME NEW after \in Ids, NEW upTo \in Ids, IdLeq(upTo, stream.last)
       PROVE  Between(XAdd(stream, t, event), after, upTo) = Between(stream, after, upTo)
  <2>1. ~IdLeq(x.id, upTo)
    BY <1>1, <1>2, <1>8, <1>11, IdsAreOrdered DEF IdLeq
  <2> QED BY <1>4, <1>10, <2>1 DEF Between, e
<1> QED BY <1>9, <1>11

-----------------------------------------------------------------------------
(* The entries of a sequence that are in S: those, and no others. *)
LEMMA OnlySteps ==
  ASSUME NEW E, NEW q \in Seq(E), NEW S
  PROVE  \E kept \in [0 .. Len(q) -> Seq(E)] :
           /\ kept[0] = <<>> /\ Only(q, S) = kept[Len(q)]
           /\ \A n \in 1 .. Len(q) :
                 kept[n] = IF q[n] \in S THEN Append(kept[n - 1], q[n]) ELSE kept[n - 1]
<1> DEFINE N == Len(q)
           kept[n \in 0 .. N] ==
             IF n = 0 THEN <<>>
             ELSE IF q[n] \in S THEN Append(kept[n - 1], q[n]) ELSE kept[n - 1]
           Step == [p \in Seq(E) \X E |-> IF p[2] \in S THEN Append(p[1], p[2]) ELSE p[1]]
           Good == {n \in 0 .. N : kept[n] \in Seq(E)}
<1>1. N \in Nat /\ q \in [1 .. N -> E] /\ <<>> \in Seq(E)
  OBVIOUS
<1>2. Step \in [Seq(E) \X E -> Seq(E)]
  OBVIOUS
<1>3. kept = [n \in 0 .. N |->
                IF n = 0 THEN <<>>
                ELSE IF q[n] \in S THEN Append(kept[n - 1], q[n])
                                              ELSE kept[n - 1]]
  <2> HIDE DEF N
  <2>1. PICK f \in [0 .. N -> Seq(E)] :
           f[0] = <<>> /\ \A n \in 1 .. N : f[n] = Step[<<f[n - 1], q[n]>>]
    <3> DEFINE SE == Seq(E)
    <3>1. <<>> \in SE /\ Step \in [SE \X E -> SE] /\ N \in Nat /\ q \in [1 .. N -> E]
      BY <1>1, <1>2
    <3> HIDE DEF Step, SE
    <3>2. Stepwise(SE, <<>>, Step, q, N) # {}
      BY <3>1, StepwiseExists
    <3> QED BY <3>2 DEF Stepwise, SE
  <2>2. \A n \in 1 .. N : f[n] = IF q[n] \in S THEN Append(f[n - 1], q[n]) ELSE f[n - 1]
    <3> TAKE n \in 1 .. N
    <3>1. n - 1 \in 0 .. N /\ n \in 1 .. N
      BY <1>1
    <3>2. f[n - 1] \in Seq(E) /\ q[n] \in E
      BY <1>1, <3>1
    <3>3. f[n] = Step[<<f[n - 1], q[n]>>]
      BY <2>1
    <3> QED BY <3>2, <3>3
  <2> DEFINE R(n, g) == IF n = 0 THEN <<>>
                        ELSE IF q[n] \in S THEN Append(g[n - 1], q[n])
                                                      ELSE g[n - 1]
  <2> HIDE DEF Step
  <2>3. ASSUME NEW n \in 0 .. N PROVE f[n] = R(n, f)
    <3>1. CASE n = 0
      BY <2>1, <3>1
    <3>2. CASE n # 0
      <4>1. n \in 1 .. N
        BY <1>1, <3>2
      <4>2. f[n] = IF q[n] \in S THEN Append(f[n - 1], q[n]) ELSE f[n - 1]
        BY <2>2, <4>1
      <4> QED BY <3>2, <4>2
    <3> QED BY <3>1, <3>2
  <2>4. f = [n \in 0 .. N |-> R(n, f)]
    <3> HIDE DEF R
    <3> QED BY <2>3
  <2> QED BY <2>4
<1>4. Only(q, S) = kept[N]
  BY DEF Only
<1> HIDE DEF kept, Step
<1>5. kept[0] = <<>>
  <2>1. 0 \in 0 .. N
    BY <1>1
  <2> QED BY <1>3, <2>1
<1>6. \A n \in 1 .. N :
         kept[n] = IF q[n] \in S THEN Append(kept[n - 1], q[n]) ELSE kept[n - 1]
  <2> TAKE n \in 1 .. N
  <2>1. n \in 0 .. N /\ n # 0
    BY <1>1
  <2> QED BY <1>3, <2>1
<1>7. 0 \in Good
  <2>1. 0 \in 0 .. N
    BY <1>1
  <2> QED BY <1>1, <1>5, <2>1
<1>8. ASSUME NEW n \in 1 .. N, n - 1 \in Good PROVE n \in Good
  <2>1. n \in 0 .. N /\ q[n] \in E /\ kept[n - 1] \in Seq(E)
    BY <1>1, <1>8
  <2>2. kept[n] = IF q[n] \in S THEN Append(kept[n - 1], q[n]) ELSE kept[n - 1]
    BY <1>6
  <2>3. Append(kept[n - 1], q[n]) \in Seq(E)
    BY <2>1
  <2>4. kept[n] \in Seq(E)
    BY <2>1, <2>2, <2>3
  <2> QED BY <2>1, <2>4
<1>9. \A n \in 0 .. N : kept[n] \in Seq(E)
  <2>1. \A n \in 0 .. N : n \in Good
    <3> HIDE DEF Good
    <3> QED BY <1>1, <1>7, <1>8, StepByStep
  <2> QED BY <2>1
<1>10. kept \in [0 .. N -> Seq(E)]
  BY <1>3, <1>9
<1> QED BY <1>4, <1>5, <1>6, <1>10

LEMMA OnlyIsExact ==
  ASSUME NEW E, NEW q \in Seq(E), NEW S
  PROVE  /\ Only(q, S) \in Seq(E)
         /\ EntriesIn(Only(q, S)) = EntriesIn(q) \cap S
<1> DEFINE N == Len(q)
<1>1. N \in Nat /\ q \in [1 .. N -> E]
  OBVIOUS
<1>2. PICK kept \in [0 .. N -> Seq(E)] :
        /\ kept[0] = <<>> /\ Only(q, S) = kept[N]
        /\ \A n \in 1 .. N :
              kept[n] = IF q[n] \in S THEN Append(kept[n - 1], q[n]) ELSE kept[n - 1]
  BY OnlySteps
<1> HIDE DEF N
<1> DEFINE SoFar(n) == {q[i] : i \in {j \in 1 .. n : q[j] \in S}}
           Good == {n \in 0 .. N : EntriesIn(kept[n]) = SoFar(n)}
<1>3. 0 \in Good
  <2>1. EntriesIn(kept[0]) = {} /\ SoFar(0) = {}
    BY <1>2 DEF EntriesIn
  <2> HIDE DEF SoFar
  <2> QED BY <1>1, <2>1
<1>4. ASSUME NEW n \in 1 .. N, n - 1 \in Good PROVE n \in Good
  <2>1. n - 1 \in 0 .. N /\ n \in 0 .. N /\ q[n] \in E /\ kept[n - 1] \in Seq(E)
    BY <1>1
  <2>2. EntriesIn(kept[n - 1]) = SoFar(n - 1)
    BY <1>4
  <2>3. 1 .. n = (1 .. n - 1) \cup {n}
    BY <1>1
  <2>4. CASE q[n] \in S
    <3>1. kept[n] = Append(kept[n - 1], q[n])
      BY <1>2, <2>4
    <3>2. EntriesIn(kept[n]) = EntriesIn(kept[n - 1]) \cup {q[n]}
      BY <2>1, <3>1, AppendProperties DEF EntriesIn
    <3>3. SoFar(n) = SoFar(n - 1) \cup {q[n]}
      BY <2>3, <2>4
    <3> QED BY <2>1, <2>2, <3>2, <3>3
  <2>5. CASE q[n] \notin S
    <3>1. kept[n] = kept[n - 1]
      BY <1>2, <2>5
    <3>2. SoFar(n) = SoFar(n - 1)
      BY <2>3, <2>5
    <3> QED BY <2>1, <2>2, <3>1, <3>2
  <2> QED BY <2>4, <2>5
<1>5. EntriesIn(kept[N]) = SoFar(N)
  <2>1. \A n \in 0 .. N : n \in Good
    <3> HIDE DEF Good
    <3> QED BY <1>1, <1>3, <1>4, StepByStep
  <2>2. N \in 0 .. N
    BY <1>1
  <2> QED BY <2>1, <2>2
<1>6. SoFar(N) = EntriesIn(q) \cap S
  BY DEF EntriesIn, N
<1>7. kept[N] \in Seq(E)
  <2>1. N \in 0 .. N
    BY <1>1
  <2> QED BY <2>1
<1> QED BY <1>2, <1>5, <1>6, <1>7

(* The part is in the order of the whole. *)
Sorted(q) == \A i \in 1 .. Len(q) : \A k \in 1 .. Len(q) : i < k => IdLess(q[i].id, q[k].id)

LEMMA SortedAppend ==
  ASSUME NEW E, NEW q \in Seq(E), NEW x \in E, Sorted(q),
         \A y \in EntriesIn(q) : IdLess(y.id, x.id)
  PROVE  Sorted(Append(q, x))
<1> DEFINE r == Append(q, x)
<1>1. /\ Len(q) \in Nat /\ Len(r) = Len(q) + 1 /\ r[Len(q) + 1] = x
      /\ \A i \in 1 .. Len(q) : r[i] = q[i] /\ q[i] \in EntriesIn(q)
  BY AppendProperties DEF EntriesIn
<1> HIDE DEF r
<1> SUFFICES ASSUME NEW i \in 1 .. Len(q) + 1, NEW k \in 1 .. Len(q) + 1, i < k
             PROVE  IdLess(r[i].id, r[k].id)
  BY <1>1 DEF Sorted, r
<1>2. i \in 1 .. Len(q) /\ (k \in 1 .. Len(q) \/ k = Len(q) + 1)
  BY <1>1
<1>3. CASE k \in 1 .. Len(q)
  BY <1>1, <1>2, <1>3 DEF Sorted
<1>4. CASE k = Len(q) + 1
  BY <1>1, <1>2, <1>4
<1> QED BY <1>2, <1>3, <1>4

LEMMA OnlyIsSorted ==
  ASSUME NEW E, NEW q \in Seq(E), NEW S
  PROVE  Sorted(q) => Sorted(Only(q, S))
<1> DEFINE N == Len(q)
<1>1. N \in Nat /\ q \in [1 .. N -> E]
  OBVIOUS
<1>2. PICK kept \in [0 .. N -> Seq(E)] :
        /\ kept[0] = <<>> /\ Only(q, S) = kept[N]
        /\ \A n \in 1 .. N :
              kept[n] = IF q[n] \in S THEN Append(kept[n - 1], q[n]) ELSE kept[n - 1]
  BY OnlySteps
<1> HAVE Sorted(q)
<1>3. \A i \in 1 .. N : \A k \in 1 .. N : i < k => IdLess(q[i].id, q[k].id)
  BY DEF Sorted
<1> HIDE DEF N
<1> DEFINE Good == {n \in 0 .. N : /\ Sorted(kept[n])
                                   /\ EntriesIn(kept[n]) \subseteq {q[i] : i \in 1 .. n}}
<1>4. 0 \in Good
  <2>1. Sorted(kept[0]) /\ EntriesIn(kept[0]) = {}
    BY <1>2 DEF EntriesIn, Sorted
  <2> QED BY <1>1, <2>1
<1>5. ASSUME NEW n \in 1 .. N, n - 1 \in Good PROVE n \in Good
  <2>1. n - 1 \in 0 .. N /\ n \in 0 .. N /\ q[n] \in E /\ kept[n - 1] \in Seq(E)
    BY <1>1
  <2>2. Sorted(kept[n - 1]) /\ EntriesIn(kept[n - 1]) \subseteq {q[i] : i \in 1 .. n - 1}
    BY <1>5
  <2>3. {q[i] : i \in 1 .. n} = {q[i] : i \in 1 .. n - 1} \cup {q[n]}
    <3>1. 1 .. n = (1 .. n - 1) \cup {n}
      BY <1>1
    <3> QED BY <3>1
  <2>4. CASE q[n] \in S
    <3>1. kept[n] = Append(kept[n - 1], q[n])
      BY <1>2, <2>4
    <3>2. EntriesIn(kept[n]) = EntriesIn(kept[n - 1]) \cup {q[n]}
      BY <2>1, <3>1, AppendProperties DEF EntriesIn
    <3>3. \A y \in EntriesIn(kept[n - 1]) : IdLess(y.id, q[n].id)
      <4> SUFFICES ASSUME NEW i \in 1 .. n - 1 PROVE IdLess(q[i].id, q[n].id)
        BY <2>2
      <4>1. i \in 1 .. N /\ i < n
        BY <1>1
      <4> QED BY <1>3, <4>1
    <3>4. Sorted(kept[n])
      BY <2>1, <2>2, <3>1, <3>3, SortedAppend
    <3>5. EntriesIn(kept[n]) \subseteq {q[i] : i \in 1 .. n}
      BY <2>2, <2>3, <3>2
    <3> QED BY <2>1, <3>4, <3>5
  <2>5. CASE q[n] \notin S
    <3>1. kept[n] = kept[n - 1]
      BY <1>2, <2>5
    <3>2. EntriesIn(kept[n]) \subseteq {q[i] : i \in 1 .. n}
      BY <2>2, <2>3, <3>1
    <3> QED BY <2>1, <2>2, <3>1, <3>2
  <2> QED BY <2>4, <2>5
<1>6. Sorted(kept[N])
  <2>1. \A n \in 0 .. N : n \in Good
    <3> HIDE DEF Good
    <3> QED BY <1>1, <1>4, <1>5, StepByStep
  <2>2. N \in 0 .. N
    BY <1>1
  <2> QED BY <2>1, <2>2
<1> QED BY <1>2, <1>6

(* Sequences over a set are sequences over its supersets, and over the set   *)
(* of their own entries.                                                     *)
LEMMA SeqMonotone ==
  ASSUME NEW S, NEW T, S \subseteq T
  PROVE  Seq(S) \subseteq Seq(T)
<1> SUFFICES ASSUME NEW q \in Seq(S) PROVE q \in Seq(T)
  OBVIOUS
<1>1. Len(q) \in Nat /\ q = [i \in 1 .. Len(q) |-> q[i]] /\ \A i \in 1 .. Len(q) : q[i] \in T
  BY ElementOfSeq, LenProperties
<1> QED BY <1>1

LEMMA EntriesOfSeq ==
  ASSUME NEW T, NEW q \in Seq(T)
  PROVE  EntriesIn(q) \subseteq T /\ \A S : EntriesIn(q) \subseteq S => q \in Seq(S)
<1>1. Len(q) \in Nat /\ q = [i \in 1 .. Len(q) |-> q[i]] /\ \A i \in 1 .. Len(q) : q[i] \in T
  BY ElementOfSeq, LenProperties
<1>2. ASSUME NEW S, EntriesIn(q) \subseteq S PROVE q \in Seq(S)
  <2>1. \A i \in 1 .. Len(q) : q[i] \in S
    BY <1>2 DEF EntriesIn
  <2> QED BY <1>1, <2>1
<1> QED BY <1>1, <1>2 DEF EntriesIn

(* The entries of a part of a sequence. *)
LEMMA EntriesOfPart ==
  ASSUME NEW T, NEW q \in Seq(T), NEW first \in Nat, NEW last \in Int,
         \A i \in first .. last : i \in 1 .. Len(q)
  PROVE  /\ SubSeq(q, first, last) \in Seq(T)
         /\ EntriesIn(SubSeq(q, first, last)) = {q[i] : i \in first .. last}
<1> DEFINE part == SubSeq(q, first, last)
<1>1. \A i \in first .. last : q[i] \in T
  BY ElementOfSeq
<1>2. /\ part \in Seq(T)
      /\ Len(part) = IF first <= last THEN last - first + 1 ELSE 0
      /\ \A i \in 1 .. last - first + 1 : part[i] = q[first + i - 1]
  BY <1>1, SubSeqProperties
<1> HIDE DEF part
<1>3. \A i \in 1 .. Len(part) : first + i - 1 \in first .. last /\ part[i] = q[first + i - 1]
  <2> TAKE i \in 1 .. Len(part)
  <2>1. first <= last /\ Len(part) = last - first + 1
    BY <1>2
  <2>2. i \in 1 .. last - first + 1
    BY <2>1
  <2> QED BY <1>2, <2>2
<1>4. ASSUME NEW i \in first .. last
      PROVE  i - first + 1 \in 1 .. Len(part) /\ part[i - first + 1] = q[i]
  <2>1. i - first + 1 \in 1 .. last - first + 1 /\ first + (i - first + 1) - 1 = i /\ first <= last
    OBVIOUS
  <2> QED BY <1>2, <2>1
<1>5. EntriesIn(part) = {q[i] : i \in first .. last}
  <2>1. EntriesIn(part) \subseteq {q[i] : i \in first .. last}
    BY <1>3 DEF EntriesIn
  <2>2. {q[i] : i \in first .. last} \subseteq EntriesIn(part)
    BY <1>4 DEF EntriesIn
  <2> QED BY <2>1, <2>2
<1> QED BY <1>2, <1>5 DEF part

(* The entries of two sequences, one after the other. *)
LEMMA EntriesOfConcat ==
  ASSUME NEW E, NEW a \in Seq(E), NEW b \in Seq(E)
  PROVE  EntriesIn(a \o b) = EntriesIn(a) \cup EntriesIn(b)
<1> DEFINE m == Len(a)
           n == Len(b)
<1>1. /\ m \in Nat /\ n \in Nat /\ Len(a \o b) = m + n
      /\ \A i \in 1 .. m : (a \o b)[i] = a[i]
      /\ \A i \in 1 .. n : (a \o b)[m + i] = b[i]
  BY ConcatProperties
<1> HIDE DEF m, n
<1>2. ASSUME NEW x \in EntriesIn(a \o b) PROVE x \in EntriesIn(a) \cup EntriesIn(b)
  <2>1. PICK k \in 1 .. m + n : x = (a \o b)[k]
    BY <1>1 DEF EntriesIn
  <2>2. CASE k \in 1 .. m
    BY <1>1, <2>1, <2>2 DEF EntriesIn, m
  <2>3. CASE k \notin 1 .. m
    <3>1. k - m \in 1 .. n /\ m + (k - m) = k
      BY <1>1, <2>1, <2>3
    <3>2. x = b[k - m]
      BY <1>1, <2>1, <3>1
    <3> QED BY <3>1, <3>2 DEF EntriesIn, n
  <2> QED BY <2>2, <2>3
<1>3. ASSUME NEW x \in EntriesIn(a) PROVE x \in EntriesIn(a \o b)
  <2>1. PICK k \in 1 .. m : x = a[k]
    BY DEF EntriesIn, m
  <2>2. k \in 1 .. m + n /\ x = (a \o b)[k]
    BY <1>1, <2>1
  <2> QED BY <1>1, <2>2 DEF EntriesIn
<1>4. ASSUME NEW x \in EntriesIn(b) PROVE x \in EntriesIn(a \o b)
  <2>1. PICK k \in 1 .. n : x = b[k]
    BY DEF EntriesIn, n
  <2>2. m + k \in 1 .. m + n /\ x = (a \o b)[m + k]
    BY <1>1, <2>1
  <2> QED BY <1>1, <2>2 DEF EntriesIn
<1> QED BY <1>2, <1>3, <1>4

-----------------------------------------------------------------------------
(* The parts of a stream, and what XADD and trimming make of it. *)
LEMMA StreamParts ==
  ASSUME NEW E, NEW stream \in StreamsOf(E)
  PROVE  /\ stream.entries \in Seq([id : Ids, event : E])
         /\ Len(stream.entries) \in Nat
         /\ \A i \in 1 .. Len(stream.entries) :
               stream.entries[i].id \in Ids /\ stream.entries[i].event \in E
<1>1. stream.entries \in Seq([id : Ids, event : E])
  BY DEF StreamsOf, EntriesOf
<1>2. Len(stream.entries) \in Nat
  BY <1>1
<1>3. \A i \in 1 .. Len(stream.entries) : stream.entries[i] \in [id : Ids, event : E]
  BY <1>1, ElementOfSeq
<1> QED BY <1>1, <1>2, <1>3

(* Trimming drops the first entries of a stream, none below the limit. *)
LEMMA TrimDropsOldest ==
  ASSUME NEW E, NEW stream \in StreamsOf(E), NEW limit \in Nat \ {0},
         NEW trimmed \in Trims(stream, limit)
  PROVE  /\ trimmed \in StreamsOf(E) /\ trimmed.last = stream.last
         /\ \E k \in 0 .. Len(stream.entries) :
              /\ Len(trimmed.entries) = Len(stream.entries) - k
              /\ \A i \in 1 .. Len(stream.entries) - k :
                    trimmed.entries[i] = stream.entries[k + i]
              /\ k # 0 => Len(stream.entries) - k >= limit
<1> DEFINE e == stream.entries
           n == Len(stream.entries)
<1>1. e \in Seq([id : Ids, event : E]) /\ n \in Nat
  BY StreamParts
<1>2. PICK k \in 0 .. (IF n > limit THEN n - limit ELSE 0) :
         trimmed = [stream EXCEPT !.entries = SubSeq(e, k + 1, n)]
  BY DEF Trims
<1>3. k \in 0 .. n /\ (k # 0 => n - k >= limit)
  BY <1>1, <1>2
<1>4. trimmed.entries = SubSeq(e, k + 1, n) /\ trimmed.last = stream.last
  BY <1>2 DEF StreamsOf
<1>5. /\ SubSeq(e, k + 1, n) \in Seq([id : Ids, event : E])
      /\ Len(SubSeq(e, k + 1, n)) = n - k
      /\ \A i \in 1 .. n - k : SubSeq(e, k + 1, n)[i] = e[k + i]
  <2> HIDE DEF e, n
  <2>1. k + 1 \in Int /\ n \in Int /\ \A i \in k + 1 .. n : i \in 1 .. n
    BY <1>1, <1>3
  <2>2. \A i \in k + 1 .. n : e[i] \in [id : Ids, event : E]
    BY <1>1, <2>1, ElementOfSeq DEF e, n
  <2>3. /\ SubSeq(e, k + 1, n) \in Seq([id : Ids, event : E])
        /\ Len(SubSeq(e, k + 1, n)) = IF k + 1 <= n THEN n - (k + 1) + 1 ELSE 0
        /\ \A i \in 1 .. n - (k + 1) + 1 : SubSeq(e, k + 1, n)[i] = e[k + 1 + i - 1]
    BY <2>1, <2>2, SubSeqProperties
  <2> QED BY <1>1, <1>3, <2>3
<1>6. trimmed \in StreamsOf(E)
  BY <1>2, <1>4, <1>5 DEF StreamsOf, EntriesOf
<1> QED BY <1>3, <1>4, <1>5, <1>6

(* Trimming keeps the type of a stream and its newest entry, and drops       *)
(* nothing below the limit.                                                  *)
LEMMA TrimKeeps ==
  ASSUME NEW E, NEW stream \in StreamsOf(E), NEW limit \in Nat \ {0},
         NEW trimmed \in Trims(stream, limit)
  PROVE  /\ trimmed \in StreamsOf(E)
         /\ EntriesIn(trimmed.entries) \subseteq EntriesIn(stream.entries)
         /\ Len(stream.entries) # 0 =>
              stream.entries[Len(stream.entries)] \in EntriesIn(trimmed.entries)
         /\ \/ trimmed.entries = stream.entries
            \/ Len(trimmed.entries) >= limit
<1> DEFINE e == stream.entries
           n == Len(stream.entries)
<1>1. e \in Seq([id : Ids, event : E]) /\ n \in Nat
  BY StreamParts
<1>2. PICK k \in 0 .. n :
        /\ Len(trimmed.entries) = n - k
        /\ \A i \in 1 .. n - k : trimmed.entries[i] = e[k + i]
        /\ k # 0 => n - k >= limit
  BY TrimDropsOldest
<1>3. trimmed \in StreamsOf(E)
  BY TrimDropsOldest
<1>4. trimmed.entries \in Seq([id : Ids, event : E])
  BY <1>3, StreamParts
<1> HIDE DEF e, n
<1>5. EntriesIn(trimmed.entries) \subseteq EntriesIn(e)
  <2> SUFFICES ASSUME NEW y \in EntriesIn(trimmed.entries) PROVE y \in EntriesIn(e)
    OBVIOUS
  <2>1. PICK i \in 1 .. n - k : y = trimmed.entries[i]
    BY <1>2 DEF EntriesIn
  <2>2. k + i \in 1 .. n /\ y = e[k + i]
    BY <1>1, <1>2, <2>1
  <2> QED BY <2>2 DEF EntriesIn, e, n
<1>6. \/ trimmed.entries = e
      \/ Len(trimmed.entries) >= limit
  <2>1. CASE k = 0
    <3>1. Len(trimmed.entries) = n /\ \A i \in 1 .. n : trimmed.entries[i] = e[i]
      BY <1>1, <1>2, <2>1
    <3>2. Len(e) = n /\ e \in Seq([id : Ids, event : E])
      BY <1>1 DEF e, n
    <3> QED BY <1>1, <1>4, <3>1, <3>2, SeqEqual
  <2>2. CASE k # 0
    BY <1>2, <2>2
  <2> QED BY <2>1, <2>2
<1>7. ASSUME n # 0 PROVE e[n] \in EntriesIn(trimmed.entries)
  <2>1. k # n
    BY <1>1, <1>2, <1>7
  <2>2. n - k \in 1 .. n - k /\ k + (n - k) = n
    BY <1>1, <1>2, <2>1
  <2>3. trimmed.entries[n - k] = e[n] /\ n - k \in 1 .. Len(trimmed.entries)
    BY <1>2, <2>2
  <2> QED BY <2>3 DEF EntriesIn
<1> QED BY <1>3, <1>5, <1>6, <1>7 DEF e, n

(* What is left after trimming is in order. *)
LEMMA TrimKeepsOrder ==
  ASSUME NEW E, NEW stream \in StreamsOf(E), InOrder(stream), NEW limit \in Nat \ {0},
         NEW trimmed \in Trims(stream, limit)
  PROVE  InOrder(trimmed) /\ trimmed.last = stream.last
<1> DEFINE e == stream.entries
           n == Len(stream.entries)
<1>1. n \in Nat
  BY StreamParts
<1>2. PICK k \in 0 .. n :
        /\ Len(trimmed.entries) = n - k
        /\ \A i \in 1 .. n - k : trimmed.entries[i] = e[k + i]
  BY TrimDropsOldest
<1>3. trimmed.last = stream.last
  BY TrimDropsOldest
<1>4. /\ \A i \in 1 .. n : IdLeq(e[i].id, stream.last)
      /\ \A i \in 1 .. n : \A j \in 1 .. i - 1 : IdLess(e[j].id, e[i].id)
  BY DEF InOrder
<1> HIDE DEF e, n
<1>5. ASSUME NEW i \in 1 .. n - k PROVE IdLeq(trimmed.entries[i].id, stream.last)
  <2>1. k + i \in 1 .. n
    BY <1>1, <1>2
  <2> QED BY <1>2, <1>4, <2>1
<1>6. ASSUME NEW i \in 1 .. n - k, NEW j \in 1 .. i - 1
      PROVE  IdLess(trimmed.entries[j].id, trimmed.entries[i].id)
  <2>1. k + i \in 1 .. n /\ k + j \in 1 .. (k + i) - 1 /\ j \in 1 .. n - k
    BY <1>1, <1>2
  <2>2. IdLess(e[k + j].id, e[k + i].id)
    BY <1>4, <2>1
  <2> QED BY <1>2, <2>1, <2>2
<1> QED BY <1>2, <1>3, <1>5, <1>6 DEF InOrder

(* The entries below the ID that follows `id' are those up to `id'. *)
LEMMA BelowNextIsUpTo ==
  ASSUME NEW E, NEW stream \in StreamsOf(E), NEW id \in Ids
  PROVE  CountBelow(stream, <<id[1], id[2] + 1>>) = CountUpTo(stream, id)
<1> DEFINE e == stream.entries
<1>1. ASSUME NEW a \in Ids PROVE IdLess(a, <<id[1], id[2] + 1>>) <=> IdLeq(a, id)
  <2>1. PICK a1 \in Nat, a2 \in Nat : a = <<a1, a2>>
    BY DEF Ids
  <2>2. PICK b1 \in Nat, b2 \in Nat : id = <<b1, b2>>
    BY DEF Ids
  <2> QED BY <2>1, <2>2 DEF IdLess, IdLeq
<1>2. \A i \in 1 .. Len(e) : e[i].id \in Ids
  BY StreamParts
<1>3. {i \in 1 .. Len(e) : IdLess(e[i].id, <<id[1], id[2] + 1>>)}
        = {i \in 1 .. Len(e) : IdLeq(e[i].id, id)}
  BY <1>1, <1>2
<1> QED BY <1>3 DEF CountBelow, CountUpTo

NewEntry(stream, t, event) == [id |-> NewId(stream, t), event |-> event]

LEMMA AddedEntries ==
  ASSUME NEW E, NEW stream \in StreamsOf(E), NEW t \in Nat, NEW event \in E
  PROVE  /\ EntriesIn(XAdd(stream, t, event).entries) =
              EntriesIn(stream.entries) \cup {NewEntry(stream, t, event)}
         /\ Len(XAdd(stream, t, event).entries) = Len(stream.entries) + 1
         /\ XAdd(stream, t, event).entries[Len(stream.entries) + 1] = NewEntry(stream, t, event)
<1> DEFINE x == NewEntry(stream, t, event)
<1>1. stream.entries \in Seq([id : Ids, event : E]) /\ Len(stream.entries) \in Nat
  BY StreamParts
<1>2. x \in [id : Ids, event : E]
  BY NewIdIsGreater DEF StreamsOf, NewEntry
<1>3. XAdd(stream, t, event).entries = Append(stream.entries, x)
  BY DEF XAdd, NewEntry
<1> HIDE DEF x
<1>4. /\ Len(Append(stream.entries, x)) = Len(stream.entries) + 1
      /\ \A i \in 1 .. Len(stream.entries) : Append(stream.entries, x)[i] = stream.entries[i]
      /\ Append(stream.entries, x)[Len(stream.entries) + 1] = x
  BY <1>1, <1>2, AppendProperties
<1>5. EntriesIn(Append(stream.entries, x)) = EntriesIn(stream.entries) \cup {x}
  BY <1>1, <1>4 DEF EntriesIn
<1> QED BY <1>3, <1>4, <1>5 DEF x

(* What XADD with trimming leaves of a stream: some of its entries, and the  *)
(* new one.                                                                  *)
LEMMA TrimmedAdd ==
  ASSUME NEW E, NEW stream \in StreamsOf(E), NEW t \in Nat, NEW event \in E,
         NEW limit \in Nat \ {0}, NEW trimmed \in Trims(XAdd(stream, t, event), limit)
  PROVE  /\ trimmed \in StreamsOf(E)
         /\ NewEntry(stream, t, event) \in EntriesIn(trimmed.entries)
         /\ EntriesIn(trimmed.entries) \subseteq
              EntriesIn(stream.entries) \cup {NewEntry(stream, t, event)}
         /\ \/ trimmed.entries = XAdd(stream, t, event).entries
            \/ Len(trimmed.entries) >= limit
<1>1. XAdd(stream, t, event) \in StreamsOf(E)
  BY AddKeepsType
<1>2. /\ EntriesIn(XAdd(stream, t, event).entries) =
            EntriesIn(stream.entries) \cup {NewEntry(stream, t, event)}
      /\ Len(XAdd(stream, t, event).entries) = Len(stream.entries) + 1
      /\ XAdd(stream, t, event).entries[Len(stream.entries) + 1] = NewEntry(stream, t, event)
  BY AddedEntries
<1>3. Len(stream.entries) \in Nat
  BY StreamParts
<1>4. /\ trimmed \in StreamsOf(E)
      /\ EntriesIn(trimmed.entries) \subseteq EntriesIn(XAdd(stream, t, event).entries)
      /\ Len(XAdd(stream, t, event).entries) # 0 =>
            XAdd(stream, t, event).entries[Len(XAdd(stream, t, event).entries)]
              \in EntriesIn(trimmed.entries)
      /\ \/ trimmed.entries = XAdd(stream, t, event).entries
         \/ Len(trimmed.entries) >= limit
  BY <1>1, TrimKeeps
<1> QED BY <1>2, <1>3, <1>4

-----------------------------------------------------------------------------
(* Bags of elements of S. *)
BagsOf(S) == UNION {[D -> Nat \ {0}] : D \in SUBSET S}

LEMMA BagAdded ==
  ASSUME NEW S, NEW B \in BagsOf(S), NEW x \in S
  PROVE  /\ B (+) SetToBag({x}) \in BagsOf(S)
         /\ DOMAIN (B (+) SetToBag({x})) = DOMAIN B \cup {x}
<1>1. PICK D \in SUBSET S : B \in [D -> Nat \ {0}]
  BY DEF BagsOf
<1>2. B (+) SetToBag({x}) =
        [e \in D \cup {x} |-> (IF e \in D THEN B[e] ELSE 0) + (IF e \in {x} THEN 1 ELSE 0)]
  BY <1>1 DEF (+), SetToBag
<1>3. \A e \in D \cup {x} :
         (IF e \in D THEN B[e] ELSE 0) + (IF e \in {x} THEN 1 ELSE 0) \in Nat \ {0}
  BY <1>1
<1>4. B (+) SetToBag({x}) \in [D \cup {x} -> Nat \ {0}]
  BY <1>2, <1>3
<1> QED BY <1>1, <1>2, <1>4 DEF BagsOf

LEMMA BagReduced ==
  ASSUME NEW S, NEW B \in BagsOf(S), NEW x
  PROVE  /\ B (-) SetToBag({x}) \in BagsOf(S)
         /\ DOMAIN B \ {x} \subseteq DOMAIN (B (-) SetToBag({x}))
         /\ DOMAIN (B (-) SetToBag({x})) \subseteq DOMAIN B
<1>1. PICK D \in SUBSET S : B \in [D -> Nat \ {0}]
  BY DEF BagsOf
<1> DEFINE C == [e \in D |-> IF e \in {x} THEN B[e] - 1 ELSE B[e]]
           K == {e \in D : C[e] > 0}
<1>2. B (-) SetToBag({x}) = [e \in K |-> C[e]]
  BY <1>1 DEF (-), SetToBag
<1>3. \A e \in D : C[e] \in Int /\ (e # x => C[e] > 0)
  BY <1>1
<1> HIDE DEF C
<1>4. \A e \in K : C[e] \in Nat \ {0}
  BY <1>3
<1>5. K \subseteq D /\ D \ {x} \subseteq K
  BY <1>3
<1> HIDE DEF K
<1>6. B (-) SetToBag({x}) \in [K -> Nat \ {0}]
  BY <1>2, <1>4
<1> QED BY <1>1, <1>2, <1>5, <1>6 DEF BagsOf

LEMMA NoBag == ASSUME NEW S PROVE EmptyBag \in BagsOf(S) /\ DOMAIN EmptyBag = {}
<1>1. EmptyBag \in [{} -> Nat \ {0}]
  BY DEF EmptyBag, SetToBag
<1> QED BY <1>1 DEF BagsOf
=============================================================================
