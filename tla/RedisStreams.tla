---------------------------- MODULE RedisStreams ----------------------------
(***************************************************************************)
(* The Redis streams the asynchronous-query pipeline communicates through. *)
(* Redis is not part of the repository: these operators say what the code  *)
(* expects of XADD, XRANGE and XREAD.  An entry ID is a pair               *)
(* <<milliseconds, sequence>>, ordered lexicographically; the `*' of XADD  *)
(* takes the server's clock, never less than the stream's last ID.         *)
(***************************************************************************)
EXTENDS Integers, Sequences, FiniteSets

CONSTANTS Dollar,   \* the ID `$': the last ID at the moment the command is served
          Plus      \* the ID `+': greater than every ID

Ids == Nat \X Nat

ASSUME RedisStreamsAssumption == Dollar \notin Ids /\ Plus \notin Ids

IdLess(a, b) == a[1] < b[1] \/ (a[1] = b[1] /\ a[2] < b[2])
IdLeq(a, b)  == a = b \/ IdLess(a, b)

(* An empty stream: no entry, and the last ID is 0-0. *)
EmptyStream == [last |-> <<0, 0>>, entries |-> <<>>]

(* XADD key * : the ID given to a new entry when the clock reads `now'. *)
NewId(stream, now) ==
  IF now > stream.last[1] THEN <<now, 0>>
                          ELSE <<stream.last[1], stream.last[2] + 1>>

XAdd(stream, now, event) ==
  [last    |-> NewId(stream, now),
   entries |-> Append(stream.entries, [id |-> NewId(stream, now), event |-> event])]

(* The entries are in the order of their IDs, up to the last ID given. *)
InOrder(stream) ==
  LET e == stream.entries IN
  \A i \in 1 .. Len(e) : /\ IdLeq(e[i].id, stream.last)
                         /\ \A j \in 1 .. i - 1 : IdLess(e[j].id, e[i].id)

(* MAXLEN ~ limit: Redis may drop the oldest entries but keeps at least `limit'. *)
Trims(stream, limit) ==
  LET n == Len(stream.entries)
  IN  {[stream EXCEPT !.entries = SubSeq(@, k + 1, n)] :
          k \in 0 .. (IF n > limit THEN n - limit ELSE 0)}

(* The entries of a stream are in the order of their IDs, so a range of IDs  *)
(* is a run of consecutive entries.                                          *)
CountBelow(stream, id) ==
  Cardinality({i \in 1 .. Len(stream.entries) : IdLess(stream.entries[i].id, id)})
CountUpTo(stream, id) ==
  Cardinality({i \in 1 .. Len(stream.entries) : IdLeq(stream.entries[i].id, id)})

(* XRANGE key from to, both ends inclusive. *)
XRange(stream, from, to) ==
  SubSeq(stream.entries, CountBelow(stream, from) + 1,
         IF to = Plus THEN Len(stream.entries) ELSE CountUpTo(stream, to))

(* The entries of a sequence, and those after one ID, up to another. *)
EntriesIn(entries) == {entries[i] : i \in 1 .. Len(entries)}
Between(stream, after, upTo) ==
  {x \in EntriesIn(stream.entries) : IdLess(after, x.id) /\ IdLeq(x.id, upTo)}

(* The entries of a sequence that are in S, in their order.                  *)
Only(entries, S) ==
  LET kept[n \in 0 .. Len(entries)] ==
        IF n = 0 THEN <<>>
        ELSE IF entries[n] \in S THEN Append(kept[n - 1], entries[n]) ELSE kept[n - 1]
  IN  kept[Len(entries)]

(* XREAD COUNT n STREAMS key after. *)
XRead(stream, after, n) ==
  LET k == CountUpTo(stream, after)
  IN  SubSeq(stream.entries, k + 1,
             IF Len(stream.entries) < k + n THEN Len(stream.entries) ELSE k + n)
=============================================================================
