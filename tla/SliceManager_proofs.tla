---------------------- MODULE SliceManager_proofs ----------------------
(***************************************************************************)
(* What add_slice, remove_slice and recv_slice do to the ranges of a       *)
(* message, for every message and every slice: the facts that the proofs   *)
(* about MessageTransfer and Reassembly share.                             *)
(***************************************************************************)
EXTENDS SliceManager, NaturalsInduction, WellFoundedInduction, TLAPS

(* Ranges of a message of n bytes, as a function. *)
Ranges(slices, n) ==
  /\ slices = [s \in DOMAIN slices |-> slices[s]]
  /\ \A s \in DOMAIN slices : s \in Nat /\ slices[s] \in Nat /\ slices[s] < n

(* What from_vec and ack leave of a message of n bytes: a tail of it. *)
IsTail(slices, n) ==
  \/ n = 0 /\ slices = NoSlices
  \/ \E a \in 0..(n - 1) : slices = [s \in {a} |-> n - 1]

IsBuffer(buf, n) ==
  /\ buf = [size |-> buf.size, slices |-> buf.slices, data |-> buf.data]
  /\ buf.size = n
  /\ Ranges(buf.slices, n)

(* The parts of add_slice: the end of the joined range, the ranges its     *)
(* first loop leaves, those of them to the left, and the last of these.    *)
NewEnd(slices, start, end) ==
  Max({end} \cup {slices[s] : s \in Swallowed(slices, start, end)})
Rest(slices, start, end) == Without(slices, Swallowed(slices, start, end))
Before(slices, start, end) == {s \in DOMAIN Rest(slices, start, end) : s < start}
Prev(slices, start, end) == Max(Before(slices, start, end))

-----------------------------------------------------------------------------
(* Facts about the operators. *)

(* A set of numbers has a least element. *)
LEMMA MinInSet ==
  ASSUME NEW S \in SUBSET Nat, S # {}
  PROVE  Min(S) \in S /\ \A y \in S : Min(S) <= y
<1> DEFINE Less == {ss \in Nat \X Nat : ss[1] < ss[2]}
<1>1. IsWellFoundedOn(Less, Nat)
  BY NatLessThanWellFounded, Zenon DEF OpToRel
<1> HIDE DEF Less
<1>2. \E x \in S : \A y \in S : ~(<<y, x>> \in Less)
  BY <1>1, WFMin, Zenon
<1>3. \A x, y \in Nat : y < x => <<y, x>> \in Less
  BY DEF Less
<1>4. PICK x \in S : \A y \in S : ~(<<y, x>> \in Less)
  BY <1>2
<1>5. ASSUME NEW y \in S PROVE x <= y
  <2>1. x \in Nat /\ y \in Nat /\ ~(y < x)
    BY <1>3, <1>4
  <2>2. QED
    BY <2>1
<1>6. QED
  BY <1>5 DEF Min

LEMMA MinOfPair ==
  ASSUME NEW a \in Int, NEW b \in Int
  PROVE  Min({a, b}) = IF a <= b THEN a ELSE b
<1> DEFINE least == IF a <= b THEN a ELSE b
<1>1. least \in {a, b} /\ \A y \in {a, b} : least <= y
  OBVIOUS
<1>2. \A x \in {a, b} : (\A y \in {a, b} : x <= y) => x = least
  OBVIOUS
<1>3. QED
  BY <1>1, <1>2 DEF Min

(* A bounded set of numbers has a greatest element. *)
LEMMA MaxInSet ==
  ASSUME NEW b \in Nat, NEW S \in SUBSET (0..b), S # {}
  PROVE  Max(S) \in S /\ \A y \in S : y <= Max(S)
<1> DEFINE T == {b - x : x \in S}
<1>1. T \in SUBSET Nat
  OBVIOUS
<1>2. Min(T) \in T /\ \A t \in T : Min(T) <= t
  <2>1. T # {}
    BY Zenon
  <2> HIDE DEF T
  <2>2. QED
    BY <1>1, <2>1, MinInSet
<1>3. PICK x \in S : Min(T) = b - x
  BY <1>2, Zenon
<1>4. \A y \in S : y <= x
  <2> SUFFICES ASSUME NEW y \in S PROVE y <= x
    OBVIOUS
  <2>1. b - y \in T /\ x \in 0..b /\ y \in 0..b
    OBVIOUS
  <2>2. Min(T) <= b - y
    BY <1>2, <2>1
  <2> HIDE DEF T
  <2>3. QED
    BY <1>3, <2>1, <2>2
<1>5. x \in S /\ \A y \in S : x >= y
  BY <1>4
<1> HIDE DEF T
<1>6. Max(S) \in S /\ \A y \in S : Max(S) >= y
  BY <1>5, Zenon DEF Max
<1>7. QED
  <2> SUFFICES ASSUME NEW y \in S PROVE y <= Max(S)
    BY <1>6
  <2>1. Max(S) >= y /\ Max(S) \in 0..b /\ y \in 0..b
    BY <1>6, Zenon
  <2>2. QED
    BY <2>1

(* The end of the joined range. *)
LEMMA NewEndOf ==
  ASSUME NEW n \in Nat, NEW slices, Ranges(slices, n),
         NEW start \in Nat, NEW end \in Nat, start <= end, end < n
  PROVE  LET gone == Swallowed(slices, start, end)
             newEnd == NewEnd(slices, start, end)
         IN  /\ gone \subseteq DOMAIN slices /\ \A s \in gone : s >= start
             /\ newEnd \in Nat /\ newEnd < n /\ newEnd >= end
             /\ \A s \in gone : slices[s] <= newEnd
             /\ newEnd = end \/ \E s \in gone : newEnd = slices[s]
<1> DEFINE gone == Swallowed(slices, start, end)
           ends == {end} \cup {slices[s] : s \in gone}
           newEnd == NewEnd(slices, start, end)
<1>1. \A s \in DOMAIN slices : s \in Nat /\ slices[s] \in Nat /\ slices[s] < n
  BY DEF Ranges
<1>2. gone \subseteq DOMAIN slices /\ \A s \in gone : s >= start
  BY DEF Swallowed
<1>3. newEnd = Max(ends)
  BY DEF NewEnd
<1> HIDE DEF gone
<1>4. ends \in SUBSET (0..(n - 1)) /\ end \in ends /\ n - 1 \in Nat
  BY <1>1, <1>2
<1>5. \A s \in gone : slices[s] \in ends
  OBVIOUS
<1>6. \A y \in ends : y = end \/ \E s \in gone : y = slices[s]
  OBVIOUS
<1> HIDE DEF ends, newEnd
<1>7. newEnd \in ends /\ \A y \in ends : y <= newEnd
  BY <1>3, <1>4, MaxInSet, Zenon
<1>8. newEnd \in 0..(n - 1) /\ end <= newEnd
  BY <1>4, <1>7
<1>9. \A s \in gone : slices[s] <= newEnd
  BY <1>5, <1>7
<1>10. QED
  BY <1>2, <1>6, <1>7, <1>8, <1>9 DEF gone, newEnd

LEMMA AddSliceSteps ==
  ASSUME NEW n \in Nat, NEW slices, Ranges(slices, n),
         NEW start \in Nat, NEW end \in Nat, start <= end, end < n
  PROVE  LET gone == Swallowed(slices, start, end)
             newEnd == NewEnd(slices, start, end)
             rest == Rest(slices, start, end)
             before == Before(slices, start, end)
             prev == Prev(slices, start, end)
         IN  /\ gone \subseteq DOMAIN slices /\ \A s \in gone : s >= start
             /\ start \in DOMAIN slices => start \in gone
             /\ newEnd \in Nat /\ newEnd < n /\ newEnd >= end
             /\ \A s \in gone : slices[s] <= newEnd
             /\ rest = [s \in DOMAIN rest |-> rest[s]]
             /\ DOMAIN rest = DOMAIN slices \ gone
             /\ \A s \in DOMAIN rest : rest[s] = slices[s]
             /\ before = {s \in DOMAIN rest : s < start}
             /\ before # {} => prev \in before /\ \A s \in before : s <= prev
             /\ AddSlice(slices, start, end) =
                  IF before # {} /\ rest[prev] >= newEnd THEN rest
                  ELSE IF before # {} /\ rest[prev] >= start - 1
                       THEN [rest EXCEPT ![prev] = newEnd]
                       ELSE With(rest, start, newEnd)
<1> DEFINE gone == Swallowed(slices, start, end)
           newEnd == NewEnd(slices, start, end)
           rest == Rest(slices, start, end)
           before == Before(slices, start, end)
           prev == Prev(slices, start, end)
<1>1. \A s \in DOMAIN slices : s \in Nat /\ slices[s] \in Nat /\ slices[s] < n
  BY DEF Ranges
<1>2. gone \subseteq DOMAIN slices /\ \A s \in gone : s >= start
  BY DEF Swallowed
<1>3. start \in DOMAIN slices => start \in gone
  <2> SUFFICES ASSUME start \in DOMAIN slices PROVE start \in gone
    OBVIOUS
  <2> DEFINE right == {s \in DOMAIN slices : s >= start}
             beyond == {s \in right : slices[s] > end}
  <2>1. start \in right /\ beyond \in SUBSET Nat
    BY <1>1
  <2>2. CASE beyond = {}
    BY <2>1, <2>2 DEF Swallowed
  <2>3. CASE beyond # {}
    <3>1. Min(beyond) \in beyond
      BY <2>1, <2>3, MinInSet
    <3>2. start <= Min(beyond)
      BY <3>1, <1>1
    <3>3. gone = {s \in right : s <= Min(beyond)}
      BY <2>3 DEF Swallowed
    <3>4. QED
      BY <2>1, <3>2, <3>3
  <2>4. QED
    BY <2>2, <2>3
<1>4. newEnd \in Nat /\ newEnd < n /\ newEnd >= end /\ \A s \in gone : slices[s] <= newEnd
  BY NewEndOf
<1> HIDE DEF gone, newEnd
<1>5. /\ rest = [s \in DOMAIN rest |-> rest[s]]
      /\ DOMAIN rest = DOMAIN slices \ gone
      /\ \A s \in DOMAIN rest : rest[s] = slices[s]
  BY DEF Rest, Without, gone
<1>6. before = {s \in DOMAIN rest : s < start}
  BY DEF Before
<1> HIDE DEF rest, before
<1>7. before # {} => prev \in before /\ \A s \in before : s <= prev
  <2>1. before \in SUBSET (0..start)
    BY <1>1, <1>5, <1>6
  <2>2. prev = Max(before)
    BY DEF Prev, before
  <2>3. QED
    BY <2>1, <2>2, MaxInSet
<1> HIDE DEF prev
<1>8. AddSlice(slices, start, end) =
        IF before # {} /\ rest[prev] >= newEnd THEN rest
        ELSE IF before # {} /\ rest[prev] >= start - 1
             THEN [rest EXCEPT ![prev] = newEnd]
             ELSE With(rest, start, newEnd)
  BY DEF AddSlice, newEnd, NewEnd, rest, Rest, before, Before, prev, Prev
<1>9. QED
  BY <1>2, <1>3, <1>4, <1>5, <1>6, <1>7, <1>8 DEF gone, newEnd, rest, before, prev

(* What a later state of the receiver's ranges keeps of an earlier one. *)
Grows(old, new) ==
  /\ Span(old) \subseteq Span(new)
  /\ LastHeadIndex(old) <= LastHeadIndex(new)

(* add_slice forgets no byte, records the slice, and the first range never *)
(* ends earlier.                                                           *)
LEMMA AddSliceGrows ==
  ASSUME NEW n \in Nat, NEW slices, Ranges(slices, n),
         NEW start \in Nat, NEW end \in Nat, start <= end, end < n
  PROVE  /\ Ranges(AddSlice(slices, start, end), n)
         /\ Grows(slices, AddSlice(slices, start, end))
         /\ start..end \subseteq Span(AddSlice(slices, start, end))
<1> DEFINE gone == Swallowed(slices, start, end)
           newEnd == NewEnd(slices, start, end)
           rest == Rest(slices, start, end)
           before == Before(slices, start, end)
           prev == Prev(slices, start, end)
           new == AddSlice(slices, start, end)
<1>1. \A s \in DOMAIN slices : s \in Nat /\ slices[s] \in Nat /\ slices[s] < n
  BY DEF Ranges
<1>2. gone \subseteq DOMAIN slices /\ \A s \in gone : s >= start
  BY AddSliceSteps
<1>3. start \in DOMAIN slices => start \in gone
  BY AddSliceSteps
<1>4. newEnd \in Nat /\ newEnd < n /\ newEnd >= end /\ \A s \in gone : slices[s] <= newEnd
  BY AddSliceSteps
<1>5. /\ rest = [s \in DOMAIN rest |-> rest[s]]
      /\ DOMAIN rest = DOMAIN slices \ gone
      /\ \A s \in DOMAIN rest : rest[s] = slices[s]
  BY DEF Rest, Without
<1>6. before # {} => prev \in DOMAIN rest /\ prev < start
  BY AddSliceSteps
<1>7. new = IF before # {} /\ rest[prev] >= newEnd THEN rest
            ELSE IF before # {} /\ rest[prev] >= start - 1
                 THEN [rest EXCEPT ![prev] = newEnd]
                 ELSE With(rest, start, newEnd)
  BY AddSliceSteps
<1> HIDE DEF gone, newEnd, rest, before, prev, new
<1>8. /\ Ranges(new, n)
      /\ \A s \in DOMAIN slices \ gone : s \in DOMAIN new /\ slices[s] <= new[s]
      /\ \E k \in DOMAIN new : k <= start /\ newEnd <= new[k]
  <2>1. CASE before # {} /\ rest[prev] >= newEnd
    <3>1. new = rest
      BY <1>7, <2>1
    <3>2. QED
      BY <1>1, <1>4, <1>5, <1>6, <2>1, <3>1 DEF Ranges
  <2>2. CASE before # {} /\ ~(rest[prev] >= newEnd) /\ rest[prev] >= start - 1
    <3>1. new = [rest EXCEPT ![prev] = newEnd]
      BY <1>7, <2>2
    <3>2. /\ DOMAIN new = DOMAIN rest /\ new = [s \in DOMAIN new |-> new[s]]
          /\ \A s \in DOMAIN new : new[s] = IF s = prev THEN newEnd ELSE rest[s]
      BY <1>5, <3>1, Zenon
    <3>3. QED
      BY <1>1, <1>4, <1>5, <1>6, <2>2, <3>2 DEF Ranges
  <2>3. CASE ~(before # {} /\ rest[prev] >= newEnd) /\ ~(before # {} /\ rest[prev] >= start - 1)
    <3>1. new = With(rest, start, newEnd)
      BY <1>7, <2>3
    <3>2. /\ DOMAIN new = DOMAIN rest \cup {start} /\ new = [s \in DOMAIN new |-> new[s]]
          /\ \A s \in DOMAIN new : new[s] = IF s = start THEN newEnd ELSE rest[s]
      BY <3>1 DEF With
    <3>3. QED
      BY <1>1, <1>3, <1>4, <1>5, <3>2 DEF Ranges
  <2>4. QED
    BY <2>1, <2>2, <2>3
<1>9. PICK k \in DOMAIN new : k <= start /\ newEnd <= new[k]
  BY <1>8
<1>10. \A s \in DOMAIN new : s \in Nat /\ new[s] \in Nat
  BY <1>8 DEF Ranges
<1>11. Span(slices) \subseteq Span(new)
  <2> SUFFICES ASSUME NEW s \in DOMAIN slices, NEW x \in s..slices[s]
               PROVE  \E t \in DOMAIN new : x \in t..new[t]
    BY DEF Span
  <2>1. CASE s \in gone
    <3>1. x \in k..new[k]
      BY <1>1, <1>2, <1>4, <1>9, <1>10, <2>1
    <3>2. QED
      BY <3>1
  <2>2. CASE s \notin gone
    <3>1. s \in DOMAIN new /\ x \in s..new[s]
      BY <1>1, <1>8, <1>10, <2>2
    <3>2. QED
      BY <3>1
  <2>3. QED
    BY <2>1, <2>2
<1>12. LastHeadIndex(slices) <= LastHeadIndex(new)
  <2>1. CASE 0 \in gone
    <3>1. k = 0
      BY <1>2, <1>9, <1>10, <2>1
    <3>2. QED
      BY <1>1, <1>2, <1>4, <1>9, <1>10, <2>1, <3>1 DEF LastHeadIndex
  <2>2. CASE 0 \notin gone
    BY <1>1, <1>8, <1>10, <2>2 DEF LastHeadIndex
  <2>3. QED
    BY <2>1, <2>2
<1>13. start..end \subseteq Span(new)
  <2>1. start..end \subseteq k..new[k]
    BY <1>4, <1>9, <1>10
  <2>2. QED
    BY <2>1 DEF Span
<1>14. QED
  BY <1>8, <1>11, <1>12, <1>13 DEF Grows, new

(* The ranges are not empty, do not overlap and do not even touch. *)
Separated(slices) ==
  \A s \in DOMAIN slices :
    /\ s <= slices[s]
    /\ \A t \in DOMAIN slices : s < t => slices[s] + 1 < t

(* Where the first loop of add_slice stops: what is left to the right is   *)
(* beyond the joined range, and an end that moved is that of the first     *)
(* range beyond the new slice.                                             *)
LEMMA SwallowedStop ==
  ASSUME NEW n \in Nat, NEW slices, Ranges(slices, n), Separated(slices),
         NEW start \in Nat, NEW end \in Nat, start <= end, end < n
  PROVE  /\ \A t \in DOMAIN slices \ Swallowed(slices, start, end) :
              t >= start => NewEnd(slices, start, end) + 1 < t
         /\ NewEnd(slices, start, end) > end =>
              \E m \in DOMAIN slices :
                /\ NewEnd(slices, start, end) = slices[m]
                /\ \A s \in DOMAIN slices : s >= start /\ slices[s] > end => m <= s
<1> DEFINE gone == Swallowed(slices, start, end)
           newEnd == NewEnd(slices, start, end)
           right == {s \in DOMAIN slices : s >= start}
           beyond == {s \in right : slices[s] > end}
<1>1. \A s \in DOMAIN slices : s \in Nat /\ slices[s] \in Nat
  BY DEF Ranges
<1>2. /\ newEnd \in Nat /\ newEnd >= end /\ \A s \in gone : slices[s] <= newEnd
      /\ newEnd = end \/ \E s \in gone : newEnd = slices[s]
  BY NewEndOf
<1>3. gone = IF beyond = {} THEN right ELSE {s \in right : s <= Min(beyond)}
  BY DEF Swallowed
<1> HIDE DEF gone, newEnd
<1>4. CASE beyond = {}
  <2>1. gone = right /\ \A s \in right : ~(slices[s] > end)
    BY <1>3, <1>4
  <2>2. newEnd = end
    BY <1>1, <1>2, <2>1
  <2>3. QED
    BY <2>1, <2>2 DEF gone, newEnd
<1>5. CASE beyond # {}
  <2> DEFINE m == Min(beyond)
  <2>1. beyond \in SUBSET Nat
    BY <1>1
  <2>2. m \in beyond /\ \A s \in beyond : m <= s
    BY <1>5, <2>1, MinInSet
  <2>3. gone = {s \in right : s <= m}
    BY <1>3, <1>5
  <2>4. m \in DOMAIN slices /\ m >= start /\ slices[m] > end /\ m \in Nat /\ slices[m] \in Nat
    BY <1>1, <2>2
  <2>5. \A s \in DOMAIN slices : s >= start /\ slices[s] > end => m <= s
    BY <2>2
  <2>6. m \in gone /\ \A s \in gone : s \in DOMAIN slices /\ s <= m
    BY <2>3, <2>4
  <2>7. \A t \in DOMAIN slices \ gone : t >= start => m < t
    BY <1>1, <2>3, <2>4
  <2> HIDE DEF m, beyond
  <2>8. \A s \in gone : slices[s] <= slices[m]
    BY <1>1, <2>4, <2>6 DEF Separated
  <2>9. newEnd = slices[m]
    BY <1>1, <1>2, <2>4, <2>6, <2>8
  <2>10. \A t \in DOMAIN slices \ gone : t >= start => newEnd + 1 < t
    BY <2>4, <2>7, <2>9 DEF Separated
  <2>11. QED
    BY <2>4, <2>5, <2>9, <2>10 DEF gone, newEnd
<1>6. QED
  BY <1>4, <1>5

(* add_slice keeps the ranges apart. *)
LEMMA AddSliceSeparated ==
  ASSUME NEW n \in Nat, NEW slices, Ranges(slices, n), Separated(slices),
         NEW start \in Nat, NEW end \in Nat, start <= end, end < n
  PROVE  Separated(AddSlice(slices, start, end))
<1> DEFINE gone == Swallowed(slices, start, end)
           newEnd == NewEnd(slices, start, end)
           rest == Rest(slices, start, end)
           before == Before(slices, start, end)
           prev == Prev(slices, start, end)
           new == AddSlice(slices, start, end)
<1>1. \A s \in DOMAIN slices : s \in Nat /\ slices[s] \in Nat
  BY DEF Ranges
<1>2. newEnd \in Nat /\ newEnd >= end
  BY AddSliceSteps
<1>3. start \in DOMAIN slices => start \in gone
  BY AddSliceSteps
<1>4. /\ rest = [s \in DOMAIN rest |-> rest[s]]
      /\ DOMAIN rest = DOMAIN slices \ gone
      /\ \A s \in DOMAIN rest : rest[s] = slices[s]
  BY DEF Rest, Without
<1>5. before = {s \in DOMAIN rest : s < start}
  BY DEF Before
<1>6. before # {} => prev \in before /\ \A s \in before : s <= prev
  BY AddSliceSteps
<1>7. new = IF before # {} /\ rest[prev] >= newEnd THEN rest
            ELSE IF before # {} /\ rest[prev] >= start - 1
                 THEN [rest EXCEPT ![prev] = newEnd]
                 ELSE With(rest, start, newEnd)
  BY AddSliceSteps
<1>8. \A t \in DOMAIN slices \ gone : t >= start => newEnd + 1 < t
  BY SwallowedStop
<1> HIDE DEF gone, newEnd, rest, before, prev, new
<1>9. /\ \A s \in DOMAIN rest : s \in Nat /\ rest[s] \in Nat
      /\ Separated(rest)
      /\ \A t \in DOMAIN rest : t >= start => newEnd + 1 < t
      /\ start \notin DOMAIN rest
  BY <1>1, <1>3, <1>4, <1>8 DEF Separated
<1>10. CASE before # {} /\ rest[prev] >= newEnd
  BY <1>7, <1>9, <1>10 DEF new
<1>11. CASE before # {} /\ ~(rest[prev] >= newEnd) /\ rest[prev] >= start - 1
  <2>1. new = [rest EXCEPT ![prev] = newEnd]
    BY <1>7, <1>11
  <2>2. /\ DOMAIN new = DOMAIN rest
        /\ \A s \in DOMAIN new : new[s] = IF s = prev THEN newEnd ELSE rest[s]
    BY <1>4, <2>1, Zenon
  <2>3. prev \in DOMAIN rest /\ prev \in Nat /\ prev < start /\ prev <= newEnd
    BY <1>2, <1>5, <1>6, <1>9, <1>11
  <2>4. \A t \in DOMAIN rest : prev < t => newEnd + 1 < t
    BY <1>5, <1>6, <1>9, <1>11, <2>3
  <2>5. ASSUME NEW s \in DOMAIN new
        PROVE  s <= new[s] /\ \A t \in DOMAIN new : s < t => new[s] + 1 < t
    BY <1>9, <2>2, <2>3, <2>4, <2>5 DEF Separated
  <2>6. QED
    BY <2>5 DEF Separated, new
<1>12. CASE /\ ~(before # {} /\ rest[prev] >= newEnd)
            /\ ~(before # {} /\ rest[prev] >= start - 1)
  <2>1. new = With(rest, start, newEnd)
    BY <1>7, <1>12
  <2>2. /\ DOMAIN new = DOMAIN rest \cup {start}
        /\ \A s \in DOMAIN new : new[s] = IF s = start THEN newEnd ELSE rest[s]
    BY <2>1 DEF With
  <2>3. ASSUME NEW s \in DOMAIN rest, s < start PROVE rest[s] + 1 < start
    <3>1. s \in before /\ before # {} /\ s <= prev /\ prev \in before /\ prev \in DOMAIN rest
      BY <1>5, <1>6, <2>3
    <3>2. rest[prev] \in Nat /\ ~(rest[prev] >= start - 1)
      BY <1>9, <1>12, <3>1
    <3>3. rest[s] <= rest[prev] /\ rest[s] \in Nat
      BY <1>9, <3>1 DEF Separated
    <3>4. QED
      BY <3>2, <3>3
  <2>4. ASSUME NEW s \in DOMAIN new
        PROVE  s <= new[s] /\ \A t \in DOMAIN new : s < t => new[s] + 1 < t
    <3>1. CASE s = start
      <4>1. new[s] = newEnd /\ s <= newEnd
        BY <1>2, <2>2, <3>1
      <4>2. ASSUME NEW t \in DOMAIN new, s < t PROVE new[s] + 1 < t
        BY <1>9, <2>2, <3>1, <4>1, <4>2
      <4>3. QED
        BY <4>1, <4>2
    <3>2. CASE s # start
      <4>1. s \in DOMAIN rest /\ new[s] = rest[s]
        BY <2>2, <3>2
      <4>2. ASSUME NEW t \in DOMAIN new, s < t PROVE new[s] + 1 < t
        BY <1>9, <2>2, <2>3, <4>1, <4>2 DEF Separated
      <4>3. QED
        BY <1>9, <4>1, <4>2 DEF Separated
    <3>3. QED
      BY <3>1, <3>2
  <2>5. QED
    BY <2>4 DEF Separated, new
<1>13. QED
  BY <1>10, <1>11, <1>12

(* What add_slice records is the slice and what was recorded before, when  *)
(* the first range that ends beyond the slice begins within its reach.     *)
LEMMA AddSliceExact ==
  ASSUME NEW n \in Nat, NEW slices, Ranges(slices, n), Separated(slices),
         NEW start \in Nat, NEW end \in Nat, start <= end, end < n,
         \/ \A s \in DOMAIN slices : s <= end + 1
         \/ \E s \in DOMAIN slices : s \in start..(end + 1) /\ slices[s] > end
  PROVE  Span(AddSlice(slices, start, end)) = Span(slices) \cup (start..end)
<1> DEFINE gone == Swallowed(slices, start, end)
           newEnd == NewEnd(slices, start, end)
           rest == Rest(slices, start, end)
           before == Before(slices, start, end)
           prev == Prev(slices, start, end)
           new == AddSlice(slices, start, end)
<1>1. \A s \in DOMAIN slices : s \in Nat /\ slices[s] \in Nat
  BY DEF Ranges
<1>2. newEnd \in Nat /\ newEnd >= end
  BY AddSliceSteps
<1>3. /\ DOMAIN rest \subseteq DOMAIN slices
      /\ \A s \in DOMAIN rest : rest[s] = slices[s]
      /\ rest = [s \in DOMAIN rest |-> rest[s]]
  BY DEF Rest, Without
<1>4. before # {} => prev \in DOMAIN rest /\ prev < start
  BY AddSliceSteps
<1>5. new = IF before # {} /\ rest[prev] >= newEnd THEN rest
            ELSE IF before # {} /\ rest[prev] >= start - 1
                 THEN [rest EXCEPT ![prev] = newEnd]
                 ELSE With(rest, start, newEnd)
  BY AddSliceSteps
<1>6. newEnd > end => \E m \in DOMAIN slices : m <= end + 1 /\ newEnd = slices[m]
  <2> SUFFICES ASSUME newEnd > end
               PROVE  \E m \in DOMAIN slices : m <= end + 1 /\ newEnd = slices[m]
    OBVIOUS
  <2>1. PICK m \in DOMAIN slices :
          newEnd = slices[m] /\ \A s \in DOMAIN slices : s >= start /\ slices[s] > end => m <= s
    BY SwallowedStop
  <2> HIDE DEF newEnd
  <2>2. m <= end + 1
    BY <1>1, <2>1
  <2>3. QED
    BY <2>1, <2>2
<1>7. Span(slices) \subseteq Span(new)
  BY AddSliceGrows DEF Grows
<1>8. start..end \subseteq Span(new)
  BY AddSliceGrows
<1> HIDE DEF gone, newEnd, rest, before, prev, new
<1>9. ASSUME NEW x, x \in start..newEnd PROVE x \in Span(slices) \cup (start..end)
  <2>1. CASE x <= end
    BY <1>2, <1>9, <2>1
  <2>2. CASE ~(x <= end)
    <3>1. newEnd > end /\ x \in Nat
      BY <1>2, <1>9, <2>2
    <3>2. PICK m \in DOMAIN slices : m <= end + 1 /\ newEnd = slices[m]
      BY <1>6, <3>1
    <3>3. x \in m..slices[m]
      BY <1>1, <1>9, <2>2, <3>1, <3>2
    <3>4. QED
      BY <3>3 DEF Span
  <2>3. QED
    BY <2>1, <2>2
<1>10. ASSUME NEW t \in DOMAIN rest, NEW x \in t..rest[t] PROVE x \in Span(slices)
  BY <1>3, <1>10 DEF Span
<1>11. Span(new) \subseteq Span(slices) \cup (start..end)
  <2> SUFFICES ASSUME NEW t \in DOMAIN new, NEW x \in t..new[t]
               PROVE  x \in Span(slices) \cup (start..end)
    BY DEF Span
  <2>1. CASE before # {} /\ rest[prev] >= newEnd
    BY <1>5, <1>10, <2>1
  <2>2. CASE before # {} /\ ~(rest[prev] >= newEnd) /\ rest[prev] >= start - 1
    <3>1. new = [rest EXCEPT ![prev] = newEnd]
      BY <1>5, <2>2
    <3>2. /\ DOMAIN new = DOMAIN rest
          /\ \A s \in DOMAIN new : new[s] = IF s = prev THEN newEnd ELSE rest[s]
      BY <1>3, <3>1, Zenon
    <3>3. CASE t = prev
      <4>1. prev \in DOMAIN rest /\ prev \in Nat /\ rest[prev] \in Nat /\ x \in prev..newEnd
        BY <1>1, <1>3, <1>4, <2>2, <3>2, <3>3
      <4>2. x \in prev..rest[prev] \/ x \in start..newEnd
        BY <1>2, <2>2, <4>1
      <4>3. QED
        BY <1>9, <1>10, <4>1, <4>2
    <3>4. CASE t # prev
      BY <1>10, <3>2, <3>4
    <3>5. QED
      BY <3>3, <3>4
  <2>3. CASE /\ ~(before # {} /\ rest[prev] >= newEnd)
             /\ ~(before # {} /\ rest[prev] >= start - 1)
    <3>1. new = With(rest, start, newEnd)
      BY <1>5, <2>3
    <3>2. /\ DOMAIN new = DOMAIN rest \cup {start}
          /\ \A s \in DOMAIN new : new[s] = IF s = start THEN newEnd ELSE rest[s]
      BY <3>1 DEF With
    <3>3. CASE t = start
      BY <1>9, <3>2, <3>3
    <3>4. CASE t # start
      BY <1>10, <3>2, <3>4
    <3>5. QED
      BY <3>3, <3>4
  <2>4. QED
    BY <2>1, <2>2, <2>3
<1>12. QED
  BY <1>7, <1>8, <1>11 DEF new

(* recv_slice ignores a slice, or takes it up to byte `last`. *)
Takes(buf, first, last, n, new) ==
  /\ first <= last /\ last < n
  /\ new = [size |-> buf.size, slices |-> AddSlice(buf.slices, first, last),
            data |-> buf.data \cup (first..last)]

LEMMA RecvSliceTakes ==
  ASSUME NEW n \in Nat, NEW buf, IsBuffer(buf, n), NEW first \in Nat, NEW len \in Nat
  PROVE  \/ RecvSlice(buf, first, len) = buf
         \/ \E last \in Nat : Takes(buf, first, last, n, RecvSlice(buf, first, len))
<1> DEFINE last == Min({first + len - 1, buf.size - 1})
           new == RecvSlice(buf, first, len)
<1>1. last \in Int /\ last < n
  <2>1. first + len - 1 \in Int /\ buf.size - 1 \in Int /\ buf.size = n
    BY DEF IsBuffer
  <2>2. last = IF first + len - 1 <= buf.size - 1 THEN first + len - 1 ELSE buf.size - 1
    BY <2>1, MinOfPair
  <2>3. QED
    BY <2>1, <2>2
<1>2. CASE last < first
  BY <1>2 DEF RecvSlice
<1>3. CASE ~(last < first)
  <2>1. new = [buf EXCEPT !.slices = AddSlice(@, first, last), !.data = @ \cup (first..last)]
    BY <1>3 DEF RecvSlice
  <2> HIDE DEF last, new
  <2>2. new = [size |-> buf.size, slices |-> AddSlice(buf.slices, first, last),
               data |-> buf.data \cup (first..last)]
    BY <2>1, Zenon DEF IsBuffer
  <2>3. last \in Nat /\ first <= last
    BY <1>1, <1>3
  <2>4. QED
    BY <1>1, <2>2, <2>3 DEF new, Takes
<1>4. QED
  BY <1>2, <1>3

(* recv_slice, whether it takes the slice or ignores it. *)
LEMMA RecvSliceGrows ==
  ASSUME NEW n \in Nat, NEW buf, IsBuffer(buf, n), NEW first \in Nat, NEW len \in Nat
  PROVE  /\ IsBuffer(RecvSlice(buf, first, len), n)
         /\ Grows(buf.slices, RecvSlice(buf, first, len).slices)
<1> DEFINE new == RecvSlice(buf, first, len)
<1>1. CASE new = buf
  <2>1. LastHeadIndex(buf.slices) \in Nat
    BY DEF IsBuffer, Ranges, LastHeadIndex
  <2>2. QED
    BY <1>1, <2>1 DEF Grows
<1>2. CASE new # buf
  <2>0. PICK last \in Nat : Takes(buf, first, last, n, new)
    BY <1>2, RecvSliceTakes
  <2>1. /\ first <= last /\ last < n
        /\ new = [size |-> buf.size, slices |-> AddSlice(buf.slices, first, last),
                  data |-> buf.data \cup (first..last)]
    BY <2>0 DEF Takes
  <2>2. /\ Ranges(AddSlice(buf.slices, first, last), n)
        /\ Grows(buf.slices, AddSlice(buf.slices, first, last))
    BY <2>1, AddSliceGrows DEF IsBuffer
  <2> HIDE DEF new
  <2>3. QED
    BY <2>1, <2>2 DEF IsBuffer, new
<1>3. QED
  BY <1>1, <1>2

(* recv_slice keeps the ranges apart and records every byte it copies. *)
LEMMA RecvSliceRecords ==
  ASSUME NEW n \in Nat, NEW buf, IsBuffer(buf, n), NEW first \in Nat, NEW len \in Nat,
         Separated(buf.slices), buf.data \subseteq Span(buf.slices)
  PROVE  /\ Separated(RecvSlice(buf, first, len).slices)
         /\ RecvSlice(buf, first, len).data \subseteq Span(RecvSlice(buf, first, len).slices)
<1> DEFINE new == RecvSlice(buf, first, len)
<1>1. CASE new = buf
  BY <1>1
<1>2. CASE new # buf
  <2>0. PICK last \in Nat : Takes(buf, first, last, n, new)
    BY <1>2, RecvSliceTakes
  <2>1. /\ first <= last /\ last < n
        /\ new = [size |-> buf.size, slices |-> AddSlice(buf.slices, first, last),
                  data |-> buf.data \cup (first..last)]
    BY <2>0 DEF Takes
  <2> DEFINE slices == AddSlice(buf.slices, first, last)
  <2>2. Span(buf.slices) \subseteq Span(slices) /\ first..last \subseteq Span(slices)
    BY <2>1, AddSliceGrows DEF IsBuffer, Grows
  <2>3. Separated(slices)
    BY <2>1, AddSliceSeparated DEF IsBuffer
  <2> HIDE DEF new
  <2>4. new.slices = slices /\ new.data = buf.data \cup (first..last)
    BY <2>1
  <2>5. QED
    BY <2>2, <2>3, <2>4 DEF new
<1>3. QED
  BY <1>1, <1>2

(* from_vec records the whole message. *)
LEMMA FromVecTail ==
  ASSUME NEW n \in Nat
  PROVE  IsTail(FromVec(n), n) /\ 0..(n - 1) \subseteq Span(FromVec(n))
<1>1. CASE n = 0
  BY <1>1 DEF FromVec, IsTail
<1>2. CASE n # 0
  <2>1. FromVec(n) = [s \in {0} |-> n - 1] /\ 0 \in 0..(n - 1)
    BY <1>2 DEF FromVec
  <2>2. Span(FromVec(n)) = 0..(n - 1)
    BY <2>1, Zenon DEF Span
  <2>3. QED
    BY <2>1, <2>2 DEF IsTail
<1>3. QED
  BY <1>1, <1>2

(* ack on a tail of a message: the bytes up to `last` may go. *)
LEMMA RemoveHeadTail ==
  ASSUME NEW n \in Nat, NEW slices, IsTail(slices, n), NEW last \in Nat
  PROVE  LET new == RemoveHead(slices, last)
         IN  /\ IsEmpty(new) => 0..(n - 1) \subseteq (IF last = 0 THEN {} ELSE 0..last)
             /\ ~IsEmpty(new) => IsTail(new, n)
             /\ Span(slices) \subseteq Span(new) \cup (IF last = 0 THEN {} ELSE 0..last)
<1> DEFINE new == RemoveHead(slices, last)
           beyond == {s \in DOMAIN slices : slices[s] > last}
<1>1. CASE last = 0
  <2>1. new = slices
    BY <1>1 DEF RemoveHead
  <2>2. IsEmpty(new) => n = 0
    BY <2>1 DEF IsTail, IsEmpty
  <2>3. QED
    BY <1>1, <2>1, <2>2
<1>2. CASE last # 0 /\ n = 0
  <2>1. DOMAIN slices = {} /\ slices = NoSlices
    BY <1>2 DEF IsTail, NoSlices
  <2>2. new = NoSlices
    BY <1>2, <2>1 DEF RemoveHead
  <2>3. QED
    BY <1>2, <2>1, <2>2 DEF IsEmpty, NoSlices
<1>3. CASE last # 0 /\ n # 0
  <2>1. PICK a \in 0..(n - 1) : slices = [s \in {a} |-> n - 1]
    BY <1>3 DEF IsTail
  <2>2. DOMAIN slices = {a} /\ slices[a] = n - 1 /\ Span(slices) = a..(n - 1)
    BY <2>1, Zenon DEF Span
  <2>3. CASE n - 1 <= last
    <3>1. beyond = {}
      BY <2>2, <2>3
    <3>2. new = NoSlices
      BY <1>3, <3>1 DEF RemoveHead
    <3>3. QED
      BY <1>3, <2>2, <2>3, <3>2 DEF IsEmpty, NoSlices
  <2>4. CASE ~(n - 1 <= last)
    <3>1. beyond = {a}
      BY <2>2, <2>4
    <3>2. Min(beyond) = a
      BY <3>1 DEF Min
    <3>3. new = With(Without(slices, {s \in DOMAIN slices : s <= a}), last + 1, slices[a])
      BY <1>3, <3>1, <3>2 DEF RemoveHead
    <3>4. DOMAIN Without(slices, {s \in DOMAIN slices : s <= a}) = {}
      BY <2>2 DEF Without
    <3> HIDE DEF new
    <3>5. new = [s \in {last + 1} |-> n - 1]
      BY <2>2, <3>3, <3>4, Zenon DEF With
    <3>6. DOMAIN new = {last + 1} /\ Span(new) = (last + 1)..(n - 1) /\ last + 1 \in 0..(n - 1)
      <4>1. DOMAIN new = {last + 1} /\ new[last + 1] = n - 1
        BY <3>5
      <4>2. Span(new) = (last + 1)..(n - 1)
        BY <4>1, Zenon DEF Span
      <4>3. last + 1 \in 0..(n - 1)
        BY <2>4
      <4> QED BY <4>1, <4>2, <4>3
    <3>7. IsTail(new, n) /\ ~IsEmpty(new)
      BY <3>5, <3>6 DEF IsTail, IsEmpty
    <3>8. Span(slices) \subseteq Span(new) \cup (0..last)
      BY <2>2, <3>6
    <3>9. QED
      BY <1>3, <3>7, <3>8 DEF new
  <2>5. QED
    BY <2>3, <2>4
<1>4. QED
  BY <1>1, <1>2, <1>3

=============================================================================
