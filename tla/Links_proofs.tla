---------------------------- MODULE Links_proofs ----------------------------
(***************************************************************************)
(* Theorems about the parts of Links, each about the specification of its  *)
(* own part.                                                               *)
(***************************************************************************)
EXTENDS Links, SequenceTheorems, TLAPS

-----------------------------------------------------------------------------
(* TcpLink *)

ChunkByte == Nat \X Nat

(* The bytes u follow each other as the chunks of these sizes were         *)
(* written: within a chunk, and from the end of one to the start of the    *)
(* next.                                                                   *)
Run(u, sizes) ==
  /\ \A j \in 1..Len(u) :
       /\ u[j] = <<u[j][1], u[j][2]>>
       /\ u[j][1] \in 1..Len(sizes)
       /\ u[j][2] \in 1..(4 + sizes[u[j][1]])
  /\ \A j, m \in 1..Len(u) :
       j <= m /\ u[j][2] + (m - j) <= 4 + sizes[u[j][1]]
         => u[m] = <<u[j][1], u[j][2] + (m - j)>>
  /\ \A j \in 1..Len(u) :
       j < Len(u) /\ u[j][2] = 4 + sizes[u[j][1]] => u[j + 1] = <<u[j][1] + 1, 1>>

(* The byte that comes after c chunks, and after a length if it was read. *)
NextByte(c, len) ==
  IF len = <<>> THEN <<c + 1, 1>> ELSE IF len[1] = 0 THEN <<c + 2, 1>> ELSE <<c + 1, 5>>

(* The bytes u come after c chunks and len. *)
Layout(u, c, len, sizes) ==
  /\ u \in Seq(ChunkByte) /\ c \in 0..Len(sizes)
  /\ Run(u, sizes)
  /\ len = <<>> \/ (c + 1 <= Len(sizes) /\ len = <<sizes[c + 1]>>)
  /\ Len(u) > 0 => u[1] = NextByte(c, len)

(* They are all that is left to read of what was written. *)
Complete(u, c, len, sizes) ==
  /\ Len(u) > 0 => u[Len(u)] = <<Len(sizes), 4 + sizes[Len(sizes)]>>
  /\ Len(u) = 0 => \/ len = <<>> /\ c = Len(sizes)
                   \/ len = <<0>> /\ c + 1 = Len(sizes)

LEMMA FirstOf ==
  ASSUME NEW S, NEW s \in Seq(S), NEW m \in 0..Len(s)
  PROVE  /\ T!First(s, m) \in Seq(S) /\ Len(T!First(s, m)) = m
         /\ \A i \in 1..m : T!First(s, m)[i] = s[i]
<1>1. T!First(s, m) = SubSeq(s, 1, m) /\ m \in Int /\ 1 \in Int /\ Len(s) \in Nat
  BY LenProperties DEF T!First
<1>2. \A i \in 1..m : s[i] \in S
  BY <1>1, ElementOfSeq
<1>3. /\ SubSeq(s, 1, m) \in Seq(S) /\ Len(SubSeq(s, 1, m)) = IF 1 <= m THEN m - 1 + 1 ELSE 0
      /\ \A i \in 1..(m - 1 + 1) : SubSeq(s, 1, m)[i] = s[1 + i - 1]
  BY <1>1, <1>2, SubSeqProperties
<1>4. QED
  BY <1>1, <1>3

LEMMA AfterOf ==
  ASSUME NEW S, NEW s \in Seq(S), NEW m \in 0..Len(s)
  PROVE  /\ T!After(s, m) \in Seq(S) /\ Len(T!After(s, m)) = Len(s) - m
         /\ \A i \in 1..(Len(s) - m) : T!After(s, m)[i] = s[m + i]
<1>1. /\ T!After(s, m) = SubSeq(s, m + 1, Len(s)) /\ Len(s) \in Nat
      /\ m + 1 \in Int /\ Len(s) \in Int
  BY LenProperties DEF T!After
<1>2. \A i \in (m + 1)..Len(s) : s[i] \in S
  BY <1>1, ElementOfSeq
<1> DEFINE t == SubSeq(s, m + 1, Len(s))
<1>3. /\ t \in Seq(S)
      /\ Len(t) = IF m + 1 <= Len(s) THEN Len(s) - (m + 1) + 1 ELSE 0
      /\ \A i \in 1..(Len(s) - (m + 1) + 1) : t[i] = s[m + 1 + i - 1]
  BY <1>1, <1>2, SubSeqProperties
<1> HIDE DEF t
<1>4. Len(t) = Len(s) - m /\ \A i \in 1..(Len(s) - m) : t[i] = s[m + i]
  BY <1>1, <1>3
<1>5. QED
  BY <1>1, <1>3, <1>4 DEF t

Joined(s, t, u, S) ==
  /\ u \in Seq(S) /\ Len(u) = Len(s) + Len(t)
  /\ Len(s) \in Nat /\ Len(t) \in Nat
  /\ \A i \in 1..Len(s) : u[i] = s[i]
  /\ \A i \in 1..Len(t) : u[Len(s) + i] = t[i]

LEMMA JoinOf ==
  ASSUME NEW S, NEW s \in Seq(S), NEW t \in Seq(S)
  PROVE  Joined(s, t, s \o t, S)
<1> DEFINE u == s \o t
<1>1. Len(s) \in Nat /\ Len(t) \in Nat
  BY LenProperties
<1>2. /\ u \in Seq(S) /\ Len(u) = Len(s) + Len(t)
      /\ \A i \in 1..(Len(s) + Len(t)) : u[i] = IF i <= Len(s) THEN s[i] ELSE t[i - Len(s)]
  BY ConcatProperties, Zenon
<1> HIDE DEF u
<1>3. \A i \in 1..Len(s) : u[i] = s[i]
  BY <1>1, <1>2
<1>4. \A i \in 1..Len(t) : u[Len(s) + i] = t[i]
  BY <1>1, <1>2, SMTT(30)
<1>5. QED
  BY <1>1, <1>2, <1>3, <1>4 DEF u, Joined

(* Bytes move from the front of t to the end of s, and leave s at its      *)
(* front.                                                                  *)
LEMMA AfterJoin ==
  ASSUME NEW S, NEW s \in Seq(S), NEW t \in Seq(S), NEW m \in 0..Len(s)
  PROVE  T!After(s, m) \o t = T!After(s \o t, m)
<1> DEFINE u == s \o t
           a == T!After(s, m)
           b == T!After(u, m)
           v == a \o t
<1>1. /\ u \in Seq(S) /\ Len(u) = Len(s) + Len(t)
      /\ Len(s) \in Nat /\ Len(t) \in Nat
      /\ \A i \in 1..Len(s) : u[i] = s[i]
      /\ \A i \in 1..Len(t) : u[Len(s) + i] = t[i]
  <2>1. Joined(s, t, u, S)
    BY JoinOf
  <2> HIDE DEF u
  <2>2. QED
    BY <2>1 DEF Joined
<1>2. a \in Seq(S) /\ Len(a) = Len(s) - m /\ \A i \in 1..(Len(s) - m) : a[i] = s[m + i]
  BY AfterOf
<1> HIDE DEF u
<1>3. m \in 0..Len(u)
  BY <1>1
<1>4. b \in Seq(S) /\ Len(b) = Len(u) - m /\ \A i \in 1..(Len(u) - m) : b[i] = u[m + i]
  BY <1>1, <1>3, AfterOf
<1> HIDE DEF a, b
<1>5. /\ v \in Seq(S) /\ Len(v) = Len(a) + Len(t)
      /\ \A i \in 1..Len(a) : v[i] = a[i]
      /\ \A i \in 1..Len(t) : v[Len(a) + i] = t[i]
  <2>1. Joined(a, t, v, S)
    BY <1>2, JoinOf
  <2> HIDE DEF v
  <2>2. QED
    BY <2>1 DEF Joined
<1> HIDE DEF v
<1>6. Len(v) = Len(b)
  BY <1>1, <1>2, <1>4, <1>5
<1>7. ASSUME NEW i \in 1..Len(v) PROVE v[i] = b[i]
  <2>1. CASE i <= Len(a)
    <3>1. i \in 1..Len(a) /\ m + i \in 1..Len(s) /\ i \in 1..(Len(s) - m) /\ i \in 1..(Len(u) - m)
      BY <1>1, <1>2, <1>5, <2>1
    <3>2. v[i] = s[m + i] /\ b[i] = s[m + i]
      BY <1>1, <1>2, <1>4, <1>5, <3>1
    <3>3. QED
      BY <3>2
  <2>2. CASE ~(i <= Len(a))
    <3>1. i - Len(a) \in 1..Len(t) /\ i = Len(a) + (i - Len(a)) /\ m + i = Len(s) + (i - Len(a))
      BY <1>1, <1>2, <1>5, <2>2, SMTT(30)
    <3>2. v[i] = t[i - Len(a)]
      BY <1>5, <3>1
    <3>3. b[i] = u[m + i]
      BY <1>1, <1>4, <1>5, <1>6
    <3>4. u[m + i] = t[i - Len(a)]
      BY <1>1, <3>1
    <3>5. QED
      BY <3>2, <3>3, <3>4
  <2>3. QED
    BY <2>1, <2>2
<1>8. v = b
  BY <1>4, <1>5, <1>6, <1>7, SeqEqual
<1>9. QED
  BY <1>8 DEF v, a, b, u

LEMMA RunAfter ==
  ASSUME NEW sizes \in Seq(Nat), NEW u \in Seq(ChunkByte), Run(u, sizes), NEW n \in 0..Len(u)
  PROVE  Run(T!After(u, n), sizes)
<1> DEFINE v == T!After(u, n)
<1>1. v \in Seq(ChunkByte) /\ Len(v) = Len(u) - n /\ \A i \in 1..(Len(u) - n) : v[i] = u[n + i]
  BY AfterOf
<1>2. Len(u) \in Nat /\ Len(sizes) \in Nat
  BY LenProperties
<1> HIDE DEF v
<1>3. \A j \in 1..Len(v) : n + j \in 1..Len(u) /\ v[j] = u[n + j]
  BY <1>1, <1>2
<1>4. ASSUME NEW j \in 1..Len(v)
      PROVE  /\ v[j] = <<v[j][1], v[j][2]>>
             /\ v[j][1] \in 1..Len(sizes)
             /\ v[j][2] \in 1..(4 + sizes[v[j][1]])
  BY <1>3 DEF Run
<1>5. ASSUME NEW j \in 1..Len(v), NEW m \in 1..Len(v), j <= m,
             v[j][2] + (m - j) <= 4 + sizes[v[j][1]]
      PROVE  v[m] = <<v[j][1], v[j][2] + (m - j)>>
  <2>1. n + j <= n + m /\ (n + m) - (n + j) = m - j /\ n + j \in 1..Len(u) /\ n + m \in 1..Len(u)
    BY <1>1, <1>2, <1>3, <1>5
  <2>2. v[j] = u[n + j] /\ v[m] = u[n + m]
    BY <1>3
  <2>3. QED
    BY <1>5, <2>1, <2>2 DEF Run
<1>6. ASSUME NEW j \in 1..Len(v), j < Len(v), v[j][2] = 4 + sizes[v[j][1]]
      PROVE  v[j + 1] = <<v[j][1] + 1, 1>>
  <2>1. /\ n + j \in 1..Len(u) /\ n + j < Len(u) /\ j + 1 \in 1..Len(v)
        /\ n + (j + 1) = (n + j) + 1
    BY <1>1, <1>2, <1>6, SMTT(30)
  <2>2. v[j] = u[n + j] /\ v[j + 1] = u[(n + j) + 1]
    BY <1>3, <2>1
  <2>3. QED
    BY <1>6, <2>1, <2>2 DEF Run
<1>7. QED
  BY <1>4, <1>5, <1>6 DEF Run, v

LEMMA RunFirst ==
  ASSUME NEW sizes \in Seq(Nat), NEW u \in Seq(ChunkByte), Run(u, sizes), NEW n \in 0..Len(u),
         NEW v \in Seq(ChunkByte), Len(v) = n, \A i \in 1..n : v[i] = u[i]
  PROVE  Run(v, sizes)
<1>1. Len(u) \in Nat
  BY LenProperties
<1>2. \A j \in 1..Len(v) : j \in 1..Len(u) /\ v[j] = u[j]
  BY <1>1
<1>3. \A j \in 1..Len(v) : j < Len(v) => j < Len(u) /\ j + 1 \in 1..Len(v)
  BY <1>1
<1>4. QED
  BY <1>2, <1>3 DEF Run

LEMMA LastByte ==
  ASSUME NEW u \in Seq(ChunkByte), NEW n \in 0..Len(u)
  PROVE  LET v == T!After(u, n)
         IN  Len(v) > 0 => v[Len(v)] = u[Len(u)] /\ Len(u) > 0
<1> DEFINE v == T!After(u, n)
<1>1. v \in Seq(ChunkByte) /\ Len(v) = Len(u) - n /\ \A i \in 1..(Len(u) - n) : v[i] = u[n + i]
  BY AfterOf
<1>2. Len(u) \in Nat
  BY LenProperties
<1> HIDE DEF v
<1>3. Len(v) > 0 => Len(v) \in 1..(Len(u) - n) /\ n + Len(v) = Len(u)
  BY <1>1, <1>2
<1>4. QED
  BY <1>1, <1>2, <1>3 DEF v

(* The length of the next chunk is read. *)
LEMMA LengthRead ==
  ASSUME NEW sizes \in Seq(Nat), NEW u, NEW c, Layout(u, c, <<>>, sizes), Len(u) >= 4
  PROVE  /\ c + 1 \in 1..Len(sizes)
         /\ \A i \in 1..4 : u[i] = <<c + 1, i>>
         /\ Layout(T!After(u, 4), c, <<sizes[c + 1]>>, sizes)
         /\ Complete(u, c, <<>>, sizes) => Complete(T!After(u, 4), c, <<sizes[c + 1]>>, sizes)
<1> DEFINE v == T!After(u, 4)
           n == sizes[c + 1]
<1>1. /\ u \in Seq(ChunkByte) /\ c \in 0..Len(sizes) /\ Run(u, sizes)
      /\ Len(u) > 0 => u[1] = NextByte(c, <<>>)
  BY DEF Layout
<1>2. Len(u) \in Nat /\ Len(sizes) \in Nat /\ 1 \in 1..Len(u) /\ 4 \in 0..Len(u)
  BY <1>1, LenProperties
<1>3. u[1] = <<c + 1, 1>> /\ u[1][1] = c + 1 /\ u[1][2] = 1
  BY <1>1, <1>2 DEF NextByte
<1>4. c + 1 \in 1..Len(sizes) /\ n \in Nat
  <2>1. u[1][1] \in 1..Len(sizes)
    BY <1>1, <1>2 DEF Run
  <2>2. c + 1 \in 1..Len(sizes)
    BY <1>3, <2>1
  <2>3. QED
    BY <2>2, ElementOfSeq
<1> HIDE DEF n
<1>5. ASSUME NEW i \in 1..Len(u), i <= 4 + n PROVE u[i] = <<c + 1, i>>
  <2>1. 1 <= i /\ 1 + (i - 1) = i
    OBVIOUS
  <2>2. u[1][2] + (i - 1) <= 4 + sizes[u[1][1]]
    BY <1>3, <1>4, <1>5 DEF n
  <2>3. u[i] = <<u[1][1], u[1][2] + (i - 1)>>
    BY <1>1, <1>2, <2>1, <2>2 DEF Run
  <2>4. QED
    BY <1>3, <2>1, <2>3
<1>6. \A i \in 1..4 : u[i] = <<c + 1, i>>
  BY <1>2, <1>4, <1>5
<1>7. v \in Seq(ChunkByte) /\ Len(v) = Len(u) - 4 /\ \A i \in 1..(Len(u) - 4) : v[i] = u[4 + i]
  BY <1>1, <1>2, AfterOf
<1>8. Run(v, sizes) /\ (Len(v) > 0 => v[Len(v)] = u[Len(u)] /\ Len(u) > 0)
  BY <1>1, <1>2, RunAfter, LastByte
<1> HIDE DEF v
<1>9. Len(v) > 0 => v[1] = NextByte(c, <<n>>)
  <2> SUFFICES ASSUME Len(v) > 0 PROVE v[1] = NextByte(c, <<n>>)
    OBVIOUS
  <2>1. v[1] = u[5] /\ 5 \in 1..Len(u) /\ 4 \in 1..Len(u) /\ 4 < Len(u)
    BY <1>2, <1>7
  <2>2. CASE n = 0
    <3>1. u[4] = <<c + 1, 4>> /\ u[4][1] = c + 1 /\ u[4][2] = 4 + sizes[u[4][1]]
      BY <1>4, <1>6, <2>2 DEF n
    <3>2. u[4 + 1] = <<u[4][1] + 1, 1>>
      BY <1>1, <2>1, <3>1 DEF Run
    <3>3. 4 + 1 = 5 /\ c + 1 + 1 = c + 2
      BY <1>1
    <3>4. v[1] = <<c + 2, 1>>
      BY <2>1, <3>1, <3>2, <3>3
    <3>5. QED
      BY <2>2, <3>4 DEF NextByte
  <2>3. CASE n # 0
    <3>1. 5 <= 4 + n
      BY <1>4, <2>3
    <3>2. v[1] = <<c + 1, 5>>
      BY <1>5, <2>1, <3>1
    <3>3. QED
      BY <2>3, <3>2 DEF NextByte
  <2>4. QED
    BY <2>2, <2>3
<1>10. Layout(v, c, <<n>>, sizes)
  BY <1>1, <1>2, <1>4, <1>7, <1>8, <1>9 DEF Layout, n
<1>11. ASSUME Complete(u, c, <<>>, sizes) PROVE Complete(v, c, <<n>>, sizes)
  <2>1. u[Len(u)] = <<Len(sizes), 4 + sizes[Len(sizes)]>>
    BY <1>2, <1>11 DEF Complete
  <2>2. ASSUME Len(v) = 0 PROVE n = 0 /\ c + 1 = Len(sizes)
    <3>1. Len(u) = 4
      BY <1>2, <1>7, <2>2
    <3>2. <<c + 1, 4>> = <<Len(sizes), 4 + sizes[Len(sizes)]>>
      BY <1>6, <2>1, <3>1
    <3>3. c + 1 = Len(sizes) /\ 4 = 4 + sizes[Len(sizes)]
      BY <3>2
    <3>4. QED
      BY <1>4, <3>3 DEF n
  <2>3. QED
    BY <1>8, <2>1, <2>2 DEF Complete
<1>12. QED
  BY <1>4, <1>6, <1>10, <1>11 DEF v, n

(* The chunk of that length is read. *)
LEMMA ChunkRead ==
  ASSUME NEW sizes \in Seq(Nat), NEW u, NEW c, NEW n, Layout(u, c, <<n>>, sizes), n <= Len(u)
  PROVE  /\ c + 1 \in 1..Len(sizes) /\ n = sizes[c + 1] /\ n \in 0..Len(u)
         /\ \A i \in 1..n : u[i] = <<c + 1, 4 + i>>
         /\ Layout(T!After(u, n), c + 1, <<>>, sizes)
         /\ Complete(u, c, <<n>>, sizes) => Complete(T!After(u, n), c + 1, <<>>, sizes)
<1> DEFINE v == T!After(u, n)
<1>1. /\ u \in Seq(ChunkByte) /\ c \in 0..Len(sizes) /\ Run(u, sizes)
      /\ Len(u) > 0 => u[1] = NextByte(c, <<n>>)
  BY DEF Layout
<1>2. c + 1 <= Len(sizes) /\ <<n>> = <<sizes[c + 1]>>
  BY DEF Layout
<1>3. Len(u) \in Nat /\ Len(sizes) \in Nat
  BY <1>1, LenProperties
<1>4. c + 1 \in 1..Len(sizes) /\ n = sizes[c + 1] /\ n \in 0..Len(u)
  <2>1. c + 1 \in 1..Len(sizes) /\ n = sizes[c + 1]
    BY <1>1, <1>2, <1>3
  <2>2. n \in Nat
    BY <2>1, ElementOfSeq
  <2>3. QED
    BY <1>3, <2>1, <2>2
<1>5. v \in Seq(ChunkByte) /\ Len(v) = Len(u) - n /\ \A i \in 1..(Len(u) - n) : v[i] = u[n + i]
  <2>1. n \in 0..Len(u)
    BY <1>4
  <2>2. QED
    BY <1>1, <2>1, AfterOf
<1>6. Run(v, sizes) /\ (Len(v) > 0 => v[Len(v)] = u[Len(u)] /\ Len(u) > 0)
  BY <1>1, <1>4, RunAfter, LastByte
<1> HIDE DEF v
<1>7. CASE n = 0
  <2>1. \A i \in 1..n : u[i] = <<c + 1, 4 + i>>
    BY <1>7
  <2>2. Len(v) > 0 => v[1] = NextByte(c + 1, <<>>)
    <3>1. SUFFICES ASSUME Len(v) > 0 PROVE v[1] = NextByte(c + 1, <<>>)
      OBVIOUS
    <3>2. v[1] = u[1] /\ Len(u) > 0
      BY <1>3, <1>5, <1>7, <3>1
    <3>3. u[1] = <<c + 2, 1>> /\ c + 2 = c + 1 + 1
      BY <1>1, <1>7, <3>2 DEF NextByte
    <3>4. QED
      BY <3>2, <3>3 DEF NextByte
  <2>3. Layout(v, c + 1, <<>>, sizes)
    BY <1>3, <1>4, <1>5, <1>6, <2>2 DEF Layout
  <2>4. ASSUME Complete(u, c, <<n>>, sizes) PROVE Complete(v, c + 1, <<>>, sizes)
    <3>1. Len(v) = Len(u)
      BY <1>3, <1>5, <1>7
    <3>2. QED
      BY <1>6, <2>4, <3>1 DEF Complete
  <2>5. QED
    BY <1>4, <2>1, <2>3, <2>4 DEF v
<1>8. CASE n # 0
  <2>1. Len(u) > 0 /\ 1 \in 1..Len(u) /\ n \in 1..Len(u)
    BY <1>3, <1>4, <1>8
  <2>2. u[1] = <<c + 1, 5>> /\ u[1][1] = c + 1 /\ u[1][2] = 5
    BY <1>1, <1>8, <2>1 DEF NextByte
  <2>3. ASSUME NEW i \in 1..n PROVE u[i] = <<c + 1, 4 + i>>
    <3>1. 1 <= i /\ i \in 1..Len(u) /\ 5 + (i - 1) = 4 + i
      BY <1>3, <1>4
    <3>2. u[1][2] + (i - 1) <= 4 + sizes[u[1][1]]
      BY <1>4, <2>2
    <3>3. u[i] = <<u[1][1], u[1][2] + (i - 1)>>
      BY <1>1, <2>1, <3>1, <3>2 DEF Run
    <3>4. QED
      BY <2>2, <3>1, <3>3
  <2>4. u[n] = <<c + 1, 4 + n>> /\ u[n][1] = c + 1 /\ u[n][2] = 4 + sizes[u[n][1]]
    BY <1>4, <2>1, <2>3
  <2>5. Len(v) > 0 => v[1] = NextByte(c + 1, <<>>)
    <3>1. SUFFICES ASSUME Len(v) > 0 PROVE v[1] = NextByte(c + 1, <<>>)
      OBVIOUS
    <3>2. v[1] = u[n + 1] /\ n < Len(u)
      BY <1>3, <1>4, <1>5, <3>1
    <3>3. u[n + 1] = <<u[n][1] + 1, 1>>
      BY <1>1, <2>1, <2>4, <3>2 DEF Run
    <3>4. QED
      BY <2>4, <3>2, <3>3 DEF NextByte
  <2>6. Layout(v, c + 1, <<>>, sizes)
    BY <1>3, <1>4, <1>5, <1>6, <2>5 DEF Layout
  <2>7. ASSUME Complete(u, c, <<n>>, sizes) PROVE Complete(v, c + 1, <<>>, sizes)
    <3>1. u[Len(u)] = <<Len(sizes), 4 + sizes[Len(sizes)]>>
      BY <2>1, <2>7 DEF Complete
    <3>2. ASSUME Len(v) = 0 PROVE c + 1 = Len(sizes)
      <4>1. n = Len(u)
        BY <1>3, <1>4, <1>5, <3>2
      <4>2. <<c + 1, 4 + n>> = <<Len(sizes), 4 + sizes[Len(sizes)]>>
        BY <2>4, <3>1, <4>1
      <4>3. QED
        BY <4>2
    <3>3. QED
      BY <1>6, <3>1, <3>2 DEF Complete
  <2>8. QED
    BY <1>4, <2>3, <2>6, <2>7 DEF v
<1>9. QED
  BY <1>7, <1>8

(* The connection is cut somewhere. *)
LEMMA CutLayout ==
  ASSUME NEW sizes \in Seq(Nat), NEW u, NEW c, NEW len, Layout(u, c, len, sizes),
         NEW n \in 0..Len(u), NEW v \in Seq(ChunkByte), Len(v) = n, \A i \in 1..n : v[i] = u[i]
  PROVE  Layout(v, c, len, sizes)
<1>1. Run(v, sizes)
  BY RunFirst DEF Layout
<1>2. Len(u) \in Nat
  BY LenProperties DEF Layout
<1>3. Len(v) > 0 => Len(u) > 0 /\ v[1] = u[1]
  BY <1>2
<1>4. QED
  BY <1>1, <1>3 DEF Layout

LEMMA WrittenBytes ==
  ASSUME NEW k \in Nat, NEW n \in Nat
  PROVE  /\ T!Written(k, n) \in Seq(ChunkByte) /\ Len(T!Written(k, n)) = 4 + n
         /\ \A i \in 1..(4 + n) : T!Written(k, n)[i] = <<k, i>>
<1>1. T!Written(k, n) = [i \in 1..(4 + n) |-> <<k, i>>]
  BY DEF T!Written, T!LenBytes
<1>2. \A i \in 1..(4 + n) : <<k, i>> \in ChunkByte
  BY DEF ChunkByte
<1>3. [i \in 1..(4 + n) |-> <<k, i>>] \in Seq(ChunkByte) /\ Len([i \in 1..(4 + n) |-> <<k, i>>]) = 4 + n
  BY <1>2
<1>4. QED
  BY <1>1, <1>3

(* A chunk of n bytes is written behind what is left to read. *)
LEMMA SendLayout ==
  ASSUME NEW sizes \in Seq(Nat), NEW u, NEW c, NEW len, Layout(u, c, len, sizes),
         Complete(u, c, len, sizes), NEW n \in Nat
  PROVE  LET v == u \o T!Written(Len(sizes) + 1, n)
             more == Append(sizes, n)
         IN  Layout(v, c, len, more) /\ Complete(v, c, len, more)
<1> DEFINE k == Len(sizes) + 1
           w == T!Written(k, n)
           v == u \o w
           more == Append(sizes, n)
           L == Len(u)
<1>1. u \in Seq(ChunkByte) /\ c \in 0..Len(sizes) /\ Run(u, sizes)
  BY DEF Layout
<1>2. L \in Nat /\ Len(sizes) \in Nat /\ k \in Nat
  BY <1>1, LenProperties
<1>3. w \in Seq(ChunkByte) /\ Len(w) = 4 + n /\ \A i \in 1..(4 + n) : w[i] = <<k, i>>
  BY <1>2, WrittenBytes
<1>4. /\ more \in Seq(Nat) /\ Len(more) = k /\ more[k] = n
      /\ \A i \in 1..Len(sizes) : more[i] = sizes[i]
  BY <1>2
<1> HIDE DEF w, more
<1>5. /\ v \in Seq(ChunkByte) /\ Len(v) = L + (4 + n)
      /\ \A i \in 1..L : v[i] = u[i]
      /\ \A i \in 1..(4 + n) : v[L + i] = <<k, i>>
  <2>1. Joined(u, w, v, ChunkByte)
    BY <1>1, <1>3, JoinOf
  <2> HIDE DEF v
  <2>2. QED
    BY <1>2, <1>3, <2>1 DEF Joined
<1> HIDE DEF v
<1>6. \A j \in 1..Len(v) : \/ j \in 1..L /\ v[j] = u[j]
                           \/ j > L /\ j - L \in 1..(4 + n) /\ v[j] = <<k, j - L>>
  <2> SUFFICES ASSUME NEW j \in 1..Len(v), ~(j \in 1..L)
               PROVE  j > L /\ j - L \in 1..(4 + n) /\ v[j] = <<k, j - L>>
    BY <1>5
  <2>1. j > L /\ j - L \in 1..(4 + n) /\ L + (j - L) = j
    BY <1>2, <1>5
  <2>2. QED
    BY <1>5, <2>1
<1>7. ASSUME NEW j \in 1..L
      PROVE  /\ u[j] = <<u[j][1], u[j][2]>>
             /\ u[j][1] \in 1..Len(sizes) /\ more[u[j][1]] = sizes[u[j][1]]
             /\ u[j][2] \in 1..(4 + sizes[u[j][1]]) /\ sizes[u[j][1]] \in Nat
  <2>1. /\ u[j] = <<u[j][1], u[j][2]>> /\ u[j][1] \in 1..Len(sizes)
        /\ u[j][2] \in 1..(4 + sizes[u[j][1]])
    BY DEF Layout, Run
  <2>2. QED
    BY <1>4, <2>1, ElementOfSeq
<1>8. L > 0 => u[L] = <<Len(sizes), 4 + sizes[Len(sizes)]>>
  BY DEF Complete
<1> HIDE DEF L, k
<1>9. ASSUME NEW j \in 1..L
      PROVE  u[j][2] + (L - j) >= 4 + sizes[u[j][1]]
  <2> DEFINE K == u[j][1]
             I == u[j][2]
             N == sizes[K]
  <2>1. I \in Nat /\ N \in Nat
    BY <1>7
  <2>2. I + (L - j) <= 4 + N => u[L] = <<K, I + (L - j)>>
    <3>1. L \in 1..L /\ j <= L
      BY <1>2
    <3>2. QED
      BY <1>1, <3>1 DEF Run, L
  <2>3. u[L] = <<K, I + (L - j)>> => I + (L - j) = 4 + N
    <3>1. L > 0
      BY <1>2
    <3>2. QED
      BY <1>8, <3>1
  <2> HIDE DEF I, N, K
  <2>4. I + (L - j) >= 4 + N
    BY <1>2, <2>1, <2>2, <2>3
  <2>5. QED
    BY <2>4 DEF I, N, K
<1>10. ASSUME NEW j \in 1..Len(v)
       PROVE  /\ v[j] = <<v[j][1], v[j][2]>>
              /\ v[j][1] \in 1..Len(more)
              /\ v[j][2] \in 1..(4 + more[v[j][1]])
  <2>1. CASE j \in 1..L /\ v[j] = u[j]
    <3>1. u[j][1] \in 1..Len(more)
      BY <1>2, <1>4, <1>7, <2>1 DEF k
    <3>2. QED
      BY <1>7, <2>1, <3>1, Zenon
  <2>2. CASE j - L \in 1..(4 + n) /\ v[j] = <<k, j - L>>
    <3>1. v[j][1] = k /\ v[j][2] = j - L /\ k \in 1..k
      BY <1>2, <2>2 DEF k
    <3>2. QED
      BY <1>4, <2>2, <3>1
  <2>3. QED
    BY <1>6, <2>1, <2>2
<1>11. ASSUME NEW j \in 1..Len(v), NEW m \in 1..Len(v), j <= m,
              v[j][2] + (m - j) <= 4 + more[v[j][1]]
       PROVE  v[m] = <<v[j][1], v[j][2] + (m - j)>>
  <2>1. CASE j \in 1..L /\ v[j] = u[j] /\ m \in 1..L /\ v[m] = u[m]
    BY <1>1, <1>7, <1>11, <2>1 DEF Run, L
  <2>2. CASE j \in 1..L /\ v[j] = u[j] /\ m > L
    <3> DEFINE I == u[j][2]
               N == sizes[u[j][1]]
    <3>1. I + (m - j) <= 4 + N
      BY <1>7, <1>11, <2>2, Zenon
    <3>2. I \in Nat /\ N \in Nat
      BY <1>7, <2>2
    <3>3. I + (L - j) >= 4 + N
      BY <1>9, <2>2
    <3> HIDE DEF I, N
    <3>4. QED
      BY <1>2, <1>5, <2>2, <3>1, <3>2, <3>3
  <2>3. CASE v[j] = <<k, j - L>> /\ v[m] = <<k, m - L>>
    <3>1. v[j][1] = k /\ v[j][2] = j - L /\ (j - L) + (m - j) = m - L
      BY <1>2, <2>3
    <3>2. QED
      BY <2>3, <3>1
  <2>4. CASE j > L /\ m \in 1..L
    BY <1>2, <1>11, <2>4
  <2>5. QED
    BY <1>6, <2>1, <2>2, <2>3, <2>4
<1>12. ASSUME NEW j \in 1..Len(v), j < Len(v), v[j][2] = 4 + more[v[j][1]]
       PROVE  v[j + 1] = <<v[j][1] + 1, 1>>
  <2>1. CASE j \in 1..L /\ v[j] = u[j] /\ j < L
    <3>1. j + 1 \in 1..L /\ v[j + 1] = u[j + 1]
      BY <1>2, <1>5, <2>1
    <3>2. u[j][2] = 4 + sizes[u[j][1]]
      BY <1>7, <1>12, <2>1
    <3>3. u[j + 1] = <<u[j][1] + 1, 1>>
      BY <1>1, <2>1, <3>2 DEF Run, L
    <3>4. QED
      BY <2>1, <3>1, <3>3
  <2>2. CASE j = L /\ j \in 1..L /\ v[j] = u[j]
    <3>1. v[L + 1] = <<k, 1>> /\ L > 0
      BY <1>2, <1>5, <2>2
    <3>2. v[j][1] = Len(sizes)
      BY <1>8, <2>2, <3>1
    <3>3. QED
      BY <2>2, <3>1, <3>2 DEF k
  <2>3. CASE j - L \in 1..(4 + n) /\ v[j] = <<k, j - L>>
    <3>1. v[j][1] = k /\ v[j][2] = j - L
      BY <2>3
    <3>2. j - L = 4 + n
      BY <1>4, <1>12, <3>1
    <3>3. QED
      BY <1>2, <1>5, <1>12, <3>2
  <2>4. QED
    BY <1>2, <1>6, <2>1, <2>2, <2>3
<1>13. Run(v, more)
  BY <1>10, <1>11, <1>12 DEF Run
<1>14. Len(v) > 0 => v[1] = NextByte(c, len)
  <2>1. CASE L > 0
    <3>1. v[1] = u[1]
      BY <1>2, <1>5, <2>1
    <3>2. QED
      BY <2>1, <3>1 DEF Layout, L
  <2>2. CASE L = 0
    <3>1. v[1] = <<k, 1>>
      BY <1>5, <2>2
    <3>2. CASE len = <<>> /\ c = Len(sizes)
      BY <3>1, <3>2 DEF NextByte, k
    <3>3. CASE len = <<0>> /\ c + 1 = Len(sizes)
      <4>1. c + 2 = k
        BY <1>1, <1>2, <3>3 DEF k
      <4>2. QED
        BY <3>1, <3>3, <4>1 DEF NextByte
    <3>4. QED
      BY <2>2, <3>2, <3>3 DEF Complete, L
  <2>3. QED
    BY <1>2, <2>1, <2>2
<1>15. len = <<>> \/ (c + 1 <= Len(more) /\ len = <<more[c + 1]>>)
  <2>1. len = <<>> \/ (c + 1 <= Len(sizes) /\ len = <<sizes[c + 1]>>)
    BY DEF Layout
  <2>2. c + 1 <= Len(sizes) => c + 1 <= Len(more) /\ more[c + 1] = sizes[c + 1]
    BY <1>1, <1>2, <1>4 DEF k
  <2>3. QED
    BY <2>1, <2>2
<1>16. c \in 0..Len(more)
  BY <1>1, <1>2, <1>4 DEF k
<1>17. Layout(v, c, len, more)
  BY <1>5, <1>13, <1>14, <1>15, <1>16 DEF Layout
<1>18. Complete(v, c, len, more)
  <2>1. v[L + (4 + n)] = <<k, 4 + n>> /\ Len(v) > 0
    <3>1. 4 + n \in 1..(4 + n) /\ Len(v) > 0
      BY <1>2, <1>5
    <3>2. QED
      BY <1>5, <3>1
  <2>2. v[Len(v)] = <<Len(more), 4 + more[Len(more)]>>
    BY <1>4, <1>5, <2>1
  <2>3. QED
    BY <1>2, <1>5, <2>1, <2>2 DEF Complete
<1>19. QED
  BY <1>17, <1>18 DEF v, more, w, k

DataOf(k, sizes) == [i \in 1..sizes[k] |-> <<k, 4 + i>>]

(* What a poll of recv_chunk makes of B, with S still in the socket. *)
Polled(r, S, c, sizes, all) ==
  \/ /\ r.chunk = <<>> /\ r.buffer \in Seq(ChunkByte)
     /\ Layout(r.buffer \o S, c, r.len, sizes)
     /\ all => Complete(r.buffer \o S, c, r.len, sizes)
  \/ /\ r.chunk = <<DataOf(c + 1, sizes)>> /\ r.buffer \in Seq(ChunkByte) /\ c + 1 \in 1..Len(sizes)
     /\ Layout(r.buffer \o S, c + 1, r.len, sizes)
     /\ all => Complete(r.buffer \o S, c + 1, r.len, sizes)

LEMMA DataOfBytes ==
  ASSUME NEW sizes \in Seq(Nat), NEW k \in 1..Len(sizes)
  PROVE  /\ DataOf(k, sizes) \in Seq(ChunkByte) /\ Len(DataOf(k, sizes)) = sizes[k]
         /\ \A i \in 1..sizes[k] : DataOf(k, sizes)[i] = <<k, 4 + i>>
<1> DEFINE n == sizes[k]
<1>1. n \in Nat /\ k \in Nat
  BY ElementOfSeq, LenProperties
<1> HIDE DEF n
<1>2. \A i \in 1..n : <<k, 4 + i>> \in ChunkByte
  BY <1>1 DEF ChunkByte
<1>3. [i \in 1..n |-> <<k, 4 + i>>] \in Seq(ChunkByte) /\ Len([i \in 1..n |-> <<k, 4 + i>>]) = n
  BY <1>1, <1>2
<1>4. QED
  BY <1>3 DEF DataOf, n

(* recv_chunk once the length is known. *)
LEMMA ParsedChunk ==
  ASSUME NEW sizes \in Seq(Nat), NEW B \in Seq(ChunkByte), NEW S \in Seq(ChunkByte), NEW c, NEW len,
         Layout(B \o S, c, len, sizes)
  PROVE  LET r == IF len # <<>> /\ len[1] <= Len(B)
                  THEN [len |-> <<>>, buffer |-> T!After(B, len[1]),
                        chunk |-> <<T!First(B, len[1])>>]
                  ELSE [len |-> len, buffer |-> B, chunk |-> <<>>]
         IN  Polled(r, S, c, sizes, Complete(B \o S, c, len, sizes))
<1> DEFINE taken == [len |-> <<>>, buffer |-> T!After(B, len[1]), chunk |-> <<T!First(B, len[1])>>]
           rest == [len |-> len, buffer |-> B, chunk |-> <<>>]
           all == Complete(B \o S, c, len, sizes)
           u == B \o S
<1>1. Polled(rest, S, c, sizes, all)
  BY DEF Polled
<1>2. ASSUME len # <<>>, len[1] <= Len(B)
      PROVE  Polled(taken, S, c, sizes, all)
  <2> DEFINE n == len[1]
  <2>1. len = <<n>>
    BY <1>2 DEF Layout
  <2>2. Joined(B, S, u, ChunkByte)
    BY JoinOf
  <2> HIDE DEF n, u
  <2>3. Len(u) >= Len(B) /\ Len(B) \in Nat /\ Len(u) \in Nat /\ \A i \in 1..Len(B) : u[i] = B[i]
    BY <2>2 DEF Joined
  <2>4. Layout(u, c, <<n>>, sizes) /\ n <= Len(B)
    BY <1>2, <2>1 DEF n, u
  <2>5. n \in Nat
    <3>1. c + 1 <= Len(sizes) /\ <<n>> = <<sizes[c + 1]>> /\ c \in 0..Len(sizes)
      BY <2>4 DEF Layout
    <3>2. c + 1 \in 1..Len(sizes) /\ n = sizes[c + 1]
      BY <3>1, LenProperties
    <3>3. QED
      BY <3>2, ElementOfSeq
  <2>6. n <= Len(u)
    BY <2>3, <2>4, <2>5
  <2>7. /\ c + 1 \in 1..Len(sizes) /\ n = sizes[c + 1] /\ n \in 0..Len(u)
        /\ \A i \in 1..n : u[i] = <<c + 1, 4 + i>>
        /\ Layout(T!After(u, n), c + 1, <<>>, sizes)
        /\ Complete(u, c, <<n>>, sizes) => Complete(T!After(u, n), c + 1, <<>>, sizes)
    BY <2>4, <2>6, ChunkRead
  <2>8. n \in 0..Len(B)
    BY <2>3, <2>4, <2>5
  <2>9. T!After(u, n) = T!After(B, n) \o S
    BY <2>8, AfterJoin DEF u
  <2>10. T!After(B, n) \in Seq(ChunkByte)
    BY <2>8, AfterOf
  <2>11. T!First(B, n) = DataOf(c + 1, sizes)
    <3>1. /\ T!First(B, n) \in Seq(ChunkByte) /\ Len(T!First(B, n)) = n
          /\ \A i \in 1..n : T!First(B, n)[i] = B[i]
      BY <2>8, FirstOf
    <3>2. /\ DataOf(c + 1, sizes) \in Seq(ChunkByte) /\ Len(DataOf(c + 1, sizes)) = n
          /\ \A i \in 1..n : DataOf(c + 1, sizes)[i] = <<c + 1, 4 + i>>
      BY <2>7, DataOfBytes
    <3>3. \A i \in 1..n : B[i] = <<c + 1, 4 + i>>
      <4>1. \A i \in 1..n : i \in 1..Len(B)
        BY <2>3, <2>8
      <4>2. QED
        BY <2>3, <2>7, <4>1, Zenon
    <3> DEFINE f == T!First(B, n)
               d == DataOf(c + 1, sizes)
    <3> HIDE DEF f, d
    <3>4. f \in Seq(ChunkByte) /\ d \in Seq(ChunkByte) /\ Len(f) = Len(d) /\ \A i \in 1..Len(f) : f[i] = d[i]
      BY <3>1, <3>2, <3>3 DEF f, d
    <3>5. f = d
      BY <3>4, SeqEqual
    <3>6. QED
      BY <3>5 DEF f, d
  <2>12. taken.len = <<>> /\ taken.buffer = T!After(B, n) /\ taken.chunk = <<T!First(B, n)>>
    BY DEF n
  <2>13. all => Complete(u, c, <<n>>, sizes)
    BY <2>1 DEF u
  <2> HIDE DEF all, taken
  <2>14. QED
    BY <2>7, <2>9, <2>10, <2>11, <2>12, <2>13 DEF Polled
<1> HIDE DEF all, taken, rest, u
<1>3. Polled(IF len # <<>> /\ len[1] <= Len(B) THEN taken ELSE rest, S, c, sizes, all)
  <2>1. CASE len # <<>> /\ len[1] <= Len(B)
    <3>1. (IF len # <<>> /\ len[1] <= Len(B) THEN taken ELSE rest) = taken
      BY <2>1
    <3>2. QED
      BY <1>2, <2>1, <3>1
  <2>2. CASE ~(len # <<>> /\ len[1] <= Len(B))
    <3>1. (IF len # <<>> /\ len[1] <= Len(B) THEN taken ELSE rest) = rest
      BY <2>2
    <3>2. QED
      BY <1>1, <3>1
  <2>3. QED
    BY <2>1, <2>2
<1>4. QED
  BY <1>3 DEF taken, rest, all, u

LEMMA LengthBytes ==
  ASSUME NEW k \in Nat
  PROVE  /\ T!Written(k, 0) \in Seq(ChunkByte) /\ Len(T!Written(k, 0)) = 4
         /\ \A i \in 1..4 : T!Written(k, 0)[i] = <<k, i>>
<1> DEFINE w == T!Written(k, 0)
<1>1. w \in Seq(ChunkByte) /\ Len(w) = 4 + 0 /\ \A i \in 1..(4 + 0) : w[i] = <<k, i>>
  BY WrittenBytes
<1>2. 4 + 0 = 4
  OBVIOUS
<1> HIDE DEF w
<1>3. Len(w) = 4 /\ \A i \in 1..4 : w[i] = <<k, i>>
  BY <1>1, <1>2, Zenon
<1>4. QED
  BY <1>1, <1>3 DEF w

(* recv_chunk from one await to the next. *)
LEMMA RecvChunkPolls ==
  ASSUME sent \in Seq(Nat), NEW B \in Seq(ChunkByte), NEW S \in Seq(ChunkByte), NEW c, NEW len,
         Layout(B \o S, c, len, sent)
  PROVE  Polled(T!RecvChunk(len, B), S, c, sent, Complete(B \o S, c, len, sent))
<1> DEFINE u == B \o S
<1>1. Joined(B, S, u, ChunkByte)
  BY JoinOf
<1> HIDE DEF u
<1>2. Len(u) >= Len(B) /\ Len(B) \in Nat /\ Len(u) \in Nat /\ \A i \in 1..Len(B) : u[i] = B[i]
  BY <1>1 DEF Joined
<1>3. CASE ~(len = <<>> /\ Len(B) >= 4)
  <2>1. T!RecvChunk(len, B) = IF len # <<>> /\ len[1] <= Len(B)
                  THEN [len |-> <<>>, buffer |-> T!After(B, len[1]),
                        chunk |-> <<T!First(B, len[1])>>]
                  ELSE [len |-> len, buffer |-> B, chunk |-> <<>>]
    BY <1>3 DEF T!RecvChunk, T!LenBytes
  <2>2. QED
    BY <2>1, ParsedChunk
<1>4. CASE len = <<>> /\ Len(B) >= 4
  <2> DEFINE rest == T!After(B, 4)
             one == <<sent[c + 1]>>
  <2>1. Len(u) >= 4 /\ Layout(u, c, <<>>, sent) /\ 4 \in 0..Len(B)
    BY <1>2, <1>4 DEF u
  <2>2. /\ c + 1 \in 1..Len(sent)
        /\ \A i \in 1..4 : u[i] = <<c + 1, i>>
        /\ Layout(T!After(u, 4), c, one, sent)
        /\ Complete(u, c, <<>>, sent) => Complete(T!After(u, 4), c, one, sent)
    BY <2>1, LengthRead
  <2>3. rest \in Seq(ChunkByte)
    BY <2>1, AfterOf
  <2>4. T!After(u, 4) = rest \o S
    BY <2>1, AfterJoin DEF u
  <2>5. T!First(B, 4) = T!Written(c + 1, 0)
    <3> DEFINE f == T!First(B, 4)
               w == T!Written(c + 1, 0)
    <3>1. f \in Seq(ChunkByte) /\ Len(f) = 4 /\ \A i \in 1..4 : f[i] = B[i]
      BY <2>1, FirstOf
    <3>2. c + 1 \in Nat
      BY <2>2, LenProperties
    <3>3. w \in Seq(ChunkByte) /\ Len(w) = 4 /\ \A i \in 1..4 : w[i] = <<c + 1, i>>
      BY <3>2, LengthBytes
    <3>4. \A i \in 1..4 : B[i] = <<c + 1, i>>
      <4>1. \A i \in 1..4 : i \in 1..Len(B)
        BY <1>2, <2>1
      <4>2. QED
        BY <1>2, <2>2, <4>1, Zenon
    <3> HIDE DEF f, w
    <3>5. Len(f) = Len(w) /\ \A i \in 1..Len(f) : f[i] = w[i]
      BY <3>1, <3>3, <3>4, Zenon
    <3>6. f = w
      BY <3>1, <3>3, <3>5, SeqEqual
    <3>7. QED
      BY <3>6 DEF f, w
  <2>6. T!LengthOf(T!First(B, 4)) = sent[c + 1]
    <3>1. c + 1 \in Nat
      BY <2>2, LenProperties
    <3>2. T!Written(c + 1, 0)[1][1] = c + 1
      <4>1. T!Written(c + 1, 0)[1] = <<c + 1, 1>>
        BY <3>1, LengthBytes
      <4>2. QED
        BY <4>1
    <3>3. QED
      BY <2>5, <3>2 DEF T!LengthOf
  <2>7. T!RecvChunk(len, B) = IF one # <<>> /\ one[1] <= Len(rest)
                  THEN [len |-> <<>>, buffer |-> T!After(rest, one[1]),
                        chunk |-> <<T!First(rest, one[1])>>]
                  ELSE [len |-> one, buffer |-> rest, chunk |-> <<>>]
    BY <1>4, <2>6 DEF T!RecvChunk, T!LenBytes
  <2> HIDE DEF rest, one
  <2>8. Polled(T!RecvChunk(len, B), S, c, sent, Complete(rest \o S, c, one, sent))
    BY <2>2, <2>3, <2>4, <2>7, ParsedChunk
  <2>9. Complete(B \o S, c, len, sent) => Complete(rest \o S, c, one, sent)
    BY <1>4, <2>2, <2>4 DEF u
  <2>10. QED
    BY <2>8, <2>9 DEF Polled
<1>5. QED
  BY <1>3, <1>4

InOrder(s, from, sizes) == \A k \in 1..Len(s) : s[k] = DataOf(from + k, sizes)

Count == Len(received) + Len(chan) + Len(pending)

(* What has been read and not handed out, and what is still to be read. *)
Sound ==
  /\ stream \in Seq(ChunkByte) /\ read_buffer \in Seq(ChunkByte)
  /\ chan \in Seq(Seq(ChunkByte)) /\ pending \in Seq(Seq(ChunkByte))
  /\ InOrder(chan, Len(received), sent)
  /\ InOrder(pending, Len(received) + Len(chan), sent)
  /\ Layout(read_buffer \o stream, Count, read_len, sent)
  /\ broken \/ Complete(read_buffer \o stream, Count, read_len, sent)

(* While recv_chunk runs in the link, and while it waits, nothing is on    *)
(* its way to the reader.                                                  *)
Waits ==
  /\ mode = "link" => pending = <<>> /\ chan = <<>>
  /\ recving => pending = <<>>

(* The inductive invariant.  Once the TcpLinkReader is dropped the task    *)
(* throws chunks away, and only what was read before counts.               *)
TcpInv ==
  /\ sent \in Seq(Nat) /\ received \in Seq(Seq(ChunkByte))
  /\ Len(received) <= Len(sent) /\ InOrder(received, 0, sent)
  /\ mode = "link" => reader = "none"
  /\ reader # "dropped" => Sound /\ Waits

LEMMA TcpInvInit == T!Init => TcpInv
<1> SUFFICES ASSUME T!Init PROVE TcpInv
  OBVIOUS
<1>1. /\ sent = <<>> /\ stream = <<>> /\ read_buffer = <<>> /\ read_len = <<>> /\ chan = <<>>
      /\ pending = <<>> /\ received = <<>> /\ mode = "link" /\ reader = "none"
  BY DEF T!Init
<1>2. Len(<<>>) = 0 /\ <<>> \o <<>> = <<>> /\ 0 + 0 + 0 = 0 /\ 0 + 0 = 0
  OBVIOUS
<1>3. <<>> \in Seq(Nat) /\ <<>> \in Seq(ChunkByte) /\ <<>> \in Seq(Seq(ChunkByte))
  BY EmptySeq
<1>4. \A from : InOrder(<<>>, from, <<>>)
  BY DEF InOrder
<1>5. Layout(<<>>, 0, <<>>, <<>>) /\ Complete(<<>>, 0, <<>>, <<>>)
  BY <1>3 DEF Layout, Complete, Run
<1>6. Sound
  BY <1>1, <1>2, <1>3, <1>4, <1>5 DEF Sound, Count
<1>7. QED
  BY <1>1, <1>2, <1>3, <1>4, <1>6 DEF TcpInv, Waits

(* What is in order stays so when another chunk is sent. *)
LEMMA StaysInOrder ==
  ASSUME NEW sizes \in Seq(Nat), NEW n \in Nat, NEW s, NEW from \in Nat, Len(s) \in Nat,
         from + Len(s) <= Len(sizes), InOrder(s, from, sizes)
  PROVE  InOrder(s, from, Append(sizes, n))
<1>1. Len(sizes) \in Nat
  BY LenProperties
<1>2. \A k \in 1..Len(s) : from + k \in 1..Len(sizes)
  BY <1>1
<1>3. \A i \in 1..Len(sizes) : Append(sizes, n)[i] = sizes[i]
  BY <1>1
<1>4. \A k \in 1..Len(s) : DataOf(from + k, Append(sizes, n)) = DataOf(from + k, sizes)
  BY <1>2, <1>3, Zenon DEF DataOf
<1>5. QED
  BY <1>4 DEF InOrder

(* A chunk that comes next is in order at the end. *)
LEMMA OneMore ==
  ASSUME NEW s \in Seq(Seq(ChunkByte)), NEW from \in Nat, NEW sizes \in Seq(Nat), NEW d \in Seq(ChunkByte),
         InOrder(s, from, sizes), d = DataOf(from + Len(s) + 1, sizes)
  PROVE  /\ s \o <<d>> \in Seq(Seq(ChunkByte)) /\ Len(s \o <<d>>) = Len(s) + 1
         /\ InOrder(s \o <<d>>, from, sizes)
<1> DEFINE t == s \o <<d>>
<1>1. <<d>> \in Seq(Seq(ChunkByte)) /\ Len(<<d>>) = 1 /\ <<d>>[1] = d
  OBVIOUS
<1>2. Joined(s, <<d>>, t, Seq(ChunkByte))
  BY <1>1, JoinOf
<1> HIDE DEF t
<1>3. /\ t \in Seq(Seq(ChunkByte)) /\ Len(t) = Len(s) + 1 /\ Len(s) \in Nat
      /\ \A i \in 1..Len(s) : t[i] = s[i]
      /\ t[Len(s) + 1] = d
  BY <1>1, <1>2 DEF Joined
<1>4. ASSUME NEW k \in 1..Len(t) PROVE t[k] = DataOf(from + k, sizes)
  <2>1. CASE k \in 1..Len(s)
    BY <1>3, <2>1 DEF InOrder
  <2>2. CASE k = Len(s) + 1
    <3>1. from + k = from + Len(s) + 1
      BY <1>3, <2>2
    <3>2. QED
      BY <1>3, <2>2, <3>1
  <2>3. QED
    BY <1>3, <2>1, <2>2
<1>5. QED
  BY <1>3, <1>4 DEF InOrder, t

(* An empty sequence changes nothing. *)
LEMMA NothingMore ==
  ASSUME NEW S, NEW s \in Seq(S)
  PROVE  s \o <<>> = s
<1>1. <<>> \in Seq(S) /\ Len(<<>>) = 0
  BY EmptySeq
<1>2. Joined(s, <<>>, s \o <<>>, S)
  BY <1>1, JoinOf
<1>3. Len(s \o <<>>) = Len(s) /\ \A i \in 1..Len(s) : (s \o <<>>)[i] = s[i]
  BY <1>1, <1>2 DEF Joined
<1>4. QED
  BY <1>2, <1>3, SeqEqual DEF Joined

LEMMA TcpSend ==
  ASSUME TcpInv, reader # "dropped", NEW n \in Lengths, T!Send(n)
  PROVE  TcpInv'
<1>1. n \in Nat
  BY LengthsAssumption
<1>2. /\ UNCHANGED <<broken, read_len, read_buffer, recving, mode, pending, chan, reader, received>>
  BY DEF T!Send
<1>3. CASE sent' = sent /\ stream' = stream
  BY <1>2, <1>3 DEF TcpInv, Sound, Waits, Count
<1>4. CASE /\ ~broken /\ sent' = Append(sent, n)
           /\ stream' = stream \o T!Written(Len(sent) + 1, n)
  <2> DEFINE w == T!Written(Len(sent) + 1, n)
             u == read_buffer \o stream
             c == Len(received) + Len(chan) + Len(pending)
  <2>1. /\ sent \in Seq(Nat) /\ stream \in Seq(ChunkByte) /\ read_buffer \in Seq(ChunkByte)
        /\ Layout(u, c, read_len, sent) /\ Complete(u, c, read_len, sent)
    BY <1>4 DEF TcpInv, Sound, Count
  <2>2. Len(sent) \in Nat /\ Len(sent) + 1 \in Nat
    BY <2>1, LenProperties
  <2>3. w \in Seq(ChunkByte)
    BY <1>1, <2>2, WrittenBytes
  <2>4. read_buffer \o (stream \o w) = u \o w /\ stream \o w \in Seq(ChunkByte)
    <3> HIDE DEF w
    <3>1. (read_buffer \o stream) \o w = read_buffer \o (stream \o w)
      BY <2>1, <2>3, ConcatAssociative
    <3>2. Joined(stream, w, stream \o w, ChunkByte)
      BY <2>1, <2>3, JoinOf
    <3>3. QED
      BY <3>1, <3>2 DEF Joined
  <2>5. Layout(u \o w, c, read_len, sent') /\ Complete(u \o w, c, read_len, sent')
    <3> HIDE DEF u, c
    <3>1. QED
      BY <1>1, <1>4, <2>1, SendLayout
  <2>6. /\ Len(received) \in Nat /\ Len(chan) \in Nat /\ Len(pending) \in Nat
        /\ Len(received) + Len(chan) + Len(pending) <= Len(sent)
    <3>1. Len(received) \in Nat /\ Len(chan) \in Nat /\ Len(pending) \in Nat
      BY LenProperties DEF TcpInv, Sound
    <3>2. c \in 0..Len(sent)
      BY <2>1 DEF Layout
    <3>3. QED
      BY <2>2, <3>1, <3>2
  <2>7. InOrder(received, 0, sent') /\ InOrder(chan, Len(received), sent')
    <3>1. /\ 0 + Len(received) <= Len(sent) /\ Len(received) + Len(chan) <= Len(sent)
      BY <2>2, <2>6
    <3>2. InOrder(received, 0, sent) /\ InOrder(chan, Len(received), sent)
      BY DEF TcpInv, Sound
    <3>3. QED
      BY <1>1, <1>4, <2>1, <2>6, <3>1, <3>2, StaysInOrder
  <2>8. InOrder(pending, Len(received) + Len(chan), sent')
    <3>1. Len(received) + Len(chan) \in Nat
      BY <2>6
    <3>2. InOrder(pending, Len(received) + Len(chan), sent)
      BY DEF TcpInv, Sound
    <3>3. QED
      BY <1>1, <1>4, <2>1, <2>6, <3>1, <3>2, StaysInOrder
  <2>9. sent' \in Seq(Nat) /\ Len(received) <= Len(sent')
    <3>1. Append(sent, n) \in Seq(Nat) /\ Len(Append(sent, n)) = Len(sent) + 1
      BY <1>1, <2>1
    <3>2. QED
      BY <1>4, <2>2, <2>6, <3>1
  <2>10. Sound'
    <3>1. stream' = stream \o w /\ c' = c /\ Count' = c
      BY <1>2, <1>4 DEF Count
    <3>2. read_buffer' \o stream' = u \o w /\ stream' \in Seq(ChunkByte)
      BY <1>2, <2>4, <3>1
    <3> HIDE DEF u, w, c
    <3>3. QED
      BY <1>2, <2>5, <2>7, <2>8, <3>1, <3>2 DEF TcpInv, Sound
  <2>11. QED
    BY <1>2, <2>7, <2>9, <2>10 DEF TcpInv, Waits
<1>5. QED
  BY <1>3, <1>4 DEF T!Send

LEMMA TcpBreak ==
  ASSUME TcpInv, reader # "dropped", T!Break
  PROVE  TcpInv'
<1> DEFINE u == read_buffer \o stream
           v == read_buffer \o stream'
<1>1. /\ UNCHANGED <<sent, read_len, read_buffer, recving, mode, pending, chan, reader, received>>
      /\ broken' = TRUE
  BY DEF T!Break
<1>2. PICK n \in 0..Len(stream) : stream' = T!First(stream, n)
  BY DEF T!Break
<1>3. /\ stream \in Seq(ChunkByte) /\ read_buffer \in Seq(ChunkByte) /\ sent \in Seq(Nat)
      /\ Layout(u, Count, read_len, sent)
  BY DEF TcpInv, Sound
<1>4. /\ stream' \in Seq(ChunkByte) /\ Len(stream') = n /\ \A i \in 1..n : stream'[i] = stream[i]
  BY <1>2, <1>3, FirstOf
<1>5. Joined(read_buffer, stream, u, ChunkByte) /\ Joined(read_buffer, stream', v, ChunkByte)
  BY <1>3, <1>4, JoinOf
<1> HIDE DEF u, v
<1> DEFINE L == Len(read_buffer)
<1>6. /\ v \in Seq(ChunkByte) /\ L \in Nat /\ Len(stream) \in Nat /\ Len(v) = L + n
      /\ Len(u) = L + Len(stream)
      /\ \A i \in 1..L : u[i] = v[i]
      /\ \A i \in 1..n : u[L + i] = v[L + i]
  <2>1. \A i \in 1..n : i \in 1..Len(stream)
    BY <1>3, LenProperties
  <2>2. QED
    BY <1>4, <1>5, <2>1 DEF Joined
<1> HIDE DEF L
<1>7. Len(v) \in 0..Len(u) /\ \A i \in 1..Len(v) : v[i] = u[i]
  <2>1. Len(v) \in 0..Len(u)
    BY <1>6
  <2>2. ASSUME NEW i \in 1..Len(v) PROVE v[i] = u[i]
    <3>1. CASE i \in 1..L
      BY <1>6, <3>1
    <3>2. CASE i \notin 1..L
      <4>1. i - L \in 1..n /\ L + (i - L) = i
        BY <1>6, <3>2
      <4>2. QED
        BY <1>6, <4>1
    <3>3. QED
      BY <3>1, <3>2
  <2>3. QED
    BY <2>1, <2>2
<1>8. Layout(v, Count, read_len, sent)
  BY <1>3, <1>6, <1>7, CutLayout
<1>9. Count' = Count /\ read_buffer' \o stream' = v
  BY <1>1 DEF Count, v
<1>10. Sound'
  BY <1>1, <1>4, <1>8, <1>9 DEF TcpInv, Sound
<1>11. QED
  BY <1>1, <1>10 DEF TcpInv, Waits

(* A poll with the buffer B, of bytes that come before what stays in the   *)
(* socket.                                                                 *)
LEMMA TcpPoll ==
  ASSUME TcpInv, reader # "dropped", NEW B \in Seq(ChunkByte), stream' \in Seq(ChunkByte),
         pending = <<>>, B \o stream' = read_buffer \o stream, T!Poll(B),
         UNCHANGED <<sent, broken, mode, chan, reader>>
  PROVE  TcpInv'
<1> DEFINE r == T!RecvChunk(read_len, B)
           u == read_buffer \o stream
           c == Len(received) + Len(chan)
           d == DataOf(c + 1, sent)
           ok == Complete(B \o stream', c, read_len, sent)
           w == r.buffer \o stream'
<1>1. /\ read_len' = r.len /\ read_buffer' = r.buffer /\ recving' = (r.chunk = <<>>)
      /\ mode = "link" => received' = received \o r.chunk /\ pending' = pending
      /\ mode # "link" => received' = received /\ pending' = r.chunk
  BY DEF T!Poll
<1>2. /\ sent \in Seq(Nat) /\ received \in Seq(Seq(ChunkByte)) /\ chan \in Seq(Seq(ChunkByte))
      /\ InOrder(received, 0, sent) /\ InOrder(chan, Len(received), sent)
      /\ mode = "link" => chan = <<>> /\ reader = "none"
  BY DEF TcpInv, Sound, Waits
<1>3. Len(received) \in Nat /\ Len(chan) \in Nat /\ Len(<<>>) = 0 /\ Len(sent) \in Nat /\ c \in Nat
  BY <1>2, LenProperties
<1>4. Count = c
  BY <1>3 DEF Count
<1>5. Layout(B \o stream', c, read_len, sent) /\ (broken \/ ok)
  BY <1>4 DEF TcpInv, Sound
<1>6. Polled(r, stream', c, sent, ok)
  BY <1>2, <1>5, RecvChunkPolls
<1>7. <<>> \in Seq(Seq(ChunkByte)) /\ InOrder(<<>>, c, sent)
  BY EmptySeq DEF InOrder
<1> HIDE DEF r, c, ok
<1>8. CASE /\ r.chunk = <<>> /\ r.buffer \in Seq(ChunkByte)
           /\ Layout(w, c, r.len, sent) /\ (ok => Complete(w, c, r.len, sent))
  <2>1. received' = received /\ pending' = <<>>
    BY <1>1, <1>2, <1>8, NothingMore
  <2>2. Count' = c /\ Len(received') + Len(chan') = c
    BY <1>3, <2>1 DEF Count, c
  <2>3. Sound'
    BY <1>1, <1>2, <1>5, <1>7, <1>8, <2>1, <2>2 DEF Sound
  <2>4. QED
    BY <1>2, <2>1, <2>3 DEF TcpInv, Waits
<1>9. CASE /\ r.chunk = <<d>> /\ r.buffer \in Seq(ChunkByte) /\ c + 1 \in 1..Len(sent)
           /\ Layout(w, c + 1, r.len, sent) /\ (ok => Complete(w, c + 1, r.len, sent))
  <2>1. d \in Seq(ChunkByte)
    BY <1>2, <1>9, DataOfBytes
  <2>2. ~recving'
    <3>1. Len(<<d>>) # Len(<<>>)
      OBVIOUS
    <3>2. <<d>> # <<>>
      BY <3>1
    <3>3. QED
      BY <1>1, <1>9, <3>2, Zenon
  <2> HIDE DEF d
  <2>3. CASE mode = "link"
    <3>1. received' = received \o <<d>> /\ pending' = <<>> /\ chan' = <<>> /\ chan = <<>>
      BY <1>1, <1>2, <1>9, <2>3
    <3>2. 0 + Len(received) + 1 = c + 1
      BY <1>3, <3>1 DEF c
    <3>3. /\ received' \in Seq(Seq(ChunkByte)) /\ Len(received') = Len(received) + 1
          /\ InOrder(received', 0, sent)
      <4>1. d = DataOf(0 + Len(received) + 1, sent)
        BY <3>2 DEF d
      <4>2. QED
        BY <1>2, <2>1, <3>1, <4>1, OneMore
    <3>4. Len(received') <= Len(sent) /\ Count' = c + 1
      BY SMTT(30), <1>3, <1>9, <3>1, <3>2, <3>3 DEF Count, c
    <3>5. \A from : InOrder(<<>>, from, sent)
      BY DEF InOrder
    <3>6. Sound'
      BY <1>1, <1>5, <1>7, <1>9, <3>1, <3>4, <3>5 DEF Sound
    <3>7. QED
      BY <1>2, <3>1, <3>3, <3>4, <3>6 DEF TcpInv, Waits
  <2>4. CASE mode # "link"
    <3>1. received' = received /\ pending' = <<d>>
      BY <1>1, <1>9, <2>4
    <3>2. <<d>> \in Seq(Seq(ChunkByte)) /\ Len(<<d>>) = 1 /\ <<d>>[1] = d
      BY <2>1
    <3>3. InOrder(pending', c, sent) /\ Len(pending') = 1 /\ pending' \in Seq(Seq(ChunkByte))
      BY <3>1, <3>2 DEF InOrder, d
    <3>4. Count' = c + 1 /\ Len(received') + Len(chan') = c
      BY <1>3, <3>1, <3>3 DEF Count, c
    <3>5. Sound'
      BY <1>1, <1>2, <1>5, <1>9, <3>1, <3>3, <3>4 DEF Sound
    <3>6. QED
      BY <1>2, <2>2, <2>4, <3>1, <3>5 DEF TcpInv, Waits
  <2>5. QED
    BY <2>3, <2>4
<1>10. QED
  BY <1>6, <1>8, <1>9 DEF Polled

LEMMA TcpReadSome ==
  ASSUME TcpInv, reader # "dropped", NEW n, T!ReadSome(n)
  PROVE  TcpInv'
<1> DEFINE f == T!First(stream, n)
           a == T!After(stream, n)
<1>1. /\ recving /\ n \in 1..Len(stream) /\ stream' = a /\ T!Poll(read_buffer \o f)
      /\ UNCHANGED <<sent, broken, mode, chan, reader>>
  BY DEF T!ReadSome
<1>2. stream \in Seq(ChunkByte) /\ read_buffer \in Seq(ChunkByte) /\ pending = <<>>
  BY <1>1 DEF TcpInv, Sound, Waits
<1>3. n \in 0..Len(stream)
  BY <1>1, <1>2, LenProperties
<1>4. /\ f \in Seq(ChunkByte) /\ Len(f) = n /\ \A i \in 1..n : f[i] = stream[i]
  BY <1>2, <1>3, FirstOf
<1>5. /\ a \in Seq(ChunkByte) /\ Len(a) = Len(stream) - n
      /\ \A i \in 1..(Len(stream) - n) : a[i] = stream[n + i]
  BY <1>2, <1>3, AfterOf
<1> HIDE DEF f, a
<1>6. f \o a = stream
  <2>1. Joined(f, a, f \o a, ChunkByte)
    BY <1>4, <1>5, JoinOf
  <2> DEFINE s == f \o a
  <2> HIDE DEF s
  <2>2. Len(s) = Len(stream) /\ \A i \in 1..Len(s) : s[i] = stream[i]
    <3>1. Len(s) = Len(stream) /\ Len(stream) \in Nat
      BY <1>2, <1>3, <1>4, <1>5, <2>1, LenProperties DEF Joined, s
    <3>2. ASSUME NEW i \in 1..Len(s) PROVE s[i] = stream[i]
      <4>1. CASE i \in 1..n
        BY <1>4, <2>1, <4>1 DEF Joined, s
      <4>2. CASE i \notin 1..n
        <5>1. i - n \in 1..(Len(stream) - n) /\ n + (i - n) = i
          BY <1>3, <3>1, <4>2
        <5>2. s[n + (i - n)] = a[i - n]
          BY <1>4, <1>5, <2>1, <5>1 DEF Joined, s
        <5>3. QED
          BY <1>5, <5>1, <5>2
      <4>3. QED
        BY <4>1, <4>2
    <3>3. QED
      BY <3>1, <3>2
  <2>3. s \in Seq(ChunkByte)
    BY <2>1 DEF Joined, s
  <2>4. s = stream
    BY <1>2, <2>2, <2>3, SeqEqual
  <2>5. QED
    BY <2>4 DEF s
<1>7. (read_buffer \o f) \o a = read_buffer \o stream
  <2>1. (read_buffer \o f) \o a = read_buffer \o (f \o a)
    <3>1. read_buffer \in Seq(ChunkByte) /\ f \in Seq(ChunkByte) /\ a \in Seq(ChunkByte)
      BY <1>2, <1>4, <1>5
    <3>2. QED
      BY ONLY <3>1, ConcatAssociative
  <2>2. QED
    BY <1>6, <2>1
<1>8. read_buffer \o f \in Seq(ChunkByte)
  <2>1. Joined(read_buffer, f, read_buffer \o f, ChunkByte)
    BY <1>2, <1>4, JoinOf
  <2>2. QED
    BY <2>1 DEF Joined
<1>9. QED
  BY <1>1, <1>2, <1>5, <1>7, <1>8, TcpPoll

LEMMA TcpRecv ==
  ASSUME TcpInv, reader # "dropped", T!Recv
  PROVE  TcpInv'
<1>1. /\ pending = <<>> /\ T!Poll(read_buffer)
      /\ UNCHANGED <<sent, stream, broken, mode, chan, reader>>
  BY DEF T!Recv
<1>2. stream \in Seq(ChunkByte) /\ read_buffer \in Seq(ChunkByte)
  BY DEF TcpInv, Sound
<1>3. stream' \in Seq(ChunkByte) /\ read_buffer \o stream' = read_buffer \o stream
  BY <1>1, <1>2
<1>4. QED
  BY <1>1, <1>2, <1>3, TcpPoll

LEMMA TcpForward ==
  ASSUME TcpInv, reader # "dropped", T!Forward
  PROVE  TcpInv'
<1>1. /\ pending # <<>> /\ pending' = <<>> /\ chan' = chan \o pending
      /\ UNCHANGED <<sent, stream, broken, read_len, read_buffer, recving, mode, reader, received>>
  BY DEF T!Forward
<1>2. /\ chan \in Seq(Seq(ChunkByte)) /\ pending \in Seq(Seq(ChunkByte)) /\ received \in Seq(Seq(ChunkByte))
      /\ InOrder(chan, Len(received), sent) /\ InOrder(pending, Len(received) + Len(chan), sent)
  BY DEF TcpInv, Sound
<1>3. Joined(chan, pending, chan \o pending, Seq(ChunkByte))
  BY <1>2, JoinOf
<1>4. Len(received) \in Nat
  BY <1>2, LenProperties
<1>5. InOrder(chan', Len(received), sent) /\ Len(chan') = Len(chan) + Len(pending)
  <2>1. /\ Len(chan') = Len(chan) + Len(pending) /\ Len(chan) \in Nat /\ Len(pending) \in Nat
        /\ \A i \in 1..Len(chan) : chan'[i] = chan[i]
        /\ \A i \in 1..Len(pending) : chan'[Len(chan) + i] = pending[i]
    BY <1>1, <1>3 DEF Joined
  <2>2. ASSUME NEW k \in 1..(Len(chan) + Len(pending))
        PROVE  chan'[k] = DataOf(Len(received) + k, sent)
    <3>1. CASE k \in 1..Len(chan)
      BY <1>2, <2>1, <3>1 DEF InOrder
    <3>2. CASE k \notin 1..Len(chan)
      <4> DEFINE i == k - Len(chan)
      <4>1. /\ i \in 1..Len(pending) /\ Len(chan) + i = k
            /\ Len(received) + Len(chan) + i = Len(received) + k
        BY <1>4, <2>1, <3>2
      <4> HIDE DEF i
      <4>2. QED
        BY <1>2, <2>1, <4>1 DEF InOrder
    <3>3. QED
      BY <3>1, <3>2
  <2>3. QED
    BY <2>1, <2>2 DEF InOrder
<1>6. Count' = Count
  <2>1. Len(pending') = 0 /\ Len(chan) \in Nat /\ Len(pending) \in Nat
    BY <1>1, <1>3 DEF Joined
  <2>2. QED
    BY <1>1, <1>4, <1>5, <2>1 DEF Count
<1>7. chan' \in Seq(Seq(ChunkByte)) /\ pending' \in Seq(Seq(ChunkByte)) /\ \A from : InOrder(pending', from, sent)
  BY <1>1, <1>3, EmptySeq DEF Joined, InOrder
<1>8. Sound'
  BY <1>1, <1>5, <1>6, <1>7 DEF TcpInv, Sound
<1>9. mode # "link"
  BY <1>1 DEF TcpInv, Waits
<1>10. QED
  BY <1>1, <1>8, <1>9 DEF TcpInv, Waits

LEMMA TcpReadChunk ==
  ASSUME TcpInv, reader # "dropped", T!ReadChunk
  PROVE  TcpInv'
<1>1. /\ chan # <<>> /\ received' = Append(received, Head(chan)) /\ chan' = Tail(chan)
      /\ UNCHANGED <<sent, stream, broken, read_len, read_buffer, recving, mode, pending, reader>>
  BY DEF T!ReadChunk
<1>2. /\ chan \in Seq(Seq(ChunkByte)) /\ received \in Seq(Seq(ChunkByte)) /\ sent \in Seq(Nat)
      /\ InOrder(received, 0, sent) /\ InOrder(chan, Len(received), sent)
      /\ pending \in Seq(Seq(ChunkByte))
      /\ Layout(read_buffer \o stream, Count, read_len, sent)
  BY DEF TcpInv, Sound
<1>3. /\ Len(received) \in Nat /\ Len(chan) \in Nat /\ Len(pending) \in Nat /\ Len(sent) \in Nat
      /\ Count \in 0..Len(sent)
  BY <1>2, LenProperties DEF Layout
<1>4. /\ chan[1] = Head(chan) /\ Head(chan) \in Seq(ChunkByte) /\ 1 \in 1..Len(chan)
      /\ chan' \in Seq(Seq(ChunkByte)) /\ Len(chan') = Len(chan) - 1
      /\ \A i \in 1..(Len(chan) - 1) : chan'[i] = chan[i + 1]
  BY <1>1, <1>2
<1>5. /\ received' \in Seq(Seq(ChunkByte)) /\ Len(received') = Len(received) + 1
      /\ \A i \in 1..Len(received) : received'[i] = received[i]
      /\ received'[Len(received) + 1] = Head(chan)
  BY <1>1, <1>2, <1>4
<1>6. InOrder(received', 0, sent)
  <2>1. ASSUME NEW k \in 1..(Len(received) + 1) PROVE received'[k] = DataOf(0 + k, sent)
    <3>1. CASE k \in 1..Len(received)
      BY <1>2, <1>5, <3>1 DEF InOrder
    <3>2. CASE k = Len(received) + 1
      <4>1. Head(chan) = DataOf(Len(received) + 1, sent) /\ 0 + k = Len(received) + 1
        BY <1>2, <1>3, <1>4, <3>2 DEF InOrder
      <4>2. QED
        BY <1>5, <3>2, <4>1
    <3>3. QED
      BY <1>3, <3>1, <3>2
  <2>2. QED
    BY <1>5, <2>1 DEF InOrder
<1>7. InOrder(chan', Len(received'), sent)
  <2>1. ASSUME NEW k \in 1..(Len(chan) - 1)
        PROVE  chan'[k] = DataOf(Len(received) + 1 + k, sent)
    <3>1. k + 1 \in 1..Len(chan) /\ Len(received) + (k + 1) = Len(received) + 1 + k
      BY <1>3
    <3>2. QED
      BY <1>2, <1>4, <3>1 DEF InOrder
  <2>2. QED
    BY <1>4, <1>5, <2>1 DEF InOrder
<1>8. /\ Count' = Count /\ Len(received') + Len(chan') = Len(received) + Len(chan)
      /\ Len(received') <= Len(sent)
  BY <1>1, <1>3, <1>4, <1>5 DEF Count
<1>9. Sound'
  BY <1>1, <1>4, <1>7, <1>8 DEF TcpInv, Sound
<1>10. mode # "link"
  BY <1>1 DEF TcpInv, Waits
<1>11. QED
  BY <1>1, <1>5, <1>6, <1>8, <1>9, <1>10 DEF TcpInv, Waits

(* The steps that move no byte. *)
LEMMA TcpQuiet ==
  ASSUME TcpInv, reader # "dropped", T!ReadEnd \/ T!DropRecv \/ T!TakeReader \/ T!DropReader
  PROVE  TcpInv'
<1>1. CASE T!ReadEnd
  BY <1>1 DEF TcpInv, Sound, Waits, Count, T!ReadEnd
<1>2. CASE T!DropRecv
  BY <1>2 DEF TcpInv, Sound, Waits, Count, T!DropRecv
<1>3. CASE T!TakeReader
  BY <1>3 DEF TcpInv, Sound, Waits, Count, T!TakeReader
<1>4. CASE T!DropReader
  <2>1. mode # "link"
    BY <1>4 DEF TcpInv, T!DropReader
  <2>2. QED
    BY <1>4, <2>1 DEF TcpInv, T!DropReader
<1>5. QED
  BY <1>1, <1>2, <1>3, <1>4

(* With the TcpLinkReader gone nothing more is received. *)
LEMMA TcpDropped ==
  ASSUME TcpInv, reader = "dropped", T!Next
  PROVE  TcpInv'
<1>1. mode # "link"
  BY DEF TcpInv
<1>2. mode' # "link" /\ reader' = reader /\ received' = received
  BY <1>1 DEF T!Next, T!Send, T!Break, T!Recv, T!ReadSome, T!Poll, T!ReadEnd, T!DropRecv,
              T!TakeReader, T!Forward, T!ReadChunk, T!DropReader
<1>3. sent' = sent \/ \E n \in Lengths : sent' = Append(sent, n)
  BY DEF T!Next, T!Send, T!Break, T!Recv, T!ReadSome, T!ReadEnd, T!DropRecv,
         T!TakeReader, T!Forward, T!ReadChunk, T!DropReader
<1>4. CASE sent' = sent
  BY <1>2, <1>4 DEF TcpInv
<1>5. ASSUME NEW n \in Lengths, sent' = Append(sent, n)
      PROVE  TcpInv'
  <2>1. /\ n \in Nat /\ sent \in Seq(Nat) /\ received \in Seq(Seq(ChunkByte))
        /\ Len(received) <= Len(sent) /\ InOrder(received, 0, sent)
    BY LengthsAssumption DEF TcpInv
  <2>2. Len(received) \in Nat /\ Len(sent) \in Nat /\ 0 + Len(received) <= Len(sent)
    BY <2>1, LenProperties
  <2>3. InOrder(received, 0, sent')
    BY <1>5, <2>1, <2>2, StaysInOrder
  <2>4. sent' \in Seq(Nat) /\ Len(sent') = Len(sent) + 1
    BY <1>5, <2>1
  <2>5. QED
    BY <1>2, <2>1, <2>2, <2>3, <2>4 DEF TcpInv
<1>6. QED
  BY <1>3, <1>4, <1>5

LEMMA TcpInductive == T!Spec => []TcpInv
<1>1. TcpInv /\ [T!Next]_(T!vars) => TcpInv'
  <2> SUFFICES ASSUME TcpInv, [T!Next]_(T!vars) PROVE TcpInv'
    OBVIOUS
  <2>1. CASE UNCHANGED T!vars
    BY <2>1 DEF T!vars, TcpInv, Sound, Waits, Count
  <2>2. CASE T!Next /\ reader = "dropped"
    BY <2>2, TcpDropped
  <2>3. CASE T!Next /\ reader # "dropped"
    <3>1. ASSUME NEW n \in Lengths, T!Send(n) PROVE TcpInv'
      BY <2>3, <3>1, TcpSend
    <3>2. ASSUME NEW n \in 1..ReadSize, T!ReadSome(n) PROVE TcpInv'
      BY <2>3, <3>2, TcpReadSome
    <3>3. QED
      BY <2>3, <3>1, <3>2, TcpBreak, TcpRecv, TcpForward, TcpReadChunk, TcpQuiet DEF T!Next
  <2>4. QED
    BY <2>1, <2>2, <2>3
<1>2. QED
  BY <1>1, TcpInvInit, PTL DEF T!Spec

(* TcpLink: whatever pieces the bytes come in, however often the future of *)
(* recv is dropped, and wherever in a chunk take_reader and the end of the *)
(* connection come, the chunks read are the first ones sent, whole, in     *)
(* order, each once.                                                       *)
THEOREM TcpReadsAPrefix == T!Spec => []ReadIsPrefix
<1>1. TcpInv => ReadIsPrefix
  <2> SUFFICES ASSUME TcpInv PROVE ReadIsPrefix
    OBVIOUS
  <2>1. DOMAIN received = 1..Len(received)
    BY LenProperties DEF TcpInv
  <2>2. \A k \in 1..Len(received) : received[k] = T!Data(k)
    <3>1. \A k \in 1..Len(received) : 0 + k = k /\ received[k] = DataOf(0 + k, sent)
      BY DEF TcpInv, InOrder
    <3>2. \A k : DataOf(k, sent) = T!Data(k)
      BY DEF DataOf, T!Data, T!LenBytes
    <3>3. QED
      BY <3>1, <3>2
  <2>3. QED
    BY <2>1, <2>2 DEF ReadIsPrefix, T!ReadIsPrefix, TcpInv
<1>2. QED
  BY <1>1, TcpInductive, PTL

-----------------------------------------------------------------------------
(* PipeLink *)

Rising(s) == \A i, j \in DOMAIN s : i < j => s[i] < s[j]
Precedes(s, t) == \A i \in DOMAIN s, j \in DOMAIN t : s[i] < t[j]
Within(s, n) == \A i \in DOMAIN s : s[i] \in 1..n

(* The chunks read, the one a read is about to return, the one kept for    *)
(* the next read and those in the channel: each was sent, and after all    *)
(* those before it.                                                        *)
Chunks ==
  /\ Rising(got) /\ Rising(rx)
  /\ Precedes(got, held) /\ Precedes(got, peeked) /\ Precedes(got, rx)
  /\ Precedes(held, rx) /\ Precedes(peeked, rx)
  /\ Within(got, sends) /\ Within(held, sends) /\ Within(peeked, sends) /\ Within(rx, sends)

PipeInv ==
  /\ sends \in Nat
  /\ got \in Seq(Nat) /\ rx \in Seq(Nat) /\ held \in Seq(Nat) /\ peeked \in Seq(Nat)
  /\ held # <<>> <=> read = "again"
  /\ read \in {"again", "select"} => peeked = <<>>
  /\ read = "sleep" => peeked # <<>>
  /\ Chunks

(* What the steps do to a sequence: nothing is appended that is not larger *)
(* than all that is there, and only the head is taken away.                *)
LEMMA EmptyChunks ==
  ASSUME NEW s, NEW n
  PROVE  Rising(<<>>) /\ Precedes(<<>>, s) /\ Precedes(s, <<>>) /\ Within(<<>>, n)
BY DEF Rising, Precedes, Within

LEMMA WithinLater ==
  ASSUME NEW s \in Seq(Nat), NEW n \in Nat, Within(s, n)
  PROVE  Within(s, n + 1)
BY DEF Within

LEMMA AppendedChunk ==
  ASSUME NEW s \in Seq(Nat), NEW x \in Nat
  PROVE  /\ Append(s, x) \in Seq(Nat)
         /\ \A i \in DOMAIN Append(s, x) : \/ i \in DOMAIN s /\ Append(s, x)[i] = s[i]
                                           \/ i = Len(s) + 1 /\ Append(s, x)[i] = x
         /\ DOMAIN s = 1..Len(s) /\ DOMAIN Append(s, x) = 1..(Len(s) + 1)
OBVIOUS

LEMMA AppendChunk ==
  ASSUME NEW s \in Seq(Nat), NEW x \in Nat, NEW n \in Nat, NEW t \in Seq(Nat)
  PROVE  /\ Rising(s) /\ Precedes(s, <<x>>) => Rising(Append(s, x))
         /\ Precedes(s, t) /\ Precedes(<<x>>, t) => Precedes(Append(s, x), t)
         /\ Precedes(t, s) /\ Precedes(t, <<x>>) => Precedes(t, Append(s, x))
         /\ Within(s, n) /\ x \in 1..n => Within(Append(s, x), n)
<1> DEFINE u == Append(s, x)
<1>1. /\ u \in Seq(Nat) /\ DOMAIN s = 1..Len(s) /\ Len(s) \in Nat /\ DOMAIN u = 1..(Len(s) + 1)
      /\ \A i \in DOMAIN u : \/ i \in DOMAIN s /\ u[i] = s[i]
                             \/ i = Len(s) + 1 /\ u[i] = x
  BY AppendedChunk
<1>2. DOMAIN <<x>> = {1} /\ <<x>>[1] = x
  OBVIOUS
<1> HIDE DEF u
<1>3. ASSUME Rising(s), Precedes(s, <<x>>) PROVE Rising(u)
  <2>1. \A i \in DOMAIN s : s[i] < x
    BY <1>2, <1>3 DEF Precedes
  <2>2. ASSUME NEW i \in DOMAIN u, NEW j \in DOMAIN u, i < j PROVE u[i] < u[j]
    <3>1. i # Len(s) + 1
      BY <1>1, <2>2
    <3>2. QED
      BY <1>1, <1>3, <2>1, <2>2, <3>1 DEF Rising
  <2>3. QED
    BY <2>2 DEF Rising
<1>4. Precedes(s, t) /\ Precedes(<<x>>, t) => Precedes(u, t)
  BY <1>1, <1>2 DEF Precedes
<1>5. ASSUME Precedes(t, s), Precedes(t, <<x>>) PROVE Precedes(t, u)
  <2>1. \A i \in DOMAIN t : t[i] < x
    BY <1>2, <1>5 DEF Precedes
  <2>2. QED
    BY <1>1, <1>5, <2>1 DEF Precedes
<1>6. Within(s, n) /\ x \in 1..n => Within(u, n)
  BY <1>1 DEF Within
<1>7. QED
  BY <1>3, <1>4, <1>5, <1>6 DEF u

LEMMA TakeChunk ==
  ASSUME NEW s \in Seq(Nat), s # <<>>, NEW n \in Nat, NEW t \in Seq(Nat)
  PROVE  /\ Head(s) \in Nat /\ Tail(s) \in Seq(Nat)
         /\ Rising(s) => Rising(Tail(s)) /\ Precedes(<<Head(s)>>, Tail(s))
         /\ Precedes(s, t) => Precedes(<<Head(s)>>, t)
         /\ Precedes(t, s) => Precedes(t, Tail(s)) /\ Precedes(t, <<Head(s)>>)
         /\ Within(s, n) => Within(Tail(s), n) /\ Head(s) \in 1..n
<1> DEFINE u == Tail(s)
           x == Head(s)
<1>1. /\ x \in Nat /\ u \in Seq(Nat) /\ 1 \in DOMAIN s /\ x = s[1]
      /\ \A i \in DOMAIN u : i \in Nat /\ i + 1 \in DOMAIN s /\ 1 < i + 1 /\ u[i] = s[i + 1]
  OBVIOUS
<1>2. DOMAIN <<x>> = {1} /\ <<x>>[1] = x
  OBVIOUS
<1> HIDE DEF u, x
<1>3. ASSUME Rising(s) PROVE Rising(u) /\ Precedes(<<x>>, u)
  <2>1. ASSUME NEW i \in DOMAIN u, NEW j \in DOMAIN u, i < j PROVE u[i] < u[j]
    BY <1>1, <1>3, <2>1, SMTT(30) DEF Rising
  <2>2. ASSUME NEW j \in DOMAIN u PROVE x < u[j]
    BY <1>1, <1>3 DEF Rising
  <2>3. QED
    BY <1>2, <2>1, <2>2 DEF Rising, Precedes
<1>4. Precedes(s, t) => Precedes(<<x>>, t)
  BY <1>1, <1>2 DEF Precedes
<1>5. Precedes(t, s) => Precedes(t, u) /\ Precedes(t, <<x>>)
  BY <1>1, <1>2 DEF Precedes
<1>6. Within(s, n) => Within(u, n) /\ x \in 1..n
  BY <1>1 DEF Within
<1>7. QED
  BY <1>1, <1>3, <1>4, <1>5, <1>6 DEF u, x

LEMMA OneChunk ==
  ASSUME NEW x \in Nat, NEW n \in Nat
  PROVE  <<x>> \in Seq(Nat) /\ <<x>> # <<>> /\ (x \in 1..n => Within(<<x>>, n))
BY DEF Within

LEMMA PipeInit == P!Init => PipeInv
BY EmptyChunks DEF P!Init, PipeInv, Chunks

LEMMA PipeSend ==
  ASSUME PipeInv, NEW succeeds \in BOOLEAN, P!Send(succeeds)
  PROVE  PipeInv'
<1> DEFINE x == sends + 1
<1>1. /\ sends' = x /\ UNCHANGED <<peeked, read, held, got>>
      /\ rx' = IF succeeds THEN Append(rx, x) ELSE rx
  BY DEF P!Send
<1>2. x \in Nat /\ x \in 1..x
  BY DEF PipeInv
<1>3. ASSUME NEW s \in Seq(Nat), Within(s, sends)
      PROVE  Within(s, x) /\ Precedes(s, <<x>>)
  <2>1. Within(s, x)
    BY <1>3, WithinLater DEF PipeInv
  <2>2. \A i \in DOMAIN s : s[i] < x
    BY <1>3 DEF Within, PipeInv
  <2>3. DOMAIN <<x>> = {1} /\ <<x>>[1] = x
    OBVIOUS
  <2>4. Precedes(s, <<x>>)
    BY <2>2, <2>3 DEF Precedes
  <2>5. QED
    BY <2>1, <2>4
<1> HIDE DEF x
<1>4. CASE succeeds
  <2>1. rx' = Append(rx, x) /\ rx' \in Seq(Nat)
    BY <1>1, <1>2, <1>4 DEF PipeInv
  <2>2. Rising(rx') /\ Within(rx', x) /\ Precedes(got, rx') /\ Precedes(held, rx') /\ Precedes(peeked, rx')
    BY <1>2, <1>3, <2>1, AppendChunk DEF PipeInv, Chunks
  <2>3. QED
    BY <1>1, <1>2, <1>3, <2>1, <2>2 DEF PipeInv, Chunks
<1>5. CASE ~succeeds
  BY <1>1, <1>2, <1>3, <1>5 DEF PipeInv, Chunks
<1>6. QED
  BY <1>4, <1>5

(* read returns chunk x, which was the next in line. *)
LEMMA PipeReturns ==
  ASSUME PipeInv, NEW x \in Nat, P!Returns(x), x \in 1..sends, Precedes(got, <<x>>)
  PROVE  /\ got' \in Seq(Nat) /\ Rising(got') /\ Within(got', sends) /\ read' = "none"
         /\ \A t \in Seq(Nat) : Precedes(got, t) /\ Precedes(<<x>>, t) => Precedes(got', t)
<1>1. got' = Append(got, x) /\ read' = "none" /\ got \in Seq(Nat) /\ sends \in Nat
  BY DEF P!Returns, PipeInv
<1>2. QED
  BY <1>1, AppendChunk DEF PipeInv, Chunks

LEMMA PipeReadAgain ==
  ASSUME PipeInv, P!ReadAgain
  PROVE  PipeInv'
<1>1. /\ read = "again" /\ held' = <<>> /\ UNCHANGED <<sends, rx, peeked>>
      /\ (read' = "none" /\ UNCHANGED got) \/ P!Returns(Head(held))
  BY DEF P!ReadAgain, P!Fails
<1>2. peeked = <<>> /\ held # <<>> /\ held \in Seq(Nat) /\ rx \in Seq(Nat) /\ got \in Seq(Nat) /\ sends \in Nat
  BY <1>1 DEF PipeInv
<1>3. CASE read' = "none" /\ UNCHANGED got
  BY <1>1, <1>2, <1>3, EmptyChunks DEF PipeInv, Chunks
<1>4. CASE P!Returns(Head(held))
  <2> DEFINE x == Head(held)
  <2>1. x \in Nat /\ x \in 1..sends /\ Precedes(got, <<x>>) /\ Precedes(<<x>>, rx)
    BY <1>2, TakeChunk DEF PipeInv, Chunks
  <2> HIDE DEF x
  <2>2. P!Returns(x)
    BY <1>4 DEF x
  <2>3. /\ got' \in Seq(Nat) /\ Rising(got') /\ Within(got', sends) /\ read' = "none"
        /\ Precedes(got, rx) /\ Precedes(<<x>>, rx) => Precedes(got', rx)
    BY <1>2, <2>1, <2>2, PipeReturns
  <2>4. QED
    BY <1>1, <1>2, <2>1, <2>3, EmptyChunks DEF PipeInv, Chunks
<1>5. QED
  BY <1>1, <1>3, <1>4

LEMMA PipeSelectChunk ==
  ASSUME PipeInv, P!SelectChunk
  PROVE  PipeInv'
<1> DEFINE x == Head(rx)
<1>1. /\ read = "select" /\ rx # <<>> /\ rx' = Tail(rx) /\ UNCHANGED <<sends, held>>
      /\ \/ peeked' = <<x>> /\ read' = "sleep" /\ UNCHANGED got
         \/ peeked' = <<>> /\ P!Returns(x)
  BY DEF P!SelectChunk
<1>2. peeked = <<>> /\ held = <<>> /\ rx \in Seq(Nat) /\ got \in Seq(Nat) /\ sends \in Nat
  BY <1>1 DEF PipeInv
<1>3. /\ x \in Nat /\ x \in 1..sends /\ Precedes(got, <<x>>) /\ Precedes(<<x>>, rx')
      /\ rx' \in Seq(Nat) /\ Rising(rx') /\ Within(rx', sends) /\ Precedes(got, rx')
  BY <1>1, <1>2, TakeChunk DEF PipeInv, Chunks
<1>4. <<x>> \in Seq(Nat) /\ <<x>> # <<>> /\ Within(<<x>>, sends)
  BY <1>2, <1>3, OneChunk
<1> HIDE DEF x
<1>5. CASE peeked' = <<x>> /\ read' = "sleep" /\ UNCHANGED got
  BY <1>1, <1>2, <1>3, <1>4, <1>5, EmptyChunks DEF PipeInv, Chunks
<1>6. CASE peeked' = <<>> /\ P!Returns(x)
  <2>1. /\ got' \in Seq(Nat) /\ Rising(got') /\ Within(got', sends) /\ read' = "none"
        /\ Precedes(got', rx')
    BY <1>2, <1>3, <1>6, PipeReturns
  <2>2. QED
    BY <1>1, <1>2, <1>3, <1>6, <2>1, EmptyChunks DEF PipeInv, Chunks
<1>7. QED
  BY <1>1, <1>5, <1>6

LEMMA PipeReadSleeps ==
  ASSUME PipeInv, P!ReadSleeps
  PROVE  PipeInv'
<1> DEFINE x == Head(peeked)
<1>1. read = "sleep" /\ peeked' = <<>> /\ UNCHANGED <<sends, rx, held>> /\ P!Returns(x)
  BY DEF P!ReadSleeps
<1>2. /\ peeked # <<>> /\ held = <<>> /\ peeked \in Seq(Nat) /\ rx \in Seq(Nat)
      /\ got \in Seq(Nat) /\ sends \in Nat
  BY <1>1 DEF PipeInv
<1>3. x \in Nat /\ x \in 1..sends /\ Precedes(got, <<x>>) /\ Precedes(<<x>>, rx)
  BY <1>2, TakeChunk DEF PipeInv, Chunks
<1> HIDE DEF x
<1>4. /\ got' \in Seq(Nat) /\ Rising(got') /\ Within(got', sends) /\ read' = "none"
      /\ Precedes(got, rx) /\ Precedes(<<x>>, rx) => Precedes(got', rx)
  BY <1>1, <1>2, <1>3, PipeReturns
<1>5. QED
  BY <1>1, <1>2, <1>3, <1>4, EmptyChunks DEF PipeInv, Chunks

LEMMA PipeInductive == P!Spec => []PipeInv
<1>1. PipeInv /\ [P!Next]_P!vars => PipeInv'
  <2> SUFFICES ASSUME PipeInv, [P!Next]_P!vars PROVE PipeInv'
    OBVIOUS
  <2>1. ASSUME NEW succeeds \in BOOLEAN, P!Send(succeeds) PROVE PipeInv'
    BY <2>1, PipeSend
  <2>2. CASE P!DropSender \/ P!Cancel \/ P!Expire
    BY <2>2 DEF P!DropSender, P!Cancel, P!Expire, PipeInv, Chunks
  <2>3. CASE P!StartRead
    BY <2>3, EmptyChunks DEF P!StartRead, PipeInv, Chunks
  <2>4. CASE P!ReadAgain
    BY <2>4, PipeReadAgain
  <2>5. CASE P!SelectCancel \/ P!SelectExpired \/ P!SelectClosed
    BY <2>5 DEF P!SelectCancel, P!SelectExpired, P!SelectClosed, P!Fails, PipeInv, Chunks
  <2>6. CASE P!SelectChunk
    BY <2>6, PipeSelectChunk
  <2>7. CASE P!ReadSleeps
    BY <2>7, PipeReadSleeps
  <2>8. CASE P!DropRead
    BY <2>8, EmptyChunks DEF P!DropRead, PipeInv, Chunks
  <2>9. CASE P!DropReader
    BY <2>9, EmptyChunks DEF P!DropReader, PipeInv, Chunks
  <2>10. CASE UNCHANGED P!vars
    BY <2>10 DEF P!vars, PipeInv, Chunks
  <2>11. QED
    BY <2>1, <2>2, <2>3, <2>4, <2>5, <2>6, <2>7, <2>8, <2>9, <2>10, Zenon DEF P!Next, P!Step
<1>2. QED
  BY <1>1, PipeInit, PTL DEF P!Spec

(* PipeLinkReader::read of src/link_impls/pipe_link.rs: whatever futures   *)
(* of read are dropped while they hold a chunk, whatever the link loses,   *)
(* and however many chunks are sent, the chunks read are chunks sent, in   *)
(* their order and at most once.                                           *)
THEOREM PipeReadsOnceInOrder == P!Spec => []ReadOnceInOrder
<1>1. PipeInv => ReadOnceInOrder
  BY DEF PipeInv, Chunks, Rising, Within, ReadOnceInOrder, P!ReadOnceInOrder
<1>2. QED
  BY <1>1, PipeInductive, PTL

-----------------------------------------------------------------------------
(* LinkEntry *)

Samples == {s \in Seq(Nat) : Len(s) = 6}

(* Once a ping has got no answer, the next one is at least an interval old *)
(* when the timer elapses.  So every silent ping but the first has counted *)
(* with MAX_LATENCY or more, and after seven of them no sample is below.   *)
PingTypes == ping = <<>> \/ \E age \in Nat : ping = <<age>>
LongEnough == \A age \in Nat : ping = <<age>> /\ silent > 0 => age + left >= 20
SlowSamples == \A i \in 1..6 : i < silent => recent[i] >= 20
EntryInv ==
  /\ recent \in Samples
  /\ PingTypes
  /\ left \in Nat
  /\ silent \in Nat
  /\ LongEnough
  /\ SlowSamples
  /\ SilentIsDropped

LEMMA Constants ==
  /\ E!HISTORY_LEN = 6 /\ E!MAX_LATENCY = 20 /\ E!DEFAULT_LATENCY = 1
  /\ \A s : E!Interval(s) \in {20, 50}
BY DEF E!HISTORY_LEN, E!MAX_LATENCY, E!DEFAULT_LATENCY, E!Interval,
       E!CONNECTED_TIMER_INTERVAL, E!EPOCH_MISMATCH_TIMER_INTERVAL

LEMMA SamplesOf ==
  ASSUME NEW samples \in Samples
  PROVE  DOMAIN samples = 1..6 /\ \A i \in 1..6 : samples[i] \in Nat
BY LenProperties, ElementOfSeq DEF Samples

(* add_latency: the new sample in front, the oldest one dropped. *)
LEMMA AddedLatency ==
  ASSUME NEW samples \in Samples, NEW x \in Nat
  PROVE  /\ E!AddLatency(samples, x) \in Samples
         /\ E!AddLatency(samples, x)[1] = x
         /\ \A i \in 2..6 : E!AddLatency(samples, x)[i] = samples[i - 1]
<1>1. E!AddLatency(samples, x) = SubSeq(<<x>> \o samples, 1, 6)
  BY Constants DEF E!AddLatency
<1> DEFINE all == <<x>> \o samples
<1>2. samples \in Seq(Nat) /\ Len(samples) = 6 /\ <<x>> \in Seq(Nat) /\ Len(<<x>>) = 1
  BY DEF Samples
<1>3. /\ all \in Seq(Nat) /\ Len(all) = Len(<<x>>) + Len(samples)
      /\ \A i \in 1..(Len(<<x>>) + Len(samples)) :
           all[i] = IF i <= Len(<<x>>) THEN <<x>>[i] ELSE samples[i - Len(<<x>>)]
  BY <1>2, ConcatProperties, Zenon
<1>4. all[1] = x /\ \A i \in 2..6 : all[i] = samples[i - 1]
  BY <1>2, <1>3
<1> HIDE DEF all
<1>5. ASSUME NEW i \in 1..6 PROVE all[i] \in Nat
  <2>1. i = 1 \/ (i \in 2..6 /\ i - 1 \in 1..6)
    OBVIOUS
  <2>2. \A j \in 1..6 : samples[j] \in Nat
    BY SamplesOf
  <2>3. QED
    BY <1>4, <2>1, <2>2
<1>6. /\ SubSeq(all, 1, 6) \in Seq(Nat)
      /\ Len(SubSeq(all, 1, 6)) = IF 1 <= 6 THEN 6 - 1 + 1 ELSE 0
      /\ \A i \in 1..(6 - 1 + 1) : SubSeq(all, 1, 6)[i] = all[1 + i - 1]
  BY <1>5, SubSeqProperties
<1>7. Len(SubSeq(all, 1, 6)) = 6 /\ \A i \in 1..6 : SubSeq(all, 1, 6)[i] = all[i]
  BY <1>6
<1>8. SubSeq(all, 1, 6) \in Samples
  BY <1>6, <1>7 DEF Samples
<1>9. E!AddLatency(samples, x) = SubSeq(all, 1, 6)
  BY <1>1 DEF all
<1>10. QED
  BY <1>4, <1>7, <1>8, <1>9

LEMMA OlderAge ==
  ASSUME NEW age \in Nat, NEW time \in Nat
  PROVE  /\ E!Older(age, time) \in Nat
         /\ age + time >= 20 => E!Older(age, time) >= 20
         /\ E!Older(age, time) = age + time \/ E!Older(age, time) = 121
BY Constants DEF E!Older, E!MaxAge

LEMMA AgedPing ==
  ASSUME NEW time \in Nat
  PROVE  /\ ping = <<>> => E!Aged(time) = <<>>
         /\ \A age \in Nat : ping = <<age>> => E!Aged(time) = <<E!Older(age, time)>>
BY DEF E!Aged

(* Six samples of MAX_LATENCY are too much for upkeep. *)
LEMMA AllSlow ==
  ASSUME NEW samples \in Samples, \A i \in 1..6 : samples[i] >= 20
  PROVE  ~E!Stays(samples)
<1>1. /\ samples[1] \in Nat /\ samples[2] \in Nat /\ samples[3] \in Nat
      /\ samples[4] \in Nat /\ samples[5] \in Nat /\ samples[6] \in Nat
  BY SamplesOf
<1>2. /\ samples[1] >= 20 /\ samples[2] >= 20 /\ samples[3] >= 20
      /\ samples[4] >= 20 /\ samples[5] >= 20 /\ samples[6] >= 20
  OBVIOUS
<1>3. E!MAX_LATENCY * E!HISTORY_LEN = 120
  BY Constants
<1>4. QED
  BY <1>1, <1>2, <1>3 DEF E!Stays, E!Latency

(* Five samples of DEFAULT_LATENCY or less make up for one below 11.5 s. *)
LEMMA OneSlow ==
  ASSUME NEW samples \in Samples, \A i \in 1..6 : samples[i] < 115,
         NEW slow \in 1..6, \A i \in 1..6 : i # slow => samples[i] <= 1
  PROVE  E!Stays(samples) /\ E!Sendable(samples)
<1>1. /\ samples[1] \in Nat /\ samples[2] \in Nat /\ samples[3] \in Nat
      /\ samples[4] \in Nat /\ samples[5] \in Nat /\ samples[6] \in Nat
  BY SamplesOf
<1>2. /\ samples[1] < 115 /\ samples[2] < 115 /\ samples[3] < 115
      /\ samples[4] < 115 /\ samples[5] < 115 /\ samples[6] < 115
  OBVIOUS
<1>3. /\ slow = 1 \/ samples[1] <= 1
      /\ slow = 2 \/ samples[2] <= 1
      /\ slow = 3 \/ samples[3] <= 1
      /\ slow = 4 \/ samples[4] <= 1
      /\ slow = 5 \/ samples[5] <= 1
      /\ slow = 6 \/ samples[6] <= 1
  OBVIOUS
<1>4. E!MAX_LATENCY * E!HISTORY_LEN = 120
  BY Constants
<1>5. E!Latency(samples) < 120 /\ E!Latency(samples) \in Nat
  BY <1>1, <1>2, <1>3 DEF E!Latency
<1>6. QED
  BY <1>4, <1>5 DEF E!Stays, E!Sendable

LEMMA EntryInit == E!Init => EntryInv
<1> SUFFICES ASSUME E!Init PROVE EntryInv
  OBVIOUS
<1>1. recent = [i \in 1..6 |-> 1] /\ silent = 0
  BY Constants DEF E!Init, E!NewEntry
<1>2. recent \in Samples
  BY <1>1 DEF Samples
<1>3. PingTypes
  <2>1. ping = <<>> \/ ping = <<0>>
    BY Zenon DEF E!Init, E!StartsHandshake, E!TakesUpSession, E!JoinsOthers
  <2>2. QED
    BY <2>1 DEF PingTypes
<1>4. left \in Nat
  <2>1. left \in {20, 50} \/ left = E!Interval(state) \/ left \in Leftovers
    <3>1. CASE E!StartsHandshake \/ E!TakesUpSession
      BY <3>1 DEF E!StartsHandshake, E!TakesUpSession, E!EPOCH_MISMATCH_TIMER_INTERVAL,
                  E!CONNECTED_TIMER_INTERVAL
    <3>2. CASE E!JoinsOthers
      BY <3>2, Zenon DEF E!JoinsOthers
    <3>3. QED
      BY <3>1, <3>2, Zenon DEF E!Init
  <2>2. E!Interval(state) \in Nat /\ \A t \in {20, 50} : t \in Nat
    BY Constants
  <2>3. QED
    BY <2>1, <2>2, TimesAssumption, Zenon
<1>5. QED
  BY <1>1, <1>2, <1>3, <1>4, Constants
  DEF EntryInv, LongEnough, SlowSamples, SilentIsDropped, E!SilentIsDropped

(* send_ping, when the timer elapses. *)
LEMMA SentPing ==
  ASSUME EntryInv, NEW delay \in Nat, E!SendPing(left + delay)
  PROVE  /\ recent' \in Samples
         /\ ping' = <<0>> /\ PingTypes'
         /\ silent' \in Nat /\ silent' <= silent + 1
         /\ SlowSamples'
<1>1. ping' = <<0>> /\ PingTypes'
  BY DEF E!SendPing, PingTypes
<1>2. CASE ping = <<>>
  <2>1. recent' = recent /\ silent' = silent
    BY <1>2 DEF E!SendPing
  <2>2. QED
    BY <1>1, <2>1 DEF EntryInv, SlowSamples
<1>3. CASE ping # <<>>
  <2>1. PICK age \in Nat : ping = <<age>>
    BY <1>3 DEF EntryInv, PingTypes
  <2> DEFINE x == E!Older(age, left + delay)
  <2>2. left + delay \in Nat
    BY DEF EntryInv
  <2>3. E!Aged(left + delay) = <<x>>
    BY <2>1, <2>2, AgedPing
  <2>4. recent' = E!AddLatency(recent, x) /\ silent' = silent + 1
    BY <1>3, <2>3 DEF E!SendPing
  <2>5. x \in Nat /\ (silent > 0 => x >= 20)
    <3>1. silent > 0 => age + left >= 20
      BY <2>1 DEF EntryInv, LongEnough
    <3>2. silent > 0 => age + (left + delay) >= 20
      BY <3>1 DEF EntryInv
    <3>3. QED
      BY <2>2, <3>2, OlderAge
  <2> HIDE DEF x
  <2>6. recent' \in Samples /\ recent'[1] = x /\ \A i \in 2..6 : recent'[i] = recent[i - 1]
    BY <2>4, <2>5, AddedLatency, ZenonT(30) DEF EntryInv
  <2>7. ASSUME NEW i \in 1..6, i < silent' PROVE recent'[i] >= 20
    <3>1. CASE i = 1
      BY <2>4, <2>5, <2>6, <2>7, <3>1 DEF EntryInv
    <3>2. CASE i # 1
      <4>1. i \in 2..6 /\ i - 1 \in 1..6 /\ i - 1 < silent
        BY <2>4, <2>7, <3>2 DEF EntryInv
      <4>2. QED
        BY <2>6, <4>1 DEF EntryInv, SlowSamples
    <3>3. QED
      BY <3>1, <3>2
  <2>8. QED
    BY <1>1, <2>4, <2>6, <2>7 DEF EntryInv, SlowSamples
<1>4. QED
  BY <1>2, <1>3

LEMMA ArmedAnew ==
  ASSUME left' \in Nat, left' >= 20
  PROVE  LongEnough'
<1>1. \A a, b \in Nat : b >= 20 => a + b >= 20
  OBVIOUS
<1>2. QED
  BY <1>1, Zenon DEF LongEnough

(* A ping grows older while the timer runs, or while it is armed anew. *)
LEMMA Waited ==
  ASSUME EntryInv, NEW time \in Nat, ping' = E!Aged(time), silent' = silent, left' \in Nat,
         left' >= 20 \/ left' = IF time < left THEN left - time ELSE 0
  PROVE  PingTypes' /\ LongEnough'
<1>1. CASE ping = <<>>
  <2>1. ping' = <<>>
    BY <1>1, AgedPing
  <2>2. QED
    BY <2>1 DEF PingTypes, LongEnough
<1>2. CASE ping # <<>>
  <2>1. PICK age \in Nat : ping = <<age>>
    BY <1>2 DEF EntryInv, PingTypes
  <2> DEFINE x == E!Older(age, time)
  <2>2. ping' = <<x>>
    BY <2>1, AgedPing
  <2>3. x \in Nat /\ (x = age + time \/ x = 121)
    BY OlderAge
  <2>4. silent > 0 => age + left >= 20
    BY <2>1 DEF EntryInv, LongEnough
  <2> HIDE DEF x
  <2>5. PingTypes'
    BY <2>2, <2>3, Zenon DEF PingTypes
  <2>6. left \in Nat /\ silent' = silent
    BY DEF EntryInv
  <2>7. CASE left' >= 20
    BY <2>5, <2>7, ArmedAnew
  <2>8. CASE left' = IF time < left THEN left - time ELSE 0
    <3>1. age + left >= 20 => x + left' >= 20
      <4>1. CASE time < left
        BY <2>3, <2>6, <2>8, <4>1
      <4>2. CASE ~(time < left)
        BY <2>3, <2>6, <2>8, <4>2
      <4>3. QED
        BY <4>1, <4>2
    <3>2. \A b : ping' = <<b>> => b = x
      BY <2>2
    <3>3. QED
      BY <2>4, <2>5, <2>6, <3>1, <3>2 DEF LongEnough
  <2>9. QED
    BY <2>7, <2>8
<1>3. QED
  BY <1>1, <1>2

LEMMA EntryPong ==
  ASSUME EntryInv, NEW time \in Latencies, E!Pong(time)
  PROVE  EntryInv'
<1>1. /\ ping # <<>> /\ recent' = E!AddLatency(recent, E!Aged(time)[1])
      /\ ping' = <<>> /\ silent' = 0 /\ left' = IF time < left THEN left - time ELSE 0
  BY DEF E!Pong, E!Passes
<1>2. PICK age \in Nat : ping = <<age>>
  BY <1>1 DEF EntryInv, PingTypes
<1>3. time \in Nat
  BY TimesAssumption
<1>4. E!Aged(time)[1] = E!Older(age, time) /\ E!Older(age, time) \in Nat
  BY <1>2, <1>3, AgedPing, OlderAge
<1>5. recent' \in Samples
  BY <1>1, <1>4, AddedLatency DEF EntryInv
<1>6. left' \in Nat
  BY <1>1, <1>3 DEF EntryInv
<1>7. QED
  BY <1>1, <1>5, <1>6, Constants
  DEF EntryInv, PingTypes, LongEnough, SlowSamples, SilentIsDropped, E!SilentIsDropped

(* With seven silent pings in a row the average is too high. *)
LEMMA TooSilent ==
  ASSUME recent \in Samples, silent \in Nat, SlowSamples, E!Stays(recent)
  PROVE  silent <= 6
<1>1. silent > 6 => \A i \in 1..6 : recent[i] >= 20
  BY DEF SlowSamples
<1>2. QED
  BY <1>1, AllSlow

LEMMA EntryBeatEpochMismatch ==
  ASSUME EntryInv, NEW delay \in Delays, NEW first \in BOOLEAN, E!BeatEpochMismatch(delay, first)
  PROVE  EntryInv'
<1>1. left' \in {20, 50} /\ delay \in Nat
  <2>1. left' = E!Interval(state)
    BY DEF E!BeatEpochMismatch
  <2>2. QED
    BY <2>1, Constants, TimesAssumption
<1>2. CASE E!Stays(recent)
  <2>1. E!SendPing(left + delay)
    BY <1>2 DEF E!BeatEpochMismatch
  <2>2. silent <= 6
    BY <1>2, TooSilent DEF EntryInv
  <2>3. /\ recent' \in Samples /\ ping' = <<0>> /\ PingTypes'
        /\ silent' \in Nat /\ silent' <= silent + 1 /\ SlowSamples'
    BY <1>1, <2>1, SentPing
  <2>4. silent' <= 7
    BY <2>2, <2>3 DEF EntryInv
  <2>5. LongEnough'
    BY <1>1, ArmedAnew
  <2>6. QED
    BY <1>1, <2>3, <2>4, <2>5, Constants DEF EntryInv, SilentIsDropped, E!SilentIsDropped
<1>3. CASE ~E!Stays(recent)
  <2>1. listed' = FALSE /\ UNCHANGED <<recent, ping, silent>>
    BY <1>3 DEF E!BeatEpochMismatch
  <2>2. LongEnough' /\ left' \in Nat
    BY <1>1, ArmedAnew
  <2>3. QED
    BY <2>1, <2>2 DEF EntryInv, PingTypes, SlowSamples, SilentIsDropped, E!SilentIsDropped
<1>4. QED
  BY <1>2, <1>3

LEMMA EntryBeatConnected ==
  ASSUME EntryInv, NEW delay \in Delays, NEW first \in BOOLEAN, E!BeatConnected(delay, first)
  PROVE  EntryInv'
<1>1. left' \in {20, 50} /\ delay \in Nat
  <2>1. left' = E!Interval(state)
    BY DEF E!BeatConnected
  <2>2. QED
    BY <2>1, Constants, TimesAssumption
<1>2. listed /\ (listed' => E!Stays(recent'))
  BY Zenon DEF E!BeatConnected
<1>3. CASE E!SendPing(left + delay)
  <2>1. /\ recent' \in Samples /\ ping' = <<0>> /\ PingTypes'
        /\ silent' \in Nat /\ SlowSamples'
    BY <1>1, <1>3, SentPing
  <2>2. listed' => silent' <= 7
    <3>1. SUFFICES ASSUME listed', ~(silent' <= 7) PROVE FALSE
      OBVIOUS
    <3>2. \A i \in 1..6 : recent'[i] >= 20
      BY <2>1, <3>1 DEF SlowSamples
    <3>3. QED
      BY <1>2, <2>1, <3>1, <3>2, AllSlow
  <2>3. LongEnough'
    BY <1>1, ArmedAnew
  <2>4. QED
    BY <1>1, <2>1, <2>2, <2>3, Constants DEF EntryInv, SilentIsDropped, E!SilentIsDropped
<1>4. CASE ping' = E!Aged(left + delay) /\ UNCHANGED <<recent, silent>>
  <2>1. left + delay \in Nat /\ left' \in Nat /\ left' >= 20
    BY <1>1 DEF EntryInv
  <2>2. PingTypes' /\ LongEnough'
    BY <1>4, <2>1, Waited
  <2>3. QED
    BY <1>2, <1>4, <2>1, <2>2 DEF EntryInv, SlowSamples, SilentIsDropped, E!SilentIsDropped
<1>5. QED
  BY <1>3, <1>4, Zenon DEF E!BeatConnected

LEMMA EntryChanges ==
  ASSUME EntryInv, NEW time \in Moments, NEW first \in BOOLEAN,
         E!Establish(time, first) \/ E!Mismatch(time, first)
  PROVE  EntryInv'
<1>1. /\ listed /\ ping' = E!Aged(time) /\ UNCHANGED <<recent, silent>>
      /\ left' = 50 \/ left' = IF time < left THEN left - time ELSE 0
  BY DEF E!Establish, E!Mismatch, E!Passes, E!CONNECTED_TIMER_INTERVAL
<1>2. time \in Nat /\ left' \in Nat
  BY <1>1, TimesAssumption DEF EntryInv
<1>3. PingTypes' /\ LongEnough'
  BY <1>1, <1>2, Waited
<1>4. QED
  BY <1>1, <1>2, <1>3 DEF EntryInv, SlowSamples, SilentIsDropped, E!SilentIsDropped

LEMMA EntryInductive == E!Spec => []EntryInv
<1>1. EntryInv /\ [E!Next]_E!vars => EntryInv'
  <2> SUFFICES ASSUME EntryInv, [E!Next]_E!vars PROVE EntryInv'
    OBVIOUS
  <2>1. CASE E!SendOver
    BY <2>1 DEF E!SendOver, EntryInv, PingTypes, LongEnough, SlowSamples, SilentIsDropped,
                E!SilentIsDropped
  <2>2. CASE UNCHANGED E!vars
    BY <2>2 DEF E!vars, EntryInv, PingTypes, LongEnough, SlowSamples, SilentIsDropped,
                E!SilentIsDropped
  <2>3. QED
    BY <2>1, <2>2, EntryPong, EntryBeatEpochMismatch, EntryBeatConnected, EntryChanges, Zenon
    DEF E!Next
<1>2. QED
  BY <1>1, EntryInit, PTL DEF E!Spec

(* LinkEntry::send_ping, latency and LinkManager::upkeep: whatever the     *)
(* latencies, however late the beats, whatever was left of a connecting    *)
(* deadline and however often the state changes, a link is no longer in    *)
(* the list once more than seven pings in a row got no answer.             *)
THEOREM SilentLinkIsDropped == E!Spec => []SilentIsDropped
<1>1. EntryInv => SilentIsDropped
  BY DEF EntryInv
<1>2. QED
  BY <1>1, EntryInductive, PTL

(* LinkManager::upkeep and send_proto: one late answer among quick ones    *)
(* costs no link its place, unless it took 11.5 s or more.                 *)
THEOREM OneLateAnswerIsForgiven == E!Spec => OneLateIsForgiven
<1>1. EntryInv' /\ [E!Next]_E!vars => [E!OneLateIsForgiven]_entry
  <2> SUFFICES ASSUME recent' \in Samples, E!Next, listed, ~listed',
                      \A i, j \in DOMAIN recent' :
                        recent'[i] > E!DEFAULT_LATENCY /\ recent'[j] > E!DEFAULT_LATENCY => i = j,
                      \A i \in DOMAIN recent' : ~(recent'[i] >= E!MAX_LATENCY * E!HISTORY_LEN - 5)
               PROVE  FALSE
    BY Zenon DEF EntryInv, E!OneLateIsForgiven, E!vars, entry
  <2>1. ~E!Stays(recent') \/ ~E!Sendable(recent')
    <3>1. CASE E!SendOver \/ \E time \in Moments, first \in BOOLEAN :
                              E!Establish(time, first) \/ E!Mismatch(time, first)
      BY <3>1, Zenon DEF E!SendOver, E!Establish, E!Mismatch
    <3>2. QED
      BY <3>1, Zenon DEF E!Next, E!Pong, E!BeatEpochMismatch, E!BeatConnected
  <2>2. DOMAIN recent' = 1..6 /\ \A i \in 1..6 : recent'[i] \in Nat
    BY SamplesOf
  <2>3. \A i \in 1..6 : recent'[i] < 115
    BY <2>2, Constants
  <2>4. \E slow \in 1..6 : \A i \in 1..6 : i # slow => recent'[i] <= 1
    <3>1. CASE \E i \in 1..6 : recent'[i] > 1
      <4>1. PICK slow \in 1..6 : recent'[slow] > 1
        BY <3>1
      <4>2. \A i \in 1..6 : i # slow => ~(recent'[i] > 1)
        BY <2>2, <4>1, Constants
      <4>3. \A i \in 1..6 : i # slow => recent'[i] <= 1
        BY <2>2, <4>2
      <4>4. QED
        BY <4>3
    <3>2. CASE ~\E i \in 1..6 : recent'[i] > 1
      BY <2>2, <3>2
    <3>3. QED
      BY <3>1, <3>2
  <2>5. QED
    BY <2>1, <2>3, <2>4, OneSlow
<1>2. QED
  BY <1>1, EntryInductive, PTL DEF E!Spec, OneLateIsForgiven

-----------------------------------------------------------------------------
(* Address *)

(* split_once(':'), twice: what follows the first two words of a text. *)
LEMMA SplitTwice ==
  ASSUME NEW S, NEW a \in S, NEW b \in S, NEW s \in Seq(S), s # <<>>
  PROVE  LET text == <<a, b>> \o s
         IN  /\ text[1] = a /\ Tail(text)[1] = b /\ Tail(Tail(text)) = s
             /\ Len(text) # 1 /\ Len(Tail(text)) # 1
<1> DEFINE text == <<a, b>> \o s
           rest == Tail(text)
<1>1. <<a, b>> \in Seq(S) /\ Len(<<a, b>>) = 2 /\ Len(s) \in Nat \ {0}
  BY EmptySeq
<1>2. /\ text \in Seq(S) /\ Len(text) = Len(<<a, b>>) + Len(s)
      /\ \A i \in 1..(Len(<<a, b>>) + Len(s)) :
           text[i] = IF i <= Len(<<a, b>>) THEN <<a, b>>[i] ELSE s[i - Len(<<a, b>>)]
  BY <1>1, ConcatProperties, Zenon
<1>3. text \in Seq(S) /\ Len(text) = Len(s) + 2 /\ text[1] = a /\ text[2] = b
  BY <1>1, <1>2
<1>4. \A i \in 1..Len(s) : text[i + 2] = s[i]
  BY <1>1, <1>2
<1> HIDE DEF text
<1>5. /\ rest \in Seq(S) /\ Len(rest) = Len(s) + 1 /\ rest[1] = b
      /\ \A i \in 1..(Len(s) + 1) : rest[i] = text[i + 1]
  BY <1>1, <1>3
<1> HIDE DEF rest
<1>6. /\ Tail(rest) \in Seq(S) /\ Len(Tail(rest)) = Len(s)
      /\ \A i \in 1..Len(s) : Tail(rest)[i] = rest[i + 1]
  BY <1>1, <1>5
<1>7. \A i \in 1..Len(s) : Tail(rest)[i] = s[i]
  BY <1>1, <1>4, <1>5, <1>6
<1>8. Tail(rest) = s
  BY <1>6, <1>7, SeqEqual
<1>9. QED
  BY <1>1, <1>3, <1>5, <1>8 DEF text, rest

LEMMA StringReadBack ==
  ASSUME NEW S, NEW scheme \in S, NEW text \in Seq(S), text # <<>>
  PROVE  A!RoundTrips(A!String(scheme, text))
<1> DEFINE a == A!String(scheme, text)
           shown == <<scheme, "txt">> \o text
           U == S \cup {"txt"}
<1>1. scheme \in U /\ "txt" \in U /\ text \in Seq(U)
  OBVIOUS
<1>2. /\ shown[1] = scheme /\ Tail(shown)[1] = "txt" /\ Tail(Tail(shown)) = text
      /\ Len(shown) # 1 /\ Len(Tail(shown)) # 1
  BY <1>1, SplitTwice
<1>3. A!Display(a) = shown
  BY DEF A!Display, A!String
<1> HIDE DEF shown, a
<1>4. A!FromStr(shown) = A!String(scheme, text)
  BY <1>2 DEF A!FromStr
<1>5. QED
  BY <1>3, <1>4 DEF A!RoundTrips, a

LEMMA BytesReadBack ==
  ASSUME NEW scheme, NEW word \in DOMAIN Decodings
  PROVE  A!RoundTrips(A!Bytes(scheme, Decodings[word]))
<1> DEFINE a == A!Bytes(scheme, Decodings[word])
           code == A!Encoding(Decodings[word])
           shown == <<scheme, "b64", code>>
<1>1. code \in DOMAIN Decodings /\ Decodings[code] = Decodings[word]
  BY DEF A!Encoding
<1>2. A!Display(a) = shown
  BY DEF A!Display, A!Bytes
<1> HIDE DEF code, a
<1>3. /\ shown[1] = scheme /\ Tail(shown)[1] = "b64" /\ Tail(Tail(shown)) = <<code>>
      /\ Len(shown) # 1 /\ Len(Tail(shown)) # 1
  OBVIOUS
<1> HIDE DEF shown
<1>4. Len(<<code>>) = 1 /\ <<code>>[1] = code /\ "b64" # "txt"
  OBVIOUS
<1>5. A!FromStr(shown) = A!Bytes(scheme, Decodings[code])
  BY <1>1, <1>3, <1>4 DEF A!FromStr
<1>6. QED
  BY <1>1, <1>2, <1>5 DEF A!RoundTrips, a

(* Display and FromStr of src/links/address.rs: an address whose string    *)
(* has any words between its colons, or whose bytes have an encoding, is   *)
(* the one that is parsed from its text, for any words and any encoding.   *)
THEOREM AddressesReadBack == \A a \in A!Addresses : A!RoundTrips(a)
<1> SUFFICES ASSUME NEW a \in A!Addresses PROVE A!RoundTrips(a)
  OBVIOUS
<1>1. CASE a \in [scheme : Words, repr : {"String"}, addr : UNION {[1..n -> Words] : n \in 1..3}]
  <2>1. a.scheme \in Words /\ a = A!String(a.scheme, a.addr)
    BY <1>1 DEF A!String
  <2>2. PICK n \in 1..3 : a.addr \in [1..n -> Words]
    BY <1>1
  <2>3. a.addr \in Seq(Words) /\ a.addr # <<>>
    BY <2>2
  <2>4. QED
    BY <2>1, <2>3, StringReadBack
<1>2. CASE a \in [scheme : Words, repr : {"Bytes"}, addr : {Decodings[word] : word \in DOMAIN Decodings}]
  <2>1. PICK word \in DOMAIN Decodings : a.addr = Decodings[word]
    BY <1>2
  <2>2. a = A!Bytes(a.scheme, Decodings[word])
    BY <1>2, <2>1 DEF A!Bytes
  <2>3. QED
    BY <2>2, BytesReadBack
<1>3. QED
  BY <1>1, <1>2 DEF A!Addresses

=============================================================================
