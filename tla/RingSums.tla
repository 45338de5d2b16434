------------------------------ MODULE RingSums ------------------------------
(***************************************************************************)
(* Lemmas about RingChunks that both ring all-reduce paths rest on, for     *)
(* every ring size: who is whose neighbour, which chunk a step touches, and *)
(* what the partial sums are that travel around the ring, in closed form.   *)
(***************************************************************************)
EXTENDS RingChunks, TLAPS, WellFoundedInduction, SequenceTheorems

-----------------------------------------------------------------------------
(* Back(r, i) is the rank i places to the left of r, and chunk c is         *)
(* Dist(r, c) places to the left of r's own.  A partial sum runs to the     *)
(* left from the rank that holds it: it is a list in closed form, and so is *)
(* what a chunk holds after so many sums and so many arrivals.              *)
Back(r, i) == IF i <= r THEN r - i ELSE r - i + N
Dist(r, c) == IF c <= r THEN r - c ELSE r - c + N

Sums(r, k, n) == [i \in 1..n |-> <<Back(r, i - 1), k>>]
Full(c, k)    == Sums(Back(c, 1), k, N)

\* The message of step t of call k that r sends.
Msg(r, k, t) == IF Scatter(t) THEN Sums(r, k, t + 1) ELSE Full(send_chunk(r, t), k)

\* Chunk c of r in call k, after m steps have been summed and h have arrived.
Content(r, c, k, m, h) ==
  IF Dist(r, c) + N - 1 < h THEN Full(c, k)
  ELSE IF Dist(r, c) <= m THEN Sums(r, k, Dist(r, c) + 1)
  ELSE Sums(r, k, 1)

-----------------------------------------------------------------------------
(* The ring.                                                                *)

(* Neighbours are ranks and each other's.                                    *)
LEMMA Ring ==
  ASSUME NEW r \in Ranks
  PROVE  /\ Left(r) \in Ranks /\ Right(r) \in Ranks
         /\ Right(Left(r)) = r /\ Left(Right(r)) = r
         /\ Left(r) # r /\ Right(r) # r
<1>1. N \in Nat /\ N >= 2 /\ r \in 0..(N - 1)
  BY NAssumption DEF Ranks
<1>2. Left(r) = IF r = 0 THEN N - 1 ELSE r - 1
  BY <1>1 DEF Left
<1>3. Right(r) = IF r = N - 1 THEN 0 ELSE r + 1
  BY <1>1 DEF Right
<1>4. Left(r) \in Ranks /\ Right(r) \in Ranks /\ Left(r) # r /\ Right(r) # r
  BY <1>1, <1>2, <1>3 DEF Ranks
<1>5. Right(Left(r)) = r
  BY <1>1, <1>2 DEF Right
<1>6. Left(Right(r)) = r
  BY <1>1, <1>3 DEF Left
<1> QED BY <1>4, <1>5, <1>6

(* One turn or two of the chunk arithmetic.                                 *)
LEMMA Wrap ==
  ASSUME NEW x \in Int, 0 <= x, x <= 2 * N
  PROVE  x % N = IF x < N THEN x ELSE IF x < 2 * N THEN x - N ELSE 0
<1>0. N \in Nat /\ N >= 2
  BY NAssumption
<1>1. CASE x < N
  BY <1>0, <1>1
<1>2. CASE N <= x /\ x < 2 * N
  <2>1. PICK y \in 0..(N - 1) : x = y + N
    BY <1>0, <1>2
  <2>2. (y + N) % N = y
    BY <1>0
  <2> QED BY <1>0, <1>2, <2>1, <2>2
<1>3. CASE x = 2 * N
  <2>1. (2 * N) % N = 0
    BY <1>0
  <2> QED BY <1>0, <1>3, <2>1
<1> QED BY <1>0, <1>1, <1>2, <1>3

(* The chunk of every step is a chunk of the buffer, and what the left        *)
(* neighbour sends in a step is what the right one receives in it.            *)
LEMMA Chunk ==
  ASSUME NEW r \in Ranks, NEW t \in 0..(Steps - 1)
  PROVE  /\ send_chunk(r, t) \in Chunks /\ recv_chunk(r, t) \in Chunks
         /\ send_chunk(Left(r), t) = recv_chunk(r, t)
<1>1. N \in Nat /\ N >= 2 /\ r \in 0..(N - 1) /\ t \in 0..(2 * (N - 1) - 1)
  BY NAssumption DEF Ranks, Steps
<1>2. send_chunk(r, t) \in Chunks /\ recv_chunk(r, t) \in Chunks
  BY <1>1 DEF send_chunk, recv_chunk, Scatter, Chunks
<1>3. Left(r) = IF r = 0 THEN N - 1 ELSE r - 1
  BY <1>1 DEF Left
<1>4. \A x \in 0..(N - 1) : x % N = x /\ (x + N) % N = x
  BY <1>1
<1>5. send_chunk(Left(r), t) = recv_chunk(r, t)
  <2>1. CASE r # 0
    BY <1>1, <1>3, <2>1 DEF send_chunk, recv_chunk, Scatter
  <2>2. CASE r = 0 /\ Scatter(t)
    <3>1. send_chunk(Left(r), t) = ((N - 1 - t) + N) % N /\ recv_chunk(r, t) = (N - 1 - t) % N
      BY <1>1, <1>3, <2>2 DEF send_chunk, recv_chunk, Scatter
    <3>2. N - 1 - t \in 0..(N - 1)
      BY <1>1, <2>2 DEF Scatter
    <3> QED BY <1>4, <3>1, <3>2
  <2>3. CASE r = 0 /\ ~Scatter(t)
    <3> DEFINE g == t - (N - 1)
    <3>0. g \in 0..(N - 2)
      BY <1>1, <2>3 DEF Scatter
    <3>1. send_chunk(Left(r), t) = ((N - g) + N) % N /\ recv_chunk(r, t) = (N - g) % N
      BY <1>1, <1>3, <2>3 DEF send_chunk, recv_chunk, Scatter
    <3>2. CASE g = 0
      <4>1. (N + N) % N = 0 /\ N % N = 0
        BY <1>1
      <4> QED BY <1>1, <3>1, <3>2, <4>1
    <3>3. CASE g # 0
      <4>1. N - g \in 0..(N - 1)
        BY <1>1, <3>0, <3>3
      <4> QED BY <1>4, <3>1, <4>1
    <3> QED BY <3>2, <3>3
  <2> QED BY <2>1, <2>2, <2>3
<1> QED BY <1>2, <1>5

(* Places in the ring: a chunk and its distance name each other.            *)
LEMMA DistType ==
  ASSUME NEW r \in Ranks, NEW c \in Chunks
  PROVE  /\ Dist(r, c) \in 0..(N - 1)
         /\ \A d \in Chunks : Dist(r, d) = Dist(r, c) => d = c
         /\ Dist(r, c) = N - 1 => Back(c, 1) = r
  BY NAssumption DEF Dist, Ranks, Chunks, Back

(* The rank i places to the left of r, and of its left neighbour.           *)
LEMMA BackType ==
  ASSUME NEW r \in Ranks, NEW i \in 0..N
  PROVE  /\ Back(r, i) \in Ranks
         /\ Back(r, 0) = r /\ Back(r, 1) = Left(r)
         /\ i < N => Back(Left(r), i) = Back(r, i + 1)
<1>0. N \in Nat /\ N >= 2 /\ r \in 0..(N - 1) /\ i \in Nat
  BY NAssumption DEF Ranks
<1>1. Left(r) = IF r = 0 THEN N - 1 ELSE r - 1
  <2>1. CASE r = 0
    BY <1>0, <2>1 DEF Left
  <2>2. CASE r # 0
    <3>1. r - 1 + N \in Int /\ 0 <= r - 1 + N /\ r - 1 + N <= 2 * N /\ r - 1 + N >= N
          /\ r - 1 + N < 2 * N
      BY <1>0, <2>2
    <3>2. (r - 1 + N) % N = (r - 1 + N) - N
      BY <3>1, <1>0, Wrap
    <3> QED BY <1>0, <2>2, <3>2 DEF Left
  <2> QED BY <2>1, <2>2
<1> QED BY <1>0, <1>1 DEF Back, Ranks

(* The chunks of a step by their distance: in reduce-scatter step t sends   *)
(* the chunk t places to the left, in all-gather it starts again one chunk  *)
(* to the right of the rank's own, which is where the last full sum is.     *)
LEMMA ChunkDist ==
  ASSUME NEW r \in Ranks, NEW t \in 0..(Steps - 1)
  PROVE  /\ Scatter(t) => /\ Dist(r, send_chunk(r, t)) = t
                          /\ Dist(r, recv_chunk(r, t)) = t + 1
         /\ ~Scatter(t) => /\ Dist(r, recv_chunk(r, t)) = t - (N - 1)
                           /\ t = N - 1 => Dist(r, send_chunk(r, t)) = N - 1
                           /\ t > N - 1 => Dist(r, send_chunk(r, t)) = t - N
<1>0. N \in Nat /\ N >= 2 /\ r \in 0..(N - 1) /\ t \in 0..(2 * (N - 1) - 1)
  BY NAssumption DEF Ranks, Steps
<1>1. CASE Scatter(t)
  <2>1. t < N - 1
    BY <1>1 DEF Scatter
  <2>2. /\ r - t + N \in Int /\ 0 <= r - t + N /\ r - t + N <= 2 * N
        /\ r - t - 1 + N \in Int /\ 0 <= r - t - 1 + N /\ r - t - 1 + N <= 2 * N
    BY <1>0, <2>1
  <2>3. send_chunk(r, t) = IF r - t + N < N THEN r - t + N
                           ELSE IF r - t + N < 2 * N THEN r - t ELSE 0
    BY <1>0, <1>1, <2>2, Wrap DEF send_chunk
  <2>4. recv_chunk(r, t) = IF r - t - 1 + N < N THEN r - t - 1 + N
                           ELSE IF r - t - 1 + N < 2 * N THEN r - t - 1 ELSE 0
    BY <1>0, <1>1, <2>2, Wrap DEF recv_chunk
  <2>5. Dist(r, send_chunk(r, t)) = t
    BY <1>0, <2>1, <2>3 DEF Dist
  <2>6. Dist(r, recv_chunk(r, t)) = t + 1
    BY <1>0, <2>1, <2>4 DEF Dist
  <2> QED BY <1>1, <2>5, <2>6
<1>2. CASE ~Scatter(t)
  <2> DEFINE u == t - (N - 1)
  <2>1. u \in Nat /\ u <= N - 2 /\ t = u + (N - 1)
    BY <1>0, <1>2 DEF Scatter
  <2>2. /\ r - u + 1 + N \in Int /\ 0 <= r - u + 1 + N /\ r - u + 1 + N <= 2 * N
        /\ r - u + N \in Int /\ 0 <= r - u + N /\ r - u + N <= 2 * N
    BY <1>0, <2>1
  <2>3. send_chunk(r, t) = (r - u + 1 + N) % N /\ recv_chunk(r, t) = (r - u + N) % N
    BY <1>2 DEF send_chunk, recv_chunk
  <2> HIDE DEF u
  <2>4. (r - u + 1 + N) % N = IF r - u + 1 + N < N THEN r - u + 1 + N
                              ELSE IF r - u + 1 + N < 2 * N THEN r - u + 1 ELSE 0
    BY <1>0, <2>1, <2>2, Wrap
  <2>5. (r - u + N) % N = IF r - u + N < N THEN r - u + N
                          ELSE IF r - u + N < 2 * N THEN r - u ELSE 0
    BY <1>0, <2>1, <2>2, Wrap
  <2>6. Dist(r, recv_chunk(r, t)) = u
    BY <1>0, <2>1, <2>3, <2>5 DEF Dist
  <2>7. /\ u = 0 => Dist(r, send_chunk(r, t)) = N - 1
        /\ u > 0 => Dist(r, send_chunk(r, t)) = u - 1
    BY <1>0, <2>1, <2>3, <2>4 DEF Dist
  <2> QED BY <1>0, <1>2, <2>1, <2>6, <2>7
<1> QED BY <1>1, <1>2

-----------------------------------------------------------------------------
(* Partial sums.  The shortest one is the rank's own contribution.          *)
LEMMA SumsOne ==
  ASSUME NEW r \in Ranks, NEW k
  PROVE  Own(r, k) = Sums(r, k, 1)
<1>1. Back(r, 0) = r
  BY NAssumption, BackType
<1> QED BY <1>1 DEF Own, Sums

(* Adding it to what the left neighbour has summed makes the sum one longer. *)
LEMMA SumsGrow ==
  ASSUME NEW r \in Ranks, NEW k, NEW n \in Nat, n < N
  PROVE  Own(r, k) \o Sums(Left(r), k, n) = Sums(r, k, n + 1)
<1>0. N \in Nat /\ N >= 2
  BY NAssumption
<1>1. \A i \in 1..n : Back(Left(r), i - 1) = Back(r, i)
  BY <1>0, BackType
<1>2. Back(r, 0) = r
  BY <1>0, BackType
<1> DEFINE T == Ranks \X {k}
           u == Own(r, k)
           v == Sums(Left(r), k, n)
           w == Sums(r, k, n + 1)
           x == u \o v
<1>a. ASSUME NEW q \in Ranks, NEW m \in Nat, m <= N
      PROVE  Sums(q, k, m) \in Seq(T) /\ Len(Sums(q, k, m)) = m
  <2>1. \A i \in 1..m : Back(q, i - 1) \in Ranks
    BY <1>0, <1>a, BackType
  <2>2. Sums(q, k, m) \in [1..m -> T]
    BY <2>1 DEF Sums
  <2> HIDE DEF T
  <2> QED BY <2>2
<1>4. v \in Seq(T) /\ Len(v) = n /\ w \in Seq(T) /\ Len(w) = n + 1
  BY <1>0, <1>a, Ring
<1>5. u \in Seq(T) /\ Len(u) = 1 /\ u[1] = <<r, k>>
  BY DEF Own
<1>v. \A i \in 1..n : v[i] = <<Back(Left(r), i - 1), k>>
  BY DEF Sums
<1>w. \A i \in 1..(n + 1) : w[i] = <<Back(r, i - 1), k>>
  BY DEF Sums
<1> HIDE DEF T, u, v, w
<1>6. /\ x \in Seq(T) /\ Len(x) = n + 1 /\ x[1] = u[1]
      /\ \A i \in 1..(n + 1) : i # 1 => x[i] = v[i - 1]
  <2>0. u \in Seq(T) /\ v \in Seq(T)
    BY <1>4, <1>5
  <2>1. /\ x \in Seq(T) /\ Len(x) = Len(u) + Len(v)
        /\ \A i \in 1..(Len(u) + Len(v)) :
             x[i] = IF i <= Len(u) THEN u[i] ELSE v[i - Len(u)]
    BY <2>0, ConcatProperties, Zenon
  <2> HIDE DEF x
  <2> QED BY <1>4, <1>5, <2>1
<1> HIDE DEF x
<1>7. ASSUME NEW i \in 1..(n + 1) PROVE x[i] = w[i]
  <2>1. CASE i = 1
    <3>1. 1 \in 1..(n + 1) /\ 1 - 1 = 0
      OBVIOUS
    <3>2. w[1] = <<Back(r, 0), k>>
      BY <1>w, <3>1
    <3> QED BY <1>2, <1>5, <1>6, <2>1, <3>2
  <2>2. CASE i # 1
    <3>1. i - 1 \in 1..n /\ x[i] = v[i - 1]
      BY <1>6, <2>2
    <3>2. v[i - 1] = <<Back(Left(r), (i - 1) - 1), k>>
      BY <1>v, <3>1
    <3> QED BY <1>1, <1>w, <3>1, <3>2
  <2> QED BY <2>1, <2>2
<1>8. x = w
  BY <1>4, <1>6, <1>7
<1>9. u \o v = w
  BY <1>8 DEF x
<1> QED BY <1>9 DEF u, v, w

(* A full sum has every rank's contribution exactly once. *)
LEMMA FullIsSum ==
  ASSUME NEW c \in Chunks, NEW k
  PROVE  IsSum(Full(c, k), k)
<1> DEFINE b == Back(c, 1)
           v == Full(c, k)
<1>0. N \in Nat /\ N >= 2 /\ c \in Ranks
  BY NAssumption DEF Chunks, Ranks
<1>b. b \in Ranks /\ b \in 0..(N - 1)
  BY <1>0, BackType DEF Ranks
<1> HIDE DEF b
<1>1. Len(v) = N /\ \A i \in 1..N : v[i] = <<Back(b, i - 1), k>>
  BY <1>0 DEF Full, Sums, b
<1> HIDE DEF v
<1>2. ASSUME NEW i \in 1..N PROVE v[i] \in Ranks \X {k}
  <2>1. Back(b, i - 1) \in Ranks
    BY <1>0, <1>b, BackType
  <2> QED BY <1>1, <2>1
<1>3. ASSUME NEW q \in Ranks PROVE \E i \in 1..N : v[i] = <<q, k>>
  <2>1. Dist(b, q) \in 0..(N - 1)
    BY <1>b, DistType DEF Chunks, Ranks
  <2>2. Dist(b, q) + 1 \in 1..N /\ Dist(b, q) + 1 - 1 = Dist(b, q)
    BY <1>0, <2>1
  <2>3. Back(b, Dist(b, q)) = q
    BY <1>0, <1>b DEF Back, Dist, Ranks
  <2> DEFINE j == Dist(b, q) + 1
  <2>4. j \in 1..N /\ Back(b, j - 1) = q
    BY <2>1, <2>2, <2>3
  <2> HIDE DEF j
  <2> QED BY <1>1, <2>4
<1>4. {v[i] : i \in 1..N} = Ranks \X {k}
  BY <1>2, <1>3
<1> QED BY <1>1, <1>4 DEF IsSum, v

(* A buffer a rank has just filled with its contribution. *)
LEMMA FreshContent ==
  ASSUME NEW r \in Ranks, NEW c \in Chunks, NEW k
  PROVE  Content(r, c, k, 0, 0) = Own(r, k)
<1>0. N \in Nat /\ N >= 2 /\ Dist(r, c) \in Nat
  BY NAssumption, DistType
<1>1. Own(r, k) = Sums(r, k, 1)
  BY SumsOne
<1>2. ~(Dist(r, c) + N - 1 < 0) /\ (Dist(r, c) <= 0 => Dist(r, c) + 1 = 1)
  BY <1>0
<1> QED BY <1>1, <1>2 DEF Content

(* What a step sends, once the steps before it are summed and whether or not *)
(* its own chunk has arrived.                                                *)
LEMMA SentContent ==
  ASSUME NEW r \in Ranks, NEW k, NEW t \in 0..(Steps - 1), NEW h \in {t, t + 1}
  PROVE  Content(r, send_chunk(r, t), k, t, h) = Msg(r, k, t)
<1> DEFINE c == send_chunk(r, t)
<1>0. N \in Nat /\ N >= 2 /\ t \in Nat /\ h \in Nat /\ t <= h /\ h <= t + 1 /\ c \in Chunks
  BY NAssumption, Chunk DEF Steps
<1>d. /\ Scatter(t) => Dist(r, c) = t
      /\ t = N - 1 => Dist(r, c) = N - 1
      /\ t > N - 1 => Dist(r, c) = t - N
  BY <1>0, ChunkDist DEF Scatter
<1>b. Dist(r, c) = N - 1 => Back(c, 1) = r
  BY <1>0, DistType
<1>m. Msg(r, k, t) = IF Scatter(t) THEN Sums(r, k, t + 1) ELSE Full(c, k)
  BY DEF Msg
<1> HIDE DEF c
<1>1. CASE Scatter(t)
  <2>1. ~(Dist(r, c) + N - 1 < h) /\ Dist(r, c) <= t /\ Dist(r, c) + 1 = t + 1
    BY <1>0, <1>1, <1>d
  <2> QED BY <1>1, <1>m, <2>1 DEF Content, c
<1>2. CASE t = N - 1
  <2>1. ~(Dist(r, c) + N - 1 < h) /\ Dist(r, c) <= t /\ Dist(r, c) + 1 = N /\ ~Scatter(t)
    BY <1>0, <1>2, <1>d DEF Scatter
  <2>2. Full(c, k) = Sums(r, k, N)
    BY <1>2, <1>b, <1>d DEF Full
  <2> QED BY <1>m, <2>1, <2>2 DEF Content, c
<1>3. CASE t > N - 1
  <2>1. Dist(r, c) + N - 1 < h /\ ~Scatter(t)
    BY <1>0, <1>3, <1>d DEF Scatter
  <2> QED BY <1>m, <2>1 DEF Content, c
<1> QED BY <1>0, <1>1, <1>2, <1>3 DEF Scatter

(* What the arrival of a step's message leaves in the buffer: in all-gather   *)
(* the message itself in its chunk, and nothing else changes.                 *)
LEMMA ArrivedContent ==
  ASSUME NEW r \in Ranks, NEW k, NEW t \in 0..(Steps - 1), NEW c \in Chunks
  PROVE  IF ~Scatter(t) /\ c = recv_chunk(r, t)
         THEN Content(r, c, k, t, t + 1) = Msg(Left(r), k, t)
         ELSE Content(r, c, k, t, t + 1) = Content(r, c, k, t, t)
<1> DEFINE d == recv_chunk(r, t)
<1>0. N \in Nat /\ N >= 2 /\ t \in Nat /\ d \in Chunks /\ Dist(r, c) \in 0..(N - 1)
  BY NAssumption, Chunk, DistType DEF Steps
<1>1. ~Scatter(t) => Dist(r, d) = t - (N - 1)
  BY ChunkDist
<1>2. Dist(r, c) = Dist(r, d) => c = d
  BY <1>0, DistType
<1>3. ~Scatter(t) => Msg(Left(r), k, t) = Full(d, k)
  BY Chunk DEF Msg
<1> HIDE DEF d
<1>4. CASE ~Scatter(t) /\ c = d
  <2>1. Dist(r, c) + N - 1 < t + 1
    BY <1>0, <1>1, <1>4
  <2> QED BY <1>3, <1>4, <2>1 DEF Content, d
<1>5. CASE Scatter(t) \/ c # d
  <2>1. Dist(r, c) + N - 1 < t + 1 <=> Dist(r, c) + N - 1 < t
    BY <1>0, <1>1, <1>2, <1>5 DEF Scatter
  <2> QED BY <1>5, <2>1 DEF Content, d
<1> QED BY <1>4, <1>5

(* What the sum of a step leaves in the buffer: in reduce-scatter the left    *)
(* neighbour's partial sum added to the chunk received, otherwise nothing.    *)
LEMMA SummedContent ==
  ASSUME NEW r \in Ranks, NEW k, NEW t \in 0..(Steps - 1), NEW c \in Chunks
  PROVE  Content(r, c, k, t + 1, t + 1) =
           IF Scatter(t) /\ c = recv_chunk(r, t)
           THEN Content(r, c, k, t, t + 1) \o Msg(Left(r), k, t)
           ELSE Content(r, c, k, t, t + 1)
<1> DEFINE d == recv_chunk(r, t)
<1>0. N \in Nat /\ N >= 2 /\ t \in Nat /\ d \in Chunks /\ Dist(r, c) \in 0..(N - 1)
  BY NAssumption, Chunk, DistType DEF Steps
<1>1. Scatter(t) => Dist(r, d) = t + 1
  BY ChunkDist
<1>2. Dist(r, c) = Dist(r, d) => c = d
  BY <1>0, DistType
<1>3. Scatter(t) => Msg(Left(r), k, t) = Sums(Left(r), k, t + 1)
  BY DEF Msg
<1> HIDE DEF d
<1>4. CASE Scatter(t) /\ c = d
  <2>1. /\ ~(Dist(r, c) + N - 1 < t + 1) /\ ~(Dist(r, c) <= t) /\ Dist(r, c) <= t + 1
        /\ Dist(r, c) + 1 = (t + 1) + 1 /\ t + 1 \in Nat /\ t + 1 < N
    BY <1>0, <1>1, <1>4 DEF Scatter
  <2>2. /\ Content(r, c, k, t, t + 1) = Sums(r, k, 1)
        /\ Content(r, c, k, t + 1, t + 1) = Sums(r, k, (t + 1) + 1)
    BY <2>1 DEF Content
  <2>3. Own(r, k) \o Sums(Left(r), k, t + 1) = Sums(r, k, (t + 1) + 1)
    BY <2>1, SumsGrow
  <2> QED BY <1>3, <1>4, <2>2, <2>3, SumsOne DEF d
<1>5. CASE ~Scatter(t) \/ c # d
  <2>1. Dist(r, c) <= t + 1 <=> Dist(r, c) <= t
    BY <1>0, <1>1, <1>2, <1>5 DEF Scatter
  <2> QED BY <1>5, <2>1 DEF Content, d
<1> QED BY <1>4, <1>5

(* After the last step every chunk is a full sum.                             *)
LEMMA EndContent ==
  ASSUME NEW r \in Ranks, NEW k, NEW c \in Chunks
  PROVE  Content(r, c, k, Steps, Steps) = Full(c, k)
<1>0. N \in Nat /\ N >= 2 /\ Steps = 2 * (N - 1) /\ Dist(r, c) \in 0..(N - 1)
  BY NAssumption, DistType DEF Steps
<1>1. CASE Dist(r, c) < N - 1
  BY <1>0, <1>1 DEF Content
<1>2. CASE Dist(r, c) = N - 1
  <2>1. Back(c, 1) = r
    BY <1>2, DistType
  <2>2. ~(Dist(r, c) + N - 1 < Steps) /\ Dist(r, c) <= Steps /\ Dist(r, c) + 1 = N
    BY <1>0, <1>2
  <2> QED BY <2>1, <2>2 DEF Content, Full
<1> QED BY <1>0, <1>1, <1>2

-----------------------------------------------------------------------------
(* The check of the benchmark.  Total adds up a list, so what it returns is *)
(* an induction over the list, done here on the set of the numbers for      *)
(* which the claim holds: a set of naturals with 0 and every successor is   *)
(* all of them, because its complement has no least element.                *)
LEMMA SetInduction ==
  ASSUME NEW T, T \subseteq Nat, 0 \in T, \A n \in T : n + 1 \in T
  PROVE  T = Nat
<1> SUFFICES ASSUME Nat \ T # {} PROVE FALSE
  OBVIOUS
<1> DEFINE R == OpToRel(<, Nat)
           B == Nat \ T
<1>1. IsWellFoundedOn(R, Nat)
  BY NatLessThanWellFounded
<1>a. B \subseteq Nat /\ B # {}
  OBVIOUS
<1> HIDE DEF R
<1>2. \E x \in B : \A y \in B : ~(<<y, x>> \in R)
  <2> HIDE DEF B
  <2> QED BY <1>1, <1>a, WFMin
<1>3. PICK x \in B : \A y \in B : ~(<<y, x>> \in R)
  BY <1>2
<1>4. \A y \in B : ~(y < x)
  <2> SUFFICES ASSUME NEW y \in B, y < x PROVE FALSE
    OBVIOUS
  <2>1. <<y, x>> \in R
    BY DEF R, OpToRel
  <2> QED BY <2>1, <1>3
<1>5. x \in Nat /\ x # 0 /\ x \notin T
  OBVIOUS
<1>6. x - 1 \in Nat /\ x - 1 < x /\ (x - 1) + 1 = x
  BY <1>5
<1>7. x - 1 \in T
  BY <1>4, <1>6
<1> QED BY <1>5, <1>6, <1>7

(* A list has running sums, and Total is the last of them. *)
LEMMA RunningSums ==
  ASSUME NEW v, Len(v) \in Nat, \A i \in 1..Len(v) : v[i][1] \in Nat
  PROVE  \E f \in [0..Len(v) -> Nat] :
           f = [i \in 0..Len(v) |-> IF i = 0 THEN 0 ELSE f[i - 1] + v[i][1] + 1]
<1> DEFINE P(n, f) == /\ f \in [0..n -> Nat] /\ f[0] = 0
                      /\ \A i \in 1..n : f[i] = f[i - 1] + v[i][1] + 1
           T == {n \in Nat : n <= Len(v) => \E f : P(n, f)}
<1>1. T \subseteq Nat
  OBVIOUS
<1>2. 0 \in T
  <2>1. P(0, [i \in 0..0 |-> 0])
    OBVIOUS
  <2> QED BY <2>1
<1>3. ASSUME NEW n \in T PROVE n + 1 \in T
  <2>a. n \in Nat /\ n + 1 \in Nat /\ (n <= Len(v) => \E f : P(n, f))
    BY <1>3
  <2>b. SUFFICES ASSUME n + 1 <= Len(v) PROVE \E f : P(n + 1, f)
    <3> HIDE DEF P
    <3> QED BY <2>a
  <2>0. n \in Nat /\ n <= Len(v) /\ n + 1 \in 1..Len(v)
    BY <2>a, <2>b
  <2>1. PICK f : P(n, f)
    BY <2>0, <2>a
  <2> DEFINE g == [i \in 0..(n + 1) |-> IF i = n + 1 THEN f[n] + v[n + 1][1] + 1 ELSE f[i]]
  <2>2. f[n] \in Nat /\ f[n] + v[n + 1][1] + 1 \in Nat
    <3>1. n \in 0..n /\ f \in [0..n -> Nat]
      BY <2>0, <2>1
    <3>2. f[n] \in Nat
      BY <3>1
    <3>3. v[n + 1][1] \in Nat
      BY <2>0
    <3> QED BY <3>2, <3>3
  <2>3. g \in [0..(n + 1) -> Nat]
    <3> SUFFICES ASSUME NEW i \in 0..(n + 1)
                 PROVE  (IF i = n + 1 THEN f[n] + v[n + 1][1] + 1 ELSE f[i]) \in Nat
      OBVIOUS
    <3>1. CASE i = n + 1
      BY <2>2, <3>1
    <3>2. CASE i # n + 1
      <4>1. i \in 0..n
        BY <2>0, <3>2
      <4> QED BY <2>1, <3>2, <4>1
    <3> QED BY <3>1, <3>2
  <2>4. g[0] = 0
    BY <2>0, <2>1
  <2>5. ASSUME NEW i \in 1..(n + 1) PROVE g[i] = g[i - 1] + v[i][1] + 1
    <3>1. CASE i = n + 1
      <4>1. g[i] = f[n] + v[n + 1][1] + 1
        BY <2>0, <3>1
      <4>2. i - 1 = n /\ g[i - 1] = f[n]
        BY <2>0, <3>1
      <4> QED BY <3>1, <4>1, <4>2
    <3>2. CASE i # n + 1
      <4>1. i \in 1..n /\ i \in 0..(n + 1) /\ i - 1 \in 0..(n + 1) /\ i - 1 # n + 1
        BY <2>0, <2>5, <3>2
      <4>2. g[i] = f[i] /\ g[i - 1] = f[i - 1]
        BY <3>2, <4>1
      <4>3. f[i] = f[i - 1] + v[i][1] + 1
        BY <2>1, <4>1
      <4> QED BY <4>2, <4>3
    <3> QED BY <3>1, <3>2
  <2>6. P(n + 1, g)
    BY <2>3, <2>4, <2>5
  <2> QED BY <2>6
<1>4. Len(v) \in T
  <2> HIDE DEF T
  <2> QED BY <1>1, <1>2, <1>3, SetInduction
<1>5. PICK f : P(Len(v), f)
  BY <1>4
<1>6. f = [i \in 0..Len(v) |-> IF i = 0 THEN 0 ELSE f[i - 1] + v[i][1] + 1]
  <2>1. ASSUME NEW i \in 0..Len(v)
        PROVE  f[i] = IF i = 0 THEN 0 ELSE f[i - 1] + v[i][1] + 1
    <3>1. CASE i = 0
      BY <1>5, <3>1
    <3>2. CASE i # 0
      <4>1. i \in 1..Len(v)
        BY <3>2
      <4> QED BY <1>5, <3>2, <4>1
    <3> QED BY <3>1, <3>2
  <2> QED BY <1>5, <2>1
<1> QED BY <1>5, <1>6

(* What the recursive function of Total computes. *)
LEMMA TotalRuns ==
  ASSUME NEW v, Len(v) \in Nat, \A i \in 1..Len(v) : v[i][1] \in Nat
  PROVE  \E g : /\ Total(v) = g[Len(v)] /\ g[0] = 0
                /\ \A i \in 1..Len(v) : g[i] = g[i - 1] + v[i][1] + 1
<1> DEFINE sum[i \in 0..Len(v)] == IF i = 0 THEN 0 ELSE sum[i - 1] + v[i][1] + 1
<1>0. PICK f : f = [i \in 0..Len(v) |-> IF i = 0 THEN 0 ELSE f[i - 1] + v[i][1] + 1]
  BY RunningSums
<1>1. sum = [i \in 0..Len(v) |-> IF i = 0 THEN 0 ELSE sum[i - 1] + v[i][1] + 1]
  BY <1>0, Zenon
<1>2. Total(v) = sum[Len(v)]
  BY Zenon DEF Total
<1> HIDE DEF sum
<1>3. sum[0] = 0
  BY <1>1
<1>4. ASSUME NEW i \in 1..Len(v) PROVE sum[i] = sum[i - 1] + v[i][1] + 1
  <2>1. i \in 0..Len(v) /\ i # 0
    BY <1>4
  <2> QED BY <1>1, <2>1
<1> QED BY <1>2, <1>3, <1>4

(* The step of the sum of the numbers from a down. *)
LEMMA GaussStep1 ==
  ASSUME NEW a \in Nat, NEW i \in Nat
  PROVE  i * (2 * a - i + 1) + 2 * (a - i) = (i + 1) * (2 * a - (i + 1) + 1)
  OBVIOUS

(* The same from N down. *)
LEMMA GaussStep2 ==
  ASSUME NEW j \in Nat
  PROVE  j * (2 * N - j + 1) + 2 * (N - j) = (j + 1) * (2 * N - (j + 1) + 1)
  BY NAssumption

(* A sum over the whole ring, from whichever rank it starts, is what the    *)
(* benchmark expects: the numbers from r + 1 down to 1 and from N down.     *)
LEMMA RoundAsExpected ==
  ASSUME NEW r \in Ranks, NEW k
  PROVE  AsExpected(Sums(r, k, N))
<1> DEFINE v == Sums(r, k, N)
           a == r + 1
<1>0. N \in Nat /\ N >= 2 /\ r \in Nat /\ a \in Nat /\ a <= N /\ a >= 1
  BY NAssumption DEF Ranks
<1>1. /\ Len(v) = N /\ \A i \in 1..N : /\ v[i][1] = Back(r, i - 1)
                                       /\ i <= a => v[i][1] + 1 = a - (i - 1)
                                       /\ i > a => v[i][1] + 1 = N - (i - 1 - a)
  BY <1>0 DEF Sums, Back
<1>2. \A i \in 1..N : v[i][1] \in Nat
  BY <1>0, <1>1 DEF Back
<1>l. Len(v) = N /\ Len(v) \in Nat /\ \A i \in 1..Len(v) : v[i][1] \in Nat
  BY <1>0, <1>1, <1>2
<1> HIDE DEF v, a
<1>t. \E g : /\ Total(v) = g[Len(v)] /\ g[0] = 0
             /\ \A i \in 1..Len(v) : g[i] = g[i - 1] + v[i][1] + 1
  BY <1>l, TotalRuns
<1>3. PICK g : /\ Total(v) = g[N] /\ g[0] = 0
               /\ \A i \in 1..N : g[i] = g[i - 1] + v[i][1] + 1
  BY <1>l, <1>t
<1> DEFINE F(i) == IF i <= a THEN i * (2 * a - i + 1)
                   ELSE a * (a + 1) + (i - a) * (2 * N - (i - a) + 1)
           T == {i \in Nat : i <= N => g[i] \in Int /\ 2 * g[i] = F(i)}
<1>4. 0 \in T
  BY <1>0, <1>3
<1>5. ASSUME NEW i \in T PROVE i + 1 \in T
  <2> SUFFICES ASSUME i + 1 <= N PROVE g[i + 1] \in Int /\ 2 * g[i + 1] = F(i + 1)
    OBVIOUS
  <2>1. i \in Nat /\ i + 1 \in 1..N /\ g[i] \in Int /\ 2 * g[i] = F(i)
    BY <1>0
  <2>2. g[i + 1] = g[i] + v[i + 1][1] + 1 /\ v[i + 1][1] \in Nat
    BY <1>2, <1>3, <2>1
  <2>3. CASE i < a
    <3>1. v[i + 1][1] + 1 = a - i
      BY <1>0, <1>1, <2>1, <2>3
    <3>2. F(i + 1) = (i + 1) * (2 * a - (i + 1) + 1) /\ F(i) = i * (2 * a - i + 1)
      BY <1>0, <2>1, <2>3
    <3>3. 2 * g[i + 1] = 2 * g[i] + 2 * (a - i)
      BY <1>0, <2>1, <2>2, <3>1
    <3> QED BY <1>0, <2>1, <2>2, <3>2, <3>3, GaussStep1
  <2>4. CASE i >= a
    <3> DEFINE j == i - a
    <3>0. j \in Nat
      BY <1>0, <2>1, <2>4
    <3>1. v[i + 1][1] + 1 = N - j
      BY <1>0, <1>1, <2>1, <2>4
    <3>2. F(i + 1) = a * (a + 1) + (j + 1) * (2 * N - (j + 1) + 1)
      BY <1>0, <2>1, <2>4
    <3>3. F(i) = a * (a + 1) + j * (2 * N - j + 1)
      <4>1. CASE i = a
        BY <1>0, <4>1
      <4>2. CASE i > a
        BY <1>0, <2>1, <4>2
      <4> QED BY <1>0, <2>1, <2>4, <4>1, <4>2
    <3>4. 2 * g[i + 1] = 2 * g[i] + 2 * (N - j)
      BY <1>0, <2>1, <2>2, <3>0, <3>1
    <3> HIDE DEF j
    <3> QED BY <1>0, <2>1, <2>2, <3>0, <3>2, <3>3, <3>4, GaussStep2
  <2> QED BY <1>0, <2>1, <2>3, <2>4
<1>6. N \in T
  <2>1. T \subseteq Nat
    OBVIOUS
  <2> HIDE DEF T
  <2> QED BY <1>0, <1>4, <1>5, <2>1, SetInduction
<1>7. 2 * g[N] = F(N)
  BY <1>0, <1>6
<1>8. F(N) = (1 + N) * N
  <2>1. CASE a = N
    BY <1>0, <2>1
  <2>2. CASE a < N
    <3>1. F(N) = a * (a + 1) + (N - a) * (2 * N - (N - a) + 1)
      BY <1>0, <2>2
    <3> QED BY <1>0, <3>1
  <2> QED BY <1>0, <2>1, <2>2
<1> QED BY <1>3, <1>7, <1>8 DEF AsExpected, v

(* The correctness check passes on full sums. *)
LEMMA FullAsExpected ==
  ASSUME NEW c \in Chunks, NEW k
  PROVE  AsExpected(Full(c, k))
<1>1. Back(c, 1) \in Ranks
  BY NAssumption, BackType DEF Chunks, Ranks
<1> QED BY <1>1, RoundAsExpected DEF Full
=============================================================================
