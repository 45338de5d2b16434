----------------------------- MODULE RingChunks -----------------------------
(***************************************************************************)
(* The arithmetic the two ring all-reduce paths share                       *)
(* (phase3_collective/src/ring_allreduce.cpp): who the neighbours of a rank *)
(* are, how many steps a call takes, and which chunk of the buffer each     *)
(* step sends and receives.                                                 *)
(***************************************************************************)
EXTENDS Integers, Sequences, FiniteSets, SequencesExt

CONSTANT N          \* World::size

(* ring_allreduce returns at once for a world of one rank. *)
ASSUME NAssumption == N \in Nat /\ N >= 2

Ranks  == 0..(N-1)
Chunks == 0..(N-1)

Left(r)  == (r - 1 + N) % N
Right(r) == (r + 1) % N

Steps == 2 * (N - 1)

(* Reduce-scatter takes the first N-1 steps, all-gather the others. *)
Scatter(s) == s < N - 1

\* Mutant: all-gather starts from the chunk reduce-scatter started from.
send_chunk_GatherFromOwn(rank, s) ==
  IF Scatter(s) THEN (rank - s + N) % N ELSE (rank - (s - (N - 1)) + N) % N

send_chunk(rank, s) ==
  IF Scatter(s) THEN (rank - s + N) % N
                ELSE (rank - (s - (N - 1)) + 1 + N) % N

recv_chunk(rank, s) ==
  IF Scatter(s) THEN (rank - s - 1 + N) % N
                ELSE (rank - (s - (N - 1)) + N) % N

-----------------------------------------------------------------------------
(* A number in a rank's buffer is described by the contributions summed     *)
(* into it, in summation order: <<q, k>> is what rank q put there before    *)
(* call k, and dst += src concatenates.  Rank N stands for the content of   *)
(* memory nobody has written yet.                                           *)
Contribution == (0..N) \X Nat
Value        == Seq(Contribution)

Garbage  == << <<N, 0>> >>
Own(r, k) == << <<r, k>> >>

(* The number v stands for when rank q contributes q + 1, as the benchmark   *)
(* fills its buffers.                                                       *)
Total(v) ==
  LET sum[i \in 0..Len(v)] == IF i = 0 THEN 0 ELSE sum[i - 1] + v[i][1] + 1
  IN  sum[Len(v)]

(* buf[i] == expect, with expect = (1 + world) * world / 2. *)
AsExpected(v) == 2 * Total(v) = (1 + N) * N

(* v is a full sum for call k: every rank's contribution exactly once. *)
IsSum(v, k) ==
  /\ Len(v) = N
  /\ {v[i] : i \in 1..Len(v)} = Ranks \X {k}
=============================================================================
