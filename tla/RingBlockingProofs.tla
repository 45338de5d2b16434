------------------------- MODULE RingBlockingProofs -------------------------
(***************************************************************************)
(* Proofs about RingBlocking, for every ring size, number of iterations,    *)
(* piece size and socket capacity: a byte stream without boundaries never   *)
(* gets out of step, the barrier holds back the left neighbour's            *)
(* successor, every rank returns the full sums, and no rank fails unless a  *)
(* faulty one stopped.                                                      *)
(***************************************************************************)
EXTENDS RingBlocking, RingSums

-----------------------------------------------------------------------------
(* Places in what one rank sends another from the first call to the last:   *)
(* <<k, t, u>> is piece u (from 0) of step t of call k, and step -1 is the  *)
(* byte of the barrier before call k.                                       *)

Place == Nat \X Int \X Nat
End   == <<Iters + 1, -1, 0>>     \* a barrier that is never sent

After(k, t) == IF t + 1 < Steps THEN <<k, t + 1, 0>> ELSE <<k + 1, -1, 0>>

Succ(p) ==
  IF p[2] = -1 THEN <<p[1], 0, 0>>
  ELSE IF p[3] + 1 < Pieces THEN <<p[1], p[2], p[3] + 1>>
  ELSE After(p[1], p[2])

Frame(r, p) ==
  IF p[2] = -1 THEN <<"barrier", 0, 1>> ELSE <<"chunk", send_chunk(r, p[2]), p[3] + 1>>

\* Where r is in one direction, first being whether that direction comes first.
Progress(r, op, bop, first) ==
  IF pc[r] = "start" THEN <<call[r], 0, 0>>
  ELSE IF pc[r] = op THEN <<call[r], s[r], moved[r]>>
  ELSE IF pc[r] \in {"send", "recv"}
       THEN IF first THEN After(call[r], s[r]) ELSE <<call[r], s[r], 0>>
  ELSE IF pc[r] = "sum" THEN After(call[r], s[r])
  ELSE IF pc[r] = bop THEN <<call[r], -1, 0>>
  ELSE IF pc[r] \in {"bsend", "brecv"}
       THEN IF first THEN <<call[r], 0, 0>> ELSE <<call[r], -1, 0>>
  ELSE <<call[r] + 1, -1, 0>>

SendPos(r) == Progress(r, "send", "bsend", SendsFirst(r))
RecvPos(r) == Progress(r, "recv", "brecv", ~SendsFirst(r))

\* Who has entered which call, and what a rank that has the messages of n steps
\* of call k knows of that, E being the entries there have been.
Outside == {"start", "bsend", "brecv"}
Within ==
  {e \in Ranks \X Nat : \/ call[e[1]] > e[2]
                        \/ call[e[1]] = e[2] /\ pc[e[1]] \notin Outside}
Informed(r, k, n, E) == \A i \in 1..(N - 1) : i <= n => <<Back(r, i), k>> \in E

\* What r sends at a place: the frame, and in the ring the partial or full sum
\* of that step, to which r and all that went before it have contributed.
Carries(r, p, item, E) ==
  /\ item[1] = Frame(r, p)
  /\ p[2] # -1 => /\ item[2] = Msg(r, p[1], p[2])
                  /\ <<r, p[1]>> \in E /\ Informed(r, p[1], p[2], E)

\* str holds what r sends from place a up to place b, of calls up to k.
Linked(r, str, a, b, k, E) ==
  \E f \in [0..Len(str) -> Place] :
    /\ f[0] = a /\ f[Len(str)] = b
    /\ \A i \in 1..Len(str) : /\ f[i] = Succ(f[i - 1]) /\ f[i - 1] # End
                              /\ f[i - 1][1] <= k /\ Carries(r, f[i - 1], str[i], E)

-----------------------------------------------------------------------------
(* The inductive invariant. *)

ThreadType ==
  /\ pc \in [Ranks -> PCs] /\ call \in [Ranks -> 0..Iters]
  /\ s \in [Ranks -> 0..(Steps - 1)] /\ moved \in [Ranks -> 0..(Pieces - 1)]
  /\ open \in [Ranks -> BOOLEAN] /\ room \in [Ranks -> Capacities]
DataType ==
  /\ buf \in [Ranks -> [Chunks -> [Piece -> Value]]]
  /\ stage \in [Ranks -> [Piece -> Value]]
StreamType ==
  /\ stream \in [Ranks -> Seq(Frames \X Value)]
  /\ \A r \in Ranks : Len(stream[r]) <= room[r]

Standing ==
  \A r \in Ranks :
    /\ pc[r] \in {"start", "sum", "check", "reset", "done", "bsend", "brecv"} => moved[r] = 0
    /\ pc[r] = "check" => call[r] \in {0, Iters}
    /\ pc[r] = "reset" => call[r] < Iters
    /\ pc[r] = "done" => call[r] = Iters
    /\ ~open[r] => Ended(r)

\* What lies between a sender and a receiver that is still there.  A rank that
\* has failed sends no more, and what it sent is still read.
Channel(r) ==
  open[Right(r)] /\ pc[Right(r)] # "failed" =>
    \E b \in Place : /\ pc[r] # "failed" => b = SendPos(r)
                     /\ Linked(r, stream[r], RecvPos(Right(r)), b, call[r], Within)
Channels == \A r \in Ranks : Channel(r)

\* A rank that is done has read all its left neighbour ever sends.
DoneIsFed ==
  \A r \in Ranks : pc[r] = "done" => pc[Left(r)] = "failed" \/ SendPos(Left(r)) = End

\* A rank has read the byte of the barrier before its call.
HasByte(r) ==
  call[r] > 0 /\ (\/ pc[r] \in {"start", "send", "recv", "sum", "check", "reset", "done"}
                  \/ pc[r] = "bsend" /\ ~SendsFirst(r))
LeftArrived == \A r \in Ranks : HasByte(r) => call[Left(r)] >= call[r]

IInv ==
  /\ ThreadType /\ DataType /\ StreamType /\ Standing /\ Channels /\ DoneIsFed /\ LeftArrived
  /\ FailureHasCause

\* How many steps r has summed, how many messages it has received in full, and
\* how many of a piece.
RingPCs   == {"send", "recv", "sum"}
Over      == {"check", "reset", "done"}
Summed(r) == IF pc[r] \in RingPCs THEN s[r] ELSE IF pc[r] \in Over THEN Steps ELSE 0
Fully(r) ==
  IF pc[r] = "sum" \/ (pc[r] = "send" /\ ~SendsFirst(r)) THEN s[r] + 1
  ELSE IF pc[r] \in RingPCs THEN s[r]
  ELSE IF pc[r] \in Over THEN Steps ELSE 0
Has(r, u) == IF pc[r] = "recv" /\ u <= moved[r] THEN s[r] + 1 ELSE Fully(r)

BufHolds(r) ==
  \A c \in Chunks, u \in Piece : buf[r][c][u] = Content(r, c, call[r], Summed(r), Has(r, u))
StageHolds(r) ==
  Scatter(Summed(r)) =>
    \A u \in Piece : Has(r, u) = Summed(r) + 1
                        => stage[r][u] = Msg(Left(r), call[r], Summed(r))
Data == \A r \in Ranks : pc[r] # "failed" => BufHolds(r) /\ StageHolds(r)

\* A message tells that all who contributed to it have entered the call.
Knowing == \A r \in Ranks : pc[r] # "failed" => Informed(r, call[r], Fully(r), Within)

SumInv == IInv /\ Data /\ Knowing

-----------------------------------------------------------------------------
(* A stream between two places.                                               *)

(* The place after a place is a place.                                        *)
LEMMA SuccPlace ==
  ASSUME NEW p \in Place
  PROVE  Succ(p) \in Place
<1>1. p[1] \in Nat /\ p[2] \in Int /\ p[3] \in Nat
  BY DEF Place
<1> QED BY <1>1 DEF Place, Succ, After

(* An empty stream: the receiver has caught up.                               *)
LEMMA LinkNil ==
  ASSUME NEW r, NEW str, Len(str) = 0, NEW a, NEW b, NEW k, NEW E,
         Linked(r, str, a, b, k, E)
  PROVE  a = b
  BY DEF Linked

(* send() appends the next frame.                                             *)
LEMMA LinkSend ==
  ASSUME NEW r, NEW str \in Seq(Frames \X Value), NEW a, NEW b \in Place, NEW k \in Nat,
         NEW E, Linked(r, str, a, b, k, E), b # End, b[1] <= k,
         NEW item \in Frames \X Value, Carries(r, b, item, E)
  PROVE  Linked(r, Append(str, item), a, Succ(b), k, E)
<1>1. PICK f \in [0..Len(str) -> Place] :
        /\ f[0] = a /\ f[Len(str)] = b
        /\ \A i \in 1..Len(str) : /\ f[i] = Succ(f[i - 1]) /\ f[i - 1] # End
                                  /\ f[i - 1][1] <= k /\ Carries(r, f[i - 1], str[i], E)
  BY DEF Linked
<1> DEFINE n == Len(str)
           t == Append(str, item)
           g == [i \in 0..(n + 1) |-> IF i = n + 1 THEN Succ(b) ELSE f[i]]
<1>2. n \in Nat /\ Len(t) = n + 1 /\ t[n + 1] = item /\ \A i \in 1..n : t[i] = str[i]
  OBVIOUS
<1>3. g \in [0..Len(t) -> Place]
  <2>1. \A i \in 0..(n + 1) : i # n + 1 => i \in 0..n
    BY <1>2
  <2>2. \A i \in 0..(n + 1) : (IF i = n + 1 THEN Succ(b) ELSE f[i]) \in Place
    BY <2>1, SuccPlace
  <2> QED BY <1>2, <2>2
<1>4. /\ \A i \in 0..n : g[i] = f[i]
      /\ g[n + 1] = Succ(b)
  BY <1>2
<1>5. g[0] = a /\ g[Len(t)] = Succ(b)
  BY <1>1, <1>2, <1>4
<1>6. ASSUME NEW i \in 1..Len(t)
      PROVE  /\ g[i] = Succ(g[i - 1]) /\ g[i - 1] # End
             /\ g[i - 1][1] <= k /\ Carries(r, g[i - 1], t[i], E)
  <2>1. CASE i = n + 1
    <3>1. i - 1 = n /\ n \in 0..n
      BY <1>2, <2>1
    <3>2. g[i - 1] = b
      BY <1>1, <1>4, <3>1
    <3> QED BY <1>2, <1>4, <2>1, <3>2
  <2>2. CASE i \in 1..n
    <3>1. i - 1 \in 0..n /\ i \in 0..n
      BY <1>2, <2>2
    <3> QED BY <1>1, <1>2, <1>4, <2>2, <3>1
  <2> QED BY <1>2, <2>1, <2>2
<1> HIDE DEF g
<1> QED BY <1>3, <1>5, <1>6 DEF Linked

(* recv() takes the frame of the place the receiver is at.                    *)
LEMMA LinkRecv ==
  ASSUME NEW r, NEW str \in Seq(Frames \X Value), NEW a, NEW b, NEW k \in Nat,
         NEW E, Linked(r, str, a, b, k, E), str # << >>
  PROVE  /\ Linked(r, Tail(str), Succ(a), b, k, E)
         /\ Carries(r, a, Head(str), E) /\ a # End /\ a[1] <= k
<1>1. PICK f \in [0..Len(str) -> Place] :
        /\ f[0] = a /\ f[Len(str)] = b
        /\ \A i \in 1..Len(str) : /\ f[i] = Succ(f[i - 1]) /\ f[i - 1] # End
                                  /\ f[i - 1][1] <= k /\ Carries(r, f[i - 1], str[i], E)
  BY DEF Linked
<1> DEFINE n == Len(str)
           t == Tail(str)
           g == [i \in 0..(n - 1) |-> f[i + 1]]
<1>2. /\ n \in Nat /\ n >= 1 /\ Len(t) = n - 1 /\ \A i \in 1..(n - 1) : t[i] = str[i + 1]
      /\ Head(str) = str[1]
  OBVIOUS
<1>3. Carries(r, a, Head(str), E) /\ a # End /\ a[1] <= k /\ f[1] = Succ(a)
  <2>1. 1 \in 1..n /\ 1 - 1 = 0
    BY <1>2
  <2> QED BY <1>1, <1>2, <2>1
<1>4. g \in [0..Len(t) -> Place]
  <2>1. \A i \in 0..(n - 1) : i + 1 \in 0..n
    BY <1>2
  <2> QED BY <1>2, <2>1
<1>5. \A i \in 0..(n - 1) : g[i] = f[i + 1]
  OBVIOUS
<1>6. g[0] = Succ(a) /\ g[Len(t)] = b
  <2>1. 0 \in 0..(n - 1) /\ n - 1 \in 0..(n - 1) /\ 0 + 1 = 1 /\ (n - 1) + 1 = n
    BY <1>2
  <2> QED BY <1>1, <1>2, <1>3, <1>5, <2>1
<1>7. ASSUME NEW i \in 1..Len(t)
      PROVE  /\ g[i] = Succ(g[i - 1]) /\ g[i - 1] # End
             /\ g[i - 1][1] <= k /\ Carries(r, g[i - 1], t[i], E)
  <2>1. /\ i \in 0..(n - 1) /\ i - 1 \in 0..(n - 1) /\ (i - 1) + 1 = i /\ (i + 1) - 1 = i
        /\ i + 1 \in 1..n /\ i \in 1..(n - 1)
    BY <1>2
  <2>2. g[i] = f[i + 1] /\ g[i - 1] = f[i]
    BY <1>5, <2>1
  <2> QED BY <1>1, <1>2, <2>1, <2>2
<1> HIDE DEF g
<1> QED BY <1>3, <1>4, <1>6, <1>7 DEF Linked

(* The sender going on to its next call, and more ranks entering theirs,      *)
(* change nothing.                                                            *)
LEMMA LinkMono ==
  ASSUME NEW r, NEW str \in Seq(Frames \X Value), NEW a, NEW b, NEW k \in Nat, NEW l \in Nat,
         k <= l, NEW E, NEW F, E \subseteq F, Linked(r, str, a, b, k, E)
  PROVE  Linked(r, str, a, b, l, F)
<1>1. PICK f \in [0..Len(str) -> Place] :
        /\ f[0] = a /\ f[Len(str)] = b
        /\ \A i \in 1..Len(str) : /\ f[i] = Succ(f[i - 1]) /\ f[i - 1] # End
                                  /\ f[i - 1][1] <= k /\ Carries(r, f[i - 1], str[i], E)
  BY DEF Linked
<1>2. \A i \in 1..Len(str) : f[i - 1][1] <= l
  <2> SUFFICES ASSUME NEW i \in 1..Len(str) PROVE f[i - 1][1] <= l
    OBVIOUS
  <2>1. i - 1 \in 0..Len(str)
    OBVIOUS
  <2>2. f[i - 1][1] \in Nat
    BY <2>1 DEF Place
  <2> QED BY <1>1, <2>2
<1>3. \A p, item : Carries(r, p, item, E) => Carries(r, p, item, F)
  BY DEF Carries, Informed
<1> QED BY <1>1, <1>2, <1>3 DEF Linked

(* No rank leaves a call it has entered but for the next one.                 *)
LEMMA WithinGrows ==
  ASSUME ThreadType, ThreadType', NEW r \in Ranks,
         \A q \in Ranks : q # r => pc'[q] = pc[q] /\ call'[q] = call[q],
         call[r] <= call'[r],
         call'[r] = call[r] /\ pc[r] \notin Outside => pc'[r] \notin Outside
  PROVE  Within \subseteq Within'
<1> SUFFICES ASSUME NEW e \in Within PROVE e \in Within'
  OBVIOUS
<1> DEFINE q == e[1]
           k == e[2]
<1>1. /\ e \in Ranks \X Nat /\ q \in Ranks /\ k \in Nat
      /\ call[q] > k \/ (call[q] = k /\ pc[q] \notin Outside)
  BY DEF Within
<1>2. call[q] \in Nat /\ call'[q] \in Nat
  BY <1>1, ItersAssumption DEF ThreadType
<1>3. call'[q] > k \/ (call'[q] = k /\ pc'[q] \notin Outside)
  <2>1. CASE q = r
    BY <1>1, <1>2, <2>1
  <2>2. CASE q # r
    BY <1>1, <2>2
  <2> QED BY <2>1, <2>2
<1> HIDE DEF q, k
<1> QED BY <1>1, <1>3 DEF Within, q, k

-----------------------------------------------------------------------------
(* What the steps do to the two places of a rank.                             *)

(* They depend on the rank's own thread.                                      *)
LEMMA PosFrame ==
  ASSUME NEW q \in Ranks, pc'[q] = pc[q], call'[q] = call[q], s'[q] = s[q], moved'[q] = moved[q]
  PROVE  SendPos(q)' = SendPos(q) /\ RecvPos(q)' = RecvPos(q)
  BY DEF SendPos, RecvPos, Progress, SendsFirst

(* And are places.                                                            *)
LEMMA PosPlace ==
  ASSUME ThreadType, NEW q \in Ranks
  PROVE  SendPos(q) \in Place /\ RecvPos(q) \in Place
<1>1. call[q] \in Nat /\ s[q] \in Nat /\ moved[q] \in Nat
  BY ItersAssumption, NAssumption, PiecesAssumption DEF ThreadType, Steps
<1> QED BY <1>1 DEF SendPos, RecvPos, Progress, Place, After

(* A piece sent is the piece of the place the sender is at.                   *)
LEMMA SendMoves ==
  ASSUME ThreadType, DataType, Standing, NEW r \in Ranks, SendPiece(r)
  PROVE  /\ SendPos(r)' = Succ(SendPos(r)) /\ RecvPos(r)' = RecvPos(r)
         /\ SendPos(r) # End /\ SendPos(r)[1] = call[r] /\ pc'[r] # "failed"
         /\ \E item \in Frames \X Value :
              /\ item[1] = Frame(r, SendPos(r))
              /\ SendPos(r)[2] # -1 => /\ pc[r] = "send" /\ SendPos(r)[2] = s[r]
                                       /\ item[2] = buf[r][send_chunk(r, s[r])][moved[r] + 1]
              /\ stream' = [stream EXCEPT ![r] = Append(stream[r], item)]
<1>0. /\ call[r] \in Nat /\ call[r] <= Iters /\ Iters \in Nat
      /\ s[r] \in 0..(Steps - 1) /\ s[r] \in Nat /\ Steps \in Nat
      /\ moved[r] \in Nat /\ moved[r] < Pieces /\ Pieces \in Nat
      /\ pc[r] \in PCs
  BY ItersAssumption, NAssumption, PiecesAssumption DEF ThreadType, Steps
<1>1. UNCHANGED <<call, s, buf, stage, open, room>> /\ Advance(r) /\ pc[r] \in SendPCs
  BY DEF SendPiece
<1>2. CASE pc[r] = "send"
  <2>0. SendPos(r) = <<call[r], s[r], moved[r]>>
    BY <1>2 DEF SendPos, Progress
  <2>1. /\ RecvPos(r) = IF ~SendsFirst(r) THEN After(call[r], s[r]) ELSE <<call[r], s[r], 0>>
    BY <1>2 DEF RecvPos, Progress
  <2>2. SendPos(r)' = Succ(SendPos(r)) /\ RecvPos(r)' = RecvPos(r) /\ pc'[r] # "failed"
    <3>1. CASE moved[r] + 1 < Pieces
      <4>1. pc' = pc /\ moved' = [moved EXCEPT ![r] = moved[r] + 1]
        BY <1>1, <1>2, <3>1 DEF Advance, OpLength
      <4>2. pc'[r] = "send" /\ moved'[r] = moved[r] + 1
        BY <1>2, <4>1 DEF ThreadType
      <4>3. SendPos(r)' = <<call[r], s[r], moved[r] + 1>>
        BY <1>1, <4>2 DEF SendPos, Progress, SendsFirst
      <4>4. Succ(SendPos(r)) = <<call[r], s[r], moved[r] + 1>>
        BY <1>0, <2>0, <3>1 DEF Succ
      <4>5. RecvPos(r)' = RecvPos(r)
        BY <1>1, <2>1, <4>2 DEF RecvPos, Progress, SendsFirst
      <4> QED BY <4>2, <4>3, <4>4, <4>5
    <3>2. CASE ~(moved[r] + 1 < Pieces)
      <4>1. /\ moved' = [moved EXCEPT ![r] = 0]
            /\ pc' = [pc EXCEPT ![r] = IF SendsFirst(r) THEN "recv" ELSE "sum"]
        BY <1>1, <1>2, <3>2 DEF Advance, OpLength, Goto, AfterOp, At
      <4>2. pc'[r] = (IF SendsFirst(r) THEN "recv" ELSE "sum") /\ moved'[r] = 0
        BY <4>1 DEF ThreadType
      <4>3. Succ(SendPos(r)) = After(call[r], s[r])
        BY <1>0, <2>0, <3>2 DEF Succ
      <4>4. call'[r] = call[r] /\ s'[r] = s[r]
        BY <1>1
      <4>5. CASE SendsFirst(r)
        BY <2>1, <4>2, <4>3, <4>4, <4>5 DEF SendPos, RecvPos, Progress, SendsFirst
      <4>6. CASE ~SendsFirst(r)
        BY <2>1, <4>2, <4>3, <4>4, <4>6 DEF SendPos, RecvPos, Progress, SendsFirst
      <4> QED BY <4>5, <4>6
    <3> QED BY <3>1, <3>2
  <2>3. SendPos(r) # End /\ SendPos(r)[1] = call[r]
    BY <1>0, <2>0 DEF End
  <2>4. \E item \in Frames \X Value :
              /\ item[1] = Frame(r, SendPos(r))
              /\ SendPos(r)[2] # -1 => /\ pc[r] = "send" /\ SendPos(r)[2] = s[r]
                                       /\ item[2] = buf[r][send_chunk(r, s[r])][moved[r] + 1]
              /\ stream' = [stream EXCEPT ![r] = Append(stream[r], item)]
    <3> DEFINE c == send_chunk(r, s[r])
               u == moved[r] + 1
               item == << <<"chunk", c, u>>, buf[r][c][u] >>
    <3>1. stream' = [stream EXCEPT ![r] = Append(stream[r], item)]
      BY <1>2 DEF SendPiece, At
    <3>2. c \in Chunks
      BY <1>0, Chunk
    <3>3. u \in Piece
      BY <1>0 DEF Piece
    <3>4. buf[r][c][u] \in Value
      BY <3>2, <3>3 DEF DataType
    <3>5. item \in Frames \X Value
      BY <3>2, <3>3, <3>4 DEF Frames
    <3>6. item[1] = Frame(r, SendPos(r))
      BY <1>0, <2>0 DEF Frame
    <3>7. SendPos(r)[2] = s[r] /\ item[2] = buf[r][c][u]
      BY <2>0
    <3> QED BY <1>2, <3>1, <3>5, <3>6, <3>7
  <2> QED BY <2>2, <2>3, <2>4
<1>3. CASE pc[r] = "bsend"
  <2>0. SendPos(r) = <<call[r], -1, 0>>
    BY <1>3 DEF SendPos, Progress
  <2>1. /\ RecvPos(r) = IF ~SendsFirst(r) THEN <<call[r], 0, 0>> ELSE <<call[r], -1, 0>>
    BY <1>3 DEF RecvPos, Progress
  <2>2. SendPos(r)' = Succ(SendPos(r)) /\ RecvPos(r)' = RecvPos(r) /\ pc'[r] # "failed"
    <3>1. moved[r] = 0
      BY <1>3 DEF Standing
    <3>2. /\ moved' = [moved EXCEPT ![r] = 0]
          /\ pc' = [pc EXCEPT ![r] = IF SendsFirst(r) THEN "brecv" ELSE "start"]
      BY <1>1, <1>3, <3>1 DEF Advance, OpLength, Goto, AfterOp, At
    <3>3. pc'[r] = (IF SendsFirst(r) THEN "brecv" ELSE "start")
      BY <3>2 DEF ThreadType
    <3>4. Succ(SendPos(r)) = <<call[r], 0, 0>>
      BY <2>0 DEF Succ
    <3>5. call'[r] = call[r]
      BY <1>1
    <3>6. CASE SendsFirst(r)
      BY <2>1, <3>3, <3>4, <3>5, <3>6 DEF SendPos, RecvPos, Progress, SendsFirst
    <3>7. CASE ~SendsFirst(r)
      BY <2>1, <3>3, <3>4, <3>5, <3>7 DEF SendPos, RecvPos, Progress, SendsFirst
    <3> QED BY <3>6, <3>7
  <2>3. SendPos(r) # End /\ SendPos(r)[1] = call[r]
    BY <1>0, <2>0 DEF End
  <2>4. \E item \in Frames \X Value :
              /\ item[1] = Frame(r, SendPos(r))
              /\ SendPos(r)[2] # -1 => /\ pc[r] = "send" /\ SendPos(r)[2] = s[r]
                                       /\ item[2] = buf[r][send_chunk(r, s[r])][moved[r] + 1]
              /\ stream' = [stream EXCEPT ![r] = Append(stream[r], item)]
    <3> DEFINE item == << <<"barrier", 0, 1>>, Garbage >>
    <3>1. stream' = [stream EXCEPT ![r] = Append(stream[r], item)]
      BY <1>3 DEF SendPiece, At
    <3>2. Garbage \in Value
      BY NAssumption DEF Garbage, Value, Contribution
    <3>3. item \in Frames \X Value
      BY <3>2 DEF Frames
    <3>4. item[1] = Frame(r, SendPos(r)) /\ SendPos(r)[2] = -1
      BY <2>0 DEF Frame
    <3> QED BY <3>1, <3>3, <3>4
  <2> QED BY <2>2, <2>3, <2>4
<1> QED BY <1>1, <1>2, <1>3 DEF SendPCs

(* And a piece received moves the receiver on.                                *)
LEMMA RecvMoves ==
  ASSUME ThreadType, Standing, NEW r \in Ranks, RecvPiece(r)
  PROVE  /\ RecvPos(r)' = Succ(RecvPos(r)) /\ SendPos(r)' = SendPos(r)
         /\ RecvPos(r) # End /\ RecvPos(r)[1] = call[r] /\ pc'[r] # "failed"
<1>0. /\ call[r] \in Nat /\ call[r] <= Iters /\ Iters \in Nat
      /\ s[r] \in 0..(Steps - 1) /\ s[r] \in Nat /\ Steps \in Nat
      /\ moved[r] \in Nat /\ moved[r] < Pieces /\ Pieces \in Nat
      /\ pc[r] \in PCs
  BY ItersAssumption, NAssumption, PiecesAssumption DEF ThreadType, Steps
<1>1. UNCHANGED <<call, s, open, room>> /\ Advance(r) /\ pc[r] \in RecvPCs
  BY DEF RecvPiece
<1>2. CASE pc[r] = "recv"
  <2>0. RecvPos(r) = <<call[r], s[r], moved[r]>>
    BY <1>2 DEF RecvPos, Progress
  <2>1. /\ SendPos(r) = IF SendsFirst(r) THEN After(call[r], s[r]) ELSE <<call[r], s[r], 0>>
    BY <1>2 DEF SendPos, Progress
  <2>2. RecvPos(r)' = Succ(RecvPos(r)) /\ SendPos(r)' = SendPos(r) /\ pc'[r] # "failed"
    <3>1. CASE moved[r] + 1 < Pieces
      <4>1. pc' = pc /\ moved' = [moved EXCEPT ![r] = moved[r] + 1]
        BY <1>1, <1>2, <3>1 DEF Advance, OpLength
      <4>2. pc'[r] = "recv" /\ moved'[r] = moved[r] + 1
        BY <1>2, <4>1 DEF ThreadType
      <4>3. RecvPos(r)' = <<call[r], s[r], moved[r] + 1>>
        BY <1>1, <4>2 DEF RecvPos, Progress, SendsFirst
      <4>4. Succ(RecvPos(r)) = <<call[r], s[r], moved[r] + 1>>
        BY <1>0, <2>0, <3>1 DEF Succ
      <4>5. SendPos(r)' = SendPos(r)
        BY <1>1, <2>1, <4>2 DEF SendPos, Progress, SendsFirst
      <4> QED BY <4>2, <4>3, <4>4, <4>5
    <3>2. CASE ~(moved[r] + 1 < Pieces)
      <4>1. /\ moved' = [moved EXCEPT ![r] = 0]
            /\ pc' = [pc EXCEPT ![r] = IF SendsFirst(r) THEN "sum" ELSE "send"]
        BY <1>1, <1>2, <3>2 DEF Advance, OpLength, Goto, AfterOp, At
      <4>2. pc'[r] = (IF SendsFirst(r) THEN "sum" ELSE "send") /\ moved'[r] = 0
        BY <4>1 DEF ThreadType
      <4>3. Succ(RecvPos(r)) = After(call[r], s[r])
        BY <1>0, <2>0, <3>2 DEF Succ
      <4>4. call'[r] = call[r] /\ s'[r] = s[r]
        BY <1>1
      <4>5. CASE SendsFirst(r)
        BY <2>1, <4>2, <4>3, <4>4, <4>5 DEF SendPos, RecvPos, Progress, SendsFirst
      <4>6. CASE ~SendsFirst(r)
        BY <2>1, <4>2, <4>3, <4>4, <4>6 DEF SendPos, RecvPos, Progress, SendsFirst
      <4> QED BY <4>5, <4>6
    <3> QED BY <3>1, <3>2
  <2>3. RecvPos(r) # End /\ RecvPos(r)[1] = call[r]
    BY <1>0, <2>0 DEF End
  <2> QED BY <2>2, <2>3
<1>3. CASE pc[r] = "brecv"
  <2>0. RecvPos(r) = <<call[r], -1, 0>>
    BY <1>3 DEF RecvPos, Progress
  <2>1. /\ SendPos(r) = IF SendsFirst(r) THEN <<call[r], 0, 0>> ELSE <<call[r], -1, 0>>
    BY <1>3 DEF SendPos, Progress
  <2>2. RecvPos(r)' = Succ(RecvPos(r)) /\ SendPos(r)' = SendPos(r) /\ pc'[r] # "failed"
    <3>1. moved[r] = 0
      BY <1>3 DEF Standing
    <3>2. /\ moved' = [moved EXCEPT ![r] = 0]
          /\ pc' = [pc EXCEPT ![r] = IF SendsFirst(r) THEN "start" ELSE "bsend"]
      BY <1>1, <1>3, <3>1 DEF Advance, OpLength, Goto, AfterOp, At
    <3>3. pc'[r] = (IF SendsFirst(r) THEN "start" ELSE "bsend")
      BY <3>2 DEF ThreadType
    <3>4. Succ(RecvPos(r)) = <<call[r], 0, 0>>
      BY <2>0 DEF Succ
    <3>5. call'[r] = call[r]
      BY <1>1
    <3>6. CASE SendsFirst(r)
      BY <2>1, <3>3, <3>4, <3>5, <3>6 DEF SendPos, RecvPos, Progress, SendsFirst
    <3>7. CASE ~SendsFirst(r)
      BY <2>1, <3>3, <3>4, <3>5, <3>7 DEF SendPos, RecvPos, Progress, SendsFirst
    <3> QED BY <3>6, <3>7
  <2>3. RecvPos(r) # End /\ RecvPos(r)[1] = call[r]
    BY <1>0, <2>0 DEF End
  <2> QED BY <2>2, <2>3
<1> QED BY <1>1, <1>2, <1>3 DEF RecvPCs

-----------------------------------------------------------------------------
(* Facts shared by the steps.                                                 *)

(* The constants and a rank's counters are numbers.                           *)
LEMMA Numbers ==
  ASSUME ThreadType, NEW r \in Ranks
  PROVE  /\ call[r] \in Nat /\ call[r] <= Iters /\ Iters \in Nat /\ Iters >= 1
         /\ s[r] \in 0..(Steps - 1) /\ s[r] \in Nat /\ Steps \in Nat /\ Steps >= 2
         /\ moved[r] \in Nat /\ moved[r] < Pieces /\ Pieces \in Nat /\ Pieces >= 1
         /\ pc[r] \in PCs
  BY ItersAssumption, NAssumption, PiecesAssumption DEF ThreadType, Steps

(* A step of one rank that sends and receives nothing leaves every stream as  *)
(* it is between its two places.                                              *)
LEMMA ChannelsQuiet ==
  ASSUME ThreadType, ThreadType', StreamType, Channels, NEW r \in Ranks, pc[r] # "failed",
         \A q \in Ranks : q # r => pc'[q] = pc[q] /\ call'[q] = call[q] /\ s'[q] = s[q]
                                   /\ moved'[q] = moved[q],
         pc'[r] # "failed" => SendPos(r)' = SendPos(r) /\ RecvPos(r)' = RecvPos(r),
         call[r] <= call'[r], stream' = stream, open' = open,
         call'[r] = call[r] /\ pc[r] \notin Outside => pc'[r] \notin Outside
  PROVE  Channels'
<1> SUFFICES ASSUME NEW q \in Ranks, open[Right(q)], pc'[Right(q)] # "failed"
             PROVE  \E b \in Place :
                      /\ pc'[q] # "failed" => b = SendPos(q)'
                      /\ Linked(q, stream[q], RecvPos(Right(q))', b, call'[q], Within')
  BY DEF Channels, Channel
<1>1. Right(q) \in Ranks
  BY Ring
<1>2. \A x \in Ranks : pc'[x] # "failed" =>
        pc[x] # "failed" /\ SendPos(x)' = SendPos(x) /\ RecvPos(x)' = RecvPos(x)
  BY PosFrame
<1>3. PICK b \in Place : /\ pc[q] # "failed" => b = SendPos(q)
                         /\ Linked(q, stream[q], RecvPos(Right(q)), b, call[q], Within)
  BY <1>1, <1>2 DEF Channels, Channel
<1>4. call[q] \in Nat /\ call'[q] \in Nat /\ call[q] <= call'[q]
  <2>1. call[q] \in Nat
    BY Numbers
  <2>2. call'[q] \in Nat
    BY ItersAssumption DEF ThreadType
  <2> QED BY <2>1, <2>2
<1>5. stream[q] \in Seq(Frames \X Value)
  BY DEF StreamType
<1>w. Within \subseteq Within'
  BY WithinGrows
<1>6. Linked(q, stream[q], RecvPos(Right(q)), b, call'[q], Within')
  BY <1>3, <1>4, <1>5, <1>w, LinkMono
<1> QED BY <1>1, <1>2, <1>3, <1>6

(* A rank that is done stays fed.                                             *)
LEMMA FedQuiet ==
  ASSUME DoneIsFed, NEW r \in Ranks, pc[r] # "failed",
         \A q \in Ranks : q # r => pc'[q] = pc[q] /\ call'[q] = call[q] /\ s'[q] = s[q]
                                   /\ moved'[q] = moved[q],
         pc'[r] # "failed" /\ SendPos(r) = End => SendPos(r)' = End,
         pc'[r] = "done" => pc[Left(r)] = "failed" \/ SendPos(Left(r)) = End
  PROVE  DoneIsFed'
<1> SUFFICES ASSUME NEW q \in Ranks, pc'[q] = "done"
             PROVE  pc'[Left(q)] = "failed" \/ SendPos(Left(q))' = End
  BY DEF DoneIsFed
<1>1. Left(q) \in Ranks
  BY Ring
<1>2. pc[Left(q)] = "failed" \/ SendPos(Left(q)) = End
  BY DEF DoneIsFed
<1>3. CASE Left(q) = r
  BY <1>2, <1>3
<1>4. CASE Left(q) # r
  BY <1>1, <1>2, <1>4, PosFrame
<1> QED BY <1>3, <1>4

(* The left neighbour never goes back to an earlier call.                     *)
LEMMA ArrivedQuiet ==
  ASSUME ThreadType, ThreadType', LeftArrived, NEW r \in Ranks,
         \A q \in Ranks : q # r => pc'[q] = pc[q] /\ call'[q] = call[q],
         call[r] <= call'[r],
         HasByte(r)' => call'[r] = call[r] /\ (HasByte(r) \/ call[Left(r)] >= call[r])
  PROVE  LeftArrived'
<1> SUFFICES ASSUME NEW q \in Ranks, HasByte(q)'
             PROVE  call'[Left(q)] >= call'[q]
  BY DEF LeftArrived
<1>1. Left(q) \in Ranks
  BY Ring
<1>2. \A x \in Ranks : call[x] \in Nat /\ call'[x] \in Nat /\ call[x] <= call'[x]
  <2> SUFFICES ASSUME NEW x \in Ranks
               PROVE  call[x] \in Nat /\ call'[x] \in Nat /\ call[x] <= call'[x]
    OBVIOUS
  <2>1. call[x] \in Nat
    BY Numbers
  <2>2. call'[x] \in Nat
    BY ItersAssumption DEF ThreadType
  <2> QED BY <2>1, <2>2
<1>3. call[Left(q)] >= call[q] /\ call'[q] = call[q]
  <2>1. CASE q = r
    BY <2>1 DEF LeftArrived
  <2>2. CASE q # r
    <3>1. HasByte(q)
      BY <2>2 DEF HasByte, SendsFirst
    <3> QED BY <2>2, <3>1 DEF LeftArrived
  <2> QED BY <2>1, <2>2
<1> QED BY <1>1, <1>2, <1>3

(* A cause of failure stays one.                                              *)
LEMMA BlameStays ==
  ASSUME NEW r \in Ranks, pc[r] # "failed",
         \A q \in Ranks : q # r => pc'[q] = pc[q],
         FailureHasCause, \E q \in Ranks : pc[q] = "failed"
  PROVE  FailureHasCause'
<1>1. PICK q \in Faulty : pc[q] = "failed"
  BY DEF FailureHasCause, At
<1>2. pc'[q] = "failed"
  BY <1>1, FaultyAssumption
<1> QED BY <1>2 DEF FailureHasCause, At

(* A step that does not fail needs none.                                      *)
LEMMA NoBlame ==
  ASSUME NEW r \in Ranks, pc[r] # "failed", pc'[r] # "failed",
         \A q \in Ranks : q # r => pc'[q] = pc[q],
         FailureHasCause
  PROVE  FailureHasCause'
<1>1. CASE \E q \in Ranks : pc[q] = "failed"
  BY <1>1, BlameStays
<1>2. CASE ~\E q \in Ranks : pc[q] = "failed"
  <2>1. \A q \in Ranks : pc'[q] # "failed"
    BY <1>2
  <2> QED BY <2>1 DEF FailureHasCause, At
<1> QED BY <1>1, <1>2

-----------------------------------------------------------------------------
(* The initial state.                                                         *)

(* What a rank contributes, what memory holds at first and a sum of two       *)
(* values are values.                                                         *)
LEMMA ValueTypes ==
  /\ Garbage \in Value
  /\ \A r \in Ranks, k \in Nat : Own(r, k) \in Value
  /\ \A v, w \in Value : v \o w \in Value
<1>1. Garbage \in Value
  BY NAssumption DEF Garbage, Value, Contribution
<1>2. \A r \in Ranks, k \in Nat : Own(r, k) \in Value
  BY NAssumption DEF Own, Value, Contribution, Ranks
<1>3. \A v, w \in Value : v \o w \in Value
  BY DEF Value
<1> QED BY <1>1, <1>2, <1>3

(* Nothing has been sent.                                                     *)
LEMMA InitInv == Init => IInv
<1> SUFFICES ASSUME Init PROVE IInv
  OBVIOUS
<1>0. Iters \in Nat /\ Iters >= 1 /\ Steps \in Nat /\ Steps >= 2 /\ Pieces \in Nat /\ Pieces >= 1
  BY ItersAssumption, NAssumption, PiecesAssumption DEF Steps
<1>1. ThreadType
  BY <1>0 DEF Init, ThreadType, PCs, SendPCs, RecvPCs
<1>2. DataType
  BY <1>0, ValueTypes DEF Init, DataType
<1>3. StreamType
  <2>1. stream \in [Ranks -> Seq(Frames \X Value)]
    BY DEF Init
  <2>2. \A r \in Ranks : room[r] \in Nat /\ Len(stream[r]) = 0
    BY CapacityAssumption DEF Init
  <2>3. \A r \in Ranks : Len(stream[r]) <= room[r]
    BY <2>2
  <2> QED BY <2>1, <2>3 DEF StreamType
<1>4. Standing
  BY DEF Init, Standing, Ended
<1>5. Channels
  <2> SUFFICES ASSUME NEW r \in Ranks PROVE Channel(r)
    BY DEF Channels
  <2>1. Right(r) \in Ranks
    BY Ring
  <2>2. SendPos(r) = <<0, 0, 0>> /\ RecvPos(Right(r)) = <<0, 0, 0>>
    BY <2>1 DEF Init, SendPos, RecvPos, Progress
  <2>3. <<0, 0, 0>> \in Place
    BY DEF Place
  <2>4. Linked(r, << >>, <<0, 0, 0>>, <<0, 0, 0>>, call[r], Within)
    <3> DEFINE f == [i \in 0..0 |-> <<0, 0, 0>>]
    <3>1. f \in [0..Len(<< >>) -> Place] /\ f[0] = <<0, 0, 0>> /\ f[Len(<< >>)] = <<0, 0, 0>>
      BY <2>3
    <3>2. 1..Len(<< >>) = {}
      OBVIOUS
    <3> HIDE DEF f
    <3> QED BY <3>1, <3>2 DEF Linked
  <2>5. stream[r] = << >>
    BY DEF Init
  <2> QED BY <2>2, <2>3, <2>4, <2>5 DEF Channel
<1>6. DoneIsFed /\ LeftArrived /\ FailureHasCause
  BY DEF Init, DoneIsFed, LeftArrived, HasByte, FailureHasCause, At
<1> QED BY <1>1, <1>2, <1>3, <1>4, <1>5, <1>6 DEF IInv

-----------------------------------------------------------------------------
(* The steps.                                                                 *)

(* ring_blocking starts.                                                      *)
LEMMA StartKeeps ==
  ASSUME IInv, NEW r \in Ranks, Start(r)
  PROVE  IInv'
<1>0. /\ ThreadType /\ DataType /\ StreamType /\ Standing /\ Channels /\ DoneIsFed
      /\ LeftArrived /\ FailureHasCause
  BY DEF IInv
<1>1. /\ pc[r] = "start" /\ s' = [s EXCEPT ![r] = 0] /\ pc' = [pc EXCEPT ![r] = FirstOp(r)]
      /\ UNCHANGED <<call, moved, buf, stage, stream, open, room>>
  BY DEF Start, At, Goto
<1>2. /\ call[r] \in Nat /\ Steps \in Nat /\ Steps >= 2 /\ moved[r] = 0
  BY <1>0, <1>1, Numbers DEF Standing
<1>3. /\ pc'[r] = IF SendsFirst(r) THEN "send" ELSE "recv"
      /\ s'[r] = 0 /\ \A q \in Ranks : q # r => pc'[q] = pc[q] /\ s'[q] = s[q]
  BY <1>0, <1>1 DEF ThreadType, FirstOp
<1>4. ThreadType'
  BY <1>0, <1>1, <1>2 DEF ThreadType, PCs, SendPCs, RecvPCs, FirstOp
<1>5. DataType' /\ StreamType'
  BY <1>0, <1>1 DEF DataType, StreamType
<1>6. Standing'
  BY <1>0, <1>1, <1>3 DEF Standing, Ended
<1>7. SendPos(r)' = SendPos(r) /\ RecvPos(r)' = RecvPos(r)
  <2>1. SendPos(r) = <<call[r], 0, 0>> /\ RecvPos(r) = <<call[r], 0, 0>>
    BY <1>1 DEF SendPos, RecvPos, Progress
  <2>2. CASE SendsFirst(r)
    BY <1>1, <1>2, <1>3, <2>1, <2>2 DEF SendPos, RecvPos, Progress, SendsFirst
  <2>3. CASE ~SendsFirst(r)
    BY <1>1, <1>2, <1>3, <2>1, <2>3 DEF SendPos, RecvPos, Progress, SendsFirst
  <2> QED BY <2>2, <2>3
<1>8. Channels'
  BY <1>0, <1>1, <1>2, <1>3, <1>4, <1>7, ChannelsQuiet DEF Outside
<1>9. DoneIsFed'
  BY <1>0, <1>1, <1>3, <1>7, FedQuiet
<1>10. LeftArrived'
  <2>1. HasByte(r)' => HasByte(r)
    BY <1>1 DEF HasByte
  <2> QED BY <1>0, <1>1, <1>2, <1>3, <1>4, <2>1, ArrivedQuiet
<1>11. FailureHasCause'
  BY <1>0, <1>1, <1>3, NoBlame
<1> QED BY <1>4, <1>5, <1>6, <1>8, <1>9, <1>10, <1>11 DEF IInv

(* What a rank has in its buffer when it sends is the message of its step,    *)
(* and it knows of all who contributed to it.                                 *)
LEMMA SendCarries ==
  ASSUME SumInv, NEW r \in Ranks, pc[r] = "send"
  PROVE  /\ buf[r][send_chunk(r, s[r])][moved[r] + 1] = Msg(r, call[r], s[r])
         /\ <<r, call[r]>> \in Within /\ Informed(r, call[r], s[r], Within)
<1> DEFINE t == s[r]
           c == send_chunk(r, t)
           u == moved[r] + 1
<1>0. ThreadType /\ BufHolds(r) /\ Informed(r, call[r], Fully(r), Within)
  BY DEF SumInv, IInv, Data, Knowing
<1>1. t \in 0..(Steps - 1) /\ t \in Nat /\ c \in Chunks /\ u \in Piece /\ call[r] \in Nat
  BY <1>0, Numbers, Chunk DEF Piece
<1>2. Summed(r) = t /\ Has(r, u) \in {t, t + 1} /\ Fully(r) \in {t, t + 1}
  BY DEF Summed, Has, Fully, RingPCs
<1>3. buf[r][c][u] = Content(r, c, call[r], t, Has(r, u))
  BY <1>0, <1>1, <1>2 DEF BufHolds
<1>4. buf[r][c][u] = Msg(r, call[r], t)
  BY <1>1, <1>2, <1>3, SentContent
<1>5. <<r, call[r]>> \in Within
  BY <1>1 DEF Within, Outside
<1>6. Informed(r, call[r], t, Within)
  BY <1>0, <1>1, <1>2 DEF Informed
<1> QED BY <1>4, <1>5, <1>6

(* send() puts a piece into the stream.                                       *)
LEMMA SendPieceKeeps ==
  ASSUME SumInv, NEW r \in Ranks, SendPiece(r)
  PROVE  IInv'
<1>0. /\ ThreadType /\ DataType /\ StreamType /\ Standing /\ Channels /\ DoneIsFed
      /\ LeftArrived /\ FailureHasCause
  BY DEF SumInv, IInv
<1>1. /\ pc[r] \in SendPCs /\ Advance(r) /\ Len(stream[r]) < room[r]
      /\ UNCHANGED <<call, s, buf, stage, open, room>>
  BY DEF SendPiece
<1>2. /\ SendPos(r)' = Succ(SendPos(r)) /\ RecvPos(r)' = RecvPos(r)
      /\ SendPos(r) # End /\ SendPos(r)[1] = call[r] /\ pc'[r] # "failed"
  BY <1>0, SendMoves
<1>3. PICK item \in Frames \X Value :
        /\ item[1] = Frame(r, SendPos(r))
        /\ SendPos(r)[2] # -1 => /\ pc[r] = "send" /\ SendPos(r)[2] = s[r]
                                 /\ item[2] = buf[r][send_chunk(r, s[r])][moved[r] + 1]
        /\ stream' = [stream EXCEPT ![r] = Append(stream[r], item)]
  BY <1>0, SendMoves
<1>4. /\ call[r] \in Nat /\ moved[r] \in Nat /\ Pieces \in Nat /\ Pieces >= 1 /\ pc[r] # "failed"
  BY <1>0, <1>1, Numbers DEF SendPCs
<1>5. \/ /\ moved[r] + 1 < OpLength(r) /\ pc' = pc /\ moved' = [moved EXCEPT ![r] = moved[r] + 1]
      \/ /\ moved' = [moved EXCEPT ![r] = 0] /\ pc' = [pc EXCEPT ![r] = AfterOp(r)]
  BY <1>1 DEF Advance, Goto
<1>6. AfterOp(r) \in (IF pc[r] = "send" THEN {"recv", "sum"} ELSE {"brecv", "start"})
      /\ (pc[r] = "bsend" /\ AfterOp(r) = "start" => ~SendsFirst(r))
  BY <1>1 DEF AfterOp, At, SendPCs
<1>7. \A q \in Ranks : q # r => pc'[q] = pc[q] /\ moved'[q] = moved[q]
  BY <1>0, <1>5 DEF ThreadType
<1>8. \/ pc'[r] = pc[r] /\ pc[r] = "send" /\ moved'[r] \in 0..(Pieces - 1)
      \/ pc'[r] = AfterOp(r) /\ moved'[r] = 0
  <2>1. CASE moved[r] + 1 < OpLength(r) /\ pc' = pc /\ moved' = [moved EXCEPT ![r] = moved[r] + 1]
    <3>1. pc[r] = "send" /\ moved[r] + 1 < Pieces
      BY <1>1, <1>4, <2>1 DEF OpLength, SendPCs
    <3>2. moved'[r] = moved[r] + 1
      BY <1>0, <2>1 DEF ThreadType
    <3>3. moved[r] + 1 \in 0..(Pieces - 1)
      BY <1>4, <3>1
    <3>4. pc'[r] = pc[r]
      BY <2>1
    <3> QED BY <3>1, <3>2, <3>3, <3>4
  <2>2. CASE moved' = [moved EXCEPT ![r] = 0] /\ pc' = [pc EXCEPT ![r] = AfterOp(r)]
    BY <1>0, <2>2 DEF ThreadType
  <2> QED BY <1>5, <2>1, <2>2
<1>9. ThreadType'
  <2>1. pc'[r] \in PCs /\ moved'[r] \in 0..(Pieces - 1)
    BY <1>4, <1>6, <1>8 DEF PCs, SendPCs, RecvPCs
  <2>2. pc' \in [Ranks -> PCs]
    BY <1>0, <1>5, <2>1 DEF ThreadType
  <2>3. moved' \in [Ranks -> 0..(Pieces - 1)]
    BY <1>0, <1>5, <2>1 DEF ThreadType
  <2> QED BY <1>0, <1>1, <2>2, <2>3 DEF ThreadType
<1>10. DataType'
  BY <1>0, <1>1 DEF DataType
<1>11. /\ stream[r] \in Seq(Frames \X Value) /\ stream'[r] = Append(stream[r], item)
       /\ \A q \in Ranks : q # r => stream'[q] = stream[q]
  BY <1>0, <1>3 DEF StreamType
<1>12. StreamType'
  <2>1. Append(stream[r], item) \in Seq(Frames \X Value)
    BY <1>11
  <2>2. stream' \in [Ranks -> Seq(Frames \X Value)]
    BY <1>0, <1>3, <2>1 DEF StreamType
  <2>3. Len(stream'[r]) = Len(stream[r]) + 1 /\ Len(stream[r]) \in Nat
    BY <1>11
  <2>4. room[r] \in Nat
    BY <1>0, CapacityAssumption DEF ThreadType
  <2>5. Len(stream'[r]) <= room[r]
    BY <1>1, <2>3, <2>4
  <2>6. \A q \in Ranks : Len(stream'[q]) <= room[q]
    BY <1>0, <1>11, <2>5 DEF StreamType
  <2> QED BY <1>1, <2>2, <2>6 DEF StreamType
<1>13. Standing'
  <2>1. pc'[r] \in {"send", "recv"} \/ (pc'[r] \in {"sum", "brecv", "start"} /\ moved'[r] = 0)
    BY <1>6, <1>8
  <2>2. open[r]
    BY <1>0, <1>1 DEF Standing, Ended, SendPCs
  <2> QED BY <1>0, <1>1, <1>7, <2>1, <2>2 DEF Standing, Ended
<1>c. Carries(r, SendPos(r), item, Within)
  BY <1>2, <1>3, SendCarries DEF Carries
<1>w. Within \subseteq Within'
  <2>1. pc'[r] \in Outside => pc[r] \in Outside
    BY <1>1, <1>6, <1>8 DEF Outside, SendPCs
  <2> QED BY <1>0, <1>1, <1>4, <1>7, <1>9, <2>1, WithinGrows
<1>14. Channels'
  <2> SUFFICES ASSUME NEW q \in Ranks, open[Right(q)], pc'[Right(q)] # "failed"
               PROVE  \E b \in Place :
                        /\ pc'[q] # "failed" => b = SendPos(q)'
                        /\ Linked(q, stream'[q], RecvPos(Right(q))', b, call[q], Within')
    BY <1>1 DEF Channels, Channel
  <2>0. call[q] \in Nat /\ stream[q] \in Seq(Frames \X Value)
    BY <1>0, Numbers DEF StreamType
  <2>1. Right(q) \in Ranks
    BY Ring
  <2>2. RecvPos(Right(q))' = RecvPos(Right(q)) /\ pc[Right(q)] # "failed"
    BY <1>1, <1>2, <1>4, <1>7, <2>1, PosFrame
  <2>3. PICK b \in Place : /\ pc[q] # "failed" => b = SendPos(q)
                           /\ Linked(q, stream[q], RecvPos(Right(q)), b, call[q], Within)
    BY <1>0, <2>1, <2>2 DEF Channels, Channel
  <2>4. CASE q = r
    <3>1. b = SendPos(r) /\ b # End /\ b[1] <= call[r]
      BY <1>2, <1>4, <2>3, <2>4
    <3>2. Linked(r, Append(stream[r], item), RecvPos(Right(r)), Succ(b), call[r], Within)
      BY <1>4, <1>11, <1>c, <2>3, <2>4, <3>1, LinkSend
    <3>3. Succ(b) \in Place
      BY SuccPlace
    <3>4. Append(stream[r], item) \in Seq(Frames \X Value)
      BY <1>11
    <3>5. Linked(r, Append(stream[r], item), RecvPos(Right(r)), Succ(b), call[r], Within')
      <4>1. call[r] <= call[r]
        BY <1>4
      <4> QED BY <1>4, <1>w, <3>2, <3>4, <4>1, LinkMono
    <3> QED BY <1>2, <1>11, <2>2, <2>4, <3>1, <3>3, <3>5
  <2>5. CASE q # r
    <3>1. SendPos(q)' = SendPos(q) /\ pc'[q] = pc[q]
      BY <1>1, <1>7, <2>5, PosFrame
    <3>2. Linked(q, stream[q], RecvPos(Right(q)), b, call[q], Within')
      BY <1>w, <2>0, <2>3, LinkMono
    <3> QED BY <1>11, <2>2, <2>3, <2>5, <3>1, <3>2
  <2> QED BY <2>4, <2>5
<1>15. DoneIsFed'
  <2>1. pc'[r] # "done"
    BY <1>6, <1>8
  <2> QED BY <1>0, <1>1, <1>2, <1>4, <1>7, <2>1, FedQuiet
<1>16. LeftArrived'
  <2>1. HasByte(r)' => HasByte(r)
    <3>1. SendsFirst(r)' <=> SendsFirst(r)
      BY DEF SendsFirst
    <3>2. CASE pc[r] = "send"
      BY <1>1, <3>2 DEF HasByte
    <3>3. CASE pc[r] = "bsend"
      <4>1. pc'[r] = AfterOp(r)
        BY <1>8, <3>3
      <4>2. HasByte(r)' => pc'[r] = "start" /\ call[r] > 0
        BY <1>1, <1>6, <3>3, <4>1 DEF HasByte
      <4> QED BY <1>6, <3>3, <4>1, <4>2 DEF HasByte
    <3> QED BY <1>1, <3>2, <3>3 DEF SendPCs
  <2> QED BY <1>0, <1>1, <1>4, <1>7, <1>9, <2>1, ArrivedQuiet
<1>17. FailureHasCause'
  BY <1>0, <1>1, <1>2, <1>4, <1>7, NoBlame
<1> QED BY <1>9, <1>10, <1>12, <1>13, <1>14, <1>15, <1>16, <1>17 DEF IInv

(* recv() takes a piece out of it.                                            *)
LEMMA RecvPieceKeeps ==
  ASSUME IInv, NEW r \in Ranks, RecvPiece(r)
  PROVE  IInv'
<1> DEFINE l == Left(r)
<1>0. /\ ThreadType /\ DataType /\ StreamType /\ Standing /\ Channels /\ DoneIsFed
      /\ LeftArrived /\ FailureHasCause
  BY DEF IInv
<1>1. /\ pc[r] \in RecvPCs /\ Advance(r) /\ stream[l] # << >>
      /\ stream' = [stream EXCEPT ![l] = Tail(stream[l])]
      /\ UNCHANGED <<call, s, open, room>>
  BY DEF RecvPiece
<1>2. /\ RecvPos(r)' = Succ(RecvPos(r)) /\ SendPos(r)' = SendPos(r)
      /\ RecvPos(r) # End /\ RecvPos(r)[1] = call[r] /\ pc'[r] # "failed"
  BY <1>0, RecvMoves
<1>3. l \in Ranks /\ Right(l) = r /\ l # r
  BY Ring
<1>4. /\ call[r] \in Nat /\ moved[r] \in Nat /\ Pieces \in Nat /\ Pieces >= 1 /\ pc[r] # "failed"
      /\ moved[r] < Pieces /\ s[r] \in 0..(Steps - 1) /\ open[r]
  BY <1>0, <1>1, Numbers DEF RecvPCs, Standing, Ended
<1>5. \/ /\ moved[r] + 1 < OpLength(r) /\ pc' = pc /\ moved' = [moved EXCEPT ![r] = moved[r] + 1]
      \/ /\ moved' = [moved EXCEPT ![r] = 0] /\ pc' = [pc EXCEPT ![r] = AfterOp(r)]
  BY <1>1 DEF Advance, Goto
<1>6. AfterOp(r) \in (IF pc[r] = "recv" THEN {"send", "sum"} ELSE {"bsend", "start"})
  BY <1>1 DEF AfterOp, At, RecvPCs
<1>7. \A q \in Ranks : q # r => pc'[q] = pc[q] /\ moved'[q] = moved[q]
  BY <1>0, <1>5 DEF ThreadType
<1>8. \/ pc'[r] = pc[r] /\ pc[r] = "recv" /\ moved'[r] \in 0..(Pieces - 1)
      \/ pc'[r] = AfterOp(r) /\ moved'[r] = 0
  <2>1. CASE moved[r] + 1 < OpLength(r) /\ pc' = pc /\ moved' = [moved EXCEPT ![r] = moved[r] + 1]
    <3>1. pc[r] = "recv" /\ moved[r] + 1 < Pieces
      BY <1>1, <1>4, <2>1 DEF OpLength, RecvPCs
    <3>2. moved'[r] = moved[r] + 1
      BY <1>0, <2>1 DEF ThreadType
    <3>3. moved[r] + 1 \in 0..(Pieces - 1)
      BY <1>4, <3>1
    <3>4. pc'[r] = pc[r]
      BY <2>1
    <3> QED BY <3>1, <3>2, <3>3, <3>4
  <2>2. CASE moved' = [moved EXCEPT ![r] = 0] /\ pc' = [pc EXCEPT ![r] = AfterOp(r)]
    BY <1>0, <2>2 DEF ThreadType
  <2> QED BY <1>5, <2>1, <2>2
<1>9. ThreadType'
  <2>1. pc'[r] \in PCs /\ moved'[r] \in 0..(Pieces - 1)
    BY <1>4, <1>6, <1>8 DEF PCs, SendPCs, RecvPCs
  <2>2. pc' \in [Ranks -> PCs]
    BY <1>0, <1>5, <2>1 DEF ThreadType
  <2>3. moved' \in [Ranks -> 0..(Pieces - 1)]
    BY <1>0, <1>5, <2>1 DEF ThreadType
  <2> QED BY <1>0, <1>1, <2>2, <2>3 DEF ThreadType
<1>10. stream[l] \in Seq(Frames \X Value) /\ Head(stream[l]) \in Frames \X Value
  BY <1>0, <1>1, <1>3 DEF StreamType
<1>11. DataType' /\ \A q \in Ranks : q # r => buf'[q] = buf[q]
  <2> DEFINE c == recv_chunk(r, s[r])
             u == moved[r] + 1
             v == Head(stream[l])[2]
  <2>1. v \in Value /\ u \in Piece /\ c \in Chunks
    BY <1>4, <1>10, Chunk DEF Piece
  <2>2. stage' = stage \/ stage' = [stage EXCEPT ![r][u] = v]
    BY DEF RecvPiece
  <2>3. buf' = buf \/ buf' = [buf EXCEPT ![r][c][u] = v]
    BY DEF RecvPiece
  <2>4. stage' \in [Ranks -> [Piece -> Value]]
    <3>1. stage \in [Ranks -> [Piece -> Value]]
      BY <1>0 DEF DataType
    <3>2. [stage[r] EXCEPT ![u] = v] \in [Piece -> Value]
      BY <2>1, <3>1
    <3> QED BY <2>2, <3>1, <3>2
  <2>5. /\ buf' \in [Ranks -> [Chunks -> [Piece -> Value]]]
        /\ \A q \in Ranks : q # r => buf'[q] = buf[q]
    <3>1. buf \in [Ranks -> [Chunks -> [Piece -> Value]]]
      BY <1>0 DEF DataType
    <3>2. [buf[r][c] EXCEPT ![u] = v] \in [Piece -> Value]
      BY <2>1, <3>1
    <3>3. [buf[r] EXCEPT ![c] = [buf[r][c] EXCEPT ![u] = v]] \in [Chunks -> [Piece -> Value]]
      BY <2>1, <3>1, <3>2
    <3>4. \/ buf' = buf
          \/ buf' = [buf EXCEPT ![r] = [buf[r] EXCEPT ![c] = [buf[r][c] EXCEPT ![u] = v]]]
      BY <2>3
    <3> QED BY <3>1, <3>3, <3>4
  <2> QED BY <2>4, <2>5 DEF DataType
<1>12. stream'[l] = Tail(stream[l]) /\ \A q \in Ranks : q # l => stream'[q] = stream[q]
  BY <1>0, <1>1, <1>3 DEF StreamType
<1>13. StreamType'
  <2>1. Tail(stream[l]) \in Seq(Frames \X Value)
    BY <1>1, <1>10
  <2>2. stream' \in [Ranks -> Seq(Frames \X Value)]
    BY <1>0, <1>1, <2>1 DEF StreamType
  <2>3. Len(stream'[l]) = Len(stream[l]) - 1 /\ Len(stream[l]) \in Nat
    <3>1. \A x \in Seq(Frames \X Value) :
            x # << >> => Len(Tail(x)) = Len(x) - 1 /\ Len(x) \in Nat
      OBVIOUS
    <3> QED BY <1>1, <1>10, <1>12, <3>1
  <2>4. room[l] \in Nat
    BY <1>0, <1>3, CapacityAssumption DEF ThreadType
  <2>5. Len(stream[l]) <= room[l]
    BY <1>0, <1>3 DEF StreamType
  <2>6. Len(stream'[l]) <= room[l]
    BY <2>3, <2>4, <2>5
  <2>7. \A q \in Ranks : Len(stream'[q]) <= room[q]
    BY <1>0, <1>12, <2>6 DEF StreamType
  <2> QED BY <1>1, <2>2, <2>7 DEF StreamType
<1>14. Standing'
  <2>1. pc'[r] \in {"send", "recv"} \/ (pc'[r] \in {"sum", "bsend", "start"} /\ moved'[r] = 0)
    BY <1>6, <1>8
  <2> QED BY <1>0, <1>1, <1>4, <1>7, <2>1 DEF Standing, Ended
<1>15. PICK a \in Place : /\ pc[l] # "failed" => a = SendPos(l)
                          /\ Linked(l, stream[l], RecvPos(r), a, call[l], Within)
  BY <1>0, <1>3, <1>4 DEF Channels, Channel
<1>w. Within \subseteq Within'
  <2>1. pc'[r] \in Outside => pc[r] \in Outside
    BY <1>1, <1>6, <1>8 DEF Outside, RecvPCs
  <2> QED BY <1>0, <1>1, <1>4, <1>7, <1>9, <2>1, WithinGrows
<1>16. /\ Linked(l, Tail(stream[l]), Succ(RecvPos(r)), a, call[l], Within)
       /\ RecvPos(r)[1] <= call[l] /\ call[l] \in Nat
  <2>1. call[l] \in Nat
    BY <1>0, <1>3, Numbers
  <2> QED BY <1>1, <1>10, <1>15, <2>1, LinkRecv
<1>17. Channels'
  <2> SUFFICES ASSUME NEW q \in Ranks, open[Right(q)], pc'[Right(q)] # "failed"
               PROVE  \E b \in Place :
                        /\ pc'[q] # "failed" => b = SendPos(q)'
                        /\ Linked(q, stream'[q], RecvPos(Right(q))', b, call[q], Within')
    BY <1>1 DEF Channels, Channel
  <2>0. call[q] \in Nat /\ stream[q] \in Seq(Frames \X Value)
    BY <1>0, Numbers DEF StreamType
  <2>1. Right(q) \in Ranks /\ Left(Right(q)) = q
    BY Ring
  <2>2. \A x \in Ranks : pc'[x] # "failed" => pc[x] # "failed" /\ SendPos(x)' = SendPos(x)
    BY <1>1, <1>2, <1>4, <1>7, PosFrame
  <2>3. CASE q = l
    <3>1. Tail(stream[l]) \in Seq(Frames \X Value)
      BY <1>1, <1>10
    <3>2. Linked(l, Tail(stream[l]), Succ(RecvPos(r)), a, call[l], Within')
      <4>1. call[l] <= call[l]
        BY <1>16
      <4> QED BY <1>16, <1>w, <3>1, <4>1, LinkMono
    <3> QED BY <1>2, <1>3, <1>12, <1>15, <2>2, <2>3, <3>2
  <2>4. CASE q # l
    <3>1. Right(q) # r
      BY <2>1, <2>4
    <3>2. RecvPos(Right(q))' = RecvPos(Right(q)) /\ pc[Right(q)] # "failed"
      BY <1>1, <1>7, <2>1, <3>1, PosFrame
    <3>3. PICK b \in Place : /\ pc[q] # "failed" => b = SendPos(q)
                             /\ Linked(q, stream[q], RecvPos(Right(q)), b, call[q], Within)
      BY <1>0, <2>1, <3>2 DEF Channels, Channel
    <3>4. Linked(q, stream[q], RecvPos(Right(q)), b, call[q], Within')
      BY <1>w, <2>0, <3>3, LinkMono
    <3> QED BY <1>12, <2>2, <2>4, <3>2, <3>3, <3>4
  <2> QED BY <2>3, <2>4
<1>18. DoneIsFed'
  <2>1. pc'[r] # "done"
    BY <1>6, <1>8
  <2> QED BY <1>0, <1>1, <1>2, <1>4, <1>7, <2>1, FedQuiet
<1>19. LeftArrived'
  <2>1. call[l] >= call[r]
    BY <1>2, <1>4, <1>16
  <2> QED BY <1>0, <1>1, <1>4, <1>7, <1>9, <2>1, ArrivedQuiet
<1>20. FailureHasCause'
  BY <1>0, <1>1, <1>2, <1>4, <1>7, <1>11, NoBlame
<1> QED BY <1>9, <1>11, <1>13, <1>14, <1>17, <1>18, <1>19, <1>20 DEF IInv

(* dst += stage, and on to the next step or out of the ring.                  *)
LEMMA SumKeeps ==
  ASSUME IInv, NEW r \in Ranks, Sum(r)
  PROVE  IInv'
<1>0. /\ ThreadType /\ DataType /\ StreamType /\ Standing /\ Channels /\ DoneIsFed
      /\ LeftArrived /\ FailureHasCause
  BY DEF IInv
<1>1. pc[r] = "sum" /\ UNCHANGED <<call, moved, stage, stream, open, room>>
  BY DEF Sum, At
<1>2. /\ call[r] \in Nat /\ call[r] <= Iters /\ Iters \in Nat /\ Steps \in Nat /\ s[r] \in Nat
      /\ s[r] \in 0..(Steps - 1) /\ moved[r] = 0 /\ open[r]
  BY <1>0, <1>1, Numbers DEF Standing, Ended
<1>3. \/ /\ s[r] + 1 < Steps /\ s' = [s EXCEPT ![r] = s[r] + 1]
         /\ pc' = [pc EXCEPT ![r] = FirstOp(r)]
      \/ ~(s[r] + 1 < Steps) /\ s' = s /\ pc' = [pc EXCEPT ![r] = AfterRing(call[r])]
  BY DEF Sum, Goto
<1>4. \A q \in Ranks : q # r => pc'[q] = pc[q] /\ s'[q] = s[q]
  BY <1>0, <1>3 DEF ThreadType
<1>5. \/ s[r] + 1 < Steps /\ s'[r] = s[r] + 1 /\ pc'[r] = FirstOp(r)
      \/ ~(s[r] + 1 < Steps) /\ s'[r] = s[r] /\ pc'[r] = AfterRing(call[r])
  BY <1>0, <1>3 DEF ThreadType
<1>6. /\ pc'[r] \in {"send", "recv", "check", "reset"}
      /\ pc'[r] = "check" => call[r] \in {0, Iters}
      /\ pc'[r] = "reset" => call[r] < Iters
  <2>1. AfterRing(call[r]) = "reset" => call[r] < Iters
    BY <1>2 DEF AfterRing
  <2>2. AfterRing(call[r]) = "check" => call[r] \in {0, Iters}
    BY DEF AfterRing
  <2>3. FirstOp(r) \in {"send", "recv"} /\ AfterRing(call[r]) \in {"check", "reset"}
    BY DEF AfterRing, FirstOp
  <2> QED BY <1>5, <2>1, <2>2, <2>3
<1>7. ThreadType'
  <2>1. pc'[r] \in PCs
    BY <1>6 DEF PCs, SendPCs, RecvPCs
  <2>2. s'[r] \in 0..(Steps - 1)
    BY <1>2, <1>5
  <2>3. pc' \in [Ranks -> PCs]
    BY <1>0, <1>3, <2>1 DEF ThreadType
  <2>4. s' \in [Ranks -> 0..(Steps - 1)]
    BY <1>0, <1>3, <2>2 DEF ThreadType
  <2> QED BY <1>0, <1>1, <2>3, <2>4 DEF ThreadType
<1>8. DataType' /\ \A q \in Ranks : q # r => buf'[q] = buf[q]
  <2> DEFINE c == recv_chunk(r, s[r])
             w == [u \in Piece |-> buf[r][c][u] \o stage[r][u]]
  <2>1. c \in Chunks
    BY <1>2, Chunk
  <2>2. buf \in [Ranks -> [Chunks -> [Piece -> Value]]] /\ stage \in [Ranks -> [Piece -> Value]]
    BY <1>0 DEF DataType
  <2>3. w \in [Piece -> Value]
    <3>1. \A u \in Piece : buf[r][c][u] \in Value /\ stage[r][u] \in Value
      BY <2>1, <2>2
    <3>2. \A u \in Piece : buf[r][c][u] \o stage[r][u] \in Value
      BY <3>1, ValueTypes
    <3> QED BY <3>2
  <2>4. buf' = buf \/ buf' = [buf EXCEPT ![r][c] = w]
    BY DEF Sum
  <2> HIDE DEF w, c
  <2>5. [buf[r] EXCEPT ![c] = w] \in [Chunks -> [Piece -> Value]]
    BY <2>1, <2>2, <2>3
  <2>6. buf' = buf \/ buf' = [buf EXCEPT ![r] = [buf[r] EXCEPT ![c] = w]]
    BY <2>4
  <2> QED BY <1>1, <2>2, <2>5, <2>6 DEF DataType
<1>9. StreamType'
  BY <1>0, <1>1 DEF StreamType
<1>10. Standing'
  BY <1>0, <1>1, <1>2, <1>4, <1>6 DEF Standing, Ended
<1>11. SendPos(r)' = SendPos(r) /\ RecvPos(r)' = RecvPos(r)
  <2>1. SendPos(r) = After(call[r], s[r]) /\ RecvPos(r) = After(call[r], s[r])
    BY <1>1 DEF SendPos, RecvPos, Progress
  <2>2. CASE s[r] + 1 < Steps
    <3>1. s'[r] = s[r] + 1 /\ pc'[r] = FirstOp(r) /\ After(call[r], s[r]) = <<call[r], s[r] + 1, 0>>
      BY <1>5, <2>2 DEF After
    <3>2. CASE SendsFirst(r)
      BY <1>1, <1>2, <2>1, <3>1, <3>2 DEF SendPos, RecvPos, Progress, SendsFirst, FirstOp
    <3>3. CASE ~SendsFirst(r)
      BY <1>1, <1>2, <2>1, <3>1, <3>3 DEF SendPos, RecvPos, Progress, SendsFirst, FirstOp
    <3> QED BY <3>2, <3>3
  <2>3. CASE ~(s[r] + 1 < Steps)
    <3>1. pc'[r] \in {"check", "reset"} /\ After(call[r], s[r]) = <<call[r] + 1, -1, 0>>
      BY <1>5, <2>3 DEF After, AfterRing
    <3> QED BY <1>1, <2>1, <3>1 DEF SendPos, RecvPos, Progress
  <2> QED BY <2>2, <2>3
<1>12. Channels'
  BY <1>0, <1>1, <1>2, <1>4, <1>6, <1>7, <1>11, ChannelsQuiet DEF Outside
<1>13. DoneIsFed'
  BY <1>0, <1>1, <1>4, <1>6, <1>11, FedQuiet
<1>14. LeftArrived'
  <2>1. HasByte(r)' => HasByte(r)
    BY <1>1 DEF HasByte
  <2> QED BY <1>0, <1>1, <1>2, <1>4, <1>7, <2>1, ArrivedQuiet
<1>15. FailureHasCause'
  BY <1>0, <1>1, <1>4, <1>6, <1>8, NoBlame
<1> QED BY <1>7, <1>8, <1>9, <1>10, <1>12, <1>13, <1>14, <1>15 DEF IInv

(* A rank that fails sends and receives no more and loses nothing it sent:    *)
(* what remains to show is the cause.                                         *)
LEMMA FailingKeeps ==
  ASSUME IInv, NEW r \in Ranks, pc[r] # "failed", pc' = [pc EXCEPT ![r] = "failed"],
         UNCHANGED <<call, s, moved, buf, stage, stream, open, room>>,
         FailureHasCause'
  PROVE  IInv'
<1>0. /\ ThreadType /\ DataType /\ StreamType /\ Standing /\ Channels /\ DoneIsFed
      /\ LeftArrived
  BY DEF IInv
<1>1. pc'[r] = "failed" /\ \A q \in Ranks : q # r => pc'[q] = pc[q]
  BY <1>0 DEF ThreadType
<1>2. ThreadType'
  BY <1>0 DEF ThreadType, PCs
<1>3. DataType' /\ StreamType'
  BY <1>0 DEF DataType, StreamType
<1>4. Standing'
  BY <1>0, <1>1 DEF Standing, Ended
<1>5. call[r] \in Nat
  BY <1>0, Numbers
<1>6. Channels'
  BY <1>0, <1>1, <1>2, <1>5, ChannelsQuiet DEF Outside
<1>7. DoneIsFed'
  BY <1>0, <1>1, FedQuiet
<1>8. LeftArrived'
  <2>1. ~HasByte(r)'
    BY <1>1 DEF HasByte
  <2> QED BY <1>0, <1>1, <1>2, <1>5, <2>1, ArrivedQuiet
<1> QED BY <1>2, <1>3, <1>4, <1>6, <1>7, <1>8 DEF IInv

(* A rank that is through holds the full sums, whose pieces are all of the    *)
(* same call.                                                                 *)
LEMMA OverHolds ==
  ASSUME Data, NEW r \in Ranks, pc[r] \in Over
  PROVE  \A c \in Chunks, u \in Piece : buf[r][c][u] = Full(c, call[r])
<1>1. BufHolds(r)
  BY DEF Data, Over
<1>2. Summed(r) = Steps /\ \A u \in Piece : Has(r, u) = Steps
  BY DEF Summed, Has, Fully, RingPCs, Over
<1> QED BY <1>1, <1>2, EndContent DEF BufHolds

(* The check of the sums passes.                                              *)
LEMMA CheckAlwaysPasses ==
  ASSUME SumInv, NEW r \in Ranks, pc[r] = "check"
  PROVE  CheckPasses(r)
<1>1. \A c \in Chunks, u \in Piece : buf[r][c][u] = Full(c, call[r])
  BY OverHolds DEF SumInv, Over
<1> QED BY <1>1, FullAsExpected DEF CheckPasses

(* The sums are checked after the first call and the last; a rank that is     *)
(* then done has read everything.                                             *)
LEMMA CheckKeeps ==
  ASSUME SumInv, NEW r \in Ranks, Check(r)
  PROVE  IInv'
<1> DEFINE l == Left(r)
<1>0. /\ ThreadType /\ DataType /\ StreamType /\ Standing /\ Channels /\ DoneIsFed
      /\ LeftArrived /\ FailureHasCause
  BY DEF SumInv, IInv
<1>1. pc[r] = "check" /\ UNCHANGED <<call, s, moved, buf, stage, stream, open, room>>
  BY DEF Check, At
<1>2. /\ call[r] \in Nat /\ Iters \in Nat /\ Iters >= 1 /\ call[r] \in {0, Iters}
      /\ moved[r] = 0 /\ open[r]
  BY <1>0, <1>1, Numbers DEF Standing, Ended
<1>3. CheckPasses(r)
  BY <1>1, CheckAlwaysPasses
<1> DEFINE next == IF call[r] = 0 THEN "reset" ELSE "done"
<1>4. pc' = [pc EXCEPT ![r] = next]
  BY <1>3 DEF Check, Goto
<1>5. pc'[r] = next /\ \A q \in Ranks : q # r => pc'[q] = pc[q]
  BY <1>0, <1>4 DEF ThreadType
<1>6. /\ pc'[r] \in {"reset", "done"}
      /\ pc'[r] = "reset" => call[r] < Iters
      /\ pc'[r] = "done" => call[r] = Iters
  BY <1>2, <1>5
<1> HIDE DEF next
<1>7. ThreadType'
  <2>1. next \in PCs
    BY <1>5, <1>6 DEF PCs
  <2> QED BY <1>0, <1>1, <1>4, <2>1 DEF ThreadType
<1>8. DataType' /\ StreamType'
  BY <1>0, <1>1 DEF DataType, StreamType
<1>9. Standing'
  BY <1>0, <1>1, <1>2, <1>5, <1>6 DEF Standing, Ended
<1>10. SendPos(r)' = SendPos(r) /\ RecvPos(r)' = RecvPos(r) /\ RecvPos(r) = <<call[r] + 1, -1, 0>>
  BY <1>1, <1>6 DEF SendPos, RecvPos, Progress
<1>11. Channels'
  BY <1>0, <1>1, <1>2, <1>5, <1>6, <1>7, <1>10, ChannelsQuiet DEF Outside
<1>12. pc'[r] = "done" => pc[l] = "failed" \/ SendPos(l) = End
  <2> SUFFICES ASSUME pc'[r] = "done", pc[l] # "failed" PROVE SendPos(l) = End
    OBVIOUS
  <2>1. RecvPos(r) = End
    BY <1>6, <1>10 DEF End
  <2>2. l \in Ranks /\ Right(l) = r
    BY Ring
  <2>3. Linked(l, stream[l], End, SendPos(l), call[l], Within)
    BY <1>0, <1>1, <1>2, <2>1, <2>2 DEF Channels, Channel
  <2>4. stream[l] \in Seq(Frames \X Value) /\ call[l] \in Nat
    BY <1>0, <2>2, Numbers DEF StreamType
  <2>5. stream[l] = << >>
    BY <2>3, <2>4, LinkRecv
  <2> QED BY <2>3, <2>5, LinkNil
<1>13. DoneIsFed'
  BY <1>0, <1>1, <1>5, <1>10, <1>12, FedQuiet
<1>14. LeftArrived'
  <2>1. HasByte(r)' => HasByte(r)
    BY <1>1 DEF HasByte
  <2> QED BY <1>0, <1>1, <1>2, <1>5, <1>7, <2>1, ArrivedQuiet
<1>15. FailureHasCause'
  BY <1>0, <1>1, <1>5, <1>6, NoBlame
<1> QED BY <1>7, <1>8, <1>9, <1>11, <1>13, <1>14, <1>15 DEF IInv

(* The buffers are filled anew and the rank enters the barrier.               *)
LEMMA ResetKeeps ==
  ASSUME IInv, NEW r \in Ranks, Reset(r)
  PROVE  IInv'
<1>0. /\ ThreadType /\ DataType /\ StreamType /\ Standing /\ Channels /\ DoneIsFed
      /\ LeftArrived /\ FailureHasCause
  BY DEF IInv
<1> DEFINE fresh == [c \in Chunks |-> [u \in Piece |-> Own(r, call[r] + 1)]]
           next  == IF SendsFirst(r) THEN "bsend" ELSE "brecv"
<1>1. /\ pc[r] = "reset" /\ call' = [call EXCEPT ![r] = call[r] + 1]
      /\ buf' = [buf EXCEPT ![r] = fresh] /\ pc' = [pc EXCEPT ![r] = next]
      /\ UNCHANGED <<s, moved, stage, stream, open, room>>
  BY DEF Reset, At, Goto
<1>2. /\ call[r] \in Nat /\ call[r] < Iters /\ Iters \in Nat /\ moved[r] = 0 /\ open[r]
  BY <1>0, <1>1, Numbers DEF Standing, Ended
<1>3. /\ pc'[r] = next /\ call'[r] = call[r] + 1
      /\ \A q \in Ranks : q # r => pc'[q] = pc[q] /\ call'[q] = call[q] /\ buf'[q] = buf[q]
  BY <1>0, <1>1 DEF ThreadType, DataType
<1>4. ThreadType'
  <2>1. call[r] + 1 \in 0..Iters
    BY <1>2
  <2>2. call' \in [Ranks -> 0..Iters]
    BY <1>0, <1>1, <2>1 DEF ThreadType
  <2>3. pc' \in [Ranks -> PCs]
    BY <1>0, <1>1 DEF ThreadType, PCs, SendPCs, RecvPCs
  <2> QED BY <1>0, <1>1, <2>2, <2>3 DEF ThreadType
<1>5. DataType'
  <2>1. Own(r, call[r] + 1) \in Value
    BY <1>2, ValueTypes
  <2>2. fresh \in [Chunks -> [Piece -> Value]]
    BY <2>1
  <2> QED BY <1>0, <1>1, <2>2 DEF DataType
<1>6. StreamType'
  BY <1>0, <1>1 DEF StreamType
<1>7. Standing'
  BY <1>0, <1>1, <1>2, <1>3 DEF Standing, Ended
<1>8. SendPos(r)' = SendPos(r) /\ RecvPos(r)' = RecvPos(r) /\ SendPos(r) # End
  <2>1. SendPos(r) = <<call[r] + 1, -1, 0>> /\ RecvPos(r) = <<call[r] + 1, -1, 0>>
    BY <1>1 DEF SendPos, RecvPos, Progress
  <2>2. SendPos(r) # End
    BY <1>2, <2>1 DEF End
  <2>3. CASE SendsFirst(r)
    BY <1>3, <2>1, <2>2, <2>3 DEF SendPos, RecvPos, Progress, SendsFirst
  <2>4. CASE ~SendsFirst(r)
    BY <1>3, <2>1, <2>2, <2>4 DEF SendPos, RecvPos, Progress, SendsFirst
  <2> QED BY <2>3, <2>4
<1>9. Channels'
  <2>1. call[r] <= call'[r] /\ call'[r] # call[r]
    BY <1>2, <1>3
  <2> QED BY <1>0, <1>1, <1>3, <1>4, <1>8, <2>1, ChannelsQuiet
<1>10. DoneIsFed'
  BY <1>0, <1>1, <1>3, <1>8, FedQuiet
<1>11. LeftArrived'
  <2>1. ~HasByte(r)'
    BY <1>3 DEF HasByte, SendsFirst
  <2>2. call[r] <= call'[r]
    BY <1>2, <1>3
  <2> QED BY <1>0, <1>1, <1>3, <1>4, <2>1, <2>2, ArrivedQuiet
<1>12. FailureHasCause'
  BY <1>0, <1>1, <1>3, NoBlame
<1> QED BY <1>4, <1>5, <1>6, <1>7, <1>9, <1>10, <1>11, <1>12 DEF IInv

(* send() fails only when the right neighbour has failed: one that is done    *)
(* has read all there was to send.                                            *)
LEMMA SendFailsKeeps ==
  ASSUME IInv, NEW r \in Ranks, SendFails(r)
  PROVE  IInv'
<1>0. ThreadType /\ Standing /\ DoneIsFed /\ FailureHasCause
  BY DEF IInv
<1>1. /\ pc[r] \in SendPCs /\ ~open[Right(r)] /\ pc' = [pc EXCEPT ![r] = "failed"]
      /\ UNCHANGED <<call, s, moved, buf, stage, stream, open, room>>
  BY DEF SendFails, Goto
<1>2. Right(r) \in Ranks /\ Left(Right(r)) = r
  BY Ring
<1>3. call[r] \in Nat /\ call[r] <= Iters /\ Iters \in Nat /\ pc[r] # "failed"
  BY <1>0, <1>1, Numbers DEF SendPCs
<1>4. SendPos(r)[1] = call[r]
  BY <1>1 DEF SendPos, Progress, SendPCs
<1>5. SendPos(r) # End
  BY <1>3, <1>4 DEF End
<1>6. pc[Right(r)] = "failed"
  BY <1>0, <1>1, <1>2, <1>3, <1>5 DEF Standing, Ended, DoneIsFed
<1>7. FailureHasCause'
  <2>1. \A q \in Ranks : q # r => pc'[q] = pc[q]
    BY <1>0, <1>1 DEF ThreadType
  <2> QED BY <1>0, <1>2, <1>3, <1>6, <2>1, BlameStays
<1> QED BY <1>1, <1>3, <1>7, FailingKeeps

(* recv() returns 0 only when the left neighbour has failed: one that is done *)
(* has left everything there was to read in the stream.                       *)
LEMMA RecvFailsKeeps ==
  ASSUME IInv, NEW r \in Ranks, RecvFails(r)
  PROVE  IInv'
<1> DEFINE l == Left(r)
<1>0. ThreadType /\ Standing /\ Channels /\ FailureHasCause
  BY DEF IInv
<1>1. /\ pc[r] \in RecvPCs /\ ~open[l] /\ stream[l] = << >> /\ pc' = [pc EXCEPT ![r] = "failed"]
      /\ UNCHANGED <<call, s, moved, buf, stage, stream, open, room>>
  BY DEF RecvFails, Goto
<1>2. l \in Ranks /\ Right(l) = r
  BY Ring
<1>3. call[r] \in Nat /\ call[r] <= Iters /\ Iters \in Nat /\ pc[r] # "failed" /\ open[r]
  BY <1>0, <1>1, Numbers DEF RecvPCs, Standing, Ended
<1>4. RecvPos(r)[1] = call[r]
  BY <1>1 DEF RecvPos, Progress, RecvPCs
<1>5. RecvPos(r) # End
  BY <1>3, <1>4 DEF End
<1>6. pc[l] = "failed"
  <2> SUFFICES ASSUME pc[l] = "done" PROVE FALSE
    BY <1>0, <1>1, <1>2 DEF Standing, Ended
  <2>1. SendPos(l) = End
    BY <1>0, <1>2 DEF Standing, SendPos, Progress, End
  <2>2. Linked(l, stream[l], RecvPos(r), SendPos(l), call[l], Within)
    BY <1>0, <1>2, <1>3 DEF Channels, Channel
  <2>3. RecvPos(r) = SendPos(l)
    BY <1>1, <2>2, LinkNil
  <2> QED BY <1>5, <2>1, <2>3
<1>7. FailureHasCause'
  <2>1. \A q \in Ranks : q # r => pc'[q] = pc[q]
    BY <1>0, <1>1 DEF ThreadType
  <2> QED BY <1>0, <1>2, <1>3, <1>6, <2>1, BlameStays
<1> QED BY <1>1, <1>3, <1>7, FailingKeeps

(* A faulty rank stops.                                                       *)
LEMMA FailKeeps ==
  ASSUME IInv, NEW r \in Ranks, Fail(r)
  PROVE  IInv'
<1>1. /\ r \in Faulty /\ pc[r] # "failed" /\ pc' = [pc EXCEPT ![r] = "failed"]
      /\ UNCHANGED <<call, s, moved, buf, stage, stream, open, room>>
  BY DEF Fail, Goto, Ended
<1>2. pc'[r] = "failed"
  BY <1>1 DEF IInv, ThreadType
<1>3. FailureHasCause'
  BY <1>1, <1>2 DEF FailureHasCause, At
<1> QED BY <1>1, <1>3, FailingKeeps

(* ~TcpTransport: what the rank had not read is lost, what it sent is not.    *)
LEMMA CloseKeeps ==
  ASSUME IInv, NEW r \in Ranks, Close(r)
  PROVE  IInv'
<1> DEFINE l == Left(r)
<1>0. /\ ThreadType /\ DataType /\ StreamType /\ Standing /\ Channels /\ DoneIsFed
      /\ LeftArrived /\ FailureHasCause
  BY DEF IInv
<1>1. /\ Ended(r) /\ open' = [open EXCEPT ![r] = FALSE]
      /\ stream' = [stream EXCEPT ![l] = << >>]
      /\ UNCHANGED <<pc, call, s, moved, buf, stage, room>>
  BY DEF Close
<1>2. l \in Ranks /\ \A q \in Ranks : Right(q) \in Ranks /\ (Right(q) = r => q = l)
  BY Ring
<1>3. /\ ~open'[r] /\ \A q \in Ranks : q # r => open'[q] = open[q]
      /\ stream'[l] = << >> /\ \A q \in Ranks : q # l => stream'[q] = stream[q]
  BY <1>0, <1>1, <1>2 DEF ThreadType, StreamType
<1>4. ThreadType'
  BY <1>0, <1>1 DEF ThreadType
<1>5. DataType' /\ DoneIsFed' /\ LeftArrived' /\ FailureHasCause'
  <2>1. DataType'
    BY <1>0, <1>1 DEF DataType
  <2>2. DoneIsFed'
    <3>1. \A q \in Ranks : SendPos(q)' = SendPos(q)
      BY <1>1, PosFrame
    <3> QED BY <1>0, <1>1, <3>1, Ring DEF DoneIsFed
  <2>3. LeftArrived'
    BY <1>0, <1>1 DEF LeftArrived, HasByte, SendsFirst
  <2>4. FailureHasCause'
    BY <1>0, <1>1 DEF FailureHasCause, At
  <2> QED BY <2>1, <2>2, <2>3, <2>4
<1>6. StreamType'
  <2>1. << >> \in Seq(Frames \X Value) /\ Len(<< >>) = 0
    OBVIOUS
  <2>2. stream' \in [Ranks -> Seq(Frames \X Value)]
    BY <1>0, <1>1, <2>1 DEF StreamType
  <2>3. room[l] \in Nat
    BY <1>0, <1>2, CapacityAssumption DEF ThreadType
  <2>4. Len(stream'[l]) <= room[l]
    BY <1>3, <2>1, <2>3
  <2>5. \A q \in Ranks : Len(stream'[q]) <= room[q]
    BY <1>0, <1>3, <2>4 DEF StreamType
  <2> QED BY <1>1, <2>2, <2>5 DEF StreamType
<1>7. Standing'
  BY <1>0, <1>1, <1>3 DEF Standing, Ended
<1>8. Channels'
  <2> SUFFICES ASSUME NEW q \in Ranks, open'[Right(q)], pc[Right(q)] # "failed"
               PROVE  \E b \in Place :
                        /\ pc[q] # "failed" => b = SendPos(q)'
                        /\ Linked(q, stream'[q], RecvPos(Right(q))', b, call[q], Within')
    BY <1>1 DEF Channels, Channel
  <2>w. Within' = Within
    BY <1>1 DEF Within
  <2>1. q # l /\ open[Right(q)] /\ Right(q) \in Ranks
    <3>1. Right(l) = r
      BY Ring
    <3> QED BY <1>2, <1>3, <3>1
  <2>2. SendPos(q)' = SendPos(q) /\ RecvPos(Right(q))' = RecvPos(Right(q))
    BY <1>1, <2>1, PosFrame
  <2>3. stream'[q] = stream[q]
    BY <1>3, <2>1
  <2> QED BY <1>0, <2>1, <2>2, <2>3, <2>w DEF Channels, Channel
<1> QED BY <1>4, <1>5, <1>6, <1>7, <1>8 DEF IInv

(* Nothing happens.                                                           *)
LEMMA StutterKeeps ==
  ASSUME IInv, UNCHANGED vars
  PROVE  IInv'
<1>1. UNCHANGED <<pc, call, s, moved, buf, stage, stream, open, room>>
  BY DEF vars
<1>2. \A q \in Ranks : /\ SendPos(q)' = SendPos(q) /\ RecvPos(q)' = RecvPos(q)
                       /\ Right(q) \in Ranks /\ Left(q) \in Ranks
  BY <1>1, PosFrame, Ring
<1>3. (ThreadType /\ DataType /\ StreamType /\ Standing)'
  BY <1>1 DEF IInv, ThreadType, DataType, StreamType, Standing, Ended
<1>4. Channels' /\ DoneIsFed' /\ LeftArrived'
  <2>1. Within' = Within
    BY <1>1 DEF Within
  <2>2. Channels'
    BY <1>1, <1>2, <2>1 DEF IInv, Channels, Channel
  <2> QED BY <1>1, <1>2, <2>2 DEF IInv, DoneIsFed, LeftArrived, HasByte, SendsFirst
<1>5. FailureHasCause'
  BY <1>1 DEF IInv, FailureHasCause, At
<1> QED BY <1>3, <1>4, <1>5 DEF IInv

-----------------------------------------------------------------------------
(* The sums.                                                                  *)

(* A step of a rank changes nothing of another.                               *)
LEMMA OthersStay ==
  ASSUME IInv, NEW r \in Ranks, Thread(r) \/ Fail(r)
  PROVE  \A q \in Ranks : q # r => /\ pc'[q] = pc[q] /\ call'[q] = call[q] /\ s'[q] = s[q]
                                   /\ moved'[q] = moved[q] /\ buf'[q] = buf[q]
                                   /\ stage'[q] = stage[q]
<1>0. ThreadType /\ DataType
  BY DEF IInv
<1> SUFFICES ASSUME NEW q \in Ranks, q # r
             PROVE  /\ pc'[q] = pc[q] /\ call'[q] = call[q] /\ s'[q] = s[q]
                    /\ moved'[q] = moved[q] /\ buf'[q] = buf[q] /\ stage'[q] = stage[q]
  OBVIOUS
<1>1. CASE Start(r)
  BY <1>0, <1>1 DEF ThreadType, Start, Goto
<1>a. ASSUME Advance(r) PROVE pc'[q] = pc[q] /\ moved'[q] = moved[q]
  BY <1>0, <1>a DEF ThreadType, Advance, Goto
<1>2. CASE SendPiece(r)
  BY <1>2, <1>a DEF SendPiece
<1>3. CASE RecvPiece(r)
  <2> DEFINE c == recv_chunk(r, s[r])
             u == moved[r] + 1
             v == Head(stream[Left(r)])[2]
  <2>1. UNCHANGED <<call, s>> /\ Advance(r)
    BY <1>3 DEF RecvPiece
  <2>2. stage' = stage \/ stage' = [stage EXCEPT ![r][u] = v]
    BY <1>3 DEF RecvPiece
  <2>3. buf' = buf \/ buf' = [buf EXCEPT ![r][c][u] = v]
    BY <1>3 DEF RecvPiece
  <2> HIDE DEF c, u, v
  <2>4. stage'[q] = stage[q] /\ buf'[q] = buf[q]
    BY <1>0, <2>2, <2>3 DEF DataType
  <2> QED BY <1>a, <2>1, <2>4
<1>4. CASE SendFails(r) \/ RecvFails(r) \/ Check(r) \/ Fail(r)
  BY <1>0, <1>4 DEF ThreadType, SendFails, RecvFails, Check, Fail, Goto
<1>5. CASE Sum(r)
  <2> DEFINE c == recv_chunk(r, s[r])
             w == [u \in Piece |-> buf[r][c][u] \o stage[r][u]]
  <2>1. UNCHANGED <<call, moved, stage>>
    BY <1>5 DEF Sum
  <2>2. buf' = buf \/ buf' = [buf EXCEPT ![r][c] = w]
    BY <1>5 DEF Sum
  <2> HIDE DEF c, w
  <2>3. buf'[q] = buf[q]
    BY <1>0, <2>2 DEF DataType
  <2>4. pc'[q] = pc[q] /\ s'[q] = s[q]
    BY <1>0, <1>5 DEF ThreadType, Sum, Goto
  <2> QED BY <2>1, <2>3, <2>4
<1>6. CASE Reset(r)
  BY <1>0, <1>6 DEF ThreadType, DataType, Reset, Goto
<1>7. CASE Close(r)
  BY <1>7 DEF Close
<1> QED BY <1>1, <1>2, <1>3, <1>4, <1>5, <1>6, <1>7 DEF Thread

(* The counts depend on the rank's own thread.                                *)
LEMMA CountsFrame ==
  ASSUME NEW q \in Ranks, pc'[q] = pc[q], s'[q] = s[q], moved'[q] = moved[q]
  PROVE  /\ Summed(q)' = Summed(q) /\ Fully(q)' = Fully(q)
         /\ \A u \in Piece : Has(q, u)' = Has(q, u)
<1>1. Summed(q)' = Summed(q) /\ Fully(q)' = Fully(q)
  BY DEF Summed, Fully, SendsFirst
<1>2. \A u \in Piece : Has(q, u)' = Has(q, u)
  BY <1>1 DEF Has
<1> QED BY <1>1, <1>2

(* A step that leaves the counts and the memory of a rank alone.              *)
LEMMA HoldsSame ==
  ASSUME NEW q \in Ranks, BufHolds(q), StageHolds(q), call'[q] = call[q],
         buf'[q] = buf[q], stage'[q] = stage[q], Summed(q)' = Summed(q),
         \A u \in Piece : Has(q, u)' = Has(q, u)
  PROVE  BufHolds(q)' /\ StageHolds(q)'
<1>1. BufHolds(q)'
  BY DEF BufHolds
<1>2. StageHolds(q)'
  BY DEF StageHolds
<1> QED BY <1>1, <1>2

(* What a step of r has to show of r's memory.                                *)
LEMMA DataStep ==
  ASSUME SumInv, NEW r \in Ranks, Thread(r) \/ Fail(r),
         pc'[r] # "failed" => BufHolds(r)' /\ StageHolds(r)'
  PROVE  Data'
<1> SUFFICES ASSUME NEW q \in Ranks, pc'[q] # "failed"
             PROVE  BufHolds(q)' /\ StageHolds(q)'
  BY DEF Data
<1>1. CASE q = r
  BY <1>1
<1>2. CASE q # r
  <2>1. /\ pc'[q] = pc[q] /\ call'[q] = call[q] /\ s'[q] = s[q]
        /\ moved'[q] = moved[q] /\ buf'[q] = buf[q] /\ stage'[q] = stage[q]
    BY <1>2, OthersStay DEF SumInv
  <2>2. BufHolds(q) /\ StageHolds(q)
    BY <2>1 DEF SumInv, Data
  <2> QED BY <2>1, <2>2, CountsFrame, HoldsSame
<1> QED BY <1>1, <1>2

(* Nobody goes back behind what it entered.                                   *)
LEMMA WithinStep ==
  ASSUME IInv, IInv', NEW r \in Ranks, Thread(r) \/ Fail(r)
  PROVE  Within \subseteq Within'
<1>0. ThreadType /\ ThreadType' /\ DataType
  BY DEF IInv
<1>1. \A q \in Ranks : q # r => pc'[q] = pc[q] /\ call'[q] = call[q]
  BY OthersStay
<1>2. call[r] \in Nat /\ pc[r] \in PCs
  BY <1>0, Numbers
<1>3. \/ call'[r] = call[r] + 1
      \/ call'[r] = call[r] /\ (pc[r] \notin Outside => pc'[r] \notin Outside)
  <2>a. ASSUME Advance(r), pc[r] \in SendPCs \cup RecvPCs, pc[r] \notin Outside
        PROVE  pc'[r] \notin Outside
    <3>1. pc[r] \in {"send", "recv"}
      BY <2>a DEF Outside, SendPCs, RecvPCs
    <3>2. AfterOp(r) \in {"send", "recv", "sum"}
      BY <3>1 DEF AfterOp, At
    <3>3. pc'[r] = pc[r] \/ pc'[r] = AfterOp(r)
      BY <1>0, <2>a DEF Advance, Goto, ThreadType
    <3> QED BY <3>1, <3>2, <3>3 DEF Outside
  <2>1. CASE Start(r)
    BY <2>1 DEF Start, At, Outside
  <2>2. CASE SendPiece(r)
    BY <2>2, <2>a DEF SendPiece
  <2>3. CASE RecvPiece(r)
    BY <2>3, <2>a DEF RecvPiece
  <2>4. CASE SendFails(r) \/ RecvFails(r) \/ Fail(r)
    BY <1>0, <2>4 DEF ThreadType, SendFails, RecvFails, Fail, Goto, Outside
  <2>5. CASE Check(r)
    BY <1>0, <2>5 DEF ThreadType, Check, Goto, Outside
  <2>6. CASE Sum(r)
    <3>1. FirstOp(r) \notin Outside /\ AfterRing(call[r]) \notin Outside
      BY DEF FirstOp, AfterRing, Outside
    <3>2. call' = call /\ (pc'[r] = FirstOp(r) \/ pc'[r] = AfterRing(call[r]))
      BY <1>0, <2>6 DEF ThreadType, Sum, Goto
    <3> QED BY <3>1, <3>2
  <2>7. CASE Reset(r)
    BY <1>0, <2>7 DEF ThreadType, Reset
  <2>8. CASE Close(r)
    BY <2>8 DEF Close
  <2> QED BY <2>1, <2>2, <2>3, <2>4, <2>5, <2>6, <2>7, <2>8 DEF Thread
<1> QED BY <1>0, <1>1, <1>2, <1>3, WithinGrows

(* What a step of r has to show of r's knowledge.                             *)
LEMMA KnowingStep ==
  ASSUME SumInv, IInv', NEW r \in Ranks, Thread(r) \/ Fail(r),
         pc'[r] # "failed" => \/ Fully(r)' = 0
                              \/ pc[r] # "failed" /\ call'[r] = call[r] /\ Fully(r)' = Fully(r)
                              \/ Informed(r, call'[r], Fully(r)', Within)
  PROVE  Knowing'
<1>1. Within \subseteq Within'
  BY WithinStep DEF SumInv
<1> SUFFICES ASSUME NEW q \in Ranks, pc'[q] # "failed"
             PROVE  Informed(q, call'[q], Fully(q)', Within')
  BY DEF Knowing
<1>2. CASE Informed(q, call'[q], Fully(q)', Within)
  BY <1>1, <1>2 DEF Informed
<1>3. CASE Fully(q)' = 0
  <2>1. \A i \in 1..(N - 1) : ~(i <= 0)
    BY NAssumption
  <2> QED BY <1>3, <2>1 DEF Informed
<1>4. CASE pc[q] # "failed" /\ call'[q] = call[q] /\ Fully(q)' = Fully(q)
  BY <1>1, <1>4 DEF Informed, SumInv, Knowing
<1>5. CASE q # r
  <2>1. pc'[q] = pc[q] /\ call'[q] = call[q] /\ s'[q] = s[q] /\ moved'[q] = moved[q]
    BY <1>5, OthersStay DEF SumInv
  <2> QED BY <1>4, <2>1, CountsFrame
<1> QED BY <1>2, <1>3, <1>4, <1>5

(* ring_blocking starts with nothing received.                                *)
LEMMA StartData ==
  ASSUME SumInv, IInv', NEW r \in Ranks, Start(r)
  PROVE  Data' /\ Knowing'
<1>0. ThreadType /\ Standing /\ Thread(r)
  BY DEF SumInv, IInv, Thread
<1>1. /\ pc[r] = "start" /\ s' = [s EXCEPT ![r] = 0] /\ pc' = [pc EXCEPT ![r] = FirstOp(r)]
      /\ UNCHANGED <<call, moved, buf, stage>>
  BY DEF Start, At, Goto
<1>2. /\ moved'[r] = 0 /\ s'[r] = 0 /\ pc'[r] = IF SendsFirst(r) THEN "send" ELSE "recv"
  BY <1>0, <1>1 DEF Standing, ThreadType, FirstOp
<1>3. Summed(r) = 0 /\ Fully(r) = 0 /\ \A u \in Piece : Has(r, u) = 0
  BY <1>1 DEF Summed, Fully, Has, RingPCs, Over
<1>4. Summed(r)' = 0 /\ Fully(r)' = 0
  BY <1>2 DEF Summed, Fully, RingPCs, SendsFirst
<1>5. \A u \in Piece : Has(r, u)' = 0
  <2>1. \A u \in Piece : ~(u <= 0)
    BY PiecesAssumption DEF Piece
  <2> QED BY <1>2, <1>4, <2>1 DEF Has
<1>6. BufHolds(r) /\ StageHolds(r)
  BY <1>1 DEF SumInv, Data
<1>7. BufHolds(r)' /\ StageHolds(r)'
  BY <1>1, <1>3, <1>4, <1>5, <1>6, HoldsSame
<1> QED BY <1>0, <1>4, <1>7, DataStep, KnowingStep

(* Sending moves nothing in the sender.                                       *)
LEMMA SendData ==
  ASSUME SumInv, IInv', NEW r \in Ranks, SendPiece(r)
  PROVE  Data' /\ Knowing'
<1>0. ThreadType /\ Standing /\ Thread(r)
  BY DEF SumInv, IInv, Thread
<1>1. pc[r] \in SendPCs /\ Advance(r) /\ UNCHANGED <<call, s, buf, stage>>
  BY DEF SendPiece
<1>2. \/ pc'[r] = pc[r]
      \/ pc'[r] = AfterOp(r) /\ moved'[r] = 0
  BY <1>0, <1>1 DEF Advance, Goto, ThreadType
<1>3. /\ pc[r] = "send" /\ SendsFirst(r) => AfterOp(r) = "recv"
      /\ pc[r] = "send" /\ ~SendsFirst(r) => AfterOp(r) = "sum"
      /\ pc[r] = "bsend" => AfterOp(r) \in {"start", "brecv"}
  BY DEF AfterOp, At
<1>4. pc[r] # "failed" /\ s'[r] = s[r] /\ (SendsFirst(r)' <=> SendsFirst(r)) /\ pc[r] # "recv"
  BY <1>1 DEF SendPCs, SendsFirst
<1>5. Summed(r)' = Summed(r) /\ Fully(r)' = Fully(r)
  <2>1. CASE pc'[r] = pc[r]
    BY <1>4, <2>1 DEF Summed, Fully
  <2>2. CASE pc'[r] = AfterOp(r) /\ pc[r] = "send"
    BY <1>3, <1>4, <2>2 DEF Summed, Fully, RingPCs
  <2>3. CASE pc'[r] = AfterOp(r) /\ pc[r] = "bsend"
    BY <1>3, <2>3 DEF Summed, Fully, RingPCs, Over
  <2> QED BY <1>1, <1>2, <2>1, <2>2, <2>3 DEF SendPCs
<1>6. \A u \in Piece : Has(r, u)' = Has(r, u)
  <2>1. \A u \in Piece : Has(r, u) = Fully(r)
    BY <1>4 DEF Has
  <2>2. \A u \in Piece : ~(u <= 0)
    BY PiecesAssumption DEF Piece
  <2>3. \A u \in Piece : Has(r, u)' = Fully(r)'
    BY <1>2, <1>4, <2>2 DEF Has
  <2> QED BY <1>5, <2>1, <2>3
<1>7. BufHolds(r) /\ StageHolds(r)
  BY <1>4 DEF SumInv, Data
<1>8. BufHolds(r)' /\ StageHolds(r)'
  BY <1>1, <1>5, <1>6, <1>7, HoldsSame
<1> QED BY <1>0, <1>1, <1>4, <1>5, <1>8, DataStep, KnowingStep

(* What recv() takes is the message of the step, of which the rank then       *)
(* knows as much as its left neighbour, and that it has entered.              *)
LEMMA RecvCarried ==
  ASSUME SumInv, NEW r \in Ranks, pc[r] = "recv", stream[Left(r)] # << >>
  PROVE  /\ Head(stream[Left(r)])[2] = Msg(Left(r), call[r], s[r])
         /\ Informed(r, call[r], s[r] + 1, Within)
<1> DEFINE l == Left(r)
           k == call[r]
           t == s[r]
<1>0. ThreadType /\ StreamType /\ Standing /\ Channels
  BY DEF SumInv, IInv
<1>1. l \in Ranks /\ Right(l) = r
  BY Ring
<1>2. open[r]
  BY <1>0 DEF Standing, Ended
<1>3. PICK b \in Place : Linked(l, stream[l], RecvPos(r), b, call[l], Within)
  BY <1>0, <1>1, <1>2 DEF Channels, Channel
<1>4. stream[l] \in Seq(Frames \X Value) /\ call[l] \in Nat
  BY <1>0, <1>1, Numbers DEF StreamType
<1>5. Carries(l, RecvPos(r), Head(stream[l]), Within)
  BY <1>3, <1>4, LinkRecv
<1>6. RecvPos(r) = <<k, t, moved[r]>> /\ t \in Nat /\ t # -1
  BY <1>0, Numbers DEF RecvPos, Progress
<1>7. Head(stream[l])[2] = Msg(l, k, t) /\ <<l, k>> \in Within /\ Informed(l, k, t, Within)
  BY <1>5, <1>6 DEF Carries
<1>8. Informed(r, k, t + 1, Within)
  <2> SUFFICES ASSUME NEW i \in 1..(N - 1), i <= t + 1 PROVE <<Back(r, i), k>> \in Within
    BY DEF Informed
  <2>0. N \in Nat /\ N >= 2
    BY NAssumption
  <2>1. CASE i = 1
    BY <1>7, <2>0, <2>1, BackType
  <2>2. CASE i # 1
    <3>1. i - 1 \in 1..(N - 1) /\ i - 1 <= t /\ i - 1 \in 0..N /\ i - 1 < N /\ (i - 1) + 1 = i
      BY <1>6, <2>0, <2>2
    <3>2. <<Back(l, i - 1), k>> \in Within
      BY <1>7, <3>1 DEF Informed
    <3>3. Back(l, i - 1) = Back(r, i)
      BY <3>1, BackType
    <3> QED BY <3>2, <3>3
  <2> QED BY <2>1, <2>2
<1> QED BY <1>7, <1>8

(* A piece of the message arrives: in stage, or in its chunk.                 *)
LEMMA RecvData ==
  ASSUME SumInv, IInv', NEW r \in Ranks, RecvPiece(r)
  PROVE  Data' /\ Knowing'
<1> DEFINE l == Left(r)
           t == s[r]
           k == call[r]
           d == recv_chunk(r, t)
           w == moved[r] + 1
           v == Head(stream[l])[2]
<1>0. ThreadType /\ Standing /\ Thread(r) /\ DataType
  BY DEF SumInv, IInv, Thread
<1>1. /\ pc[r] \in RecvPCs /\ Advance(r) /\ UNCHANGED <<call, s>> /\ stream[l] # << >>
      /\ stage' = IF pc[r] = "recv" /\ Scatter(t) THEN [stage EXCEPT ![r][w] = v] ELSE stage
      /\ buf' = IF pc[r] = "recv" /\ ~Scatter(t) THEN [buf EXCEPT ![r][d][w] = v] ELSE buf
  BY DEF RecvPiece, At
<1>2. /\ t \in 0..(Steps - 1) /\ t \in Nat /\ moved[r] \in Nat /\ Pieces \in Nat
      /\ moved[r] < Pieces /\ Pieces >= 1 /\ pc[r] # "failed"
  BY <1>0, <1>1, Numbers DEF RecvPCs
<1>3. BufHolds(r) /\ StageHolds(r)
  BY <1>2 DEF SumInv, Data
<1>s. SendsFirst(r)' <=> SendsFirst(r)
  BY DEF SendsFirst
<1>4. CASE pc[r] = "brecv"
  <2>1. pc'[r] \in {"brecv", "start", "bsend"}
    BY <1>0, <1>1, <1>4 DEF Advance, Goto, ThreadType, AfterOp, At
  <2>2. /\ Summed(r) = 0 /\ Fully(r) = 0 /\ \A u \in Piece : Has(r, u) = 0
        /\ Summed(r)' = 0 /\ Fully(r)' = 0 /\ \A u \in Piece : Has(r, u)' = 0
    BY <1>4, <2>1 DEF Summed, Fully, Has, RingPCs, Over
  <2>3. BufHolds(r)' /\ StageHolds(r)'
    BY <1>1, <1>3, <1>4, <2>2, HoldsSame
  <2> QED BY <1>0, <2>2, <2>3, DataStep, KnowingStep
<1>5. CASE pc[r] = "recv"
  <2>1. v = Msg(l, k, t) /\ Informed(r, k, t + 1, Within)
    BY <1>1, <1>5, RecvCarried
  <2>2. d \in Chunks /\ w \in Piece
    BY <1>2, Chunk DEF Piece
  <2>3. Summed(r) = t /\ \A u \in Piece : Has(r, u) = IF u <= moved[r] THEN t + 1 ELSE t
    BY <1>5 DEF Summed, Has, Fully, RingPCs
  <2>4. /\ Summed(r)' = t /\ Fully(r)' \in {t, t + 1}
        /\ \A u \in Piece : Has(r, u)' = IF u <= w THEN t + 1 ELSE t
    <3>1. CASE w < Pieces
      <4>1. pc' = pc /\ moved' = [moved EXCEPT ![r] = w]
        BY <1>1, <1>5, <3>1 DEF Advance, OpLength
      <4>2. pc'[r] = "recv" /\ moved'[r] = w /\ s'[r] = t
        BY <1>0, <1>1, <1>5, <4>1 DEF ThreadType
      <4> QED BY <4>2 DEF Summed, Has, Fully, RingPCs
    <3>2. CASE ~(w < Pieces)
      <4>1. pc' = [pc EXCEPT ![r] = IF SendsFirst(r) THEN "sum" ELSE "send"]
        BY <1>1, <1>5, <3>2 DEF Advance, OpLength, Goto, AfterOp, At
      <4>2. pc'[r] = (IF SendsFirst(r) THEN "sum" ELSE "send") /\ s'[r] = t
        BY <1>0, <1>1, <4>1 DEF ThreadType
      <4>3. Summed(r)' = t /\ Fully(r)' = t + 1 /\ \A u \in Piece : Has(r, u)' = t + 1
        BY <1>s, <4>2 DEF Summed, Has, Fully, RingPCs
      <4>4. \A u \in Piece : u <= w
        BY <1>2, <3>2 DEF Piece
      <4> QED BY <4>3, <4>4
    <3> QED BY <3>1, <3>2
  <2>u. \A u \in Piece : u # w => (u <= w <=> u <= moved[r])
    BY <1>2 DEF Piece
  <2>5. BufHolds(r)'
    <3> SUFFICES ASSUME NEW c \in Chunks, NEW u \in Piece
                 PROVE  buf'[r][c][u] = Content(r, c, k, t, Has(r, u)')
      BY <1>1, <2>4 DEF BufHolds
    <3>1. buf[r][c][u] = Content(r, c, k, t, Has(r, u))
      BY <1>3, <2>3 DEF BufHolds
    <3>2. CASE u # w
      <4>1. buf'[r][c][u] = buf[r][c][u]
        <5>1. buf' = buf \/ buf' = [buf EXCEPT ![r][d][w] = v]
          BY <1>1
        <5> HIDE DEF d, w, v
        <5>2. CASE buf' = [buf EXCEPT ![r][d][w] = v]
          <6>1. /\ buf'[r][d] = [buf[r][d] EXCEPT ![w] = v]
                /\ c # d => buf'[r][c] = buf[r][c]
            BY <1>0, <2>2, <5>2 DEF DataType
          <6>2. buf[r][d] \in [Piece -> Value]
            BY <1>0, <2>2 DEF DataType
          <6> QED BY <3>2, <6>1, <6>2
        <5> QED BY <5>1, <5>2
      <4>2. Has(r, u)' = Has(r, u)
        BY <2>3, <2>4, <2>u, <3>2
      <4> QED BY <3>1, <4>1, <4>2
    <3>3. CASE u = w
      <4>1. Has(r, u) = t /\ Has(r, u)' = t + 1
        <5>1. ~(w <= moved[r]) /\ w <= w
          BY <1>2
        <5> QED BY <2>3, <2>4, <3>3, <5>1
      <4>2. CASE ~Scatter(t) /\ c = d
        <5>1. buf'[r][c][u] = v
          <6>1. buf' = [buf EXCEPT ![r][d][w] = v]
            BY <1>1, <1>5, <4>2
          <6> HIDE DEF d, w, v
          <6> QED BY <1>0, <2>2, <3>3, <4>2, <6>1 DEF DataType
        <5>2. Content(r, c, k, t, t + 1) = Msg(l, k, t)
          BY <1>2, <4>2, ArrivedContent
        <5> QED BY <2>1, <4>1, <5>1, <5>2
      <4>3. CASE Scatter(t) \/ c # d
        <5>1. buf'[r][c][u] = buf[r][c][u]
          <6>1. buf' = buf \/ (c # d /\ buf' = [buf EXCEPT ![r][d][w] = v])
            BY <1>1, <4>3
          <6> HIDE DEF d, w, v
          <6> QED BY <1>0, <2>2, <6>1 DEF DataType
        <5>2. Content(r, c, k, t, t + 1) = Content(r, c, k, t, t)
          BY <1>2, <4>3, ArrivedContent
        <5> QED BY <3>1, <4>1, <5>1, <5>2
      <4> QED BY <4>2, <4>3
    <3> QED BY <3>2, <3>3
  <2>6. StageHolds(r)'
    <3> SUFFICES ASSUME Scatter(t), NEW u \in Piece, Has(r, u)' = t + 1
                 PROVE  stage'[r][u] = Msg(l, k, t)
      BY <1>1, <2>4 DEF StageHolds
    <3>1. stage' = [stage EXCEPT ![r][w] = v]
      BY <1>1, <1>5
    <3>2. CASE u = w
      <4>1. stage'[r][u] = v
        <5> HIDE DEF w, v
        <5> QED BY <1>0, <3>1, <3>2 DEF DataType
      <4> QED BY <2>1, <4>1
    <3>3. CASE u # w
      <4>1. Has(r, u) = t + 1
        BY <1>2, <2>3, <2>4, <2>u, <3>3
      <4>2. stage[r][u] = Msg(l, k, t)
        BY <1>3, <2>3, <4>1 DEF StageHolds
      <4>3. stage'[r][u] = stage[r][u]
        <5> HIDE DEF w, v
        <5> QED BY <1>0, <3>1, <3>3 DEF DataType
      <4> QED BY <4>2, <4>3
    <3> QED BY <3>2, <3>3
  <2>7. Informed(r, call'[r], Fully(r)', Within)
    BY <1>1, <1>2, <2>1, <2>4 DEF Informed
  <2> QED BY <1>0, <2>5, <2>6, <2>7, DataStep, KnowingStep
<1> QED BY <1>1, <1>4, <1>5 DEF RecvPCs

(* dst += stage makes the partial sum of the chunk one longer.                *)
LEMMA SumData ==
  ASSUME SumInv, IInv', NEW r \in Ranks, Sum(r)
  PROVE  Data' /\ Knowing'
<1> DEFINE l == Left(r)
           t == s[r]
           k == call[r]
           d == recv_chunk(r, t)
           w == [u \in Piece |-> buf[r][d][u] \o stage[r][u]]
<1>0. ThreadType /\ Standing /\ Thread(r) /\ DataType
  BY DEF SumInv, IInv, Thread
<1>1. /\ pc[r] = "sum" /\ UNCHANGED <<call, moved, stage>>
      /\ buf' = IF Scatter(t) THEN [buf EXCEPT ![r][d] = w] ELSE buf
  BY DEF Sum, At
<1>2. t \in 0..(Steps - 1) /\ t \in Nat /\ Steps \in Nat /\ Steps >= 2 /\ moved[r] = 0
  BY <1>0, <1>1, Numbers DEF Standing
<1>3. BufHolds(r) /\ StageHolds(r)
  BY <1>1 DEF SumInv, Data
<1>4. Summed(r) = t /\ Fully(r) = t + 1 /\ \A u \in Piece : Has(r, u) = t + 1
  BY <1>1 DEF Summed, Fully, Has, RingPCs
<1>5. Summed(r)' = t + 1 /\ Fully(r)' = t + 1 /\ \A u \in Piece : Has(r, u)' = t + 1
  <2>0. \A u \in Piece : ~(u <= 0)
    BY PiecesAssumption DEF Piece
  <2>1. CASE t + 1 < Steps
    <3>1. /\ s'[r] = t + 1 /\ moved'[r] = 0
          /\ pc'[r] = IF SendsFirst(r) THEN "send" ELSE "recv"
      BY <1>0, <1>1, <1>2, <2>1 DEF Sum, Goto, FirstOp, ThreadType
    <3>2. Summed(r)' = t + 1 /\ Fully(r)' = t + 1
      BY <3>1 DEF Summed, Fully, RingPCs, SendsFirst
    <3> QED BY <2>0, <3>1, <3>2 DEF Has
  <2>2. CASE ~(t + 1 < Steps)
    <3>1. pc'[r] \in {"check", "reset"}
      BY <1>0, <2>2 DEF Sum, Goto, AfterRing, ThreadType
    <3>2. t + 1 = Steps
      BY <1>2, <2>2
    <3> QED BY <3>1, <3>2 DEF Summed, Fully, Has, RingPCs, Over
  <2> QED BY <2>1, <2>2
<1>6. BufHolds(r)'
  <2> SUFFICES ASSUME NEW c \in Chunks, NEW u \in Piece
               PROVE  buf'[r][c][u] = Content(r, c, k, t + 1, t + 1)
    BY <1>1, <1>5 DEF BufHolds
  <2>0. d \in Chunks
    BY <1>2, Chunk
  <2>1. buf[r][c][u] = Content(r, c, k, t, t + 1)
    BY <1>3, <1>4 DEF BufHolds
  <2>2. CASE Scatter(t) /\ c = d
    <3>1. stage[r][u] = Msg(l, k, t)
      BY <1>3, <1>4, <2>2 DEF StageHolds
    <3>2. buf'[r][c][u] = buf[r][c][u] \o stage[r][u]
      <4>1. buf' = [buf EXCEPT ![r][d] = w] /\ w[u] = buf[r][d][u] \o stage[r][u]
        BY <1>1, <2>2
      <4> HIDE DEF w, d
      <4>2. buf'[r][d] = w
        BY <1>0, <2>0, <4>1 DEF DataType
      <4> QED BY <2>2, <4>1, <4>2
    <3>3. Content(r, c, k, t + 1, t + 1) = Content(r, c, k, t, t + 1) \o Msg(l, k, t)
      BY <1>2, <2>2, SummedContent
    <3> QED BY <2>1, <3>1, <3>2, <3>3
  <2>3. CASE ~(Scatter(t) /\ c = d)
    <3>1. buf'[r][c][u] = buf[r][c][u]
      <4>1. buf' = buf \/ (c # d /\ buf' = [buf EXCEPT ![r][d] = w])
        BY <1>1, <2>3
      <4> HIDE DEF w, d
      <4> QED BY <1>0, <2>0, <4>1 DEF DataType
    <3>2. Content(r, c, k, t + 1, t + 1) = Content(r, c, k, t, t + 1)
      BY <1>2, <2>3, SummedContent
    <3> QED BY <2>1, <3>1, <3>2
  <2> QED BY <2>2, <2>3
<1>7. StageHolds(r)'
  BY <1>2, <1>5 DEF StageHolds
<1> QED BY <1>0, <1>1, <1>4, <1>5, <1>6, <1>7, DataStep, KnowingStep

(* The check leaves the sums in place.                                        *)
LEMMA CheckData ==
  ASSUME SumInv, IInv', NEW r \in Ranks, Check(r)
  PROVE  Data' /\ Knowing'
<1>0. ThreadType /\ Thread(r)
  BY DEF SumInv, IInv, Thread
<1>1. pc[r] = "check" /\ UNCHANGED <<call, s, moved, buf, stage>>
  BY DEF Check, At
<1>2. pc'[r] \in {"failed", "reset", "done"}
  BY <1>0 DEF Check, Goto, ThreadType
<1>3. ASSUME pc'[r] # "failed"
      PROVE  /\ Summed(r)' = Summed(r) /\ Fully(r)' = Fully(r)
             /\ \A u \in Piece : Has(r, u)' = Has(r, u)
  BY <1>1, <1>2, <1>3 DEF Summed, Fully, Has, RingPCs, Over
<1>4. BufHolds(r) /\ StageHolds(r)
  BY <1>1 DEF SumInv, Data
<1>5. pc'[r] # "failed" => BufHolds(r)' /\ StageHolds(r)'
  BY <1>1, <1>3, <1>4, HoldsSame
<1> QED BY <1>0, <1>1, <1>3, <1>5, DataStep, KnowingStep

(* The buffers are filled with the next contribution.                         *)
LEMMA ResetData ==
  ASSUME SumInv, IInv', NEW r \in Ranks, Reset(r)
  PROVE  Data' /\ Knowing'
<1> DEFINE fresh == [c \in Chunks |-> [u \in Piece |-> Own(r, call[r] + 1)]]
<1>0. ThreadType /\ DataType /\ Thread(r)
  BY DEF SumInv, IInv, Thread
<1>1. /\ call' = [call EXCEPT ![r] = call[r] + 1] /\ buf' = [buf EXCEPT ![r] = fresh]
      /\ pc' = [pc EXCEPT ![r] = IF SendsFirst(r) THEN "bsend" ELSE "brecv"]
  BY DEF Reset, Goto
<1>2. call'[r] = call[r] + 1 /\ buf'[r] = fresh /\ pc'[r] \in {"bsend", "brecv"}
  BY <1>0, <1>1 DEF ThreadType, DataType
<1>3. Summed(r)' = 0 /\ Fully(r)' = 0 /\ \A u \in Piece : Has(r, u)' = 0
  BY <1>2 DEF Summed, Fully, Has, RingPCs, Over
<1>4. BufHolds(r)'
  BY <1>2, <1>3, FreshContent DEF BufHolds
<1>5. StageHolds(r)'
  BY <1>3 DEF StageHolds
<1> QED BY <1>0, <1>3, <1>4, <1>5, DataStep, KnowingStep

(* A rank that fails has nothing to show, and closing changes no memory.      *)
LEMMA EndData ==
  ASSUME SumInv, IInv', NEW r \in Ranks,
         SendFails(r) \/ RecvFails(r) \/ Fail(r) \/ Close(r)
  PROVE  Data' /\ Knowing'
<1>0. ThreadType /\ (Thread(r) \/ Fail(r))
  BY DEF SumInv, IInv, Thread
<1>1. CASE SendFails(r) \/ RecvFails(r) \/ Fail(r)
  <2>1. pc'[r] = "failed"
    BY <1>0, <1>1 DEF SendFails, RecvFails, Fail, Goto, ThreadType
  <2> QED BY <1>0, <2>1, DataStep, KnowingStep
<1>2. CASE Close(r)
  <2>1. UNCHANGED <<pc, call, s, moved, buf, stage>>
    BY <1>2 DEF Close
  <2>2. /\ Summed(r)' = Summed(r) /\ Fully(r)' = Fully(r)
        /\ \A u \in Piece : Has(r, u)' = Has(r, u)
    BY <2>1, CountsFrame
  <2>3. pc'[r] # "failed" => BufHolds(r)' /\ StageHolds(r)'
    BY <2>1, <2>2, HoldsSame DEF SumInv, Data
  <2> QED BY <1>0, <2>1, <2>2, <2>3, DataStep, KnowingStep
<1> QED BY <1>1, <1>2

(* Nothing happens.                                                           *)
LEMMA StutterData ==
  ASSUME SumInv, UNCHANGED vars
  PROVE  Data' /\ Knowing'
<1>1. UNCHANGED <<pc, call, s, moved, buf, stage>>
  BY DEF vars
<1>2. \A q \in Ranks : /\ Summed(q)' = Summed(q) /\ Fully(q)' = Fully(q)
                       /\ \A u \in Piece : Has(q, u)' = Has(q, u)
  BY <1>1, CountsFrame
<1>3. Within' = Within
  BY <1>1 DEF Within
<1>4. ASSUME NEW q \in Ranks, pc'[q] # "failed" PROVE BufHolds(q)' /\ StageHolds(q)'
  BY <1>1, <1>2, <1>4, HoldsSame DEF SumInv, Data
<1>5. Knowing'
  BY <1>1, <1>2, <1>3 DEF SumInv, Knowing
<1> QED BY <1>4, <1>5 DEF Data

(* Everybody has its own contribution.                                        *)
LEMMA InitData == Init => Data /\ Knowing
<1> SUFFICES ASSUME Init PROVE Data /\ Knowing
  OBVIOUS
<1>1. \A q \in Ranks : Summed(q) = 0 /\ Fully(q) = 0 /\ \A u \in Piece : Has(q, u) = 0
  BY DEF Init, Summed, Fully, Has, RingPCs, Over
<1>2. ASSUME NEW q \in Ranks PROVE BufHolds(q)
  BY <1>1, FreshContent DEF Init, BufHolds
<1>3. \A q \in Ranks : StageHolds(q)
  BY <1>1 DEF StageHolds
<1>4. Knowing
  <2>1. \A i \in 1..(N - 1) : ~(i <= 0)
    BY NAssumption
  <2> QED BY <1>1, <2>1 DEF Knowing, Informed
<1> QED BY <1>2, <1>3, <1>4 DEF Data

-----------------------------------------------------------------------------
(* The theorems.                                                              *)

(* Every step keeps the places, the sums and what the ranks know.             *)
LEMMA NextSumInv == SumInv /\ [Next]_vars => SumInv'
<1> SUFFICES ASSUME SumInv, [Next]_vars PROVE SumInv'
  OBVIOUS
<1>0. IInv
  BY DEF SumInv
<1>1. ASSUME NEW r \in Ranks, Thread(r) PROVE IInv'
  BY <1>0, <1>1, StartKeeps, SendPieceKeeps, RecvPieceKeeps, SendFailsKeeps, RecvFailsKeeps,
     SumKeeps, CheckKeeps, ResetKeeps, CloseKeeps DEF Thread
<1>2. ASSUME NEW r \in Ranks, Thread(r) PROVE Data' /\ Knowing'
  BY <1>1, <1>2, StartData, SendData, RecvData, SumData, CheckData, ResetData, EndData
     DEF Thread
<1>3. ASSUME NEW r \in Ranks, Fail(r) PROVE IInv' /\ Data' /\ Knowing'
  BY <1>0, <1>3, FailKeeps, EndData
<1>4. CASE AllGone \/ UNCHANGED vars
  BY <1>0, <1>4, StutterKeeps, StutterData DEF AllGone, SumInv
<1> QED BY <1>1, <1>2, <1>3, <1>4 DEF Next, SumInv

(* Every reachable state of the TCP ring satisfies the inductive invariant.   *)
LEMMA Invariance == Spec => []SumInv
<1>1. Init => SumInv
  BY InitInv, InitData DEF SumInv
<1> QED BY <1>1, NextSumInv, PTL DEF Spec

(* The threads, their loop counters, the buffers and the bytes in the socket  *)
(* buffers keep their types and bounds: no counter of ring_blocking, send_all *)
(* or recv_all runs past its loop, and no socket buffer is overfilled.        *)
THEOREM TypeCorrect == Spec => []TypeOK
<1>1. SumInv => TypeOK
  BY DEF SumInv, IInv, TypeOK, ThreadType, DataType, StreamType
<1> QED BY <1>1, Invariance, PTL

(* recv_all of ring_blocking and of world_barrier reads exactly the bytes its *)
(* step expects from a stream without boundaries: for every ring size, chunk  *)
(* size and capacity of the sockets, and however far the sender is ahead.     *)
THEOREM FramesAlignedHolds == Spec => []FramesAligned
<1>1. SumInv => FramesAligned
  <2> SUFFICES ASSUME SumInv, NEW r \in Ranks, pc[r] \in RecvPCs, stream[Left(r)] # << >>
               PROVE  Head(stream[Left(r)])[1] =
                        IF At(r, "recv") THEN <<"chunk", recv_chunk(r, s[r]), moved[r] + 1>>
                                         ELSE <<"barrier", 0, 1>>
    BY DEF FramesAligned
  <2> DEFINE l == Left(r)
  <2>0. ThreadType /\ StreamType /\ Standing /\ Channels
    BY DEF SumInv, IInv
  <2>1. l \in Ranks /\ Right(l) = r
    BY Ring
  <2>2. pc[r] # "failed" /\ open[r]
    BY <2>0 DEF RecvPCs, Standing, Ended
  <2>3. PICK b \in Place : Linked(l, stream[l], RecvPos(r), b, call[l], Within)
    BY <2>0, <2>1, <2>2 DEF Channels, Channel
  <2>4. stream[l] \in Seq(Frames \X Value) /\ call[l] \in Nat
    BY <2>0, <2>1, Numbers DEF StreamType
  <2>5. Head(stream[l])[1] = Frame(l, RecvPos(r))
    BY <2>3, <2>4, LinkRecv DEF Carries
  <2>6. CASE pc[r] = "recv"
    <3>1. RecvPos(r) = <<call[r], s[r], moved[r]>>
      BY <2>6 DEF RecvPos, Progress
    <3>2. s[r] \in 0..(Steps - 1) /\ s[r] # -1
      BY <2>0, Numbers
    <3>3. send_chunk(l, s[r]) = recv_chunk(r, s[r])
      BY <3>2, Chunk
    <3> QED BY <2>5, <2>6, <3>1, <3>2, <3>3 DEF Frame, At
  <2>7. CASE pc[r] = "brecv"
    <3>1. RecvPos(r) = <<call[r], -1, 0>>
      BY <2>7 DEF RecvPos, Progress
    <3> QED BY <2>5, <2>7, <3>1 DEF Frame, At
  <2> QED BY <2>6, <2>7 DEF RecvPCs
<1> QED BY <1>1, Invariance, PTL

(* A rank leaves world_barrier on TCP only when its left neighbour has        *)
(* entered it.                                                                *)
THEOREM BarrierLeftHolds == Spec => []BarrierLeft
<1>1. SumInv => BarrierLeft
  BY DEF SumInv, IInv, LeftArrived, HasByte, BarrierLeft, PastBarrier
<1> QED BY <1>1, Invariance, PTL

(* Nobody fails on TCP unless a faulty rank stopped: the sums are always the  *)
(* expected ones, and a closed connection is never the first cause, although  *)
(* each rank closes its sockets as soon as it is done.                        *)
THEOREM FailureHasCauseHolds == Spec => []FailureHasCause
<1>1. SumInv => FailureHasCause
  BY DEF SumInv, IInv
<1> QED BY <1>1, Invariance, PTL

-----------------------------------------------------------------------------
(* The refinement of AllReduce.  What the mapping shows of a rank, in the     *)
(* terms of its thread and its buffer.                                        *)
Shown(p) == IF p \in Outside THEN "ready"
            ELSE IF p \in RingPCs THEN "in"
            ELSE IF p \in {"check", "reset"} THEN "out" ELSE p

Nothing == [c \in Chunks |-> << >>]

AbsView ==
  /\ AbsState = [r \in Ranks |-> Shown(pc[r])]
  /\ AbsResult = [r \in Ranks |-> IF pc[r] \in Over THEN [c \in Chunks |-> Whole(buf[r][c])]
                                                     ELSE Nothing]

(* The places of a thread are apart.                                          *)
LEMMA ShownAt ==
  /\ \A p \in Outside : Shown(p) = "ready"
  /\ \A p \in RingPCs : Shown(p) = "in"
  /\ \A p \in {"check", "reset"} : Shown(p) = "out"
  /\ Shown("done") = "done" /\ Shown("failed") = "failed"
  BY DEF Shown, Outside, RingPCs

(* The view is the mapping.                                                   *)
LEMMA AbsViewHolds == ThreadType => AbsView
<1> SUFFICES ASSUME ThreadType PROVE AbsView
  OBVIOUS
<1>1. AbsState = [r \in Ranks |-> Shown(pc[r])]
  <2> DEFINE M(p) == CASE p \in {"start", "bsend", "brecv"} -> "ready"
                       [] p \in {"send", "recv", "sum"}     -> "in"
                       [] p \in {"check", "reset"}          -> "out"
                       [] OTHER                             -> p
  <2>1. ASSUME NEW r \in Ranks PROVE M(pc[r]) = Shown(pc[r])
    <3>1. CASE pc[r] \in Outside
      BY <3>1 DEF Shown, Outside
    <3>2. CASE pc[r] \in RingPCs
      BY <3>2 DEF Shown, Outside, RingPCs
    <3>3. CASE pc[r] \in {"check", "reset"}
      BY <3>3 DEF Shown, Outside, RingPCs
    <3>4. CASE pc[r] \notin Outside \cup RingPCs \cup {"check", "reset"}
      BY <3>4 DEF Shown, Outside, RingPCs
    <3> QED BY <3>1, <3>2, <3>3, <3>4
  <2>2. AbsState = [r \in Ranks |-> M(pc[r])]
    BY DEF AbsState
  <2> HIDE DEF M
  <2> QED BY <2>1, <2>2
<1>2. ASSUME NEW r \in Ranks PROVE AbsState[r] \in {"out", "done"} <=> pc[r] \in Over
  <2>1. pc[r] \in PCs
    BY DEF ThreadType
  <2> QED BY <1>1, <2>1 DEF Shown, Over, PCs, SendPCs, RecvPCs, RingPCs, Outside
<1>3. AbsResult = [r \in Ranks |-> IF pc[r] \in Over THEN [c \in Chunks |-> Whole(buf[r][c])]
                                                      ELSE Nothing]
  BY <1>2 DEF AbsResult, Nothing
<1> QED BY <1>1, <1>3 DEF AbsView

(* And after a step.                                                          *)
LEMMA AbsViewNext == ThreadType' => AbsView'
  BY AbsViewHolds, PTL

(* The initial states.                                                        *)
LEMMA AbsInit == Init => Abstract!Init
<1> SUFFICES ASSUME Init PROVE Abstract!Init
  OBVIOUS
<1>1. AbsView
  BY InitInv, AbsViewHolds DEF IInv
<1>2. \A r \in Ranks : pc[r] = "start"
  BY DEF Init
<1>3. AbsState = [r \in Ranks |-> "ready"]
  BY <1>1, <1>2, ShownAt DEF AbsView, Outside
<1>4. AbsResult = [r \in Ranks |-> Nothing]
  BY <1>1, <1>2 DEF AbsView, Over
<1> QED BY <1>3, <1>4 DEF Abstract!Init, Abstract!NoResult, Abstract!Ranks, Abstract!Chunks,
        Ranks, Chunks, Nothing, Init

(* A rank whose thread stands still shows nothing new.                        *)
LEMMA AbsFrame ==
  ASSUME ThreadType, ThreadType', NEW q \in Ranks, Shown(pc'[q]) = Shown(pc[q]),
         pc[q] \in Over <=> pc'[q] \in Over, pc[q] \in Over => buf'[q] = buf[q]
  PROVE  AbsState'[q] = AbsState[q] /\ AbsResult'[q] = AbsResult[q]
<1>1. AbsView /\ AbsView'
  BY AbsViewHolds, AbsViewNext
<1>2. AbsState'[q] = AbsState[q]
  BY <1>1 DEF AbsView
<1>3. pc[q] \in Over => [c \in Chunks |-> Whole(buf[q][c])]' = [c \in Chunks |-> Whole(buf[q][c])]
  BY DEF Whole
<1>4. AbsResult'[q] = AbsResult[q]
  BY <1>1, <1>3 DEF AbsView
<1> QED BY <1>2, <1>4

(* A step that shows nothing new of any rank is a stuttering step.            *)
LEMMA AbsQuiet ==
  ASSUME ThreadType, ThreadType', call' = call,
         \A q \in Ranks : AbsState'[q] = AbsState[q] /\ AbsResult'[q] = AbsResult[q]
  PROVE  UNCHANGED Abstract!avars
<1>1. AbsView /\ AbsView'
  BY AbsViewHolds, AbsViewNext
<1>2. AbsState' = AbsState
  BY <1>1 DEF AbsView
<1>3. AbsResult' = AbsResult
  BY <1>1 DEF AbsView
<1> QED BY <1>2, <1>3 DEF Abstract!avars

(* A step that shows something new of one rank only.                          *)
LEMMA AbsMoves ==
  ASSUME ThreadType, ThreadType', NEW r \in Ranks,
         \A q \in Ranks \ {r} : AbsState'[q] = AbsState[q] /\ AbsResult'[q] = AbsResult[q]
  PROVE  /\ AbsState' = [AbsState EXCEPT ![r] = Shown(pc'[r])]
         /\ AbsState[r] = Shown(pc[r])
         /\ pc'[r] \notin Over => AbsResult' = [AbsResult EXCEPT ![r] = Nothing]
         /\ pc[r] \notin Over /\ pc'[r] \notin Over => AbsResult' = AbsResult
         /\ AbsResult[r] = AbsResult'[r] => AbsResult' = AbsResult
<1>1. AbsView /\ AbsView'
  BY AbsViewHolds, AbsViewNext
<1>2. AbsState' = [AbsState EXCEPT ![r] = Shown(pc'[r])] /\ AbsState[r] = Shown(pc[r])
  BY <1>1 DEF AbsView
<1>3. pc'[r] \notin Over => AbsResult' = [AbsResult EXCEPT ![r] = Nothing]
  BY <1>1 DEF AbsView
<1>4. pc[r] \notin Over /\ pc'[r] \notin Over => AbsResult' = AbsResult
  BY <1>1 DEF AbsView
<1>5. AbsResult[r] = AbsResult'[r] => AbsResult' = AbsResult
  BY <1>1 DEF AbsView
<1> QED BY <1>2, <1>3, <1>4, <1>5

\* A rank that is through shows the full sums: no chunk is torn.
FullShown ==
  \A r \in Ranks : pc[r] \in Over => AbsResult[r] = [c \in Chunks |-> Full(c, call[r])]

(* The sums in the buffers are the results shown.                             *)
LEMMA AbsFull == ThreadType /\ Data => FullShown
<1> SUFFICES ASSUME ThreadType, Data, NEW r \in Ranks, pc[r] \in Over
             PROVE  AbsResult[r] = [c \in Chunks |-> Full(c, call[r])]
  BY DEF FullShown
<1>1. \A c \in Chunks, u \in Piece : buf[r][c][u] = Full(c, call[r])
  BY OverHolds
<1>2. 1 \in Piece
  BY PiecesAssumption DEF Piece
<1>3. \A c \in Chunks : Whole(buf[r][c]) = Full(c, call[r])
  BY <1>1, <1>2 DEF Whole
<1>4. AbsResult[r] = [c \in Chunks |-> Whole(buf[r][c])]
  BY AbsViewHolds DEF AbsView
<1> QED BY <1>3, <1>4

(* And after a step.                                                          *)
LEMMA AbsFullNext == ThreadType' /\ Data' => FullShown'
  BY AbsFull, PTL

(* The last sum of a call is the return of the abstract all-reduce: every     *)
(* rank has entered the call, every chunk is the full sum, and the ranks      *)
(* that have returned hold the same lists.                                    *)
LEMMA AbsReturn ==
  ASSUME SumInv, SumInv', NEW r \in Ranks, Sum(r), s[r] + 1 = Steps,
         \A q \in Ranks \ {r} : AbsState'[q] = AbsState[q] /\ AbsResult'[q] = AbsResult[q]
  PROVE  Abstract!Return(r)
<1>0. ThreadType /\ ThreadType' /\ Data /\ Data' /\ Knowing
  BY DEF SumInv, IInv
<1>n. N \in Nat /\ N >= 2 /\ Steps = 2 * (N - 1) /\ s[r] \in Nat /\ call[r] \in Nat
  BY <1>0, NAssumption, Numbers DEF Steps
<1>1. pc[r] = "sum" /\ pc'[r] \in {"check", "reset"} /\ call' = call
  <2>1. ~(s[r] + 1 < Steps)
    BY <1>n
  <2> QED BY <1>0, <2>1 DEF Sum, At, Goto, AfterRing, ThreadType
<1>2. AbsState' = [AbsState EXCEPT ![r] = Shown(pc'[r])] /\ AbsState[r] = Shown(pc[r])
  BY <1>0, AbsMoves
<1>3. AbsState[r] = "in" /\ AbsState' = [AbsState EXCEPT ![r] = "out"]
  BY <1>1, <1>2, ShownAt DEF RingPCs
<1>5. AbsResult'[r] = [c \in Chunks |-> Full(c, call[r])]
  BY <1>0, <1>1, AbsFullNext DEF FullShown, Over
<1>6. \A c \in Chunks : IsSum(AbsResult'[r][c], call[r])
  BY <1>5, FullIsSum
<1>7. ASSUME NEW q \in Ranks
      PROVE  call[q] > call[r] \/ (call[q] = call[r] /\ AbsState[q] # "ready")
  <2>1. CASE q = r
    BY <1>3, <2>1
  <2>2. CASE q # r
    <3> DEFINE i == Dist(r, q)
    <3>1. i \in 1..(N - 1) /\ Back(r, i) = q
      <4>1. q \in 0..(N - 1) /\ r \in 0..(N - 1)
        BY DEF Ranks
      <4> QED BY <1>n, <2>2, <4>1 DEF Dist, Back
    <3>2. Fully(r) = s[r] + 1
      BY <1>1 DEF Fully
    <3> HIDE DEF i
    <3>3. i <= Fully(r)
      BY <1>n, <3>1, <3>2
    <3>4. Informed(r, call[r], Fully(r), Within)
      BY <1>0, <1>1 DEF Knowing
    <3>5. <<q, call[r]>> \in Within
      BY <3>1, <3>3, <3>4 DEF Informed
    <3>6. AbsState[q] = Shown(pc[q]) /\ pc[q] \in PCs
      BY <1>0, AbsViewHolds DEF AbsView, ThreadType
    <3>7. call[q] > call[r] \/ (call[q] = call[r] /\ pc[q] \notin Outside)
      BY <3>5 DEF Within
    <3> QED BY <3>6, <3>7 DEF Shown, PCs, SendPCs, RecvPCs, RingPCs, Outside
  <2> QED BY <2>1, <2>2
<1>8. ASSUME NEW q \in Ranks \ {r}, AbsState[q] \in {"out", "done"}, call[q] = call[r]
      PROVE  AbsResult'[r] = AbsResult[q]
  <2>1. AbsView /\ pc[q] \in PCs
    BY <1>0, AbsViewHolds DEF ThreadType
  <2>2. pc[q] \in Over
    BY <1>8, <2>1 DEF AbsView, Shown, Over, PCs, SendPCs, RecvPCs, RingPCs, Outside
  <2>3. AbsResult[q] = [c \in Chunks |-> Full(c, call[q])]
    BY <1>0, <2>2, AbsFull DEF FullShown
  <2> QED BY <1>5, <1>8, <2>3
<1>9. Abstract!Ranks = Ranks /\ Abstract!Chunks = Chunks
  BY DEF Abstract!Ranks, Abstract!Chunks, Ranks, Chunks
<1>10. \A v, k : Abstract!IsSum(v, k) <=> IsSum(v, k)
  BY <1>9 DEF Abstract!IsSum, IsSum
<1> QED BY <1>1, <1>3, <1>6, <1>7, <1>8, <1>9, <1>10 DEF Abstract!Return

(* Every step of a rank is a step of the abstract all-reduce, or shows        *)
(* nothing new.                                                               *)
LEMMA AbsThread ==
  ASSUME SumInv, SumInv', NEW r \in Ranks, Thread(r) \/ Fail(r)
  PROVE  Abstract!Next \/ UNCHANGED Abstract!avars
<1>0. ThreadType /\ ThreadType' /\ Standing /\ Data /\ IInv
  BY DEF SumInv, IInv
<1>t. pc \in [Ranks -> PCs] /\ call \in [Ranks -> 0..Iters]
  BY <1>0 DEF ThreadType
<1>r. Abstract!Ranks = Ranks /\ Abstract!Chunks = Chunks /\ Abstract!NoResult = Nothing
  BY DEF Abstract!Ranks, Abstract!Chunks, Ranks, Chunks, Abstract!NoResult, Nothing
<1>q. \A q \in Ranks \ {r} : AbsState'[q] = AbsState[q] /\ AbsResult'[q] = AbsResult[q]
  <2> SUFFICES ASSUME NEW q \in Ranks, q # r
               PROVE  AbsState'[q] = AbsState[q] /\ AbsResult'[q] = AbsResult[q]
    OBVIOUS
  <2>1. pc'[q] = pc[q] /\ buf'[q] = buf[q]
    BY <1>0, OthersStay
  <2> QED BY <1>0, <2>1, AbsFrame
<1>m. /\ AbsState' = [AbsState EXCEPT ![r] = Shown(pc'[r])]
      /\ AbsState[r] = Shown(pc[r])
      /\ pc'[r] \notin Over => AbsResult' = [AbsResult EXCEPT ![r] = Nothing]
      /\ pc[r] \notin Over /\ pc'[r] \notin Over => AbsResult' = AbsResult
      /\ AbsResult[r] = AbsResult'[r] => AbsResult' = AbsResult
  BY <1>0, <1>q, AbsMoves
<1>s. ASSUME Shown(pc'[r]) = Shown(pc[r]), pc[r] \in Over <=> pc'[r] \in Over,
             pc[r] \in Over => buf'[r] = buf[r], call' = call
      PROVE  UNCHANGED Abstract!avars
  BY <1>0, <1>q, <1>s, AbsFrame, AbsQuiet
<1>a. ASSUME Advance(r), pc[r] \in SendPCs \cup RecvPCs, call' = call
      PROVE  UNCHANGED Abstract!avars
  <2>1. pc'[r] = pc[r] \/ pc'[r] = AfterOp(r)
    BY <1>t, <1>a DEF Advance, Goto
  <2>2. CASE pc[r] \in {"send", "recv"}
    <3>1. AfterOp(r) \in RingPCs
      BY <2>2 DEF AfterOp, At, RingPCs
    <3>2. pc[r] \in RingPCs /\ pc'[r] \in RingPCs
      BY <2>1, <2>2, <3>1 DEF RingPCs
    <3>3. pc[r] \notin Over /\ pc'[r] \notin Over
      BY <3>2 DEF RingPCs, Over
    <3> QED BY <1>a, <1>s, <3>2, <3>3, ShownAt
  <2>3. CASE pc[r] \in {"bsend", "brecv"}
    <3>1. AfterOp(r) \in Outside
      BY <2>3 DEF AfterOp, At, Outside
    <3>2. pc[r] \in Outside /\ pc'[r] \in Outside
      BY <2>1, <2>3, <3>1 DEF Outside
    <3>3. pc[r] \notin Over /\ pc'[r] \notin Over
      BY <3>2 DEF Outside, Over
    <3> QED BY <1>a, <1>s, <3>2, <3>3, ShownAt
  <2> QED BY <1>a, <2>2, <2>3 DEF SendPCs, RecvPCs
<1>f. ASSUME pc[r] \in SendPCs \cup RecvPCs, pc'[r] = "failed", call' = call,
             NEW q \in Ranks \ {r}, ~open[q]
      PROVE  Abstract!Abort(r)
  <2>1. AbsState[r] \in {"ready", "in"}
    BY <1>f, <1>m, ShownAt DEF SendPCs, RecvPCs, RingPCs, Outside
  <2>2. AbsState' = [AbsState EXCEPT ![r] = "failed"]
    BY <1>f, <1>m, ShownAt
  <2>3. AbsResult' = AbsResult
    BY <1>f, <1>m DEF Over, SendPCs, RecvPCs
  <2>4. pc[q] \in {"done", "failed"}
    BY <1>0, <1>f DEF Standing, Ended
  <2>5. AbsState[q] = Shown(pc[q])
    BY <1>0, AbsViewHolds DEF AbsView
  <2>6. AbsState[q] \in {"done", "failed"}
    BY <2>4, <2>5, ShownAt
  <2> QED BY <1>f, <1>r, <2>1, <2>2, <2>3, <2>6 DEF Abstract!Abort
<1> USE DEF At, Goto
<1>1. CASE Start(r)
  <2>1. pc[r] = "start" /\ pc'[r] \in RingPCs /\ call' = call
    BY <1>t, <1>1 DEF Start, FirstOp, RingPCs
  <2>2. AbsState[r] = "ready" /\ AbsState' = [AbsState EXCEPT ![r] = "in"]
    BY <1>m, <2>1, ShownAt DEF Outside
  <2>3. AbsResult' = AbsResult
    BY <1>m, <2>1 DEF Over, RingPCs
  <2>4. Abstract!Enter(r)
    BY <2>1, <2>2, <2>3 DEF Abstract!Enter
  <2> QED BY <1>r, <2>4 DEF Abstract!Next
<1>2. CASE SendPiece(r) \/ RecvPiece(r)
  BY <1>2, <1>a DEF SendPiece, RecvPiece
<1>3. CASE Sum(r)
  <2>1. CASE s[r] + 1 < Steps
    <3>1. pc[r] \in RingPCs /\ pc'[r] \in RingPCs /\ call' = call
      BY <1>t, <1>3, <2>1 DEF Sum, RingPCs, FirstOp
    <3>2. pc[r] \notin Over /\ pc'[r] \notin Over
      BY <3>1 DEF RingPCs, Over
    <3> QED BY <1>s, <3>1, <3>2, ShownAt
  <2>2. CASE ~(s[r] + 1 < Steps)
    <3>0. s[r] \in 0..(Steps - 1) /\ Steps \in Nat
      BY <1>0, Numbers
    <3>1. s[r] + 1 = Steps
      BY <2>2, <3>0
    <3>2. Abstract!Return(r)
      BY <1>3, <1>q, <3>1, AbsReturn
    <3> QED BY <1>r, <3>2 DEF Abstract!Next
  <2> QED BY <2>1, <2>2
<1>4. CASE Check(r)
  <2>0. CheckPasses(r)
    BY <1>4, CheckAlwaysPasses DEF Check
  <2>1. pc[r] = "check" /\ pc'[r] \in {"reset", "done"} /\ call' = call /\ buf' = buf
    BY <1>t, <1>4, <2>0 DEF Check
  <2>2. CASE pc'[r] = "reset"
    BY <1>s, <2>1, <2>2, ShownAt DEF Over
  <2>3. CASE pc'[r] = "done"
    <3>1. AbsState[r] = "out" /\ AbsState' = [AbsState EXCEPT ![r] = "done"]
      BY <1>m, <2>1, <2>3, ShownAt
    <3>2. AbsResult' = AbsResult
      <4>1. Data' /\ ThreadType'
        BY DEF SumInv, IInv
      <4>2. AbsResult'[r] = [c \in Chunks |-> Full(c, call'[r])]
        BY <2>3, <4>1, AbsFullNext DEF FullShown, Over
      <4>3. AbsResult[r] = [c \in Chunks |-> Full(c, call[r])]
        BY <1>0, <2>1, AbsFull DEF FullShown, Over
      <4> QED BY <1>m, <2>1, <4>2, <4>3
    <3>3. Abstract!Finish(r)
      BY <2>1, <3>1, <3>2 DEF Abstract!Finish
    <3> QED BY <1>r, <3>3 DEF Abstract!Next
  <2> QED BY <2>1, <2>2, <2>3
<1>5. CASE Reset(r)
  <2>1. /\ pc[r] = "reset" /\ pc'[r] \in {"bsend", "brecv"}
        /\ call' = [call EXCEPT ![r] = call[r] + 1]
    BY <1>t, <1>5 DEF Reset
  <2>2. AbsState[r] = "out" /\ AbsState' = [AbsState EXCEPT ![r] = "ready"]
    BY <1>m, <2>1, ShownAt DEF Outside
  <2>3. AbsResult' = [AbsResult EXCEPT ![r] = Nothing]
    BY <1>m, <2>1 DEF Over
  <2>4. Abstract!Reload(r)
    BY <1>r, <2>1, <2>2, <2>3 DEF Abstract!Reload
  <2> QED BY <1>r, <2>4 DEF Abstract!Next
<1>6. CASE SendFails(r)
  <2>1. Right(r) \in Ranks \ {r}
    BY Ring
  <2>2. pc[r] \in SendPCs /\ pc'[r] = "failed" /\ call' = call /\ ~open[Right(r)]
    BY <1>t, <1>6 DEF SendFails
  <2>3. Abstract!Abort(r)
    BY <1>f, <2>1, <2>2
  <2> QED BY <1>r, <2>3 DEF Abstract!Next
<1>7. CASE RecvFails(r)
  <2>1. Left(r) \in Ranks \ {r}
    BY Ring
  <2>2. pc[r] \in RecvPCs /\ pc'[r] = "failed" /\ call' = call /\ ~open[Left(r)]
    BY <1>t, <1>7 DEF RecvFails
  <2>3. Abstract!Abort(r)
    BY <1>f, <2>1, <2>2
  <2> QED BY <1>r, <2>3 DEF Abstract!Next
<1>8. CASE Close(r)
  <2>1. pc' = pc /\ call' = call /\ buf' = buf
    BY <1>8 DEF Close
  <2> QED BY <1>s, <2>1
<1>9. CASE Fail(r)
  <2>1. r \in Faulty /\ pc[r] \notin {"done", "failed"} /\ pc'[r] = "failed" /\ call' = call
    BY <1>t, <1>9 DEF Fail, Ended
  <2>2. AbsState[r] \notin {"done", "failed"}
    <3>1. pc[r] \in PCs
      BY <1>t
    <3> QED BY <1>m, <2>1, <3>1 DEF Shown, PCs, SendPCs, RecvPCs, RingPCs, Outside
  <2>3. AbsState' = [AbsState EXCEPT ![r] = "failed"]
    BY <1>m, <2>1, ShownAt
  <2>4. AbsResult' = [AbsResult EXCEPT ![r] = Nothing]
    BY <1>m, <2>1 DEF Over
  <2>5. Abstract!Crash(r)
    BY <1>r, <2>1, <2>2, <2>3, <2>4 DEF Abstract!Crash
  <2> QED BY <1>r, <2>5 DEF Abstract!Next
<1> QED BY <1>1, <1>2, <1>3, <1>4, <1>5, <1>6, <1>7, <1>8, <1>9 DEF Thread

(* ring_blocking implements the abstract all-reduce, for every ring size,     *)
(* number of calls, chunk size and capacity of the sockets, and whichever     *)
(* ranks may stop: a call returns only after every rank has entered it, with  *)
(* every chunk the full sum, no piece of it from another call and the same    *)
(* list of additions on every rank, and a rank that is not faulty gives up    *)
(* only when another one has left.                                            *)
THEOREM ImplementsAllReduceHolds == Spec => ImplementsAllReduce
<1>1. SumInv /\ SumInv' /\ [Next]_vars => [Abstract!Next]_Abstract!avars
  <2> SUFFICES ASSUME SumInv, SumInv', [Next]_vars
               PROVE  Abstract!Next \/ UNCHANGED Abstract!avars
    OBVIOUS
  <2>0. ThreadType /\ ThreadType'
    BY DEF SumInv, IInv
  <2>1. CASE UNCHANGED vars \/ AllGone
    <3>1. pc' = pc /\ call' = call /\ buf' = buf
      BY <2>1 DEF vars, AllGone
    <3>2. \A q \in Ranks : AbsState'[q] = AbsState[q] /\ AbsResult'[q] = AbsResult[q]
      BY <2>0, <3>1, AbsFrame
    <3> QED BY <2>0, <3>1, <3>2, AbsQuiet
  <2> QED BY <2>1, AbsThread DEF Next
<1> QED BY <1>1, Invariance, AbsInit, PTL DEF Spec, ImplementsAllReduce, Abstract!Spec
=============================================================================
