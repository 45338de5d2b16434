---------------------------- MODULE RingBlocking ----------------------------
(***************************************************************************)
(* Ring all-reduce over TCP as phase3_collective/bench/allreduce_bench.cpp  *)
(* drives it: ring_blocking (ring_allreduce.cpp), world_barrier (world.cpp) *)
(* and send_all / recv_all of TcpTransport (tcp_backend.cpp).               *)
(*                                                                          *)
(* A connection is a byte stream of bounded capacity (both socket buffers   *)
(* together): send blocks when it is full, recv when it is empty, and both  *)
(* move as much as there is room for, so a chunk crosses in pieces.  The    *)
(* stream has no message boundaries.                                        *)
(***************************************************************************)
EXTENDS RingChunks

CONSTANTS Iters,    \* total_iters of the timed loop: calls 1..Iters follow call 0
          Faulty,   \* the ranks whose process may stop anywhere
          Pieces,   \* the pieces a chunk is moved in by send() and recv()
          Capacities \* the pieces a connection may hold before send() blocks

ASSUME ItersAssumption    == Iters \in Nat /\ Iters >= 1
ASSUME FaultyAssumption   == Faulty \subseteq Ranks
ASSUME PiecesAssumption   == Pieces \in Nat /\ Pieces >= 1
ASSUME CapacityAssumption == Capacities \subseteq Nat \ {0} /\ Capacities # {}

VARIABLES pc,       \* pc[r]: the statement r's thread is in
          call,     \* call[r]: which ring_allreduce call r is in
          s,        \* s[r]: the loop variable of ring_blocking
          moved,    \* moved[r]: pieces the current send_all / recv_all has moved
          buf,      \* buf[r][c][u]: piece u of chunk c
          stage,    \* stage[r][u]: the staging chunk
          stream,   \* stream[r]: what r has sent to Right(r) and it has not read
          open,     \* open[r]: r's sockets are open
          room      \* room[r]: what the connection to Right(r) holds, which the
                    \* kernel decides

vars == <<pc, call, s, moved, buf, stage, stream, open, room>>

Piece == 1..Pieces

(* What a byte in the stream was sent as: a barrier byte or a piece of a    *)
(* chunk.  Only the properties read it, the receiver cannot.                *)
Frames == ({"barrier"} \X {0} \X {1}) \cup ({"chunk"} \X Chunks \X Piece)

SendPCs == {"send", "bsend"}
RecvPCs == {"recv", "brecv"}
PCs == SendPCs \cup RecvPCs \cup {"start", "sum", "check", "reset", "done", "failed"}

Ended(r) == pc[r] \in {"done", "failed"}

TypeOK ==
  /\ pc \in [Ranks -> PCs]
  /\ call \in [Ranks -> 0..Iters]
  /\ s \in [Ranks -> 0..(Steps - 1)]
  /\ moved \in [Ranks -> 0..(Pieces - 1)]
  /\ buf \in [Ranks -> [Chunks -> [Piece -> Value]]]
  /\ stage \in [Ranks -> [Piece -> Value]]
  /\ stream \in [Ranks -> Seq(Frames \X Value)]
  /\ open \in [Ranks -> BOOLEAN]
  /\ room \in [Ranks -> Capacities]
  /\ \A r \in Ranks : Len(stream[r]) <= room[r]

Init ==
  /\ pc = [r \in Ranks |-> "start"]
  /\ call = [r \in Ranks |-> 0]
  /\ s = [r \in Ranks |-> 0]
  /\ moved = [r \in Ranks |-> 0]
  /\ buf = [r \in Ranks |-> [c \in Chunks |-> [u \in Piece |-> Own(r, 0)]]]
  /\ stage = [r \in Ranks |-> [u \in Piece |-> Garbage]]
  /\ stream = [r \in Ranks |-> << >>]
  /\ open = [r \in Ranks |-> TRUE]
  /\ room \in [Ranks -> Capacities]

-----------------------------------------------------------------------------
At(r, label)   == pc[r] = label
Goto(r, label) == pc' = [pc EXCEPT ![r] = label]

(* recv() waits for data, so someone has to send first: the even ranks do.  *)
SendsFirst(r) == r % 2 = 0

(* What follows once a send_all or a recv_all has moved everything. *)
AfterOp(r) ==
  CASE At(r, "send")  -> IF SendsFirst(r) THEN "recv" ELSE "sum"
    [] At(r, "recv")  -> IF SendsFirst(r) THEN "sum" ELSE "send"
    [] At(r, "bsend") -> IF SendsFirst(r) THEN "brecv" ELSE "start"
    [] At(r, "brecv") -> IF SendsFirst(r) THEN "start" ELSE "bsend"

\* Mutant: recv_all does not loop and takes what the first recv() returns.
OpLength_ShortRecv(r) == IF pc[r] = "send" THEN Pieces ELSE 1

(* The barrier trades one byte. *)
OpLength(r) == IF pc[r] \in {"send", "recv"} THEN Pieces ELSE 1

(* One more piece: the while loop of send_all and recv_all. *)
Advance(r) ==
  IF moved[r] + 1 < OpLength(r)
  THEN moved' = [moved EXCEPT ![r] = @ + 1] /\ UNCHANGED pc
  ELSE moved' = [moved EXCEPT ![r] = 0] /\ Goto(r, AfterOp(r))

FirstOp(r) == IF SendsFirst(r) THEN "send" ELSE "recv"

Start(r) ==
  /\ At(r, "start")
  /\ s' = [s EXCEPT ![r] = 0]
  /\ Goto(r, FirstOp(r))
  /\ UNCHANGED <<call, moved, buf, stage, stream, open, room>>

(* send() takes what the socket buffer has room for; the peer may already   *)
(* be gone without this end having heard of it.                             *)
SendPiece(r) ==
  LET c == send_chunk(r, s[r])
      u == moved[r] + 1
      item == IF At(r, "send") THEN << <<"chunk", c, u>>, buf[r][c][u] >>
                               ELSE << <<"barrier", 0, 1>>, Garbage >>
  IN /\ pc[r] \in SendPCs
     /\ Len(stream[r]) < room[r]
     /\ stream' = [stream EXCEPT ![r] = Append(@, item)]
     /\ Advance(r)
     /\ UNCHANGED <<call, s, buf, stage, open, room>>

(* recv() returns what has arrived: into stage while reducing, into the     *)
(* chunk itself while gathering, into the scratch byte in the barrier.      *)
RecvPiece(r) ==
  LET c == recv_chunk(r, s[r])
      u == moved[r] + 1
      v == Head(stream[Left(r)])[2]
  IN /\ pc[r] \in RecvPCs
     /\ stream[Left(r)] # << >>
     /\ stream' = [stream EXCEPT ![Left(r)] = Tail(@)]
     /\ stage' = IF At(r, "recv") /\ Scatter(s[r])
                 THEN [stage EXCEPT ![r][u] = v] ELSE stage
     /\ buf' = IF At(r, "recv") /\ ~Scatter(s[r])
               THEN [buf EXCEPT ![r][c][u] = v] ELSE buf
     /\ Advance(r)
     /\ UNCHANGED <<call, s, open, room>>

\* Mutant: closing a connection discards what is still unread.
RecvFails_Abrupt(r) ==
  /\ pc[r] \in RecvPCs
  /\ ~open[Left(r)]
  /\ Goto(r, "failed")
  /\ UNCHANGED <<call, s, moved, buf, stage, stream, open, room>>

\* Mutant: recv() returning 0 is taken for "try again".
RecvFails_Retries(r) ==
  /\ pc[r] \in RecvPCs
  /\ stream[Left(r)] = << >> /\ ~open[Left(r)]
  /\ UNCHANGED vars

(* send() to a peer that has closed fails with EPIPE (or SIGPIPE ends the   *)
(* process); recv() returns 0 once a closed peer's data is used up.  Either *)
(* way the error goes up to main and the process ends.                      *)
SendFails(r) ==
  /\ pc[r] \in SendPCs
  /\ ~open[Right(r)]
  /\ Goto(r, "failed")
  /\ UNCHANGED <<call, s, moved, buf, stage, stream, open, room>>

RecvFails(r) ==
  /\ pc[r] \in RecvPCs
  /\ stream[Left(r)] = << >> /\ ~open[Left(r)]
  /\ Goto(r, "failed")
  /\ UNCHANGED <<call, s, moved, buf, stage, stream, open, room>>

(* Where main goes when ring_allreduce returns 0. *)
AfterRing(k) == IF k = 0 \/ k = Iters THEN "check" ELSE "reset"

(* Both polls return 0 at once; dst += stage in reduce-scatter; loop test.  *)
Sum(r) ==
  /\ At(r, "sum")
  /\ LET c == recv_chunk(r, s[r])
     IN  buf' = IF Scatter(s[r])
                THEN [buf EXCEPT ![r][c] =
                        [u \in Piece |-> buf[r][c][u] \o stage[r][u]]]
                ELSE buf
  /\ IF s[r] + 1 < Steps
     THEN s' = [s EXCEPT ![r] = @ + 1] /\ Goto(r, FirstOp(r))
     ELSE s' = s /\ Goto(r, AfterRing(call[r]))
  /\ UNCHANGED <<call, moved, stage, stream, open, room>>

CheckPasses(r) == \A c \in Chunks, u \in Piece : AsExpected(buf[r][c][u])

Check(r) ==
  /\ At(r, "check")
  /\ Goto(r, IF ~CheckPasses(r) THEN "failed"
             ELSE IF call[r] = 0 THEN "reset" ELSE "done")
  /\ UNCHANGED <<call, s, moved, buf, stage, stream, open, room>>

\* Mutant: the timed loop has no barrier.
Reset_NoBarrier(r) ==
  /\ At(r, "reset")
  /\ call' = [call EXCEPT ![r] = @ + 1]
  /\ buf' = [buf EXCEPT ![r] = [c \in Chunks |-> [u \in Piece |-> Own(r, call[r] + 1)]]]
  /\ Goto(r, "start")
  /\ UNCHANGED <<s, moved, stage, stream, open, room>>

Reset(r) ==
  /\ At(r, "reset")
  /\ call' = [call EXCEPT ![r] = @ + 1]
  /\ buf' = [buf EXCEPT ![r] = [c \in Chunks |-> [u \in Piece |-> Own(r, call[r] + 1)]]]
  /\ Goto(r, IF SendsFirst(r) THEN "bsend" ELSE "brecv")
  /\ UNCHANGED <<s, moved, stage, stream, open, room>>

Fail(r) ==
  /\ r \in Faulty /\ ~Ended(r)
  /\ Goto(r, "failed")
  /\ UNCHANGED <<call, s, moved, buf, stage, stream, open, room>>

(* ~TcpTransport closes the sockets.  What r sent stays readable; what it   *)
(* had not read is lost with it.                                            *)
Close(r) ==
  /\ Ended(r) /\ open[r]
  /\ open' = [open EXCEPT ![r] = FALSE]
  /\ stream' = [stream EXCEPT ![Left(r)] = << >>]
  /\ UNCHANGED <<pc, call, s, moved, buf, stage, room>>

Thread(r) ==
  \/ Start(r) \/ SendPiece(r) \/ RecvPiece(r) \/ SendFails(r) \/ RecvFails(r)
  \/ Sum(r) \/ Check(r) \/ Reset(r) \/ Close(r)

AllGone == (\A r \in Ranks : Ended(r) /\ ~open[r]) /\ UNCHANGED vars

Next == (\E r \in Ranks : Thread(r) \/ Fail(r)) \/ AllGone

Spec == Init /\ [][Next]_vars

(* The scheduler runs every thread that is not blocked in the kernel. *)
FairSpec == Spec /\ \A r \in Ranks : WF_vars(Thread(r))

-----------------------------------------------------------------------------
(***************************************************************************)
(* Properties                                                               *)
(***************************************************************************)

(* The stream carries no boundaries: what a rank reads next is the very     *)
(* piece, of the very chunk, its step expects, however far the left         *)
(* neighbour has run ahead and across calls and barriers.                   *)
FramesAligned ==
  \A r \in Ranks : pc[r] \in RecvPCs /\ stream[Left(r)] # << >>
    => Head(stream[Left(r)])[1] =
         IF At(r, "recv") THEN <<"chunk", recv_chunk(r, s[r]), moved[r] + 1>>
                          ELSE <<"barrier", 0, 1>>

(* world_barrier on TCP: a rank that has left the barrier of call k knows   *)
(* that its left neighbour has arrived at it.  Of the right one it knows    *)
(* nothing, its own byte may still sit in a socket buffer; on RDMA it does  *)
(* (BarrierNeighbours of RingPosted).                                       *)
PastBarrier(r) ==
  call[r] > 0 /\ pc[r] \in {"start", "send", "recv", "sum", "check", "reset", "done"}

BarrierLeft ==
  \A r \in Ranks : PastBarrier(r)
    => call[Left(r)] >= call[r]

(* Nobody fails unless a faulty rank did: on TCP a rank that exits first    *)
(* leaves its data readable behind it, so there is no teardown race.        *)
FailureHasCause ==
  (\E r \in Ranks : At(r, "failed")) => \E q \in Faulty : At(q, "failed")

(* Every rank comes to an end, also when one of them stops half-way: the    *)
(* parity of the ranks prevents a cycle of full or empty streams, and a     *)
(* lost rank cascades through the closed connections.                       *)
Termination == <>[](\A r \in Ranks : Ended(r))

-----------------------------------------------------------------------------
(* The refinement mapping to AllReduce: a chunk is a value when its pieces  *)
(* agree, and torn otherwise.                                               *)
Whole(pieces) == IF \A u \in Piece : pieces[u] = pieces[1] THEN pieces[1] ELSE << >>

AbsState ==
  [r \in Ranks |->
     CASE pc[r] \in {"start", "bsend", "brecv"} -> "ready"
       [] pc[r] \in {"send", "recv", "sum"}     -> "in"
       [] pc[r] \in {"check", "reset"}          -> "out"
       [] OTHER                                 -> pc[r]]

AbsResult ==
  [r \in Ranks |-> IF AbsState[r] \in {"out", "done"}
                   THEN [c \in Chunks |-> Whole(buf[r][c])]
                   ELSE [c \in Chunks |-> << >>]]

Abstract == INSTANCE AllReduce WITH st <- AbsState, result <- AbsResult

(* ring_blocking implements the abstract all-reduce: full sums on every     *)
(* return, the same on every rank in summation order, after every rank has  *)
(* entered; and a rank gives up only when another left.                     *)
ImplementsAllReduce == Abstract!Spec
=============================================================================
