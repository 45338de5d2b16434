----------------------------- MODULE RingPosted -----------------------------
(***************************************************************************)
(* Ring all-reduce over RDMA as phase3_collective/bench/allreduce_bench.cpp *)
(* drives it: ring_posted (ring_allreduce.cpp), world_barrier (world.cpp)   *)
(* and, below them, the post and poll calls of RdmaTransport and rdma_ops.c *)
(* together with the NIC they talk to.                                      *)
(*                                                                          *)
(* Every rank has one CPU thread and two connected queue pairs.  Its left   *)
(* transport only receives, its right transport only sends, so the receive  *)
(* queue rq and the receive completions rcq belong to left, the send queue  *)
(* sq and the send completions scq to right.  The NIC runs beside the CPU:  *)
(* it reads the source of a send some time after the post, again after      *)
(* every RNR NAK, writes a received payload into the buffer of the oldest   *)
(* posted receive, and completes a send when the ACK comes back, which may  *)
(* be before or after the receiver's memory has been written.               *)
(***************************************************************************)
EXTENDS RingChunks

CONSTANTS Iters,    \* total_iters of the timed loop: calls 1..Iters follow call 0
          Faulty    \* the ranks whose process may stop or whose posts may fail

ASSUME ItersAssumption  == Iters \in Nat /\ Iters >= 1
ASSUME FaultyAssumption == Faulty \subseteq Ranks

VARIABLES pc,       \* pc[r]: the next statement of r's thread
          call,     \* call[r]: which ring_allreduce call r is in
          s,        \* s[r]: the loop variable of ring_posted
          mem,      \* mem[r][l]: registered memory of r
          up,       \* up[r]: the queue pairs of r exist
          rq,       \* rq[r]: destinations of posted receives, oldest first
          landing,  \* landing[r]: accepted by r's NIC, not yet in memory
          rcq,      \* rcq[r]: receive completions not yet polled
          sq,       \* sq[r]: sources of posted sends the peer has not accepted
          wire,     \* wire[r]: the payload r's NIC has read and is sending
          unacked,  \* unacked[r]: accepted by the peer, ACK still under way
          scq,      \* scq[r]: successful send completions not yet polled
          scerr     \* scerr[r]: failed send completions not yet polled

vars == <<pc, call, s, mem, up, rq, landing, rcq, sq, wire, unacked, scq, scerr>>

-----------------------------------------------------------------------------
(* Registered memory: the chunks of buf, the two halves of stage, and the   *)
(* byte world_barrier trades.                                               *)
Buf(c)   == <<"buf", c>>
Stage(h) == <<"stage", h>>
Scratch  == <<"scratch", 0>>

Loc == ({"buf"} \X Chunks) \cup ({"stage"} \X {0, 1}) \cup {Scratch}

(* The order of the statements: one call of ring_posted, then main's        *)
(* correctness check or the reset and the barrier of the timed loop.        *)
RingPCs    == {"send", "pollr", "arm", "polls", "sum"}
BarrierPCs == {"brecv", "bsend", "bpollr", "bpolls"}
PCs == RingPCs \cup BarrierPCs \cup {"post", "check", "reset", "done", "failed"}

Ended(r) == pc[r] \in {"done", "failed"}

ThreadType ==
  /\ pc \in [Ranks -> PCs]
  /\ call \in [Ranks -> 0..Iters]
  /\ s \in [Ranks -> 0..(Steps - 1)]

MemType ==
  /\ mem \in [Ranks -> [Loc -> Value]]
  /\ up \in [Ranks -> BOOLEAN]

RecvType ==
  /\ rq \in [Ranks -> Seq(Loc)]
  /\ landing \in [Ranks -> Seq(Loc \X Value)]
  /\ rcq \in [Ranks -> Nat]

SendType ==
  /\ sq \in [Ranks -> Seq(Loc)]
  /\ wire \in [Ranks -> Seq(Loc \X Value)]

AckType ==
  /\ unacked \in [Ranks -> Nat]
  /\ scq \in [Ranks -> Nat]
  /\ scerr \in [Ranks -> Nat]

TypeOK == ThreadType /\ MemType /\ RecvType /\ SendType /\ AckType

Loaded(r, k) == [l \in Loc |-> IF l[1] = "buf" THEN Own(r, k) ELSE Garbage]

Init ==
  /\ pc = [r \in Ranks |-> "post"]
  /\ call = [r \in Ranks |-> 0]
  /\ s = [r \in Ranks |-> 0]
  /\ mem = [r \in Ranks |-> Loaded(r, 0)]
  /\ up = [r \in Ranks |-> TRUE]
  /\ rq = [r \in Ranks |-> << >>]
  /\ landing = [r \in Ranks |-> << >>]
  /\ rcq = [r \in Ranks |-> 0]
  /\ sq = [r \in Ranks |-> << >>]
  /\ wire = [r \in Ranks |-> << >>]
  /\ unacked = [r \in Ranks |-> 0]
  /\ scq = [r \in Ranks |-> 0]
  /\ scerr = [r \in Ranks |-> 0]

-----------------------------------------------------------------------------
(* Statements of the rank's thread.                                         *)

At(r, label)   == pc[r] = label
Goto(r, label) == pc' = [pc EXCEPT ![r] = label]

recv_async(r, loc) ==
  rq' = [rq EXCEPT ![r] = Append(@, loc)]

send_async(r, loc) ==
  sq' = [sq EXCEPT ![r] = Append(@, loc)]

\* Mutant: one staging chunk instead of two halves.
RecvTarget_OneHalf(r, step) ==
  IF Scatter(step) THEN Stage(0) ELSE Buf(recv_chunk(r, step))

(* post_recv(step): stage half in reduce-scatter, the chunk itself after.   *)
RecvTarget(r, step) ==
  IF Scatter(step) THEN Stage(step % 2) ELSE Buf(recv_chunk(r, step))

\* Mutant: an empty completion queue is taken for a completion.
poll_left_NoWait(r) ==
  rcq' = [rcq EXCEPT ![r] = IF @ > 0 THEN @ - 1 ELSE 0]

(* left->poll: spins on the completion queue until a receive completes.     *)
poll_left(r) ==
  /\ rcq[r] > 0
  /\ rcq' = [rcq EXCEPT ![r] = @ - 1]

(* right->poll when the completion carries IBV_WC_SUCCESS. *)
poll_right(r) ==
  /\ scq[r] > 0
  /\ scq' = [scq EXCEPT ![r] = @ - 1]

PostFirst(r) ==
  /\ At(r, "post")
  /\ recv_async(r, RecvTarget(r, 0))
  /\ s' = [s EXCEPT ![r] = 0]
  /\ Goto(r, "send")
  /\ UNCHANGED <<call, mem, up, landing, rcq, sq, wire, unacked, scq, scerr>>

Send(r) ==
  /\ At(r, "send")
  /\ send_async(r, Buf(send_chunk(r, s[r])))
  /\ Goto(r, "pollr")
  /\ UNCHANGED <<call, s, mem, up, rq, landing, rcq, wire, unacked, scq, scerr>>

PollRecv(r) ==
  /\ At(r, "pollr")
  /\ poll_left(r)
  /\ Goto(r, "arm")
  /\ UNCHANGED <<call, s, mem, up, rq, landing, sq, wire, unacked, scq, scerr>>

\* Mutant: the loop bound is forgotten and a receive is left over.
ArmNext_Unbounded(r) ==
  /\ At(r, "arm")
  /\ recv_async(r, RecvTarget(r, s[r] + 1))
  /\ Goto(r, "polls")
  /\ UNCHANGED <<call, s, mem, up, landing, rcq, sq, wire, unacked, scq, scerr>>

\* Mutant: the next receive is not armed before the sum.
ArmNext_Skipped(r) ==
  /\ At(r, "arm")
  /\ Goto(r, "polls")
  /\ UNCHANGED <<call, s, mem, up, rq, landing, rcq, sq, wire, unacked, scq, scerr>>

(* The receive of the next step goes up before the sum of this one. *)
ArmNext(r) ==
  /\ At(r, "arm")
  /\ IF s[r] + 1 < Steps THEN recv_async(r, RecvTarget(r, s[r] + 1))
                         ELSE UNCHANGED rq
  /\ Goto(r, "polls")
  /\ UNCHANGED <<call, s, mem, up, landing, rcq, sq, wire, unacked, scq, scerr>>

PollSend(r) ==
  /\ At(r, "polls")
  /\ poll_right(r)
  /\ Goto(r, "sum")
  /\ UNCHANGED <<call, s, mem, up, rq, landing, rcq, sq, wire, unacked, scerr>>

(* Where main goes when ring_allreduce returns 0: the check after call 0,   *)
(* the next iteration of the timed loop, the check after the last one.      *)
AfterRing(k) == IF k = 0 \/ k = Iters THEN "check" ELSE "reset"

\* Mutant: the sum reads the half the next receive is armed on.
Sum_WrongHalf(r) ==
  /\ At(r, "sum")
  /\ LET dst == Buf(recv_chunk(r, s[r]))
         src == Stage((s[r] + 1) % 2)
     IN  mem' = IF Scatter(s[r])
                THEN [mem EXCEPT ![r][dst] = mem[r][dst] \o mem[r][src]]
                ELSE mem
  /\ IF s[r] + 1 < Steps
     THEN s' = [s EXCEPT ![r] = @ + 1] /\ Goto(r, "send")
     ELSE s' = s /\ Goto(r, AfterRing(call[r]))
  /\ UNCHANGED <<call, up, rq, landing, rcq, sq, wire, unacked, scq, scerr>>

\* Mutant: the loop runs one step too far.
Sum_OneStepMore(r) ==
  /\ At(r, "sum")
  /\ UNCHANGED mem
  /\ IF s[r] < Steps
     THEN s' = [s EXCEPT ![r] = @ + 1] /\ Goto(r, "send")
     ELSE s' = s /\ Goto(r, AfterRing(call[r]))
  /\ UNCHANGED <<call, up, rq, landing, rcq, sq, wire, unacked, scq, scerr>>

(* dst += src in reduce-scatter, then the loop test of ring_posted. *)
Sum(r) ==
  /\ At(r, "sum")
  /\ LET dst == Buf(recv_chunk(r, s[r]))
         src == Stage(s[r] % 2)
     IN  mem' = IF Scatter(s[r])
                THEN [mem EXCEPT ![r][dst] = mem[r][dst] \o mem[r][src]]
                ELSE mem
  /\ IF s[r] + 1 < Steps
     THEN s' = [s EXCEPT ![r] = @ + 1] /\ Goto(r, "send")
     ELSE s' = s /\ Goto(r, AfterRing(call[r]))
  /\ UNCHANGED <<call, up, rq, landing, rcq, sq, wire, unacked, scq, scerr>>

(* The correctness check before and after the timed loop. *)
CheckPasses(r) == \A c \in Chunks : AsExpected(mem[r][Buf(c)])

Check(r) ==
  /\ At(r, "check")
  /\ Goto(r, IF ~CheckPasses(r) THEN "failed"
             ELSE IF call[r] = 0 THEN "reset" ELSE "done")
  /\ UNCHANGED <<call, s, mem, up, rq, landing, rcq, sq, wire, unacked, scq, scerr>>

(* The next iteration: buf[k] = rank + 1 for every k. *)
Reset(r) ==
  /\ At(r, "reset")
  /\ call' = [call EXCEPT ![r] = @ + 1]
  /\ mem' = [mem EXCEPT ![r] =
               [l \in Loc |-> IF l[1] = "buf" THEN Own(r, call[r] + 1)
                                              ELSE mem[r][l]]]
  /\ Goto(r, "brecv")
  /\ UNCHANGED <<s, up, rq, landing, rcq, sq, wire, unacked, scq, scerr>>

(* world_barrier, the branch of a backend whose receives only post. *)
BarrierRecv(r) ==
  /\ At(r, "brecv")
  /\ recv_async(r, Scratch)
  /\ Goto(r, "bsend")
  /\ UNCHANGED <<call, s, mem, up, landing, rcq, sq, wire, unacked, scq, scerr>>

BarrierSend(r) ==
  /\ At(r, "bsend")
  /\ send_async(r, Scratch)
  /\ Goto(r, "bpollr")
  /\ UNCHANGED <<call, s, mem, up, rq, landing, rcq, wire, unacked, scq, scerr>>

BarrierPollRecv(r) ==
  /\ At(r, "bpollr")
  /\ poll_left(r)
  /\ Goto(r, "bpolls")
  /\ UNCHANGED <<call, s, mem, up, rq, landing, sq, wire, unacked, scq, scerr>>

\* Mutant: the barrier returns without polling the send.
BarrierPollSend_NoPoll(r) ==
  /\ At(r, "bpolls")
  /\ Goto(r, "post")
  /\ UNCHANGED <<call, s, mem, up, rq, landing, rcq, sq, wire, unacked, scq, scerr>>

BarrierPollSend(r) ==
  /\ At(r, "bpolls")
  /\ poll_right(r)
  /\ Goto(r, "post")
  /\ UNCHANGED <<call, s, mem, up, rq, landing, rcq, sq, wire, unacked, scerr>>

\* Mutant: a failed completion is swallowed and the poll goes on.
PollSendError_Ignored(r) ==
  /\ pc[r] \in {"polls", "bpolls"}
  /\ scerr[r] > 0
  /\ scerr' = [scerr EXCEPT ![r] = @ - 1]
  /\ UNCHANGED <<pc, call, s, mem, up, rq, landing, rcq, sq, wire, unacked, scq>>

(* poll_cq returns -1 on a completion that is not IBV_WC_SUCCESS; ring_posted, *)
(* world_barrier and main pass it on and the process exits.                 *)
PollSendError(r) ==
  /\ pc[r] \in {"polls", "bpolls"}
  /\ scerr[r] > 0
  /\ scerr' = [scerr EXCEPT ![r] = @ - 1]
  /\ Goto(r, "failed")
  /\ UNCHANGED <<call, s, mem, up, rq, landing, rcq, sq, wire, unacked, scq>>

(* A post that fails, a signal, a power cut: the thread gets no further.    *)
Fail(r) ==
  /\ r \in Faulty
  /\ ~Ended(r)
  /\ Goto(r, "failed")
  /\ UNCHANGED <<call, s, mem, up, rq, landing, rcq, sq, wire, unacked, scq, scerr>>

(* main returns: ~RdmaTransport closes both transports, rai_qp_destroy      *)
(* takes the queue pairs away and what they had under way with them.        *)
Teardown(r) ==
  /\ Ended(r) /\ up[r]
  /\ up' = [up EXCEPT ![r] = FALSE]
  /\ rq' = [rq EXCEPT ![r] = << >>]
  /\ landing' = [landing EXCEPT ![r] = << >>]
  /\ rcq' = [rcq EXCEPT ![r] = 0]
  /\ sq' = [sq EXCEPT ![r] = << >>]
  /\ wire' = [wire EXCEPT ![r] = << >>]
  /\ unacked' = [unacked EXCEPT ![r] = 0]
  /\ scq' = [scq EXCEPT ![r] = 0]
  /\ scerr' = [scerr EXCEPT ![r] = 0]
  /\ UNCHANGED <<pc, call, s, mem>>

-----------------------------------------------------------------------------
(* The NIC: reliable connected service between r and Right(r).              *)

(* r's NIC reads the payload of the oldest posted send. *)
Fetch(r) ==
  /\ sq[r] # << >> /\ wire[r] = << >>
  /\ wire' = [wire EXCEPT ![r] = << <<Head(sq[r]), mem[r][Head(sq[r])]>> >>]
  /\ UNCHANGED <<pc, call, s, mem, up, rq, landing, rcq, sq, unacked, scq, scerr>>

(* The peer has a receive posted: the message takes the oldest one. *)
Accept(r) ==
  LET q == Right(r) IN
  /\ wire[r] # << >> /\ up[q] /\ rq[q] # << >>
  /\ landing' = [landing EXCEPT ![q] = Append(@, <<Head(rq[q]), Head(wire[r])[2]>>)]
  /\ rq' = [rq EXCEPT ![q] = Tail(@)]
  /\ wire' = [wire EXCEPT ![r] = << >>]
  /\ sq' = [sq EXCEPT ![r] = Tail(@)]
  /\ unacked' = [unacked EXCEPT ![r] = @ + 1]
  /\ UNCHANGED <<pc, call, s, mem, up, rcq, scq, scerr>>

\* Mutant: rnr_retry = 0, a refused send fails at once.
RnrNak_Fails(r) ==
  /\ wire[r] # << >> /\ up[Right(r)] /\ rq[Right(r)] = << >>
  /\ wire' = [wire EXCEPT ![r] = << >>]
  /\ sq' = [sq EXCEPT ![r] = Tail(@)]
  /\ scerr' = [scerr EXCEPT ![r] = @ + 1]
  /\ UNCHANGED <<pc, call, s, mem, up, rq, landing, rcq, unacked, scq>>

(* It has none: RNR NAK, and the send is tried again from memory after      *)
(* min_rnr_timer; rnr_retry = 7 sets no limit to the number of tries.       *)
RnrNak(r) ==
  /\ wire[r] # << >> /\ up[Right(r)] /\ rq[Right(r)] = << >>
  /\ wire' = [wire EXCEPT ![r] = << >>]
  /\ UNCHANGED <<pc, call, s, mem, up, rq, landing, rcq, sq, unacked, scq, scerr>>

(* r's NIC writes an accepted payload and completes the receive. *)
Place(r) ==
  /\ landing[r] # << >>
  /\ mem' = [mem EXCEPT ![r][Head(landing[r])[1]] = Head(landing[r])[2]]
  /\ landing' = [landing EXCEPT ![r] = Tail(@)]
  /\ rcq' = [rcq EXCEPT ![r] = @ + 1]
  /\ UNCHANGED <<pc, call, s, up, rq, sq, wire, unacked, scq, scerr>>

Ack(r) ==
  /\ unacked[r] > 0 /\ up[Right(r)]
  /\ unacked' = [unacked EXCEPT ![r] = @ - 1]
  /\ scq' = [scq EXCEPT ![r] = @ + 1]
  /\ UNCHANGED <<pc, call, s, mem, up, rq, landing, rcq, sq, wire, scerr>>

\* Mutant: a send whose ACK is lost never completes.
RetryExceeded_OnlyUnsent(r) ==
  /\ ~up[Right(r)]
  /\ unacked[r] = 0 /\ wire[r] # << >>
  /\ sq' = [sq EXCEPT ![r] = Tail(@)]
  /\ wire' = [wire EXCEPT ![r] = << >>]
  /\ scerr' = [scerr EXCEPT ![r] = @ + 1]
  /\ UNCHANGED <<pc, call, s, mem, up, rq, landing, rcq, unacked, scq>>

(* Nobody answers any more: retry_cnt runs out and the send fails, whether  *)
(* the payload had arrived or only its ACK was missing.                     *)
RetryExceeded(r) ==
  /\ ~up[Right(r)]
  /\ \/ /\ unacked[r] > 0
        /\ unacked' = [unacked EXCEPT ![r] = @ - 1]
        /\ UNCHANGED <<sq, wire>>
     \/ /\ unacked[r] = 0 /\ wire[r] # << >>
        /\ sq' = [sq EXCEPT ![r] = Tail(@)]
        /\ wire' = [wire EXCEPT ![r] = << >>]
        /\ UNCHANGED unacked
  /\ scerr' = [scerr EXCEPT ![r] = @ + 1]
  /\ UNCHANGED <<pc, call, s, mem, up, rq, landing, rcq, scq>>

-----------------------------------------------------------------------------
Thread(r) ==
  \/ PostFirst(r) \/ Send(r) \/ PollRecv(r) \/ ArmNext(r) \/ PollSend(r) \/ Sum(r)
  \/ Check(r) \/ Reset(r) \/ BarrierRecv(r) \/ BarrierSend(r)
  \/ BarrierPollRecv(r) \/ BarrierPollSend(r) \/ PollSendError(r) \/ Teardown(r)

NicStep(r) ==
  Fetch(r) \/ Accept(r) \/ RnrNak(r) \/ Place(r) \/ Ack(r) \/ RetryExceeded(r)

AllGone == (\A r \in Ranks : Ended(r) /\ ~up[r]) /\ UNCHANGED vars

Next == (\E r \in Ranks : Thread(r) \/ Fail(r) \/ NicStep(r)) \/ AllGone

Spec == Init /\ [][Next]_vars

(* The thread runs when it can (the polls spin) and the NIC makes progress  *)
(* on every queue; nothing is assumed of Fail or of RnrNak.                 *)
Fairness ==
  \A r \in Ranks :
    /\ WF_vars(Thread(r))
    /\ WF_vars(Fetch(r)) /\ WF_vars(Accept(r)) /\ WF_vars(Place(r))
    /\ WF_vars(Ack(r)) /\ WF_vars(RetryExceeded(r))

FairSpec == Spec /\ Fairness
-----------------------------------------------------------------------------
(***************************************************************************)
(* Properties                                                               *)
(***************************************************************************)

(* Memory of r the NIC may write at any moment, and memory it may still     *)
(* have to read: an unaccepted send is read again after an RNR NAK.         *)
NicWrites(r) == ToSet(rq[r]) \cup {landing[r][i][1] : i \in 1..Len(landing[r])}
NicReads(r)  == ToSet(sq[r])

(* What the next statement of r's thread reads and writes. *)
BufLocs == {Buf(c) : c \in Chunks}

CpuReads(r) ==
  CASE At(r, "sum") /\ Scatter(s[r]) -> {Stage(s[r] % 2), Buf(recv_chunk(r, s[r]))}
    [] At(r, "check")                -> BufLocs
    [] OTHER                         -> {}

CpuWrites(r) ==
  CASE At(r, "sum") /\ Scatter(s[r]) -> {Buf(recv_chunk(r, s[r]))}
    [] At(r, "reset")                -> BufLocs
    [] OTHER                         -> {}

(* What r's queues hold, by where its thread is.  A receive is outstanding  *)
(* from its post to its poll, and there is one in all from "send" to        *)
(* "pollr", the next one from "arm" on; the same for the send.              *)
RecvDue(r) ==
  IF \/ pc[r] \in {"send", "pollr", "bsend", "bpollr"}
     \/ pc[r] \in {"polls", "sum"} /\ s[r] + 1 < Steps
  THEN 1 ELSE 0

RecvLoc(r) ==
  IF pc[r] \in BarrierPCs THEN Scratch
  ELSE IF pc[r] \in {"polls", "sum"} THEN RecvTarget(r, s[r] + 1)
  ELSE RecvTarget(r, s[r])

SendDue(r) == IF pc[r] \in {"pollr", "arm", "polls", "bpollr", "bpolls"} THEN 1 ELSE 0

SendLoc(r) ==
  IF pc[r] \in BarrierPCs THEN Scratch ELSE Buf(send_chunk(r, s[r]))

RecvFlow(r) ==
  pc[r] # "failed" =>
    /\ rcq[r] + Len(rq[r]) + Len(landing[r]) = RecvDue(r)
    /\ \A i \in 1..Len(rq[r]) : rq[r][i] = RecvLoc(r)
    /\ \A i \in 1..Len(landing[r]) : landing[r][i][1] = RecvLoc(r)

SendFlow(r) ==
  /\ wire[r] # << >> => sq[r] # << >>
  /\ pc[r] # "failed" =>
       /\ unacked[r] + scq[r] + scerr[r] + Len(sq[r]) = SendDue(r)
       /\ \A i \in 1..Len(sq[r]) : sq[r][i] = SendLoc(r)

(* Queue discipline of the thread: never more than one receive and one send *)
(* outstanding, each for the step the thread is in (or about to be in), and *)
(* none left over from call to barrier to call although poll() ignores      *)
(* which work request completed.                                            *)
QueueDiscipline ==
  \A r \in Ranks : RecvFlow(r) /\ SendFlow(r) /\ (~up[r] => Ended(r))

(* The sum, the reset and the correctness check never touch memory a posted *)
(* receive may overwrite, and never write memory a send still reads: the    *)
(* two halves of stage and the order of the polls in ring_posted.           *)
NoDmaRace ==
  \A r \in Ranks :
    /\ NicWrites(r) \cap (CpuReads(r) \cup CpuWrites(r)) = {}
    /\ NicReads(r) \cap CpuWrites(r) = {}

(* The NIC never writes a chunk it is still sending.  With two ranks the    *)
(* receive of step 1 is armed on the very chunk step 0 sends, possibly      *)
(* while that send is under way: only the order of the peer's own polls     *)
(* keeps the data from arriving early.                                      *)
NoNicOverlap ==
  \A r \in Ranks : \A i \in 1..Len(landing[r]) :
    landing[r][i][1] # Scratch => landing[r][i][1] \notin ToSet(sq[r])

(* The receive a message takes is the one posted for it: a barrier byte     *)
(* never meets a chunk-sized receive nor a chunk the barrier's one byte,    *)
(* although ranks run ahead of each other from call to barrier to call.     *)
MessagesMeetTheirReceives ==
  \A r \in Ranks :
    wire[r] # << >> /\ rq[Right(r)] # << >>
      => (Head(wire[r])[1] = Scratch) = (Head(rq[Right(r)]) = Scratch)

(* world_barrier: a rank that has left the barrier of call k knows that     *)
(* both neighbours have arrived at it (collective.hpp: "it only establishes *)
(* that the two neighbours have arrived").                                  *)
Arrived(q, k) == call[q] > k \/ (call[q] = k /\ pc[q] # "brecv")

BarrierNeighbours ==
  \A r \in Ranks : call[r] > 0 /\ pc[r] \in RingPCs \cup {"post", "check", "reset", "done"}
    => Arrived(Left(r), call[r]) /\ Arrived(Right(r), call[r])

(* While a rank is summing, its left neighbour's next chunk finds a receive *)
(* posted: no RNR NAK and no min_rnr_timer inside the sum.  This is the     *)
(* point of arming early, and it is absolute for two ranks only: in a       *)
(* larger ring a neighbour can be two steps ahead.                          *)
NoRnrWhileSumming ==
  [][\A r \in Ranks : RnrNak(r) => ~(At(Right(r), "sum") /\ Scatter(s[Right(r)]))]_vars

(* Unless a faulty rank failed, the only way to fail is the teardown race:  *)
(* main has no barrier after the last call, so a rank may exit before the   *)
(* ACK of its left neighbour's last send; that neighbour then fails with    *)
(* its data already complete.                                               *)
OnlyTeardownFails ==
  (\A q \in Faulty : pc[q] # "failed") =>
    \A r \in Ranks : pc[r] = "failed"
      => /\ call[r] = Iters /\ s[r] = Steps - 1
         /\ \A c \in Chunks : IsSum(mem[r][Buf(c)], Iters)

(* Unless a faulty rank fails, every rank comes to an end: no rank waits    *)
(* for a message or an acknowledgement that never comes.                    *)
Termination ==
  <>((\A r \in Ranks : Ended(r)) \/ (\E q \in Faulty : pc[q] = "failed"))

(* With faults a rank that polls for a send to a neighbour that is gone     *)
(* does not spin for ever: it completes or it fails.                        *)
SenderNoticesLoss ==
  \A r \in Ranks : (pc[r] \in {"polls", "bpolls"} /\ ~up[Right(r)])
                     ~> pc[r] \notin {"polls", "bpolls"}

-----------------------------------------------------------------------------
(* The refinement mapping to AllReduce.                                     *)
AbsState ==
  [r \in Ranks |->
     CASE pc[r] \in BarrierPCs \cup {"post"} -> "ready"
       [] pc[r] \in RingPCs                  -> "in"
       [] pc[r] \in {"check", "reset"}       -> "out"
       [] OTHER                              -> pc[r]]

AbsResult ==
  [r \in Ranks |-> IF AbsState[r] \in {"out", "done"}
                   THEN [c \in Chunks |-> mem[r][Buf(c)]]
                   ELSE [c \in Chunks |-> << >>]]

Abstract == INSTANCE AllReduce WITH st <- AbsState, result <- AbsResult

(* ring_posted implements the abstract all-reduce: every return delivers    *)
(* the full sums, the same on every rank in summation order, after every    *)
(* rank has entered the call; and a rank gives up only when another left.   *)
ImplementsAllReduce == Abstract!Spec
=============================================================================
