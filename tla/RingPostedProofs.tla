-------------------------- MODULE RingPostedProofs --------------------------
(***************************************************************************)
(* Theorems about RingPosted that hold for every ring size, every number of *)
(* iterations and every set of ranks that may fail.                         *)
(***************************************************************************)
EXTENDS RingPosted, RingSums

(* Positions in the ring: the right neighbour is a rank, and another one.   *)
LEMMA RightType ==
  ASSUME NEW r \in Ranks
  PROVE  Right(r) \in Ranks /\ Right(r) # r
  BY NAssumption DEF Right, Ranks

(* The chunk of every step is a chunk of the buffer. *)
LEMMA ChunkType ==
  ASSUME NEW r \in Ranks, NEW t \in 0..Steps
  PROVE  send_chunk(r, t) \in Chunks /\ recv_chunk(r, t) \in Chunks
  BY NAssumption DEF send_chunk, recv_chunk, Scatter, Ranks, Chunks, Steps

(* A call of ring_posted has at least two steps, since there are two ranks. *)
LEMMA StepsType == Steps \in Nat /\ Steps >= 2
  BY NAssumption DEF Steps

(* Every receive post_recv can post names registered memory. *)
LEMMA TargetType ==
  ASSUME NEW r \in Ranks, NEW t \in 0..Steps
  PROVE  RecvTarget(r, t) \in Loc
<1>1. CASE Scatter(t)
  <2>1. t % 2 \in {0, 1}
    BY StepsType
  <2> QED BY <1>1, <2>1 DEF RecvTarget, Loc, Stage
<1>2. CASE ~Scatter(t)
  BY <1>2, ChunkType DEF RecvTarget, Loc, Buf
<1> QED BY <1>1, <1>2

(* The barrier's byte is registered memory. *)
LEMMA ScratchType == Scratch \in Loc
  BY DEF Loc

(* What a rank contributes, what memory holds at first and a sum of two values are values. *)
LEMMA ValueTypes ==
  /\ Garbage \in Value
  /\ \A r \in Ranks, k \in Nat : Own(r, k) \in Value
  /\ \A v, w \in Value : v \o w \in Value
<1>1. Garbage \in Value
  BY NAssumption DEF Garbage, Value, Contribution
<1>2. \A r \in Ranks, k \in Nat : Own(r, k) \in Value
  BY NAssumption DEF Own, Value, Contribution, Ranks
<1>3. \A v, w \in Value : v \o w \in Value
  BY DEF Value
<1> QED BY <1>1, <1>2, <1>3

(* What typing rests on besides itself: a payload is on the wire only while *)
(* its send is still posted, and main resets only for an iteration to come. *)
WireHasSend == \A r \in Ranks : wire[r] # << >> => sq[r] # << >>
ResetBound  == \A r \in Ranks : pc[r] = "reset" => call[r] < Iters

(* The initial state, before the first ring_allreduce, is well typed. *)
LEMMA TypeInit == Init => TypeOK
<1> SUFFICES ASSUME Init PROVE TypeOK
  OBVIOUS
<1>1. MemType
  BY ValueTypes DEF Init, Loaded, MemType
<1>2. ThreadType
  BY StepsType, ItersAssumption DEF Init, ThreadType, PCs
<1>3. RecvType /\ SendType /\ AckType
  BY DEF Init, RecvType, SendType, AckType
<1> QED BY <1>1, <1>2, <1>3 DEF TypeOK

(* Every statement of ring_posted, world_barrier and main keeps the types. *)
LEMMA TypeThread ==
  ASSUME TypeOK, ResetBound, NEW r \in Ranks, Thread(r) \/ Fail(r)
  PROVE  TypeOK'
<1>0. ThreadType /\ MemType /\ RecvType /\ SendType /\ AckType
  BY DEF TypeOK
<1>s. s[r] \in 0..(Steps - 1) /\ Steps \in Nat
  BY <1>0, StepsType DEF ThreadType
<1> USE DEF At, Goto
<1>1. CASE PostFirst(r)
  <2>1. RecvTarget(r, 0) \in Loc
    BY TargetType, StepsType
  <2>2. RecvType'
    BY <1>0, <1>1, <2>1 DEF PostFirst, recv_async, RecvType
  <2>3. ThreadType'
    BY <1>0, <1>1, StepsType DEF PostFirst, ThreadType, PCs, RingPCs
  <2>4. MemType' /\ SendType' /\ AckType'
    BY <1>0, <1>1 DEF PostFirst, MemType, SendType, AckType
  <2> QED BY <2>2, <2>3, <2>4 DEF TypeOK
<1>2. CASE Send(r)
  <2>1. Buf(send_chunk(r, s[r])) \in Loc
    BY <1>s, ChunkType DEF Buf, Loc
  <2>2. SendType'
    BY <1>0, <1>2, <2>1 DEF Send, send_async, SendType
  <2>3. ThreadType'
    BY <1>0, <1>2 DEF Send, ThreadType, PCs, RingPCs
  <2>4. MemType' /\ RecvType' /\ AckType'
    BY <1>0, <1>2 DEF Send, MemType, RecvType, AckType
  <2> QED BY <2>2, <2>3, <2>4 DEF TypeOK
<1>3. CASE PollRecv(r)
  <2>1. RecvType'
    BY <1>0, <1>3 DEF PollRecv, poll_left, RecvType
  <2>2. ThreadType'
    BY <1>0, <1>3 DEF PollRecv, ThreadType, PCs, RingPCs
  <2>3. MemType' /\ SendType' /\ AckType'
    BY <1>0, <1>3 DEF PollRecv, MemType, SendType, AckType
  <2> QED BY <2>1, <2>2, <2>3 DEF TypeOK
<1>4. CASE ArmNext(r)
  <2>1. RecvType'
    <3>1. CASE s[r] + 1 < Steps
      <4>1. RecvTarget(r, s[r] + 1) \in Loc
        BY <1>s, <3>1, TargetType
      <4>2. /\ rq' = [rq EXCEPT ![r] = Append(rq[r], RecvTarget(r, s[r] + 1))]
            /\ landing' = landing /\ rcq' = rcq
        BY <1>4, <3>1 DEF ArmNext, recv_async
      <4> QED BY <1>0, <4>1, <4>2 DEF RecvType
    <3>2. CASE ~(s[r] + 1 < Steps)
      BY <1>0, <1>4, <3>2 DEF ArmNext, RecvType
    <3> QED BY <3>1, <3>2
  <2>2. ThreadType'
    BY <1>0, <1>4 DEF ArmNext, ThreadType, PCs, RingPCs
  <2>3. MemType' /\ SendType' /\ AckType'
    BY <1>0, <1>4 DEF ArmNext, MemType, SendType, AckType
  <2> QED BY <2>1, <2>2, <2>3 DEF TypeOK
<1>5. CASE PollSend(r)
  <2>1. AckType'
    BY <1>0, <1>5 DEF PollSend, poll_right, AckType
  <2>2. ThreadType'
    BY <1>0, <1>5 DEF PollSend, ThreadType, PCs, RingPCs
  <2>3. MemType' /\ SendType' /\ RecvType'
    BY <1>0, <1>5 DEF PollSend, MemType, SendType, RecvType
  <2> QED BY <2>1, <2>2, <2>3 DEF TypeOK
<1>6. CASE Sum(r)
  <2>1. MemType'
    <3>1. CASE Scatter(s[r])
      <4> DEFINE dst == Buf(recv_chunk(r, s[r]))
                 src == Stage(s[r] % 2)
      <4>1. dst \in Loc
        BY <1>s, ChunkType DEF Buf, Loc
      <4>2. src \in Loc
        BY <1>s DEF Stage, Loc
      <4>3. mem[r][dst] \o mem[r][src] \in Value
        BY <1>0, <4>1, <4>2, ValueTypes DEF MemType
      <4>4. mem' = [mem EXCEPT ![r][dst] = mem[r][dst] \o mem[r][src]] /\ up' = up
        BY <1>6, <3>1 DEF Sum
      <4> HIDE DEF dst, src
      <4> QED BY <1>0, <4>1, <4>3, <4>4 DEF MemType
    <3>2. CASE ~Scatter(s[r])
      BY <1>0, <1>6, <3>2 DEF Sum, MemType
    <3> QED BY <3>1, <3>2
  <2>2. ThreadType'
    <3>1. CASE s[r] + 1 < Steps
      <4>1. /\ s' = [s EXCEPT ![r] = s[r] + 1] /\ call' = call
            /\ pc' = [pc EXCEPT ![r] = "send"]
        BY <1>6, <3>1 DEF Sum
      <4> QED BY <1>0, <1>s, <3>1, <4>1 DEF ThreadType, PCs, RingPCs
    <3>2. CASE ~(s[r] + 1 < Steps)
      <4>1. AfterRing(call[r]) \in PCs
        BY DEF AfterRing, PCs
      <4> QED BY <1>0, <1>6, <3>2, <4>1 DEF Sum, ThreadType
    <3> QED BY <3>1, <3>2
  <2>3. SendType' /\ RecvType' /\ AckType'
    BY <1>0, <1>6 DEF Sum, SendType, RecvType, AckType
  <2> QED BY <2>1, <2>2, <2>3 DEF TypeOK
<1>7. CASE Check(r)
  <2>1. ThreadType'
    BY <1>0, <1>7 DEF Check, ThreadType, PCs
  <2>2. MemType' /\ SendType' /\ RecvType' /\ AckType'
    BY <1>0, <1>7 DEF Check, MemType, SendType, RecvType, AckType
  <2> QED BY <2>1, <2>2 DEF TypeOK
<1>8. CASE Reset(r)
  <2>1. MemType'
    <3>1. Own(r, call[r] + 1) \in Value
      BY <1>0, ValueTypes, ItersAssumption DEF ThreadType
    <3> QED BY <1>0, <1>8, <3>1 DEF Reset, MemType
  <2>2. ThreadType'
    BY <1>0, <1>8, ItersAssumption DEF Reset, ThreadType, ResetBound, PCs, BarrierPCs
  <2>3. SendType' /\ RecvType' /\ AckType'
    BY <1>0, <1>8 DEF Reset, SendType, RecvType, AckType
  <2> QED BY <2>1, <2>2, <2>3 DEF TypeOK
<1>9. CASE BarrierRecv(r)
  <2>1. RecvType'
    BY <1>0, <1>9 DEF BarrierRecv, recv_async, RecvType, Loc
  <2>2. ThreadType'
    BY <1>0, <1>9 DEF BarrierRecv, ThreadType, PCs, BarrierPCs
  <2>3. MemType' /\ SendType' /\ AckType'
    BY <1>0, <1>9 DEF BarrierRecv, MemType, SendType, AckType
  <2> QED BY <2>1, <2>2, <2>3 DEF TypeOK
<1>10. CASE BarrierSend(r)
  <2>0. Scratch \in Loc
    BY DEF Loc
  <2>1. SendType'
    BY <1>0, <1>10, <2>0 DEF BarrierSend, send_async, SendType
  <2>2. ThreadType'
    BY <1>0, <1>10 DEF BarrierSend, ThreadType, PCs, BarrierPCs
  <2>3. MemType' /\ RecvType' /\ AckType'
    BY <1>0, <1>10 DEF BarrierSend, MemType, RecvType, AckType
  <2> QED BY <2>1, <2>2, <2>3 DEF TypeOK
<1>11. CASE BarrierPollRecv(r)
  <2>1. RecvType'
    BY <1>0, <1>11 DEF BarrierPollRecv, poll_left, RecvType
  <2>2. ThreadType'
    BY <1>0, <1>11 DEF BarrierPollRecv, ThreadType, PCs, BarrierPCs
  <2>3. MemType' /\ SendType' /\ AckType'
    BY <1>0, <1>11 DEF BarrierPollRecv, MemType, SendType, AckType
  <2> QED BY <2>1, <2>2, <2>3 DEF TypeOK
<1>12. CASE BarrierPollSend(r)
  <2>1. AckType'
    BY <1>0, <1>12 DEF BarrierPollSend, poll_right, AckType
  <2>2. ThreadType'
    BY <1>0, <1>12 DEF BarrierPollSend, ThreadType, PCs
  <2>3. MemType' /\ SendType' /\ RecvType'
    BY <1>0, <1>12 DEF BarrierPollSend, MemType, SendType, RecvType
  <2> QED BY <2>1, <2>2, <2>3 DEF TypeOK
<1>13. CASE PollSendError(r)
  <2>1. AckType'
    BY <1>0, <1>13 DEF PollSendError, AckType
  <2>2. ThreadType'
    BY <1>0, <1>13 DEF PollSendError, ThreadType, PCs
  <2>3. MemType' /\ SendType' /\ RecvType'
    BY <1>0, <1>13 DEF PollSendError, MemType, SendType, RecvType
  <2> QED BY <2>1, <2>2, <2>3 DEF TypeOK
<1>14. CASE Teardown(r)
  <2>1. RecvType'
    BY <1>0, <1>14 DEF Teardown, RecvType
  <2>2. SendType'
    BY <1>0, <1>14 DEF Teardown, SendType
  <2>3. AckType'
    BY <1>0, <1>14 DEF Teardown, AckType
  <2>4. MemType' /\ ThreadType'
    BY <1>0, <1>14 DEF Teardown, MemType, ThreadType
  <2> QED BY <2>1, <2>2, <2>3, <2>4 DEF TypeOK
<1>15. CASE Fail(r)
  <2>1. ThreadType'
    BY <1>0, <1>15 DEF Fail, ThreadType, PCs
  <2>2. MemType' /\ SendType' /\ RecvType' /\ AckType'
    BY <1>0, <1>15 DEF Fail, MemType, SendType, RecvType, AckType
  <2> QED BY <2>1, <2>2 DEF TypeOK
<1> QED BY <1>1, <1>2, <1>3, <1>4, <1>5, <1>6, <1>7, <1>8, <1>9, <1>10,
           <1>11, <1>12, <1>13, <1>14, <1>15 DEF Thread

(* Every NIC step keeps the types. *)
LEMMA TypeNic ==
  ASSUME TypeOK, WireHasSend, NEW r \in Ranks, NicStep(r)
  PROVE  TypeOK'
<1> DEFINE q == Right(r)
<1>0. ThreadType /\ MemType /\ RecvType /\ SendType /\ AckType
  BY DEF TypeOK
<1>q. q \in Ranks
  BY RightType
<1>w. sq[r] = << >> => wire[r] = << >>
  BY DEF WireHasSend
<1> HIDE DEF q
<1>1. CASE Fetch(r)
  <2>1. Head(sq[r]) \in Loc
    BY <1>0, <1>1 DEF Fetch, SendType
  <2>2. mem[r][Head(sq[r])] \in Value
    BY <1>0, <2>1 DEF MemType
  <2>3. << <<Head(sq[r]), mem[r][Head(sq[r])]>> >> \in Seq(Loc \X Value)
    BY <2>1, <2>2
  <2>4. SendType'
    BY <1>0, <1>1, <2>3 DEF Fetch, SendType
  <2>5. ThreadType' /\ MemType' /\ RecvType' /\ AckType'
    BY <1>0, <1>1 DEF Fetch, ThreadType, MemType, RecvType, AckType
  <2> QED BY <2>4, <2>5 DEF TypeOK
<1>2. CASE Accept(r)
  <2>1. Tail(rq[q]) \in Seq(Loc) /\ Head(rq[q]) \in Loc
    BY <1>0, <1>q, <1>2 DEF Accept, RecvType, q
  <2>2. Head(wire[r])[2] \in Value
    <3>1. Head(wire[r]) \in Loc \X Value
      BY <1>0, <1>2 DEF Accept, SendType
    <3> QED BY <3>1
  <2>3. Append(landing[q], <<Head(rq[q]), Head(wire[r])[2]>>) \in Seq(Loc \X Value)
    BY <1>0, <1>q, <2>1, <2>2 DEF RecvType
  <2>4. RecvType'
    BY <1>0, <1>2, <2>1, <2>3 DEF Accept, RecvType, q
  <2>5. Tail(sq[r]) \in Seq(Loc)
    BY <1>0, <1>2, <1>w DEF Accept, SendType
  <2>6. SendType'
    BY <1>0, <1>2, <2>5 DEF Accept, SendType
  <2>7. AckType'
    BY <1>0, <1>2 DEF Accept, AckType
  <2>8. ThreadType' /\ MemType'
    BY <1>0, <1>2 DEF Accept, ThreadType, MemType
  <2> QED BY <2>4, <2>6, <2>7, <2>8 DEF TypeOK
<1>3. CASE RnrNak(r)
  <2>1. SendType'
    BY <1>0, <1>3 DEF RnrNak, SendType
  <2>2. ThreadType' /\ MemType' /\ RecvType' /\ AckType'
    BY <1>0, <1>3 DEF RnrNak, ThreadType, MemType, RecvType, AckType
  <2> QED BY <2>1, <2>2 DEF TypeOK
<1>4. CASE Place(r)
  <2>1. Head(landing[r]) \in Loc \X Value /\ Tail(landing[r]) \in Seq(Loc \X Value)
    BY <1>0, <1>4 DEF Place, RecvType
  <2>2. Head(landing[r])[1] \in Loc /\ Head(landing[r])[2] \in Value
    BY <2>1
  <2>3. MemType'
    BY <1>0, <1>4, <2>2 DEF Place, MemType
  <2>4. RecvType'
    BY <1>0, <1>4, <2>1 DEF Place, RecvType
  <2>5. ThreadType' /\ SendType' /\ AckType'
    BY <1>0, <1>4 DEF Place, ThreadType, SendType, AckType
  <2> QED BY <2>3, <2>4, <2>5 DEF TypeOK
<1>5. CASE Ack(r)
  <2>1. AckType'
    BY <1>0, <1>5 DEF Ack, AckType
  <2>2. ThreadType' /\ MemType' /\ RecvType' /\ SendType'
    BY <1>0, <1>5 DEF Ack, ThreadType, MemType, RecvType, SendType
  <2> QED BY <2>1, <2>2 DEF TypeOK
<1>6. CASE RetryExceeded(r)
  <2>1. ThreadType' /\ MemType' /\ RecvType'
    BY <1>0, <1>6 DEF RetryExceeded, ThreadType, MemType, RecvType
  <2>2. scq' = scq /\ scerr' = [scerr EXCEPT ![r] = scerr[r] + 1]
    BY <1>6 DEF RetryExceeded
  <2>3. CASE unacked[r] > 0
    <3>1. sq' = sq /\ wire' = wire /\ unacked' = [unacked EXCEPT ![r] = unacked[r] - 1]
      BY <1>6, <2>3 DEF RetryExceeded
    <3>2. SendType'
      BY <1>0, <3>1 DEF SendType
    <3>3. AckType'
      BY <1>0, <2>2, <2>3, <3>1 DEF AckType
    <3> QED BY <2>1, <3>2, <3>3 DEF TypeOK
  <2>4. CASE ~(unacked[r] > 0)
    <3>1. /\ wire[r] # << >> /\ unacked' = unacked
          /\ sq' = [sq EXCEPT ![r] = Tail(sq[r])]
          /\ wire' = [wire EXCEPT ![r] = << >>]
      BY <1>6, <2>4 DEF RetryExceeded
    <3>2. Tail(sq[r]) \in Seq(Loc)
      BY <1>0, <1>w, <3>1 DEF SendType
    <3>3. SendType'
      BY <1>0, <3>1, <3>2 DEF SendType
    <3>4. AckType'
      BY <1>0, <2>2, <3>1 DEF AckType
    <3> QED BY <2>1, <3>3, <3>4 DEF TypeOK
  <2> QED BY <2>3, <2>4
<1> QED BY <1>1, <1>2, <1>3, <1>4, <1>5, <1>6 DEF NicStep

-----------------------------------------------------------------------------
(* Queue discipline.  A step changes the queues of at most two ranks; the   *)
(* two frame lemmas take care of all the others.                            *)
LEMMA RecvFrame ==
  ASSUME NEW q \in Ranks, RecvFlow(q),
         pc'[q] = pc[q], s'[q] = s[q], rq'[q] = rq[q],
         landing'[q] = landing[q], rcq'[q] = rcq[q]
  PROVE  RecvFlow(q)'
  BY DEF RecvFlow, RecvDue, RecvLoc

(* The send side of a rank none of whose queues changed. *)
LEMMA SendFrame ==
  ASSUME NEW q \in Ranks, SendFlow(q),
         pc'[q] = pc[q], s'[q] = s[q], sq'[q] = sq[q], wire'[q] = wire[q],
         unacked'[q] = unacked[q], scq'[q] = scq[q], scerr'[q] = scerr[q]
  PROVE  SendFlow(q)'
  BY DEF SendFlow, SendDue, SendLoc

(* The sizes and the elements of queues after the operations of the model.  *)
LEMMA QueueOps ==
  ASSUME NEW S, NEW x \in Seq(S), NEW e \in S
  PROVE  /\ Len(x) \in Nat
         /\ x = << >> <=> Len(x) = 0
         /\ Len(Append(x, e)) = Len(x) + 1
         /\ \A i \in 1..Len(x) : Append(x, e)[i] = x[i]
         /\ Append(x, e)[Len(x) + 1] = e
         /\ x # << >> => /\ Len(Tail(x)) = Len(x) - 1
                         /\ \A i \in 1..Len(Tail(x)) : Tail(x)[i] = x[i + 1]
                         /\ Head(x) = x[1]
  OBVIOUS

(* A statement of r's thread changes nothing of any other rank. *)
LEMMA ThreadLocal ==
  ASSUME TypeOK, NEW r \in Ranks, Thread(r) \/ Fail(r), NEW q \in Ranks, q # r
  PROVE  /\ pc'[q] = pc[q] /\ s'[q] = s[q] /\ call'[q] = call[q] /\ up'[q] = up[q]
         /\ rq'[q] = rq[q] /\ landing'[q] = landing[q] /\ rcq'[q] = rcq[q]
         /\ sq'[q] = sq[q] /\ wire'[q] = wire[q] /\ unacked'[q] = unacked[q]
         /\ scq'[q] = scq[q] /\ scerr'[q] = scerr[q]
<1> USE DEF TypeOK, ThreadType, MemType, RecvType, SendType, AckType, Goto
<1>1. CASE PostFirst(r)
  BY <1>1 DEF PostFirst, recv_async
<1>2. CASE Send(r)
  BY <1>2 DEF Send, send_async
<1>3. CASE PollRecv(r)
  BY <1>3 DEF PollRecv, poll_left
<1>4. CASE ArmNext(r)
  BY <1>4 DEF ArmNext, recv_async
<1>5. CASE PollSend(r)
  BY <1>5 DEF PollSend, poll_right
<1>6. CASE Sum(r)
  BY <1>6 DEF Sum
<1>7. CASE Check(r)
  BY <1>7 DEF Check
<1>8. CASE Reset(r)
  BY <1>8 DEF Reset
<1>9. CASE BarrierRecv(r)
  BY <1>9 DEF BarrierRecv, recv_async
<1>10. CASE BarrierSend(r)
  BY <1>10 DEF BarrierSend, send_async
<1>11. CASE BarrierPollRecv(r)
  BY <1>11 DEF BarrierPollRecv, poll_left
<1>12. CASE BarrierPollSend(r)
  BY <1>12 DEF BarrierPollSend, poll_right
<1>13. CASE PollSendError(r)
  BY <1>13 DEF PollSendError
<1>14. CASE Teardown(r)
  BY <1>14 DEF Teardown
<1>15. CASE Fail(r)
  BY <1>15 DEF Fail
<1> QED BY <1>1, <1>2, <1>3, <1>4, <1>5, <1>6, <1>7, <1>8, <1>9, <1>10,
           <1>11, <1>12, <1>13, <1>14, <1>15 DEF Thread

(* The three ways a statement leaves the receive side of its own rank:      *)
(* nothing outstanding, exactly one receive just posted, or as it was.      *)
LEMMA RecvNone ==
  ASSUME NEW r, rq'[r] = << >>, landing'[r] = << >>, rcq'[r] = 0, RecvDue(r)' = 0
  PROVE  RecvFlow(r)'
  BY DEF RecvFlow

(* After a post on empty queues: exactly this receive is outstanding. *)
LEMMA RecvOne ==
  ASSUME NEW r, rq'[r] = << RecvLoc(r)' >>, landing'[r] = << >>, rcq'[r] = 0,
         RecvDue(r)' = 1
  PROVE  RecvFlow(r)'
  BY DEF RecvFlow

(* A statement that leaves the receive side alone and does not change what is due. *)
LEMMA RecvKeep ==
  ASSUME NEW r, RecvFlow(r), pc[r] # "failed",
         rq'[r] = rq[r], landing'[r] = landing[r], rcq'[r] = rcq[r],
         RecvDue(r)' = RecvDue(r), RecvLoc(r)' = RecvLoc(r)
  PROVE  RecvFlow(r)'
  BY DEF RecvFlow

(* The same for the send side. *)
LEMMA SendNone ==
  ASSUME NEW r, sq'[r] = << >>, wire'[r] = << >>, unacked'[r] = 0, scq'[r] = 0,
         scerr'[r] = 0, SendDue(r)' = 0
  PROVE  SendFlow(r)'
  BY DEF SendFlow

(* After a post of a send on empty queues. *)
LEMMA SendOne ==
  ASSUME NEW r, sq'[r] = << SendLoc(r)' >>, unacked'[r] = 0, scq'[r] = 0,
         scerr'[r] = 0, SendDue(r)' = 1
  PROVE  SendFlow(r)'
  BY DEF SendFlow

(* A statement that leaves the send side alone and does not change what is due. *)
LEMMA SendKeep ==
  ASSUME NEW r, SendFlow(r), pc[r] # "failed",
         sq'[r] = sq[r], wire'[r] = wire[r], unacked'[r] = unacked[r],
         scq'[r] = scq[r], scerr'[r] = scerr[r],
         SendDue(r)' = SendDue(r), SendLoc(r)' = SendLoc(r)
  PROVE  SendFlow(r)'
  BY DEF SendFlow

(* What the discipline says before a post and before a poll. *)
LEMMA RecvBefore ==
  ASSUME RecvType, NEW r \in Ranks, RecvFlow(r), pc[r] # "failed"
  PROVE  /\ RecvDue(r) = 0 => rq[r] = << >> /\ landing[r] = << >> /\ rcq[r] = 0
         /\ RecvDue(r) = 1 /\ rcq[r] > 0
              => rq[r] = << >> /\ landing[r] = << >> /\ rcq[r] = 1
<1>1. rq[r] \in Seq(Loc) /\ landing[r] \in Seq(Loc \X Value)
  BY DEF RecvType
<1>r. rcq[r] \in Nat
  BY DEF RecvType
<1>2. /\ Len(rq[r]) \in Nat /\ (Len(rq[r]) = 0 => rq[r] = << >>)
      /\ Len(landing[r]) \in Nat /\ (Len(landing[r]) = 0 => landing[r] = << >>)
  BY <1>1
<1>3. rcq[r] + Len(rq[r]) + Len(landing[r]) = RecvDue(r)
  BY DEF RecvFlow
<1> DEFINE a == Len(rq[r])
           b == Len(landing[r])
           c == rcq[r]
<1>4. a \in Nat /\ b \in Nat /\ c \in Nat /\ c + a + b = RecvDue(r)
  BY <1>r, <1>2, <1>3
<1>5. (a = 0 => rq[r] = << >>) /\ (b = 0 => landing[r] = << >>) /\ c = rcq[r]
  BY <1>2
<1> HIDE DEF a, b, c
<1>6. /\ RecvDue(r) = 0 => a = 0 /\ b = 0 /\ c = 0
      /\ RecvDue(r) = 1 /\ c > 0 => a = 0 /\ b = 0 /\ c = 1
  BY <1>4
<1> QED BY <1>5, <1>6

(* What the discipline says of the send side before a post and before a poll. *)
LEMMA SendBefore ==
  ASSUME SendType, AckType, NEW r \in Ranks, SendFlow(r), pc[r] # "failed"
  PROVE  /\ SendDue(r) = 0 => /\ sq[r] = << >> /\ wire[r] = << >> /\ unacked[r] = 0
                              /\ scq[r] = 0 /\ scerr[r] = 0
         /\ SendDue(r) = 1 /\ scq[r] > 0
              => /\ sq[r] = << >> /\ wire[r] = << >> /\ unacked[r] = 0
                 /\ scq[r] = 1 /\ scerr[r] = 0
<1>1. sq[r] \in Seq(Loc) /\ unacked[r] \in Nat /\ scq[r] \in Nat /\ scerr[r] \in Nat
  BY DEF SendType, AckType
<1>2. Len(sq[r]) \in Nat /\ (Len(sq[r]) = 0 => sq[r] = << >>)
  BY <1>1
<1> QED BY <1>1, <1>2 DEF SendFlow

(* Every statement of a thread keeps the queue discipline: post one, poll one. *)
LEMMA FlowThread ==
  ASSUME TypeOK, QueueDiscipline, NEW r \in Ranks, Thread(r) \/ Fail(r)
  PROVE  QueueDiscipline'
<1>0. ThreadType /\ MemType /\ RecvType /\ SendType /\ AckType
  BY DEF TypeOK
<1>a. RecvFlow(r) /\ SendFlow(r) /\ (~up[r] => Ended(r))
  BY DEF QueueDiscipline
<1>b. ASSUME NEW q \in Ranks, q # r
      PROVE  (RecvFlow(q) /\ SendFlow(q) /\ (~up[q] => Ended(q)))'
  <2>1. RecvFlow(q) /\ SendFlow(q) /\ (~up[q] => Ended(q))
    BY DEF QueueDiscipline
  <2>2. RecvFlow(q)'
    BY <1>b, <2>1, ThreadLocal, RecvFrame
  <2>3. SendFlow(q)'
    BY <1>b, <2>1, ThreadLocal, SendFrame
  <2>4. (~up[q] => Ended(q))'
    BY <1>b, <2>1, ThreadLocal DEF Ended
  <2> QED BY <2>2, <2>3, <2>4
<1>d. SUFFICES RecvFlow(r)' /\ SendFlow(r)' /\ (~up[r] => Ended(r))'
  BY <1>b DEF QueueDiscipline
<1> USE DEF At, Goto
<1>1. CASE PostFirst(r)
  <2>1. /\ pc[r] = "post" /\ pc'[r] = "send" /\ s'[r] = 0 /\ up'[r] = up[r]
        /\ rq'[r] = Append(rq[r], RecvTarget(r, 0)) /\ landing'[r] = landing[r] /\ rcq'[r] = rcq[r]
        /\ sq'[r] = sq[r] /\ wire'[r] = wire[r] /\ unacked'[r] = unacked[r]
        /\ scq'[r] = scq[r] /\ scerr'[r] = scerr[r]
    BY <1>0, <1>1 DEF PostFirst, recv_async, ThreadType, RecvType, SendType, AckType
  <2>2. RecvFlow(r)'
    <3>1. RecvDue(r) = 0 /\ RecvDue(r)' = 1 /\ RecvLoc(r)' = RecvTarget(r, 0)
      BY <2>1 DEF RecvDue, RecvLoc, BarrierPCs
    <3> QED BY <1>0, <1>a, <2>1, <3>1, RecvBefore, RecvOne
  <2>3. SendFlow(r)'
    <3>1. SendDue(r) = 0 /\ SendDue(r)' = 0
      BY <2>1 DEF SendDue
    <3> QED BY <1>0, <1>a, <2>1, <3>1, SendBefore, SendNone
  <2> QED BY <1>a, <2>1, <2>2, <2>3 DEF Ended
<1>2. CASE Send(r)
  <2>1. /\ pc[r] = "send" /\ pc'[r] = "pollr" /\ s'[r] = s[r] /\ up'[r] = up[r]
        /\ rq'[r] = rq[r] /\ landing'[r] = landing[r] /\ rcq'[r] = rcq[r]
        /\ sq'[r] = Append(sq[r], Buf(send_chunk(r, s[r])))
        /\ wire'[r] = wire[r] /\ unacked'[r] = unacked[r]
        /\ scq'[r] = scq[r] /\ scerr'[r] = scerr[r]
    BY <1>0, <1>2 DEF Send, send_async, ThreadType, RecvType, SendType, AckType
  <2>2. RecvFlow(r)'
    <3>1. RecvDue(r)' = RecvDue(r) /\ RecvLoc(r)' = RecvLoc(r)
      BY <2>1 DEF RecvDue, RecvLoc, BarrierPCs
    <3> QED BY <1>a, <2>1, <3>1, RecvKeep
  <2>3. SendFlow(r)'
    <3>1. SendDue(r) = 0 /\ SendDue(r)' = 1 /\ SendLoc(r)' = Buf(send_chunk(r, s[r]))
      BY <2>1 DEF SendDue, SendLoc, BarrierPCs
    <3> QED BY <1>0, <1>a, <2>1, <3>1, SendBefore, SendOne
  <2> QED BY <1>a, <2>1, <2>2, <2>3 DEF Ended
<1>3. CASE PollRecv(r)
  <2>1. /\ pc[r] = "pollr" /\ pc'[r] = "arm" /\ s'[r] = s[r] /\ up'[r] = up[r]
        /\ rq'[r] = rq[r] /\ landing'[r] = landing[r] /\ rcq[r] > 0 /\ rcq'[r] = rcq[r] - 1
        /\ sq'[r] = sq[r] /\ wire'[r] = wire[r] /\ unacked'[r] = unacked[r]
        /\ scq'[r] = scq[r] /\ scerr'[r] = scerr[r]
    BY <1>0, <1>3 DEF PollRecv, poll_left, ThreadType, RecvType, SendType, AckType
  <2>2. RecvFlow(r)'
    <3>1. RecvDue(r) = 1 /\ RecvDue(r)' = 0
      BY <2>1 DEF RecvDue
    <3> QED BY <1>0, <1>a, <2>1, <3>1, RecvBefore, RecvNone
  <2>3. SendFlow(r)'
    <3>1. SendDue(r)' = SendDue(r) /\ SendLoc(r)' = SendLoc(r)
      BY <2>1 DEF SendDue, SendLoc, BarrierPCs
    <3> QED BY <1>a, <2>1, <3>1, SendKeep
  <2> QED BY <1>a, <2>1, <2>2, <2>3 DEF Ended
<1>4. CASE ArmNext(r)
  <2>1. /\ pc[r] = "arm" /\ pc'[r] = "polls" /\ s'[r] = s[r] /\ up'[r] = up[r]
        /\ landing'[r] = landing[r] /\ rcq'[r] = rcq[r]
        /\ sq'[r] = sq[r] /\ wire'[r] = wire[r] /\ unacked'[r] = unacked[r]
        /\ scq'[r] = scq[r] /\ scerr'[r] = scerr[r]
    BY <1>0, <1>4 DEF ArmNext, ThreadType
  <2>2. RecvFlow(r)'
    <3>1. CASE s[r] + 1 < Steps
      <4>1. rq'[r] = Append(rq[r], RecvTarget(r, s[r] + 1))
        BY <1>0, <1>4, <3>1 DEF ArmNext, recv_async, RecvType
      <4>2. RecvDue(r) = 0 /\ RecvDue(r)' = 1 /\ RecvLoc(r)' = RecvTarget(r, s[r] + 1)
        BY <2>1, <3>1 DEF RecvDue, RecvLoc, BarrierPCs
      <4> QED BY <1>0, <1>a, <2>1, <4>1, <4>2, RecvBefore, RecvOne
    <3>2. CASE ~(s[r] + 1 < Steps)
      <4>1. rq'[r] = rq[r]
        BY <1>4, <3>2 DEF ArmNext
      <4>2. RecvDue(r) = 0 /\ RecvDue(r)' = 0
        BY <2>1, <3>2 DEF RecvDue
      <4> QED BY <1>0, <1>a, <2>1, <4>1, <4>2, RecvBefore, RecvNone
    <3> QED BY <3>1, <3>2
  <2>3. SendFlow(r)'
    <3>1. SendDue(r)' = SendDue(r) /\ SendLoc(r)' = SendLoc(r)
      BY <2>1 DEF SendDue, SendLoc, BarrierPCs
    <3> QED BY <1>a, <2>1, <3>1, SendKeep
  <2> QED BY <1>a, <2>1, <2>2, <2>3 DEF Ended
<1>5. CASE PollSend(r)
  <2>1. /\ pc[r] = "polls" /\ pc'[r] = "sum" /\ s'[r] = s[r] /\ up'[r] = up[r]
        /\ rq'[r] = rq[r] /\ landing'[r] = landing[r] /\ rcq'[r] = rcq[r]
        /\ sq'[r] = sq[r] /\ wire'[r] = wire[r] /\ unacked'[r] = unacked[r]
        /\ scq[r] > 0 /\ scq'[r] = scq[r] - 1 /\ scerr'[r] = scerr[r]
    BY <1>0, <1>5 DEF PollSend, poll_right, ThreadType, RecvType, SendType, AckType
  <2>2. RecvFlow(r)'
    <3>1. RecvDue(r)' = RecvDue(r) /\ RecvLoc(r)' = RecvLoc(r)
      BY <2>1 DEF RecvDue, RecvLoc, BarrierPCs
    <3> QED BY <1>a, <2>1, <3>1, RecvKeep
  <2>3. SendFlow(r)'
    <3>1. SendDue(r) = 1 /\ SendDue(r)' = 0
      BY <2>1 DEF SendDue
    <3> QED BY <1>0, <1>a, <2>1, <3>1, SendBefore, SendNone
  <2> QED BY <1>a, <2>1, <2>2, <2>3 DEF Ended
<1>6. CASE Sum(r)
  <2>0. s[r] \in 0..(Steps - 1) /\ Steps \in Nat
    BY <1>0, StepsType DEF ThreadType
  <2>1. /\ pc[r] = "sum" /\ up'[r] = up[r]
        /\ rq'[r] = rq[r] /\ landing'[r] = landing[r] /\ rcq'[r] = rcq[r]
        /\ sq'[r] = sq[r] /\ wire'[r] = wire[r] /\ unacked'[r] = unacked[r]
        /\ scq'[r] = scq[r] /\ scerr'[r] = scerr[r]
    BY <1>6 DEF Sum
  <2>2. CASE s[r] + 1 < Steps
    <3>1. pc'[r] = "send" /\ s'[r] = s[r] + 1
      BY <1>0, <1>6, <2>2 DEF Sum, ThreadType
    <3>2. RecvFlow(r)'
      <4>1. RecvDue(r)' = RecvDue(r) /\ RecvLoc(r)' = RecvLoc(r)
        BY <2>1, <2>2, <3>1 DEF RecvDue, RecvLoc, BarrierPCs
      <4> QED BY <1>a, <2>1, <4>1, RecvKeep
    <3>3. SendFlow(r)'
      <4>1. SendDue(r) = 0 /\ SendDue(r)' = 0
        BY <2>1, <3>1 DEF SendDue
      <4> QED BY <1>0, <1>a, <2>1, <4>1, SendBefore, SendNone
    <3> QED BY <1>a, <2>1, <3>1, <3>2, <3>3 DEF Ended
  <2>3. CASE ~(s[r] + 1 < Steps)
    <3>1. pc'[r] \in {"check", "reset"} /\ s'[r] = s[r]
      BY <1>0, <1>6, <2>3 DEF Sum, ThreadType, AfterRing
    <3>2. RecvFlow(r)'
      <4>1. RecvDue(r) = 0 /\ RecvDue(r)' = 0
        BY <2>1, <2>3, <3>1 DEF RecvDue
      <4> QED BY <1>0, <1>a, <2>1, <4>1, RecvBefore, RecvNone
    <3>3. SendFlow(r)'
      <4>1. SendDue(r) = 0 /\ SendDue(r)' = 0
        BY <2>1, <3>1 DEF SendDue
      <4> QED BY <1>0, <1>a, <2>1, <4>1, SendBefore, SendNone
    <3> QED BY <1>a, <2>1, <3>1, <3>2, <3>3 DEF Ended
  <2> QED BY <2>2, <2>3
<1>7. CASE Check(r)
  <2>1. /\ pc[r] = "check" /\ pc'[r] \in {"failed", "reset", "done"} /\ s'[r] = s[r]
        /\ rq'[r] = rq[r] /\ landing'[r] = landing[r] /\ rcq'[r] = rcq[r]
        /\ sq'[r] = sq[r] /\ wire'[r] = wire[r] /\ unacked'[r] = unacked[r]
        /\ scq'[r] = scq[r] /\ scerr'[r] = scerr[r] /\ up'[r] = up[r]
    BY <1>0, <1>7 DEF Check, ThreadType
  <2>2. RecvFlow(r)'
    <3>1. RecvDue(r) = 0 /\ RecvDue(r)' = 0
      BY <2>1 DEF RecvDue
    <3> QED BY <1>0, <1>a, <2>1, <3>1, RecvBefore, RecvNone
  <2>3. SendFlow(r)'
    <3>1. SendDue(r) = 0 /\ SendDue(r)' = 0
      BY <2>1 DEF SendDue
    <3> QED BY <1>0, <1>a, <2>1, <3>1, SendBefore, SendNone
  <2> QED BY <1>a, <2>1, <2>2, <2>3 DEF Ended
<1>8. CASE Reset(r)
  <2>1. /\ pc[r] = "reset" /\ pc'[r] = "brecv" /\ s'[r] = s[r] /\ up'[r] = up[r]
        /\ rq'[r] = rq[r] /\ landing'[r] = landing[r] /\ rcq'[r] = rcq[r]
        /\ sq'[r] = sq[r] /\ wire'[r] = wire[r] /\ unacked'[r] = unacked[r]
        /\ scq'[r] = scq[r] /\ scerr'[r] = scerr[r]
    BY <1>0, <1>8 DEF Reset, ThreadType, RecvType, SendType, AckType
  <2>2. RecvFlow(r)'
    <3>1. RecvDue(r) = 0 /\ RecvDue(r)' = 0
      BY <2>1 DEF RecvDue
    <3> QED BY <1>0, <1>a, <2>1, <3>1, RecvBefore, RecvNone
  <2>3. SendFlow(r)'
    <3>1. SendDue(r) = 0 /\ SendDue(r)' = 0
      BY <2>1 DEF SendDue
    <3> QED BY <1>0, <1>a, <2>1, <3>1, SendBefore, SendNone
  <2> QED BY <1>a, <2>1, <2>2, <2>3 DEF Ended
<1>9. CASE BarrierRecv(r)
  <2>1. /\ pc[r] = "brecv" /\ pc'[r] = "bsend" /\ s'[r] = s[r] /\ up'[r] = up[r]
        /\ rq'[r] = Append(rq[r], Scratch) /\ landing'[r] = landing[r] /\ rcq'[r] = rcq[r]
        /\ sq'[r] = sq[r] /\ wire'[r] = wire[r] /\ unacked'[r] = unacked[r]
        /\ scq'[r] = scq[r] /\ scerr'[r] = scerr[r]
    BY <1>0, <1>9 DEF BarrierRecv, recv_async, ThreadType, RecvType, SendType, AckType
  <2>2. RecvFlow(r)'
    <3>1. RecvDue(r) = 0 /\ RecvDue(r)' = 1 /\ RecvLoc(r)' = Scratch
      BY <2>1 DEF RecvDue, RecvLoc, BarrierPCs
    <3> QED BY <1>0, <1>a, <2>1, <3>1, RecvBefore, RecvOne
  <2>3. SendFlow(r)'
    <3>1. SendDue(r) = 0 /\ SendDue(r)' = 0
      BY <2>1 DEF SendDue
    <3> QED BY <1>0, <1>a, <2>1, <3>1, SendBefore, SendNone
  <2> QED BY <1>a, <2>1, <2>2, <2>3 DEF Ended
<1>10. CASE BarrierSend(r)
  <2>1. /\ pc[r] = "bsend" /\ pc'[r] = "bpollr" /\ s'[r] = s[r] /\ up'[r] = up[r]
        /\ rq'[r] = rq[r] /\ landing'[r] = landing[r] /\ rcq'[r] = rcq[r]
        /\ sq'[r] = Append(sq[r], Scratch) /\ wire'[r] = wire[r] /\ unacked'[r] = unacked[r]
        /\ scq'[r] = scq[r] /\ scerr'[r] = scerr[r]
    BY <1>0, <1>10 DEF BarrierSend, send_async, ThreadType, RecvType, SendType, AckType
  <2>2. RecvFlow(r)'
    <3>1. RecvDue(r)' = RecvDue(r) /\ RecvLoc(r)' = RecvLoc(r)
      BY <2>1 DEF RecvDue, RecvLoc, BarrierPCs
    <3> QED BY <1>a, <2>1, <3>1, RecvKeep
  <2>3. SendFlow(r)'
    <3>1. SendDue(r) = 0 /\ SendDue(r)' = 1 /\ SendLoc(r)' = Scratch
      BY <2>1 DEF SendDue, SendLoc, BarrierPCs
    <3> QED BY <1>0, <1>a, <2>1, <3>1, SendBefore, SendOne
  <2> QED BY <1>a, <2>1, <2>2, <2>3 DEF Ended
<1>11. CASE BarrierPollRecv(r)
  <2>1. /\ pc[r] = "bpollr" /\ pc'[r] = "bpolls" /\ s'[r] = s[r] /\ up'[r] = up[r]
        /\ rq'[r] = rq[r] /\ landing'[r] = landing[r] /\ rcq[r] > 0 /\ rcq'[r] = rcq[r] - 1
        /\ sq'[r] = sq[r] /\ wire'[r] = wire[r] /\ unacked'[r] = unacked[r]
        /\ scq'[r] = scq[r] /\ scerr'[r] = scerr[r]
    BY <1>0, <1>11 DEF BarrierPollRecv, poll_left, ThreadType, RecvType, SendType, AckType
  <2>2. RecvFlow(r)'
    <3>1. RecvDue(r) = 1 /\ RecvDue(r)' = 0
      BY <2>1 DEF RecvDue
    <3> QED BY <1>0, <1>a, <2>1, <3>1, RecvBefore, RecvNone
  <2>3. SendFlow(r)'
    <3>1. SendDue(r)' = SendDue(r) /\ SendLoc(r)' = SendLoc(r)
      BY <2>1 DEF SendDue, SendLoc, BarrierPCs
    <3> QED BY <1>a, <2>1, <3>1, SendKeep
  <2> QED BY <1>a, <2>1, <2>2, <2>3 DEF Ended
<1>12. CASE BarrierPollSend(r)
  <2>1. /\ pc[r] = "bpolls" /\ pc'[r] = "post" /\ s'[r] = s[r] /\ up'[r] = up[r]
        /\ rq'[r] = rq[r] /\ landing'[r] = landing[r] /\ rcq'[r] = rcq[r]
        /\ sq'[r] = sq[r] /\ wire'[r] = wire[r] /\ unacked'[r] = unacked[r]
        /\ scq[r] > 0 /\ scq'[r] = scq[r] - 1 /\ scerr'[r] = scerr[r]
    BY <1>0, <1>12 DEF BarrierPollSend, poll_right, ThreadType, RecvType, SendType, AckType
  <2>2. RecvFlow(r)'
    <3>1. RecvDue(r) = 0 /\ RecvDue(r)' = 0
      BY <2>1 DEF RecvDue
    <3> QED BY <1>0, <1>a, <2>1, <3>1, RecvBefore, RecvNone
  <2>3. SendFlow(r)'
    <3>1. SendDue(r) = 1 /\ SendDue(r)' = 0
      BY <2>1 DEF SendDue
    <3> QED BY <1>0, <1>a, <2>1, <3>1, SendBefore, SendNone
  <2> QED BY <1>a, <2>1, <2>2, <2>3 DEF Ended
<1>13. CASE PollSendError(r)
  <2>1. pc'[r] = "failed" /\ wire'[r] = wire[r] /\ sq'[r] = sq[r]
    BY <1>0, <1>13 DEF PollSendError, ThreadType
  <2> QED BY <1>a, <2>1 DEF RecvFlow, SendFlow, Ended
<1>14. CASE Teardown(r)
  <2>1. /\ pc[r] \in {"done", "failed"} /\ pc'[r] = pc[r]
        /\ rq'[r] = << >> /\ landing'[r] = << >> /\ rcq'[r] = 0
        /\ sq'[r] = << >> /\ wire'[r] = << >> /\ unacked'[r] = 0
        /\ scq'[r] = 0 /\ scerr'[r] = 0
    BY <1>0, <1>14 DEF Teardown, Ended, RecvType, SendType, AckType
  <2>2. RecvDue(r)' = 0 /\ SendDue(r)' = 0
    BY <2>1 DEF RecvDue, SendDue
  <2> QED BY <2>1, <2>2, RecvNone, SendNone DEF Ended
<1>15. CASE Fail(r)
  <2>1. pc'[r] = "failed" /\ wire'[r] = wire[r] /\ sq'[r] = sq[r]
    BY <1>0, <1>15 DEF Fail, ThreadType
  <2> QED BY <1>a, <2>1 DEF RecvFlow, SendFlow, Ended
<1> QED BY <1>1, <1>2, <1>3, <1>4, <1>5, <1>6, <1>7, <1>8, <1>9, <1>10,
           <1>11, <1>12, <1>13, <1>14, <1>15 DEF Thread

(* A NIC step only moves a work request from one stage to the next. *)
LEMMA MoveRecv ==
  \A a, b, c \in Nat :
    /\ b > 0 => a + (b - 1) + (c + 1) = a + b + c
    /\ c > 0 => (a + 1) + b + (c - 1) = a + b + c
  OBVIOUS

(* A queue that is not empty has a head and a shorter tail. *)
LEMMA LenPositive ==
  ASSUME NEW S, NEW x \in Seq(S), x # << >>
  PROVE  Len(x) \in Nat /\ Len(x) > 0
  OBVIOUS

(* Every NIC step keeps the queue discipline. *)
LEMMA FlowNic ==
  ASSUME TypeOK, QueueDiscipline, NEW r \in Ranks, NicStep(r)
  PROVE  QueueDiscipline'
<1> DEFINE q == Right(r)
<1>0. ThreadType /\ MemType /\ RecvType /\ SendType /\ AckType
  BY DEF TypeOK
<1>q. q \in Ranks /\ q # r
  BY RightType
<1>a. \A p \in Ranks : RecvFlow(p) /\ SendFlow(p) /\ (~up[p] => Ended(p))
  BY DEF QueueDiscipline
<1>b. /\ sq[r] \in Seq(Loc) /\ wire[r] \in Seq(Loc \X Value)
      /\ unacked[r] \in Nat /\ scq[r] \in Nat /\ scerr[r] \in Nat
      /\ landing[r] \in Seq(Loc \X Value) /\ rcq[r] \in Nat
      /\ rq[q] \in Seq(Loc) /\ landing[q] \in Seq(Loc \X Value) /\ rcq[q] \in Nat
  BY <1>0, <1>q DEF RecvType, SendType, AckType
<1>c. pc' = pc /\ s' = s /\ up' = up
  BY DEF NicStep, Fetch, Accept, RnrNak, Place, Ack, RetryExceeded
<1>d. SUFFICES \A p \in Ranks : RecvFlow(p)' /\ SendFlow(p)'
  BY <1>a, <1>c DEF QueueDiscipline, Ended
<1>e. ASSUME NEW p \in Ranks
      PROVE  /\ RecvDue(p)' = RecvDue(p) /\ RecvLoc(p)' = RecvLoc(p)
             /\ SendDue(p)' = SendDue(p) /\ SendLoc(p)' = SendLoc(p)
  BY <1>c DEF RecvDue, RecvLoc, SendDue, SendLoc
<1> HIDE DEF q
<1>1. CASE Fetch(r)
  <2>1. /\ rq' = rq /\ landing' = landing /\ rcq' = rcq /\ sq' = sq
        /\ unacked' = unacked /\ scq' = scq /\ scerr' = scerr /\ sq[r] # << >>
        /\ \A p \in Ranks \ {r} : wire'[p] = wire[p]
    BY <1>0, <1>1 DEF Fetch, SendType
  <2>2. ASSUME NEW p \in Ranks PROVE RecvFlow(p)'
    BY <1>a, <1>c, <2>1, RecvFrame
  <2>3. SendFlow(r)'
    BY <1>a, <1>c, <1>e, <2>1 DEF SendFlow
  <2>4. ASSUME NEW p \in Ranks, p # r PROVE SendFlow(p)'
    BY <1>a, <1>c, <2>1, <2>4, SendFrame
  <2> QED BY <2>2, <2>3, <2>4
<1>2. CASE Accept(r)
  <2>1. /\ rq[q] # << >> /\ wire[r] # << >>
        /\ rq' = [rq EXCEPT ![q] = Tail(rq[q])]
        /\ landing' = [landing EXCEPT ![q] =
                         Append(landing[q], <<Head(rq[q]), Head(wire[r])[2]>>)]
        /\ wire' = [wire EXCEPT ![r] = << >>]
        /\ sq' = [sq EXCEPT ![r] = Tail(sq[r])]
        /\ unacked' = [unacked EXCEPT ![r] = unacked[r] + 1]
        /\ rcq' = rcq /\ scq' = scq /\ scerr' = scerr
    BY <1>2 DEF Accept, q
  <2>2. Head(rq[q]) \in Loc /\ Head(wire[r])[2] \in Value
    <3>1. Head(wire[r]) \in Loc \X Value
      BY <1>b, <2>1
    <3> QED BY <1>b, <2>1, <3>1
  <2>3. RecvFlow(q)'
    <3> DEFINE e == <<Head(rq[q]), Head(wire[r])[2]>>
    <3>1. rq'[q] = Tail(rq[q]) /\ landing'[q] = Append(landing[q], e) /\ rcq'[q] = rcq[q]
      BY <1>0, <1>q, <2>1 DEF RecvType
    <3>2. e \in Loc \X Value
      BY <2>2
    <3>3. CASE pc[q] = "failed"
      BY <1>c, <3>3 DEF RecvFlow
    <3>4. CASE pc[q] # "failed"
      <4>1. /\ rcq[q] + Len(rq[q]) + Len(landing[q]) = RecvDue(q)
            /\ \A i \in 1..Len(rq[q]) : rq[q][i] = RecvLoc(q)
            /\ \A i \in 1..Len(landing[q]) : landing[q][i][1] = RecvLoc(q)
        BY <1>a, <1>q, <3>4 DEF RecvFlow
      <4>2. /\ Len(Tail(rq[q])) = Len(rq[q]) - 1 /\ Len(rq[q]) \in Nat /\ Len(rq[q]) > 0
            /\ \A i \in 1..Len(Tail(rq[q])) : Tail(rq[q])[i] = rq[q][i + 1]
            /\ Head(rq[q]) = rq[q][1]
        <5>1. rq[q] \in Seq(Loc) /\ rq[q] # << >> /\ Head(rq[q]) \in Loc
          BY <1>b, <2>1, <2>2
        <5>2. /\ Len(rq[q]) \in Nat /\ Len(rq[q]) # 0
              /\ Len(Tail(rq[q])) = Len(rq[q]) - 1
              /\ \A i \in 1..Len(Tail(rq[q])) : Tail(rq[q])[i] = rq[q][i + 1]
              /\ Head(rq[q]) = rq[q][1]
          BY <5>1, QueueOps
        <5> QED BY <5>2
      <4> HIDE DEF e
      <4>3. /\ Len(Append(landing[q], e)) = Len(landing[q]) + 1 /\ Len(landing[q]) \in Nat
            /\ \A i \in 1..Len(landing[q]) : Append(landing[q], e)[i] = landing[q][i]
            /\ Append(landing[q], e)[Len(landing[q]) + 1] = e
        <5>1. landing[q] \in Seq(Loc \X Value)
          BY <1>b, <1>q
        <5> QED BY <3>2, <5>1, QueueOps
      <4>4. e[1] = RecvLoc(q)
        BY <4>1, <4>2 DEF e
      <4>5. rcq'[q] + Len(rq'[q]) + Len(landing'[q]) = RecvDue(q)'
        <5>1. rcq[q] \in Nat /\ RecvDue(q)' = RecvDue(q)
          BY <1>b, <1>e, <1>q
        <5>2. Len(rq'[q]) = Len(rq[q]) - 1 /\ Len(landing'[q]) = Len(landing[q]) + 1
          BY <3>1, <4>2, <4>3
        <5>3. rcq[q] + (Len(rq[q]) - 1) + (Len(landing[q]) + 1)
                = rcq[q] + Len(rq[q]) + Len(landing[q])
          BY <4>2, <4>3, <5>1, MoveRecv, Zenon
        <5> QED BY <3>1, <4>1, <5>1, <5>2, <5>3, Zenon
      <4>6. \A i \in 1..Len(rq'[q]) : rq'[q][i] = RecvLoc(q)'
        BY <1>e, <1>q, <3>1, <4>1, <4>2
      <4>7. \A i \in 1..Len(landing'[q]) : landing'[q][i][1] = RecvLoc(q)'
        BY <1>e, <1>q, <3>1, <4>1, <4>3, <4>4
      <4> QED BY <4>5, <4>6, <4>7 DEF RecvFlow
    <3> QED BY <3>3, <3>4
  <2>4. ASSUME NEW p \in Ranks, p # q PROVE RecvFlow(p)'
    <3>1. rq'[p] = rq[p] /\ landing'[p] = landing[p] /\ rcq'[p] = rcq[p]
      BY <1>0, <2>1, <2>4 DEF RecvType
    <3> QED BY <1>a, <1>c, <3>1, RecvFrame
  <2>5. SendFlow(r)'
    <3>1. /\ sq'[r] = Tail(sq[r]) /\ wire'[r] = << >> /\ unacked'[r] = unacked[r] + 1
          /\ scq'[r] = scq[r] /\ scerr'[r] = scerr[r]
      BY <1>0, <2>1 DEF SendType, AckType
    <3>2. sq[r] # << >>
      BY <1>a, <2>1 DEF SendFlow
    <3>3. /\ Len(Tail(sq[r])) = Len(sq[r]) - 1 /\ Len(sq[r]) \in Nat
          /\ \A i \in 1..Len(Tail(sq[r])) : Tail(sq[r])[i] = sq[r][i + 1]
      BY <1>b, <2>2, <3>2, QueueOps
    <3>4. CASE pc[r] = "failed"
      BY <1>c, <3>1, <3>4 DEF SendFlow
    <3>5. CASE pc[r] # "failed"
      <4>1. /\ unacked[r] + scq[r] + scerr[r] + Len(sq[r]) = SendDue(r)
            /\ \A i \in 1..Len(sq[r]) : sq[r][i] = SendLoc(r)
        BY <1>a, <3>5 DEF SendFlow
      <4>2. unacked'[r] + scq'[r] + scerr'[r] + Len(sq'[r]) = SendDue(r)'
        <5>1. /\ unacked[r] \in Nat /\ scq[r] \in Nat /\ scerr[r] \in Nat
              /\ SendDue(r)' = SendDue(r) /\ Len(sq'[r]) = Len(sq[r]) - 1
              /\ Len(sq[r]) \in Nat /\ Len(sq[r]) > 0
          BY <1>b, <1>e, <3>1, <3>2, <3>3
        <5>2. (unacked[r] + 1) + scq[r] + scerr[r] + (Len(sq[r]) - 1)
                = unacked[r] + scq[r] + scerr[r] + Len(sq[r])
          <6>1. PICK n \in Nat : n = Len(sq[r])
            BY <5>1
          <6>2. n > 0
            BY <5>1, <6>1
          <6>3. (unacked[r] + 1) + scq[r] + scerr[r] + (n - 1)
                  = unacked[r] + scq[r] + scerr[r] + n
            BY <5>1, <6>2
          <6> QED BY <6>1, <6>3, Zenon
        <5> QED BY <3>1, <4>1, <5>1, <5>2, Zenon
      <4>3. \A i \in 1..Len(sq'[r]) : sq'[r][i] = SendLoc(r)'
        BY <1>e, <3>1, <3>3, <4>1
      <4> QED BY <3>1, <4>2, <4>3 DEF SendFlow
    <3> QED BY <3>4, <3>5
  <2>6. ASSUME NEW p \in Ranks, p # r PROVE SendFlow(p)'
    <3>1. /\ sq'[p] = sq[p] /\ wire'[p] = wire[p] /\ unacked'[p] = unacked[p]
          /\ scq'[p] = scq[p] /\ scerr'[p] = scerr[p]
      BY <1>0, <2>1, <2>6 DEF SendType, AckType
    <3> QED BY <1>a, <1>c, <3>1, SendFrame
  <2> QED BY <2>3, <2>4, <2>5, <2>6
<1>3. CASE RnrNak(r)
  <2>1. /\ rq' = rq /\ landing' = landing /\ rcq' = rcq /\ sq' = sq
        /\ unacked' = unacked /\ scq' = scq /\ scerr' = scerr /\ wire'[r] = << >>
        /\ \A p \in Ranks \ {r} : wire'[p] = wire[p]
    BY <1>0, <1>3 DEF RnrNak, SendType
  <2>2. ASSUME NEW p \in Ranks PROVE RecvFlow(p)'
    BY <1>a, <1>c, <2>1, RecvFrame
  <2>3. SendFlow(r)'
    BY <1>a, <1>c, <1>e, <2>1 DEF SendFlow
  <2>4. ASSUME NEW p \in Ranks, p # r PROVE SendFlow(p)'
    BY <1>a, <1>c, <2>1, <2>4, SendFrame
  <2> QED BY <2>2, <2>3, <2>4
<1>4. CASE Place(r)
  <2>1. /\ landing[r] # << >> /\ landing' = [landing EXCEPT ![r] = Tail(landing[r])]
        /\ rcq' = [rcq EXCEPT ![r] = rcq[r] + 1]
        /\ rq' = rq /\ sq' = sq /\ wire' = wire
        /\ unacked' = unacked /\ scq' = scq /\ scerr' = scerr
    BY <1>4 DEF Place
  <2>2. ASSUME NEW p \in Ranks PROVE SendFlow(p)'
    BY <1>a, <1>c, <2>1, SendFrame
  <2>3. ASSUME NEW p \in Ranks, p # r PROVE RecvFlow(p)'
    <3>1. landing'[p] = landing[p] /\ rcq'[p] = rcq[p]
      BY <1>0, <2>1, <2>3 DEF RecvType
    <3> QED BY <1>a, <1>c, <2>1, <3>1, RecvFrame
  <2>4. RecvFlow(r)'
    <3>1. landing'[r] = Tail(landing[r]) /\ rcq'[r] = rcq[r] + 1 /\ rq'[r] = rq[r]
      BY <1>0, <2>1 DEF RecvType
    <3>2. /\ Len(Tail(landing[r])) = Len(landing[r]) - 1 /\ Len(landing[r]) \in Nat
          /\ \A i \in 1..Len(Tail(landing[r])) : Tail(landing[r])[i] = landing[r][i + 1]
      BY <1>b, <2>1
    <3>3. CASE pc[r] = "failed"
      BY <1>c, <3>3 DEF RecvFlow
    <3>4. CASE pc[r] # "failed"
      <4>1. /\ rcq[r] + Len(rq[r]) + Len(landing[r]) = RecvDue(r)
            /\ \A i \in 1..Len(rq[r]) : rq[r][i] = RecvLoc(r)
            /\ \A i \in 1..Len(landing[r]) : landing[r][i][1] = RecvLoc(r)
        BY <1>a, <3>4 DEF RecvFlow
      <4>2. Len(rq[r]) \in Nat
        BY <1>0 DEF RecvType
      <4>3. rcq'[r] + Len(rq'[r]) + Len(landing'[r]) = RecvDue(r)'
        <5>1. rcq[r] \in Nat /\ RecvDue(r)' = RecvDue(r)
          BY <1>b, <1>e
        <5>2. /\ Len(landing'[r]) = Len(landing[r]) - 1 /\ Len(landing[r]) > 0
              /\ Len(landing[r]) \in Nat
          BY <1>b, <2>1, <3>1, <3>2, LenPositive
        <5>3. (rcq[r] + 1) + Len(rq[r]) + (Len(landing[r]) - 1)
                = rcq[r] + Len(rq[r]) + Len(landing[r])
          BY <4>2, <5>1, <5>2, MoveRecv, Zenon
        <5> QED BY <3>1, <4>1, <5>1, <5>2, <5>3, Zenon
      <4>4. \A i \in 1..Len(landing'[r]) : landing'[r][i][1] = RecvLoc(r)'
        BY <1>e, <3>1, <3>2, <4>1
      <4> QED BY <1>e, <3>1, <4>1, <4>3, <4>4 DEF RecvFlow
    <3> QED BY <3>3, <3>4
  <2> QED BY <2>2, <2>3, <2>4
<1>5. CASE Ack(r)
  <2>1. /\ unacked[r] > 0 /\ unacked' = [unacked EXCEPT ![r] = unacked[r] - 1]
        /\ scq' = [scq EXCEPT ![r] = scq[r] + 1]
        /\ rq' = rq /\ landing' = landing /\ rcq' = rcq
        /\ sq' = sq /\ wire' = wire /\ scerr' = scerr
    BY <1>5 DEF Ack
  <2>2. ASSUME NEW p \in Ranks PROVE RecvFlow(p)'
    BY <1>a, <1>c, <2>1, RecvFrame
  <2>3. ASSUME NEW p \in Ranks, p # r PROVE SendFlow(p)'
    <3>1. unacked'[p] = unacked[p] /\ scq'[p] = scq[p]
      BY <1>0, <2>1, <2>3 DEF AckType
    <3> QED BY <1>a, <1>c, <2>1, <3>1, SendFrame
  <2>4. SendFlow(r)'
    <3>1. unacked'[r] = unacked[r] - 1 /\ scq'[r] = scq[r] + 1
      BY <1>0, <2>1 DEF AckType
    <3>2. Len(sq[r]) \in Nat
      BY <1>b
    <3>3. scq[r] \in Nat /\ unacked[r] \in Nat /\ scerr[r] \in Nat
      BY <1>b
    <3> DEFINE n == Len(sq[r])
    <3>4. unacked'[r] + scq'[r] + scerr[r] + n = unacked[r] + scq[r] + scerr[r] + n
      <4>1. n \in Nat
        BY <3>2
      <4> HIDE DEF n
      <4> QED BY <3>1, <3>3, <4>1
    <3> QED BY <1>a, <1>c, <1>e, <2>1, <3>4 DEF SendFlow
  <2> QED BY <2>2, <2>3, <2>4
<1>6. CASE RetryExceeded(r)
  <2>1. /\ rq' = rq /\ landing' = landing /\ rcq' = rcq /\ scq' = scq
        /\ scerr' = [scerr EXCEPT ![r] = scerr[r] + 1]
    BY <1>6 DEF RetryExceeded
  <2>2. ASSUME NEW p \in Ranks PROVE RecvFlow(p)'
    BY <1>a, <1>c, <2>1, RecvFrame
  <2>3. ASSUME NEW p \in Ranks, p # r PROVE SendFlow(p)'
    <3>1. /\ sq'[p] = sq[p] /\ wire'[p] = wire[p] /\ unacked'[p] = unacked[p]
          /\ scerr'[p] = scerr[p]
      BY <1>0, <1>6, <2>3 DEF RetryExceeded, SendType, AckType
    <3> QED BY <1>a, <1>c, <2>1, <3>1, SendFrame
  <2>4. SendFlow(r)'
    <3>0. /\ Len(sq[r]) \in Nat /\ scerr'[r] = scerr[r] + 1
          /\ scq[r] \in Nat /\ unacked[r] \in Nat /\ scerr[r] \in Nat
      BY <1>0, <1>b, <2>1 DEF AckType
    <3>1. CASE unacked[r] > 0
      <4>1. sq'[r] = sq[r] /\ wire'[r] = wire[r] /\ unacked'[r] = unacked[r] - 1
        BY <1>0, <1>6, <3>1 DEF RetryExceeded, AckType
      <4>2. (unacked[r] - 1) + scq[r] + (scerr[r] + 1) + Len(sq[r])
              = unacked[r] + scq[r] + scerr[r] + Len(sq[r])
        <5>1. PICK n \in Nat : n = Len(sq[r])
          BY <3>0
        <5>2. (unacked[r] - 1) + scq[r] + (scerr[r] + 1) + n
                = unacked[r] + scq[r] + scerr[r] + n
          <6>1. unacked[r] \in Nat /\ scq[r] \in Nat /\ scerr[r] \in Nat
            BY <3>0
          <6> QED BY <6>1
        <5> QED BY <5>1, <5>2, Zenon
      <4>3. unacked'[r] + scq'[r] + scerr'[r] + Len(sq'[r])
              = unacked[r] + scq[r] + scerr[r] + Len(sq[r])
        BY <2>1, <3>0, <4>1, <4>2, Zenon
      <4> QED BY <1>a, <1>c, <1>e, <4>1, <4>3 DEF SendFlow
    <3>2. CASE ~(unacked[r] > 0)
      <4>1. /\ sq'[r] = Tail(sq[r]) /\ wire'[r] = << >> /\ unacked'[r] = unacked[r]
            /\ wire[r] # << >>
        BY <1>0, <1>6, <3>2 DEF RetryExceeded, SendType
      <4>2. sq[r] # << >>
        BY <1>a, <4>1 DEF SendFlow
      <4>3. /\ Len(Tail(sq[r])) = Len(sq[r]) - 1
            /\ \A i \in 1..Len(Tail(sq[r])) : Tail(sq[r])[i] = sq[r][i + 1]
        BY <1>b, <4>2
      <4>4. CASE pc[r] = "failed"
        BY <1>c, <4>1, <4>4 DEF SendFlow
      <4>5. CASE pc[r] # "failed"
        <5>1. /\ unacked[r] + scq[r] + scerr[r] + Len(sq[r]) = SendDue(r)
              /\ \A i \in 1..Len(sq[r]) : sq[r][i] = SendLoc(r)
          BY <1>a, <4>5 DEF SendFlow
        <5>2. unacked'[r] + scq'[r] + scerr'[r] + Len(sq'[r]) = SendDue(r)'
          <6>1. SendDue(r)' = SendDue(r) /\ Len(sq'[r]) = Len(sq[r]) - 1 /\ Len(sq[r]) > 0
            BY <1>b, <1>e, <4>1, <4>2, <4>3
          <6>2. unacked[r] + scq[r] + (scerr[r] + 1) + (Len(sq[r]) - 1)
                  = unacked[r] + scq[r] + scerr[r] + Len(sq[r])
            <7>1. PICK n \in Nat : n = Len(sq[r])
              BY <3>0
            <7>2. unacked[r] + scq[r] + (scerr[r] + 1) + (n - 1)
                    = unacked[r] + scq[r] + scerr[r] + n
              <8>1. unacked[r] \in Nat /\ scq[r] \in Nat /\ scerr[r] \in Nat
                BY <3>0
              <8> QED BY <8>1
            <7> QED BY <7>1, <7>2, Zenon
          <6> QED BY <2>1, <3>0, <4>1, <5>1, <6>1, <6>2, Zenon
        <5>3. \A i \in 1..Len(sq'[r]) : sq'[r][i] = SendLoc(r)'
          BY <1>e, <3>0, <4>1, <4>3, <5>1
        <5> QED BY <4>1, <5>2, <5>3 DEF SendFlow
      <4> QED BY <4>4, <4>5
    <3> QED BY <3>1, <3>2
  <2> QED BY <2>2, <2>3, <2>4
<1> QED BY <1>1, <1>2, <1>3, <1>4, <1>5, <1>6 DEF NicStep

-----------------------------------------------------------------------------
(* The inductive invariant: typing, the queue discipline that makes Tail    *)
(* and Head safe, and the bound on the iterations main still has to run.    *)
IInv == TypeOK /\ QueueDiscipline /\ ResetBound

(* A payload on the wire belongs to a send still at the head of the send queue. *)
LEMMA WireFromFlow == QueueDiscipline => WireHasSend
  BY DEF QueueDiscipline, SendFlow, WireHasSend

(* The inductive invariant holds before the first call. *)
LEMMA InitIInv == Init => IInv
<1> SUFFICES ASSUME Init PROVE IInv
  OBVIOUS
<1>1. TypeOK
  BY TypeInit
<1>2. QueueDiscipline
  BY DEF Init, QueueDiscipline, RecvFlow, RecvDue, SendFlow, SendDue
<1>3. ResetBound
  BY DEF Init, ResetBound
<1> QED BY <1>1, <1>2, <1>3 DEF IInv

(* main resets the buffer at most total_iters times. *)
LEMMA ResetBoundStep ==
  ASSUME IInv, NEW r \in Ranks, Thread(r) \/ Fail(r) \/ NicStep(r)
  PROVE  ResetBound'
<1>0. pc \in [Ranks -> PCs] /\ call \in [Ranks -> 0..Iters] /\ Iters \in Nat /\ Iters >= 1
  BY ItersAssumption DEF IInv, TypeOK, ThreadType
<1>1. \A q \in Ranks : pc[q] = "reset" => call[q] < Iters
  BY DEF IInv, ResetBound
<1>2. CASE Sum(r)
  BY <1>0, <1>1, <1>2 DEF Sum, Goto, AfterRing, ResetBound
<1>3. CASE Check(r)
  BY <1>0, <1>1, <1>3 DEF Check, At, Goto, ResetBound
<1>4. CASE Reset(r)
  BY <1>0, <1>1, <1>4 DEF Reset, Goto, ResetBound
<1>5. CASE NicStep(r) \/ Teardown(r)
  BY <1>1, <1>5 DEF NicStep, Fetch, Accept, RnrNak, Place, Ack, RetryExceeded,
                    Teardown, ResetBound
<1>6. CASE PostFirst(r) \/ Send(r) \/ PollRecv(r) \/ ArmNext(r) \/ PollSend(r)
  BY <1>0, <1>1, <1>6 DEF PostFirst, Send, PollRecv, ArmNext, PollSend, Goto, ResetBound
<1>7. CASE BarrierRecv(r) \/ BarrierSend(r) \/ BarrierPollRecv(r) \/ BarrierPollSend(r)
  BY <1>0, <1>1, <1>7 DEF BarrierRecv, BarrierSend, BarrierPollRecv, BarrierPollSend,
                          Goto, ResetBound
<1>8. CASE PollSendError(r) \/ Fail(r)
  BY <1>0, <1>1, <1>8 DEF PollSendError, Fail, Goto, ResetBound
<1> QED BY <1>2, <1>3, <1>4, <1>5, <1>6, <1>7, <1>8 DEF Thread

(* The inductive invariant is preserved by every step of every rank and NIC. *)
LEMMA NextIInv == IInv /\ [Next]_vars => IInv'
<1> SUFFICES ASSUME IInv, [Next]_vars PROVE IInv'
  OBVIOUS
<1>1. TypeOK /\ QueueDiscipline /\ ResetBound /\ WireHasSend
  BY WireFromFlow DEF IInv
<1>2. ASSUME NEW r \in Ranks, Thread(r) \/ Fail(r) PROVE IInv'
  <2>1. TypeOK'
    BY <1>1, <1>2, TypeThread
  <2>2. QueueDiscipline'
    BY <1>1, <1>2, FlowThread
  <2>3. ResetBound'
    BY <1>2, ResetBoundStep
  <2> QED BY <2>1, <2>2, <2>3 DEF IInv
<1>3. ASSUME NEW r \in Ranks, NicStep(r) PROVE IInv'
  <2>1. TypeOK'
    BY <1>1, <1>3, TypeNic
  <2>2. QueueDiscipline'
    BY <1>1, <1>3, FlowNic
  <2>3. ResetBound'
    BY <1>3, ResetBoundStep
  <2> QED BY <2>1, <2>2, <2>3 DEF IInv
<1>4. CASE UNCHANGED vars
  <2>1. TypeOK'
    BY <1>1, <1>4 DEF vars, TypeOK, ThreadType, MemType, RecvType, SendType, AckType
  <2>2. QueueDiscipline'
    BY <1>1, <1>4 DEF vars, QueueDiscipline, RecvFlow, RecvDue, RecvLoc,
                      SendFlow, SendDue, SendLoc, Ended
  <2>3. ResetBound'
    BY <1>1, <1>4 DEF vars, ResetBound
  <2> QED BY <2>1, <2>2, <2>3 DEF IInv
<1> QED BY <1>2, <1>3, <1>4 DEF Next, AllGone

(* Every variable of RingPosted keeps its type: the chunk arithmetic never  *)
(* leaves the buffer, the calls never exceed Iters, and no step takes the   *)
(* head of an empty queue.                                                  *)
THEOREM TypeCorrect == Spec => []TypeOK
<1>1. IInv => TypeOK
  BY DEF IInv
<1> QED BY InitIInv, NextIInv, <1>1, PTL DEF Spec

(* ring_posted and world_barrier together never have more than one receive  *)
(* and one send outstanding per rank, always for the step the thread is at, *)
(* and leave nothing behind for the next call: for every ring size.         *)
THEOREM QueueDisciplineHolds == Spec => []QueueDiscipline
<1>1. IInv => QueueDiscipline
  BY DEF IInv
<1> QED BY InitIInv, NextIInv, <1>1, PTL DEF Spec

(* The receive armed before the sum is never the memory the sum uses: the   *)
(* other half of stage, or at the end of reduce-scatter another chunk.      *)
LEMMA ArmedElsewhere ==
  ASSUME NEW r \in Ranks, NEW t \in 0..(Steps - 1), Scatter(t)
  PROVE  RecvTarget(r, t + 1) \notin {Stage(t % 2), Buf(recv_chunk(r, t))}
<1>1. CASE Scatter(t + 1)
  <2>1. (t + 1) % 2 # t % 2
    BY StepsType
  <2> QED BY <1>1, <2>1 DEF RecvTarget, Stage, Buf
<1>2. CASE ~Scatter(t + 1)
  <2>1. t = N - 2 /\ t \in Int
    BY <1>2, NAssumption, StepsType DEF Scatter
  <2>2. recv_chunk(r, t + 1) = r % N
    BY <1>2, <2>1, NAssumption DEF recv_chunk, Scatter, Ranks
  <2>3. recv_chunk(r, t) = (r + 1) % N
    BY <2>1, NAssumption DEF recv_chunk, Scatter, Ranks
  <2>4. recv_chunk(r, t + 1) # recv_chunk(r, t)
    BY <2>2, <2>3, NAssumption DEF Ranks
  <2> QED BY <1>2, <2>4 DEF RecvTarget, Stage, Buf
<1> QED BY <1>1, <1>2

(* The queue discipline leaves no receive armed on memory the thread is about to use. *)
LEMMA DisciplineNoRace == IInv => NoDmaRace
<1> SUFFICES ASSUME IInv, NEW r \in Ranks
             PROVE  /\ NicWrites(r) \cap (CpuReads(r) \cup CpuWrites(r)) = {}
                    /\ NicReads(r) \cap CpuWrites(r) = {}
  BY DEF NoDmaRace
<1>0. RecvFlow(r) /\ SendFlow(r) /\ RecvType /\ SendType /\ AckType /\ ThreadType
  BY DEF IInv, QueueDiscipline, TypeOK
<1>1. CASE pc[r] = "sum" /\ Scatter(s[r])
  <2>1. s[r] \in 0..(Steps - 1)
    BY <1>0 DEF ThreadType
  <2>2. \A l \in NicWrites(r) : l = RecvTarget(r, s[r] + 1)
    BY <1>0, <1>1 DEF NicWrites, ToSet, RecvFlow, RecvLoc, BarrierPCs
  <2>3. sq[r] = << >>
    BY <1>0, <1>1, SendBefore DEF SendDue
  <2>4. /\ CpuReads(r) = {Stage(s[r] % 2), Buf(recv_chunk(r, s[r]))}
        /\ CpuWrites(r) = {Buf(recv_chunk(r, s[r]))}
    BY <1>1 DEF CpuReads, CpuWrites, At
  <2>5. NicReads(r) = {}
    BY <2>3 DEF NicReads, ToSet
  <2> QED BY <1>1, <2>1, <2>2, <2>4, <2>5, ArmedElsewhere
<1>2. CASE pc[r] \in {"check", "reset"}
  <2>1. rq[r] = << >> /\ landing[r] = << >>
    BY <1>0, <1>2, RecvBefore DEF RecvDue
  <2>2. sq[r] = << >>
    BY <1>0, <1>2, SendBefore DEF SendDue
  <2>3. NicWrites(r) = {} /\ NicReads(r) = {}
    BY <2>1, <2>2 DEF NicWrites, NicReads, ToSet
  <2> QED BY <2>3
<1>3. CASE ~(pc[r] = "sum" /\ Scatter(s[r])) /\ pc[r] \notin {"check", "reset"}
  <2>1. CpuReads(r) = {} /\ CpuWrites(r) = {}
    BY <1>3 DEF CpuReads, CpuWrites, At
  <2> QED BY <2>1
<1> QED BY <1>1, <1>2, <1>3

(* No data race between the thread and the NIC, for every ring size: what   *)
(* the sum, the reset and the check touch is never the target of a posted   *)
(* receive, and what they write is never the source of an unsent chunk.     *)
THEOREM NoDmaRaceHolds == Spec => []NoDmaRace
BY InitIInv, NextIInv, DisciplineNoRace, PTL DEF Spec

-----------------------------------------------------------------------------
(* How far neighbours drift apart.  The messages from a rank to its right   *)
(* neighbour are numbered <<k, t>>: step t of call k, and step -1 is the    *)
(* byte of the barrier before call k.  Nothing in the program numbers them, *)
(* so the proof reads the numbers off the state of the two ends: SendNext   *)
(* is the next message of r its neighbour has not accepted, RecvNext the    *)
(* next one r has not accepted itself.                                      *)

After(k, t) == IF t + 1 < Steps THEN <<k, t + 1>> ELSE <<k + 1, -1>>

SendNext(r) ==
  IF sq[r] # << >> THEN <<call[r], IF sq[r][1] = Scratch THEN -1 ELSE s[r]>>
  ELSE IF pc[r] = "send" THEN <<call[r], s[r]>>
  ELSE IF pc[r] \in RingPCs THEN After(call[r], s[r])
  ELSE IF pc[r] \in {"brecv", "bsend"} THEN <<call[r], -1>>
  ELSE IF pc[r] \in {"bpollr", "bpolls", "post"} THEN <<call[r], 0>>
  ELSE <<call[r] + 1, -1>>

RecvNext(r) ==
  IF rq[r] # << >>
  THEN <<call[r], IF rq[r][1] = Scratch THEN -1
                  ELSE IF rq[r][1] = RecvTarget(r, s[r]) THEN s[r] ELSE s[r] + 1>>
  ELSE IF pc[r] \in {"polls", "sum"} /\ s[r] + 1 < Steps THEN After(call[r], s[r] + 1)
  ELSE IF pc[r] \in RingPCs THEN After(call[r], s[r])
  ELSE IF pc[r] = "brecv" THEN <<call[r], -1>>
  ELSE IF pc[r] \in {"bsend", "bpollr", "bpolls", "post"} THEN <<call[r], 0>>
  ELSE <<call[r] + 1, -1>>

\* A thread that has failed posts nothing more, but what it had posted may
\* still be sent, or taken.
Sending(r) == pc[r] # "failed" \/ sq[r] # << >>
Taking(r)  == pc[r] # "failed" \/ rq[r] # << >>

\* The two ends of a connection agree on the next message.
InStep == \A r \in Ranks : Sending(r) /\ Taking(Right(r)) => SendNext(r) = RecvNext(Right(r))

\* What QueueDiscipline says of a thread that runs, in so far as it stays true
\* after a failure.
Queued(r) ==
  /\ Len(sq[r]) <= 1 /\ Len(rq[r]) <= 1
  /\ sq[r] # << >> => sq[r][1] \in {Scratch, Buf(send_chunk(r, s[r]))}
  /\ rq[r] # << >> => \/ rq[r][1] \in {Scratch, RecvTarget(r, s[r])}
                      \/ s[r] + 1 < Steps /\ rq[r][1] = RecvTarget(r, s[r] + 1)
OnWire(r) == wire[r] # << >> => Head(wire[r])[1] = sq[r][1]
Closed(r) == ~up[r] => rq[r] = << >> /\ sq[r] = << >>
Ends(r)   == /\ pc[r] = "check" => call[r] \in {0, Iters}
             /\ pc[r] = "done" => call[r] = Iters

AllPosted == \A r \in Ranks : Queued(r) /\ OnWire(r) /\ Closed(r) /\ Ends(r)

\* A rank sends the chunk of a step only when it has the chunks of all steps
\* before: its left neighbour's next message is of this step or a later one.
AtLeast(p, k, t) == p[1] > k \/ (p[1] = k /\ p[2] >= t)
Caught ==
  \A r \in Ranks :
    Sending(r) /\ sq[Right(r)] # << >> /\ sq[Right(r)][1] # Scratch
      => AtLeast(SendNext(r), call[Right(r)], s[Right(r)])

\* A barrier byte that was accepted found its receiver at the barrier, and
\* came from a sender at the barrier.
Past   == RingPCs \cup {"post", "check", "reset", "done"}
Sent(r) == pc[r] \in Past \/ (pc[r] \in {"bpollr", "bpolls"} /\ unacked[r] + scq[r] > 0)
Got(r)  == pc[r] \in Past \cup {"bpolls"} \/ (pc[r] \in {"bsend", "bpollr"} /\ rq[r] = << >>)
Crossed ==
  \A r \in Ranks : call[r] > 0 => /\ Sent(r) => Arrived(Right(r), call[r])
                                  /\ Got(r) => Arrived(Left(r), call[r])

Drift == IInv /\ AllPosted /\ InStep /\ Caught /\ Crossed /\ NoNicOverlap

-----------------------------------------------------------------------------
(* Neighbours are each other's.                                             *)
LEMMA Neighbours ==
  ASSUME NEW r \in Ranks
  PROVE  /\ Left(r) \in Ranks /\ Right(Left(r)) = r /\ Left(Right(r)) = r /\ Left(r) # r
         /\ N = 2 => Left(r) = Right(r)
<1>1. N \in Nat /\ N >= 2 /\ r \in 0..(N - 1)
  BY NAssumption DEF Ranks
<1>2. Left(r) = IF r = 0 THEN N - 1 ELSE r - 1
  BY <1>1 DEF Left
<1>3. Right(r) = IF r = N - 1 THEN 0 ELSE r + 1
  BY <1>1 DEF Right
<1>4. Right(Left(r)) = r
  BY <1>1, <1>2 DEF Right
<1>5. Left(Right(r)) = r
  BY <1>1, <1>3 DEF Left
<1> QED BY <1>1, <1>2, <1>3, <1>4, <1>5 DEF Ranks

(* The chunks a step touches: what it receives is never what it sends, and  *)
(* what the next step receives is what this one sends for two ranks only.   *)
LEMMA ChunksApart ==
  ASSUME NEW r \in Ranks, NEW t \in 0..(Steps - 1)
  PROVE  /\ recv_chunk(r, t) # send_chunk(r, t)
         /\ t + 1 < Steps /\ ~Scatter(t + 1) /\ N > 2 => recv_chunk(r, t + 1) # send_chunk(r, t)
         /\ t + 1 < Steps /\ ~Scatter(t) => recv_chunk(r, t + 1) # recv_chunk(r, t)
<1>1. N \in Nat /\ N >= 2 /\ r \in 0..(N - 1) /\ t \in 0..(2 * (N - 1) - 1) /\ t \in Int
  BY NAssumption DEF Ranks, Steps
<1>2. CASE Scatter(t)
  <2>0. t <= N - 2
    BY <1>1, <1>2 DEF Scatter
  <2>1. send_chunk(r, t) = IF r - t < 0 THEN r - t + N ELSE r - t
    <3>1. send_chunk(r, t) = (r - t + N) % N
      BY <1>2 DEF send_chunk
    <3> QED BY <1>1, <2>0, <3>1, Wrap
  <2>2. recv_chunk(r, t) = IF r - t - 1 < 0 THEN r - t - 1 + N ELSE r - t - 1
    <3>1. recv_chunk(r, t) = (r - t - 1 + N) % N
      BY <1>2 DEF recv_chunk
    <3> QED BY <1>1, <2>0, <3>1, Wrap
  <2>3. ~Scatter(t + 1) => t = N - 2 /\ recv_chunk(r, t + 1) = r
    <3> SUFFICES ASSUME ~Scatter(t + 1) PROVE t = N - 2 /\ recv_chunk(r, t + 1) = r
      OBVIOUS
    <3>1. t = N - 2
      BY <1>1, <2>0 DEF Scatter
    <3>2. recv_chunk(r, t + 1) = (r - (t + 1 - (N - 1)) + N) % N
      BY <1>1 DEF recv_chunk
    <3>3. r - (t + 1 - (N - 1)) + N = r + N
      BY <1>1, <3>1
    <3>4. (r + N) % N = r
      BY <1>1, Wrap
    <3> QED BY <3>1, <3>2, <3>3, <3>4
  <2> QED BY <1>1, <1>2, <2>0, <2>1, <2>2, <2>3
<1>3. CASE ~Scatter(t)
  <2> DEFINE g == t - (N - 1)
  <2>0. g \in 0..(N - 2) /\ ~Scatter(t + 1) /\ (t + 1 < Steps => g + 1 <= N - 2)
    BY <1>1, <1>3 DEF Scatter, Steps
  <2>1. send_chunk(r, t) = (r - g + 1 + N) % N /\ recv_chunk(r, t) = (r - g + N) % N
    BY <1>3 DEF send_chunk, recv_chunk
  <2>2. recv_chunk(r, t + 1) = (r - (g + 1) + N) % N
    <3>1. recv_chunk(r, t + 1) = (r - (t + 1 - (N - 1)) + N) % N
      BY <1>1, <2>0 DEF recv_chunk
    <3>2. t + 1 - (N - 1) = g + 1
      BY <1>1
    <3> QED BY <3>1, <3>2
  <2> HIDE DEF g
  <2>3. recv_chunk(r, t) = IF r - g < 0 THEN r - g + N ELSE r - g
    BY <1>1, <2>0, <2>1, Wrap
  <2>4. recv_chunk(r, t + 1) = IF r - g - 1 < 0 THEN r - g - 1 + N ELSE r - g - 1
    BY <1>1, <2>0, <2>2, Wrap
  <2>5. send_chunk(r, t) = IF r - g + 1 < 0 THEN r - g + 1 + N
                           ELSE IF r - g + 1 < N THEN r - g + 1 ELSE 0
    BY <1>1, <2>0, <2>1, Wrap
  <2> QED BY <1>1, <2>0, <2>3, <2>4, <2>5
<1> QED BY <1>2, <1>3

(* And the memory receives are posted on: neighbouring steps never share it. *)
LEMMA TargetsApart ==
  ASSUME NEW r \in Ranks, NEW t \in 0..(Steps - 1)
  PROVE  /\ \A u \in Nat : RecvTarget(r, u) # Scratch
         /\ \A c \in Chunks : Buf(c) # Scratch
         /\ t + 1 < Steps => RecvTarget(r, t + 1) # RecvTarget(r, t)
         /\ RecvTarget(r, t) # Buf(send_chunk(r, t))
         /\ t + 1 < Steps /\ N > 2 => RecvTarget(r, t + 1) # Buf(send_chunk(r, t))
<1>0. t \in Int /\ N \in Int
  BY NAssumption, StepsType
<1>1. (\A u \in Nat : RecvTarget(r, u) # Scratch) /\ \A c \in Chunks : Buf(c) # Scratch
  BY DEF RecvTarget, Scratch, Buf, Stage
<1>2. t + 1 < Steps => RecvTarget(r, t + 1) # RecvTarget(r, t)
  <2>1. CASE Scatter(t + 1)
    <3>1. Scatter(t) /\ (t + 1) % 2 # t % 2
      BY <1>0, <2>1, StepsType DEF Scatter
    <3> QED BY <2>1, <3>1 DEF RecvTarget, Stage
  <2>2. CASE ~Scatter(t + 1) /\ Scatter(t)
    BY <2>2 DEF RecvTarget, Stage, Buf
  <2>3. CASE ~Scatter(t + 1) /\ ~Scatter(t)
    BY <2>3, ChunksApart DEF RecvTarget, Buf
  <2> QED BY <1>0, <2>1, <2>2, <2>3 DEF Scatter
<1>3. RecvTarget(r, t) # Buf(send_chunk(r, t))
  BY ChunksApart DEF RecvTarget, Stage, Buf
<1>4. t + 1 < Steps /\ N > 2 => RecvTarget(r, t + 1) # Buf(send_chunk(r, t))
  BY ChunksApart DEF RecvTarget, Stage, Buf
<1> QED BY <1>1, <1>2, <1>3, <1>4

(* The numbers of a rank, for the provers.                                  *)
LEMMA RankTypes ==
  ASSUME TypeOK, NEW r \in Ranks
  PROVE  /\ pc[r] \in PCs /\ call[r] \in Nat /\ call[r] <= Iters /\ Iters \in Nat /\ Iters >= 1
         /\ s[r] \in 0..(Steps - 1) /\ s[r] \in Nat /\ Steps \in Nat /\ Steps >= 2
         /\ sq[r] \in Seq(Loc) /\ rq[r] \in Seq(Loc) /\ landing[r] \in Seq(Loc \X Value)
         /\ wire[r] \in Seq(Loc \X Value)
         /\ unacked[r] \in Nat /\ scq[r] \in Nat /\ scerr[r] \in Nat /\ rcq[r] \in Nat
<1>1. ThreadType /\ RecvType /\ SendType /\ AckType
  BY DEF TypeOK
<1>2. Steps \in Nat /\ Steps >= 2 /\ Iters \in Nat /\ Iters >= 1
  BY StepsType, ItersAssumption
<1>3. pc[r] \in PCs /\ call[r] \in 0..Iters /\ s[r] \in 0..(Steps - 1)
  BY <1>1 DEF ThreadType
<1>4. /\ sq[r] \in Seq(Loc) /\ rq[r] \in Seq(Loc) /\ landing[r] \in Seq(Loc \X Value)
      /\ wire[r] \in Seq(Loc \X Value)
      /\ unacked[r] \in Nat /\ scq[r] \in Nat /\ scerr[r] \in Nat /\ rcq[r] \in Nat
  BY <1>1 DEF RecvType, SendType, AckType
<1> QED BY <1>2, <1>3, <1>4

(* What a statement of r's thread does to what r has posted, and when.      *)
Stands(r) == call'[r] = call[r] /\ s'[r] = s[r]
QueuesStand(r) == sq'[r] = sq[r] /\ rq'[r] = rq[r]

(* At most one of several counters that add up to at most one.              *)
LEMMA OneAtMost ==
  ASSUME NEW a \in Nat, NEW b \in Nat, NEW c \in Nat, NEW d \in Nat, NEW e \in {0, 1},
         a + b + c + d = e
  PROVE  (d # 0 => d = 1 /\ e = 1) /\ (b > 0 \/ c > 0 => d = 0)
  OBVIOUS

(* The queues of a running thread by its place: which are empty, and what   *)
(* a queue that is not holds.                                               *)
LEMMA QueuesAt ==
  ASSUME IInv, NEW r \in Ranks, pc[r] # "failed"
  PROVE  /\ RecvDue(r) = 0 => rq[r] = << >> /\ landing[r] = << >>
         /\ SendDue(r) = 0 => sq[r] = << >> /\ unacked[r] = 0 /\ scq[r] = 0
         /\ rcq[r] > 0 => rq[r] = << >>
         /\ scq[r] > 0 \/ scerr[r] > 0 => sq[r] = << >>
         /\ rq[r] # << >> => rq[r][1] = RecvLoc(r) /\ RecvDue(r) = 1 /\ Len(rq[r]) = 1
         /\ sq[r] # << >> => sq[r][1] = SendLoc(r) /\ SendDue(r) = 1 /\ Len(sq[r]) = 1
<1>1. TypeOK /\ RecvFlow(r) /\ SendFlow(r) /\ RecvType /\ SendType /\ AckType
  BY DEF IInv, QueueDiscipline, TypeOK
<1>2. /\ rcq[r] \in Nat /\ unacked[r] \in Nat /\ scq[r] \in Nat /\ scerr[r] \in Nat
      /\ Len(rq[r]) \in Nat /\ Len(landing[r]) \in Nat /\ Len(sq[r]) \in Nat
      /\ (rq[r] = << >> <=> Len(rq[r]) = 0) /\ (sq[r] = << >> <=> Len(sq[r]) = 0)
  <2>1. /\ rq[r] \in Seq(Loc) /\ sq[r] \in Seq(Loc) /\ landing[r] \in Seq(Loc \X Value)
        /\ rcq[r] \in Nat /\ unacked[r] \in Nat /\ scq[r] \in Nat /\ scerr[r] \in Nat
    BY <1>1, RankTypes
  <2> QED BY <2>1
<1>3. RecvDue(r) \in {0, 1} /\ SendDue(r) \in {0, 1}
  BY DEF RecvDue, SendDue
<1>4. /\ rcq[r] + Len(rq[r]) + Len(landing[r]) = RecvDue(r)
      /\ \A i \in 1..Len(rq[r]) : rq[r][i] = RecvLoc(r)
  BY <1>1 DEF RecvFlow
<1>5. /\ unacked[r] + scq[r] + scerr[r] + Len(sq[r]) = SendDue(r)
      /\ \A i \in 1..Len(sq[r]) : sq[r][i] = SendLoc(r)
  BY <1>1 DEF SendFlow
<1>6. RecvDue(r) = 0 => rq[r] = << >> /\ landing[r] = << >>
  BY <1>1, RecvBefore
<1>7. SendDue(r) = 0 => sq[r] = << >> /\ unacked[r] = 0 /\ scq[r] = 0
  BY <1>1, SendBefore
<1>8. /\ rcq[r] > 0 => rq[r] = << >>
      /\ rq[r] # << >> => RecvDue(r) = 1 /\ Len(rq[r]) = 1
  <2> DEFINE n == Len(rq[r])
             m == Len(landing[r])
  <2>1. n \in Nat /\ m \in Nat /\ rcq[r] \in Nat /\ RecvDue(r) \in {0, 1}
    BY <1>2, <1>3
  <2>2. rcq[r] + n + m = RecvDue(r)
    BY <1>4
  <2>3. (rcq[r] > 0 => n = 0) /\ (n # 0 => n = 1 /\ RecvDue(r) = 1)
    <3> HIDE DEF n, m
    <3> QED BY <2>1, <2>2
  <2> QED BY <1>2, <2>3
<1>9. /\ scq[r] > 0 \/ scerr[r] > 0 => sq[r] = << >>
      /\ sq[r] # << >> => SendDue(r) = 1 /\ Len(sq[r]) = 1
  <2> DEFINE n == Len(sq[r])
  <2>1. unacked[r] + scq[r] + scerr[r] + n = SendDue(r)
    BY <1>5
  <2>2. n \in Nat
    BY <1>2
  <2>3. (n # 0 => n = 1 /\ SendDue(r) = 1) /\ (scq[r] > 0 \/ scerr[r] > 0 => n = 0)
    <3> HIDE DEF n
    <3> QED BY <1>2, <1>3, <2>1, <2>2, OneAtMost
  <2> QED BY <1>2, <2>3
<1>10. rq[r] # << >> => rq[r][1] = RecvLoc(r)
  BY <1>4, <1>8
<1>11. sq[r] # << >> => sq[r][1] = SendLoc(r)
  BY <1>5, <1>9
<1> QED BY <1>6, <1>7, <1>8, <1>9, <1>10, <1>11

(* No statement of a thread changes the next message it is to send or to    *)
(* take: that is the NIC's doing.  A thread that fails keeps what it had    *)
(* posted and posts no more.                                                *)
KeepsPlace(r) ==
  /\ Sending(r)' => Sending(r) /\ SendNext(r)' = SendNext(r)
  /\ Taking(r)' => Taking(r) /\ RecvNext(r)' = RecvNext(r)

(* Statements that neither post nor move on to another step.                *)
LEMMA PlaceSame ==
  ASSUME NEW r \in Ranks, pc[r] # "failed", Stands(r), QueuesStand(r),
         pc'[r] # "failed" /\ sq[r] = << >> => SendNext(r)' = SendNext(r),
         pc'[r] # "failed" /\ rq[r] = << >> => RecvNext(r)' = RecvNext(r)
  PROVE  KeepsPlace(r)
<1>1. Sending(r) /\ Taking(r)
  BY DEF Sending, Taking
<1>2. sq[r] # << >> => SendNext(r)' = SendNext(r)
  BY DEF Stands, QueuesStand, SendNext
<1>3. rq[r] # << >> => RecvNext(r)' = RecvNext(r)
  BY DEF Stands, QueuesStand, RecvNext
<1>4. /\ Sending(r)' => (pc'[r] # "failed" \/ sq[r] # << >>)
      /\ Taking(r)' => (pc'[r] # "failed" \/ rq[r] # << >>)
  BY DEF Sending, Taking, QueuesStand
<1> QED BY <1>1, <1>2, <1>3, <1>4 DEF KeepsPlace

(* A statement after which the thread runs on.                              *)
LEMMA PlacePosts ==
  ASSUME NEW r \in Ranks, pc[r] # "failed", pc'[r] # "failed",
         SendNext(r)' = SendNext(r), RecvNext(r)' = RecvNext(r)
  PROVE  KeepsPlace(r)
  BY DEF KeepsPlace, Sending, Taking

(* A step of the loop of ring_posted, of the barrier, of main: one case each. *)
LEMMA ThreadKeepsPlace ==
  ASSUME IInv, NEW r \in Ranks, Thread(r) \/ Fail(r)
  PROVE  KeepsPlace(r)
<1>0. ThreadType /\ MemType /\ RecvType /\ SendType /\ AckType /\ TypeOK
  BY DEF IInv, TypeOK
<1>t. /\ pc[r] \in PCs /\ call[r] \in Nat /\ s[r] \in 0..(Steps - 1) /\ s[r] \in Nat
      /\ Steps \in Nat /\ Steps >= 2
      /\ sq[r] \in Seq(Loc) /\ rq[r] \in Seq(Loc)
  BY <1>0, RankTypes
<1>u. /\ \A u \in Nat : RecvTarget(r, u) # Scratch
      /\ \A c \in Chunks : Buf(c) # Scratch
      /\ s[r] + 1 < Steps => RecvTarget(r, s[r] + 1) # RecvTarget(r, s[r])
      /\ send_chunk(r, s[r]) \in Chunks
  BY <1>t, TargetsApart, ChunkType
<1> USE DEF At, Goto
<1>1. CASE PostFirst(r)
  <2>1. /\ pc[r] = "post" /\ pc'[r] = "send" /\ s'[r] = 0 /\ call'[r] = call[r]
        /\ sq'[r] = sq[r] /\ rq'[r] = Append(rq[r], RecvTarget(r, 0))
    BY <1>0, <1>1 DEF PostFirst, recv_async, ThreadType, RecvType
  <2>2. sq[r] = << >> /\ rq[r] = << >>
    BY <2>1, QueuesAt DEF RecvDue, SendDue
  <2>3. rq'[r] # << >> /\ rq'[r][1] = RecvTarget(r, 0)
    BY <2>1, <2>2
  <2>4. SendNext(r)' = SendNext(r)
    BY <2>1, <2>2 DEF SendNext, RingPCs
  <2>5. RecvNext(r)' = RecvNext(r)
    BY <1>u, <2>1, <2>2, <2>3 DEF RecvNext, RingPCs
  <2> QED BY <2>1, <2>4, <2>5, PlacePosts
<1>2. CASE Send(r)
  <2>1. /\ pc[r] = "send" /\ pc'[r] = "pollr" /\ s'[r] = s[r] /\ call'[r] = call[r]
        /\ sq'[r] = Append(sq[r], Buf(send_chunk(r, s[r]))) /\ rq'[r] = rq[r]
    BY <1>0, <1>2 DEF Send, send_async, ThreadType, SendType
  <2>2. sq[r] = << >>
    BY <2>1, QueuesAt DEF SendDue
  <2>3. sq'[r] # << >> /\ sq'[r][1] = Buf(send_chunk(r, s[r]))
    BY <2>1, <2>2
  <2>4. SendNext(r)' = SendNext(r)
    BY <1>u, <2>1, <2>2, <2>3 DEF SendNext
  <2>5. RecvNext(r)' = RecvNext(r)
    BY <2>1 DEF RecvNext, RingPCs
  <2> QED BY <2>1, <2>4, <2>5, PlacePosts
<1>3. CASE PollRecv(r)
  <2>1. pc[r] = "pollr" /\ pc'[r] = "arm" /\ Stands(r) /\ QueuesStand(r)
    BY <1>0, <1>3 DEF PollRecv, ThreadType, Stands, QueuesStand
  <2>2. SendNext(r)' = SendNext(r) /\ RecvNext(r)' = RecvNext(r)
    <3>1. rq[r] = << >>
      BY <1>3, <2>1, QueuesAt DEF PollRecv, poll_left
    <3> QED BY <2>1, <3>1 DEF SendNext, RecvNext, RingPCs, Stands, QueuesStand
  <2> QED BY <2>1, <2>2, PlacePosts
<1>4. CASE ArmNext(r)
  <2>1. pc[r] = "arm" /\ pc'[r] = "polls" /\ Stands(r) /\ sq'[r] = sq[r]
    BY <1>0, <1>4 DEF ArmNext, ThreadType, Stands
  <2>2. rq[r] = << >>
    BY <2>1, QueuesAt DEF RecvDue
  <2>3. SendNext(r)' = SendNext(r)
    BY <2>1 DEF SendNext, RingPCs, Stands
  <2>4. RecvNext(r)' = RecvNext(r)
    <3>1. CASE s[r] + 1 < Steps
      <4>1. rq'[r] = Append(rq[r], RecvTarget(r, s[r] + 1))
        BY <1>0, <1>4, <3>1 DEF ArmNext, recv_async, RecvType
      <4>2. rq'[r] # << >> /\ rq'[r][1] = RecvTarget(r, s[r] + 1)
        BY <2>2, <4>1
      <4>3. s[r] + 1 \in Nat
        BY <1>t
      <4>4. RecvNext(r)' = <<call[r], s[r] + 1>>
        BY <1>u, <2>1, <3>1, <4>2, <4>3 DEF RecvNext, Stands
      <4>5. RecvNext(r) = <<call[r], s[r] + 1>>
        BY <2>1, <2>2, <3>1 DEF RecvNext, RingPCs, After
      <4> QED BY <4>4, <4>5
    <3>2. CASE ~(s[r] + 1 < Steps)
      <4>1. rq'[r] = rq[r]
        BY <1>4, <3>2 DEF ArmNext
      <4> QED BY <2>1, <2>2, <3>2, <4>1 DEF RecvNext, RingPCs, Stands
    <3> QED BY <3>1, <3>2
  <2> QED BY <2>1, <2>3, <2>4, PlacePosts
<1>5. CASE PollSend(r)
  <2>1. pc[r] = "polls" /\ pc'[r] = "sum" /\ Stands(r) /\ QueuesStand(r)
    BY <1>0, <1>5 DEF PollSend, ThreadType, Stands, QueuesStand
  <2>2. SendNext(r)' = SendNext(r) /\ RecvNext(r)' = RecvNext(r)
    BY <2>1 DEF SendNext, RecvNext, RingPCs, Stands, QueuesStand
  <2> QED BY <2>1, <2>2, PlacePosts
<1>6. CASE Sum(r)
  <2>1. pc[r] = "sum" /\ call'[r] = call[r] /\ QueuesStand(r)
    BY <1>6 DEF Sum, QueuesStand
  <2>2. sq[r] = << >>
    BY <2>1, QueuesAt DEF SendDue
  <2>3. CASE s[r] + 1 < Steps
    <3>1. pc'[r] = "send" /\ s'[r] = s[r] + 1
      BY <1>0, <1>6, <2>3 DEF Sum, ThreadType
    <3>2. SendNext(r)' = SendNext(r)
      BY <2>1, <2>2, <2>3, <3>1 DEF SendNext, RingPCs, After, QueuesStand
    <3>3. RecvNext(r)' = RecvNext(r)
      <4>1. CASE rq[r] = << >>
        BY <2>1, <2>3, <3>1, <4>1 DEF RecvNext, RingPCs, QueuesStand
      <4>2. CASE rq[r] # << >>
        <5>1. rq[r][1] = RecvTarget(r, s[r] + 1)
          BY <2>1, <4>2, QueuesAt DEF RecvLoc, BarrierPCs
        <5>2. s[r] + 1 \in Nat
          BY <1>t
        <5>3. RecvNext(r) = <<call[r], s[r] + 1>>
          BY <1>u, <2>1, <2>3, <4>2, <5>1, <5>2 DEF RecvNext
        <5>4. RecvNext(r)' = <<call[r], s[r] + 1>>
          BY <1>u, <2>1, <3>1, <4>2, <5>1, <5>2 DEF RecvNext, QueuesStand
        <5> QED BY <5>3, <5>4
      <4> QED BY <4>1, <4>2
    <3> QED BY <2>1, <3>1, <3>2, <3>3, PlacePosts
  <2>4. CASE ~(s[r] + 1 < Steps)
    <3>1. pc'[r] \in {"check", "reset"} /\ s'[r] = s[r]
      BY <1>0, <1>6, <2>4 DEF Sum, ThreadType, AfterRing
    <3>2. rq[r] = << >>
      BY <2>1, <2>4, QueuesAt DEF RecvDue
    <3>3. SendNext(r)' = SendNext(r)
      BY <2>1, <2>2, <2>4, <3>1 DEF SendNext, RingPCs, After, QueuesStand
    <3>4. RecvNext(r)' = RecvNext(r)
      BY <2>1, <2>4, <3>1, <3>2 DEF RecvNext, RingPCs, After, QueuesStand
    <3> QED BY <2>1, <3>1, <3>3, <3>4, PlacePosts
  <2> QED BY <2>3, <2>4
<1>7. CASE Check(r)
  <2>1. /\ pc[r] = "check" /\ pc'[r] \in {"failed", "reset", "done"}
        /\ Stands(r) /\ QueuesStand(r)
    BY <1>0, <1>7 DEF Check, ThreadType, Stands, QueuesStand
  <2>2. pc'[r] # "failed" => SendNext(r)' = SendNext(r) /\ RecvNext(r)' = RecvNext(r)
    BY <2>1 DEF SendNext, RecvNext, RingPCs, Stands, QueuesStand
  <2> QED BY <2>1, <2>2, PlaceSame
<1>8. CASE Reset(r)
  <2>1. /\ pc[r] = "reset" /\ pc'[r] = "brecv" /\ call'[r] = call[r] + 1
        /\ QueuesStand(r)
    BY <1>0, <1>8 DEF Reset, ThreadType, QueuesStand
  <2>2. sq[r] = << >> /\ rq[r] = << >>
    BY <2>1, QueuesAt DEF SendDue, RecvDue
  <2>3. SendNext(r)' = SendNext(r) /\ RecvNext(r)' = RecvNext(r)
    BY <2>1, <2>2 DEF SendNext, RecvNext, RingPCs, QueuesStand
  <2> QED BY <2>1, <2>3, PlacePosts
<1>9. CASE BarrierRecv(r)
  <2>1. /\ pc[r] = "brecv" /\ pc'[r] = "bsend" /\ Stands(r) /\ sq'[r] = sq[r]
        /\ rq'[r] = Append(rq[r], Scratch)
    BY <1>0, <1>9 DEF BarrierRecv, recv_async, ThreadType, RecvType, Stands
  <2>2. sq[r] = << >> /\ rq[r] = << >>
    BY <2>1, QueuesAt DEF SendDue, RecvDue
  <2>3. rq'[r] # << >> /\ rq'[r][1] = Scratch
    BY <2>1, <2>2
  <2>4. SendNext(r)' = SendNext(r) /\ RecvNext(r)' = RecvNext(r)
    BY <2>1, <2>2, <2>3 DEF SendNext, RecvNext, RingPCs, Stands
  <2> QED BY <2>1, <2>4, PlacePosts
<1>10. CASE BarrierSend(r)
  <2>1. /\ pc[r] = "bsend" /\ pc'[r] = "bpollr" /\ Stands(r) /\ rq'[r] = rq[r]
        /\ sq'[r] = Append(sq[r], Scratch)
    BY <1>0, <1>10 DEF BarrierSend, send_async, ThreadType, SendType, Stands
  <2>2. sq[r] = << >>
    BY <2>1, QueuesAt DEF SendDue
  <2>3. sq'[r] # << >> /\ sq'[r][1] = Scratch
    BY <2>1, <2>2
  <2>4. SendNext(r)' = SendNext(r) /\ RecvNext(r)' = RecvNext(r)
    BY <2>1, <2>2, <2>3 DEF SendNext, RecvNext, RingPCs, Stands
  <2> QED BY <2>1, <2>4, PlacePosts
<1>11. CASE BarrierPollRecv(r)
  <2>1. pc[r] = "bpollr" /\ pc'[r] = "bpolls" /\ Stands(r) /\ QueuesStand(r)
    BY <1>0, <1>11 DEF BarrierPollRecv, ThreadType, Stands, QueuesStand
  <2>2. SendNext(r)' = SendNext(r) /\ RecvNext(r)' = RecvNext(r)
    BY <2>1 DEF SendNext, RecvNext, RingPCs, Stands, QueuesStand
  <2> QED BY <2>1, <2>2, PlacePosts
<1>12. CASE BarrierPollSend(r)
  <2>1. pc[r] = "bpolls" /\ pc'[r] = "post" /\ Stands(r) /\ QueuesStand(r)
    BY <1>0, <1>12 DEF BarrierPollSend, ThreadType, Stands, QueuesStand
  <2>2. SendNext(r)' = SendNext(r) /\ RecvNext(r)' = RecvNext(r)
    BY <2>1 DEF SendNext, RecvNext, RingPCs, Stands, QueuesStand
  <2> QED BY <2>1, <2>2, PlacePosts
<1>13. CASE PollSendError(r)
  <2>1. pc[r] # "failed" /\ pc'[r] = "failed" /\ Stands(r) /\ QueuesStand(r)
    BY <1>0, <1>13 DEF PollSendError, ThreadType, Stands, QueuesStand
  <2> QED BY <2>1, PlaceSame
<1>14. CASE Teardown(r)
  <2>1. /\ pc[r] \in {"done", "failed"} /\ pc'[r] = pc[r] /\ Stands(r)
        /\ sq'[r] = << >> /\ rq'[r] = << >>
    BY <1>0, <1>14 DEF Teardown, Ended, ThreadType, RecvType, SendType, Stands
  <2>2. CASE pc[r] = "failed"
    BY <2>1, <2>2 DEF KeepsPlace, Sending, Taking
  <2>3. CASE pc[r] = "done"
    <3>1. sq[r] = << >> /\ rq[r] = << >>
      BY <2>3, QueuesAt DEF SendDue, RecvDue
    <3>2. SendNext(r)' = SendNext(r) /\ RecvNext(r)' = RecvNext(r)
      BY <2>1, <2>3, <3>1 DEF SendNext, RecvNext, Stands
    <3> QED BY <2>1, <2>3, <3>2, PlacePosts
  <2> QED BY <2>1, <2>2, <2>3
<1>15. CASE Fail(r)
  <2>1. pc[r] # "failed" /\ pc'[r] = "failed" /\ Stands(r) /\ QueuesStand(r)
    BY <1>0, <1>15 DEF Fail, Ended, ThreadType, Stands, QueuesStand
  <2> QED BY <2>1, PlaceSame
<1> QED BY <1>1, <1>2, <1>3, <1>4, <1>5, <1>6, <1>7, <1>8, <1>9, <1>10,
           <1>11, <1>12, <1>13, <1>14, <1>15 DEF Thread

(* What a statement does to its rank besides: it posts at most one send, on *)
(* an empty queue, and never moves what the NIC has on the wire.            *)
Effect(r) ==
  /\ wire'[r] = wire[r] \/ wire'[r] = << >>
  /\ \/ sq'[r] = sq[r] \/ sq'[r] = << >>
     \/ sq[r] = << >> /\ pc[r] = "send" /\ Stands(r) /\ sq'[r] = <<Buf(send_chunk(r, s[r]))>>
     \/ sq[r] = << >> /\ sq'[r] = <<Scratch>>
  /\ sq[r] # << >> /\ sq'[r] # << >> => Stands(r)
  /\ pc'[r] = "failed" => \/ Stands(r) /\ sq'[r] = sq[r] /\ rq'[r] = rq[r]
                          \/ sq'[r] = << >> /\ rq'[r] = << >>
  /\ ~up'[r] => (sq'[r] = << >> /\ rq'[r] = << >>)
  /\ landing'[r] = landing[r] \/ landing'[r] = << >>
  /\ Ends(r)'

(* One case per statement.                                                  *)
LEMMA ThreadEffect ==
  ASSUME IInv, NEW r \in Ranks, Ends(r), Thread(r) \/ Fail(r)
  PROVE  Effect(r)
<1>0. ThreadType /\ MemType /\ RecvType /\ SendType /\ AckType /\ TypeOK
  BY DEF IInv, TypeOK
<1>t. pc[r] \in PCs /\ call[r] \in Nat /\ s[r] \in Nat /\ sq[r] \in Seq(Loc) /\ rq[r] \in Seq(Loc)
  BY <1>0, RankTypes
<1>q. pc[r] # "failed" /\ SendDue(r) = 0 => sq[r] = << >>
  BY QueuesAt
<1>p. pc[r] # "failed" /\ (scq[r] > 0 \/ scerr[r] > 0) => sq[r] = << >>
  BY QueuesAt
<1>e. up[r] \in BOOLEAN /\ (~up[r] => pc[r] \in {"done", "failed"})
  BY <1>0 DEF IInv, QueueDiscipline, Ended, MemType
<1>b. Buf(send_chunk(r, s[r])) \in Loc
  <2>1. s[r] \in 0..(Steps - 1) /\ Steps \in Nat
    BY <1>0, RankTypes
  <2>2. send_chunk(r, s[r]) \in Chunks
    BY <2>1, ChunkType
  <2> QED BY <2>2 DEF Buf, Loc
<1> USE DEF At, Goto
<1>1. CASE PostFirst(r)
  <2>1. /\ pc[r] = "post" /\ pc'[r] = "send"
        /\ wire'[r] = wire[r] /\ landing'[r] = landing[r] /\ up'[r] = up[r]
        /\ sq'[r] = sq[r]
    BY <1>0, <1>1 DEF PostFirst, ThreadType, MemType, RecvType, SendType, Stands
  <2>2. sq[r] = << >>
    BY <1>q, <2>1 DEF SendDue
  <2>4. up'[r]
    BY <1>e, <2>1
  <2>5. Ends(r)'
    BY <2>1 DEF Ends
  <2> QED BY <2>1, <2>4, <2>5, <2>2 DEF Effect
<1>2. CASE Send(r)
  <2>1. /\ pc[r] = "send" /\ pc'[r] = "pollr" /\ Stands(r)
        /\ wire'[r] = wire[r] /\ landing'[r] = landing[r] /\ up'[r] = up[r]
        /\ sq'[r] = Append(sq[r], Buf(send_chunk(r, s[r])))
    BY <1>0, <1>2 DEF Send, send_async, ThreadType, MemType, RecvType, SendType, Stands
  <2>2. sq[r] = << >>
    BY <1>q, <2>1 DEF SendDue
  <2>3. sq'[r] = <<Buf(send_chunk(r, s[r]))>>
    BY <1>b, <2>1, <2>2
  <2>4. up'[r]
    BY <1>e, <2>1
  <2>5. Ends(r)'
    BY <2>1 DEF Ends
  <2> QED BY <2>1, <2>4, <2>5, <2>2, <2>3 DEF Effect
<1>3. CASE PollRecv(r)
  <2>1. /\ pc[r] = "pollr" /\ pc'[r] = "arm" /\ Stands(r)
        /\ wire'[r] = wire[r] /\ landing'[r] = landing[r] /\ up'[r] = up[r]
        /\ sq'[r] = sq[r]
    BY <1>0, <1>3 DEF PollRecv, ThreadType, MemType, RecvType, SendType, Stands
  <2>4. up'[r]
    BY <1>e, <2>1
  <2>5. Ends(r)'
    BY <2>1 DEF Ends
  <2> QED BY <2>1, <2>4, <2>5 DEF Effect
<1>4. CASE ArmNext(r)
  <2>1. /\ pc[r] = "arm" /\ pc'[r] = "polls" /\ Stands(r)
        /\ wire'[r] = wire[r] /\ landing'[r] = landing[r] /\ up'[r] = up[r]
        /\ sq'[r] = sq[r]
    BY <1>0, <1>4 DEF ArmNext, ThreadType, MemType, RecvType, SendType, Stands
  <2>4. up'[r]
    BY <1>e, <2>1
  <2>5. Ends(r)'
    BY <2>1 DEF Ends
  <2> QED BY <2>1, <2>4, <2>5 DEF Effect
<1>5. CASE PollSend(r)
  <2>1. /\ pc[r] = "polls" /\ pc'[r] = "sum" /\ Stands(r)
        /\ wire'[r] = wire[r] /\ landing'[r] = landing[r] /\ up'[r] = up[r]
        /\ sq'[r] = sq[r]
    BY <1>0, <1>5 DEF PollSend, ThreadType, MemType, RecvType, SendType, Stands
  <2>4. up'[r]
    BY <1>e, <2>1
  <2>5. Ends(r)'
    BY <2>1 DEF Ends
  <2> QED BY <2>1, <2>4, <2>5 DEF Effect
<1>6. CASE Sum(r)
  <2>1. /\ pc[r] = "sum" /\ pc'[r] \in {"send", "check", "reset"}
        /\ wire'[r] = wire[r] /\ landing'[r] = landing[r] /\ up'[r] = up[r]
        /\ sq'[r] = sq[r] /\ call'[r] = call[r]
        /\ pc'[r] = "check" => call[r] \in {0, Iters}
    BY <1>0, <1>6 DEF Sum, AfterRing, ThreadType, MemType, RecvType, SendType, Stands
  <2>2. sq[r] = << >>
    BY <1>q, <2>1 DEF SendDue
  <2>4. up'[r]
    BY <1>e, <2>1
  <2>5. Ends(r)'
    BY <2>1 DEF Ends
  <2> QED BY <2>1, <2>4, <2>5, <2>2 DEF Effect
<1>7. CASE Check(r)
  <2>1. /\ pc[r] = "check" /\ pc'[r] \in {"failed", "reset", "done"} /\ Stands(r)
        /\ wire'[r] = wire[r] /\ landing'[r] = landing[r] /\ up'[r] = up[r]
        /\ sq'[r] = sq[r] /\ rq'[r] = rq[r]
        /\ pc'[r] = "done" => call[r] # 0
    BY <1>0, <1>7 DEF Check, ThreadType, MemType, RecvType, SendType, Stands
  <2>2. call[r] \in {0, Iters}
    BY <2>1 DEF Ends
  <2>4. up'[r]
    BY <1>e, <2>1
  <2>5. Ends(r)'
    BY <2>1, <2>2 DEF Ends, Stands
  <2> QED BY <2>1, <2>4, <2>5 DEF Effect
<1>8. CASE Reset(r)
  <2>1. /\ pc[r] = "reset" /\ pc'[r] = "brecv"
        /\ wire'[r] = wire[r] /\ landing'[r] = landing[r] /\ up'[r] = up[r]
        /\ sq'[r] = sq[r]
    BY <1>0, <1>8 DEF Reset, ThreadType, MemType, RecvType, SendType, Stands
  <2>2. sq[r] = << >>
    BY <1>q, <2>1 DEF SendDue
  <2>4. up'[r]
    BY <1>e, <2>1
  <2>5. Ends(r)'
    BY <2>1 DEF Ends
  <2> QED BY <2>1, <2>4, <2>5, <2>2 DEF Effect
<1>9. CASE BarrierRecv(r)
  <2>1. /\ pc[r] = "brecv" /\ pc'[r] = "bsend" /\ Stands(r)
        /\ wire'[r] = wire[r] /\ landing'[r] = landing[r] /\ up'[r] = up[r]
        /\ sq'[r] = sq[r]
    BY <1>0, <1>9 DEF BarrierRecv, ThreadType, MemType, RecvType, SendType, Stands
  <2>4. up'[r]
    BY <1>e, <2>1
  <2>5. Ends(r)'
    BY <2>1 DEF Ends
  <2> QED BY <2>1, <2>4, <2>5 DEF Effect
<1>10. CASE BarrierSend(r)
  <2>1. /\ pc[r] = "bsend" /\ pc'[r] = "bpollr" /\ Stands(r)
        /\ wire'[r] = wire[r] /\ landing'[r] = landing[r] /\ up'[r] = up[r]
        /\ sq'[r] = Append(sq[r], Scratch)
    BY <1>0, <1>10 DEF BarrierSend, send_async, ThreadType, MemType, RecvType, SendType, Stands
  <2>2. sq[r] = << >>
    BY <1>q, <2>1 DEF SendDue
  <2>3. sq'[r] = <<Scratch>>
    BY <2>1, <2>2
  <2>4. up'[r]
    BY <1>e, <2>1
  <2>5. Ends(r)'
    BY <2>1 DEF Ends
  <2> QED BY <2>1, <2>4, <2>5, <2>2, <2>3 DEF Effect
<1>11. CASE BarrierPollRecv(r)
  <2>1. /\ pc[r] = "bpollr" /\ pc'[r] = "bpolls" /\ Stands(r)
        /\ wire'[r] = wire[r] /\ landing'[r] = landing[r] /\ up'[r] = up[r]
        /\ sq'[r] = sq[r]
    BY <1>0, <1>11 DEF BarrierPollRecv, ThreadType, MemType, RecvType, SendType, Stands
  <2>4. up'[r]
    BY <1>e, <2>1
  <2>5. Ends(r)'
    BY <2>1 DEF Ends
  <2> QED BY <2>1, <2>4, <2>5 DEF Effect
<1>12. CASE BarrierPollSend(r)
  <2>1. /\ pc[r] = "bpolls" /\ pc'[r] = "post" /\ Stands(r)
        /\ wire'[r] = wire[r] /\ landing'[r] = landing[r] /\ up'[r] = up[r]
        /\ sq'[r] = sq[r]
    BY <1>0, <1>12 DEF BarrierPollSend, ThreadType, MemType, RecvType, SendType, Stands
  <2>4. up'[r]
    BY <1>e, <2>1
  <2>5. Ends(r)'
    BY <2>1 DEF Ends
  <2> QED BY <2>1, <2>4, <2>5 DEF Effect
<1>13. CASE PollSendError(r)
  <2>1. /\ pc[r] \in {"polls", "bpolls"} /\ pc'[r] = "failed" /\ Stands(r)
        /\ wire'[r] = wire[r] /\ landing'[r] = landing[r] /\ up'[r] = up[r]
        /\ sq'[r] = sq[r] /\ rq'[r] = rq[r]
    BY <1>0, <1>13 DEF PollSendError, ThreadType, MemType, RecvType, SendType, Stands
  <2>4. up'[r]
    BY <1>e, <2>1
  <2>5. Ends(r)'
    BY <2>1 DEF Ends
  <2> QED BY <2>1, <2>4, <2>5 DEF Effect
<1>14. CASE Teardown(r)
  <2>1. /\ pc'[r] = pc[r] /\ Stands(r) /\ wire'[r] = << >> /\ landing'[r] = << >>
        /\ sq'[r] = << >> /\ rq'[r] = << >>
    BY <1>0, <1>14 DEF Teardown, ThreadType, RecvType, SendType, Stands
  <2>2. Ends(r)'
    BY <2>1 DEF Ends, Stands
  <2> QED BY <2>1, <2>2 DEF Effect
<1>15. CASE Fail(r)
  <2>1. /\ pc[r] \notin {"done", "failed"} /\ pc'[r] = "failed" /\ Stands(r)
        /\ wire'[r] = wire[r] /\ landing'[r] = landing[r] /\ up'[r] = up[r]
        /\ sq'[r] = sq[r] /\ rq'[r] = rq[r]
    BY <1>0, <1>15 DEF Fail, Ended, ThreadType, Stands
  <2>4. up'[r]
    BY <1>e, <2>1
  <2>5. Ends(r)'
    BY <2>1 DEF Ends
  <2> QED BY <2>1, <2>4, <2>5 DEF Effect
<1> QED BY <1>1, <1>2, <1>3, <1>4, <1>5, <1>6, <1>7, <1>8, <1>9, <1>10,
           <1>11, <1>12, <1>13, <1>14, <1>15 DEF Thread

(* What a statement does to the barriers: only the NIC carries a byte over, *)
(* and a rank that has arrived at a barrier does not come back to it.       *)
Crosses(r) ==
  /\ Sent(r)' => Sent(r) /\ call'[r] = call[r]
  /\ Got(r)' => Got(r) /\ call'[r] = call[r]
  /\ call'[r] >= call[r] /\ (call'[r] = call[r] /\ pc[r] # "brecv" => pc'[r] # "brecv")

(* One case per statement.                                                  *)
LEMMA ThreadCrosses ==
  ASSUME IInv, NEW r \in Ranks, Thread(r) \/ Fail(r)
  PROVE  Crosses(r)
<1>0. ThreadType /\ MemType /\ RecvType /\ SendType /\ AckType /\ TypeOK
  BY DEF IInv, TypeOK
<1>t. /\ pc[r] \in PCs /\ call[r] \in Nat /\ unacked[r] \in Nat /\ scq[r] \in Nat
      /\ rq[r] \in Seq(Loc)
  BY <1>0, RankTypes
<1> USE DEF At, Goto
<1>1. CASE PostFirst(r) \/ Send(r) \/ PollRecv(r) \/ ArmNext(r) \/ PollSend(r)
  <2>1. /\ pc[r] \in RingPCs \cup {"post"} /\ pc'[r] \in RingPCs
        /\ call'[r] = call[r]
    BY <1>0, <1>1 DEF PostFirst, Send, PollRecv, ArmNext, PollSend, ThreadType, RingPCs
  <2>2. pc[r] \in Past /\ pc'[r] # "brecv"
    BY <2>1 DEF Past, RingPCs
  <2> QED BY <1>t, <2>1, <2>2 DEF Crosses, Sent, Got
<1>2. CASE Sum(r) \/ Check(r)
  <2>1. /\ pc[r] \in {"sum", "check"} /\ call'[r] = call[r]
        /\ pc'[r] \in {"send", "check", "reset", "done", "failed"}
    BY <1>0, <1>2 DEF Sum, Check, AfterRing, ThreadType
  <2>2. pc[r] \in Past /\ pc'[r] # "brecv"
    BY <2>1 DEF Past, RingPCs
  <2> QED BY <1>t, <2>1, <2>2 DEF Crosses, Sent, Got
<1>3. CASE Reset(r)
  <2>1. pc'[r] = "brecv" /\ call'[r] = call[r] + 1
    BY <1>0, <1>3 DEF Reset, ThreadType
  <2>2. ~Sent(r)' /\ ~Got(r)'
    BY <2>1 DEF Sent, Got, Past, RingPCs
  <2> QED BY <1>t, <2>1, <2>2 DEF Crosses
<1>4. CASE BarrierRecv(r)
  <2>1. /\ pc[r] = "brecv" /\ pc'[r] = "bsend" /\ call'[r] = call[r]
        /\ rq'[r] = Append(rq[r], Scratch)
    BY <1>0, <1>4 DEF BarrierRecv, recv_async, ThreadType, RecvType
  <2>2. rq'[r] # << >>
    BY <1>t, <2>1
  <2>3. ~Sent(r)' /\ ~Got(r)'
    BY <2>1, <2>2 DEF Sent, Got, Past, RingPCs
  <2> QED BY <1>t, <2>1, <2>3 DEF Crosses
<1>5. CASE BarrierSend(r)
  <2>1. /\ pc[r] = "bsend" /\ pc'[r] = "bpollr" /\ call'[r] = call[r]
        /\ rq'[r] = rq[r] /\ unacked'[r] = unacked[r] /\ scq'[r] = scq[r]
    BY <1>0, <1>5 DEF BarrierSend, ThreadType
  <2>2. unacked[r] = 0 /\ scq[r] = 0
    BY <2>1, QueuesAt DEF SendDue
  <2>3. ~Sent(r)'
    BY <2>1, <2>2 DEF Sent, Past, RingPCs
  <2>4. Got(r)' => Got(r)
    BY <2>1 DEF Got, Past, RingPCs
  <2> QED BY <1>t, <2>1, <2>3, <2>4 DEF Crosses
<1>6. CASE BarrierPollRecv(r)
  <2>1. /\ pc[r] = "bpollr" /\ pc'[r] = "bpolls" /\ call'[r] = call[r] /\ rcq[r] > 0
        /\ unacked'[r] = unacked[r] /\ scq'[r] = scq[r]
    BY <1>0, <1>6 DEF BarrierPollRecv, poll_left, ThreadType
  <2>2. rq[r] = << >>
    BY <2>1, QueuesAt
  <2>3. Sent(r)' => Sent(r)
    BY <2>1 DEF Sent, Past, RingPCs
  <2>4. Got(r)
    BY <2>1, <2>2 DEF Got
  <2> QED BY <1>t, <2>1, <2>3, <2>4 DEF Crosses
<1>7. CASE BarrierPollSend(r)
  <2>1. pc[r] = "bpolls" /\ pc'[r] = "post" /\ call'[r] = call[r] /\ scq[r] > 0
    BY <1>0, <1>7 DEF BarrierPollSend, poll_right, ThreadType
  <2>2. Sent(r) /\ Got(r)
    BY <1>t, <2>1 DEF Sent, Got
  <2> QED BY <1>t, <2>1, <2>2 DEF Crosses
<1>8. CASE PollSendError(r) \/ Fail(r)
  <2>1. pc'[r] = "failed" /\ call'[r] = call[r]
    BY <1>0, <1>8 DEF PollSendError, Fail, ThreadType
  <2>2. ~Sent(r)' /\ ~Got(r)'
    BY <2>1 DEF Sent, Got, Past, RingPCs
  <2> QED BY <1>t, <2>1, <2>2 DEF Crosses
<1>9. CASE Teardown(r)
  <2>1. pc[r] \in {"done", "failed"} /\ pc'[r] = pc[r] /\ call'[r] = call[r]
    BY <1>9 DEF Teardown, Ended
  <2>2. (Sent(r)' => Sent(r)) /\ (Got(r)' => Got(r))
    BY <2>1 DEF Sent, Got, Past, RingPCs
  <2> QED BY <1>t, <2>1, <2>2 DEF Crosses
<1> QED BY <1>1, <1>2, <1>3, <1>4, <1>5, <1>6, <1>7, <1>8, <1>9 DEF Thread

LiveQueued == \A r \in Ranks : pc[r] # "failed" => Queued(r)

(* What a running thread has posted, from the queue discipline alone.       *)
LEMMA DisciplineQueued == IInv => LiveQueued
<1> SUFFICES ASSUME IInv, NEW r \in Ranks, pc[r] # "failed" PROVE Queued(r)
  BY DEF LiveQueued
<1>0. TypeOK
  BY DEF IInv
<1>1. /\ s[r] \in Nat /\ Steps \in Nat /\ sq[r] \in Seq(Loc) /\ rq[r] \in Seq(Loc)
      /\ pc[r] \in PCs
  BY <1>0, RankTypes
<1>2. Len(sq[r]) <= 1 /\ Len(rq[r]) <= 1
  <2>1. (sq[r] = << >> \/ Len(sq[r]) = 1) /\ (rq[r] = << >> \/ Len(rq[r]) = 1)
    BY QueuesAt
  <2>2. Len(<< >>) = 0
    OBVIOUS
  <2>3. \A n : n = 0 \/ n = 1 => n <= 1
    OBVIOUS
  <2> QED BY <2>1, <2>2, <2>3, Zenon
<1>3. sq[r] # << >> => sq[r][1] \in {Scratch, Buf(send_chunk(r, s[r]))}
  BY QueuesAt DEF SendLoc
<1>4. rq[r] # << >> => \/ rq[r][1] \in {Scratch, RecvTarget(r, s[r])}
                       \/ s[r] + 1 < Steps /\ rq[r][1] = RecvTarget(r, s[r] + 1)
  <2> SUFFICES ASSUME rq[r] # << >>
               PROVE  \/ rq[r][1] \in {Scratch, RecvTarget(r, s[r])}
                      \/ s[r] + 1 < Steps /\ rq[r][1] = RecvTarget(r, s[r] + 1)
    OBVIOUS
  <2>1. rq[r][1] = RecvLoc(r) /\ RecvDue(r) = 1
    BY QueuesAt
  <2>2. CASE pc[r] \in {"polls", "sum"}
    <3>1. s[r] + 1 < Steps
      BY <2>1, <2>2 DEF RecvDue
    <3>2. RecvLoc(r) = RecvTarget(r, s[r] + 1)
      BY <2>2 DEF RecvLoc, BarrierPCs
    <3> QED BY <2>1, <3>1, <3>2
  <2>3. CASE pc[r] \notin {"polls", "sum"}
    BY <2>1, <2>3 DEF RecvLoc
  <2> QED BY <2>2, <2>3
<1> QED BY <1>2, <1>3, <1>4 DEF Queued

(* The same after a step.                                                   *)
LEMMA DisciplineQueuedNext == IInv' => LiveQueued'
  BY DisciplineQueued, PTL

-----------------------------------------------------------------------------
(* A rank that a step leaves alone. *)
Idle(q) ==
  /\ pc'[q] = pc[q] /\ s'[q] = s[q] /\ call'[q] = call[q] /\ up'[q] = up[q]
  /\ rq'[q] = rq[q] /\ landing'[q] = landing[q] /\ sq'[q] = sq[q] /\ wire'[q] = wire[q]
  /\ unacked'[q] = unacked[q] /\ scq'[q] = scq[q]

(* It keeps its places, its queues and its side of the barriers.            *)
LEMMA IdleKeeps ==
  ASSUME NEW q \in Ranks, Idle(q)
  PROVE  /\ KeepsPlace(q) /\ SendNext(q)' = SendNext(q) /\ RecvNext(q)' = RecvNext(q)
         /\ Queued(q) /\ OnWire(q) /\ Closed(q) /\ Ends(q)
              => (Queued(q) /\ OnWire(q) /\ Closed(q) /\ Ends(q))'
         /\ (Sent(q)' => Sent(q)) /\ (Got(q)' => Got(q))
         /\ \A k : Arrived(q, k) => Arrived(q, k)'
<1>1. SendNext(q)' = SendNext(q) /\ RecvNext(q)' = RecvNext(q)
  BY DEF Idle, SendNext, RecvNext
<1>2. KeepsPlace(q)
  BY <1>1 DEF Idle, KeepsPlace, Sending, Taking
<1>3. Queued(q) /\ OnWire(q) /\ Closed(q) /\ Ends(q)
        => (Queued(q) /\ OnWire(q) /\ Closed(q) /\ Ends(q))'
  BY DEF Idle, Queued, OnWire, Closed, Ends
<1>4. (Sent(q)' => Sent(q)) /\ (Got(q)' => Got(q)) /\ \A k : Arrived(q, k) => Arrived(q, k)'
  BY DEF Idle, Sent, Got, Arrived
<1> QED BY <1>1, <1>2, <1>3, <1>4

(* A thread about to send the chunk of a step has taken all before it.      *)
LEMMA AboutToSend ==
  ASSUME IInv, NEW r \in Ranks, pc[r] = "send"
  PROVE  AtLeast(RecvNext(r), call[r], s[r])
<1>0. TypeOK
  BY DEF IInv
<1>1. call[r] \in Nat /\ s[r] \in 0..(Steps - 1) /\ s[r] \in Nat /\ Steps \in Nat
  BY <1>0, RankTypes
<1>2. RecvTarget(r, s[r]) # Scratch
  BY <1>1, TargetsApart
<1>3. CASE rq[r] # << >>
  <2>1. rq[r][1] = RecvTarget(r, s[r])
    BY <1>3, QueuesAt DEF RecvLoc, BarrierPCs
  <2>2. RecvNext(r) = <<call[r], s[r]>>
    BY <1>2, <1>3, <2>1 DEF RecvNext
  <2> QED BY <1>1, <2>2 DEF AtLeast
<1>4. CASE rq[r] = << >>
  <2>1. RecvNext(r) = After(call[r], s[r])
    BY <1>4 DEF RecvNext, RingPCs
  <2> QED BY <1>1, <2>1 DEF AtLeast, After
<1> QED BY <1>3, <1>4

(* A statement of a thread keeps the neighbours in step.                    *)
LEMMA DriftThread ==
  ASSUME Drift, IInv', NEW r \in Ranks, Thread(r) \/ Fail(r)
  PROVE  AllPosted' /\ InStep' /\ Caught' /\ Crossed' /\ NoNicOverlap'
<1>0. IInv /\ AllPosted /\ InStep /\ Caught /\ Crossed /\ NoNicOverlap /\ TypeOK
  BY DEF Drift, IInv
<1>1. \A q \in Ranks : q # r => Idle(q)
  BY <1>0, ThreadLocal DEF Idle
<1>2. Queued(r) /\ OnWire(r) /\ Closed(r) /\ Ends(r)
  BY <1>0 DEF AllPosted
<1>3. KeepsPlace(r)
  BY <1>0, ThreadKeepsPlace
<1>4. Effect(r)
  BY <1>0, <1>2, ThreadEffect
<1>5. Crosses(r)
  BY <1>0, ThreadCrosses
<1>6. \A q \in Ranks : KeepsPlace(q)
  BY <1>1, <1>3, IdleKeeps
<1>7. \A q \in Ranks : Right(q) \in Ranks /\ Left(q) \in Ranks
  BY RightType, Neighbours
<1>8. AllPosted'
  <2>1. Queued(r)'
    <3>1. CASE pc'[r] # "failed"
      BY <3>1, DisciplineQueuedNext DEF LiveQueued
    <3>2. CASE pc'[r] = "failed"
      BY <1>2, <1>4, <3>2 DEF Effect, Queued, Stands
    <3> QED BY <3>1, <3>2
  <2>2. OnWire(r)'
    <3>1. WireHasSend /\ (wire'[r] # << >> => sq'[r] # << >>)
      BY <1>0, WireFromFlow DEF IInv, QueueDiscipline, SendFlow
    <3> QED BY <1>2, <1>4, <3>1 DEF Effect, OnWire, WireHasSend
  <2>3. Closed(r)' /\ Ends(r)'
    BY <1>4 DEF Effect, Closed
  <2>4. \A q \in Ranks : q # r => (Queued(q) /\ OnWire(q) /\ Closed(q) /\ Ends(q))'
    BY <1>0, <1>1, IdleKeeps DEF AllPosted
  <2> QED BY <2>1, <2>2, <2>3, <2>4 DEF AllPosted
<1>9. InStep'
  BY <1>0, <1>6, <1>7 DEF InStep, KeepsPlace
<1>10. Caught'
  <2> SUFFICES ASSUME NEW p \in Ranks, Sending(p)',
                      sq'[Right(p)] # << >>, sq'[Right(p)][1] # Scratch
               PROVE  AtLeast(SendNext(p)', call'[Right(p)], s'[Right(p)])
    BY DEF Caught, AtLeast
  <2>1. Sending(p) /\ SendNext(p)' = SendNext(p)
    BY <1>6 DEF KeepsPlace
  <2>2. sq[Right(p)] # << >> /\ sq[Right(p)][1] # Scratch
          => AtLeast(SendNext(p), call[Right(p)], s[Right(p)])
    BY <1>0, <2>1 DEF Caught
  <2>3. CASE Right(p) # r
    BY <1>1, <1>7, <2>1, <2>2, <2>3 DEF Idle
  <2>4. CASE Right(p) = r /\ sq'[r] = sq[r]
    BY <1>4, <2>1, <2>2, <2>4 DEF Effect, Stands
  <2>5. CASE Right(p) = r /\ sq'[r] # sq[r]
    <3>1. pc[r] = "send" /\ Stands(r)
      BY <1>4, <2>5 DEF Effect
    <3>2. SendNext(p) = RecvNext(r)
      BY <1>0, <2>1, <2>5, <3>1 DEF InStep, Taking
    <3>3. AtLeast(RecvNext(r), call[r], s[r])
      BY <1>0, <3>1, AboutToSend
    <3> QED BY <2>1, <2>5, <3>1, <3>2, <3>3 DEF Stands
  <2> QED BY <2>3, <2>4, <2>5
<1>11. Crossed'
  <2>1. \A q \in Ranks : /\ Sent(q)' => Sent(q) /\ call'[q] = call[q]
                         /\ Got(q)' => Got(q) /\ call'[q] = call[q]
    BY <1>1, <1>5, IdleKeeps DEF Crosses, Idle
  <2>2. \A q \in Ranks : \A k \in Nat : Arrived(q, k) => Arrived(q, k)'
    <3>1. call[r] \in Nat /\ call'[r] \in Nat
      BY <1>0, RankTypes DEF IInv, TypeOK, ThreadType
    <3>2. \A k \in Nat : Arrived(r, k) => Arrived(r, k)'
      BY <1>5, <3>1 DEF Crosses, Arrived
    <3> QED BY <1>1, <3>2, IdleKeeps
  <2>3. \A q \in Ranks : call[q] \in Nat
    BY <1>0, RankTypes
  <2> SUFFICES ASSUME NEW q \in Ranks, call'[q] > 0
               PROVE  /\ Sent(q)' => Arrived(Right(q), call[q])'
                      /\ Got(q)' => Arrived(Left(q), call[q])'
    BY DEF Crossed
  <2>4. ASSUME Sent(q)' PROVE Arrived(Right(q), call[q])'
    BY <1>0, <1>7, <2>1, <2>2, <2>3, <2>4 DEF Crossed
  <2>5. ASSUME Got(q)' PROVE Arrived(Left(q), call[q])'
    BY <1>0, <1>7, <2>1, <2>2, <2>3, <2>5 DEF Crossed
  <2> QED BY <2>1, <2>4, <2>5
<1>12. NoNicOverlap'
  <2> SUFFICES ASSUME NEW q \in Ranks, NEW i \in 1..Len(landing'[q]),
                      landing'[q][i][1] # Scratch
               PROVE  landing'[q][i][1] \notin ToSet(sq'[q])
    BY DEF NoNicOverlap
  <2>1. CASE landing'[q] = landing[q] /\ sq'[q] = sq[q]
    BY <1>0, <2>1 DEF NoNicOverlap
  <2>2. CASE sq'[q] = << >>
    BY <2>2 DEF ToSet
  <2>3. CASE landing'[q] = << >>
    BY <2>3
  <2>4. CASE landing'[q] = landing[q] /\ sq'[q] = <<Scratch>>
    BY <2>4 DEF ToSet
  <2>5. CASE /\ landing'[q] = landing[q] /\ q = r /\ pc[r] = "send"
             /\ sq'[q] = <<Buf(send_chunk(r, s[r]))>>
    <3>1. landing[r][i][1] = RecvTarget(r, s[r])
      BY <1>0, <2>5 DEF IInv, QueueDiscipline, RecvFlow, RecvLoc, BarrierPCs
    <3>2. s[r] \in 0..(Steps - 1)
      BY <1>0, RankTypes
    <3>3. RecvTarget(r, s[r]) # Buf(send_chunk(r, s[r]))
      BY <3>2, TargetsApart
    <3> QED BY <2>5, <3>1, <3>3 DEF ToSet
  <2> QED BY <1>1, <1>4, <2>1, <2>2, <2>3, <2>4, <2>5 DEF Effect, Idle
<1> QED BY <1>8, <1>9, <1>10, <1>11, <1>12

(* The NIC moves on by one message: the sender's side.                      *)
LEMMA SendAccepted ==
  ASSUME IInv, NEW r \in Ranks, pc[r] # "failed", sq[r] # << >>, sq'[r] = << >>,
         pc'[r] = pc[r], call'[r] = call[r], s'[r] = s[r]
  PROVE  SendNext(r)' = After(SendNext(r)[1], SendNext(r)[2])
<1>0. TypeOK
  BY DEF IInv
<1>1. s[r] \in 0..(Steps - 1) /\ s[r] \in Nat /\ Steps \in Nat /\ Steps >= 2
  BY <1>0, RankTypes
<1>2. sq[r][1] = SendLoc(r) /\ pc[r] \in {"pollr", "arm", "polls", "bpollr", "bpolls"}
  BY QueuesAt DEF SendDue
<1>3. CASE pc[r] \in {"pollr", "arm", "polls"}
  <2>1. sq[r][1] # Scratch
    <3>1. send_chunk(r, s[r]) \in Chunks
      BY <1>1, ChunkType
    <3>2. Buf(send_chunk(r, s[r])) # Scratch
      BY <1>1, <3>1, TargetsApart
    <3> QED BY <1>2, <1>3, <3>2 DEF SendLoc, BarrierPCs
  <2>2. SendNext(r) = <<call[r], s[r]>>
    BY <2>1 DEF SendNext
  <2>3. SendNext(r)' = After(call[r], s[r])
    BY <1>3 DEF SendNext, RingPCs
  <2> QED BY <2>2, <2>3
<1>4. CASE pc[r] \in {"bpollr", "bpolls"}
  <2>1. sq[r][1] = Scratch
    BY <1>2, <1>4 DEF SendLoc, BarrierPCs
  <2>2. SendNext(r) = <<call[r], -1>>
    BY <2>1 DEF SendNext
  <2>3. SendNext(r)' = <<call[r], 0>>
    BY <1>4 DEF SendNext, RingPCs
  <2>4. After(call[r], -1) = <<call[r], 0>>
    BY <1>1 DEF After
  <2> QED BY <2>2, <2>3, <2>4
<1> QED BY <1>2, <1>3, <1>4

(* And the receiver's side.                                                 *)
LEMMA RecvAccepted ==
  ASSUME IInv, NEW r \in Ranks, pc[r] # "failed", rq[r] # << >>, rq'[r] = << >>,
         pc'[r] = pc[r], call'[r] = call[r], s'[r] = s[r]
  PROVE  RecvNext(r)' = After(RecvNext(r)[1], RecvNext(r)[2])
<1>0. TypeOK
  BY DEF IInv
<1>1. s[r] \in 0..(Steps - 1) /\ s[r] \in Nat /\ Steps \in Nat /\ Steps >= 2
  BY <1>0, RankTypes
<1>2. rq[r][1] = RecvLoc(r) /\ RecvDue(r) = 1
  BY QueuesAt
<1>3. /\ \A u \in Nat : RecvTarget(r, u) # Scratch
      /\ s[r] + 1 < Steps => RecvTarget(r, s[r] + 1) # RecvTarget(r, s[r])
  BY <1>1, TargetsApart
<1>4. CASE pc[r] \in {"send", "pollr"}
  <2>1. RecvNext(r) = <<call[r], s[r]>>
    BY <1>1, <1>2, <1>3, <1>4 DEF RecvNext, RecvLoc, BarrierPCs
  <2>2. RecvNext(r)' = After(call[r], s[r])
    BY <1>4 DEF RecvNext, RingPCs
  <2> QED BY <2>1, <2>2
<1>5. CASE pc[r] \in {"polls", "sum"}
  <2>1. s[r] + 1 < Steps /\ s[r] + 1 \in Nat
    BY <1>1, <1>2, <1>5 DEF RecvDue
  <2>2. rq[r][1] = RecvTarget(r, s[r] + 1)
    BY <1>2, <1>5 DEF RecvLoc, BarrierPCs
  <2>3. RecvNext(r) = <<call[r], s[r] + 1>>
    BY <1>3, <2>1, <2>2 DEF RecvNext
  <2>4. RecvNext(r)' = After(call[r], s[r] + 1)
    BY <1>5, <2>1 DEF RecvNext
  <2> QED BY <2>3, <2>4
<1>6. CASE pc[r] \in {"bsend", "bpollr"}
  <2>1. rq[r][1] = Scratch
    BY <1>2, <1>6 DEF RecvLoc, BarrierPCs
  <2>2. RecvNext(r) = <<call[r], -1>>
    BY <2>1 DEF RecvNext
  <2>3. RecvNext(r)' = <<call[r], 0>>
    BY <1>6 DEF RecvNext, RingPCs
  <2>4. After(call[r], -1) = <<call[r], 0>>
    BY <1>1 DEF After
  <2> QED BY <2>2, <2>3, <2>4
<1> QED BY <1>2, <1>4, <1>5, <1>6 DEF RecvDue

(* Equal pairs have equal parts.                                            *)
LEMMA PairParts ==
  ASSUME NEW a, NEW b, NEW c, NEW d, <<a, b>> = <<c, d>>
  PROVE  a = c /\ b = d
OBVIOUS

(* A message and the receive it takes are of the same call and the same     *)
(* kind, and both threads are past the point where they post for it.        *)
LEMMA SameMessage ==
  ASSUME Drift, NEW r \in Ranks, sq[r] # << >>, rq[Right(r)] # << >>
  PROVE  /\ call[r] = call[Right(r)] /\ pc[r] # "brecv" /\ pc[Right(r)] # "brecv"
         /\ sq[r][1] = Scratch <=> rq[Right(r)][1] = Scratch
         /\ sq[r][1] # Scratch =>
              s[r] = IF rq[Right(r)][1] = RecvTarget(Right(r), s[Right(r)])
                     THEN s[Right(r)] ELSE s[Right(r)] + 1
<1> DEFINE q == Right(r)
<1>0. IInv /\ TypeOK /\ InStep /\ q \in Ranks
  BY RightType DEF Drift, IInv
<1>1. s[r] \in Nat /\ s[q] \in Nat
  BY <1>0, RankTypes
<1>2. SendNext(r) = RecvNext(q)
  BY <1>0 DEF InStep, Sending, Taking
<1> DEFINE a == IF sq[r][1] = Scratch THEN -1 ELSE s[r]
           b == IF rq[q][1] = Scratch THEN -1
                ELSE IF rq[q][1] = RecvTarget(q, s[q]) THEN s[q] ELSE s[q] + 1
<1>3. SendNext(r) = <<call[r], a>>
  BY DEF SendNext
<1>4. RecvNext(q) = <<call[q], b>>
  BY DEF RecvNext
<1>5. pc[r] # "brecv"
  BY <1>0, QueuesAt DEF SendDue
<1>6. pc[q] # "brecv"
  BY <1>0, QueuesAt DEF RecvDue
<1> HIDE DEF q, a, b
<1>7. call[r] = call[q] /\ a = b
  <2>1. <<call[r], a>> = <<call[q], b>>
    BY <1>2, <1>3, <1>4, Zenon
  <2> QED BY <2>1, PairParts, Zenon
<1> USE DEF a, b
<1>8. /\ sq[r][1] = Scratch <=> rq[q][1] = Scratch
      /\ sq[r][1] # Scratch =>
           s[r] = IF rq[q][1] = RecvTarget(q, s[q]) THEN s[q] ELSE s[q] + 1
  BY <1>1, <1>7
<1> QED BY <1>5, <1>6, <1>7, <1>8 DEF q

(* A chunk is never accepted on the chunk its receiver is still sending.    *)
LEMMA NotWhatItSends ==
  ASSUME Drift, NEW r \in Ranks, sq[r] # << >>, rq[Right(r)] # << >>, sq[Right(r)] # << >>,
         rq[Right(r)][1] # Scratch
  PROVE  rq[Right(r)][1] # sq[Right(r)][1]
<1> DEFINE q == Right(r)
<1>0. IInv /\ TypeOK /\ InStep /\ Caught /\ q \in Ranks /\ Queued(q)
  BY RightType DEF Drift, IInv, AllPosted
<1>1. /\ s[r] \in Nat /\ s[q] \in Nat /\ s[q] \in 0..(Steps - 1) /\ call[r] \in Nat
      /\ N \in Nat /\ N >= 2 /\ Steps \in Nat
  BY <1>0, RankTypes, NAssumption
<1>2. CASE sq[q][1] = Scratch
  BY <1>2
<1>3. CASE sq[q][1] # Scratch
  <2>1. sq[q][1] = Buf(send_chunk(q, s[q]))
    BY <1>0, <1>3 DEF Queued
  <2>2. CASE rq[q][1] = RecvTarget(q, s[q])
    BY <1>0, <1>1, <2>1, <2>2, TargetsApart
  <2>3. CASE rq[q][1] # RecvTarget(q, s[q])
    <3>1. s[q] + 1 < Steps /\ rq[q][1] = RecvTarget(q, s[q] + 1)
      BY <1>0, <2>3 DEF Queued
    <3>2. CASE N > 2
      BY <1>0, <1>1, <2>1, <3>1, <3>2, TargetsApart
    <3>3. N # 2
      <4> SUFFICES ASSUME N = 2 PROVE FALSE
        OBVIOUS
      <4>1. Right(q) = r
        <5>1. Left(q) = r
          BY Neighbours
        <5>2. Left(q) = Right(q)
          BY <1>0, Neighbours
        <5> QED BY <5>1, <5>2
      <4>2. call[r] = call[q] /\ sq[r][1] # Scratch /\ s[r] = s[q] + 1
        BY <2>3, SameMessage
      <4>3. SendNext(q) = <<call[q], s[q]>>
        BY <1>3 DEF SendNext
      <4>4. AtLeast(SendNext(q), call[r], s[r])
        BY <1>0, <4>1, <4>2 DEF Caught, Sending
      <4>5. s[q] >= s[q] + 1
        BY <1>1, <4>2, <4>3, <4>4 DEF AtLeast
      <4> QED BY <1>1, <4>5
    <3> QED BY <1>1, <3>2, <3>3
  <2> QED BY <2>2, <2>3
<1> QED BY <1>2, <1>3

(* One message later is no less far.                                        *)
LEMMA LaterIsFarther ==
  ASSUME NEW k \in Nat, NEW t \in Int, NEW i \in Nat, NEW u \in Nat, u < Steps,
         AtLeast(<<k, t>>, i, u)
  PROVE  AtLeast(After(k, t), i, u)
<1>1. k > i \/ (k = i /\ t >= u)
  BY DEF AtLeast
<1>2. Steps \in Nat
  BY StepsType
<1>3. CASE t + 1 < Steps
  <2>1. After(k, t) = <<k, t + 1>>
    BY <1>3 DEF After
  <2>2. k > i \/ (k = i /\ t + 1 >= u)
    BY <1>1
  <2> QED BY <2>1, <2>2 DEF AtLeast
<1>4. CASE ~(t + 1 < Steps)
  <2>1. After(k, t) = <<k + 1, -1>>
    BY <1>4 DEF After
  <2>2. k + 1 > i
    BY <1>1
  <2> QED BY <2>1, <2>2 DEF AtLeast
<1> QED BY <1>3, <1>4

(* When the message at the head of r's send queue is gone, by a completion  *)
(* of either kind, what r sends next is still as far as its neighbour.      *)
LEMMA StillCaught ==
  ASSUME IInv, Caught, NEW r \in Ranks, pc[r] # "failed", sq[r] # << >>, sq'[r] = << >>,
         pc'[r] = pc[r], call'[r] = call[r], s'[r] = s[r],
         sq[Right(r)] # << >>, sq[Right(r)][1] # Scratch
  PROVE  AtLeast(SendNext(r)', call[Right(r)], s[Right(r)])
<1> DEFINE q == Right(r)
<1>0. TypeOK /\ q \in Ranks
  BY RightType DEF IInv
<1>1. call[r] \in Nat /\ s[r] \in Nat /\ call[q] \in Nat /\ s[q] \in Nat /\ s[q] < Steps
  <2>1. s[q] \in 0..(Steps - 1) /\ Steps \in Nat
    BY <1>0, RankTypes
  <2> QED BY <1>0, <2>1, RankTypes
<1> DEFINE t == IF sq[r][1] = Scratch THEN -1 ELSE s[r]
<1>2. SendNext(r) = <<call[r], t>>
  BY DEF SendNext
<1>3. t \in Int
  BY <1>1
<1>4. SendNext(r)' = After(SendNext(r)[1], SendNext(r)[2])
  BY SendAccepted
<1>5. AtLeast(SendNext(r), call[q], s[q])
  BY DEF Caught, Sending
<1> HIDE DEF q, t
<1>6. SendNext(r)' = After(call[r], t) /\ AtLeast(<<call[r], t>>, call[q], s[q])
  BY <1>2, <1>4, <1>5
<1>7. AtLeast(After(call[r], t), call[q], s[q])
  BY <1>1, <1>3, <1>6, LaterIsFarther
<1> QED BY <1>6, <1>7 DEF q

-----------------------------------------------------------------------------
(* The steps of the NIC.  Most of them move no message from one end to the  *)
(* other: they leave the threads and the posted requests alone.             *)
LEMMA DriftQuiet ==
  ASSUME Drift, UNCHANGED <<pc, call, s, up, rq, sq>>,
         \A q \in Ranks : OnWire(q)',
         \A q \in Ranks : unacked'[q] + scq'[q] > 0 => unacked[q] + scq[q] > 0,
         \A q \in Ranks : \A i \in 1..Len(landing'[q]) :
           \E j \in 1..Len(landing[q]) : landing'[q][i][1] = landing[q][j][1]
  PROVE  AllPosted' /\ InStep' /\ Caught' /\ Crossed' /\ NoNicOverlap'
<1>0. AllPosted /\ InStep /\ Caught /\ Crossed /\ NoNicOverlap
  BY DEF Drift
<1>1. ASSUME NEW q \in Ranks
      PROVE  /\ SendNext(q)' = SendNext(q) /\ RecvNext(q)' = RecvNext(q)
             /\ Sending(q)' = Sending(q) /\ Taking(q)' = Taking(q)
  BY DEF SendNext, RecvNext, Sending, Taking
<1>2. AllPosted'
  BY <1>0 DEF AllPosted, Queued, Closed, Ends
<1>3. InStep'
  BY <1>0, <1>1, RightType DEF InStep
<1>4. Caught'
  BY <1>0, <1>1, RightType DEF Caught
<1>5. Crossed'
  <2>1. \A q \in Ranks : (Sent(q)' => Sent(q)) /\ (Got(q)' => Got(q))
    BY DEF Sent, Got
  <2>2. \A q, k : Arrived(q, k)' <=> Arrived(q, k)
    BY DEF Arrived
  <2> QED BY <1>0, <2>1, <2>2 DEF Crossed
<1>6. NoNicOverlap'
  BY <1>0 DEF NoNicOverlap
<1> QED BY <1>2, <1>3, <1>4, <1>5, <1>6

(* A send that fails because its receiver is gone: the receiver has taken   *)
(* its last message, so nothing is left to agree on.                        *)
LEMMA DriftLost ==
  ASSUME Drift, NEW r \in Ranks, ~up[Right(r)], sq[r] # << >>, sq'[r] = << >>,
         wire'[r] = << >>,
         \A q \in Ranks : q # r => sq'[q] = sq[q] /\ wire'[q] = wire[q],
         UNCHANGED <<pc, call, s, up, rq, landing, unacked, scq>>
  PROVE  AllPosted' /\ InStep' /\ Caught' /\ Crossed' /\ NoNicOverlap'
<1>0. IInv /\ AllPosted /\ InStep /\ Caught /\ Crossed /\ NoNicOverlap /\ TypeOK
  BY DEF Drift, IInv
<1>1. ASSUME NEW q \in Ranks, q # r
      PROVE  SendNext(q)' = SendNext(q) /\ Sending(q)' = Sending(q)
  <2>1. sq'[q] = sq[q]
    BY <1>1
  <2> QED BY <2>1 DEF SendNext, Sending
<1>2. ASSUME NEW q \in Ranks
      PROVE  RecvNext(q)' = RecvNext(q) /\ Taking(q)' = Taking(q)
  BY DEF RecvNext, Taking
<1>3. AllPosted'
  <2> SUFFICES ASSUME NEW q \in Ranks PROVE (Queued(q) /\ OnWire(q) /\ Closed(q) /\ Ends(q))'
    BY DEF AllPosted
  <2>0. Queued(q) /\ OnWire(q) /\ Closed(q) /\ Ends(q)
    BY <1>0 DEF AllPosted
  <2>1. CASE q # r
    <3>1. sq'[q] = sq[q] /\ wire'[q] = wire[q]
      BY <2>1
    <3> QED BY <2>0, <3>1 DEF Queued, OnWire, Closed, Ends
  <2>2. CASE q = r
    <3>1. Len(sq'[r]) = 0
      OBVIOUS
    <3> QED BY <2>0, <2>2, <3>1 DEF Queued, OnWire, Closed, Ends
  <2> QED BY <2>1, <2>2
<1>4. InStep'
  <2> SUFFICES ASSUME NEW p \in Ranks, Sending(p)', Taking(Right(p))'
               PROVE  SendNext(p)' = RecvNext(Right(p))'
    BY DEF InStep
  <2>1. CASE p # r
    BY <1>0, <1>1, <1>2, <2>1, RightType DEF InStep
  <2>2. CASE p = r
    <3> DEFINE q == Right(r)
    <3>1. q \in Ranks /\ rq[q] = << >> /\ Ended(q) /\ pc[q] # "failed"
      BY <1>0, <1>2, <2>2, RightType
         DEF AllPosted, Closed, IInv, QueueDiscipline, Taking
    <3>2. pc[q] = "done" /\ call[q] = Iters
      BY <1>0, <3>1 DEF Ended, AllPosted, Ends
    <3>3. RecvNext(q) = <<Iters + 1, -1>>
      BY <3>1, <3>2 DEF RecvNext, RingPCs
    <3>4. SendNext(r) = RecvNext(q)
      BY <1>0, <3>2 DEF InStep, Sending, Taking
    <3>5. SendNext(r)[1] = call[r]
      BY DEF SendNext
    <3>6. call[r] \in 0..Iters /\ Iters \in Nat
      BY <1>0, ItersAssumption DEF TypeOK, ThreadType
    <3>7. SendNext(r)[1] = Iters + 1
      BY <3>3, <3>4
    <3> QED BY <3>5, <3>6, <3>7
  <2> QED BY <2>1, <2>2
<1>5. Caught'
  <2> SUFFICES ASSUME NEW p \in Ranks, Sending(p)', sq'[Right(p)] # << >>,
                      sq'[Right(p)][1] # Scratch
               PROVE  AtLeast(SendNext(p), call[Right(p)], s[Right(p)])'
    BY DEF Caught
  <2>1. Right(p) \in Ranks /\ Right(p) # r /\ sq'[Right(p)] = sq[Right(p)]
    BY RightType
  <2>2. CASE p # r
    <3>1. SendNext(p)' = SendNext(p) /\ Sending(p)
      BY <1>1, <2>2
    <3>2. AtLeast(SendNext(p), call[Right(p)], s[Right(p)])
      BY <1>0, <2>1, <3>1 DEF Caught
    <3> QED BY <2>1, <3>1, <3>2 DEF AtLeast
  <2>3. CASE p = r
    <3>1. pc[r] # "failed"
      BY <2>3 DEF Sending
    <3>2. AtLeast(SendNext(r)', call[Right(r)], s[Right(r)])
      BY <1>0, <2>1, <2>3, <3>1, StillCaught
    <3> QED BY <2>3, <3>2 DEF AtLeast
  <2> QED BY <2>2, <2>3
<1>6. Crossed'
  <2>1. \A q \in Ranks : (Sent(q)' => Sent(q)) /\ (Got(q)' => Got(q))
    BY DEF Sent, Got
  <2>2. \A q, k : Arrived(q, k)' <=> Arrived(q, k)
    BY DEF Arrived
  <2> QED BY <1>0, <2>1, <2>2 DEF Crossed
<1>7. NoNicOverlap'
  <2> SUFFICES ASSUME NEW q \in Ranks, NEW i \in 1..Len(landing[q]),
                      landing[q][i][1] # Scratch
               PROVE  landing[q][i][1] \notin ToSet(sq'[q])
    BY DEF NoNicOverlap
  <2>1. CASE q # r
    BY <1>0, <2>1 DEF NoNicOverlap
  <2>2. CASE q = r
    BY <2>2 DEF ToSet
  <2> QED BY <2>1, <2>2
<1> QED BY <1>3, <1>4, <1>5, <1>6, <1>7

(* A message that is accepted takes both ends one message further.          *)
LEMMA DriftAccept ==
  ASSUME Drift, NEW r \in Ranks, Accept(r)
  PROVE  AllPosted' /\ InStep' /\ Caught' /\ Crossed' /\ NoNicOverlap'
<1> DEFINE q == Right(r)
<1>0. /\ IInv /\ AllPosted /\ InStep /\ Caught /\ Crossed /\ NoNicOverlap /\ TypeOK
      /\ q \in Ranks /\ Left(q) = r /\ q # r
  BY RightType, Neighbours DEF Drift, IInv
<1>1. /\ sq \in [Ranks -> Seq(Loc)] /\ rq \in [Ranks -> Seq(Loc)]
      /\ wire \in [Ranks -> Seq(Loc \X Value)] /\ landing \in [Ranks -> Seq(Loc \X Value)]
      /\ unacked \in [Ranks -> Nat]
  BY <1>0 DEF TypeOK, RecvType, SendType, AckType
<1>2. UNCHANGED <<pc, call, s, up, scq>>
  BY DEF Accept
<1>3. sq[r] # << >> /\ rq[q] # << >> /\ Len(sq[r]) <= 1 /\ Len(rq[q]) <= 1
  BY <1>0 DEF Accept, IInv, QueueDiscipline, SendFlow, AllPosted, Queued
<1>4. Tail(sq[r]) = << >> /\ Tail(rq[q]) = << >> /\ Head(rq[q]) = rq[q][1]
  <2>1. sq[r] \in Seq(Loc) /\ rq[q] \in Seq(Loc)
    BY <1>0, <1>1
  <2> QED BY <1>3, <2>1
<1>5. sq'[r] = << >> /\ wire'[r] = << >> /\ rq'[q] = << >>
  BY <1>0, <1>1, <1>4 DEF Accept
<1>6. \A p \in Ranks : p # r => /\ sq'[p] = sq[p] /\ wire'[p] = wire[p]
                                /\ unacked'[p] = unacked[p]
  BY <1>1 DEF Accept
<1>7. \A p \in Ranks : p # q => rq'[p] = rq[p] /\ landing'[p] = landing[p]
  BY <1>1 DEF Accept
<1>8. landing'[q] = Append(landing[q], <<rq[q][1], Head(wire[r])[2]>>)
  BY <1>0, <1>1, <1>4 DEF Accept
<1> HIDE DEF q
<1>9. \A p \in Ranks : p # r => SendNext(p)' = SendNext(p) /\ Sending(p)' = Sending(p)
  <2> SUFFICES ASSUME NEW p \in Ranks, p # r
               PROVE  SendNext(p)' = SendNext(p) /\ Sending(p)' = Sending(p)
    OBVIOUS
  <2>1. sq'[p] = sq[p]
    BY <1>6
  <2> QED BY <1>2, <2>1 DEF SendNext, Sending
<1>10. \A p \in Ranks : p # q => RecvNext(p)' = RecvNext(p) /\ Taking(p)' = Taking(p)
  <2> SUFFICES ASSUME NEW p \in Ranks, p # q
               PROVE  RecvNext(p)' = RecvNext(p) /\ Taking(p)' = Taking(p)
    OBVIOUS
  <2>1. rq'[p] = rq[p]
    BY <1>7
  <2> QED BY <1>2, <2>1 DEF RecvNext, Taking
<1>11. AllPosted'
  <2> SUFFICES ASSUME NEW p \in Ranks PROVE (Queued(p) /\ OnWire(p) /\ Closed(p) /\ Ends(p))'
    BY DEF AllPosted
  <2>0. Queued(p) /\ OnWire(p) /\ Closed(p) /\ Ends(p)
    BY <1>0 DEF AllPosted
  <2>1. /\ sq'[p] = sq[p] \/ sq'[p] = << >>
        /\ rq'[p] = rq[p] \/ rq'[p] = << >>
        /\ Len(<< >>) = 0
    BY <1>5, <1>6, <1>7
  <2>2. Queued(p)'
    BY <1>2, <2>0, <2>1 DEF Queued
  <2>3. OnWire(p)'
    <3>1. CASE p = r
      BY <1>5, <3>1 DEF OnWire
    <3>2. CASE p # r
      BY <1>6, <2>0, <3>2 DEF OnWire
    <3> QED BY <3>1, <3>2
  <2>4. Closed(p)' /\ Ends(p)'
    BY <1>2, <2>0, <2>1 DEF Closed, Ends
  <2> QED BY <2>2, <2>3, <2>4
<1>12. InStep'
  <2> SUFFICES ASSUME NEW p \in Ranks, Sending(p)', Taking(Right(p))'
               PROVE  SendNext(p)' = RecvNext(Right(p))'
    BY DEF InStep
  <2>1. CASE p # r
    <3>1. Right(p) \in Ranks /\ Right(p) # q
      BY <1>0, <2>1, RightType, Neighbours
    <3> QED BY <1>0, <1>9, <1>10, <2>1, <3>1 DEF InStep
  <2>2. CASE p = r
    <3>1. pc[r] # "failed" /\ pc[q] # "failed"
      BY <1>2, <1>5, <2>2 DEF Sending, Taking, q
    <3>2. SendNext(r) = RecvNext(q)
      BY <1>0, <3>1 DEF InStep, Sending, Taking, q
    <3>3. SendNext(r)' = After(SendNext(r)[1], SendNext(r)[2])
      BY <1>0, <1>2, <1>3, <1>5, <3>1, SendAccepted
    <3>4. RecvNext(q)' = After(RecvNext(q)[1], RecvNext(q)[2])
      BY <1>0, <1>2, <1>3, <1>5, <3>1, RecvAccepted
    <3>5. SendNext(r)' = RecvNext(q)'
      BY <3>2, <3>3, <3>4
    <3> QED BY <2>2, <3>5 DEF q
  <2> QED BY <2>1, <2>2
<1>13. Caught'
  <2> SUFFICES ASSUME NEW p \in Ranks, Sending(p)', sq'[Right(p)] # << >>,
                      sq'[Right(p)][1] # Scratch
               PROVE  AtLeast(SendNext(p), call[Right(p)], s[Right(p)])'
    BY DEF Caught
  <2>1. Right(p) \in Ranks /\ Right(p) # r /\ sq'[Right(p)] = sq[Right(p)]
    BY <1>5, <1>6, RightType
  <2>2. CASE p # r
    <3>1. SendNext(p)' = SendNext(p) /\ Sending(p)
      BY <1>9, <2>2
    <3>2. AtLeast(SendNext(p), call[Right(p)], s[Right(p)])
      BY <1>0, <2>1, <3>1 DEF Caught
    <3> QED BY <1>2, <2>1, <3>1, <3>2 DEF AtLeast
  <2>3. CASE p = r
    <3>1. pc[r] # "failed"
      BY <1>2, <1>5, <2>3 DEF Sending
    <3>2. AtLeast(SendNext(r)', call[Right(r)], s[Right(r)])
      BY <1>0, <1>2, <1>3, <1>5, <2>1, <2>3, <3>1, StillCaught
    <3> QED BY <1>2, <2>3, <3>2 DEF AtLeast
  <2> QED BY <2>2, <2>3
<1>14. Crossed'
  <2>1. call[r] = call[q] /\ pc[r] # "brecv" /\ pc[q] # "brecv"
    BY <1>3, SameMessage DEF q
  <2>2. Arrived(q, call[r]) /\ Arrived(r, call[q])
    BY <2>1 DEF Arrived
  <2>3. \A p, k : Arrived(p, k)' <=> Arrived(p, k)
    BY <1>2 DEF Arrived
  <2> SUFFICES ASSUME NEW p \in Ranks, call[p] > 0
               PROVE  /\ Sent(p)' => Arrived(Right(p), call[p])
                      /\ Got(p)' => Arrived(Left(p), call[p])
    BY <1>2, <2>3 DEF Crossed
  <2>4. Sent(p)' => Arrived(Right(p), call[p])
    <3>1. CASE p = r
      BY <2>2, <3>1 DEF q
    <3>2. CASE p # r
      <4>1. Sent(p)' => Sent(p)
        BY <1>2, <1>6, <3>2 DEF Sent
      <4> QED BY <1>0, <4>1 DEF Crossed
    <3> QED BY <3>1, <3>2
  <2>5. Got(p)' => Arrived(Left(p), call[p])
    <3>1. CASE p = q
      BY <1>0, <2>2, <3>1
    <3>2. CASE p # q
      <4>1. Got(p)' => Got(p)
        BY <1>2, <1>7, <3>2 DEF Got
      <4> QED BY <1>0, <4>1 DEF Crossed
    <3> QED BY <3>1, <3>2
  <2> QED BY <2>4, <2>5
<1>15. NoNicOverlap'
  <2> SUFFICES ASSUME NEW p \in Ranks, NEW i \in 1..Len(landing'[p]),
                      landing'[p][i][1] # Scratch
               PROVE  landing'[p][i][1] \notin ToSet(sq'[p])
    BY DEF NoNicOverlap
  <2>1. CASE p = r
    BY <1>5, <2>1 DEF ToSet
  <2>2. CASE p # r /\ p # q
    BY <1>0, <1>6, <1>7, <2>2 DEF NoNicOverlap
  <2>3. CASE p = q
    <3>0. landing[q] \in Seq(Loc \X Value) /\ sq'[q] = sq[q]
      BY <1>0, <1>1, <1>6
    <3>1. CASE i \in 1..Len(landing[q])
      <4>1. landing'[q][i] = landing[q][i]
        BY <1>8, <3>0, <3>1
      <4> QED BY <1>0, <2>3, <3>0, <3>1, <4>1 DEF NoNicOverlap
    <3>2. CASE i \notin 1..Len(landing[q])
      <4>1. Len(landing[q]) \in Nat /\ Len(landing'[q]) = Len(landing[q]) + 1
        BY <1>8, <3>0
      <4>2. i = Len(landing[q]) + 1
        BY <2>3, <3>2, <4>1
      <4>3. landing'[q][i] = <<rq[q][1], Head(wire[r])[2]>>
        BY <1>8, <3>0, <4>1, <4>2
      <4>4. landing'[q][i][1] = rq[q][1]
        BY <4>3
      <4>5. CASE sq[q] = << >>
        BY <2>3, <3>0, <4>5 DEF ToSet
      <4>6. CASE sq[q] # << >>
        <5>1. rq[q][1] # sq[q][1]
          BY <1>3, <2>3, <4>4, <4>6, NotWhatItSends DEF q
        <5>2. sq[q] \in Seq(Loc) /\ Len(sq[q]) <= 1
          BY <1>0, <1>1 DEF AllPosted, Queued
        <5>3. \A j \in 1..Len(sq[q]) : j = 1
          BY <5>2
        <5>4. ToSet(sq[q]) = {sq[q][j] : j \in 1..Len(sq[q])}
          BY <5>2 DEF ToSet
        <5> QED BY <2>3, <3>0, <4>4, <5>1, <5>3, <5>4
      <4> QED BY <4>5, <4>6
    <3> QED BY <3>1, <3>2
  <2> QED BY <2>1, <2>2, <2>3
<1> QED BY <1>11, <1>12, <1>13, <1>14, <1>15

(* Every step of the NIC keeps the two ends of its connection together.     *)
LEMMA DriftNic ==
  ASSUME Drift, NEW r \in Ranks, NicStep(r)
  PROVE  AllPosted' /\ InStep' /\ Caught' /\ Crossed' /\ NoNicOverlap'
<1>0. TypeOK /\ QueueDiscipline /\ AllPosted
  BY DEF Drift, IInv
<1>1. /\ sq \in [Ranks -> Seq(Loc)] /\ landing \in [Ranks -> Seq(Loc \X Value)]
      /\ wire \in [Ranks -> Seq(Loc \X Value)]
      /\ unacked \in [Ranks -> Nat] /\ scq \in [Ranks -> Nat]
  BY <1>0 DEF TypeOK, RecvType, SendType, AckType
<1>2. CASE Accept(r)
  BY <1>2, DriftAccept
<1>3. CASE Fetch(r) \/ RnrNak(r)
  <2>1. UNCHANGED <<pc, call, s, up, rq, sq, landing, unacked, scq>>
    BY <1>3 DEF Fetch, RnrNak
  <2>2. \A q \in Ranks : OnWire(q)'
    <3> SUFFICES ASSUME NEW q \in Ranks PROVE OnWire(q)'
      OBVIOUS
    <3>0. OnWire(q)
      BY <1>0 DEF AllPosted
    <3>1. CASE q # r
      <4>1. wire'[q] = wire[q]
        BY <1>1, <1>3, <3>1 DEF Fetch, RnrNak
      <4> QED BY <2>1, <3>0, <4>1 DEF OnWire
    <3>2. CASE q = r /\ wire'[r] = << >>
      BY <3>2 DEF OnWire
    <3>3. CASE q = r /\ wire'[r] = << <<Head(sq[r]), mem[r][Head(sq[r])]>> >> /\ sq[r] # << >>
      <4>1. Head(wire'[r])[1] = Head(sq[r])
        BY <3>3
      <4>2. sq[r] \in Seq(Loc)
        BY <1>1
      <4>3. Head(sq[r]) = sq[r][1]
        BY <3>3, <4>2
      <4> QED BY <2>1, <3>3, <4>1, <4>3 DEF OnWire
    <3> QED BY <1>1, <1>3, <3>1, <3>2, <3>3 DEF Fetch, RnrNak
  <2> QED BY <2>1, <2>2, DriftQuiet
<1>4. CASE Place(r)
  <2>1. UNCHANGED <<pc, call, s, up, rq, sq, wire, unacked, scq>>
    BY <1>4 DEF Place
  <2>2. \A q \in Ranks : OnWire(q)'
    BY <1>0, <2>1 DEF AllPosted, OnWire
  <2>3. ASSUME NEW q \in Ranks, NEW i \in 1..Len(landing'[q])
        PROVE  \E j \in 1..Len(landing[q]) : landing'[q][i][1] = landing[q][j][1]
    <3>0. landing[q] \in Seq(Loc \X Value)
      BY <1>1
    <3>1. CASE q # r
      BY <1>1, <1>4, <2>3, <3>1 DEF Place
    <3>2. CASE q = r
      <4>1. landing'[r] = Tail(landing[r]) /\ landing[r] # << >>
        BY <1>1, <1>4 DEF Place
      <4>2. i + 1 \in 1..Len(landing[r]) /\ Tail(landing[r])[i] = landing[r][i + 1]
        BY <2>3, <3>0, <3>2, <4>1
      <4> QED BY <3>2, <4>1, <4>2
    <3> QED BY <3>1, <3>2
  <2> QED BY <2>1, <2>2, <2>3, DriftQuiet
<1>5. CASE Ack(r)
  <2>1. UNCHANGED <<pc, call, s, up, rq, sq, wire, landing>>
    BY <1>5 DEF Ack
  <2>2. \A q \in Ranks : OnWire(q)'
    BY <1>0, <2>1 DEF AllPosted, OnWire
  <2>3. \A q \in Ranks : unacked'[q] + scq'[q] = unacked[q] + scq[q]
    <3>1. \A q \in Ranks : q # r => unacked'[q] = unacked[q] /\ scq'[q] = scq[q]
      BY <1>1, <1>5 DEF Ack
    <3>2. unacked'[r] = unacked[r] - 1 /\ scq'[r] = scq[r] + 1
      BY <1>1, <1>5 DEF Ack
    <3>3. unacked[r] \in Nat /\ scq[r] \in Nat
      BY <1>1
    <3>4. unacked'[r] + scq'[r] = unacked[r] + scq[r]
      BY <3>2, <3>3
    <3> QED BY <3>1, <3>4
  <2> QED BY <2>1, <2>2, <2>3, DriftQuiet
<1>6. CASE RetryExceeded(r)
  <2>0. UNCHANGED <<pc, call, s, up, rq, landing, scq>> /\ ~up[Right(r)]
    BY <1>6 DEF RetryExceeded
  <2>1. CASE unacked[r] > 0 /\ unacked' = [unacked EXCEPT ![r] = @ - 1] /\ UNCHANGED <<sq, wire>>
    <3>1. \A q \in Ranks : OnWire(q)'
      BY <1>0, <2>1 DEF AllPosted, OnWire
    <3>2. \A q \in Ranks : unacked'[q] + scq'[q] > 0 => unacked[q] + scq[q] > 0
      <4>1. \A q \in Ranks : q # r => unacked'[q] = unacked[q]
        BY <1>1, <2>1
      <4>2. unacked[r] \in Nat /\ scq[r] \in Nat /\ unacked[r] > 0
        BY <1>1, <2>1
      <4>3. unacked[r] + scq[r] > 0
        BY <4>2
      <4> QED BY <2>0, <4>1, <4>3
    <3> QED BY <2>0, <2>1, <3>1, <3>2, DriftQuiet
  <2>2. CASE /\ wire[r] # << >> /\ sq' = [sq EXCEPT ![r] = Tail(@)]
             /\ wire' = [wire EXCEPT ![r] = << >>] /\ UNCHANGED unacked
    <3>1. sq[r] \in Seq(Loc) /\ sq[r] # << >> /\ Len(sq[r]) <= 1
      BY <1>0, <1>1, <2>2 DEF QueueDiscipline, SendFlow, AllPosted, Queued
    <3>2. Tail(sq[r]) = << >>
      BY <3>1
    <3>3. sq'[r] = << >> /\ wire'[r] = << >>
      BY <1>1, <2>2, <3>2
    <3>4. \A q \in Ranks : q # r => sq'[q] = sq[q] /\ wire'[q] = wire[q]
      BY <1>1, <2>2
    <3> QED BY <2>0, <2>2, <3>1, <3>3, <3>4, DriftLost
  <2> QED BY <1>6, <2>1, <2>2 DEF RetryExceeded
<1> QED BY <1>2, <1>3, <1>4, <1>5, <1>6 DEF NicStep

(* The program starts with nothing posted and every rank before call 0.     *)
LEMMA InitDrift == Init => Drift
<1> SUFFICES ASSUME Init PROVE Drift
  OBVIOUS
<1>0. IInv
  BY InitIInv
<1>1. ASSUME NEW r \in Ranks
      PROVE  /\ pc[r] = "post" /\ call[r] = 0 /\ s[r] = 0 /\ up[r] /\ rq[r] = << >>
             /\ landing[r] = << >> /\ sq[r] = << >> /\ wire[r] = << >>
             /\ Right(r) \in Ranks
  BY RightType DEF Init
<1>2. AllPosted
  <2>1. Len(<< >>) = 0
    OBVIOUS
  <2> QED BY <1>1, <2>1 DEF AllPosted, Queued, OnWire, Closed, Ends
<1>3. InStep
  <2>1. \A r \in Ranks : SendNext(r) = <<0, 0>> /\ RecvNext(r) = <<0, 0>>
    BY <1>1 DEF SendNext, RecvNext, RingPCs
  <2> QED BY <1>1, <2>1 DEF InStep
<1>4. Caught /\ Crossed /\ NoNicOverlap
  <2>1. Len(<< >>) = 0
    OBVIOUS
  <2> QED BY <1>1, <2>1 DEF Caught, Crossed, NoNicOverlap
<1> QED BY <1>0, <1>2, <1>3, <1>4 DEF Drift

(* No step of any rank or NIC takes the ends of a connection apart.         *)
LEMMA NextDrift == Drift /\ [Next]_vars => Drift'
<1> SUFFICES ASSUME Drift, [Next]_vars PROVE Drift'
  OBVIOUS
<1>1. IInv'
  BY NextIInv DEF Drift
<1>2. ASSUME NEW r \in Ranks, Thread(r) \/ Fail(r) PROVE Drift'
  BY <1>1, <1>2, DriftThread DEF Drift
<1>3. ASSUME NEW r \in Ranks, NicStep(r) PROVE Drift'
  BY <1>1, <1>3, DriftNic DEF Drift
<1>4. CASE UNCHANGED vars
  <2>1. UNCHANGED <<pc, call, s, up, rq, sq, wire, landing, unacked, scq>>
    BY <1>4 DEF vars
  <2>2. \A q \in Ranks : OnWire(q)'
    BY <2>1 DEF Drift, AllPosted, OnWire
  <2> QED BY <1>1, <2>1, <2>2, DriftQuiet DEF Drift
<1> QED BY <1>2, <1>3, <1>4 DEF Next, AllGone

(* The message at the head of a connection and the receive that waits for   *)
(* it are both the barrier's byte or both a chunk, for every ring size and  *)
(* number of calls: no recv of another size or call can complete instead.   *)
THEOREM MessagesMeetTheirReceivesHolds == Spec => []MessagesMeetTheirReceives
<1>1. Drift => MessagesMeetTheirReceives
  <2> SUFFICES ASSUME Drift, NEW r \in Ranks, wire[r] # << >>, rq[Right(r)] # << >>
               PROVE  (Head(wire[r])[1] = Scratch) = (Head(rq[Right(r)]) = Scratch)
    BY DEF MessagesMeetTheirReceives
  <2>1. TypeOK /\ sq[r] # << >> /\ Right(r) \in Ranks /\ Head(wire[r])[1] = sq[r][1]
    BY RightType DEF Drift, IInv, QueueDiscipline, SendFlow, AllPosted, OnWire
  <2>2. rq[Right(r)] \in Seq(Loc)
    BY <2>1, RankTypes
  <2>3. Head(rq[Right(r)]) = rq[Right(r)][1]
    BY <2>2
  <2>4. sq[r][1] = Scratch <=> rq[Right(r)][1] = Scratch
    BY <2>1, SameMessage
  <2> QED BY <2>1, <2>3, <2>4
<1> QED BY InitDrift, NextDrift, <1>1, PTL DEF Spec

(* A rank that has left world_barrier knows that both of its neighbours     *)
(* have arrived at it, for every ring size: collective.hpp promises no      *)
(* more, and the posted branch of world_barrier keeps this much.            *)
THEOREM BarrierNeighboursHolds == Spec => []BarrierNeighbours
<1>1. Drift => BarrierNeighbours
  BY DEF Drift, Crossed, BarrierNeighbours, Sent, Got, Past
<1> QED BY InitDrift, NextDrift, <1>1, PTL DEF Spec

(* No chunk lands on a chunk that its receiver is still sending: for more   *)
(* than two ranks they are different chunks, and for two the left neighbour *)
(* sends only once it has the chunk in question.                            *)
THEOREM NoNicOverlapHolds == Spec => []NoNicOverlap
<1>1. Drift => NoNicOverlap
  BY DEF Drift
<1> QED BY InitDrift, NextDrift, <1>1, PTL DEF Spec

-----------------------------------------------------------------------------
(* Why a ring of two never waits for a receive while it sums: a rank that   *)
(* sends anything of a call has all its left neighbour sent in earlier      *)
(* ones.  For a thread that runs InStep says so already; Abreast keeps it   *)
(* for what a failed one had posted.                                        *)
Abreast ==
  \A r \in Ranks : Sending(r) /\ sq[Right(r)] # << >> => SendNext(r)[1] >= call[Right(r)]

\* Where a rank receives next is never behind the call it is in.
RecvAhead == \A r \in Ranks : RecvNext(r)[1] >= call[r]

(* By where the thread is.                                                  *)
LEMMA RecvNextAhead == IInv => RecvAhead
<1> SUFFICES ASSUME IInv, NEW r \in Ranks PROVE RecvNext(r)[1] >= call[r]
  BY DEF RecvAhead
<1>1. call[r] \in Nat
  BY RankTypes DEF IInv
<1>2. RecvNext(r)[1] = call[r] \/ RecvNext(r)[1] = call[r] + 1
  BY DEF RecvNext, After
<1> QED BY <1>1, <1>2

(* And after a step.                                                        *)
LEMMA RecvNextAheadNext == IInv' => RecvAhead'
  BY RecvNextAhead, PTL

(* What a rank sends next never goes back to an earlier call.               *)
LEMMA SendForward ==
  ASSUME Drift, [Next]_vars, NEW p \in Ranks, Sending(p)'
  PROVE  /\ Sending(p)
         /\ SendNext(p)[1] \in Nat /\ SendNext(p)'[1] \in Nat
         /\ SendNext(p)'[1] >= SendNext(p)[1]
<1>0. IInv /\ TypeOK /\ AllPosted
  BY DEF Drift, IInv
<1>1. call[p] \in Nat /\ SendNext(p)[1] \in Nat
  <2>1. call[p] \in Nat
    BY <1>0, RankTypes
  <2>2. SendNext(p)[1] = call[p] \/ SendNext(p)[1] = call[p] + 1
    BY DEF SendNext, After
  <2> QED BY <2>1, <2>2
<1>2. ASSUME NEW r \in Ranks, Thread(r) \/ Fail(r)
      PROVE  Sending(p) /\ SendNext(p)' = SendNext(p)
  <2>1. CASE p = r
    BY <1>0, <1>2, <2>1, ThreadKeepsPlace DEF KeepsPlace
  <2>2. CASE p # r
    <3>1. Idle(p)
      BY <1>0, <1>2, <2>2, ThreadLocal DEF Idle
    <3> QED BY <3>1, IdleKeeps DEF KeepsPlace
  <2> QED BY <2>1, <2>2
<1>3. ASSUME NEW r \in Ranks, NicStep(r)
      PROVE  /\ pc'[p] = pc[p] /\ call'[p] = call[p] /\ s'[p] = s[p]
             /\ sq'[p] = sq[p] \/ (sq'[p] = << >> /\ sq[p] # << >>)
  <2>1. UNCHANGED <<pc, call, s>>
    BY <1>3 DEF NicStep, Fetch, Accept, RnrNak, Place, Ack, RetryExceeded
  <2>2. sq \in [Ranks -> Seq(Loc)] /\ sq[p] \in Seq(Loc) /\ Len(sq[p]) <= 1
    BY <1>0 DEF TypeOK, SendType, AllPosted, Queued
  <2>3. sq' = sq \/ (sq' = [sq EXCEPT ![r] = Tail(@)] /\ sq[r] # << >>)
    BY <1>0, <1>3 DEF NicStep, Fetch, Accept, RnrNak, Place, Ack, RetryExceeded,
                      IInv, QueueDiscipline, SendFlow
  <2>4. sq[p] # << >> => Tail(sq[p]) = << >>
    BY <2>2
  <2>5. sq'[p] = sq[p] \/ (sq'[p] = << >> /\ sq[p] # << >>)
    BY <2>2, <2>3, <2>4
  <2> QED BY <2>1, <2>5
<1>4. CASE \E r \in Ranks : NicStep(r)
  <2>1. pc'[p] = pc[p] /\ call'[p] = call[p] /\ s'[p] = s[p]
    BY <1>3, <1>4
  <2>2. CASE sq'[p] = sq[p]
    <3>1. Sending(p) /\ SendNext(p)' = SendNext(p)
      BY <2>1, <2>2 DEF Sending, SendNext
    <3> QED BY <1>1, <3>1
  <2>3. CASE sq'[p] = << >> /\ sq[p] # << >>
    <3>1. pc[p] # "failed"
      BY <2>1, <2>3 DEF Sending
    <3>2. SendNext(p)' = After(SendNext(p)[1], SendNext(p)[2])
      BY <1>0, <2>1, <2>3, <3>1, SendAccepted
    <3>3. \A k \in Nat : \A x : After(k, x)[1] = k \/ After(k, x)[1] = k + 1
      BY DEF After
    <3>4. SendNext(p)'[1] \in Nat /\ SendNext(p)'[1] >= SendNext(p)[1]
      BY <1>1, <3>2, <3>3
    <3> QED BY <1>1, <3>1, <3>4 DEF Sending
  <2> QED BY <1>3, <1>4, <2>2, <2>3
<1>5. CASE UNCHANGED vars
  <2>1. Sending(p) /\ SendNext(p)' = SendNext(p)
    BY <1>5 DEF vars, Sending, SendNext
  <2> QED BY <1>1, <2>1
<1> QED BY <1>1, <1>2, <1>4, <1>5 DEF Next, AllGone

(* Only a thread that runs changes its call, and a failing one posts        *)
(* nothing: what is queued after a failure was queued before.               *)
LEMMA FailedKeeps ==
  ASSUME Drift, [Next]_vars, NEW q \in Ranks, pc'[q] = "failed", sq'[q] # << >>
  PROVE  call'[q] = call[q] /\ sq[q] # << >>
<1>0. IInv /\ TypeOK /\ AllPosted
  BY DEF Drift, IInv
<1>1. ASSUME NEW r \in Ranks, Thread(r) \/ Fail(r)
      PROVE  call'[q] = call[q] /\ sq[q] # << >>
  <2>1. CASE q = r
    <3>1. Effect(r)
      BY <1>0, <1>1, ThreadEffect DEF AllPosted
    <3> QED BY <2>1, <3>1 DEF Effect, Stands
  <2>2. CASE q # r
    <3>1. Idle(q)
      BY <1>0, <1>1, <2>2, ThreadLocal DEF Idle
    <3> QED BY <3>1 DEF Idle
  <2> QED BY <2>1, <2>2
<1>2. ASSUME NEW r \in Ranks, NicStep(r)
      PROVE  call'[q] = call[q] /\ sq[q] # << >>
  <2>1. UNCHANGED call
    BY <1>2 DEF NicStep, Fetch, Accept, RnrNak, Place, Ack, RetryExceeded
  <2>2. sq \in [Ranks -> Seq(Loc)] /\ sq[q] \in Seq(Loc) /\ Len(sq[q]) <= 1
    BY <1>0 DEF TypeOK, SendType, AllPosted, Queued
  <2>3. sq' = sq \/ (sq' = [sq EXCEPT ![r] = Tail(@)] /\ sq[r] # << >>)
    BY <1>0, <1>2 DEF NicStep, Fetch, Accept, RnrNak, Place, Ack, RetryExceeded,
                      IInv, QueueDiscipline, SendFlow
  <2> QED BY <2>1, <2>2, <2>3
<1>3. CASE UNCHANGED vars
  BY <1>3 DEF vars
<1> QED BY <1>1, <1>2, <1>3 DEF Next, AllGone

(* The invariant behind the theorem.                                        *)
LEMMA NextAbreast == Drift /\ Abreast /\ [Next]_vars => Abreast'
<1> SUFFICES ASSUME Drift, Abreast, [Next]_vars, NEW p \in Ranks, Sending(p)',
                    sq'[Right(p)] # << >>
             PROVE  SendNext(p)'[1] >= call'[Right(p)]
  BY DEF Abreast
<1> DEFINE q == Right(p)
<1>0. Drift' /\ IInv /\ IInv' /\ InStep /\ InStep' /\ TypeOK /\ q \in Ranks
  BY NextDrift, RightType DEF Drift, IInv
<1>1. CASE pc'[q] # "failed"
  <2>1. SendNext(p)' = RecvNext(q)'
    BY <1>0, <1>1 DEF InStep, Taking
  <2>2. RecvNext(q)'[1] >= call'[q]
    BY <1>0, RecvNextAheadNext DEF RecvAhead
  <2> QED BY <2>1, <2>2
<1>2. CASE pc'[q] = "failed"
  <2>1. call'[q] = call[q] /\ sq[q] # << >>
    BY <1>0, <1>2, FailedKeeps
  <2>2. SendNext(p)[1] >= call[q]
    BY SendForward, <2>1 DEF Abreast
  <2>3. call[q] \in Nat
    BY <1>0, RankTypes
  <2>4. /\ SendNext(p)[1] \in Nat /\ SendNext(p)'[1] \in Nat
        /\ SendNext(p)'[1] >= SendNext(p)[1]
    BY SendForward
  <2> QED BY <2>1, <2>2, <2>3, <2>4
<1> QED BY <1>1, <1>2

(* In a ring of two an RNR NAK never happens while the receiver sums.       *)
LEMMA NoNakInSum ==
  ASSUME N = 2, Drift, Abreast, NEW r \in Ranks, RnrNak(r), At(Right(r), "sum"),
         Scatter(s[Right(r)])
  PROVE  FALSE
<1> DEFINE q == Right(r)
<1>0. /\ IInv /\ TypeOK /\ InStep /\ q \in Ranks /\ Right(q) = r
      /\ sq[r] # << >> /\ rq[q] = << >> /\ pc[q] = "sum"
  <2>1. Left(q) = r /\ q \in Ranks
    BY RightType, Neighbours
  <2>2. Left(q) = Right(q)
    BY <2>1, Neighbours
  <2> QED BY <2>1, <2>2 DEF Drift, IInv, QueueDiscipline, SendFlow, RnrNak, At
<1>1. Steps = 2 /\ s[q] = 0 /\ call[q] \in Nat /\ call[r] \in Nat
  <2>1. s[q] \in 0..(Steps - 1) /\ call[q] \in Nat /\ call[r] \in Nat
    BY <1>0, RankTypes
  <2> QED BY <2>1 DEF Steps, Scatter
<1>2. RecvNext(q) = <<call[q] + 1, -1>>
  BY <1>0, <1>1 DEF RecvNext, After
<1>3. SendNext(r) = RecvNext(q) /\ SendNext(r)[1] = call[r]
  BY <1>0 DEF InStep, Sending, Taking, SendNext
<1>4. call[r] = call[q] + 1
  BY <1>2, <1>3
<1>5. sq[q] = << >>
  BY <1>0, QueuesAt DEF SendDue
<1>6. SendNext(q) = <<call[q], 1>>
  BY <1>0, <1>1, <1>5 DEF SendNext, After, RingPCs
<1>7. SendNext(q)[1] >= call[r]
  BY <1>0 DEF Abreast, Sending
<1> QED BY <1>1, <1>4, <1>6, <1>7

(* In a ring of two, for any number of calls and whoever fails, the chunk   *)
(* that comes while a rank sums always finds a receive posted: the early    *)
(* post in ring_posted keeps the RNR timer out of the sum.                  *)
THEOREM NoRnrWhileSummingHolds == N = 2 => (Spec => NoRnrWhileSumming)
<1> SUFFICES ASSUME N = 2 PROVE Spec => NoRnrWhileSumming
  OBVIOUS
<1>1. Init => Abreast
  BY RightType DEF Init, Abreast
<1>2. Drift /\ Abreast /\ [Next]_vars
        => [\A r \in Ranks : RnrNak(r) => ~(At(Right(r), "sum") /\ Scatter(s[Right(r)]))]_vars
  BY NoNakInSum
<1> QED BY InitDrift, NextDrift, NextAbreast, <1>1, <1>2, PTL DEF Spec, NoRnrWhileSumming

-----------------------------------------------------------------------------
(* The sums: what the memory of a rank holds, in the terms of RingSums.     *)
\* How many steps r has summed, and how many chunks its memory has received.
Over      == {"check", "reset", "done"}
Summed(r) == IF pc[r] \in RingPCs THEN s[r] ELSE IF pc[r] \in Over THEN Steps ELSE 0
Has(r) ==
  IF pc[r] \in {"send", "pollr"} THEN s[r] + rcq[r]
  ELSE IF pc[r] \in RingPCs THEN s[r] + 1 + rcq[r]
  ELSE IF pc[r] \in Over THEN Steps ELSE 0

BufHolds(r) ==
  \A c \in Chunks : mem[r][Buf(c)] = Content(r, c, call[r], Summed(r), Has(r))

\* A half of stage holds what has arrived and is not summed yet.
StageHolds(r) ==
  \A t \in 0..(N - 2) :
    Summed(r) <= t /\ t < Has(r) => mem[r][Stage(t % 2)] = Msg(Left(r), call[r], t)

\* What the NIC has accepted is the message its receive was posted for.
LandHolds(r) ==
  landing[r] # << >> /\ landing[r][1][1] # Scratch
    => landing[r][1][2] = Msg(Left(r), call[r], Has(r))

\* What the NIC has still to send is in memory, and on the wire.
SendHolds(r) ==
  sq[r] # << >> /\ sq[r][1] # Scratch
    => /\ mem[r][sq[r][1]] = Msg(r, call[r], s[r])
       /\ wire[r] # << >> => wire[r][1][2] = Msg(r, call[r], s[r])

Holds(r) ==
  SendHolds(r) /\ (pc[r] # "failed" => BufHolds(r) /\ StageHolds(r) /\ LandHolds(r))

Data == \A r \in Ranks : Holds(r)

\* Who has entered the call: the contributions to a sum tell.
Entered(q, k) ==
  call[q] > k \/ (call[q] = k /\ pc[q] \notin BarrierPCs \cup {"post"})
Known(r, k, n) == \A i \in 1..(N - 1) : i <= n => Entered(Back(r, i), k)

SentKnown(r) == sq[r] # << >> /\ sq[r][1] # Scratch => Known(r, call[r], s[r])
HasKnown(r)  == pc[r] # "failed" => Known(r, call[r], Has(r))
LandKnown(r) == pc[r] # "failed" /\ landing[r] # << >> /\ landing[r][1][1] # Scratch
                  => Known(r, call[r], Has(r) + 1)
AllKnown == \A r \in Ranks : SentKnown(r) /\ HasKnown(r) /\ LandKnown(r)

\* After the last message.
AtEnd(r) == SendNext(r) = <<Iters + 1, -1>>
Complete(r) == \A c \in Chunks : mem[r][Buf(c)] = Full(c, Iters)
FailedLate(r) ==
  /\ call[r] = Iters /\ s[r] = Steps - 1 /\ Complete(r)
  /\ rq[r] = << >> /\ landing[r] = << >>
  /\ sq[r] = << >>
  /\ Sending(Left(r)) => AtEnd(Left(r))
Late ==
  (\A q \in Faulty : pc[q] # "failed") =>
    \A r \in Ranks : /\ pc[r] = "failed" => FailedLate(r)
                     /\ scerr[r] > 0 /\ pc[r] # "failed" => AtEnd(r)
ErrDown == \A r \in Ranks : scerr[r] > 0 => ~up[Right(r)]

-----------------------------------------------------------------------------
(* Memory locations are apart.                                              *)
LEMMA LocsApart ==
  /\ \A c, d \in Chunks : /\ Buf(c) \in Loc /\ Buf(c) # Scratch
                          /\ Buf(c) = Buf(d) => c = d
  /\ \A h, i \in {0, 1} : /\ Stage(h) \in Loc /\ Stage(h) # Scratch
                          /\ Stage(h) = Stage(i) => h = i
  /\ \A c \in Chunks, h \in {0, 1} : Buf(c) # Stage(h)
  BY DEF Buf, Stage, Scratch, Loc

\* A step that leaves a rank's memory and counts alone: its queues only shrink,
\* or gain the barrier's byte.
Steady(r) ==
  /\ mem'[r] = mem[r] /\ call'[r] = call[r]
  /\ pc'[r] # "failed" => /\ pc[r] # "failed"
                          /\ Summed(r)' = Summed(r) /\ Has(r)' = Has(r)
  /\ landing'[r] = landing[r] \/ landing'[r] = << >>
  /\ \/ sq'[r] = << >> \/ sq'[r][1] = Scratch
     \/ sq'[r] = sq[r] /\ s'[r] = s[r] /\ wire'[r] \in {wire[r], << >>}

(* Such a step keeps what the rank holds. *)
LEMMA HoldsKept ==
  ASSUME NEW r \in Ranks, Holds(r), Steady(r)
  PROVE  Holds(r)'
<1>1. SendHolds(r)'
  BY DEF Holds, SendHolds, Steady
<1>2. ASSUME pc'[r] # "failed" PROVE BufHolds(r)'
  <2>1. Summed(r)' = Summed(r) /\ Has(r)' = Has(r) /\ BufHolds(r)
    BY <1>2 DEF Holds, Steady
  <2> QED BY <2>1 DEF BufHolds, Steady
<1>3. ASSUME pc'[r] # "failed" PROVE StageHolds(r)'
  <2>1. Summed(r)' = Summed(r) /\ Has(r)' = Has(r) /\ StageHolds(r)
    BY <1>3 DEF Holds, Steady
  <2> QED BY <2>1 DEF StageHolds, Steady
<1>4. ASSUME pc'[r] # "failed" PROVE LandHolds(r)'
  <2>1. Summed(r)' = Summed(r) /\ Has(r)' = Has(r) /\ LandHolds(r)
    BY <1>4 DEF Holds, Steady
  <2> QED BY <2>1 DEF LandHolds, Steady
<1> QED BY <1>1, <1>2, <1>3, <1>4 DEF Holds

(* A statement of r's thread leaves the memory of the other ranks alone.    *)
LEMMA MemLocal ==
  ASSUME TypeOK, NEW r \in Ranks, Thread(r) \/ Fail(r), NEW q \in Ranks, q # r
  PROVE  mem'[q] = mem[q]
<1> USE DEF TypeOK, MemType
<1>1. CASE Sum(r)
  BY <1>1 DEF Sum
<1>2. CASE Reset(r)
  BY <1>2 DEF Reset
<1>3. CASE ~Sum(r) /\ ~Reset(r)
  BY <1>3 DEF Thread, PostFirst, Send, PollRecv, ArmNext, PollSend, Check, BarrierRecv,
     BarrierSend, BarrierPollRecv, BarrierPollSend, PollSendError, Teardown, Fail
<1> QED BY <1>1, <1>2, <1>3

(* What a thread at "send" is about to send is the message of its step.     *)
LEMMA SendsMessage ==
  ASSUME TypeOK, NEW r \in Ranks, pc[r] = "send", RecvFlow(r), BufHolds(r)
  PROVE  mem[r][Buf(send_chunk(r, s[r]))] = Msg(r, call[r], s[r])
<1> DEFINE t == s[r]
           c == send_chunk(r, t)
           k == call[r]
           h == Has(r)
<1>0. N \in Nat /\ N >= 2 /\ t \in 0..(Steps - 1) /\ t \in Nat /\ Steps = 2 * (N - 1)
  BY NAssumption, RankTypes DEF Steps
<1>c. c \in Chunks
  BY <1>0, ChunkType
<1>1. Summed(r) = t /\ h = t + rcq[r]
  BY DEF Summed, Has, RingPCs
<1>2. rcq[r] \in {0, 1}
  <2> DEFINE x == Len(rq[r])
             y == Len(landing[r])
  <2>1. rcq[r] \in Nat /\ x \in Nat /\ y \in Nat
    BY RankTypes
  <2>2. rcq[r] + x + y = 1
    BY DEF RecvFlow, RecvDue
  <2> HIDE DEF x, y
  <2> QED BY <2>1, <2>2
<1>3. mem[r][Buf(c)] = Content(r, c, k, t, h)
  BY <1>c, <1>1 DEF BufHolds
<1>d. Dist(r, c) \in 0..(N - 1)
  BY <1>c, DistType
<1>h. h \in Nat /\ t <= h /\ h <= t + 1
  BY <1>0, <1>1, <1>2
<1> HIDE DEF c, t, k, h
<1>4. CASE Scatter(t)
  <2>1. Dist(r, c) = t
    BY <1>0, <1>4, ChunkDist DEF c
  <2>2. ~(Dist(r, c) + N - 1 < h) /\ Dist(r, c) <= t
    BY <1>0, <1>h, <2>1
  <2>3. mem[r][Buf(c)] = Sums(r, k, t + 1)
    BY <1>3, <2>1, <2>2 DEF Content
  <2> QED BY <1>4, <2>3 DEF Msg, c, t, k
<1>5. CASE ~Scatter(t) /\ t = N - 1
  <2>1. Dist(r, c) = N - 1
    BY <1>0, <1>5, ChunkDist DEF c
  <2>2. ~(Dist(r, c) + N - 1 < h) /\ Dist(r, c) <= t /\ Dist(r, c) + 1 = N
    BY <1>0, <1>5, <1>h, <2>1
  <2>3. mem[r][Buf(c)] = Sums(r, k, N)
    BY <1>3, <2>2 DEF Content
  <2>4. Back(c, 1) = r
    BY <1>c, <2>1, DistType
  <2> QED BY <1>5, <2>3, <2>4 DEF Msg, Full, c, t, k
<1>6. CASE ~Scatter(t) /\ t > N - 1
  <2>1. Dist(r, c) = t - N
    BY <1>0, <1>6, ChunkDist DEF c
  <2>2. Dist(r, c) + N - 1 < h
    BY <1>0, <1>6, <1>h, <2>1
  <2>3. mem[r][Buf(c)] = Full(c, k)
    BY <1>3, <2>2 DEF Content
  <2> QED BY <1>6, <2>3 DEF Msg, c, t, k
<1> QED BY <1>0, <1>4, <1>5, <1>6 DEF Scatter

(* The sum ends a step: one more is summed, and what has arrived stays. *)
LEMMA SumMoves ==
  ASSUME IInv, NEW r \in Ranks, Sum(r)
  PROVE  /\ pc[r] = "sum" /\ pc'[r] # "failed" /\ call'[r] = call[r]
         /\ landing'[r] = landing[r] /\ sq'[r] = << >>
         /\ Summed(r) = s[r] /\ Summed(r)' = s[r] + 1
         /\ Has(r)' = Has(r) /\ Has(r) \in {s[r] + 1, s[r] + 2}
<1> DEFINE t == s[r]
           k == call[r]
           h == Has(r)
<1>t. TypeOK /\ RecvFlow(r) /\ pc[r] = "sum"
  BY DEF IInv, QueueDiscipline, Sum, At
<1>0. N \in Nat /\ N >= 2 /\ t \in 0..(Steps - 1) /\ t \in Nat /\ Steps = 2 * (N - 1)
  BY <1>t, NAssumption, RankTypes DEF Steps
<1>1. rcq[r] \in {0, 1} /\ (t + 1 = Steps => rcq[r] = 0)
  <2> DEFINE x == Len(rq[r])
             y == Len(landing[r])
  <2>1. rcq[r] \in Nat /\ x \in Nat /\ y \in Nat
    BY <1>t, RankTypes
  <2>2. RecvDue(r) = IF t + 1 < Steps THEN 1 ELSE 0
    BY <1>t DEF RecvDue
  <2>3. rcq[r] + x + y = RecvDue(r)
    BY <1>t DEF RecvFlow
  <2> HIDE DEF x, y
  <2> QED BY <1>0, <2>1, <2>2, <2>3
<1>2. Summed(r) = t /\ h = t + 1 + rcq[r]
  BY <1>t DEF Summed, Has, RingPCs
<1>3. call'[r] = k /\ landing'[r] = landing[r] /\ rcq'[r] = rcq[r] /\ sq'[r] = sq[r]
  BY DEF Sum
<1>4. pc'[r] # "failed" /\ Summed(r)' = t + 1 /\ Has(r)' = h
  <2>1. CASE t + 1 < Steps
    <3>1. pc'[r] = "send" /\ s'[r] = t + 1
      BY <1>t, <2>1 DEF Sum, Goto, TypeOK, ThreadType
    <3> QED BY <1>2, <1>3, <3>1 DEF Summed, Has, RingPCs
  <2>2. CASE ~(t + 1 < Steps)
    <3>1. pc'[r] \in {"check", "reset"}
      BY <1>t, <2>2 DEF Sum, Goto, TypeOK, ThreadType, AfterRing
    <3>2. t + 1 = Steps
      BY <1>0, <2>2
    <3> QED BY <1>0, <1>1, <1>2, <3>1, <3>2 DEF Summed, Has, RingPCs, Over
  <2> QED BY <2>1, <2>2
<1>5. sq[r] = << >>
  BY <1>t, QueuesAt DEF SendDue
<1>6. h \in {t + 1, t + 2}
  BY <1>0, <1>1, <1>2
<1> QED BY <1>t, <1>2, <1>3, <1>4, <1>5, <1>6

(* The sum of ring_posted: the chunk of the step gains the partial sum that *)
(* waits in its half of stage, and nothing else changes.                    *)
LEMMA SumHolds ==
  ASSUME IInv, NEW r \in Ranks, Holds(r), Sum(r)
  PROVE  Holds(r)'
<1> DEFINE t == s[r]
           k == call[r]
           h == Has(r)
<1>t. TypeOK /\ pc[r] = "sum" /\ BufHolds(r) /\ StageHolds(r) /\ LandHolds(r)
  BY DEF IInv, Sum, At, Holds
<1>0. N \in Nat /\ N >= 2 /\ t \in 0..(Steps - 1) /\ t \in Nat /\ Steps = 2 * (N - 1)
  BY <1>t, NAssumption, RankTypes DEF Steps
<1>2. /\ Summed(r) = t /\ Summed(r)' = t + 1 /\ Has(r)' = h /\ h \in {t + 1, t + 2}
      /\ call'[r] = k /\ landing'[r] = landing[r] /\ sq'[r] = << >>
  BY SumMoves
<1>6. SendHolds(r)'
  BY <1>2 DEF SendHolds
<1>7. LandHolds(r)'
  BY <1>t, <1>2 DEF LandHolds
<1>8. mem \in [Ranks -> [Loc -> Value]]
  BY <1>t DEF TypeOK, MemType
<1>9. ASSUME NEW l \in Loc, Scatter(t) => l # Buf(recv_chunk(r, t)) PROVE mem'[r][l] = mem[r][l]
  BY <1>8, <1>9 DEF Sum
<1>10. StageHolds(r)'
  <2> SUFFICES ASSUME NEW u \in 0..(N - 2), Summed(r)' <= u, u < Has(r)'
               PROVE  mem'[r][Stage(u % 2)] = Msg(Left(r), call'[r], u)
    BY DEF StageHolds
  <2>1. u % 2 \in {0, 1} /\ recv_chunk(r, t) \in Chunks
    BY <1>0, ChunkType
  <2>2. mem'[r][Stage(u % 2)] = mem[r][Stage(u % 2)]
    BY <1>9, <2>1, LocsApart
  <2>3. Summed(r) <= u /\ u < Has(r)
    BY <1>0, <1>2
  <2> QED BY <1>t, <1>2, <2>2, <2>3 DEF StageHolds
<1>h. h \in Nat /\ h <= t + 2
  BY <1>0, <1>2
<1>11. ASSUME NEW c \in Chunks, Scatter(t) => c # recv_chunk(r, t)
       PROVE  mem'[r][Buf(c)] = Content(r, c, k, t + 1, h)
  <2>1. recv_chunk(r, t) \in Chunks
    BY <1>0, ChunkType
  <2>2. mem'[r][Buf(c)] = mem[r][Buf(c)]
    BY <1>9, <1>11, <2>1, LocsApart
  <2>3. mem[r][Buf(c)] = Content(r, c, k, t, h)
    BY <1>t, <1>2 DEF BufHolds
  <2>4. Dist(r, c) \in 0..(N - 1)
    BY DistType
  <2>5. Dist(r, c) <= t <=> Dist(r, c) <= t + 1
    <3>1. CASE Scatter(t)
      <4>1. Dist(r, recv_chunk(r, t)) = t + 1
        BY <1>0, <3>1, ChunkDist
      <4>2. Dist(r, c) # t + 1
        BY <1>11, <2>1, <3>1, <4>1, DistType
      <4> QED BY <1>0, <2>4, <4>2
    <3>2. CASE ~Scatter(t)
      BY <1>0, <2>4, <3>2 DEF Scatter
    <3> QED BY <3>1, <3>2
  <2> HIDE DEF t, k, h
  <2> QED BY <2>2, <2>3, <2>5 DEF Content
<1>12. ASSUME Scatter(t)
       PROVE  mem'[r][Buf(recv_chunk(r, t))] = Content(r, recv_chunk(r, t), k, t + 1, h)
  <2> DEFINE c == recv_chunk(r, t)
             src == Stage(t % 2)
  <2>0. t < N - 1
    BY <1>12 DEF Scatter
  <2>1. c \in Chunks /\ Dist(r, c) = t + 1
    BY <1>0, <1>12, ChunkType, ChunkDist
  <2>2. mem'[r][Buf(c)] = mem[r][Buf(c)] \o mem[r][src]
    <3>1. Buf(c) \in Loc
      BY <2>1, LocsApart
    <3>2. mem' = [mem EXCEPT ![r][Buf(c)] = mem[r][Buf(c)] \o mem[r][src]]
      BY <1>12 DEF Sum
    <3> HIDE DEF c, src
    <3> QED BY <1>8, <3>1, <3>2
  <2>3. mem[r][Buf(c)] = Own(r, k)
    <3>1. mem[r][Buf(c)] = Content(r, c, k, t, h)
      BY <1>t, <1>2, <2>1 DEF BufHolds
    <3>2. ~(Dist(r, c) + N - 1 < h) /\ ~(Dist(r, c) <= t)
      BY <1>0, <1>h, <2>1
    <3>3. Own(r, k) = Sums(r, k, 1)
      BY SumsOne
    <3> HIDE DEF c, t, k, h
    <3> QED BY <3>1, <3>2, <3>3 DEF Content
  <2>4. mem[r][src] = Sums(Left(r), k, t + 1)
    <3>1. t \in 0..(N - 2) /\ Summed(r) <= t /\ t < Has(r)
      BY <1>0, <1>2, <2>0
    <3>2. mem[r][src] = Msg(Left(r), k, t)
      BY <1>t, <3>1 DEF StageHolds
    <3> QED BY <1>12, <3>2 DEF Msg
  <2>5. Own(r, k) \o Sums(Left(r), k, t + 1) = Sums(r, k, t + 1 + 1)
    <3>1. t + 1 \in Nat /\ t + 1 < N
      BY <1>0, <2>0
    <3> HIDE DEF t, k
    <3> QED BY <3>1, SumsGrow
  <2>6. ~(Dist(r, c) + N - 1 < h) /\ Dist(r, c) <= t + 1 /\ Dist(r, c) + 1 = t + 1 + 1
    BY <1>0, <1>h, <2>1
  <2>7. Content(r, c, k, t + 1, h) = Sums(r, k, t + 1 + 1)
    <3> HIDE DEF c, t, k, h
    <3> QED BY <2>6 DEF Content
  <2> HIDE DEF src
  <2> QED BY <2>2, <2>3, <2>4, <2>5, <2>7
<1>13. BufHolds(r)'
  <2> SUFFICES ASSUME NEW c \in Chunks PROVE mem'[r][Buf(c)] = Content(r, c, k, t + 1, h)
    BY <1>2 DEF BufHolds
  <2> HIDE DEF t, k, h
  <2> QED BY <1>11, <1>12
<1> QED BY <1>6, <1>7, <1>10, <1>13 DEF Holds

(* The reset opens the next call with nothing under way. *)
LEMMA ResetMoves ==
  ASSUME IInv, NEW r \in Ranks, Reset(r)
  PROVE  /\ pc'[r] = "brecv" /\ call'[r] = call[r] + 1
         /\ sq'[r] = << >> /\ landing'[r] = << >>
         /\ Summed(r)' = 0 /\ Has(r)' = 0
<1>0. TypeOK /\ pc[r] = "reset"
  BY DEF IInv, Reset, At
<1>1. sq[r] = << >> /\ landing[r] = << >>
  BY <1>0, QueuesAt DEF SendDue, RecvDue
<1>2. pc'[r] = "brecv" /\ call'[r] = call[r] + 1 /\ sq'[r] = << >> /\ landing'[r] = << >>
  BY <1>0, <1>1 DEF Reset, Goto, TypeOK, ThreadType
<1>3. Summed(r)' = 0 /\ Has(r)' = 0
  BY <1>2 DEF Summed, Has, RingPCs, Over
<1> QED BY <1>2, <1>3

(* The reset of the timed loop fills the buffer with the next contribution. *)
LEMMA ResetHolds ==
  ASSUME IInv, NEW r \in Ranks, Holds(r), Reset(r)
  PROVE  Holds(r)'
<1>0. mem \in [Ranks -> [Loc -> Value]]
  BY DEF IInv, TypeOK, MemType
<1>2. /\ call'[r] = call[r] + 1 /\ sq'[r] = << >> /\ landing'[r] = << >>
      /\ mem'[r] = [l \in Loc |-> IF l[1] = "buf" THEN Own(r, call[r] + 1) ELSE mem[r][l]]
  BY <1>0, ResetMoves DEF Reset
<1>3. Summed(r)' = 0 /\ Has(r)' = 0
  BY ResetMoves
<1>4. BufHolds(r)'
  <2> SUFFICES ASSUME NEW c \in Chunks
               PROVE  mem'[r][Buf(c)] = Content(r, c, call'[r], 0, 0)
    BY <1>3 DEF BufHolds
  <2>1. Buf(c) \in Loc /\ Buf(c)[1] = "buf"
    BY LocsApart DEF Buf
  <2>2. mem'[r][Buf(c)] = Own(r, call'[r])
    BY <1>2, <2>1
  <2> QED BY <2>2, FreshContent
<1>5. StageHolds(r)'
  BY <1>3, NAssumption DEF StageHolds
<1>6. SendHolds(r)' /\ LandHolds(r)'
  BY <1>2 DEF SendHolds, LandHolds
<1> QED BY <1>4, <1>5, <1>6 DEF Holds

(* A queue of one is empty after its head is taken. *)
LEMMA TailOfOne ==
  ASSUME NEW S, NEW x \in Seq(S), x # << >>, Len(x) <= 1
  PROVE  Tail(x) = << >>
  OBVIOUS

(* Every statement of a thread but the send of a chunk, the sum and the     *)
(* reset is steady: a count of polls makes up for a count of completions.   *)
LEMMA ThreadSteady ==
  ASSUME IInv, NEW r \in Ranks, Thread(r) \/ Fail(r)
  PROVE  Steady(r) \/ Send(r) \/ Sum(r) \/ Reset(r)
<1>0. TypeOK /\ RecvFlow(r) /\ SendFlow(r)
  BY DEF IInv, QueueDiscipline
<1>t. rcq[r] \in Nat /\ s[r] \in Nat /\ Steps \in Nat
  BY <1>0, RankTypes
<1> USE DEF TypeOK, ThreadType, MemType, RecvType, SendType, AckType, At, Goto
<1>1. CASE PostFirst(r)
  <2>1. pc[r] = "post" /\ pc'[r] = "send" /\ s'[r] = 0 /\ rcq'[r] = rcq[r]
    BY <1>0, <1>1 DEF PostFirst
  <2>2. rcq[r] = 0 /\ sq[r] = << >>
    BY <1>0, <2>1, RecvBefore, SendBefore DEF RecvDue, SendDue
  <2>3. Summed(r)' = Summed(r) /\ Has(r)' = Has(r)
    BY <2>1, <2>2 DEF Summed, Has, RingPCs, Over
  <2> QED BY <1>1, <2>1, <2>2, <2>3 DEF Steady, PostFirst
<1>3. CASE PollRecv(r)
  <2>1. pc[r] = "pollr" /\ pc'[r] = "arm" /\ s' = s /\ rcq'[r] = rcq[r] - 1
    BY <1>0, <1>3 DEF PollRecv, poll_left
  <2>2. Summed(r)' = Summed(r)
    BY <2>1 DEF Summed, RingPCs
  <2>3. Has(r)' = Has(r)
    BY <1>t, <2>1 DEF Has, RingPCs
  <2> QED BY <1>3, <2>1, <2>2, <2>3 DEF Steady, PollRecv
<1>4. CASE ArmNext(r)
  <2>1. pc[r] = "arm" /\ pc'[r] = "polls" /\ s' = s /\ rcq' = rcq
    BY <1>0, <1>4 DEF ArmNext
  <2>2. Summed(r)' = Summed(r) /\ Has(r)' = Has(r)
    BY <2>1 DEF Summed, Has, RingPCs
  <2>3. mem' = mem /\ call' = call /\ landing' = landing /\ sq' = sq /\ wire' = wire
    BY <1>4 DEF ArmNext
  <2> QED BY <2>1, <2>2, <2>3 DEF Steady
<1>5. CASE PollSend(r)
  <2>1. pc[r] = "polls" /\ pc'[r] = "sum" /\ s' = s /\ rcq' = rcq
    BY <1>0, <1>5 DEF PollSend
  <2>2. Summed(r)' = Summed(r) /\ Has(r)' = Has(r)
    BY <2>1 DEF Summed, Has, RingPCs
  <2> QED BY <1>5, <2>1, <2>2 DEF Steady, PollSend
<1>7. CASE Check(r)
  <2>1. pc[r] = "check" /\ pc'[r] \in {"reset", "done", "failed"}
    BY <1>0, <1>7 DEF Check
  <2>2. pc'[r] # "failed" => Summed(r)' = Summed(r) /\ Has(r)' = Has(r)
    BY <2>1 DEF Summed, Has, RingPCs, Over
  <2> QED BY <1>7, <2>1, <2>2 DEF Steady, Check
<1>9. CASE BarrierRecv(r)
  <2>1. pc[r] = "brecv" /\ pc'[r] = "bsend"
    BY <1>0, <1>9 DEF BarrierRecv
  <2>2. Summed(r)' = Summed(r) /\ Has(r)' = Has(r)
    BY <2>1 DEF Summed, Has, RingPCs, Over
  <2> QED BY <1>9, <2>1, <2>2 DEF Steady, BarrierRecv
<1>10. CASE BarrierSend(r)
  <2>1. pc[r] = "bsend" /\ pc'[r] = "bpollr"
    BY <1>0, <1>10 DEF BarrierSend
  <2>2. Summed(r)' = Summed(r) /\ Has(r)' = Has(r)
    BY <2>1 DEF Summed, Has, RingPCs, Over
  <2>3. sq[r] = << >>
    BY <1>0, <2>1, SendBefore DEF SendDue
  <2>4. sq'[r] = <<Scratch>>
    BY <1>0, <1>10, <2>3 DEF BarrierSend, send_async
  <2>5. sq'[r][1] = Scratch
    BY <2>4
  <2> QED BY <1>10, <2>1, <2>2, <2>5 DEF Steady, BarrierSend
<1>11. CASE BarrierPollRecv(r)
  <2>1. pc[r] = "bpollr" /\ pc'[r] = "bpolls"
    BY <1>0, <1>11 DEF BarrierPollRecv
  <2>2. Summed(r)' = Summed(r) /\ Has(r)' = Has(r)
    BY <2>1 DEF Summed, Has, RingPCs, Over
  <2> QED BY <1>11, <2>1, <2>2 DEF Steady, BarrierPollRecv
<1>12. CASE BarrierPollSend(r)
  <2>1. pc[r] = "bpolls" /\ pc'[r] = "post"
    BY <1>0, <1>12 DEF BarrierPollSend
  <2>2. Summed(r)' = Summed(r) /\ Has(r)' = Has(r)
    BY <2>1 DEF Summed, Has, RingPCs, Over
  <2> QED BY <1>12, <2>1, <2>2 DEF Steady, BarrierPollSend
<1>13. CASE PollSendError(r)
  <2>1. pc'[r] = "failed"
    BY <1>0, <1>13 DEF PollSendError
  <2> QED BY <1>13, <2>1 DEF Steady, PollSendError
<1>14. CASE Teardown(r)
  <2>1. pc[r] \in {"done", "failed"} /\ pc' = pc /\ mem' = mem /\ call' = call
    BY <1>14 DEF Teardown, Ended
  <2>2. pc'[r] # "failed" => Summed(r)' = Summed(r) /\ Has(r)' = Has(r)
    BY <2>1 DEF Summed, Has, RingPCs, Over
  <2>3. landing'[r] = << >> /\ sq'[r] = << >>
    BY <1>0, <1>14 DEF Teardown
  <2> QED BY <2>1, <2>2, <2>3 DEF Steady
<1>15. CASE Fail(r)
  <2>1. pc'[r] = "failed"
    BY <1>0, <1>15 DEF Fail
  <2> QED BY <1>15, <2>1 DEF Steady, Fail
<1> QED BY <1>1, <1>3, <1>4, <1>5, <1>7, <1>9, <1>10,
           <1>11, <1>12, <1>13, <1>14, <1>15 DEF Thread

(* The send of a chunk. *)
LEMMA SendMoves ==
  ASSUME IInv, NEW r \in Ranks, Send(r)
  PROVE  /\ pc[r] = "send" /\ pc'[r] # "failed" /\ s' = s /\ call' = call /\ mem' = mem
         /\ sq'[r] = <<Buf(send_chunk(r, s[r]))>> /\ wire'[r] = << >>
         /\ landing'[r] = landing[r] /\ Summed(r)' = Summed(r) /\ Has(r)' = Has(r)
<1>0. TypeOK /\ SendFlow(r)
  BY DEF IInv, QueueDiscipline
<1> USE DEF TypeOK, ThreadType, SendType, AckType, At, Goto
<1>1. pc[r] = "send" /\ pc'[r] = "pollr" /\ s' = s /\ rcq' = rcq /\ call' = call /\ mem' = mem
  BY <1>0 DEF Send
<1>2. sq[r] = << >> /\ wire[r] = << >>
  BY <1>0, <1>1, SendBefore DEF SendDue
<1>3. sq'[r] = <<Buf(send_chunk(r, s[r]))>> /\ wire'[r] = << >> /\ landing'[r] = landing[r]
  BY <1>0, <1>2 DEF Send, send_async
<1>4. Summed(r)' = Summed(r) /\ Has(r)' = Has(r)
  BY <1>1 DEF Summed, Has, RingPCs
<1> QED BY <1>1, <1>3, <1>4

(* Every statement of a thread keeps what its rank holds. *)
LEMMA ThreadHolds ==
  ASSUME IInv, NEW r \in Ranks, Holds(r), Thread(r) \/ Fail(r)
  PROVE  Holds(r)'
<1>1. CASE Send(r)
  <2>0. TypeOK /\ RecvFlow(r)
    BY DEF IInv, QueueDiscipline
  <2>1. /\ pc[r] = "send" /\ s' = s /\ call' = call /\ mem' = mem
        /\ sq'[r] = <<Buf(send_chunk(r, s[r]))>> /\ wire'[r] = << >>
        /\ landing'[r] = landing[r] /\ Summed(r)' = Summed(r) /\ Has(r)' = Has(r)
    BY <1>1, SendMoves
  <2>2. BufHolds(r) /\ StageHolds(r) /\ LandHolds(r)
    BY <2>1 DEF Holds
  <2>3. mem[r][Buf(send_chunk(r, s[r]))] = Msg(r, call[r], s[r])
    BY <2>0, <2>1, <2>2, SendsMessage
  <2>4. SendHolds(r)'
    BY <2>1, <2>3 DEF SendHolds
  <2>5. BufHolds(r)'
    BY <2>1, <2>2 DEF BufHolds
  <2>6. StageHolds(r)'
    BY <2>1, <2>2 DEF StageHolds
  <2>7. LandHolds(r)'
    BY <2>1, <2>2 DEF LandHolds
  <2> QED BY <2>4, <2>5, <2>6, <2>7 DEF Holds
<1> QED BY <1>1, ThreadSteady, HoldsKept, SumHolds, ResetHolds

(* Where an accepted payload is to go: the byte of the barrier, or the      *)
(* receive of the next chunk its rank has not got.                          *)
LEMMA LandingAt ==
  ASSUME IInv, NEW r \in Ranks, pc[r] # "failed", landing[r] # << >>
  PROVE  /\ Len(landing[r]) = 1 /\ rcq[r] = 0 /\ landing[r][1][1] = RecvLoc(r)
         /\ \/ RecvLoc(r) = Scratch /\ pc[r] \in BarrierPCs
            \/ /\ pc[r] \in {"send", "pollr", "polls", "sum"}
               /\ Has(r) \in 0..(Steps - 1) /\ RecvLoc(r) = RecvTarget(r, Has(r))
               /\ Summed(r) <= Has(r) /\ Summed(r) \in Nat
               /\ Has(r) = IF pc[r] \in {"send", "pollr"} THEN s[r] ELSE s[r] + 1
<1>0. TypeOK /\ RecvFlow(r)
  BY DEF IInv, QueueDiscipline
<1>1. /\ rcq[r] \in Nat /\ Len(rq[r]) \in Nat /\ Len(landing[r]) \in Nat /\ Len(landing[r]) > 0
      /\ s[r] \in 0..(Steps - 1) /\ Steps \in Nat /\ pc[r] \in PCs
  BY <1>0, RankTypes
<1>2. RecvDue(r) \in {0, 1} /\ rcq[r] + Len(rq[r]) + Len(landing[r]) = RecvDue(r)
  BY <1>0 DEF RecvFlow, RecvDue
<1>3. Len(landing[r]) = 1 /\ rcq[r] = 0 /\ RecvDue(r) = 1
  <2> DEFINE a == Len(rq[r])
             b == Len(landing[r])
  <2>1. a \in Nat /\ b \in Nat /\ b > 0 /\ rcq[r] \in Nat /\ rcq[r] + a + b = RecvDue(r)
    BY <1>1, <1>2
  <2> HIDE DEF a, b
  <2>2. b = 1 /\ rcq[r] = 0 /\ RecvDue(r) = 1
    BY <1>2, <2>1
  <2> QED BY <2>2 DEF b
<1>4. landing[r][1][1] = RecvLoc(r)
  BY <1>0, <1>3 DEF RecvFlow
<1>5. CASE pc[r] \in {"bsend", "bpollr"}
  BY <1>3, <1>4, <1>5 DEF RecvLoc, BarrierPCs
<1>6. CASE pc[r] \in {"send", "pollr"}
  <2>1. RecvLoc(r) = RecvTarget(r, s[r])
    BY <1>6 DEF RecvLoc, BarrierPCs
  <2>2. Has(r) = s[r] /\ Summed(r) = s[r]
    BY <1>1, <1>3, <1>6 DEF Has, Summed, RingPCs
  <2> QED BY <1>1, <1>3, <1>4, <1>6, <2>1, <2>2
<1>7. CASE pc[r] \in {"polls", "sum"} /\ s[r] + 1 < Steps
  <2>1. RecvLoc(r) = RecvTarget(r, s[r] + 1)
    BY <1>7 DEF RecvLoc, BarrierPCs
  <2>2. Has(r) = s[r] + 1 /\ Summed(r) = s[r]
    BY <1>1, <1>3, <1>7 DEF Has, Summed, RingPCs
  <2> QED BY <1>1, <1>3, <1>4, <1>7, <2>1, <2>2
<1> QED BY <1>3, <1>5, <1>6, <1>7 DEF RecvDue

(* A payload that reaches memory: a half of stage whose last content has    *)
(* been summed, or in all-gather the chunk it is the full sum of.           *)
LEMMA PlaceHolds ==
  ASSUME IInv, NoNicOverlap, NEW r \in Ranks, Holds(r), Place(r)
  PROVE  Holds(r)'
<1> DEFINE loc == landing[r][1][1]
           val == landing[r][1][2]
<1>0. TypeOK /\ mem \in [Ranks -> [Loc -> Value]] /\ landing[r] \in Seq(Loc \X Value)
      /\ landing \in [Ranks -> Seq(Loc \X Value)] /\ rcq \in [Ranks -> Nat]
  BY DEF IInv, TypeOK, MemType, RecvType
<1>1. /\ landing[r] # << >> /\ Head(landing[r]) = landing[r][1] /\ 1 \in 1..Len(landing[r])
      /\ landing[r][1] \in Loc \X Value
  BY <1>0 DEF Place
<1>2. /\ mem' = [mem EXCEPT ![r][loc] = val] /\ loc \in Loc
      /\ pc' = pc /\ call' = call /\ s' = s /\ sq' = sq /\ wire' = wire
      /\ rcq'[r] = rcq[r] + 1 /\ landing'[r] = Tail(landing[r])
  BY <1>0, <1>1 DEF Place
<1> HIDE DEF loc, val
<1>3. mem'[r][loc] = val /\ \A l \in Loc : l # loc => mem'[r][l] = mem[r][l]
  BY <1>0, <1>2
<1>4. SendHolds(r)'
  <2>1. ASSUME sq[r] # << >>, sq[r][1] # Scratch PROVE mem'[r][sq[r][1]] = mem[r][sq[r][1]]
    <3>1. sq[r] \in Seq(Loc) /\ 1 \in 1..Len(sq[r]) /\ sq[r][1] \in Loc
      BY <1>0, <2>1, RankTypes
    <3>2. sq[r][1] \in ToSet(sq[r])
      BY <3>1 DEF ToSet
    <3>3. loc # Scratch => loc \notin ToSet(sq[r])
      BY <1>1 DEF NoNicOverlap, loc
    <3> QED BY <1>3, <2>1, <3>1, <3>2, <3>3
  <2> QED BY <1>2, <2>1 DEF Holds, SendHolds
<1>5. ASSUME pc'[r] # "failed" PROVE BufHolds(r)' /\ StageHolds(r)' /\ LandHolds(r)'
  <2> DEFINE h == Has(r)
             k == call[r]
  <2>0. pc[r] # "failed" /\ BufHolds(r) /\ StageHolds(r) /\ LandHolds(r)
    BY <1>2, <1>5 DEF Holds
  <2>1. /\ Len(landing[r]) = 1 /\ rcq[r] = 0 /\ loc = RecvLoc(r)
        /\ \/ RecvLoc(r) = Scratch /\ pc[r] \in BarrierPCs
           \/ /\ pc[r] \in {"send", "pollr", "polls", "sum"}
              /\ h \in 0..(Steps - 1) /\ RecvLoc(r) = RecvTarget(r, h)
              /\ Summed(r) <= h /\ Summed(r) \in Nat
              /\ h = IF pc[r] \in {"send", "pollr"} THEN s[r] ELSE s[r] + 1
    BY <1>1, <2>0, LandingAt DEF loc
  <2>2. landing'[r] = << >>
    <3> DEFINE x == landing[r]
    <3>1. x \in Seq(Loc \X Value) /\ x # << >> /\ Len(x) <= 1
      BY <1>0, <1>1, <2>1
    <3> HIDE DEF x
    <3>2. Tail(x) = << >>
      BY <3>1, TailOfOne, Zenon
    <3> QED BY <1>2, <3>2 DEF x
  <2>3. LandHolds(r)'
    BY <2>2 DEF LandHolds
  <2>4. Summed(r)' = Summed(r)
    BY <1>2 DEF Summed
  <2>5. CASE RecvLoc(r) = Scratch /\ pc[r] \in BarrierPCs
    <3>1. Has(r)' = Has(r)
      BY <1>2, <2>5 DEF Has, RingPCs, Over, BarrierPCs
    <3>2. BufHolds(r)'
      BY <1>2, <1>3, <2>0, <2>1, <2>4, <2>5, <3>1, LocsApart DEF BufHolds
    <3>3. StageHolds(r)'
      <4> SUFFICES ASSUME NEW u \in 0..(N - 2), Summed(r) <= u, u < Has(r)
                   PROVE  mem'[r][Stage(u % 2)] = Msg(Left(r), call[r], u)
        BY <1>2, <2>4, <3>1 DEF StageHolds
      <4>1. u % 2 \in {0, 1}
        BY NAssumption
      <4>2. mem'[r][Stage(u % 2)] = mem[r][Stage(u % 2)]
        BY <1>3, <2>1, <2>5, <4>1, LocsApart
      <4> QED BY <2>0, <4>2 DEF StageHolds
    <3> QED BY <2>3, <3>2, <3>3
  <2>6. CASE /\ pc[r] \in {"send", "pollr", "polls", "sum"}
             /\ h \in 0..(Steps - 1) /\ RecvLoc(r) = RecvTarget(r, h)
             /\ Summed(r) <= h /\ Summed(r) \in Nat
             /\ h = IF pc[r] \in {"send", "pollr"} THEN s[r] ELSE s[r] + 1
    <3>n. N \in Nat /\ N >= 2 /\ h \in Nat /\ Steps = 2 * (N - 1) /\ s[r] \in Nat
      BY <1>0, <2>6, NAssumption, RankTypes DEF Steps
    <3>1. Has(r)' = h + 1
      BY <1>2, <2>1, <2>6, <3>n DEF Has, RingPCs
    <3>2. Summed(r) = s[r]
      BY <2>6 DEF Summed, RingPCs
    <3>3. loc # Scratch /\ val = Msg(Left(r), k, h)
      <4>1. loc # Scratch
        BY <2>1, <2>6, <3>n, TargetsApart
      <4> QED BY <1>1, <2>0, <4>1 DEF LandHolds, loc, val
    <3> HIDE DEF h, k
    <3>4. CASE Scatter(h)
      <4>1. loc = Stage(h % 2) /\ h % 2 \in {0, 1} /\ h <= N - 2
        BY <2>1, <2>6, <3>n, <3>4 DEF RecvTarget, Scatter
      <4>2. BufHolds(r)'
        <5> SUFFICES ASSUME NEW c \in Chunks
                     PROVE  mem'[r][Buf(c)] = Content(r, c, k, Summed(r), h + 1)
          BY <1>2, <2>4, <3>1 DEF BufHolds, k
        <5>1. mem'[r][Buf(c)] = mem[r][Buf(c)]
          BY <1>3, <4>1, LocsApart
        <5>2. mem[r][Buf(c)] = Content(r, c, k, Summed(r), h)
          BY <2>0 DEF BufHolds, h, k
        <5>3. ~(Dist(r, c) + N - 1 < h) /\ ~(Dist(r, c) + N - 1 < h + 1)
          BY <3>n, <4>1, DistType
        <5> QED BY <5>1, <5>2, <5>3 DEF Content
      <4>3. StageHolds(r)'
        <5> SUFFICES ASSUME NEW u \in 0..(N - 2), Summed(r) <= u, u < h + 1
                     PROVE  mem'[r][Stage(u % 2)] = Msg(Left(r), k, u)
          BY <1>2, <2>4, <3>1 DEF StageHolds, k
        <5>0. u \in Nat /\ u % 2 \in {0, 1}
          BY <3>n
        <5>1. CASE u = h
          BY <1>3, <3>3, <4>1, <5>1
        <5>2. CASE u # h
          <6>1. u = s[r] /\ h = u + 1
            BY <2>6, <3>n, <3>2, <5>0, <5>2
          <6>2. u % 2 # h % 2
            BY <5>0, <6>1
          <6>3. mem'[r][Stage(u % 2)] = mem[r][Stage(u % 2)]
            BY <1>3, <4>1, <5>0, <6>2, LocsApart
          <6>4. u < h
            BY <5>0, <6>1
          <6> QED BY <2>0, <6>3, <6>4 DEF StageHolds, h, k
        <5> QED BY <5>1, <5>2
      <4> QED BY <2>3, <4>2, <4>3
    <3>5. CASE ~Scatter(h)
      <4> DEFINE d == recv_chunk(r, h)
      <4>0. h >= N - 1
        BY <3>n, <3>5 DEF Scatter
      <4>1. loc = Buf(d) /\ d \in Chunks /\ Dist(r, d) = h - (N - 1)
        BY <2>1, <2>6, <3>n, <3>5, ChunkType, ChunkDist DEF RecvTarget
      <4>2. val = Full(d, k)
        BY <2>6, <3>3, <3>5, Chunk DEF Msg
      <4> HIDE DEF d
      <4>3. BufHolds(r)'
        <5> SUFFICES ASSUME NEW c \in Chunks
                     PROVE  mem'[r][Buf(c)] = Content(r, c, k, Summed(r), h + 1)
          BY <1>2, <2>4, <3>1 DEF BufHolds, k
        <5>d. Dist(r, c) \in Nat
          BY DistType
        <5>1. CASE c = d
          <6>1. Dist(r, d) + N - 1 < h + 1
            BY <3>n, <4>0, <4>1
          <6> QED BY <1>3, <4>1, <4>2, <5>1, <6>1 DEF Content
        <5>2. CASE c # d
          <6>1. mem'[r][Buf(c)] = mem[r][Buf(c)]
            BY <1>3, <4>1, <5>2, LocsApart
          <6>2. mem[r][Buf(c)] = Content(r, c, k, Summed(r), h)
            BY <2>0 DEF BufHolds, h, k
          <6>3. Dist(r, c) # h - (N - 1)
            BY <4>1, <5>2, DistType
          <6>4. Dist(r, c) + N - 1 < h <=> Dist(r, c) + N - 1 < h + 1
            BY <3>n, <5>d, <6>3
          <6> QED BY <6>1, <6>2, <6>4 DEF Content
        <5> QED BY <5>1, <5>2
      <4>4. StageHolds(r)'
        <5> SUFFICES ASSUME NEW u \in 0..(N - 2), Summed(r) <= u, u < h + 1
                     PROVE  mem'[r][Stage(u % 2)] = Msg(Left(r), k, u)
          BY <1>2, <2>4, <3>1 DEF StageHolds, k
        <5>0. u \in Nat /\ u % 2 \in {0, 1} /\ u < h
          BY <3>n, <4>0
        <5>1. mem'[r][Stage(u % 2)] = mem[r][Stage(u % 2)]
          BY <1>3, <4>1, <5>0, LocsApart
        <5> QED BY <2>0, <5>0, <5>1 DEF StageHolds, h, k
      <4> QED BY <2>3, <4>3, <4>4
    <3> QED BY <3>4, <3>5
  <2> QED BY <2>1, <2>5, <2>6
<1> QED BY <1>4, <1>5 DEF Holds

(* A payload the receiver's NIC accepts is the message the receive waits for. *)
LEMMA AcceptTakes ==
  ASSUME Drift, NEW r \in Ranks, Accept(r)
  PROVE  /\ sq[r] # << >> /\ wire[r] # << >> /\ sq'[r] = << >>
         /\ pc' = pc /\ call' = call /\ s' = s /\ mem' = mem /\ rcq' = rcq
         /\ pc[Right(r)] # "failed" =>
              LET q == Right(r) IN
              /\ landing'[q] = << <<rq[q][1], wire[r][1][2]>> >>
              /\ rq[q][1] # Scratch => /\ sq[r][1] # Scratch /\ call[r] = call[q]
                                       /\ s[r] = Has(q)
<1> DEFINE q == Right(r)
<1>0. IInv /\ TypeOK /\ RecvFlow(q) /\ Queued(r) /\ q \in Ranks /\ q # r
  BY RightType DEF Drift, IInv, QueueDiscipline, AllPosted
<1>t. /\ landing \in [Ranks -> Seq(Loc \X Value)] /\ wire[r] \in Seq(Loc \X Value)
      /\ sq \in [Ranks -> Seq(Loc)] /\ wire \in [Ranks -> Seq(Loc \X Value)]
      /\ rq[q] \in Seq(Loc) /\ landing[q] \in Seq(Loc \X Value)
  BY <1>0, RankTypes DEF TypeOK, RecvType, SendType
<1> HIDE DEF q
<1>1. /\ wire[r] # << >> /\ rq[q] # << >>
      /\ landing' = [landing EXCEPT ![q] = Append(landing[q], <<Head(rq[q]), Head(wire[r])[2]>>)]
      /\ sq' = [sq EXCEPT ![r] = Tail(sq[r])]
      /\ pc' = pc /\ call' = call /\ s' = s /\ mem' = mem /\ rcq' = rcq
  BY DEF Accept, q
<1>2. sq[r] # << >> /\ Head(wire[r]) = wire[r][1] /\ Head(rq[q]) = rq[q][1]
  BY <1>0, <1>t, <1>1 DEF IInv, QueueDiscipline, SendFlow
<1>3. sq'[r] = << >>
  <2>1. sq[r] \in Seq(Loc) /\ Len(sq[r]) <= 1
    BY <1>0, <1>t DEF Queued
  <2>2. Tail(sq[r]) = << >>
    BY <1>2, <2>1, TailOfOne
  <2> QED BY <1>t, <1>1, <2>2
<1>4. ASSUME pc[q] # "failed"
      PROVE  /\ landing'[q] = << <<rq[q][1], wire[r][1][2]>> >>
             /\ rq[q][1] # Scratch => /\ sq[r][1] # Scratch /\ call[r] = call[q]
                                      /\ s[r] = Has(q)
  <2>1. rcq[q] = 0 /\ Len(landing[q]) = 0 /\ RecvDue(q) = 1 /\ rq[q][1] = RecvLoc(q)
    <3> DEFINE a == Len(rq[q])
               b == Len(landing[q])
    <3>1. a \in Nat /\ b \in Nat /\ a > 0 /\ rcq[q] \in Nat /\ rcq[q] + a + b = RecvDue(q)
      <4>1. a \in Nat /\ b \in Nat /\ a > 0
        BY <1>t, <1>1
      <4>2. rcq[q] \in Nat
        BY <1>0, RankTypes
      <4>3. rcq[q] + a + b = RecvDue(q)
        BY <1>0, <1>4 DEF RecvFlow
      <4> QED BY <4>1, <4>2, <4>3
    <3> HIDE DEF a, b
    <3>2. rcq[q] = 0 /\ b = 0 /\ RecvDue(q) = 1
      BY <3>1 DEF RecvDue
    <3> QED BY <1>0, <1>1, <1>4, <3>2, QueuesAt DEF b
  <2>2. landing[q] = << >>
    BY <1>t, <2>1
  <2>3. landing'[q] = << <<rq[q][1], wire[r][1][2]>> >>
    BY <1>0, <1>t, <1>1, <1>2, <2>2
  <2>4. ASSUME rq[q][1] # Scratch
        PROVE  sq[r][1] # Scratch /\ call[r] = call[q] /\ s[r] = Has(q)
    <3>1. /\ call[r] = call[q] /\ sq[r][1] # Scratch
          /\ s[r] = IF rq[q][1] = RecvTarget(q, s[q]) THEN s[q] ELSE s[q] + 1
      BY <1>1, <1>2, <2>4, SameMessage DEF q
    <3>2. s[q] \in 0..(Steps - 1) /\ s[q] \in Nat /\ Steps \in Nat
      BY <1>0, RankTypes
    <3>3. CASE pc[q] \in {"send", "pollr"}
      BY <2>1, <3>1, <3>2, <3>3 DEF RecvLoc, BarrierPCs, Has
    <3>4. CASE pc[q] \in {"polls", "sum"} /\ s[q] + 1 < Steps
      <4>1. RecvTarget(q, s[q] + 1) # RecvTarget(q, s[q])
        BY <1>0, <3>2, <3>4, TargetsApart
      <4>2. rq[q][1] = RecvTarget(q, s[q] + 1)
        BY <2>1, <3>4 DEF RecvLoc, BarrierPCs
      <4> QED BY <2>1, <3>1, <3>2, <3>4, <4>1, <4>2 DEF Has, RingPCs
    <3>5. CASE pc[q] \in {"bsend", "bpollr"}
      BY <2>1, <2>4, <3>5 DEF RecvLoc, BarrierPCs
    <3> QED BY <2>1, <3>1, <3>3, <3>4, <3>5 DEF RecvDue
  <2> QED BY <2>3, <2>4
<1> QED BY <1>1, <1>2, <1>3, <1>4 DEF q

(* The receiver then holds the message on its way to memory. *)
LEMMA AcceptHolds ==
  ASSUME Drift, NEW r \in Ranks, Holds(r), Holds(Right(r)), Accept(r)
  PROVE  Holds(Right(r))'
<1> DEFINE q == Right(r)
<1>0. q \in Ranks /\ q # r /\ Left(q) = r
  BY RightType, Neighbours
<1>1. /\ sq[r] # << >> /\ wire[r] # << >>
      /\ pc' = pc /\ call' = call /\ s' = s /\ mem' = mem /\ rcq' = rcq
      /\ pc[q] # "failed" =>
           /\ landing'[q] = << <<rq[q][1], wire[r][1][2]>> >>
           /\ rq[q][1] # Scratch => /\ sq[r][1] # Scratch /\ call[r] = call[q]
                                    /\ s[r] = Has(q)
  BY AcceptTakes
<1>2. sq'[q] = sq[q] /\ wire'[q] = wire[q]
  BY <1>0 DEF Accept, Drift, IInv, TypeOK, SendType
<1>h. Holds(q)
  OBVIOUS
<1> HIDE DEF q
<1>3. Summed(q)' = Summed(q) /\ Has(q)' = Has(q)
  BY <1>1 DEF Summed, Has
<1>4. SendHolds(q)'
  BY <1>1, <1>2, <1>h DEF Holds, SendHolds
<1>5. ASSUME pc'[q] # "failed" PROVE BufHolds(q)' /\ StageHolds(q)' /\ LandHolds(q)'
  <2>0. pc[q] # "failed" /\ BufHolds(q) /\ StageHolds(q)
    BY <1>1, <1>5, <1>h DEF Holds
  <2>1. BufHolds(q)'
    BY <1>1, <1>3, <2>0 DEF BufHolds
  <2>2. StageHolds(q)'
    BY <1>1, <1>3, <2>0 DEF StageHolds
  <2>3. landing'[q][1][1] = rq[q][1] /\ landing'[q][1][2] = wire[r][1][2]
    BY <1>1, <2>0
  <2>4. ASSUME rq[q][1] # Scratch PROVE wire[r][1][2] = Msg(Left(q), call[q], Has(q))
    <3>1. wire[r][1][2] = Msg(r, call[r], s[r])
      BY <1>1, <2>0, <2>4 DEF Holds, SendHolds
    <3> QED BY <1>0, <1>1, <2>0, <2>4, <3>1
  <2>5. LandHolds(q)'
    BY <1>1, <1>3, <2>3, <2>4 DEF LandHolds
  <2> QED BY <2>1, <2>2, <2>5
<1>6. Holds(q)'
  BY <1>4, <1>5 DEF Holds
<1> QED BY <1>6 DEF q

(* A step of the NIC is steady for every rank but the one whose payload it  *)
(* reads, takes or writes.                                                  *)
LEMMA NicSteady ==
  ASSUME Drift, NEW r \in Ranks, NicStep(r), NEW q \in Ranks
  PROVE  \/ Steady(q)
         \/ q = r /\ (Fetch(r) \/ Place(r))
         \/ q = Right(r) /\ Accept(r)
<1>0. IInv /\ TypeOK /\ NoNicOverlap
  BY DEF Drift, IInv
<1>t. /\ landing \in [Ranks -> Seq(Loc \X Value)] /\ wire \in [Ranks -> Seq(Loc \X Value)]
      /\ sq \in [Ranks -> Seq(Loc)] /\ rcq \in [Ranks -> Nat]
      /\ mem \in [Ranks -> [Loc -> Value]]
  BY <1>0 DEF TypeOK, RecvType, SendType, MemType
<1>1. CASE Fetch(r)
  <2>1. pc' = pc /\ s' = s /\ rcq' = rcq /\ call' = call /\ mem' = mem /\ landing' = landing
        /\ sq' = sq
    BY <1>1 DEF Fetch
  <2>2. Summed(q)' = Summed(q) /\ Has(q)' = Has(q)
    BY <2>1 DEF Summed, Has
  <2>3. CASE q # r
    <3>1. wire'[q] = wire[q]
      BY <1>1, <1>t, <2>3 DEF Fetch
    <3> QED BY <2>1, <2>2, <3>1 DEF Steady
  <2> QED BY <1>1, <2>3
<1>2. CASE Accept(r)
  <2>1. pc' = pc /\ s' = s /\ rcq' = rcq /\ call' = call /\ mem' = mem /\ sq'[r] = << >>
    BY <1>2, AcceptTakes
  <2>2. Summed(q)' = Summed(q) /\ Has(q)' = Has(q)
    BY <2>1 DEF Summed, Has
  <2>3. CASE q = r
    <3>1. landing'[q] = landing[q]
      BY <1>2, <1>t, <2>3, RightType DEF Accept
    <3> QED BY <2>1, <2>2, <2>3, <3>1 DEF Steady
  <2>4. CASE q \notin {r, Right(r)}
    <3>1. landing'[q] = landing[q] /\ sq'[q] = sq[q] /\ wire'[q] = wire[q]
      BY <1>2, <1>t, <2>4 DEF Accept
    <3> QED BY <2>1, <2>2, <3>1 DEF Steady
  <2> QED BY <1>2, <2>3, <2>4
<1>3. CASE RnrNak(r)
  <2>1. pc' = pc /\ s' = s /\ rcq' = rcq /\ call' = call /\ mem' = mem /\ landing' = landing
        /\ sq' = sq /\ wire'[q] \in {wire[q], << >>}
    BY <1>3, <1>t DEF RnrNak
  <2>2. Summed(q)' = Summed(q) /\ Has(q)' = Has(q)
    BY <2>1 DEF Summed, Has
  <2> QED BY <2>1, <2>2 DEF Steady
<1>4. CASE Place(r)
  <2>2. CASE q # r
    <3>1. pc' = pc /\ s' = s /\ rcq'[q] = rcq[q] /\ call' = call /\ mem'[q] = mem[q]
          /\ landing'[q] = landing[q] /\ sq' = sq /\ wire' = wire
      BY <1>4, <1>t, <2>2 DEF Place
    <3>2. Summed(q)' = Summed(q) /\ Has(q)' = Has(q)
      BY <3>1 DEF Summed, Has
    <3> QED BY <3>1, <3>2 DEF Steady
  <2> QED BY <1>4, <2>2
<1>5. CASE Ack(r)
  <2>1. pc' = pc /\ s' = s /\ rcq' = rcq /\ call' = call /\ mem' = mem /\ landing' = landing
        /\ sq' = sq /\ wire' = wire
    BY <1>5 DEF Ack
  <2>2. Summed(q)' = Summed(q) /\ Has(q)' = Has(q)
    BY <2>1 DEF Summed, Has
  <2> QED BY <2>1, <2>2 DEF Steady
<1>6. CASE RetryExceeded(r)
  <2>1. pc' = pc /\ s' = s /\ rcq' = rcq /\ call' = call /\ mem' = mem /\ landing' = landing
    BY <1>6 DEF RetryExceeded
  <2>2. Summed(q)' = Summed(q) /\ Has(q)' = Has(q)
    BY <2>1 DEF Summed, Has
  <2>3. sq'[q] = << >> \/ (sq'[q] = sq[q] /\ wire'[q] = wire[q])
    <3>1. CASE unacked[r] > 0
      BY <1>6, <3>1 DEF RetryExceeded
    <3>2. CASE ~(unacked[r] > 0)
      <4>1. /\ wire[r] # << >> /\ sq' = [sq EXCEPT ![r] = Tail(sq[r])]
            /\ wire' = [wire EXCEPT ![r] = << >>]
        BY <1>6, <3>2 DEF RetryExceeded
      <4>2. CASE q # r
        BY <1>t, <4>1, <4>2
      <4>3. CASE q = r
        <5>1. sq[r] # << >> /\ Len(sq[r]) <= 1 /\ sq[r] \in Seq(Loc)
          BY <1>0, <1>t, <4>1 DEF Drift, AllPosted, Queued, IInv, QueueDiscipline, SendFlow
        <5>2. Tail(sq[r]) = << >>
          BY <5>1, TailOfOne
        <5> QED BY <1>t, <4>1, <4>3, <5>2
      <4> QED BY <4>2, <4>3
    <3> QED BY <3>1, <3>2
  <2> QED BY <2>1, <2>2, <2>3 DEF Steady
<1> QED BY <1>1, <1>2, <1>3, <1>4, <1>5, <1>6 DEF NicStep

(* Every step of the NIC keeps what the memory of every rank holds. *)
LEMMA NicHolds ==
  ASSUME Drift, Data, NEW r \in Ranks, NicStep(r)
  PROVE  Data'
<1>0. IInv /\ TypeOK /\ NoNicOverlap
  BY DEF Drift, IInv
<1>t. wire \in [Ranks -> Seq(Loc \X Value)] /\ sq \in [Ranks -> Seq(Loc)]
  BY <1>0 DEF TypeOK, SendType
<1>h. \A q \in Ranks : Holds(q)
  BY DEF Data
<1> SUFFICES ASSUME NEW q \in Ranks PROVE Holds(q)'
  BY DEF Data
<1>1. CASE q = r /\ Fetch(r)
  <2>1. pc' = pc /\ s' = s /\ rcq' = rcq /\ call' = call /\ mem' = mem /\ landing' = landing
        /\ sq' = sq
    BY <1>1 DEF Fetch
  <2>2. Summed(r)' = Summed(r) /\ Has(r)' = Has(r)
    BY <2>1 DEF Summed, Has
  <2>3. sq[r] # << >> /\ Head(sq[r]) = sq[r][1]
    BY <1>1, <1>t DEF Fetch
  <2>4. wire'[r] = << <<sq[r][1], mem[r][sq[r][1]]>> >>
    BY <1>1, <1>t, <2>3 DEF Fetch
  <2>5. wire'[r][1][2] = mem[r][sq[r][1]]
    BY <2>4
  <2>6. SendHolds(r)'
    BY <1>h, <2>1, <2>3, <2>5 DEF Holds, SendHolds
  <2>7. ASSUME pc'[r] # "failed" PROVE BufHolds(r)' /\ StageHolds(r)' /\ LandHolds(r)'
    <3>1. BufHolds(r) /\ StageHolds(r) /\ LandHolds(r)
      BY <1>h, <2>1, <2>7 DEF Holds
    <3>2. BufHolds(r)'
      BY <2>1, <2>2, <3>1 DEF BufHolds
    <3>3. StageHolds(r)'
      BY <2>1, <2>2, <3>1 DEF StageHolds
    <3>4. LandHolds(r)'
      BY <2>1, <2>2, <3>1 DEF LandHolds
    <3> QED BY <3>2, <3>3, <3>4
  <2> QED BY <1>1, <2>6, <2>7 DEF Holds
<1>2. CASE q = r /\ Place(r)
  BY <1>0, <1>h, <1>2, PlaceHolds
<1>3. CASE q = Right(r) /\ Accept(r)
  BY <1>h, <1>3, RightType, AcceptHolds
<1> QED BY <1>h, <1>1, <1>2, <1>3, NicSteady, HoldsKept

(* Before the first call every buffer holds its rank's contribution. *)
LEMMA InitData == Init => Data
<1> SUFFICES ASSUME Init, NEW r \in Ranks PROVE Holds(r)
  BY DEF Data
<1>1. /\ pc[r] = "post" /\ call[r] = 0 /\ sq[r] = << >> /\ landing[r] = << >>
      /\ mem[r] = Loaded(r, 0)
  BY DEF Init
<1>2. Summed(r) = 0 /\ Has(r) = 0
  BY <1>1 DEF Summed, Has, RingPCs, Over
<1>3. BufHolds(r)
  <2> SUFFICES ASSUME NEW c \in Chunks PROVE mem[r][Buf(c)] = Content(r, c, 0, 0, 0)
    BY <1>1, <1>2 DEF BufHolds
  <2>1. Buf(c) \in Loc /\ Buf(c)[1] = "buf"
    BY LocsApart DEF Buf
  <2>2. mem[r][Buf(c)] = Own(r, 0)
    BY <1>1, <2>1 DEF Loaded
  <2> QED BY <2>2, FreshContent
<1>4. StageHolds(r)
  BY <1>2, NAssumption DEF StageHolds
<1>5. SendHolds(r) /\ LandHolds(r)
  BY <1>1 DEF SendHolds, LandHolds
<1> QED BY <1>3, <1>4, <1>5 DEF Holds

(* The contents of memory and of messages are kept by every step. *)
LEMMA NextData == Drift /\ Data /\ [Next]_vars => Data'
<1> SUFFICES ASSUME Drift, Data, [Next]_vars PROVE Data'
  OBVIOUS
<1>1. CASE UNCHANGED vars
  <2>1. UNCHANGED <<pc, call, s, mem, rcq, landing, sq, wire>>
    BY <1>1 DEF vars
  <2> SUFFICES ASSUME NEW q \in Ranks PROVE Holds(q)'
    BY DEF Data
  <2>2. Summed(q)' = Summed(q) /\ Has(q)' = Has(q)
    BY <2>1 DEF Summed, Has
  <2> QED BY <2>1, <2>2, HoldsKept DEF Data, Steady
<1>2. ASSUME NEW r \in Ranks, Thread(r) \/ Fail(r) PROVE Data'
  <2>0. IInv /\ TypeOK
    BY DEF Drift, IInv
  <2> SUFFICES ASSUME NEW q \in Ranks PROVE Holds(q)'
    BY DEF Data
  <2>1. CASE q = r
    BY <1>2, <2>0, <2>1, ThreadHolds DEF Data
  <2>2. CASE q # r
    <3>1. /\ pc'[q] = pc[q] /\ s'[q] = s[q] /\ call'[q] = call[q] /\ landing'[q] = landing[q]
          /\ rcq'[q] = rcq[q] /\ sq'[q] = sq[q] /\ wire'[q] = wire[q] /\ mem'[q] = mem[q]
      BY <1>2, <2>0, <2>2, ThreadLocal, MemLocal
    <3>2. Summed(q)' = Summed(q) /\ Has(q)' = Has(q)
      BY <3>1 DEF Summed, Has
    <3> QED BY <3>1, <3>2, HoldsKept DEF Data, Steady
  <2> QED BY <2>1, <2>2
<1>3. CASE AllGone
  BY <1>1, <1>3 DEF AllGone
<1> QED BY <1>1, <1>2, <1>3, NicHolds DEF Next

-----------------------------------------------------------------------------
(* Who has entered a call.  A contribution travels with the chunk, so a     *)
(* rank that has n chunks of a call knows that the n ranks to its left have *)
(* entered it; a rank that has entered a call never goes back.              *)
LEMMA EnteredThread ==
  ASSUME IInv, NEW r \in Ranks, Thread(r) \/ Fail(r), NEW k \in Nat, Entered(r, k)
  PROVE  Entered(r, k)'
<1>0. TypeOK /\ call[r] \in Nat
  BY RankTypes DEF IInv
<1> USE DEF TypeOK, ThreadType, At, Goto, BarrierPCs, Entered
<1>1. CASE PostFirst(r)
  BY <1>0, <1>1 DEF PostFirst
<1>2. CASE Send(r)
  BY <1>0, <1>2 DEF Send
<1>3. CASE PollRecv(r)
  BY <1>0, <1>3 DEF PollRecv
<1>4. CASE ArmNext(r)
  BY <1>0, <1>4 DEF ArmNext
<1>5. CASE PollSend(r)
  BY <1>0, <1>5 DEF PollSend
<1>6. CASE Sum(r)
  BY <1>0, <1>6 DEF Sum, AfterRing
<1>7. CASE Check(r)
  BY <1>0, <1>7 DEF Check
<1>8. CASE Reset(r)
  BY <1>0, <1>8 DEF Reset
<1>9. CASE BarrierRecv(r)
  BY <1>0, <1>9 DEF BarrierRecv
<1>10. CASE BarrierSend(r)
  BY <1>0, <1>10 DEF BarrierSend
<1>11. CASE BarrierPollRecv(r)
  BY <1>0, <1>11 DEF BarrierPollRecv
<1>12. CASE BarrierPollSend(r)
  BY <1>0, <1>12 DEF BarrierPollSend
<1>13. CASE PollSendError(r)
  BY <1>0, <1>13 DEF PollSendError
<1>14. CASE Teardown(r)
  BY <1>0, <1>14 DEF Teardown
<1>15. CASE Fail(r)
  BY <1>0, <1>15 DEF Fail
<1> QED BY <1>1, <1>2, <1>3, <1>4, <1>5, <1>6, <1>7, <1>8, <1>9, <1>10,
           <1>11, <1>12, <1>13, <1>14, <1>15 DEF Thread

(* The same for a step of anyone. *)
LEMMA EnteredStays ==
  ASSUME IInv, [Next]_vars, NEW q \in Ranks, NEW k \in Nat, Entered(q, k)
  PROVE  Entered(q, k)'
<1>1. CASE pc'[q] = pc[q] /\ call'[q] = call[q]
  BY <1>1 DEF Entered
<1>2. ASSUME NEW r \in Ranks, Thread(r) \/ Fail(r) PROVE Entered(q, k)'
  BY <1>1, <1>2, EnteredThread, ThreadLocal DEF IInv
<1>3. ASSUME NEW r \in Ranks, NicStep(r) PROVE Entered(q, k)'
  BY <1>1, <1>3 DEF NicStep, Fetch, Accept, RnrNak, Place, Ack, RetryExceeded
<1>4. CASE UNCHANGED vars \/ AllGone
  BY <1>1, <1>4 DEF vars, AllGone
<1> QED BY <1>2, <1>3, <1>4 DEF Next

(* What is known of a call stays known. *)
LEMMA KnownStays ==
  ASSUME IInv, [Next]_vars, NEW r \in Ranks, NEW k \in Nat, NEW n, Known(r, k, n)
  PROVE  Known(r, k, n)'
<1> SUFFICES ASSUME NEW i \in 1..(N - 1), i <= n PROVE Entered(Back(r, i), k)'
  BY DEF Known
<1>1. Back(r, i) \in Ranks
  BY NAssumption, BackType
<1>2. Entered(Back(r, i), k)
  BY DEF Known
<1> QED BY <1>1, <1>2, EnteredStays

(* The counts when a payload reaches memory. *)
LEMMA PlaceCounts ==
  ASSUME IInv, NEW r \in Ranks, Place(r), pc[r] # "failed"
  PROVE  /\ pc' = pc /\ call' = call /\ s' = s /\ sq' = sq /\ wire' = wire
         /\ landing[r] # << >> /\ landing'[r] = << >>
         /\ \/ Has(r)' = Has(r)
            \/ landing[r][1][1] # Scratch /\ Has(r)' = Has(r) + 1
<1>0. TypeOK /\ landing \in [Ranks -> Seq(Loc \X Value)] /\ rcq \in [Ranks -> Nat]
  BY DEF IInv, TypeOK, RecvType
<1>1. /\ landing[r] # << >> /\ landing'[r] = Tail(landing[r]) /\ rcq'[r] = rcq[r] + 1
      /\ pc' = pc /\ call' = call /\ s' = s /\ sq' = sq /\ wire' = wire
  BY <1>0 DEF Place
<1>2. /\ Len(landing[r]) = 1 /\ rcq[r] = 0 /\ landing[r][1][1] = RecvLoc(r)
      /\ \/ RecvLoc(r) = Scratch /\ pc[r] \in BarrierPCs
         \/ /\ pc[r] \in {"send", "pollr", "polls", "sum"}
            /\ Has(r) \in 0..(Steps - 1) /\ RecvLoc(r) = RecvTarget(r, Has(r))
  BY <1>1, LandingAt
<1>3. landing'[r] = << >>
  <2> DEFINE x == landing[r]
  <2>1. x \in Seq(Loc \X Value) /\ x # << >> /\ Len(x) <= 1
    BY <1>0, <1>1, <1>2
  <2> HIDE DEF x
  <2>2. Tail(x) = << >>
    BY <2>1, TailOfOne, Zenon
  <2> QED BY <1>1, <2>2 DEF x
<1>4. CASE pc[r] \in BarrierPCs
  <2>1. Has(r)' = Has(r)
    BY <1>1, <1>4 DEF Has, RingPCs, Over, BarrierPCs
  <2> QED BY <1>1, <1>3, <2>1
<1>5. CASE /\ pc[r] \in {"send", "pollr", "polls", "sum"}
           /\ Has(r) \in 0..(Steps - 1) /\ RecvLoc(r) = RecvTarget(r, Has(r))
  <2>1. landing[r][1][1] # Scratch
    BY <1>2, <1>5, StepsType, TargetsApart
  <2>2. s[r] \in Nat
    BY <1>0, RankTypes
  <2>3. Has(r)' = Has(r) + 1
    BY <1>1, <1>2, <1>5, <2>2 DEF Has, RingPCs
  <2> QED BY <1>1, <1>3, <2>1, <2>3
<1> QED BY <1>2, <1>4, <1>5

(* A rank with the chunk of a step on its send queue has entered the call. *)
LEMMA SenderEntered ==
  ASSUME IInv, NEW r \in Ranks, sq[r] # << >>, sq[r][1] # Scratch
  PROVE  Entered(r, call[r])
<1>1. CASE pc[r] = "failed"
  BY <1>1 DEF Entered, BarrierPCs
<1>2. CASE pc[r] # "failed"
  <2>1. SendDue(r) = 1 /\ sq[r][1] = SendLoc(r)
    BY <1>2, QueuesAt
  <2> QED BY <2>1 DEF SendDue, SendLoc, Entered, BarrierPCs
<1> QED BY <1>1, <1>2

(* No step makes a rank forget who has entered its call. *)
LEMMA NextKnown == Drift /\ AllKnown /\ [Next]_vars => AllKnown'
<1> SUFFICES ASSUME Drift, AllKnown, [Next]_vars, NEW q \in Ranks
             PROVE  (SentKnown(q) /\ HasKnown(q) /\ LandKnown(q))'
  BY DEF AllKnown
<1>0. IInv /\ TypeOK /\ call[q] \in Nat /\ s[q] \in Nat
  BY RankTypes DEF Drift, IInv
<1>k. \A p \in Ranks : SentKnown(p) /\ HasKnown(p) /\ LandKnown(p)
  BY DEF AllKnown
<1>m. \A k \in Nat : \A n : Known(q, k, n) => Known(q, k, n)'
  BY <1>0, KnownStays
<1>1. CASE /\ call'[q] = call[q]
           /\ pc'[q] # "failed" => pc[q] # "failed" /\ Has(q)' = Has(q)
           /\ landing'[q] = landing[q] \/ landing'[q] = << >>
           /\ \/ sq'[q] = << >> \/ sq'[q][1] = Scratch
              \/ sq'[q] = sq[q] /\ s'[q] = s[q]
  <2>1. SentKnown(q)'
    BY <1>0, <1>k, <1>m, <1>1 DEF SentKnown, Known, Entered
  <2>2. HasKnown(q)'
    BY <1>0, <1>k, <1>m, <1>1 DEF HasKnown, Known, Entered
  <2>3. LandKnown(q)'
    BY <1>0, <1>k, <1>m, <1>1 DEF LandKnown, Known, Entered
  <2> QED BY <2>1, <2>2, <2>3
<1>2. CASE Steady(q)
  BY <1>1, <1>2 DEF Steady
<1>3. CASE Sum(q)
  BY <1>0, <1>1, <1>3, SumMoves
<1>4. CASE Reset(q)
  <2>1. sq'[q] = << >> /\ landing'[q] = << >> /\ Has(q)' = 0
    BY <1>0, <1>4, ResetMoves
  <2>2. ASSUME NEW k, NEW i \in 1..(N - 1) PROVE ~(i <= 0)
    BY NAssumption
  <2>3. HasKnown(q)'
    BY <2>1, <2>2 DEF HasKnown, Known
  <2> QED BY <2>1, <2>3 DEF SentKnown, LandKnown
<1>5. CASE Send(q)
  <2>1. /\ pc[q] = "send" /\ pc'[q] # "failed" /\ s' = s /\ call' = call
        /\ landing'[q] = landing[q] /\ Has(q)' = Has(q)
    BY <1>0, <1>5, SendMoves
  <2>2. HasKnown(q)'
    BY <1>0, <1>k, <1>m, <2>1 DEF HasKnown, Known, Entered
  <2>3. LandKnown(q)'
    BY <1>0, <1>k, <1>m, <2>1 DEF LandKnown, Known, Entered
  <2>4. Known(q, call[q], s[q])
    <3>1. Has(q) \in Nat /\ s[q] <= Has(q)
      BY <1>0, <2>1, RankTypes DEF Has
    <3>2. Known(q, call[q], Has(q))
      BY <1>k, <2>1 DEF HasKnown
    <3> HIDE DEF Has
    <3>3. \A i \in 1..(N - 1) : i <= s[q] => i <= Has(q)
      BY <1>0, <3>1, NAssumption
    <3> QED BY <3>2, <3>3 DEF Known
  <2>5. SentKnown(q)'
    BY <1>0, <1>m, <2>1, <2>4 DEF SentKnown, Known, Entered
  <2> QED BY <2>2, <2>3, <2>5
<1>6. CASE Fetch(q)
  <2>1. Has(q)' = Has(q)
    BY <1>6 DEF Fetch, Has
  <2> QED BY <1>1, <1>6, <2>1 DEF Fetch
<1>7. CASE Place(q)
  <2>1. CASE pc[q] = "failed"
    <3>1. pc' = pc /\ call' = call /\ s' = s /\ sq' = sq
      BY <1>7 DEF Place
    <3>2. SentKnown(q)'
      BY <1>0, <1>k, <1>m, <3>1 DEF SentKnown, Known, Entered
    <3> QED BY <2>1, <3>1, <3>2 DEF HasKnown, LandKnown
  <2>2. CASE pc[q] # "failed"
    <3>1. /\ pc' = pc /\ call' = call /\ s' = s /\ sq' = sq
          /\ landing[q] # << >> /\ landing'[q] = << >>
          /\ \/ Has(q)' = Has(q)
             \/ landing[q][1][1] # Scratch /\ Has(q)' = Has(q) + 1
      BY <1>0, <1>7, <2>2, PlaceCounts
    <3>2. SentKnown(q)' /\ LandKnown(q)'
      BY <1>0, <1>k, <1>m, <3>1 DEF SentKnown, LandKnown, Known, Entered
    <3>3. Known(q, call[q], Has(q)')
      BY <1>k, <2>2, <3>1 DEF HasKnown, LandKnown
    <3>4. HasKnown(q)'
      BY <1>0, <1>m, <3>1, <3>3 DEF HasKnown, Known, Entered
    <3> QED BY <3>2, <3>4
  <2> QED BY <2>1, <2>2
<1>8. ASSUME NEW r \in Ranks, q = Right(r), Accept(r)
      PROVE  (SentKnown(q) /\ HasKnown(q) /\ LandKnown(q))'
  <2>1. /\ sq[r] # << >>
        /\ pc' = pc /\ call' = call /\ s' = s /\ rcq' = rcq
        /\ pc[q] # "failed" =>
             /\ landing'[q] = << <<rq[q][1], wire[r][1][2]>> >>
             /\ rq[q][1] # Scratch => /\ sq[r][1] # Scratch /\ call[r] = call[q]
                                      /\ s[r] = Has(q)
    BY <1>8, AcceptTakes
  <2>2. sq'[q] = sq[q] /\ q # r /\ Left(q) = r
    BY <1>8, <1>0, RightType, Neighbours DEF Accept, TypeOK, SendType
  <2>3. Has(q)' = Has(q)
    BY <2>1 DEF Has
  <2>4. SentKnown(q)'
    BY <1>0, <1>k, <1>m, <2>1, <2>2 DEF SentKnown, Known, Entered
  <2>5. HasKnown(q)'
    BY <1>0, <1>k, <1>m, <2>1, <2>3 DEF HasKnown, Known, Entered
  <2>6. ASSUME pc[q] # "failed", rq[q][1] # Scratch PROVE Known(q, call[q], Has(q) + 1)
    <3>1. Known(r, call[q], Has(q)) /\ Entered(r, call[q]) /\ Has(q) \in Nat
      <4>1. Known(r, call[r], s[r])
        BY <1>k, <2>1, <2>6 DEF SentKnown
      <4>2. Entered(r, call[r])
        BY <1>0, <2>1, <2>6, SenderEntered
      <4>3. s[r] \in Nat
        BY <1>0, RankTypes
      <4> QED BY <2>1, <2>6, <4>1, <4>2, <4>3
    <3> SUFFICES ASSUME NEW i \in 1..(N - 1), i <= Has(q) + 1
                 PROVE  Entered(Back(q, i), call[q])
      BY DEF Known
    <3>2. CASE i = 1
      <4>1. Back(q, 1) = r
        BY <2>2, NAssumption, BackType
      <4> QED BY <3>1, <3>2, <4>1
    <3>3. CASE i # 1
      <4>1. i - 1 \in 1..(N - 1) /\ i - 1 <= Has(q) /\ i - 1 \in 0..N /\ i - 1 < N
        BY <3>1, <3>3, NAssumption
      <4>2. Back(Left(q), i - 1) = Back(q, (i - 1) + 1)
        BY <4>1, BackType
      <4>3. Back(r, i - 1) = Back(q, i)
        BY <2>2, <4>2
      <4>4. Entered(Back(r, i - 1), call[q])
        BY <3>1, <4>1 DEF Known
      <4> QED BY <4>3, <4>4
    <3> QED BY <3>2, <3>3
  <2>7. LandKnown(q)'
    <3> SUFFICES ASSUME pc'[q] # "failed", landing'[q][1][1] # Scratch
                 PROVE  Known(q, call[q], Has(q) + 1)'
      BY DEF LandKnown
    <3>1. rq[q][1] # Scratch /\ pc[q] # "failed"
      BY <2>1
    <3>2. Known(q, call[q], Has(q) + 1)
      BY <2>6, <3>1
    <3> QED BY <1>0, <1>m, <2>1, <2>3, <3>2 DEF Known, Entered
  <2> QED BY <2>4, <2>5, <2>7
<1>9. CASE UNCHANGED vars \/ AllGone
  <2>1. UNCHANGED vars
    BY <1>9 DEF AllGone
  <2>2. Has(q)' = Has(q)
    BY <2>1 DEF vars, Has
  <2> QED BY <1>1, <2>1, <2>2 DEF vars
<1>10. ASSUME NEW r \in Ranks, Thread(r) \/ Fail(r)
       PROVE  (SentKnown(q) /\ HasKnown(q) /\ LandKnown(q))'
  <2>1. CASE q = r
    BY <1>0, <1>2, <1>3, <1>4, <1>5, <1>10, <2>1, ThreadSteady
  <2>2. CASE q # r
    <3>1. /\ pc'[q] = pc[q] /\ s'[q] = s[q] /\ call'[q] = call[q] /\ landing'[q] = landing[q]
          /\ rcq'[q] = rcq[q] /\ sq'[q] = sq[q]
      BY <1>0, <1>10, <2>2, ThreadLocal
    <3>2. Has(q)' = Has(q)
      BY <3>1 DEF Has
    <3> QED BY <1>1, <3>1, <3>2
  <2> QED BY <2>1, <2>2
<1>11. ASSUME NEW r \in Ranks, NicStep(r)
       PROVE  (SentKnown(q) /\ HasKnown(q) /\ LandKnown(q))'
  BY <1>2, <1>6, <1>7, <1>8, <1>11, NicSteady
<1> QED BY <1>9, <1>10, <1>11 DEF Next

(* At first nobody has a chunk of call 0. *)
LEMMA InitKnown == Init => AllKnown
<1> SUFFICES ASSUME Init, NEW r \in Ranks PROVE SentKnown(r) /\ HasKnown(r) /\ LandKnown(r)
  BY DEF AllKnown
<1>1. pc[r] = "post" /\ sq[r] = << >> /\ landing[r] = << >>
  BY DEF Init
<1>2. Has(r) = 0
  BY <1>1 DEF Has, RingPCs, Over
<1>3. HasKnown(r)
  BY <1>2, NAssumption DEF HasKnown, Known
<1> QED BY <1>1, <1>3 DEF SentKnown, LandKnown

-----------------------------------------------------------------------------
(* The end.  A rank that has all the chunks of a call has the full sums.    *)
LEMMA AllFull ==
  ASSUME NEW r \in Ranks, BufHolds(r), Summed(r) \in Nat, Summed(r) >= N - 1,
         Has(r) \in Nat, Has(r) >= Steps
  PROVE  \A c \in Chunks : mem[r][Buf(c)] = Full(c, call[r])
<1> DEFINE m == Summed(r)
           h == Has(r)
           k == call[r]
<1> SUFFICES ASSUME NEW c \in Chunks PROVE Content(r, c, k, m, h) = Full(c, k)
  BY DEF BufHolds
<1>0. N \in Nat /\ N >= 2 /\ Dist(r, c) \in 0..(N - 1)
  BY NAssumption, DistType
<1>1. m \in Nat /\ m >= N - 1 /\ h \in Nat /\ h >= 2 * (N - 1)
  BY DEF Steps
<1> HIDE DEF m, h, k
<1>2. CASE Dist(r, c) < N - 1
  <2>1. Dist(r, c) + N - 1 < h
    BY <1>0, <1>1, <1>2
  <2> QED BY <2>1 DEF Content
<1>3. CASE Dist(r, c) = N - 1
  <2>1. Dist(r, c) <= m /\ Dist(r, c) + 1 = N
    BY <1>0, <1>1, <1>3
  <2>2. Back(c, 1) = r
    BY <1>3, DistType
  <2> QED BY <2>1, <2>2 DEF Content, Full
<1> QED BY <1>0, <1>2, <1>3

(* The benchmark's check and reset find full sums, and so does a rank whose *)
(* last send is all it still waits for.                                     *)
LEMMA EndFull ==
  ASSUME IInv, Data, NEW r \in Ranks,
         pc[r] \in Over \/ (pc[r] \in {"polls", "sum"} /\ s[r] + 1 = Steps)
  PROVE  \A c \in Chunks : mem[r][Buf(c)] = Full(c, call[r])
<1>0. N \in Nat /\ N >= 2 /\ Steps = 2 * (N - 1) /\ s[r] \in Nat /\ rcq[r] \in Nat
  BY NAssumption, RankTypes DEF IInv, Steps
<1>1. pc[r] # "failed" /\ BufHolds(r)
  BY DEF Data, Holds, Over
<1>2. CASE pc[r] \in Over
  <2>1. Summed(r) = Steps /\ Has(r) = Steps
    BY <1>2 DEF Summed, Has, Over, RingPCs
  <2>2. Summed(r) \in Nat /\ Summed(r) >= N - 1 /\ Has(r) \in Nat /\ Has(r) >= Steps
    BY <1>0, <2>1
  <2> QED BY <1>1, <2>2, AllFull
<1>3. CASE pc[r] \in {"polls", "sum"} /\ s[r] + 1 = Steps
  <2>1. Summed(r) = s[r] /\ Has(r) = s[r] + 1 + rcq[r]
    BY <1>3 DEF Summed, Has, RingPCs
  <2>2. Summed(r) \in Nat /\ Summed(r) >= N - 1 /\ Has(r) \in Nat /\ Has(r) >= Steps
    BY <1>0, <1>3, <2>1
  <2> QED BY <1>1, <2>2, AllFull
<1> QED BY <1>2, <1>3

(* The correctness check of the benchmark always passes. *)
LEMMA CheckAlwaysPasses ==
  ASSUME IInv, Data, NEW r \in Ranks, pc[r] = "check"
  PROVE  CheckPasses(r)
<1>1. \A c \in Chunks : mem[r][Buf(c)] = Full(c, call[r])
  BY EndFull DEF Over
<1> QED BY <1>1, FullAsExpected DEF CheckPasses

(* A thread that has failed stays so. *)
LEMMA FailedStays ==
  ASSUME IInv, [Next]_vars, NEW q \in Ranks, pc[q] = "failed"
  PROVE  pc'[q] = "failed"
<1>1. ASSUME NEW r \in Ranks, Thread(r) \/ Fail(r) PROVE pc'[q] = "failed"
  <2>1. CASE q # r
    BY <1>1, <2>1, ThreadLocal DEF IInv
  <2>2. CASE q = r
    <3>1. Teardown(r)
      BY <1>1, <2>2 DEF Thread, Fail, PostFirst, Send, PollRecv, ArmNext, PollSend, Sum, Check,
         Reset, BarrierRecv, BarrierSend, BarrierPollRecv, BarrierPollSend, PollSendError,
         At, Ended
    <3> QED BY <3>1 DEF Teardown
  <2> QED BY <2>1, <2>2
<1>2. ASSUME NEW r \in Ranks, NicStep(r) PROVE pc'[q] = "failed"
  BY <1>2 DEF NicStep, Fetch, Accept, RnrNak, Place, Ack, RetryExceeded
<1>3. CASE UNCHANGED vars \/ AllGone
  BY <1>3 DEF vars, AllGone
<1> QED BY <1>1, <1>2, <1>3 DEF Next

(* After the last message of the last call there is nothing on the send     *)
(* queue, and there never will be.                                          *)
LEMMA EndStays ==
  ASSUME Drift, [Next]_vars, NEW p \in Ranks, AtEnd(p), Sending(p)'
  PROVE  Sending(p) /\ AtEnd(p)' /\ sq[p] = << >> /\ wire[p] = << >>
<1>0. IInv /\ TypeOK /\ call[p] \in Nat /\ call[p] <= Iters /\ Iters \in Nat
  BY RankTypes DEF Drift, IInv
<1>1. sq[p] = << >>
  <2> SUFFICES ASSUME sq[p] # << >> PROVE FALSE
    OBVIOUS
  <2>1. <<call[p], IF sq[p][1] = Scratch THEN -1 ELSE s[p]>> = <<Iters + 1, -1>>
    BY DEF AtEnd, SendNext
  <2>2. call[p] = Iters + 1
    BY <2>1, PairParts, Zenon
  <2> QED BY <1>0, <2>2
<1>2. wire[p] = << >>
  BY <1>0, <1>1 DEF IInv, QueueDiscipline, SendFlow
<1>3. Sending(p)
  BY SendForward
<1>4. CASE KeepsPlace(p)
  BY <1>1, <1>2, <1>3, <1>4 DEF KeepsPlace, AtEnd
<1>5. CASE pc'[p] = pc[p] /\ call'[p] = call[p] /\ s'[p] = s[p] /\ sq'[p] = sq[p]
  <2>1. SendNext(p)' = SendNext(p)
    BY <1>5 DEF SendNext, After
  <2> QED BY <1>1, <1>2, <1>3, <2>1 DEF AtEnd
<1>6. ASSUME NEW r \in Ranks, Thread(r) \/ Fail(r) PROVE KeepsPlace(p) \/ p # r
  BY <1>0, <1>6, ThreadKeepsPlace
<1>7. ASSUME NEW r \in Ranks, Thread(r) \/ Fail(r), p # r
      PROVE  pc'[p] = pc[p] /\ call'[p] = call[p] /\ s'[p] = s[p] /\ sq'[p] = sq[p]
  BY <1>0, <1>7, ThreadLocal
<1>8. ASSUME NEW r \in Ranks, NicStep(r)
      PROVE  pc'[p] = pc[p] /\ call'[p] = call[p] /\ s'[p] = s[p] /\ sq'[p] = sq[p]
  <2>1. pc' = pc /\ call' = call /\ s' = s
    BY <1>8 DEF NicStep, Fetch, Accept, RnrNak, Place, Ack, RetryExceeded
  <2>2. CASE sq' = sq
    BY <2>1, <2>2
  <2>3. CASE wire[r] # << >> /\ sq' = [sq EXCEPT ![r] = Tail(sq[r])]
    <3>1. p # r
      BY <1>2, <2>3
    <3> QED BY <1>0, <2>1, <2>3, <3>1 DEF TypeOK, SendType
  <2> QED BY <1>8, <2>2, <2>3 DEF NicStep, Fetch, Accept, RnrNak, Place, Ack, RetryExceeded
<1>9. CASE UNCHANGED vars \/ AllGone
  BY <1>5, <1>9 DEF vars, AllGone
<1> QED BY <1>4, <1>5, <1>6, <1>7, <1>8, <1>9 DEF Next

(* A failed completion means that the neighbour is gone. *)
LEMMA NextErrDown == IInv /\ ErrDown /\ [Next]_vars => ErrDown'
<1> SUFFICES ASSUME IInv, ErrDown, [Next]_vars, NEW q \in Ranks, scerr'[q] > 0
             PROVE  ~up'[Right(q)]
  BY DEF ErrDown
<1>0. TypeOK /\ Right(q) \in Ranks /\ scerr[q] \in Nat
  BY RightType, RankTypes DEF IInv
<1>t. up \in [Ranks -> BOOLEAN] /\ scerr \in [Ranks -> Nat]
  BY <1>0 DEF TypeOK, MemType, AckType
<1>1. ~up[Right(q)] => ~up'[Right(q)]
  <2>1. CASE up' = up
    BY <2>1
  <2>2. ASSUME NEW r \in Ranks, Teardown(r) PROVE ~up[Right(q)] => ~up'[Right(q)]
    BY <1>0, <1>t, <2>2 DEF Teardown
  <2> QED BY <2>1, <2>2 DEF Next, vars, AllGone, Thread, Fail, PostFirst, Send, PollRecv,
      ArmNext, PollSend, Sum, Check, Reset, BarrierRecv, BarrierSend, BarrierPollRecv,
      BarrierPollSend, PollSendError, NicStep, Fetch, Accept, RnrNak, Place, Ack, RetryExceeded
<1>2. scerr[q] > 0 \/ ~up[Right(q)]
  <2>1. CASE scerr' = scerr
    BY <2>1
  <2>2. ASSUME NEW r \in Ranks, Teardown(r) PROVE scerr[q] > 0
    BY <1>t, <2>2 DEF Teardown
  <2>3. ASSUME NEW r \in Ranks, PollSendError(r) PROVE scerr[q] > 0
    BY <1>t, <2>3 DEF PollSendError
  <2>4. ASSUME NEW r \in Ranks, RetryExceeded(r) PROVE scerr[q] > 0 \/ ~up[Right(q)]
    BY <1>t, <2>4 DEF RetryExceeded
  <2> QED BY <2>1, <2>2, <2>3, <2>4 DEF Next, vars, AllGone, Thread, Fail, PostFirst, Send,
      PollRecv, ArmNext, PollSend, Sum, Check, Reset, BarrierRecv, BarrierSend,
      BarrierPollRecv, BarrierPollSend, NicStep, Fetch, Accept, RnrNak, Place, Ack
<1> QED BY <1>0, <1>1, <1>2 DEF ErrDown

(* A thread that sees a failed completion, and no faulty rank has failed:   *)
(* it is polling for the last send of the last call.                        *)
LEMMA ErrorAtEnd ==
  ASSUME Drift, Data, NEW r \in Ranks, scerr[r] > 0, AtEnd(r), pc[r] \in {"polls", "bpolls"}
  PROVE  /\ pc[r] = "polls" /\ call[r] = Iters /\ s[r] = Steps - 1 /\ Complete(r)
         /\ rq[r] = << >> /\ landing[r] = << >> /\ sq[r] = << >>
         /\ Sending(Left(r)) => AtEnd(Left(r))
<1>0. /\ IInv /\ TypeOK /\ call[r] \in Nat /\ Iters \in Nat /\ s[r] \in 0..(Steps - 1)
      /\ Steps \in Nat
  BY RankTypes DEF Drift, IInv
<1>1. sq[r] = << >>
  BY <1>0, QueuesAt
<1>2. pc[r] = "polls"
  <2> SUFFICES ASSUME pc[r] = "bpolls" PROVE FALSE
    OBVIOUS
  <2>1. <<call[r], 0>> = <<Iters + 1, -1>>
    BY <1>1 DEF AtEnd, SendNext, RingPCs
  <2>2. 0 = -1
    BY <2>1, PairParts, Zenon
  <2> QED BY <2>2
<1>3. After(call[r], s[r]) = <<Iters + 1, -1>>
  BY <1>1, <1>2 DEF AtEnd, SendNext, RingPCs
<1>4. ~(s[r] + 1 < Steps)
  <2> SUFFICES ASSUME s[r] + 1 < Steps PROVE FALSE
    OBVIOUS
  <2>1. <<call[r], s[r] + 1>> = <<Iters + 1, -1>>
    BY <1>3 DEF After
  <2>2. s[r] + 1 = -1
    BY <2>1, PairParts, Zenon
  <2> QED BY <1>0, <2>2
<1>5. call[r] = Iters /\ s[r] = Steps - 1 /\ s[r] + 1 = Steps
  <2>1. <<call[r] + 1, -1>> = <<Iters + 1, -1>>
    BY <1>3, <1>4 DEF After
  <2>2. call[r] + 1 = Iters + 1
    BY <2>1, PairParts, Zenon
  <2> QED BY <1>0, <1>4, <2>2
<1>6. Complete(r)
  BY <1>0, <1>2, <1>5, EndFull DEF Complete
<1>7. rq[r] = << >> /\ landing[r] = << >>
  BY <1>0, <1>2, <1>4, QueuesAt DEF RecvDue
<1>8. ASSUME Sending(Left(r)) PROVE AtEnd(Left(r))
  <2>1. Left(r) \in Ranks /\ Right(Left(r)) = r /\ Taking(r)
    BY <1>2, Neighbours DEF Taking
  <2>2. SendNext(Left(r)) = RecvNext(r)
    BY <1>8, <2>1 DEF Drift, InStep
  <2>3. RecvNext(r) = After(call[r], s[r])
    BY <1>2, <1>4, <1>7 DEF RecvNext, RingPCs
  <2> QED BY <1>3, <2>2, <2>3 DEF AtEnd
<1> QED BY <1>1, <1>2, <1>5, <1>6, <1>7, <1>8

(* A rank that failed late stays as it is. *)
LEMMA LateStays ==
  ASSUME Drift, [Next]_vars, NEW r \in Ranks, pc[r] = "failed", FailedLate(r)
  PROVE  FailedLate(r)'
<1>0. IInv /\ TypeOK /\ Left(r) \in Ranks /\ Right(Left(r)) = r
  BY Neighbours DEF Drift, IInv
<1>t. /\ landing \in [Ranks -> Seq(Loc \X Value)] /\ rq \in [Ranks -> Seq(Loc)]
      /\ sq \in [Ranks -> Seq(Loc)] /\ mem \in [Ranks -> [Loc -> Value]]
  BY <1>0 DEF TypeOK, RecvType, SendType, MemType
<1>1. Sending(Left(r))' => AtEnd(Left(r))'
  <2> SUFFICES ASSUME Sending(Left(r))' PROVE AtEnd(Left(r))'
    OBVIOUS
  <2>1. Sending(Left(r))
    BY <1>0, SendForward
  <2>2. AtEnd(Left(r))
    BY <2>1 DEF FailedLate
  <2> QED BY <1>0, <2>2, EndStays
<1>2. CASE /\ call'[r] = call[r] /\ s'[r] = s[r] /\ mem'[r] = mem[r]
           /\ rq'[r] = << >> /\ landing'[r] = << >> /\ sq'[r] = << >>
  BY <1>1, <1>2 DEF FailedLate, Complete
<1>e. rq[r] = << >> /\ landing[r] = << >> /\ sq[r] = << >>
  BY DEF FailedLate
<1>w. wire[r] = << >>
  BY <1>0, <1>e DEF IInv, QueueDiscipline, SendFlow
<1>3. ASSUME NEW q \in Ranks, Thread(q) \/ Fail(q), q # r PROVE FailedLate(r)'
  BY <1>0, <1>2, <1>3, <1>e, ThreadLocal, MemLocal
<1>4. ASSUME Thread(r) \/ Fail(r) PROVE FailedLate(r)'
  <2>1. Teardown(r)
    BY <1>4 DEF Thread, Fail, PostFirst, Send, PollRecv, ArmNext, PollSend, Sum, Check,
       Reset, BarrierRecv, BarrierSend, BarrierPollRecv, BarrierPollSend, PollSendError,
       At, Ended
  <2> QED BY <1>2, <1>t, <2>1 DEF Teardown
<1>5. ASSUME NEW q \in Ranks, NicStep(q) PROVE FailedLate(r)'
  <2>1. CASE Fetch(q)
    BY <1>2, <1>e, <2>1 DEF Fetch
  <2>2. CASE Accept(q)
    <3>1. q # r /\ Right(q) # r
      BY <1>e, <1>w, <2>2 DEF Accept
    <3> QED BY <1>2, <1>t, <1>e, <2>2, <3>1 DEF Accept
  <2>3. CASE RnrNak(q)
    BY <1>2, <1>e, <2>3 DEF RnrNak
  <2>4. CASE Place(q)
    <3>1. q # r
      BY <1>e, <2>4 DEF Place
    <3> QED BY <1>2, <1>t, <1>e, <2>4, <3>1 DEF Place
  <2>5. CASE Ack(q)
    BY <1>2, <1>e, <2>5 DEF Ack
  <2>6. CASE RetryExceeded(q)
    <3>1. sq'[r] = << >>
      <4>1. CASE q # r
        BY <1>t, <1>e, <2>6, <4>1 DEF RetryExceeded
      <4>2. CASE q = r
        BY <1>e, <1>w, <2>6, <4>2 DEF RetryExceeded
      <4> QED BY <4>1, <4>2
    <3> QED BY <1>2, <1>e, <2>6, <3>1 DEF RetryExceeded
  <2> QED BY <1>5, <2>1, <2>2, <2>3, <2>4, <2>5, <2>6 DEF NicStep
<1>6. CASE UNCHANGED vars \/ AllGone
  BY <1>2, <1>e, <1>6 DEF vars, AllGone
<1> QED BY <1>3, <1>4, <1>5, <1>6 DEF Next

(* When a neighbour has gone and no faulty rank has failed, it has taken    *)
(* the last message.                                                        *)
LEMMA GoneAtEnd ==
  ASSUME Drift, Late, NEW r \in Ranks, \A q \in Faulty : pc[q] # "failed",
         pc[r] # "failed", ~up[Right(r)]
  PROVE  AtEnd(r)
<1> DEFINE q == Right(r)
<1>0. q \in Ranks /\ Left(q) = r /\ Sending(r) /\ IInv /\ TypeOK
  BY RightType, Neighbours DEF Sending, Drift, IInv
<1>1. pc[q] \in {"done", "failed"} /\ rq[q] = << >>
  BY <1>0 DEF Drift, AllPosted, Closed, IInv, QueueDiscipline, Ended
<1>2. CASE pc[q] = "failed"
  BY <1>0, <1>2 DEF Late, FailedLate
<1>3. CASE pc[q] = "done"
  <2>1. call[q] = Iters
    BY <1>0, <1>3 DEF Drift, AllPosted, Ends
  <2>2. SendNext(r) = RecvNext(q)
    BY <1>0, <1>3 DEF Drift, InStep, Taking
  <2>3. RecvNext(q) = <<call[q] + 1, -1>>
    BY <1>1, <1>3 DEF RecvNext, RingPCs
  <2> QED BY <2>1, <2>2, <2>3 DEF AtEnd
<1> QED BY <1>1, <1>2, <1>3

(* No step makes a rank fail early unless a faulty rank has failed. *)
LEMMA NextLate == Drift /\ Data /\ Late /\ [Next]_vars => Late'
<1> SUFFICES ASSUME Drift, Data, Late, [Next]_vars, \A q \in Faulty : pc'[q] # "failed",
                    NEW r \in Ranks
             PROVE  /\ pc'[r] = "failed" => FailedLate(r)'
                    /\ scerr'[r] > 0 /\ pc'[r] # "failed" => AtEnd(r)'
  BY DEF Late
<1>0. IInv /\ TypeOK /\ Right(r) \in Ranks /\ scerr[r] \in Nat
  BY RightType, RankTypes DEF Drift, IInv
<1>f. \A q \in Faulty : pc[q] # "failed"
  BY <1>0, FailedStays, FaultyAssumption
<1>l. /\ pc[r] = "failed" => FailedLate(r)
      /\ scerr[r] > 0 /\ pc[r] # "failed" => AtEnd(r)
  BY <1>f DEF Late
<1>1. ASSUME pc'[r] = "failed" PROVE FailedLate(r)'
  <2>1. CASE pc[r] = "failed"
    BY <1>l, <2>1, LateStays
  <2>2. CASE pc[r] # "failed"
    <3>1. Thread(r) \/ Fail(r)
      <4>1. ASSUME NEW q \in Ranks, Thread(q) \/ Fail(q), q # r PROVE FALSE
        BY <1>0, <1>1, <2>2, <4>1, ThreadLocal
      <4>2. ASSUME NEW q \in Ranks, NicStep(q) PROVE FALSE
        BY <1>1, <2>2, <4>2 DEF NicStep, Fetch, Accept, RnrNak, Place, Ack, RetryExceeded
      <4>3. CASE UNCHANGED vars \/ AllGone
        BY <1>1, <2>2, <4>3 DEF vars, AllGone
      <4> QED BY <4>1, <4>2, <4>3 DEF Next
    <3>2. ~Fail(r)
      BY <1>1 DEF Fail
    <3>3. CASE Check(r)
      <4>1. CheckPasses(r)
        BY <1>0, <3>3, CheckAlwaysPasses DEF Check, At
      <4>2. pc'[r] \in {"reset", "done"}
        BY <1>0, <3>3, <4>1 DEF Check, Goto, TypeOK, ThreadType
      <4> QED BY <1>1, <4>2
    <3>4. CASE PollSendError(r)
      <4>1. pc[r] \in {"polls", "bpolls"} /\ scerr[r] > 0
        BY <3>4 DEF PollSendError
      <4>2. /\ pc[r] = "polls" /\ call[r] = Iters /\ s[r] = Steps - 1 /\ Complete(r)
            /\ rq[r] = << >> /\ landing[r] = << >> /\ sq[r] = << >>
            /\ Sending(Left(r)) => AtEnd(Left(r))
        BY <1>l, <4>1, ErrorAtEnd
      <4>3. call' = call /\ s' = s /\ mem' = mem /\ rq' = rq /\ landing' = landing /\ sq' = sq
        BY <3>4 DEF PollSendError
      <4>4. Sending(Left(r))' => AtEnd(Left(r))'
        <5> SUFFICES ASSUME Sending(Left(r))' PROVE AtEnd(Left(r))'
          OBVIOUS
        <5>1. Left(r) \in Ranks
          BY Neighbours
        <5>2. Sending(Left(r))
          BY <5>1, SendForward
        <5> QED BY <4>2, <5>1, <5>2, EndStays
      <4> QED BY <4>2, <4>3, <4>4 DEF FailedLate, Complete
    <3> QED BY <1>0, <1>1, <2>2, <3>1, <3>2, <3>3, <3>4 DEF Thread, PostFirst, Send, PollRecv,
        ArmNext, PollSend, Sum, AfterRing, Reset, BarrierRecv, BarrierSend, BarrierPollRecv,
        BarrierPollSend, Teardown, Goto, TypeOK, ThreadType
  <2> QED BY <2>1, <2>2
<1>2. ASSUME scerr'[r] > 0, pc'[r] # "failed" PROVE AtEnd(r)'
  <2>0. pc[r] # "failed" /\ Sending(r)'
    BY <1>0, <1>2, FailedStays DEF Sending
  <2>1. AtEnd(r)
    <3>1. CASE scerr[r] > 0
      BY <1>l, <2>0, <3>1
    <3>2. CASE ~(scerr[r] > 0)
      <4>t. scerr \in [Ranks -> Nat]
        BY <1>0 DEF TypeOK, AckType
      <4>1. ASSUME NEW q \in Ranks, RetryExceeded(q) PROVE ~up[Right(r)]
        BY <1>2, <3>2, <4>t, <4>1 DEF RetryExceeded
      <4>2. scerr' # scerr
        BY <1>2, <3>2
      <4>3. ASSUME NEW q \in Ranks, Teardown(q) \/ PollSendError(q) PROVE FALSE
        BY <1>2, <3>2, <4>t, <4>3 DEF Teardown, PollSendError
      <4>4. ~up[Right(r)]
        <5>1. ASSUME NEW q \in Ranks, Thread(q) \/ Fail(q) PROVE ~up[Right(r)]
          BY <4>2, <4>3, <5>1 DEF Thread, Fail, PostFirst, Send, PollRecv, ArmNext, PollSend, Sum,
             Check, Reset, BarrierRecv, BarrierSend, BarrierPollRecv, BarrierPollSend
        <5>2. ASSUME NEW q \in Ranks, NicStep(q) PROVE ~up[Right(r)]
          BY <4>1, <4>2, <5>2 DEF NicStep, Fetch, Accept, RnrNak, Place, Ack
        <5> QED BY <4>2, <5>1, <5>2 DEF Next, vars, AllGone
      <4> QED BY <1>f, <2>0, <4>4, GoneAtEnd
    <3> QED BY <3>1, <3>2
  <2> QED BY <2>0, <2>1, EndStays
<1> QED BY <1>1, <1>2

(* At first nobody has failed and no completion either. *)
LEMMA InitLate == Init => Late /\ ErrDown
  BY DEF Init, Late, ErrDown

\* What the theorems about the results rest on.
SumInv == Drift /\ Data /\ AllKnown /\ Late /\ ErrDown

(* It holds at first. *)
LEMMA InitSumInv == Init => SumInv
  BY InitDrift, InitData, InitKnown, InitLate DEF SumInv

(* Every step keeps it. *)
LEMMA NextSumInv == SumInv /\ [Next]_vars => SumInv'
<1> SUFFICES ASSUME SumInv, [Next]_vars PROVE SumInv'
  OBVIOUS
<1>0. Drift /\ Data /\ AllKnown /\ Late /\ ErrDown /\ IInv
  BY DEF SumInv, Drift
<1> QED BY <1>0, NextDrift, NextData, NextKnown, NextLate, NextErrDown DEF SumInv

(* Unless a faulty rank fails, a rank fails only in the teardown race, with *)
(* the sums of the last call complete: for every ring size and number of    *)
(* calls, the correctness check never fails and no send is ever refused     *)
(* for good before the last one.                                            *)
THEOREM OnlyTeardownFailsHolds == Spec => []OnlyTeardownFails
<1>1. SumInv => OnlyTeardownFails
  <2> SUFFICES ASSUME SumInv, \A q \in Faulty : pc[q] # "failed",
                      NEW r \in Ranks, pc[r] = "failed"
               PROVE  /\ call[r] = Iters /\ s[r] = Steps - 1
                      /\ \A c \in Chunks : IsSum(mem[r][Buf(c)], Iters)
    BY DEF OnlyTeardownFails
  <2>1. FailedLate(r)
    BY DEF SumInv, Late
  <2> QED BY <2>1, FullIsSum DEF FailedLate, Complete
<1> QED BY <1>1, InitSumInv, NextSumInv, PTL DEF Spec

-----------------------------------------------------------------------------
(* The refinement of AllReduce.  What the mapping shows of a rank, in the   *)
(* terms of its thread and its memory.                                      *)
Shown(p) == IF p \in BarrierPCs \cup {"post"} THEN "ready"
            ELSE IF p \in RingPCs THEN "in"
            ELSE IF p \in {"check", "reset"} THEN "out" ELSE p

Nothing == [c \in Chunks |-> << >>]

AbsView ==
  /\ AbsState = [r \in Ranks |-> Shown(pc[r])]
  /\ AbsResult = [r \in Ranks |-> IF pc[r] \in Over THEN [c \in Chunks |-> mem[r][Buf(c)]]
                                                     ELSE Nothing]

(* The places of a thread are apart. *)
LEMMA ShownAt ==
  /\ \A p \in BarrierPCs \cup {"post"} : Shown(p) = "ready"
  /\ \A p \in RingPCs : Shown(p) = "in"
  /\ \A p \in {"check", "reset"} : Shown(p) = "out"
  /\ Shown("done") = "done" /\ Shown("failed") = "failed"
  BY DEF Shown, BarrierPCs, RingPCs

(* The view is the mapping. *)
LEMMA AbsViewHolds == TypeOK => AbsView
<1> SUFFICES ASSUME TypeOK PROVE AbsView
  OBVIOUS
<1>1. AbsState = [r \in Ranks |-> Shown(pc[r])]
  <2> DEFINE M(p) == CASE p \in BarrierPCs \cup {"post"} -> "ready"
                       [] p \in RingPCs                  -> "in"
                       [] p \in {"check", "reset"}       -> "out"
                       [] OTHER                          -> p
  <2>1. ASSUME NEW r \in Ranks PROVE M(pc[r]) = Shown(pc[r])
    <3>1. CASE pc[r] \in BarrierPCs \cup {"post"}
      BY <3>1 DEF Shown, BarrierPCs, RingPCs
    <3>2. CASE pc[r] \in RingPCs
      BY <3>2 DEF Shown, BarrierPCs, RingPCs
    <3>3. CASE pc[r] \in {"check", "reset"}
      BY <3>3 DEF Shown, BarrierPCs, RingPCs
    <3>4. CASE pc[r] \notin BarrierPCs \cup {"post"} \cup RingPCs \cup {"check", "reset"}
      BY <3>4 DEF Shown
    <3> QED BY <3>1, <3>2, <3>3, <3>4
  <2>2. AbsState = [r \in Ranks |-> M(pc[r])]
    BY DEF AbsState
  <2> HIDE DEF M
  <2> QED BY <2>1, <2>2
<1>2. ASSUME NEW r \in Ranks PROVE AbsState[r] \in {"out", "done"} <=> pc[r] \in Over
  <2>1. pc[r] \in PCs
    BY RankTypes
  <2> QED BY <1>1, <2>1 DEF Shown, Over, PCs, RingPCs, BarrierPCs
<1>3. AbsResult = [r \in Ranks |-> IF pc[r] \in Over THEN [c \in Chunks |-> mem[r][Buf(c)]]
                                                      ELSE Nothing]
  BY <1>2 DEF AbsResult, Nothing
<1> QED BY <1>1, <1>3 DEF AbsView

(* And after a step. *)
LEMMA AbsViewNext == TypeOK' => AbsView'
  BY AbsViewHolds, PTL

(* The initial states. *)
LEMMA AbsInit == Init => Abstract!Init
<1> SUFFICES ASSUME Init PROVE Abstract!Init
  OBVIOUS
<1>1. AbsView
  BY TypeInit, AbsViewHolds
<1>2. \A r \in Ranks : pc[r] = "post"
  BY DEF Init
<1>3. AbsState = [r \in Ranks |-> "ready"]
  BY <1>1, <1>2, ShownAt DEF AbsView
<1>4. AbsResult = [r \in Ranks |-> Nothing]
  BY <1>1, <1>2 DEF AbsView, Over
<1> QED BY <1>3, <1>4 DEF Abstract!Init, Abstract!NoResult, Abstract!Ranks, Abstract!Chunks,
        Ranks, Chunks, Nothing, Init

(* A rank whose thread stands still shows nothing new. *)
LEMMA AbsFrame ==
  ASSUME TypeOK, TypeOK', NEW q \in Ranks, Shown(pc'[q]) = Shown(pc[q]),
         pc[q] \in Over <=> pc'[q] \in Over, pc[q] \in Over => mem'[q] = mem[q]
  PROVE  AbsState'[q] = AbsState[q] /\ AbsResult'[q] = AbsResult[q]
<1>1. AbsView /\ AbsView'
  BY AbsViewHolds, AbsViewNext
<1> QED BY <1>1 DEF AbsView

(* A step that shows nothing new of any rank is a stuttering step. *)
LEMMA AbsQuiet ==
  ASSUME TypeOK, TypeOK', call' = call,
         \A q \in Ranks : AbsState'[q] = AbsState[q] /\ AbsResult'[q] = AbsResult[q]
  PROVE  UNCHANGED Abstract!avars
<1>1. AbsView /\ AbsView'
  BY AbsViewHolds, AbsViewNext
<1>2. AbsState' = AbsState
  BY <1>1 DEF AbsView
<1>3. AbsResult' = AbsResult
  BY <1>1 DEF AbsView
<1> QED BY <1>2, <1>3 DEF Abstract!avars

(* A step that shows something new of one rank only. *)
LEMMA AbsMoves ==
  ASSUME TypeOK, TypeOK', NEW r \in Ranks,
         \A q \in Ranks \ {r} : AbsState'[q] = AbsState[q] /\ AbsResult'[q] = AbsResult[q]
  PROVE  /\ AbsState' = [AbsState EXCEPT ![r] = Shown(pc'[r])]
         /\ AbsState[r] = Shown(pc[r])
         /\ pc'[r] \notin Over => AbsResult' = [AbsResult EXCEPT ![r] = Nothing]
         /\ pc'[r] \in Over => AbsResult'[r] = [c \in Chunks |-> mem'[r][Buf(c)]]
         /\ pc[r] \notin Over => AbsResult[r] = Nothing
         /\ AbsResult[r] = AbsResult'[r] => AbsResult' = AbsResult
<1>1. AbsView /\ AbsView'
  BY AbsViewHolds, AbsViewNext
<1>2. AbsState' = [AbsState EXCEPT ![r] = Shown(pc'[r])] /\ AbsState[r] = Shown(pc[r])
  BY <1>1 DEF AbsView
<1>3. pc'[r] \notin Over => AbsResult' = [AbsResult EXCEPT ![r] = Nothing]
  BY <1>1 DEF AbsView
<1>4. pc'[r] \in Over => AbsResult'[r] = [c \in Chunks |-> mem'[r][Buf(c)]]
  BY <1>1 DEF AbsView
<1>5. pc[r] \notin Over => AbsResult[r] = Nothing
  BY <1>1 DEF AbsView
<1>6. AbsResult[r] = AbsResult'[r] => AbsResult' = AbsResult
  BY <1>1 DEF AbsView
<1> QED BY <1>2, <1>3, <1>4, <1>5, <1>6

(* The last sum of a call is the return of the abstract all-reduce: every   *)
(* rank has entered the call, every chunk is the full sum, and the ranks    *)
(* that have returned hold the same lists.                                  *)
LEMMA AbsReturn ==
  ASSUME SumInv, TypeOK', NEW r \in Ranks, Sum(r), s[r] + 1 = Steps,
         \A q \in Ranks \ {r} : AbsState'[q] = AbsState[q] /\ AbsResult'[q] = AbsResult[q]
  PROVE  Abstract!Return(r)
<1>0. Drift /\ Data /\ AllKnown /\ IInv /\ TypeOK
  BY DEF SumInv, Drift, IInv
<1>n. N \in Nat /\ N >= 2 /\ Steps = 2 * (N - 1) /\ s[r] \in Nat
  BY <1>0, NAssumption, RankTypes DEF Steps
<1>1. pc[r] = "sum" /\ pc'[r] \in {"check", "reset"} /\ call' = call /\ mem' = mem
  <2>1. ~(s[r] + 1 < Steps) /\ ~Scatter(s[r])
    BY <1>n DEF Scatter
  <2> QED BY <1>0, <2>1 DEF Sum, At, Goto, AfterRing, TypeOK, ThreadType
<1>2. /\ AbsState' = [AbsState EXCEPT ![r] = Shown(pc'[r])] /\ AbsState[r] = Shown(pc[r])
      /\ pc'[r] \in Over => AbsResult'[r] = [c \in Chunks |-> mem'[r][Buf(c)]]
  BY <1>0, AbsMoves
<1>3. /\ AbsState[r] = "in" /\ AbsState' = [AbsState EXCEPT ![r] = "out"]
  BY <1>1, <1>2, ShownAt DEF RingPCs
<1>4. \A c \in Chunks : mem[r][Buf(c)] = Full(c, call[r])
  BY <1>0, <1>1, EndFull
<1>5. AbsResult'[r] = [c \in Chunks |-> Full(c, call[r])]
  BY <1>1, <1>2, <1>4 DEF Over
<1>6. \A c \in Chunks : IsSum(AbsResult'[r][c], call[r])
  BY <1>5, FullIsSum
<1>7. ASSUME NEW q \in Ranks
      PROVE  call[q] > call[r] \/ (call[q] = call[r] /\ AbsState[q] # "ready")
  <2>1. CASE q = r
    BY <1>3, <2>1
  <2>2. CASE q # r
    <3> DEFINE i == Dist(r, q)
    <3>1. i \in 1..(N - 1) /\ Back(r, i) = q
      <4>1. q \in 0..(N - 1) /\ r \in 0..(N - 1)
        BY DEF Ranks
      <4> QED BY <1>n, <2>2, <4>1 DEF Dist, Back
    <3>2. Has(r) = s[r] + 1 + rcq[r] /\ rcq[r] \in Nat
      BY <1>0, <1>1, RankTypes DEF Has, RingPCs
    <3> HIDE DEF i
    <3>3. i <= Has(r)
      BY <1>n, <3>1, <3>2
    <3>4. Known(r, call[r], Has(r))
      BY <1>0, <1>1 DEF AllKnown, HasKnown
    <3>5. Entered(q, call[r])
      BY <3>1, <3>3, <3>4 DEF Known
    <3>6. AbsState[q] = Shown(pc[q]) /\ pc[q] \in PCs
      BY <1>0, AbsViewHolds, RankTypes DEF AbsView
    <3> QED BY <3>5, <3>6 DEF Entered, Shown, PCs, RingPCs, BarrierPCs
  <2> QED BY <2>1, <2>2
<1>8. ASSUME NEW q \in Ranks \ {r}, AbsState[q] \in {"out", "done"}, call[q] = call[r]
      PROVE  AbsResult'[r] = AbsResult[q]
  <2>1. AbsView /\ pc[q] \in PCs
    BY <1>0, AbsViewHolds, RankTypes
  <2>2. pc[q] \in Over
    BY <1>8, <2>1 DEF AbsView, Shown, Over, PCs, RingPCs, BarrierPCs
  <2>3. AbsResult[q] = [c \in Chunks |-> mem[q][Buf(c)]]
    BY <2>1, <2>2 DEF AbsView
  <2>4. \A c \in Chunks : mem[q][Buf(c)] = Full(c, call[q])
    BY <1>0, <2>2, EndFull
  <2> QED BY <1>5, <1>8, <2>3, <2>4
<1>9. Abstract!Ranks = Ranks /\ Abstract!Chunks = Chunks
  BY DEF Abstract!Ranks, Abstract!Chunks, Ranks, Chunks
<1>10. \A v, k : Abstract!IsSum(v, k) <=> IsSum(v, k)
  BY <1>9 DEF Abstract!IsSum, IsSum
<1> QED BY <1>1, <1>3, <1>6, <1>7, <1>8, <1>9, <1>10 DEF Abstract!Return

(* Every statement of a thread is a step of the abstract all-reduce, or     *)
(* shows nothing new.                                                       *)
LEMMA AbsThread ==
  ASSUME SumInv, TypeOK', NEW r \in Ranks, Thread(r) \/ Fail(r)
  PROVE  Abstract!Next \/ UNCHANGED Abstract!avars
<1>0. Drift /\ Data /\ IInv /\ TypeOK /\ ErrDown
  BY DEF SumInv, Drift, IInv
<1>t. pc \in [Ranks -> PCs] /\ call \in [Ranks -> 0..Iters]
  BY <1>0 DEF TypeOK, ThreadType
<1>r. Abstract!Ranks = Ranks /\ Abstract!Chunks = Chunks /\ Abstract!NoResult = Nothing
  BY DEF Abstract!Ranks, Abstract!Chunks, Ranks, Chunks, Abstract!NoResult, Nothing
<1>q. \A q \in Ranks \ {r} : AbsState'[q] = AbsState[q] /\ AbsResult'[q] = AbsResult[q]
  <2> SUFFICES ASSUME NEW q \in Ranks, q # r
               PROVE  AbsState'[q] = AbsState[q] /\ AbsResult'[q] = AbsResult[q]
    OBVIOUS
  <2>1. pc'[q] = pc[q] /\ mem'[q] = mem[q]
    BY <1>0, ThreadLocal, MemLocal
  <2> QED BY <1>0, <2>1, AbsFrame
<1>m. /\ AbsState' = [AbsState EXCEPT ![r] = Shown(pc'[r])]
      /\ AbsState[r] = Shown(pc[r])
      /\ pc'[r] \notin Over => AbsResult' = [AbsResult EXCEPT ![r] = Nothing]
      /\ pc[r] \notin Over => AbsResult[r] = Nothing
      /\ AbsResult[r] = AbsResult'[r] => AbsResult' = AbsResult
  BY <1>0, <1>q, AbsMoves
<1>s. ASSUME Shown(pc'[r]) = Shown(pc[r]), pc[r] \in Over <=> pc'[r] \in Over,
             pc[r] \in Over => mem'[r] = mem[r], call' = call
      PROVE  UNCHANGED Abstract!avars
  BY <1>0, <1>q, <1>s, AbsFrame, AbsQuiet
<1>e. pc[r] \notin Over /\ pc'[r] \notin Over => AbsResult' = AbsResult
  <2>1. AbsView /\ AbsView'
    BY <1>0, AbsViewHolds, AbsViewNext
  <2> QED BY <1>m, <2>1 DEF AbsView
<1> USE DEF At, Goto
<1>1. CASE PostFirst(r)
  <2>1. pc[r] = "post" /\ pc'[r] = "send" /\ call' = call
    BY <1>t, <1>1 DEF PostFirst
  <2>2. AbsState[r] = "ready" /\ AbsState' = [AbsState EXCEPT ![r] = "in"]
    BY <1>m, <2>1, ShownAt DEF RingPCs
  <2>3. AbsResult' = AbsResult
    BY <1>e, <2>1 DEF Over
  <2>4. Abstract!Enter(r)
    BY <2>1, <2>2, <2>3 DEF Abstract!Enter
  <2> QED BY <1>r, <2>4 DEF Abstract!Next
<1>2. CASE Send(r) \/ PollRecv(r) \/ ArmNext(r) \/ PollSend(r)
  <2>1. pc[r] \in RingPCs /\ pc'[r] \in RingPCs /\ call' = call
    BY <1>t, <1>2 DEF Send, PollRecv, ArmNext, PollSend, RingPCs
  <2>2. pc[r] \notin Over /\ pc'[r] \notin Over
    BY <2>1 DEF RingPCs, Over
  <2> QED BY <1>s, <2>1, <2>2, ShownAt
<1>3. CASE Sum(r)
  <2>1. CASE s[r] + 1 < Steps
    <3>1. pc[r] \in RingPCs /\ pc'[r] \in RingPCs /\ call' = call
      BY <1>t, <1>3, <2>1 DEF Sum, RingPCs
    <3>2. pc[r] \notin Over /\ pc'[r] \notin Over
      BY <3>1 DEF RingPCs, Over
    <3> QED BY <1>s, <3>1, <3>2, ShownAt
  <2>2. CASE ~(s[r] + 1 < Steps)
    <3>1. s[r] + 1 = Steps
      BY <1>0, <2>2, RankTypes
    <3>2. Abstract!Return(r)
      BY <1>3, <1>q, <3>1, AbsReturn
    <3> QED BY <1>r, <3>2 DEF Abstract!Next
  <2> QED BY <2>1, <2>2
<1>4. CASE Check(r)
  <2>0. CheckPasses(r)
    BY <1>0, <1>4, CheckAlwaysPasses DEF Check
  <2>1. pc[r] = "check" /\ pc'[r] \in {"reset", "done"} /\ call' = call /\ mem' = mem
    BY <1>t, <1>4, <2>0 DEF Check
  <2>2. CASE pc'[r] = "reset"
    BY <1>s, <2>1, <2>2, ShownAt DEF Over
  <2>3. CASE pc'[r] = "done"
    <3>1. AbsState[r] = "out" /\ AbsState' = [AbsState EXCEPT ![r] = "done"]
      BY <1>m, <2>1, <2>3, ShownAt
    <3>2. AbsResult' = AbsResult
      <4>1. AbsView /\ AbsView'
        BY <1>0, AbsViewHolds, AbsViewNext
      <4>2. AbsResult'[r] = AbsResult[r]
        BY <2>1, <2>3, <4>1 DEF AbsView, Over
      <4> QED BY <1>m, <4>2
    <3>3. Abstract!Finish(r)
      BY <2>1, <3>1, <3>2 DEF Abstract!Finish
    <3> QED BY <1>r, <3>3 DEF Abstract!Next
  <2> QED BY <2>1, <2>2, <2>3
<1>5. CASE Reset(r)
  <2>1. pc[r] = "reset" /\ pc'[r] = "brecv" /\ call' = [call EXCEPT ![r] = call[r] + 1]
    BY <1>t, <1>5 DEF Reset
  <2>2. AbsState[r] = "out" /\ AbsState' = [AbsState EXCEPT ![r] = "ready"]
    BY <1>m, <2>1, ShownAt DEF BarrierPCs
  <2>3. AbsResult' = [AbsResult EXCEPT ![r] = Nothing]
    BY <1>m, <2>1 DEF Over
  <2>4. Abstract!Reload(r)
    BY <1>r, <2>1, <2>2, <2>3 DEF Abstract!Reload
  <2> QED BY <1>r, <2>4 DEF Abstract!Next
<1>6. CASE \/ BarrierRecv(r) \/ BarrierSend(r) \/ BarrierPollRecv(r) \/ BarrierPollSend(r)
  <2>1. /\ pc[r] \in BarrierPCs \cup {"post"} /\ pc'[r] \in BarrierPCs \cup {"post"}
        /\ call' = call
    BY <1>t, <1>6 DEF BarrierRecv, BarrierSend, BarrierPollRecv, BarrierPollSend, BarrierPCs
  <2>2. pc[r] \notin Over /\ pc'[r] \notin Over
    BY <2>1 DEF BarrierPCs, Over
  <2> QED BY <1>s, <2>1, <2>2, ShownAt
<1>7. CASE PollSendError(r)
  <2>1. pc[r] \in {"polls", "bpolls"} /\ pc'[r] = "failed" /\ call' = call /\ scerr[r] > 0
    BY <1>t, <1>7 DEF PollSendError
  <2>2. AbsState[r] \in {"ready", "in"} /\ AbsState' = [AbsState EXCEPT ![r] = "failed"]
    BY <1>m, <2>1, ShownAt DEF RingPCs, BarrierPCs
  <2>3. AbsResult' = AbsResult
    BY <1>e, <2>1 DEF Over
  <2>4. \E q \in Ranks \ {r} : AbsState[q] \in {"done", "failed"}
    <3>1. Right(r) \in Ranks \ {r}
      BY RightType
    <3>2. ~up[Right(r)]
      BY <1>0, <2>1 DEF ErrDown
    <3>3. pc[Right(r)] \in {"done", "failed"}
      BY <1>0, <3>1, <3>2 DEF IInv, QueueDiscipline, Ended
    <3>4. AbsState[Right(r)] = Shown(pc[Right(r)])
      BY <1>0, <3>1, AbsViewHolds DEF AbsView
    <3> QED BY <3>1, <3>3, <3>4, ShownAt
  <2>5. Abstract!Abort(r)
    BY <1>r, <2>1, <2>2, <2>3, <2>4 DEF Abstract!Abort
  <2> QED BY <1>r, <2>5 DEF Abstract!Next
<1>8. CASE Teardown(r)
  <2>1. pc' = pc /\ call' = call /\ mem' = mem
    BY <1>8 DEF Teardown
  <2> QED BY <1>s, <2>1
<1>9. CASE Fail(r)
  <2>1. r \in Faulty /\ pc[r] \notin {"done", "failed"} /\ pc'[r] = "failed" /\ call' = call
    BY <1>t, <1>9 DEF Fail, Ended
  <2>2. AbsState[r] \notin {"done", "failed"}
    <3>1. pc[r] \in PCs
      BY <1>t
    <3> QED BY <1>m, <2>1, <3>1 DEF Shown, PCs, RingPCs, BarrierPCs
  <2>3. AbsState' = [AbsState EXCEPT ![r] = "failed"]
    BY <1>m, <2>1, ShownAt
  <2>4. AbsResult' = [AbsResult EXCEPT ![r] = Nothing]
    BY <1>m, <2>1 DEF Over
  <2>5. Abstract!Crash(r)
    BY <1>r, <2>1, <2>2, <2>3, <2>4 DEF Abstract!Crash
  <2> QED BY <1>r, <2>5 DEF Abstract!Next
<1> QED BY <1>1, <1>2, <1>3, <1>4, <1>5, <1>6, <1>7, <1>8, <1>9 DEF Thread

(* The NIC writes no buffer its rank has returned: it shows nothing new.    *)
LEMMA AbsNic ==
  ASSUME SumInv, TypeOK', NEW r \in Ranks, NicStep(r)
  PROVE  UNCHANGED Abstract!avars
<1>0. IInv /\ TypeOK
  BY DEF SumInv, Drift, IInv
<1>1. pc' = pc /\ call' = call
  BY DEF NicStep, Fetch, Accept, RnrNak, Place, Ack, RetryExceeded
<1>2. ASSUME NEW q \in Ranks, pc[q] \in Over PROVE mem'[q] = mem[q]
  <2>1. CASE Place(r)
    <3>1. landing[q] = << >>
      BY <1>0, <1>2, QueuesAt DEF RecvDue, Over
    <3>2. q # r
      BY <2>1, <3>1 DEF Place
    <3> QED BY <1>0, <2>1, <3>2 DEF Place, TypeOK, MemType
  <2>2. CASE ~Place(r)
    BY <2>2 DEF NicStep, Fetch, Accept, RnrNak, Ack, RetryExceeded
  <2> QED BY <2>1, <2>2
<1>3. \A q \in Ranks : AbsState'[q] = AbsState[q] /\ AbsResult'[q] = AbsResult[q]
  BY <1>0, <1>1, <1>2, AbsFrame
<1> QED BY <1>0, <1>1, <1>3, AbsQuiet

(* ring_posted implements the abstract all-reduce, for every ring size,     *)
(* every number of calls and whichever ranks may fail: a call returns only  *)
(* after every rank has entered it, with every chunk the full sum and the   *)
(* same list of additions on every rank, and a rank that is not faulty      *)
(* gives up only when another one has left.                                 *)
THEOREM ImplementsAllReduceHolds == Spec => ImplementsAllReduce
<1>1. SumInv /\ SumInv' /\ [Next]_vars => [Abstract!Next]_Abstract!avars
  <2> SUFFICES ASSUME SumInv, SumInv', [Next]_vars
               PROVE  Abstract!Next \/ UNCHANGED Abstract!avars
    OBVIOUS
  <2>0. TypeOK /\ TypeOK'
    BY DEF SumInv, Drift, IInv
  <2>1. CASE UNCHANGED vars \/ AllGone
    <3>1. pc' = pc /\ call' = call /\ mem' = mem
      BY <2>1 DEF vars, AllGone
    <3>2. \A q \in Ranks : AbsState'[q] = AbsState[q] /\ AbsResult'[q] = AbsResult[q]
      BY <2>0, <3>1, AbsFrame
    <3> QED BY <2>0, <3>1, <3>2, AbsQuiet
  <2> QED BY <2>0, <2>1, AbsThread, AbsNic DEF Next
<1> QED BY <1>1, InitSumInv, NextSumInv, AbsInit, PTL DEF Spec, ImplementsAllReduce, Abstract!Spec
=============================================================================
