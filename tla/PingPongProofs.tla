--------------------------- MODULE PingPongProofs ---------------------------
(***************************************************************************)
(* Proofs about PingPong, for every number of rounds, every depth and every *)
(* size of the receive queue: pongs answer pings although the completions   *)
(* are not told apart, a message under way finds a receive, and nothing     *)
(* goes wrong but the losses OnlyKnownLosses lists.                         *)
(***************************************************************************)
EXTENDS PingPong, TLAPS

-----------------------------------------------------------------------------
(* The inductive invariant.  It never asks which completion a poll took: a  *)
(* thread that has polled n completions had n of them delivered, and the    *)
(* number of messages it has sent bounds how many of those can be           *)
(* acknowledgements.  The rest are messages of the peer.                    *)

Over  == {"done", "next", "listening", "refused", "left"} \* all rounds done
Gone  == {"next", "listening", "refused", "left"}         \* and the queue pair destroyed
Dead  == Gone \cup {"failed", "full"}
Loop  == {"repost", "send", "poll1", "poll2"}
Early == {"meet", "setup", "accept", "estab", "barrier", "prepost"}

\* What p has sent, polled and armed receives for, from where it stands.
Posted(p) ==
  IF pc[p] = "poll2" \/ (p = Client /\ pc[p] = "poll1") THEN it[p] + 1 ELSE it[p]
Polled(p) ==
  IF pc[p] = "poll2" \/ (p = Server /\ pc[p] \in {"repost", "send"})
  THEN it[p] + it[p] + 1 ELSE it[p] + it[p]
Armed(p) ==
  IF pc[p] \in {"send", "poll2"} \/ (p = Client /\ pc[p] = "poll1")
  THEN it[p] + 1 ELSE it[p]
Limit(p) == IF prepost + Armed(p) < Total THEN prepost + Armed(p) ELSE Total

FunType ==
  /\ pc \in [Sides -> PCs] /\ it \in [Sides -> Nat] /\ rq \in [Sides -> Nat]
  /\ cq \in [Sides -> Seq({"recv", "send", "error"})]
  /\ live \in [Sides -> BOOLEAN] /\ prog \in Programs /\ depth \in Depths
CountType ==
  /\ sent \in [Sides -> Nat] /\ placed \in [Sides -> Nat] /\ acked \in [Sides -> Nat]
  /\ \A p \in Sides : it[p] <= Total /\ rq[p] <= Room
  /\ \A p \in Sides : acked[p] <= placed[p] /\ placed[p] <= sent[p] /\ sent[p] <= Total

Rounds ==
  \A p \in Sides :
    /\ pc[p] \in Early => it[p] = 0
    /\ pc[p] \in Loop => it[p] < Total
    /\ pc[p] \in Over => it[p] = Total
    /\ pc[p] # "failed" => sent[p] = Posted(p)

\* Which statements each side has, and that the client is in its loop only
\* after the server has posted its receives and is live.
Places ==
  /\ pc[Client] \notin {"setup", "accept", "recv", "listening"}
  /\ pc[Server] \notin {"prepost", "recv", "full", "refused"}
  /\ pc[Client] \notin {"meet", "estab", "barrier"} => pc[Server] \notin {"meet", "setup", "accept"}

LiveExact ==
  /\ live[Client] <=> pc[Client] \in Loop \cup {"barrier", "prepost", "done"}
  /\ live[Server] <=> pc[Server] \in Loop \cup {"estab", "barrier", "done"}

\* Receives posted and receives used add up.
Receives ==
  /\ pc[Client] \in Early => rq[Client] = 0
  /\ pc[Server] \in {"meet", "setup"} => rq[Server] = 0
  /\ pc[Client] \in Loop \cup {"done"} => rq[Client] + placed[Server] = Limit(Client)
  /\ pc[Server] \in Loop \cup {"accept", "estab", "barrier", "done"}
       => rq[Server] + placed[Client] = Limit(Server)

\* No poll takes a completion that was not delivered.
Delivered ==
  \A p \in Sides :
    /\ Polled(p) <= placed[Peer(p)] + acked[p]
    /\ \A k \in 1..Len(cq[p]) :
         cq[p][k] # "error" => Polled(p) + k <= placed[Peer(p)] + acked[p]
ErrorsHaveCause ==
  \A p \in Sides : \A k \in 1..Len(cq[p]) :
    cq[p][k] = "error" => pc[Peer(p)] \in Dead /\ acked[p] < sent[p]

Lockstep == sent[Server] <= placed[Client] /\ sent[Client] <= placed[Server] + 1

\* A client that got past its first receive had room for it.
RoomLeft ==
  pc[Client] \notin Early \cup {"full"} /\ ~(pc[Client] = "repost" /\ it[Client] = 0)
    => depth < Room \/ Total <= depth

Losses ==
  /\ \A p \in Sides : pc[p] = "failed" =>
       it[p] + 1 = Total /\ pc[Peer(p)] \in Gone /\ \A q \in Sides : placed[q] = Total
  /\ pc[Client] = "full" => depth = Room /\ prog # "compare" /\ sent[Client] = 0
  /\ \A p \in Sides : pc[p] \in {"next", "listening", "refused"} => prog = "compare"

RdmaInv ==
  /\ Rounds /\ Places /\ LiveExact /\ Receives /\ Delivered /\ ErrorsHaveCause
  /\ Lockstep /\ RoomLeft /\ Losses

\* On TCP the calls block, and where a side stands says all.
TcpInv ==
  \A p \in Sides :
    /\ pc[p] \in {"meet", "send", "recv", "done", "left"}
    /\ pc[p] = "meet" => it[p] = 0
    /\ pc[p] \in {"send", "recv"} => it[p] < Total
    /\ sent[p] = IF p = Client /\ pc[p] = "recv" THEN it[p] + 1 ELSE it[p]
    /\ placed[Peer(p)] = IF p = Server /\ pc[p] = "send" THEN it[p] + 1 ELSE it[p]
    /\ acked[p] = 0 /\ ~live[p] /\ rq[p] = 0 /\ cq[p] = << >>

\* The depth leaves room in backend_compare, whose depth is fixed.
DepthFits == prog = "compare" => depth < Room

IInv == /\ FunType /\ CountType /\ DepthFits
        /\ OnTcp => TcpInv
        /\ ~OnTcp => RdmaInv

-----------------------------------------------------------------------------
(* The two sides.                                                            *)
LEMMA Pair ==
  /\ Client \in Sides /\ Server \in Sides /\ Client # Server
  /\ Peer(Client) = Server /\ Peer(Server) = Client
  /\ \A p \in Sides : (p = Client \/ p = Server) /\ Peer(p) \in Sides
                      /\ Peer(p) # p /\ Peer(Peer(p)) = p
  BY DEF Sides, Client, Server, Peer

(* min(depth, kWarmup + iters) receives are at least one and fit the queue.  *)
LEMMA PrepostFits ==
  ASSUME FunType
  PROVE  /\ Total \in Nat /\ Total >= 1 /\ Room \in Nat /\ Room >= 1
         /\ depth \in Nat /\ 1 <= depth /\ depth <= Room
         /\ prepost \in Nat /\ 1 <= prepost /\ prepost <= Room /\ prepost <= Total
         /\ prepost = depth \/ (prepost = Total /\ Total <= depth)
<1>1. depth \in 1..Room /\ Room \in Nat /\ Room >= 1 /\ Total \in Nat /\ Total >= 1
  BY PingPongAssumption DEF FunType
<1>2. CASE depth < Total
  <2>1. prepost = depth
    BY <1>1, <1>2 DEF prepost
  <2> QED BY <1>1, <1>2, <2>1
<1>3. CASE depth >= Total
  <2>1. prepost = Total
    BY <1>1, <1>3 DEF prepost
  <2> QED BY <1>1, <1>3, <2>1
<1> QED BY <1>1, <1>2, <1>3

(* The counts the threads' positions give are numbers.                        *)
LEMMA CountsAreNat ==
  ASSUME FunType, NEW p \in Sides
  PROVE  Posted(p) \in Nat /\ Polled(p) \in Nat /\ Armed(p) \in Nat /\ Limit(p) \in Nat
<1>1. it[p] \in Nat
  BY DEF FunType
<1>2. Posted(p) \in Nat /\ Polled(p) \in Nat /\ Armed(p) \in Nat
  BY <1>1 DEF Posted, Polled, Armed
<1>3. prepost \in Nat /\ Total \in Nat
  BY PrepostFits
<1>4. Limit(p) \in Nat
  BY <1>2, <1>3 DEF Limit
<1> QED BY <1>2, <1>4

(* Nothing is connected, posted or sent at first.                             *)
LEMMA InitInv == Init => IInv
<1> SUFFICES ASSUME Init PROVE IInv
  OBVIOUS
<1>1. FunType
  BY DEF Init, FunType, PCs
<1>2. CountType
  BY <1>1, PrepostFits DEF Init, CountType
<1>3. DepthFits
  BY DEF Init, DepthFits
<1>4. TcpInv
  BY <1>1, Pair DEF Init, TcpInv
<1>5. Rounds /\ Places /\ LiveExact /\ Receives
  BY <1>1, Pair DEF Init, Rounds, Posted, Places, LiveExact, Receives, Early, Loop, Over
<1>6. Delivered /\ ErrorsHaveCause
  BY <1>1, Pair DEF Init, Delivered, Polled, ErrorsHaveCause
<1>7. Lockstep /\ RoomLeft /\ Losses
  BY <1>1, Pair DEF Init, Lockstep, RoomLeft, Losses, Early
<1> QED BY <1>1, <1>2, <1>3, <1>4, <1>5, <1>6, <1>7 DEF IInv, RdmaInv

-----------------------------------------------------------------------------
(* What the counts say about a side at a statement of its loop (RDMA).        *)

(* A client about to send ping number it + 1 has all pongs before it, and     *)
(* nobody has sent more.                                                      *)
LEMMA ClientRound ==
  ASSUME FunType, CountType, RdmaInv, pc[Client] \in {"repost", "send"}
  PROVE  /\ sent[Client] = it[Client] /\ placed[Server] = it[Client]
         /\ placed[Client] = it[Client] /\ sent[Server] = it[Client]
<1>1. /\ it[Client] \in Nat /\ sent[Client] \in Nat /\ placed[Client] \in Nat
      /\ acked[Client] \in Nat /\ placed[Server] \in Nat /\ sent[Server] \in Nat
      /\ acked[Client] <= placed[Client] /\ placed[Client] <= sent[Client]
      /\ placed[Server] <= sent[Server]
  BY Pair DEF FunType, CountType
<1>2. sent[Client] = it[Client]
  BY Pair DEF RdmaInv, Rounds, Posted
<1>3. it[Client] + it[Client] <= placed[Server] + acked[Client]
  BY Pair DEF RdmaInv, Delivered, Polled
<1>4. sent[Server] <= placed[Client]
  BY DEF RdmaInv, Lockstep
<1> QED BY <1>1, <1>2, <1>3, <1>4

(* A server that has polled once in its round has the ping of that round:    *)
(* whatever it took, it has sent too little for it to be acknowledgements.    *)
LEMMA ServerRound ==
  ASSUME FunType, CountType, RdmaInv, pc[Server] \in {"repost", "send"}
  PROVE  sent[Server] = it[Server] /\ it[Server] + 1 <= placed[Client]
<1>1. /\ it[Server] \in Nat /\ sent[Server] \in Nat /\ placed[Server] \in Nat
      /\ acked[Server] \in Nat /\ placed[Client] \in Nat
      /\ acked[Server] <= placed[Server] /\ placed[Server] <= sent[Server]
  BY Pair DEF FunType, CountType
<1>2. sent[Server] = it[Server]
  BY Pair DEF RdmaInv, Rounds, Posted
<1>3. it[Server] + it[Server] + 1 <= placed[Client] + acked[Server]
  BY Pair DEF RdmaInv, Delivered, Polled
<1> QED BY <1>1, <1>2, <1>3

(* A side that is through all of its rounds has every message of both         *)
(* directions delivered.                                                      *)
LEMMA OverMeansDelivered ==
  ASSUME FunType, CountType, RdmaInv, NEW p \in Sides, pc[p] \in Over
  PROVE  /\ it[p] = Total /\ acked[p] = Total
         /\ \A q \in Sides : placed[q] = Total /\ sent[q] = Total
<1>1. it[p] = Total /\ Total \in Nat
  BY PrepostFits DEF RdmaInv, Rounds
<1>2. Total + Total <= placed[Peer(p)] + acked[p]
  BY <1>1, Pair DEF RdmaInv, Delivered, Polled, Over
<1>3. \A q \in Sides : /\ acked[q] \in Nat /\ placed[q] \in Nat /\ sent[q] \in Nat
                       /\ acked[q] <= placed[q] /\ placed[q] <= sent[q] /\ sent[q] <= Total
  BY DEF CountType
<1>4. acked[p] = Total /\ placed[Peer(p)] = Total /\ placed[p] = Total
      /\ sent[p] = Total /\ sent[Peer(p)] = Total
  BY <1>1, <1>2, <1>3, Pair
<1> QED BY <1>1, <1>4, Pair

(* The error completion of a thread still in its loop is that of its last     *)
(* message, its peer gone after a success.                                    *)
LEMMA ErrorIsLast ==
  ASSUME FunType, CountType, RdmaInv, NEW p \in Sides, pc[p] \in {"poll1", "poll2"},
         pc[Peer(p)] \in Dead, acked[p] < sent[p]
  PROVE  it[p] + 1 = Total /\ pc[Peer(p)] \in Gone /\ \A q \in Sides : placed[q] = Total
<1>1. pc[Peer(p)] # "failed"
  BY Pair DEF RdmaInv, Losses, Gone
<1>2. pc[Peer(p)] # "full"
  <2> SUFFICES ASSUME pc[Peer(p)] = "full" PROVE FALSE
    OBVIOUS
  <2>1. p = Server /\ sent[Client] = 0
    BY Pair DEF RdmaInv, Places, Losses
  <2>2. /\ sent[Server] <= placed[Client] /\ placed[Client] <= sent[Client]
        /\ acked[Server] \in Nat /\ sent[Server] \in Nat /\ placed[Client] \in Nat
    BY Pair DEF RdmaInv, Lockstep, CountType
  <2> QED BY <2>1, <2>2
<1>3. pc[Peer(p)] \in Gone /\ pc[Peer(p)] \in Over
  BY <1>1, <1>2 DEF Dead, Gone, Over
<1>4. \A q \in Sides : placed[q] = Total /\ sent[q] = Total
  BY <1>3, Pair, OverMeansDelivered
<1>5. it[p] \in Nat /\ it[p] < Total /\ Total \in Nat /\ sent[p] = Posted(p)
  BY PrepostFits DEF RdmaInv, Rounds, FunType, Loop
<1>6. it[p] + 1 = Total
  BY <1>4, <1>5 DEF Posted
<1> QED BY <1>3, <1>4, <1>6

-----------------------------------------------------------------------------
(* The steps, on RDMA: set-up.                                                *)

(* While the client is not in its loop nothing has been sent or placed.       *)
LEMMA QuietBefore ==
  ASSUME FunType, CountType, RdmaInv, pc[Client] \in Early
  PROVE  \A p \in Sides : sent[p] = 0 /\ placed[p] = 0 /\ acked[p] = 0
<1>1. sent[Client] = 0
  BY Pair DEF RdmaInv, Rounds, Posted, Early
<1>2. /\ sent[Server] <= placed[Client] /\ placed[Client] <= sent[Client]
      /\ acked[Server] <= placed[Server] /\ placed[Server] <= sent[Server]
      /\ acked[Client] <= placed[Client]
      /\ \A p \in Sides : sent[p] \in Nat /\ placed[p] \in Nat /\ acked[p] \in Nat
  BY Pair DEF RdmaInv, Lockstep, CountType
<1> QED BY <1>1, <1>2, Pair

(* A step that polls and delivers nothing keeps the account of completions.   *)
LEMMA DeliveredFrame ==
  ASSUME Delivered, UNCHANGED <<cq, placed, acked>>,
         \A p \in Sides : Polled(p)' = Polled(p)
  PROVE  Delivered'
  BY Pair DEF Delivered

(* And an error completion keeps its cause while the dead stay dead.          *)
LEMMA ErrorsFrame ==
  ASSUME ErrorsHaveCause, UNCHANGED <<cq, acked, sent>>,
         \A p \in Sides : pc[p] \in Dead => pc'[p] \in Dead
  PROVE  ErrorsHaveCause'
  BY Pair DEF ErrorsHaveCause

(* The server has the client's request.                                       *)
LEMMA MeetKeeps ==
  ASSUME FunType, CountType, RdmaInv, ~OnTcp, Meet
  PROVE  FunType' /\ CountType' /\ RdmaInv'
<1>0. /\ Rounds /\ Places /\ LiveExact /\ Receives /\ Delivered /\ ErrorsHaveCause
      /\ Lockstep /\ RoomLeft /\ Losses
  BY DEF RdmaInv
<1>1. /\ pc[Server] = "meet" /\ pc[Client] = "meet"
      /\ pc' = [pc EXCEPT ![Server] = "setup", ![Client] = "estab"]
      /\ UNCHANGED <<it, rq, cq, sent, placed, acked, live, prog, depth>> /\ prepost' = prepost
  BY Pair DEF Meet, prepost
<1>3. FunType' /\ CountType'
  BY <1>0, <1>1, Pair DEF FunType, CountType, PCs
<1>4. Rounds'
  BY <1>0, <1>1, Pair DEF Rounds, Posted, Early, Loop, Over, FunType
<1>5. Places'
  BY <1>0, <1>1, Pair DEF Places, FunType
<1>6. LiveExact'
  BY <1>0, <1>1, Pair DEF LiveExact, Places, Loop, FunType
<1>7. Receives'
  BY <1>0, <1>1, Pair DEF Receives, Limit, Armed, Early, Loop, FunType
<1>8. Delivered'
  BY <1>0, <1>1, Pair, DeliveredFrame DEF Polled, FunType
<1>9. ErrorsHaveCause'
  <2>1. \A q \in Sides : pc[q] \in Dead => pc'[q] \in Dead
    BY <1>1, Pair DEF FunType, Dead, Gone
  <2> QED BY <1>0, <1>1, <2>1, ErrorsFrame
<1>10. Lockstep'
  BY <1>0, <1>1 DEF Lockstep
<1>11. RoomLeft'
  BY <1>0, <1>1, Pair DEF RoomLeft, Early, FunType
<1>12. Losses'
  BY <1>0, <1>1, Pair DEF Losses, Gone, FunType
<1> QED BY <1>3, <1>4, <1>5, <1>6, <1>7, <1>8, <1>9, <1>10, <1>11, <1>12 DEF RdmaInv

(* The server's receives are posted before its queue pair is live.            *)
LEMMA ServerPrepostKeeps ==
  ASSUME FunType, CountType, RdmaInv, ~OnTcp, ServerPrepost
  PROVE  FunType' /\ CountType' /\ RdmaInv'
<1>0. /\ Rounds /\ Places /\ LiveExact /\ Receives /\ Delivered /\ ErrorsHaveCause
      /\ Lockstep /\ RoomLeft /\ Losses
  BY DEF RdmaInv
<1>1. /\ pc[Server] = "setup" /\ pc' = [pc EXCEPT ![Server] = "accept"]
      /\ rq' = [rq EXCEPT ![Server] = prepost]
      /\ UNCHANGED <<it, cq, sent, placed, acked, live, prog, depth>> /\ prepost' = prepost
  BY DEF ServerPrepost, Goto, prepost
<1>2. /\ pc[Client] \in {"meet", "estab", "barrier"} /\ placed[Client] = 0 /\ it[Server] = 0
      /\ prepost \in Nat /\ prepost <= Total /\ prepost <= Room /\ Total \in Nat
  BY <1>0, <1>1, QuietBefore, PrepostFits, Pair DEF Places, Rounds, Early
<1>3. FunType' /\ CountType'
  BY <1>0, <1>1, <1>2, Pair DEF FunType, CountType, PCs
<1>4. Rounds'
  BY <1>0, <1>1, <1>2, Pair DEF Rounds, Posted, Early, Loop, Over, FunType
<1>5. Places'
  BY <1>0, <1>1, <1>2, Pair DEF Places, FunType
<1>6. LiveExact'
  BY <1>0, <1>1, <1>2, Pair DEF LiveExact, Places, Loop, FunType
<1>7. Receives'
  BY <1>0, <1>1, <1>2, Pair DEF Receives, Limit, Armed, Early, Loop, FunType
<1>8. Delivered'
  BY <1>0, <1>1, <1>2, Pair, DeliveredFrame DEF Polled, FunType
<1>9. ErrorsHaveCause'
  <2>1. \A q \in Sides : pc[q] \in Dead => pc'[q] \in Dead
    BY <1>1, Pair DEF FunType, Dead, Gone
  <2> QED BY <1>0, <1>1, <2>1, ErrorsFrame
<1>10. Lockstep'
  BY <1>0, <1>1, <1>2 DEF Lockstep
<1>11. RoomLeft'
  BY <1>0, <1>1, <1>2, Pair DEF RoomLeft, Early, FunType
<1>12. Losses'
  BY <1>0, <1>1, <1>2, Pair DEF Losses, Gone, FunType
<1> QED BY <1>3, <1>4, <1>5, <1>6, <1>7, <1>8, <1>9, <1>10, <1>11, <1>12 DEF RdmaInv

(* The server goes live with its receives posted.                             *)
LEMMA ServerAcceptKeeps ==
  ASSUME FunType, CountType, RdmaInv, ~OnTcp, ServerAccept
  PROVE  FunType' /\ CountType' /\ RdmaInv'
<1>0. /\ Rounds /\ Places /\ LiveExact /\ Receives /\ Delivered /\ ErrorsHaveCause
      /\ Lockstep /\ RoomLeft /\ Losses
  BY DEF RdmaInv
<1>1. /\ pc[Server] = "accept"
      /\ pc' = [pc EXCEPT ![Server] = IF WithCm THEN "estab" ELSE "barrier"]
      /\ live' = [live EXCEPT ![Server] = TRUE]
      /\ UNCHANGED <<it, rq, cq, sent, placed, acked, prog, depth>> /\ prepost' = prepost
  BY DEF ServerAccept, Goto, prepost, qp_to_rts, AfterSetup, WithCm
<1>3. FunType' /\ CountType'
  BY <1>0, <1>1, Pair DEF FunType, CountType, PCs
<1>4. Rounds'
  BY <1>0, <1>1, Pair DEF Rounds, Posted, Early, Loop, Over, FunType
<1>5. Places'
  BY <1>0, <1>1, Pair DEF Places, FunType
<1>6. LiveExact'
  BY <1>0, <1>1, Pair DEF LiveExact, Places, Loop, FunType
<1>7. Receives'
  BY <1>0, <1>1, Pair DEF Receives, Limit, Armed, Early, Loop, FunType
<1>8. Delivered'
  BY <1>0, <1>1, Pair, DeliveredFrame DEF Polled, FunType
<1>9. ErrorsHaveCause'
  <2>1. \A q \in Sides : pc[q] \in Dead => pc'[q] \in Dead
    BY <1>1, Pair DEF FunType, Dead, Gone
  <2> QED BY <1>0, <1>1, <2>1, ErrorsFrame
<1>10. Lockstep'
  BY <1>0, <1>1 DEF Lockstep
<1>11. RoomLeft'
  BY <1>0, <1>1, Pair DEF RoomLeft, Early, FunType
<1>12. Losses'
  BY <1>0, <1>1, Pair DEF Losses, Gone, FunType
<1> QED BY <1>3, <1>4, <1>5, <1>6, <1>7, <1>8, <1>9, <1>10, <1>11, <1>12 DEF RdmaInv

(* The client is established; in backend_compare it may have sent already.   *)
LEMMA ServerEstablishedKeeps ==
  ASSUME FunType, CountType, RdmaInv, ~OnTcp, ServerEstablished
  PROVE  FunType' /\ CountType' /\ RdmaInv'
<1>0. /\ Rounds /\ Places /\ LiveExact /\ Receives /\ Delivered /\ ErrorsHaveCause
      /\ Lockstep /\ RoomLeft /\ Losses
  BY DEF RdmaInv
<1>1. /\ pc[Server] = "estab" /\ live[Client]
      /\ pc' = [pc EXCEPT ![Server] = IF prog # "compare" THEN "barrier" ELSE "poll1"]
      /\ UNCHANGED <<it, rq, cq, sent, placed, acked, live, prog, depth>> /\ prepost' = prepost
  BY Pair DEF ServerEstablished, Goto, prepost, AfterSetup
<1>2. it[Server] = 0 /\ Total \in Nat /\ Total >= 1
  BY <1>0, <1>1, PrepostFits, Pair DEF Rounds, Early
<1>3. FunType' /\ CountType'
  BY <1>0, <1>1, <1>2, Pair DEF FunType, CountType, PCs
<1>4. Rounds'
  BY <1>0, <1>1, <1>2, Pair DEF Rounds, Posted, Early, Loop, Over, FunType
<1>5. Places'
  BY <1>0, <1>1, <1>2, Pair DEF Places, FunType
<1>6. LiveExact'
  BY <1>0, <1>1, <1>2, Pair DEF LiveExact, Places, Loop, FunType
<1>7. Receives'
  BY <1>0, <1>1, <1>2, Pair DEF Receives, Limit, Armed, Early, Loop, FunType
<1>8. Delivered'
  BY <1>0, <1>1, <1>2, Pair, DeliveredFrame DEF Polled, FunType
<1>9. ErrorsHaveCause'
  <2>1. \A q \in Sides : pc[q] \in Dead => pc'[q] \in Dead
    BY <1>1, Pair DEF FunType, Dead, Gone
  <2> QED BY <1>0, <1>1, <2>1, ErrorsFrame
<1>10. Lockstep'
  BY <1>0, <1>1, <1>2 DEF Lockstep
<1>11. RoomLeft'
  BY <1>0, <1>1, <1>2, Pair DEF RoomLeft, Early, FunType
<1>12. Losses'
  BY <1>0, <1>1, <1>2, Pair DEF Losses, Gone, FunType
<1> QED BY <1>3, <1>4, <1>5, <1>6, <1>7, <1>8, <1>9, <1>10, <1>11, <1>12 DEF RdmaInv

(* With rdma_cm the client is connected by the server's accept.               *)
LEMMA ClientConnectedKeeps ==
  ASSUME FunType, CountType, RdmaInv, ~OnTcp, ClientConnected
  PROVE  FunType' /\ CountType' /\ RdmaInv'
<1>0. /\ Rounds /\ Places /\ LiveExact /\ Receives /\ Delivered /\ ErrorsHaveCause
      /\ Lockstep /\ RoomLeft /\ Losses
  BY DEF RdmaInv
<1>1. /\ pc[Client] = "estab" /\ (prog = "compare" => live[Server])
      /\ pc' = [pc EXCEPT ![Client] = IF prog # "compare" THEN "barrier" ELSE "prepost"]
      /\ live' = [live EXCEPT ![Client] = TRUE]
      /\ UNCHANGED <<it, rq, cq, sent, placed, acked, prog, depth>> /\ prepost' = prepost
  BY Pair DEF ClientConnected, Goto, prepost, AfterSetup, qp_to_rts, WithCm
<1>3. FunType' /\ CountType'
  BY <1>0, <1>1, Pair DEF FunType, CountType, PCs
<1>4. Rounds'
  BY <1>0, <1>1, Pair DEF Rounds, Posted, Early, Loop, Over, FunType
<1>5. Places'
  BY <1>0, <1>1, Pair DEF Places, LiveExact, Loop, FunType
<1>6. LiveExact'
  BY <1>0, <1>1, Pair DEF LiveExact, Places, Loop, FunType
<1>7. Receives'
  BY <1>0, <1>1, Pair DEF Receives, Limit, Armed, Early, Loop, FunType
<1>8. Delivered'
  BY <1>0, <1>1, Pair, DeliveredFrame DEF Polled, FunType
<1>9. ErrorsHaveCause'
  <2>1. \A q \in Sides : pc[q] \in Dead => pc'[q] \in Dead
    BY <1>1, Pair DEF FunType, Dead, Gone
  <2> QED BY <1>0, <1>1, <2>1, ErrorsFrame
<1>10. Lockstep'
  BY <1>0, <1>1 DEF Lockstep
<1>11. RoomLeft'
  BY <1>0, <1>1, Pair DEF RoomLeft, Early, FunType
<1>12. Losses'
  BY <1>0, <1>1, Pair DEF Losses, Gone, FunType
<1> QED BY <1>3, <1>4, <1>5, <1>6, <1>7, <1>8, <1>9, <1>10, <1>11, <1>12 DEF RdmaInv

(* Nobody sends before both sides are set up.                                 *)
LEMMA StartBarrierKeeps ==
  ASSUME FunType, CountType, RdmaInv, ~OnTcp, StartBarrier
  PROVE  FunType' /\ CountType' /\ RdmaInv'
<1>0. /\ Rounds /\ Places /\ LiveExact /\ Receives /\ Delivered /\ ErrorsHaveCause
      /\ Lockstep /\ RoomLeft /\ Losses
  BY DEF RdmaInv
<1>1. /\ pc[Client] = "barrier" /\ pc[Server] = "barrier"
      /\ pc' = [pc EXCEPT ![Client] = "prepost", ![Server] = "poll1"]
      /\ UNCHANGED <<it, rq, cq, sent, placed, acked, live, prog, depth>> /\ prepost' = prepost
  BY DEF StartBarrier, prepost
<1>2. it[Server] = 0 /\ Total \in Nat /\ Total >= 1
  BY <1>0, <1>1, PrepostFits, Pair DEF Rounds, Early
<1>3. FunType' /\ CountType'
  BY <1>0, <1>1, <1>2, Pair DEF FunType, CountType, PCs
<1>4. Rounds'
  <2>1. pc'[Client] = "prepost" /\ pc'[Server] = "poll1"
    BY <1>1, Pair DEF FunType
  <2>2. it[Client] = 0 /\ sent[Client] = it[Client] /\ sent[Server] = it[Server]
    BY <1>0, <1>1, Pair DEF Rounds, Posted, Early
  <2> QED BY <1>1, <1>2, <2>1, <2>2, Pair DEF Rounds, Posted, Early, Loop, Over
<1>5. Places'
  BY <1>0, <1>1, <1>2, Pair DEF Places, FunType
<1>6. LiveExact'
  BY <1>0, <1>1, <1>2, Pair DEF LiveExact, Places, Loop, FunType
<1>7. Receives'
  BY <1>0, <1>1, <1>2, Pair DEF Receives, Limit, Armed, Early, Loop, FunType
<1>8. Delivered'
  BY <1>0, <1>1, <1>2, Pair, DeliveredFrame DEF Polled, FunType
<1>9. ErrorsHaveCause'
  <2>1. \A q \in Sides : pc[q] \in Dead => pc'[q] \in Dead
    BY <1>1, Pair DEF FunType, Dead, Gone
  <2> QED BY <1>0, <1>1, <2>1, ErrorsFrame
<1>10. Lockstep'
  BY <1>0, <1>1, <1>2 DEF Lockstep
<1>11. RoomLeft'
  BY <1>0, <1>1, <1>2, Pair DEF RoomLeft, Early, FunType
<1>12. Losses'
  BY <1>0, <1>1, <1>2, Pair DEF Losses, Gone, FunType
<1> QED BY <1>3, <1>4, <1>5, <1>6, <1>7, <1>8, <1>9, <1>10, <1>11, <1>12 DEF RdmaInv

(* The client posts its receives before its first ping.                       *)
LEMMA ClientPrepostKeeps ==
  ASSUME FunType, CountType, RdmaInv, ~OnTcp, ClientPrepost
  PROVE  FunType' /\ CountType' /\ RdmaInv'
<1>0. /\ Rounds /\ Places /\ LiveExact /\ Receives /\ Delivered /\ ErrorsHaveCause
      /\ Lockstep /\ RoomLeft /\ Losses
  BY DEF RdmaInv
<1>1. /\ pc[Client] = "prepost" /\ pc' = [pc EXCEPT ![Client] = "repost"]
      /\ rq' = [rq EXCEPT ![Client] = prepost]
      /\ UNCHANGED <<it, cq, sent, placed, acked, live, prog, depth>> /\ prepost' = prepost
  BY DEF ClientPrepost, Goto, prepost
<1>2. /\ placed[Server] = 0 /\ it[Client] = 0 /\ Total \in Nat /\ Total >= 1
      /\ prepost \in Nat /\ prepost <= Total /\ prepost <= Room
  BY <1>0, <1>1, QuietBefore, PrepostFits, Pair DEF Places, Rounds, Early
<1>3. FunType' /\ CountType'
  BY <1>0, <1>1, <1>2, Pair DEF FunType, CountType, PCs
<1>4. Rounds'
  BY <1>0, <1>1, <1>2, Pair DEF Rounds, Posted, Early, Loop, Over, FunType
<1>5. Places'
  BY <1>0, <1>1, <1>2, Pair DEF Places, FunType
<1>6. LiveExact'
  BY <1>0, <1>1, <1>2, Pair DEF LiveExact, Places, Loop, FunType
<1>7. Receives'
  BY <1>0, <1>1, <1>2, Pair DEF Receives, Limit, Armed, Early, Loop, FunType
<1>8. Delivered'
  BY <1>0, <1>1, <1>2, Pair, DeliveredFrame DEF Polled, FunType
<1>9. ErrorsHaveCause'
  <2>1. \A q \in Sides : pc[q] \in Dead => pc'[q] \in Dead
    BY <1>1, Pair DEF FunType, Dead, Gone
  <2> QED BY <1>0, <1>1, <2>1, ErrorsFrame
<1>10. Lockstep'
  BY <1>0, <1>1, <1>2 DEF Lockstep
<1>11. RoomLeft'
  BY <1>0, <1>1, <1>2, Pair DEF RoomLeft, Early, FunType
<1>12. Losses'
  BY <1>0, <1>1, <1>2, Pair DEF Losses, Gone, FunType
<1> QED BY <1>3, <1>4, <1>5, <1>6, <1>7, <1>8, <1>9, <1>10, <1>11, <1>12 DEF RdmaInv
-----------------------------------------------------------------------------
(* The steps, on RDMA: the loop.                                               *)

(* A poll takes the completion at the head and moves the thread on by one.    *)
LEMMA PollAccount ==
  ASSUME FunType, CountType, Delivered, ErrorsHaveCause, NEW p \in Sides, CompletionAt(p),
         cq' = [cq EXCEPT ![p] = Tail(cq[p])], UNCHANGED <<sent, placed, acked>>,
         Polled(p)' = Polled(p) + 1, Polled(Peer(p))' = Polled(Peer(p)),
         \A q \in Sides : pc[q] \in Dead => pc'[q] \in Dead
  PROVE  Delivered' /\ ErrorsHaveCause'
<1>1. cq[p] \in Seq({"recv", "send", "error"}) /\ cq[p] # << >> /\ cq[p][1] # "error"
  BY DEF FunType, CompletionAt
<1>2. /\ cq'[p] = Tail(cq[p]) /\ cq'[Peer(p)] = cq[Peer(p)] /\ Len(cq[p]) >= 1
      /\ \A k \in 1..Len(cq'[p]) : k + 1 \in 1..Len(cq[p]) /\ cq'[p][k] = cq[p][k + 1]
  BY <1>1, Pair DEF FunType
<1>3. Polled(p) \in Nat /\ placed[Peer(p)] \in Nat /\ acked[p] \in Nat
  BY Pair, CountsAreNat DEF CountType
<1>4. Polled(p) + 1 <= placed[Peer(p)] + acked[p]
  BY <1>1, <1>2 DEF Delivered
<1>5. ASSUME NEW k \in 1..Len(cq'[p]), cq'[p][k] # "error"
      PROVE  Polled(p) + 1 + k <= placed[Peer(p)] + acked[p]
  <2>1. k \in Nat /\ k + 1 \in 1..Len(cq[p]) /\ cq[p][k + 1] # "error"
    <3>1. k + 1 \in 1..Len(cq[p]) /\ cq'[p][k] = cq[p][k + 1]
      BY <1>2, <1>5
    <3>2. Len(cq'[p]) \in Nat
      BY <1>1, <1>2
    <3> QED BY <1>5, <3>1, <3>2
  <2>2. Polled(p) + (k + 1) <= placed[Peer(p)] + acked[p]
    BY <2>1 DEF Delivered
  <2> QED BY <1>3, <2>1, <2>2
<1>6. Delivered'
  <2> SUFFICES ASSUME NEW q \in Sides
               PROVE  /\ Polled(q)' <= placed[Peer(q)] + acked[q]
                      /\ \A k \in 1..Len(cq'[q]) :
                           cq'[q][k] # "error" => Polled(q)' + k <= placed[Peer(q)] + acked[q]
    BY DEF Delivered
  <2>1. CASE q = p
    BY <1>4, <1>5, <2>1
  <2>2. CASE q = Peer(p)
    BY <1>2, <2>2 DEF Delivered
  <2> QED BY <2>1, <2>2, Pair
<1>7. ErrorsHaveCause'
  <2> SUFFICES ASSUME NEW q \in Sides, NEW k \in 1..Len(cq'[q]), cq'[q][k] = "error"
               PROVE  pc'[Peer(q)] \in Dead /\ acked[q] < sent[q]
    BY DEF ErrorsHaveCause
  <2>1. CASE q = p
    BY <1>2, <2>1, Pair DEF ErrorsHaveCause
  <2>2. CASE q = Peer(p)
    BY <1>2, <2>2, Pair DEF ErrorsHaveCause
  <2> QED BY <2>1, <2>2, Pair
<1> QED BY <1>6, <1>7

(* The client replaces a receive before its ping; its first one had room.     *)
LEMMA RepostClientKeeps ==
  ASSUME FunType, CountType, RdmaInv, ~OnTcp, Repost(Client),
         ~(MoreToCome(Client) /\ rq[Client] = Room)
  PROVE  FunType' /\ CountType' /\ RdmaInv'
<1>0. /\ Rounds /\ Places /\ LiveExact /\ Receives /\ Delivered /\ ErrorsHaveCause
      /\ Lockstep /\ RoomLeft /\ Losses
  BY DEF RdmaInv
<1>1. /\ pc[Client] = "repost" /\ pc' = [pc EXCEPT ![Client] = "send"]
      /\ \/ /\ it[Client] + prepost < Total /\ rq[Client] # Room
            /\ rq' = [rq EXCEPT ![Client] = rq[Client] + 1]
         \/ ~(it[Client] + prepost < Total) /\ rq' = rq
      /\ UNCHANGED <<it, cq, sent, placed, acked, live, prog, depth>> /\ prepost' = prepost
  BY DEF Repost, MoreToCome, Goto, prepost
<1>2. /\ it[Client] \in Nat /\ rq[Client] \in Nat /\ rq[Client] <= Room /\ Room \in Nat
      /\ placed[Server] = it[Client] /\ prepost \in Nat /\ Total \in Nat /\ depth \in Nat
      /\ rq[Client] + placed[Server] =
           IF prepost + it[Client] < Total THEN prepost + it[Client] ELSE Total
  BY <1>0, <1>1, ClientRound, PrepostFits, Pair DEF FunType, CountType, Receives, Limit, Armed, Loop
<1>r. rq' \in [Sides -> Nat] /\ rq'[Client] <= Room /\ rq'[Server] = rq[Server]
  <2>1. CASE rq' = rq
    BY <1>2, <2>1, Pair DEF FunType
  <2>2. CASE rq[Client] # Room /\ rq' = [rq EXCEPT ![Client] = rq[Client] + 1]
    <3>1. rq[Client] + 1 \in Nat /\ rq[Client] + 1 <= Room
      BY <1>2, <2>2
    <3> QED BY <2>2, <3>1, Pair DEF FunType
  <2> QED BY <1>1, <2>1, <2>2
<1>3. FunType' /\ CountType'
  BY <1>1, <1>2, <1>r, Pair DEF FunType, CountType, PCs
<1>4. Rounds'
  BY <1>0, <1>1, <1>2, Pair DEF Rounds, Posted, Early, Loop, Over, FunType
<1>5. Places'
  BY <1>0, <1>1, <1>2, Pair DEF Places, FunType
<1>6. LiveExact'
  BY <1>0, <1>1, <1>2, Pair DEF LiveExact, Places, Loop, FunType
<1>7. Receives'
  <2>1. pc'[Client] = "send" /\ pc'[Server] = pc[Server] /\ placed' = placed
    BY <1>1, Pair DEF FunType
  <2>2. rq'[Client] + placed[Server] = Limit(Client)'
    <3>1. Limit(Client)' = IF prepost + (it[Client] + 1) < Total
                           THEN prepost + (it[Client] + 1) ELSE Total
      BY <1>1, <2>1 DEF Limit, Armed
    <3>2. CASE it[Client] + prepost < Total
      <4>1. rq'[Client] = rq[Client] + 1
        BY <1>1, <3>2, Pair DEF FunType
      <4> QED BY <1>2, <3>1, <3>2, <4>1
    <3>3. CASE ~(it[Client] + prepost < Total)
      <4>1. rq'[Client] = rq[Client]
        BY <1>1, <3>3
      <4> QED BY <1>2, <3>1, <3>3, <4>1
    <3> QED BY <3>2, <3>3
  <2>3. Limit(Server)' = Limit(Server)
    BY <1>1, <2>1, Pair DEF Limit, Armed
  <2> QED BY <1>0, <1>r, <2>1, <2>2, <2>3 DEF Receives, Early, Loop
<1>8. Delivered'
  BY <1>0, <1>1, <1>2, Pair, DeliveredFrame DEF Polled, FunType
<1>9. ErrorsHaveCause'
  <2>1. \A q \in Sides : pc[q] \in Dead => pc'[q] \in Dead
    BY <1>1, Pair DEF FunType, Dead, Gone
  <2> QED BY <1>0, <1>1, <2>1, ErrorsFrame
<1>10. Lockstep'
  BY <1>0, <1>1, <1>2 DEF Lockstep
<1>11. RoomLeft'
  <2>1. CASE it[Client] = 0
    <3>1. it[Client] + prepost < Total => prepost # Room
      BY <1>1, <1>2, <2>1
    <3>2. /\ prepost = depth \/ (prepost = Total /\ Total <= depth)
          /\ depth <= Room
      BY PrepostFits
    <3> QED BY <1>1, <1>2, <2>1, <3>1, <3>2 DEF RoomLeft
  <2>2. CASE it[Client] # 0
    BY <1>0, <1>1, <2>2 DEF RoomLeft, Early
  <2> QED BY <2>1, <2>2
<1>12. Losses'
  BY <1>0, <1>1, <1>2, Pair DEF Losses, Gone, FunType
<1> QED BY <1>3, <1>4, <1>5, <1>6, <1>7, <1>8, <1>9, <1>10, <1>11, <1>12 DEF RdmaInv

(* The server replaces the receive the ping took: there is always room.       *)
LEMMA RepostServerKeeps ==
  ASSUME FunType, CountType, RdmaInv, ~OnTcp, Repost(Server)
  PROVE  FunType' /\ CountType' /\ RdmaInv'
<1>0. /\ Rounds /\ Places /\ LiveExact /\ Receives /\ Delivered /\ ErrorsHaveCause
      /\ Lockstep /\ RoomLeft /\ Losses
  BY DEF RdmaInv
<1>1. /\ pc[Server] = "repost" /\ it[Server] + 1 <= placed[Client]
      /\ it[Server] \in Nat /\ rq[Server] \in Nat /\ placed[Client] \in Nat
      /\ prepost \in Nat /\ Total \in Nat /\ prepost <= Room /\ Room \in Nat
      /\ rq[Server] + placed[Client] =
           IF prepost + it[Server] < Total THEN prepost + it[Server] ELSE Total
  BY <1>0, ServerRound, PrepostFits, Pair
  DEF Repost, FunType, CountType, Receives, Limit, Armed, Loop
<1>n. rq[Server] < Room
  BY <1>1
<1>2. /\ pc' = [pc EXCEPT ![Server] = "send"]
      /\ \/ /\ it[Server] + prepost < Total
            /\ rq' = [rq EXCEPT ![Server] = rq[Server] + 1]
         \/ ~(it[Server] + prepost < Total) /\ rq' = rq
      /\ UNCHANGED <<it, cq, sent, placed, acked, live, prog, depth>> /\ prepost' = prepost
  <2>1. ~(MoreToCome(Server) /\ rq[Server] = Room)
    BY <1>1, <1>n
  <2> QED BY <2>1 DEF Repost, MoreToCome, Goto, prepost
<1>r. rq' \in [Sides -> Nat] /\ rq'[Server] <= Room /\ rq'[Client] = rq[Client]
  <2>1. rq[Server] + 1 \in Nat /\ rq[Server] + 1 <= Room /\ rq[Server] <= Room
    BY <1>1, <1>n
  <2>2. rq \in [Sides -> Nat]
    BY DEF FunType
  <2>3. CASE rq' = [rq EXCEPT ![Server] = rq[Server] + 1]
    BY <2>1, <2>2, <2>3, Pair
  <2>4. CASE rq' = rq
    BY <2>1, <2>2, <2>4
  <2> QED BY <1>2, <2>3, <2>4
<1>3. FunType' /\ CountType'
  BY <1>2, <1>r, Pair DEF FunType, CountType, PCs
<1>4. Rounds'
  BY <1>0, <1>1, <1>2, Pair DEF Rounds, Posted, Early, Loop, Over, FunType
<1>5. Places'
  BY <1>0, <1>1, <1>2, Pair DEF Places, FunType
<1>6. LiveExact'
  BY <1>0, <1>1, <1>2, Pair DEF LiveExact, Places, Loop, FunType
<1>7. Receives'
  <2>1. pc'[Server] = "send" /\ pc'[Client] = pc[Client] /\ placed' = placed
    BY <1>2, Pair DEF FunType
  <2>2. rq'[Server] + placed[Client] = Limit(Server)'
    <3>1. Limit(Server)' = IF prepost + (it[Server] + 1) < Total
                           THEN prepost + (it[Server] + 1) ELSE Total
      BY <1>2, <2>1 DEF Limit, Armed
    <3>2. CASE it[Server] + prepost < Total
      <4>1. rq'[Server] = rq[Server] + 1
        BY <1>2, <3>2, Pair DEF FunType
      <4> QED BY <1>1, <3>1, <3>2, <4>1
    <3>3. CASE ~(it[Server] + prepost < Total)
      <4>1. rq'[Server] = rq[Server]
        BY <1>2, <3>3
      <4> QED BY <1>1, <3>1, <3>3, <4>1
    <3> QED BY <3>2, <3>3
  <2>3. Limit(Client)' = Limit(Client)
    BY <1>2, <2>1, Pair DEF Limit, Armed
  <2> QED BY <1>0, <1>r, <2>1, <2>2, <2>3 DEF Receives, Early, Loop
<1>8. Delivered'
  BY <1>0, <1>1, <1>2, Pair, DeliveredFrame DEF Polled, FunType
<1>9. ErrorsHaveCause'
  <2>1. \A q \in Sides : pc[q] \in Dead => pc'[q] \in Dead
    BY <1>1, <1>2, Pair DEF FunType, Dead, Gone
  <2> QED BY <1>0, <1>2, <2>1, ErrorsFrame
<1>10. Lockstep'
  BY <1>0, <1>1, <1>2 DEF Lockstep
<1>11. RoomLeft'
  BY <1>0, <1>1, <1>2, Pair DEF RoomLeft, Early, FunType
<1>12. Losses'
  BY <1>0, <1>1, <1>2, Pair DEF Losses, Gone, FunType
<1> QED BY <1>3, <1>4, <1>5, <1>6, <1>7, <1>8, <1>9, <1>10, <1>11, <1>12 DEF RdmaInv

(* The queue is full only before the first ping of a client with the largest
   depth.                                                                      *)
LEMMA RepostFullKeeps ==
  ASSUME FunType, CountType, RdmaInv, ~OnTcp, DepthFits, NEW p \in Sides, Repost(p),
         MoreToCome(p), rq[p] = Room
  PROVE  FunType' /\ CountType' /\ RdmaInv'
<1>0. /\ Rounds /\ Places /\ LiveExact /\ Receives /\ Delivered /\ ErrorsHaveCause
      /\ Lockstep /\ RoomLeft /\ Losses
  BY DEF RdmaInv
<1>1. /\ pc[p] = "repost" /\ pc' = [pc EXCEPT ![p] = "full"] /\ it[p] + prepost < Total
      /\ live' = [live EXCEPT ![p] = FALSE]
      /\ UNCHANGED <<it, rq, cq, sent, placed, acked, prog, depth>> /\ prepost' = prepost
  BY DEF Repost, MoreToCome, Goto, prepost
<1>f. /\ it[p] \in Nat /\ rq[p] \in Nat /\ placed[Peer(p)] \in Nat /\ Room \in Nat
      /\ prepost \in Nat /\ Total \in Nat /\ depth \in Nat /\ prepost <= Room /\ depth <= Room
      /\ prepost = depth \/ prepost = Total
  BY PrepostFits, Pair DEF FunType, CountType
<1>g. rq[p] + placed[Peer(p)] = prepost + it[p]
  <2>1. rq[p] + placed[Peer(p)] = Limit(p)
    BY <1>0, <1>1, Pair DEF Receives, Loop
  <2>2. Armed(p) = it[p]
    BY <1>1, Pair DEF Armed
  <2> QED BY <1>1, <1>f, <2>1, <2>2 DEF Limit
<1>p. p = Client
  <2> SUFFICES ASSUME p = Server PROVE FALSE
    BY Pair
  <2>1. it[Server] + 1 <= placed[Client]
    BY <1>1, ServerRound
  <2> QED BY <1>f, <1>g, <2>1, Pair
<1>2. p = Client /\ depth = Room /\ prog # "compare" /\ sent[Client] = 0 /\ it[Client] = 0
  <2>1. sent[Client] = it[Client] /\ placed[Server] = it[Client]
    BY <1>1, <1>p, ClientRound
  <2>2. prepost = Room
    BY <1>f, <1>g, <1>p, <2>1, Pair
  <2>3. depth = Room /\ ~(depth < Room) /\ ~(Total <= depth)
    BY <1>1, <1>f, <2>2
  <2>4. it[Client] = 0
    BY <1>0, <1>1, <1>p, <2>3 DEF RoomLeft, Early
  <2>5. prog # "compare"
    BY <2>3 DEF DepthFits
  <2> QED BY <1>p, <2>1, <2>3, <2>4, <2>5
<1>3. FunType' /\ CountType'
  BY <1>0, <1>1, <1>2, Pair DEF FunType, CountType, PCs
<1>4. Rounds'
  BY <1>0, <1>1, <1>2, Pair DEF Rounds, Posted, Early, Loop, Over, FunType
<1>5. Places'
  BY <1>0, <1>1, <1>2, Pair DEF Places, FunType
<1>6. LiveExact'
  BY <1>0, <1>1, <1>2, Pair DEF LiveExact, Places, Loop, FunType
<1>7. Receives'
  BY <1>0, <1>1, <1>2, Pair DEF Receives, Limit, Armed, Early, Loop, FunType
<1>8. Delivered'
  BY <1>0, <1>1, <1>2, Pair, DeliveredFrame DEF Polled, FunType
<1>9. ErrorsHaveCause'
  <2>1. \A q \in Sides : pc[q] \in Dead => pc'[q] \in Dead
    BY <1>1, Pair DEF FunType, Dead, Gone
  <2> QED BY <1>0, <1>1, <2>1, ErrorsFrame
<1>10. Lockstep'
  BY <1>0, <1>1, <1>2 DEF Lockstep
<1>11. RoomLeft'
  BY <1>0, <1>1, <1>2, Pair DEF RoomLeft, Early, FunType
<1>12. Losses'
  BY <1>0, <1>1, <1>2, Pair DEF Losses, Gone, FunType
<1> QED BY <1>3, <1>4, <1>5, <1>6, <1>7, <1>8, <1>9, <1>10, <1>11, <1>12 DEF RdmaInv

(* Ping number it + 1 goes out after all the pongs before it, and a pong after
   its ping.                                                                   *)
LEMMA SendKeeps ==
  ASSUME FunType, CountType, RdmaInv, ~OnTcp, NEW p \in Sides, Send(p)
  PROVE  FunType' /\ CountType' /\ RdmaInv'
<1>0. /\ Rounds /\ Places /\ LiveExact /\ Receives /\ Delivered /\ ErrorsHaveCause
      /\ Lockstep /\ RoomLeft /\ Losses
  BY DEF RdmaInv
<1>1. /\ pc[p] = "send" /\ sent' = [sent EXCEPT ![p] = sent[p] + 1]
      /\ pc' = [pc EXCEPT ![p] = IF p = Client THEN "poll1" ELSE "poll2"]
      /\ UNCHANGED <<it, rq, cq, placed, acked, live, prog, depth>> /\ prepost' = prepost
  BY DEF Send, Goto, prepost
<1>2. /\ it[p] \in Nat /\ sent[p] = it[p] /\ it[p] < Total /\ Total \in Nat
      /\ p = Client => placed[Server] = it[p]
      /\ p = Server => it[p] + 1 <= placed[Client]
  BY <1>0, <1>1, ClientRound, ServerRound, PrepostFits, Pair DEF FunType, Rounds, Loop
<1>3. FunType' /\ CountType'
  <2>1. FunType'
    BY <1>1, Pair DEF FunType, PCs
  <2>2. CountType'
    BY <1>1, <1>2 DEF CountType
  <2> QED BY <2>1, <2>2
<1>4. Rounds'
  <2>1. CASE p = Client
    BY <1>0, <1>1, <1>2, <2>1, Pair DEF Rounds, Posted, Early, Loop, Over, FunType, CountType
  <2>2. CASE p = Server
    BY <1>0, <1>1, <1>2, <2>2, Pair DEF Rounds, Posted, Early, Loop, Over, FunType, CountType
  <2> QED BY <2>1, <2>2, Pair
<1>5. Places'
  BY <1>0, <1>1, <1>2, Pair DEF Places, FunType
<1>6. LiveExact'
  BY <1>0, <1>1, <1>2, Pair DEF LiveExact, Places, Loop, FunType
<1>7. Receives'
  BY <1>0, <1>1, <1>2, Pair DEF Receives, Limit, Armed, Early, Loop, FunType
<1>8. Delivered'
  BY <1>0, <1>1, <1>2, Pair, DeliveredFrame DEF Polled, FunType
<1>9. ErrorsHaveCause'
  <2>1. \A q \in Sides : pc[q] \in Dead => pc'[q] \in Dead
    BY <1>1, Pair DEF FunType, Dead, Gone
  <2>2. \A q \in Sides : acked[q] < sent[q] => acked[q] < sent'[q]
    BY <1>1, Pair DEF CountType
  <2> QED BY <1>0, <1>1, <2>1, <2>2, Pair DEF ErrorsHaveCause
<1>10. Lockstep'
  BY <1>0, <1>1, <1>2, Pair DEF Lockstep, CountType
<1>11. RoomLeft'
  BY <1>0, <1>1, <1>2, Pair DEF RoomLeft, Early, FunType
<1>12. Losses'
  <2>1. \A q \in Sides : pc'[q] = "failed" => pc[q] = "failed" /\ pc[Peer(q)] = pc'[Peer(q)]
    BY <1>0, <1>1, Pair DEF Losses, Gone, FunType
  <2>2. pc'[Client] = "full" => pc[Client] = "full" /\ sent'[Client] = sent[Client]
    BY <1>1, Pair DEF FunType, CountType
  <2>3. \A q \in Sides : pc'[q] \in {"next", "listening", "refused"} => pc'[q] = pc[q]
    BY <1>1, Pair DEF FunType
  <2> QED BY <1>0, <1>1, <2>1, <2>2, <2>3 DEF Losses
<1> QED BY <1>3, <1>4, <1>5, <1>6, <1>7, <1>8, <1>9, <1>10, <1>11, <1>12 DEF RdmaInv

(* The first poll of a round takes one completion, whichever it is.           *)
LEMMA Poll1Keeps ==
  ASSUME FunType, CountType, RdmaInv, ~OnTcp, NEW p \in Sides, Poll1(p)
  PROVE  FunType' /\ CountType' /\ RdmaInv'
<1>0. /\ Rounds /\ Places /\ LiveExact /\ Receives /\ Delivered /\ ErrorsHaveCause
      /\ Lockstep /\ RoomLeft /\ Losses
  BY DEF RdmaInv
<1>1. /\ pc[p] = "poll1" /\ CompletionAt(p) /\ cq' = [cq EXCEPT ![p] = Tail(cq[p])]
      /\ pc' = [pc EXCEPT ![p] = IF p = Client THEN "poll2" ELSE "repost"]
      /\ UNCHANGED <<it, rq, sent, placed, acked, live, prog, depth>> /\ prepost' = prepost
  BY DEF Poll1, Goto, prepost
<1>2. it[p] \in Nat
  BY DEF FunType
<1>3. FunType' /\ CountType'
  <2>1. cq' \in [Sides -> Seq({"recv", "send", "error"})]
    <3>1. Tail(cq[p]) \in Seq({"recv", "send", "error"})
      BY <1>1 DEF FunType, CompletionAt
    <3> QED BY <1>1, <3>1 DEF FunType
  <2> QED BY <1>1, <1>2, <2>1, Pair DEF FunType, CountType, PCs
<1>4. Rounds'
  BY <1>0, <1>1, <1>2, Pair DEF Rounds, Posted, Early, Loop, Over, FunType
<1>5. Places'
  BY <1>0, <1>1, <1>2, Pair DEF Places, FunType
<1>6. LiveExact'
  BY <1>0, <1>1, <1>2, Pair DEF LiveExact, Places, Loop, FunType
<1>7. Receives'
  BY <1>0, <1>1, <1>2, Pair DEF Receives, Limit, Armed, Early, Loop, FunType
<1>8. Delivered' /\ ErrorsHaveCause'
  <2>1. \A q \in Sides : pc[q] \in Dead => pc'[q] \in Dead
    BY <1>1, Pair DEF FunType, Dead, Gone
  <2>2. Polled(p)' = Polled(p) + 1
    BY <1>1, <1>2, Pair DEF Polled, FunType
  <2>3. Polled(Peer(p))' = Polled(Peer(p))
    BY <1>1, Pair DEF Polled, FunType
  <2> QED BY <1>0, <1>1, <2>1, <2>2, <2>3, PollAccount
<1>9. Lockstep'
  BY <1>0, <1>1, <1>2 DEF Lockstep
<1>10. RoomLeft'
  BY <1>0, <1>1, <1>2, Pair DEF RoomLeft, Early, FunType
<1>11. Losses'
  BY <1>0, <1>1, <1>2, Pair DEF Losses, Gone, FunType
<1> QED BY <1>3, <1>4, <1>5, <1>6, <1>7, <1>8, <1>9, <1>10, <1>11 DEF RdmaInv

(* The second ends the round.                                                 *)
LEMMA Poll2Keeps ==
  ASSUME FunType, CountType, RdmaInv, ~OnTcp, NEW p \in Sides, Poll2(p)
  PROVE  FunType' /\ CountType' /\ RdmaInv'
<1>0. /\ Rounds /\ Places /\ LiveExact /\ Receives /\ Delivered /\ ErrorsHaveCause
      /\ Lockstep /\ RoomLeft /\ Losses
  BY DEF RdmaInv
<1>1. /\ pc[p] = "poll2" /\ CompletionAt(p) /\ cq' = [cq EXCEPT ![p] = Tail(cq[p])]
      /\ it' = [it EXCEPT ![p] = it[p] + 1]
      /\ pc' = [pc EXCEPT ![p] = IF it[p] + 1 = Total THEN "done"
                                 ELSE IF p = Client THEN "repost" ELSE "poll1"]
      /\ UNCHANGED <<rq, sent, placed, acked, live, prog, depth>> /\ prepost' = prepost
  BY DEF Poll2, EndRound, Goto, prepost
<1>2. it[p] \in Nat /\ it[p] < Total /\ Total \in Nat
  BY <1>0, <1>1, PrepostFits DEF FunType, Rounds, Loop
<1>3. FunType' /\ CountType'
  <2>1. Tail(cq[p]) \in Seq({"recv", "send", "error"})
    BY <1>1 DEF FunType, CompletionAt
  <2>2. it[p] + 1 \in Nat /\ it[p] + 1 <= Total
    BY <1>2
  <2>3. FunType'
    BY <1>1, <2>1, <2>2, Pair DEF FunType, PCs
  <2>4. \A q \in Sides : it'[q] <= Total
    BY <1>1, <2>2 DEF FunType, CountType
  <2>5. CountType'
    BY <1>1, <2>4 DEF CountType
  <2> QED BY <2>3, <2>5
<1>4. Rounds'
  BY <1>0, <1>1, <1>2, Pair DEF Rounds, Posted, Early, Loop, Over, FunType
<1>5. Places'
  BY <1>0, <1>1, <1>2, Pair DEF Places, FunType
<1>6. LiveExact'
  BY <1>0, <1>1, <1>2, Pair DEF LiveExact, Places, Loop, FunType
<1>7. Receives'
  BY <1>0, <1>1, <1>2, Pair DEF Receives, Limit, Armed, Early, Loop, FunType
<1>8. Delivered' /\ ErrorsHaveCause'
  <2>1. \A q \in Sides : pc[q] \in Dead => pc'[q] \in Dead
    BY <1>1, Pair DEF FunType, Dead, Gone
  <2>2. Polled(p)' = Polled(p) + 1
    <3>1. /\ it'[p] = it[p] + 1 /\ pc'[p] # "poll2"
          /\ p = Server => pc'[p] \notin {"repost", "send"}
      BY <1>1, Pair DEF FunType
    <3>2. Polled(p) = it[p] + it[p] + 1
      BY <1>1 DEF Polled
    <3>3. Polled(p)' = it'[p] + it'[p]
      BY <3>1 DEF Polled
    <3> QED BY <1>2, <3>1, <3>2, <3>3
  <2>3. Polled(Peer(p))' = Polled(Peer(p))
    BY <1>1, Pair DEF Polled, FunType
  <2> QED BY <1>0, <1>1, <2>1, <2>2, <2>3, PollAccount
<1>9. Lockstep'
  BY <1>0, <1>1, <1>2 DEF Lockstep
<1>10. RoomLeft'
  BY <1>0, <1>1, <1>2, Pair DEF RoomLeft, Early, FunType
<1>11. Losses'
  BY <1>0, <1>1, <1>2, Pair DEF Losses, Gone, FunType
<1> QED BY <1>3, <1>4, <1>5, <1>6, <1>7, <1>8, <1>9, <1>10, <1>11 DEF RdmaInv

(* A thread fails over its last message only.                                 *)
LEMMA PollErrorKeeps ==
  ASSUME FunType, CountType, RdmaInv, ~OnTcp, NEW p \in Sides, PollError(p)
  PROVE  FunType' /\ CountType' /\ RdmaInv'
<1>0. /\ Rounds /\ Places /\ LiveExact /\ Receives /\ Delivered /\ ErrorsHaveCause
      /\ Lockstep /\ RoomLeft /\ Losses
  BY DEF RdmaInv
<1>1. /\ pc[p] \in {"poll1", "poll2"} /\ cq[p] # << >> /\ Head(cq[p]) = "error"
      /\ pc' = [pc EXCEPT ![p] = "failed"] /\ live' = [live EXCEPT ![p] = FALSE]
      /\ UNCHANGED <<it, rq, cq, sent, placed, acked, prog, depth>> /\ prepost' = prepost
  BY DEF PollError, Goto, prepost
<1>2. it[p] + 1 = Total /\ pc[Peer(p)] \in Gone /\ \A q \in Sides : placed[q] = Total
  <2>1. 1 \in 1..Len(cq[p]) /\ cq[p][1] = "error"
    BY <1>1 DEF FunType
  <2>2. pc[Peer(p)] \in Dead /\ acked[p] < sent[p]
    BY <1>0, <2>1 DEF ErrorsHaveCause
  <2> QED BY <1>1, <2>2, ErrorIsLast
<1>3. FunType' /\ CountType'
  BY <1>0, <1>1, <1>2, Pair DEF FunType, CountType, PCs
<1>4. Rounds'
  BY <1>0, <1>1, <1>2, Pair DEF Rounds, Posted, Early, Loop, Over, FunType
<1>5. Places'
  BY <1>0, <1>1, <1>2, Pair DEF Places, FunType
<1>6. LiveExact'
  BY <1>0, <1>1, <1>2, Pair DEF LiveExact, Places, Loop, FunType
<1>7. Receives'
  BY <1>0, <1>1, <1>2, Pair DEF Receives, Limit, Armed, Early, Loop, FunType
<1>8. Delivered'
  <2>1. \A q \in Sides : /\ Polled(q)' \in Nat /\ Polled(q) \in Nat /\ Polled(q)' <= Polled(q)
                         /\ placed[Peer(q)] \in Nat /\ acked[q] \in Nat
    <3>1. \A q \in Sides : Polled(q) \in Nat /\ placed[Peer(q)] \in Nat /\ acked[q] \in Nat
      BY CountsAreNat, Pair DEF CountType
    <3>2. it[p] \in Nat /\ it'[p] = it[p] /\ pc'[p] = "failed"
      BY <1>1 DEF FunType
    <3>3. Polled(p)' = it[p] + it[p]
      BY <3>2 DEF Polled
    <3>4. Polled(p) = it[p] + it[p] \/ Polled(p) = it[p] + it[p] + 1
      BY DEF Polled
    <3>5. Polled(p)' \in Nat /\ Polled(p)' <= Polled(p)
      BY <3>2, <3>3, <3>4
    <3>6. Polled(Peer(p))' = Polled(Peer(p))
      BY <1>1, Pair DEF Polled, FunType
    <3>7. Polled(Peer(p))' \in Nat /\ Polled(Peer(p))' <= Polled(Peer(p))
      BY <3>1, <3>6, Pair
    <3> QED BY <3>1, <3>5, <3>7, Pair
  <2> SUFFICES ASSUME NEW q \in Sides
               PROVE  /\ Polled(q)' <= placed[Peer(q)] + acked[q]
                      /\ \A k \in 1..Len(cq[q]) :
                           cq[q][k] # "error" => Polled(q)' + k <= placed[Peer(q)] + acked[q]
    BY <1>1 DEF Delivered
  <2>2. Polled(q) <= placed[Peer(q)] + acked[q]
    BY <1>0 DEF Delivered
  <2>3. ASSUME NEW k \in 1..Len(cq[q]), cq[q][k] # "error"
        PROVE  Polled(q)' + k <= placed[Peer(q)] + acked[q]
    <3>1. Polled(q) + k <= placed[Peer(q)] + acked[q]
      BY <1>0, <2>3 DEF Delivered
    <3>2. k \in Int
      BY DEF FunType
    <3> QED BY <2>1, <3>1, <3>2
  <2> QED BY <2>1, <2>2, <2>3
<1>9. ErrorsHaveCause'
  <2>1. \A q \in Sides : pc[q] \in Dead => pc'[q] \in Dead
    BY <1>1, Pair DEF FunType, Dead, Gone
  <2> QED BY <1>0, <1>1, <2>1, ErrorsFrame
<1>10. Lockstep'
  BY <1>0, <1>1, <1>2 DEF Lockstep
<1>11. RoomLeft'
  BY <1>0, <1>1, <1>2, Pair DEF RoomLeft, Early, FunType
<1>12. Losses'
  <2>1. pc'[p] = "failed" /\ pc'[Peer(p)] = pc[Peer(p)] /\ pc[Peer(p)] # "failed"
    BY <1>1, <1>2, Pair DEF FunType, Gone
  <2>2. \A q \in Sides : pc'[q] = "failed" => q = p
    BY <2>1, Pair
  <2>3. pc'[Client] = "full" => pc[Client] = "full"
    BY <2>1, Pair
  <2>4. \A q \in Sides : pc'[q] \in {"next", "listening", "refused"} => pc'[q] = pc[q]
    BY <2>1, Pair
  <2> QED BY <1>0, <1>1, <1>2, <2>1, <2>2, <2>3, <2>4 DEF Losses
<1> QED BY <1>3, <1>4, <1>5, <1>6, <1>7, <1>8, <1>9, <1>10, <1>11, <1>12 DEF RdmaInv

(* A side that is done destroys its queue pair.                               *)
LEMMA LeaveKeeps ==
  ASSUME FunType, CountType, RdmaInv, ~OnTcp, NEW p \in Sides, Leave(p)
  PROVE  FunType' /\ CountType' /\ RdmaInv'
<1>0. /\ Rounds /\ Places /\ LiveExact /\ Receives /\ Delivered /\ ErrorsHaveCause
      /\ Lockstep /\ RoomLeft /\ Losses
  BY DEF RdmaInv
<1>1. /\ pc[p] = "done" /\ pc' = [pc EXCEPT ![p] = IF prog = "compare" THEN "next" ELSE "left"]
      /\ live' = [live EXCEPT ![p] = FALSE]
      /\ UNCHANGED <<it, rq, cq, sent, placed, acked, prog, depth>> /\ prepost' = prepost
  BY DEF Leave, Goto, prepost
<1>3. FunType' /\ CountType'
  BY <1>0, <1>1, Pair DEF FunType, CountType, PCs
<1>4. Rounds'
  BY <1>0, <1>1, Pair DEF Rounds, Posted, Early, Loop, Over, FunType
<1>5. Places'
  BY <1>0, <1>1, Pair DEF Places, FunType
<1>6. LiveExact'
  BY <1>0, <1>1, Pair DEF LiveExact, Places, Loop, FunType
<1>7. Receives'
  BY <1>0, <1>1, Pair DEF Receives, Limit, Armed, Early, Loop, FunType
<1>8. Delivered'
  BY <1>0, <1>1, Pair, DeliveredFrame DEF Polled, FunType
<1>9. ErrorsHaveCause'
  <2>1. \A q \in Sides : pc[q] \in Dead => pc'[q] \in Dead
    BY <1>1, Pair DEF FunType, Dead, Gone
  <2> QED BY <1>0, <1>1, <2>1, ErrorsFrame
<1>10. Lockstep'
  BY <1>0, <1>1 DEF Lockstep
<1>11. RoomLeft'
  BY <1>0, <1>1, Pair DEF RoomLeft, Early, FunType
<1>12. Losses'
  BY <1>0, <1>1, Pair DEF Losses, Gone, FunType
<1> QED BY <1>3, <1>4, <1>5, <1>6, <1>7, <1>8, <1>9, <1>10, <1>11, <1>12 DEF RdmaInv

(* backend_compare's server listens again.                                    *)
LEMMA ListenNextKeeps ==
  ASSUME FunType, CountType, RdmaInv, ~OnTcp, ListenNext
  PROVE  FunType' /\ CountType' /\ RdmaInv'
<1>0. /\ Rounds /\ Places /\ LiveExact /\ Receives /\ Delivered /\ ErrorsHaveCause
      /\ Lockstep /\ RoomLeft /\ Losses
  BY DEF RdmaInv
<1>1. /\ pc[Server] = "next" /\ pc' = [pc EXCEPT ![Server] = "listening"]
      /\ UNCHANGED <<it, rq, cq, sent, placed, acked, live, prog, depth>> /\ prepost' = prepost
  BY DEF ListenNext, Goto, prepost
<1>3. FunType' /\ CountType'
  BY <1>0, <1>1, Pair DEF FunType, CountType, PCs
<1>4. Rounds'
  BY <1>0, <1>1, Pair DEF Rounds, Posted, Early, Loop, Over, FunType
<1>5. Places'
  BY <1>0, <1>1, Pair DEF Places, FunType
<1>6. LiveExact'
  BY <1>0, <1>1, Pair DEF LiveExact, Places, Loop, FunType
<1>7. Receives'
  BY <1>0, <1>1, Pair DEF Receives, Limit, Armed, Early, Loop, FunType
<1>8. Delivered'
  BY <1>0, <1>1, Pair, DeliveredFrame DEF Polled, FunType
<1>9. ErrorsHaveCause'
  <2>1. \A q \in Sides : pc[q] \in Dead => pc'[q] \in Dead
    BY <1>1, Pair DEF FunType, Dead, Gone
  <2> QED BY <1>0, <1>1, <2>1, ErrorsFrame
<1>10. Lockstep'
  BY <1>0, <1>1 DEF Lockstep
<1>11. RoomLeft'
  BY <1>0, <1>1, Pair DEF RoomLeft, Early, FunType
<1>12. Losses'
  BY <1>0, <1>1, Pair DEF Losses, Gone, FunType
<1> QED BY <1>3, <1>4, <1>5, <1>6, <1>7, <1>8, <1>9, <1>10, <1>11, <1>12 DEF RdmaInv

(* Its client connects to the second test or is refused.                      *)
LEMMA ConnectNextKeeps ==
  ASSUME FunType, CountType, RdmaInv, ~OnTcp, ConnectNext
  PROVE  FunType' /\ CountType' /\ RdmaInv'
<1>0. /\ Rounds /\ Places /\ LiveExact /\ Receives /\ Delivered /\ ErrorsHaveCause
      /\ Lockstep /\ RoomLeft /\ Losses
  BY DEF RdmaInv
<1>1. /\ pc[Client] = "next"
      /\ \/ pc[Server] = "listening" /\ pc' = [p \in Sides |-> "left"]
         \/ pc[Server] # "listening" /\ pc' = [pc EXCEPT ![Client] = "refused"]
      /\ UNCHANGED <<it, rq, cq, sent, placed, acked, live, prog, depth>> /\ prepost' = prepost
  BY DEF ConnectNext, prepost
<1>2. /\ pc'[Client] \in {"left", "refused"} /\ pc' \in [Sides -> PCs]
      /\ pc'[Server] = pc[Server] \/ (pc[Server] = "listening" /\ pc'[Server] = "left")
      /\ prog = "compare"
  BY <1>0, <1>1, Pair DEF FunType, PCs, Losses
<1>3. FunType' /\ CountType'
  BY <1>0, <1>1, <1>2, Pair DEF FunType, CountType, PCs
<1>4. Rounds'
  <2> SUFFICES ASSUME NEW p \in Sides
               PROVE  /\ pc'[p] \in Early => it[p] = 0
                      /\ pc'[p] \in Loop => it[p] < Total
                      /\ pc'[p] \in Over => it[p] = Total
                      /\ pc'[p] # "failed" => sent[p] = Posted(p)'
    BY <1>1 DEF Rounds
  <2>2. /\ pc[p] \in Early => it[p] = 0
        /\ pc[p] \in Loop => it[p] < Total
        /\ pc[p] \in Over => it[p] = Total
        /\ pc[p] # "failed" => sent[p] = Posted(p)
    BY <1>0 DEF Rounds
  <2>3. CASE pc'[p] = pc[p]
    BY <1>1, <2>2, <2>3 DEF Posted
  <2>4. CASE pc[p] \in {"next", "listening"} /\ pc'[p] \in {"left", "refused"}
    BY <1>1, <2>2, <2>4 DEF Posted, Early, Loop, Over
  <2>5. CASE p = Client
    BY <1>1, <1>2, <2>4, <2>5
  <2>6. CASE p = Server
    BY <1>2, <2>3, <2>4, <2>6
  <2> QED BY <2>5, <2>6, Pair
<1>5. Places'
  BY <1>0, <1>1, <1>2, Pair DEF Places, FunType
<1>6. LiveExact'
  BY <1>0, <1>1, <1>2, Pair DEF LiveExact, Places, Loop, FunType
<1>7. Receives'
  BY <1>0, <1>1, <1>2, Pair DEF Receives, Limit, Armed, Early, Loop, FunType
<1>8. Delivered'
  BY <1>0, <1>1, <1>2, Pair, DeliveredFrame DEF Polled, FunType
<1>9. ErrorsHaveCause'
  <2>1. \A q \in Sides : pc[q] \in Dead => pc'[q] \in Dead
    BY <1>2, Pair DEF Dead, Gone
  <2> QED BY <1>0, <1>1, <2>1, ErrorsFrame
<1>10. Lockstep'
  BY <1>0, <1>1, <1>2 DEF Lockstep
<1>11. RoomLeft'
  BY <1>0, <1>1, <1>2, Pair DEF RoomLeft, Early, FunType
<1>12. Losses'
  BY <1>0, <1>1, <1>2, Pair DEF Losses, Gone, FunType
<1> QED BY <1>3, <1>4, <1>5, <1>6, <1>7, <1>8, <1>9, <1>10, <1>11, <1>12 DEF RdmaInv

-----------------------------------------------------------------------------
(* The steps, on RDMA: the NICs.                                              *)

(* Between two live queue pairs no error has been reported, so that every     *)
(* completion, polled or not, is a message placed or acknowledged.            *)
LEMMA AllAccounted ==
  ASSUME FunType, CountType, RdmaInv, NEW q \in Sides, live[q], live[Peer(q)]
  PROVE  /\ \A r \in Sides : pc[r] \notin Dead
         /\ \A k \in 1..Len(cq[q]) : cq[q][k] # "error"
         /\ Polled(q) + Len(cq[q]) <= placed[Peer(q)] + acked[q]
<1>1. pc[Client] \notin Dead /\ pc[Server] \notin Dead
  BY Pair DEF RdmaInv, LiveExact, Loop, Dead, Gone
<1>2. \A k \in 1..Len(cq[q]) : cq[q][k] # "error"
  BY <1>1, Pair DEF RdmaInv, ErrorsHaveCause
<1>3. Len(cq[q]) \in Nat
  BY DEF FunType
<1>4. /\ Polled(q) <= placed[Peer(q)] + acked[q]
      /\ \A k \in 1..Len(cq[q]) :
           cq[q][k] # "error" => Polled(q) + k <= placed[Peer(q)] + acked[q]
  BY DEF RdmaInv, Delivered
<1>5. Polled(q) \in Nat
  BY CountsAreNat
<1>6. Polled(q) + Len(cq[q]) <= placed[Peer(q)] + acked[q]
  <2>1. CASE Len(cq[q]) = 0
    <3>1. Polled(q) + Len(cq[q]) = Polled(q)
      BY <1>5, <2>1
    <3> QED BY <1>4, <3>1
  <2>2. CASE Len(cq[q]) # 0
    <3>1. Len(cq[q]) \in 1..Len(cq[q])
      BY <1>3, <2>2
    <3> QED BY <1>2, <1>4, <3>1
  <2> QED BY <2>1, <2>2
<1> QED BY <1>1, <1>2, <1>6, Pair

(* A delivery adds one completion and one to the account.                     *)
LEMMA DeliverAccount ==
  ASSUME FunType, CountType, RdmaInv, NEW q \in Sides, live[q], live[Peer(q)],
         NEW e \in {"recv", "send"}, cq' = [cq EXCEPT ![q] = Append(cq[q], e)],
         UNCHANGED <<pc, it>>,
         placed'[Peer(q)] + acked'[q] = placed[Peer(q)] + acked[q] + 1,
         placed'[q] = placed[q], acked'[Peer(q)] = acked[Peer(q)]
  PROVE  Delivered'
<1>1. Polled(q)' = Polled(q) /\ Polled(Peer(q))' = Polled(Peer(q))
  BY DEF Polled
<1>2. Polled(q) \in Nat /\ placed[Peer(q)] \in Nat /\ acked[q] \in Nat /\ Len(cq[q]) \in Nat
  <2>1. Polled(q) \in Nat
    BY CountsAreNat
  <2>2. placed[Peer(q)] \in Nat /\ acked[q] \in Nat /\ Len(cq[q]) \in Nat
    BY Pair DEF FunType, CountType
  <2> QED BY <2>1, <2>2
<1>3. Polled(q) + Len(cq[q]) <= placed[Peer(q)] + acked[q]
  BY AllAccounted
<1>4. cq'[q] = Append(cq[q], e) /\ cq'[Peer(q)] = cq[Peer(q)]
  BY Pair DEF FunType
<1>5. Len(cq'[q]) = Len(cq[q]) + 1
  BY <1>4 DEF FunType
<1>6. ASSUME NEW k \in 1..Len(cq'[q])
      PROVE  Polled(q) + k <= placed[Peer(q)] + acked[q] + 1
  BY <1>2, <1>3, <1>5
<1>7. Polled(q) <= placed[Peer(q)] + acked[q] + 1
  BY <1>2, <1>3
<1>8. /\ Polled(q)' <= placed'[Peer(q)] + acked'[q]
      /\ \A k \in 1..Len(cq'[q]) : Polled(q)' + k <= placed'[Peer(q)] + acked'[q]
  BY <1>1, <1>6, <1>7
<1>9. /\ Polled(Peer(q))' <= placed'[q] + acked'[Peer(q)]
      /\ \A k \in 1..Len(cq'[Peer(q)]) : cq'[Peer(q)][k] # "error"
           => Polled(Peer(q))' + k <= placed'[q] + acked'[Peer(q)]
  BY <1>1, <1>4, Pair DEF RdmaInv, Delivered
<1>10. ASSUME NEW r \in Sides
       PROVE  /\ Polled(r)' <= placed'[Peer(r)] + acked'[r]
              /\ \A k \in 1..Len(cq'[r]) :
                   cq'[r][k] # "error" => Polled(r)' + k <= placed'[Peer(r)] + acked'[r]
  <2>1. CASE r = q
    BY <1>8, <2>1
  <2>2. CASE r = Peer(q)
    BY <1>9, <2>2, Pair
  <2> QED BY <2>1, <2>2, Pair
<1> QED BY <1>10 DEF Delivered

(* And reports no error.                                                      *)
LEMMA DeliverErrors ==
  ASSUME FunType, CountType, RdmaInv, NEW q \in Sides, live[q], live[Peer(q)],
         NEW e \in {"recv", "send"}, cq' = [cq EXCEPT ![q] = Append(cq[q], e)]
  PROVE  ErrorsHaveCause'
<1>1. \A k \in 1..Len(cq[q]) : cq[q][k] # "error"
  BY AllAccounted
<1>2. \A k \in 1..Len(cq[Peer(q)]) : cq[Peer(q)][k] # "error"
  BY AllAccounted, Pair
<1>3. cq'[q] = Append(cq[q], e) /\ cq'[Peer(q)] = cq[Peer(q)] /\ e # "error"
  BY Pair DEF FunType
<1>4. \A k \in 1..Len(cq'[q]) : cq'[q][k] # "error"
  <2>1. cq[q] \in Seq({"recv", "send", "error"}) /\ Len(cq[q]) \in Nat
    BY DEF FunType
  <2> SUFFICES ASSUME NEW k \in 1..Len(cq'[q]) PROVE cq'[q][k] # "error"
    OBVIOUS
  <2>2. Len(cq'[q]) = Len(cq[q]) + 1
    BY <1>3, <2>1
  <2>3. CASE k = Len(cq[q]) + 1
    BY <1>3, <2>1, <2>3
  <2>4. CASE k \in 1..Len(cq[q])
    BY <1>1, <1>3, <2>1, <2>4
  <2> QED BY <2>1, <2>2, <2>3, <2>4
<1>5. \A r \in Sides : \A k \in 1..Len(cq'[r]) : cq'[r][k] # "error"
  <2>1. \A r \in Sides : r = q \/ r = Peer(q)
    BY Pair
  <2>2. \A k \in 1..Len(cq'[Peer(q)]) : cq'[Peer(q)][k] # "error"
    BY <1>2, <1>3
  <2> QED BY <1>4, <2>1, <2>2
<1> QED BY <1>5 DEF ErrorsHaveCause

(* A message is placed in a receive of the peer.                              *)
LEMMA PlaceKeeps ==
  ASSUME FunType, CountType, RdmaInv, ~OnTcp, NEW p \in Sides, Place(p)
  PROVE  FunType' /\ CountType' /\ RdmaInv'
<1> DEFINE q == Peer(p)
<1>0. /\ Rounds /\ Places /\ LiveExact /\ Receives /\ Delivered /\ ErrorsHaveCause
      /\ Lockstep /\ RoomLeft /\ Losses
  BY DEF RdmaInv
<1>1. /\ sent[p] > placed[p] /\ live[p] /\ live[q] /\ rq[q] > 0
      /\ placed' = [placed EXCEPT ![p] = placed[p] + 1]
      /\ rq' = [rq EXCEPT ![q] = rq[q] - 1]
      /\ cq' = [cq EXCEPT ![q] = Append(cq[q], "recv")]
      /\ UNCHANGED <<pc, it, sent, acked, live, prog, depth>> /\ prepost' = prepost
  BY DEF Place, prepost
<1>2. /\ q \in Sides /\ Peer(q) = p /\ q # p
      /\ placed[p] \in Nat /\ rq[q] \in Nat /\ placed'[p] = placed[p] + 1
      /\ rq'[q] = rq[q] - 1 /\ rq'[p] = rq[p] /\ placed'[q] = placed[q]
  BY <1>1, Pair DEF FunType, CountType
<1>3. FunType'
  <2>1. Append(cq[q], "recv") \in Seq({"recv", "send", "error"})
    BY <1>2 DEF FunType
  <2>2. rq[q] - 1 \in Nat
    BY <1>1, <1>2
  <2> QED BY <1>1, <1>2, <2>1, <2>2 DEF FunType
<1>4. CountType'
  <2>1. placed' \in [Sides -> Nat]
    BY <1>1, <1>2 DEF CountType
  <2>2. \A r \in Sides : it[r] <= Total /\ rq'[r] <= Room
    <3>1. Room \in Nat
      BY PrepostFits
    <3>2. rq[q] <= Room /\ rq[p] <= Room /\ \A r \in Sides : it[r] <= Total
      BY <1>2 DEF CountType
    <3>3. rq[q] - 1 <= Room
      BY <1>2, <3>1, <3>2
    <3> QED BY <1>2, <3>2, <3>3, Pair
  <2>3. \A r \in Sides : acked[r] <= placed'[r] /\ placed'[r] <= sent[r] /\ sent[r] <= Total
    <3> SUFFICES ASSUME NEW r \in Sides
                 PROVE  acked[r] <= placed'[r] /\ placed'[r] <= sent[r] /\ sent[r] <= Total
      OBVIOUS
    <3>1. /\ acked[r] <= placed[r] /\ placed[r] <= sent[r] /\ sent[r] <= Total
          /\ acked[r] \in Nat /\ placed[r] \in Nat /\ sent[r] \in Nat
      BY DEF CountType
    <3>2. CASE r = p
      BY <1>1, <1>2, <3>1, <3>2
    <3>3. CASE r = q
      BY <1>2, <3>1, <3>3
    <3> QED BY <1>2, <3>2, <3>3, Pair
  <2> QED BY <1>1, <2>1, <2>2, <2>3 DEF CountType
<1>5. Rounds' /\ Places' /\ LiveExact' /\ RoomLeft'
  BY <1>0, <1>1 DEF Rounds, Posted, Places, LiveExact, RoomLeft
<1>6. Receives'
  <2>1. Limit(Client)' = Limit(Client) /\ Limit(Server)' = Limit(Server)
    BY <1>1 DEF Limit, Armed
  <2>2. rq'[q] + placed'[p] = rq[q] + placed[p]
    BY <1>1, <1>2
  <2>3. rq[q] # 0
    BY <1>1, <1>2
  <2>4. CASE q = Client
    BY <1>0, <1>1, <1>2, <2>1, <2>2, <2>3, <2>4, Pair DEF Receives
  <2>5. CASE q = Server
    BY <1>0, <1>1, <1>2, <2>1, <2>2, <2>3, <2>5, Pair DEF Receives
  <2> QED BY <1>2, <2>4, <2>5, Pair
<1>7. Delivered'
  <2>1. placed'[p] + acked'[q] = placed[p] + acked[q] + 1
    BY <1>1, <1>2 DEF CountType
  <2> QED BY <1>1, <1>2, <2>1, DeliverAccount
<1>8. ErrorsHaveCause'
  BY <1>1, <1>2, DeliverErrors
<1>9. Lockstep'
  <2>1. /\ sent[Server] <= placed[Client] /\ sent[Client] <= placed[Server] + 1
        /\ placed[Client] \in Nat /\ placed[Server] \in Nat
        /\ sent[Client] \in Nat /\ sent[Server] \in Nat /\ sent' = sent
    BY <1>0, <1>1, Pair DEF Lockstep, CountType
  <2>2. /\ placed'[Client] = placed[Client] \/ placed'[Client] = placed[Client] + 1
        /\ placed'[Server] = placed[Server] \/ placed'[Server] = placed[Server] + 1
    BY <1>2, Pair
  <2> QED BY <2>1, <2>2 DEF Lockstep
<1>10. Losses'
  <2>1. \A r \in Sides : pc[r] \notin Dead
    BY <1>1, <1>2, AllAccounted
  <2> QED BY <1>1, <2>1, Pair DEF Losses, Dead, Gone
<1> QED BY <1>3, <1>4, <1>5, <1>6, <1>7, <1>8, <1>9, <1>10 DEF RdmaInv

(* And acknowledged.                                                          *)
LEMMA AckKeeps ==
  ASSUME FunType, CountType, RdmaInv, ~OnTcp, NEW p \in Sides, Ack(p)
  PROVE  FunType' /\ CountType' /\ RdmaInv'
<1>0. /\ Rounds /\ Places /\ LiveExact /\ Receives /\ Delivered /\ ErrorsHaveCause
      /\ Lockstep /\ RoomLeft /\ Losses
  BY DEF RdmaInv
<1>1. /\ placed[p] > acked[p] /\ live[p] /\ live[Peer(p)]
      /\ acked' = [acked EXCEPT ![p] = acked[p] + 1]
      /\ cq' = [cq EXCEPT ![p] = Append(cq[p], "send")]
      /\ UNCHANGED <<pc, it, rq, sent, placed, live, prog, depth>> /\ prepost' = prepost
  BY DEF Ack, prepost
<1>2. /\ acked[p] \in Nat /\ acked'[p] = acked[p] + 1 /\ acked'[Peer(p)] = acked[Peer(p)]
      /\ placed[p] \in Nat /\ placed[Peer(p)] \in Nat
  BY <1>1, Pair DEF CountType
<1>3. FunType'
  <2>1. Append(cq[p], "send") \in Seq({"recv", "send", "error"})
    BY DEF FunType
  <2> QED BY <1>1, <2>1 DEF FunType
<1>4. CountType'
  <2>1. acked' \in [Sides -> Nat]
    BY <1>1, <1>2 DEF CountType
  <2>2. \A r \in Sides : acked'[r] <= placed[r]
    BY <1>1, <1>2, Pair DEF CountType
  <2> QED BY <1>1, <2>1, <2>2 DEF CountType
<1>5. Rounds' /\ Places' /\ LiveExact' /\ RoomLeft' /\ Lockstep' /\ Losses'
  BY <1>0, <1>1 DEF Rounds, Posted, Places, LiveExact, RoomLeft, Lockstep, Losses
<1>6. Receives'
  BY <1>0, <1>1 DEF Receives, Limit, Armed
<1>7. Delivered'
  <2>1. placed'[Peer(p)] + acked'[p] = placed[Peer(p)] + acked[p] + 1
    BY <1>1, <1>2
  <2> QED BY <1>1, <1>2, <2>1, DeliverAccount
<1>8. ErrorsHaveCause'
  BY <1>1, DeliverErrors
<1> QED BY <1>3, <1>4, <1>5, <1>6, <1>7, <1>8 DEF RdmaInv

(* A message to a queue pair that is not live completes with an error: its    *)
(* peer is gone, for no message is sent to one that is not live yet.          *)
LEMMA NoAnswerKeeps ==
  ASSUME FunType, CountType, RdmaInv, ~OnTcp, NEW p \in Sides, NoAnswer(p)
  PROVE  FunType' /\ CountType' /\ RdmaInv'
<1>0. /\ Rounds /\ Places /\ LiveExact /\ Receives /\ Delivered /\ ErrorsHaveCause
      /\ Lockstep /\ RoomLeft /\ Losses
  BY DEF RdmaInv
<1>1. /\ sent[p] > acked[p] /\ ~live[Peer(p)]
      /\ cq' = [cq EXCEPT ![p] = Append(cq[p], "error")]
      /\ UNCHANGED <<pc, it, rq, sent, placed, acked, live, prog, depth>> /\ prepost' = prepost
  BY DEF NoAnswer, prepost
<1>2. pc[Client] \notin Early
  BY <1>1, QuietBefore
<1>3. pc[Peer(p)] \in Dead
  <2>1. pc[Client] \in PCs /\ pc[Server] \in PCs
    BY Pair DEF FunType
  <2>2. pc[Server] \notin {"meet", "setup", "accept"}
    BY <1>0, <1>2 DEF Places, Early
  <2>3. CASE Peer(p) = Client
    BY <1>0, <1>1, <1>2, <2>1, <2>3 DEF LiveExact, Places, PCs, Early, Loop, Dead, Gone
  <2>4. CASE Peer(p) = Server
    BY <1>0, <1>1, <2>1, <2>2, <2>4 DEF LiveExact, Places, PCs, Loop, Dead, Gone
  <2> QED BY <2>3, <2>4, Pair
<1>4. FunType'
  <2>1. Append(cq[p], "error") \in Seq({"recv", "send", "error"})
    BY DEF FunType
  <2> QED BY <1>1, <2>1 DEF FunType
<1>5. CountType' /\ Rounds' /\ Places' /\ LiveExact' /\ RoomLeft' /\ Lockstep' /\ Losses'
  BY <1>0, <1>1
  DEF CountType, Rounds, Posted, Places, LiveExact, RoomLeft, Lockstep, Losses
<1>6. Receives'
  BY <1>0, <1>1 DEF Receives, Limit, Armed
<1>7. /\ Len(cq'[p]) = Len(cq[p]) + 1 /\ Len(cq[p]) \in Nat /\ cq'[Peer(p)] = cq[Peer(p)]
      /\ cq'[p][Len(cq[p]) + 1] = "error" /\ \A k \in 1..Len(cq[p]) : cq'[p][k] = cq[p][k]
  <2>1. cq'[p] = Append(cq[p], "error") /\ cq'[Peer(p)] = cq[Peer(p)]
    BY <1>1, Pair DEF FunType
  <2>2. cq[p] \in Seq({"recv", "send", "error"})
    BY DEF FunType
  <2> QED BY <2>1, <2>2
<1>8. \A k \in 1..Len(cq'[p]) : k = Len(cq[p]) + 1 \/ k \in 1..Len(cq[p])
  BY <1>7
<1>9. Delivered'
  <2>1. Polled(p)' = Polled(p) /\ Polled(Peer(p))' = Polled(Peer(p))
    BY <1>1 DEF Polled
  <2>2. \A k \in 1..Len(cq'[p]) : cq'[p][k] # "error"
          => Polled(p)' + k <= placed'[Peer(p)] + acked'[p]
    BY <1>0, <1>1, <1>7, <1>8, <2>1 DEF Delivered
  <2>3. \A k \in 1..Len(cq'[Peer(p)]) : cq'[Peer(p)][k] # "error"
          => Polled(Peer(p))' + k <= placed'[p] + acked'[Peer(p)]
    BY <1>0, <1>1, <1>7, <2>1, Pair DEF Delivered
  <2>4. /\ Polled(p)' <= placed'[Peer(p)] + acked'[p]
        /\ Polled(Peer(p))' <= placed'[p] + acked'[Peer(p)]
    BY <1>0, <1>1, <2>1, Pair DEF Delivered
  <2>5. ASSUME NEW r \in Sides
        PROVE  /\ Polled(r)' <= placed'[Peer(r)] + acked'[r]
               /\ \A k \in 1..Len(cq'[r]) :
                    cq'[r][k] # "error" => Polled(r)' + k <= placed'[Peer(r)] + acked'[r]
    <3>1. CASE r = p
      BY <2>2, <2>4, <3>1
    <3>2. CASE r = Peer(p)
      BY <2>3, <2>4, <3>2, Pair
    <3> QED BY <3>1, <3>2, Pair
  <2> QED BY <2>5 DEF Delivered
<1>10. ErrorsHaveCause'
  <2>1. ASSUME NEW r \in Sides, NEW k \in 1..Len(cq'[r]), cq'[r][k] = "error"
        PROVE  pc[Peer(r)] \in Dead /\ acked[r] < sent[r]
    <3>1. CASE r = p
      BY <1>1, <1>3, <3>1 DEF CountType
    <3>2. CASE r = Peer(p)
      BY <1>0, <1>7, <2>1, <3>2 DEF ErrorsHaveCause
    <3> QED BY <3>1, <3>2, Pair
  <2> QED BY <1>1, <2>1 DEF ErrorsHaveCause
<1> QED BY <1>4, <1>5, <1>6, <1>9, <1>10 DEF RdmaInv

-----------------------------------------------------------------------------
(* The steps, on TCP.                                                          *)

(* The connection stands.                                                      *)
LEMMA MeetTcp ==
  ASSUME FunType, CountType, TcpInv, OnTcp, Meet
  PROVE  FunType' /\ CountType' /\ TcpInv'
<1>1. /\ pc[Client] = "meet" /\ pc[Server] = "meet"
      /\ pc' = [pc EXCEPT ![Server] = "recv", ![Client] = "send"]
      /\ UNCHANGED <<it, rq, cq, sent, placed, acked, live, prog, depth>>
  BY Pair DEF Meet
<1>2. it[Client] = 0 /\ it[Server] = 0 /\ Total \in Nat /\ 0 < Total
  <2>1. Total \in Nat /\ 0 < Total
    BY PrepostFits
  <2> QED BY <1>1, <2>1, Pair DEF TcpInv
<1>3. FunType' /\ CountType'
  BY <1>1, Pair DEF FunType, CountType, PCs
<1>4. TcpInv'
  BY <1>1, <1>2, Pair DEF TcpInv, FunType
<1> QED BY <1>3, <1>4

(* send() returns when the message is in the socket.                           *)
LEMMA TcpSendKeeps ==
  ASSUME FunType, CountType, TcpInv, NEW p \in Sides, TcpSend(p)
  PROVE  FunType' /\ CountType' /\ TcpInv'
<1>1. /\ pc[p] = "send" /\ sent' = [sent EXCEPT ![p] = sent[p] + 1]
      /\ UNCHANGED <<rq, cq, placed, acked, live, prog, depth>>
  BY DEF TcpSend
<1>2. /\ it[p] \in Nat /\ it[p] < Total /\ Total \in Nat /\ sent[p] = it[p]
      /\ sent'[p] = it[p] + 1 /\ sent'[Peer(p)] = sent[Peer(p)]
  <2>1. Total \in Nat
    BY PrepostFits
  <2>2. it[p] \in Nat /\ it[p] < Total /\ sent[p] = it[p]
    BY <1>1 DEF TcpInv, FunType
  <2>3. sent'[p] = sent[p] + 1 /\ sent'[Peer(p)] = sent[Peer(p)]
    BY <1>1, Pair DEF CountType
  <2> QED BY <2>1, <2>2, <2>3
<1>3. \/ /\ p = Client /\ pc' = [pc EXCEPT ![p] = "recv"] /\ it' = it
      \/ /\ p = Server /\ it' = [it EXCEPT ![p] = it[p] + 1]
         /\ pc' = [pc EXCEPT ![p] = IF it[p] + 1 = Total THEN "done" ELSE "recv"]
  BY Pair DEF TcpSend, EndRound, Goto
<1>4. FunType'
  <2>1. it[p] + 1 \in Nat
    BY <1>2
  <2>2. pc' \in [Sides -> PCs] /\ it' \in [Sides -> Nat]
    BY <1>3, <2>1 DEF FunType, PCs
  <2> QED BY <1>1, <2>2 DEF FunType
<1>5. CountType'
  <2>1. sent' \in [Sides -> Nat]
    BY <1>1, <1>2 DEF CountType
  <2>2. \A q \in Sides : placed[q] <= sent'[q] /\ sent'[q] <= Total
    <3> SUFFICES ASSUME NEW q \in Sides PROVE placed[q] <= sent'[q] /\ sent'[q] <= Total
      OBVIOUS
    <3>1. placed[q] <= sent[q] /\ sent[q] <= Total /\ placed[q] \in Nat /\ sent[q] \in Nat
      BY DEF CountType
    <3>2. CASE q = p
      BY <1>2, <3>1, <3>2 DEF CountType
    <3>3. CASE q # p
      BY <1>1, <1>2, <3>1, <3>3, Pair DEF CountType
    <3> QED BY <3>2, <3>3
  <2>3. \A q \in Sides : it'[q] <= Total
    <3>1. it[p] + 1 <= Total /\ \A q \in Sides : it[q] <= Total
      BY <1>2 DEF CountType
    <3>2. \A q \in Sides : it'[q] = it[q] \/ it'[q] = it[p] + 1
      BY <1>3 DEF FunType
    <3> QED BY <3>1, <3>2
  <2> QED BY <1>1, <2>1, <2>2, <2>3 DEF CountType
<1>6. TcpInv'
  <2>1. CASE p = Client
    <3>1. pc'[Client] = "recv" /\ pc'[Server] = pc[Server] /\ it' = it
      BY <1>3, <2>1, Pair DEF FunType
    <3> QED BY <1>1, <1>2, <2>1, <3>1, Pair DEF TcpInv
  <2>2. CASE p = Server
    <3>1. /\ pc'[Server] = IF it[p] + 1 = Total THEN "done" ELSE "recv"
          /\ pc'[Client] = pc[Client] /\ it'[Server] = it[p] + 1 /\ it'[Client] = it[Client]
      BY <1>3, <2>2, Pair DEF FunType
    <3>2. placed[Client] = it[p] + 1
      BY <1>1, <2>2, Pair DEF TcpInv
    <3> QED BY <1>1, <1>2, <2>2, <3>1, <3>2, Pair DEF TcpInv
  <2> QED BY <2>1, <2>2, Pair
<1> QED BY <1>4, <1>5, <1>6

(* recv() returns when a message of the peer is there.                         *)
LEMMA TcpRecvKeeps ==
  ASSUME FunType, CountType, TcpInv, NEW p \in Sides, TcpRecv(p)
  PROVE  FunType' /\ CountType' /\ TcpInv'
<1> DEFINE q == Peer(p)
<1>1. /\ pc[p] = "recv" /\ sent[q] > placed[q]
      /\ placed' = [placed EXCEPT ![q] = placed[q] + 1]
      /\ UNCHANGED <<rq, cq, sent, acked, live, prog, depth>>
  BY DEF TcpRecv
<1>2. /\ it[p] \in Nat /\ it[p] < Total /\ Total \in Nat /\ placed[q] = it[p]
      /\ placed'[q] = it[p] + 1 /\ placed'[p] = placed[p] /\ q \in Sides
  <2>1. Total \in Nat
    BY PrepostFits
  <2>2. it[p] \in Nat /\ it[p] < Total /\ placed[q] = it[p] /\ q \in Sides
    BY <1>1, Pair DEF TcpInv, FunType
  <2>3. placed'[q] = placed[q] + 1 /\ placed'[p] = placed[p]
    BY <1>1, Pair DEF CountType
  <2> QED BY <2>1, <2>2, <2>3
<1>3. \/ /\ p = Server /\ pc' = [pc EXCEPT ![p] = "send"] /\ it' = it
      \/ /\ p = Client /\ it' = [it EXCEPT ![p] = it[p] + 1]
         /\ pc' = [pc EXCEPT ![p] = IF it[p] + 1 = Total THEN "done" ELSE "send"]
  BY Pair DEF TcpRecv, EndRound, Goto
<1>4. FunType'
  <2>1. it[p] + 1 \in Nat
    BY <1>2
  <2>2. pc' \in [Sides -> PCs] /\ it' \in [Sides -> Nat]
    BY <1>3, <2>1 DEF FunType, PCs
  <2> QED BY <1>1, <2>2 DEF FunType
<1>5. CountType'
  <2>1. placed' \in [Sides -> Nat]
    BY <1>1, <1>2 DEF CountType
  <2>2. \A r \in Sides : acked[r] <= placed'[r] /\ placed'[r] <= sent[r]
    BY <1>1, <1>2, Pair DEF CountType
  <2>3. \A r \in Sides : it'[r] <= Total
    <3>1. it[p] + 1 <= Total /\ \A r \in Sides : it[r] <= Total
      BY <1>2 DEF CountType
    <3>2. \A r \in Sides : it'[r] = it[r] \/ it'[r] = it[p] + 1
      BY <1>3 DEF FunType
    <3> QED BY <3>1, <3>2
  <2> QED BY <1>1, <2>1, <2>2, <2>3 DEF CountType
<1>6. TcpInv'
  <2>1. CASE p = Server
    <3>1. pc'[Server] = "send" /\ pc'[Client] = pc[Client] /\ it' = it
      BY <1>3, <2>1, Pair DEF FunType
    <3> QED BY <1>1, <1>2, <2>1, <3>1, Pair DEF TcpInv
  <2>2. CASE p = Client
    <3>1. /\ pc'[Client] = IF it[p] + 1 = Total THEN "done" ELSE "send"
          /\ pc'[Server] = pc[Server] /\ it'[Client] = it[p] + 1 /\ it'[Server] = it[Server]
      BY <1>3, <2>2, Pair DEF FunType
    <3>2. sent[Client] = it[p] + 1
      BY <1>1, <2>2, Pair DEF TcpInv
    <3> QED BY <1>1, <1>2, <2>2, <3>1, <3>2, Pair DEF TcpInv
  <2> QED BY <2>1, <2>2, Pair
<1> QED BY <1>4, <1>5, <1>6

(* ~Transport closes the socket.                                               *)
LEMMA TcpLeaveKeeps ==
  ASSUME FunType, CountType, TcpInv, OnTcp, NEW p \in Sides, Leave(p)
  PROVE  FunType' /\ CountType' /\ TcpInv'
<1>1. /\ pc[p] = "done" /\ pc' = [pc EXCEPT ![p] = "left"]
      /\ live' = [live EXCEPT ![p] = FALSE]
      /\ UNCHANGED <<it, rq, cq, sent, placed, acked, prog, depth>>
  BY DEF Leave, Goto, OnTcp
<1>2. FunType' /\ CountType'
  BY <1>1 DEF FunType, CountType, PCs
<1>3. \A q \in Sides : pc'[q] = (IF q = p THEN "left" ELSE pc[q]) /\ ~live'[q]
  BY <1>1 DEF FunType, TcpInv
<1>4. TcpInv'
  BY <1>1, <1>3, Pair DEF TcpInv
<1> QED BY <1>2, <1>4

-----------------------------------------------------------------------------
(* The invariant is inductive.                                                 *)

(* Every step of a program on RDMA.                                            *)
LEMMA RdmaNext ==
  ASSUME FunType, CountType, DepthFits, RdmaInv, ~OnTcp, [Next]_vars
  PROVE  FunType' /\ CountType' /\ RdmaInv'
<1>1. CASE Startup
  BY <1>1, MeetKeeps, ServerPrepostKeeps, ServerAcceptKeeps, ServerEstablishedKeeps,
     ClientConnectedKeeps, StartBarrierKeeps, ClientPrepostKeeps DEF Startup
<1>2. CASE Second
  BY <1>2, ListenNextKeeps, ConnectNextKeeps DEF Second
<1>3. ASSUME NEW p \in Sides, Thread(p)
      PROVE  FunType' /\ CountType' /\ RdmaInv'
  <2>1. CASE Repost(p)
    BY <2>1, Pair, RepostClientKeeps, RepostServerKeeps, RepostFullKeeps
  <2>2. ~TcpSend(p)
    BY DEF TcpSend
  <2>3. ~TcpRecv(p)
    BY Pair DEF TcpRecv, RdmaInv, Places
  <2> QED BY <1>3, <2>1, <2>2, <2>3, SendKeeps, Poll1Keeps, Poll2Keeps, PollErrorKeeps,
             LeaveKeeps DEF Thread
<1>4. ASSUME NEW p \in Sides, Nic(p)
      PROVE  FunType' /\ CountType' /\ RdmaInv'
  BY <1>4, PlaceKeeps, AckKeeps, NoAnswerKeeps DEF Nic
<1>5. CASE UNCHANGED vars
  <2>1. /\ pc' = pc /\ it' = it /\ rq' = rq /\ cq' = cq /\ sent' = sent /\ placed' = placed
        /\ acked' = acked /\ live' = live /\ prog' = prog /\ depth' = depth
    BY <1>5 DEF vars
  <2>2. FunType' /\ CountType'
    BY <2>1 DEF FunType, CountType
  <2>3. Rounds' /\ Places' /\ LiveExact' /\ Receives'
    BY <2>1 DEF RdmaInv, Rounds, Posted, Places, LiveExact, Receives, Limit, Armed, prepost
  <2>4. Delivered' /\ ErrorsHaveCause'
    BY <2>1 DEF RdmaInv, Delivered, Polled, ErrorsHaveCause
  <2>5. Lockstep' /\ RoomLeft' /\ Losses'
    BY <2>1 DEF RdmaInv, Lockstep, RoomLeft, Losses
  <2> QED BY <2>2, <2>3, <2>4, <2>5 DEF RdmaInv
<1> QED BY <1>1, <1>2, <1>3, <1>4, <1>5 DEF Next, Finished

(* And of one on TCP, where nothing else is enabled.                           *)
LEMMA TcpNext ==
  ASSUME FunType, CountType, TcpInv, OnTcp, [Next]_vars
  PROVE  FunType' /\ CountType' /\ TcpInv'
<1>0. /\ \A p \in Sides : pc[p] \in {"meet", "send", "recv", "done", "left"}
      /\ \A p \in Sides : sent[p] > acked[p] => ~live[p]
      /\ \A p \in Sides : placed[p] > acked[p] => ~live[p]
      /\ \A p \in Sides : ~live[p]
  BY DEF TcpInv
<1>1. CASE Startup
  <2>1. Meet
    BY <1>0, <1>1, Pair
    DEF Startup, ServerPrepost, ServerAccept, ServerEstablished, ClientConnected, StartBarrier,
        ClientPrepost
  <2> QED BY <2>1, MeetTcp
<1>2. ~Second
  BY <1>0, Pair DEF Second, ListenNext, ConnectNext
<1>3. ASSUME NEW p \in Sides, Thread(p)
      PROVE  FunType' /\ CountType' /\ TcpInv'
  <2>1. TcpSend(p) \/ TcpRecv(p) \/ Leave(p)
    BY <1>0, <1>3 DEF Thread, Repost, Send, Poll1, Poll2, PollError
  <2> QED BY <2>1, TcpSendKeeps, TcpRecvKeeps, TcpLeaveKeeps
<1>4. \A p \in Sides : ~Nic(p)
  BY <1>0 DEF Nic, Place, Ack, NoAnswer
<1>5. CASE UNCHANGED vars
  BY <1>5 DEF vars, FunType, CountType, TcpInv
<1> QED BY <1>1, <1>2, <1>3, <1>4, <1>5 DEF Next, Finished

(* No step changes the program or its depth.                                   *)
LEMMA Fixed ==
  ASSUME [Next]_vars
  PROVE  prog' = prog /\ depth' = depth
<1>1. CASE Startup
  BY <1>1 DEF Startup, Meet, ServerPrepost, ServerAccept, ServerEstablished, ClientConnected,
              StartBarrier, ClientPrepost
<1>2. CASE Second
  BY <1>2 DEF Second, ListenNext, ConnectNext
<1>3. ASSUME NEW p \in Sides, Thread(p) \/ Nic(p)
      PROVE  prog' = prog /\ depth' = depth
  BY <1>3 DEF Thread, Nic, Repost, Send, Poll1, Poll2, PollError, Leave, TcpSend, TcpRecv,
              Place, Ack, NoAnswer
<1> QED BY <1>1, <1>2, <1>3 DEF Next, Finished, vars

(* Every reachable state satisfies IInv.                                       *)
LEMMA Invariance == Spec => []IInv
<1>1. IInv /\ [Next]_vars => IInv'
  <2> SUFFICES ASSUME IInv, [Next]_vars PROVE IInv'
    OBVIOUS
  <2>1. (OnTcp' <=> OnTcp) /\ DepthFits'
    BY Fixed DEF OnTcp, DepthFits, IInv
  <2>2. CASE OnTcp
    BY <2>1, <2>2, TcpNext DEF IInv
  <2>3. CASE ~OnTcp
    BY <2>1, <2>3, RdmaNext DEF IInv
  <2> QED BY <2>2, <2>3
<1> QED BY InitInv, <1>1, PTL DEF Spec

-----------------------------------------------------------------------------
(* The theorems.                                                               *)

(* Every variable keeps its type: no counter of messages runs past the number *)
(* of rounds, and no side ever has more receives posted than its queue takes. *)
THEOREM TypeCorrect == Spec => []TypeOK
<1>1. IInv => TypeOK
  <2> SUFFICES ASSUME IInv PROVE TypeOK
    OBVIOUS
  <2>1. FunType /\ CountType /\ Total \in Nat /\ Room \in Nat
    BY PrepostFits DEF IInv
  <2>2. it \in [Sides -> 0..Total] /\ rq \in [Sides -> 0..Room]
    BY <2>1 DEF FunType, CountType
  <2>3. ASSUME NEW p \in Sides
        PROVE  sent[p] \in 0..Total /\ placed[p] \in 0..sent[p] /\ acked[p] \in 0..placed[p]
    BY <2>1 DEF CountType
  <2> QED BY <2>1, <2>2, <2>3 DEF TypeOK, FunType
<1> QED BY Invariance, <1>1, PTL

(* The server never sends a pong whose ping has not been received, although   *)
(* rai_poll_cq tells it only that some two completions came.                  *)
THEOREM PongsAnswerPingsHolds == Spec => []PongsAnswerPings
<1>1. IInv => PongsAnswerPings
  <2> SUFFICES ASSUME IInv PROVE PongsAnswerPings
    OBVIOUS
  <2>1. CASE OnTcp
    <3>1. /\ sent[Server] = it[Server] /\ it[Server] \in Nat
          /\ placed[Client] = it[Server] \/ placed[Client] = it[Server] + 1
      BY <2>1, Pair DEF IInv, TcpInv, FunType
    <3> QED BY <3>1 DEF PongsAnswerPings
  <2>2. CASE ~OnTcp
    BY <2>2 DEF IInv, RdmaInv, Lockstep, PongsAnswerPings
  <2> QED BY <2>1, <2>2
<1> QED BY Invariance, <1>1, PTL

(* A message under way finds the peer live and a receive posted, at every      *)
(* depth and however far one side runs ahead: rnr_retry is never needed.       *)
THEOREM ReceiveReadyHolds == Spec => []ReceiveReady
<1>1. IInv => ReceiveReady
  <2> SUFFICES ASSUME IInv, ~OnTcp, NEW p \in Sides, sent[p] > placed[p], ~Ended(Peer(p))
               PROVE  live[Peer(p)] /\ rq[Peer(p)] > 0
    BY DEF ReceiveReady
  <2>0. /\ FunType /\ CountType /\ RdmaInv /\ Rounds /\ Places /\ LiveExact /\ Receives /\ Lockstep
    BY DEF IInv, RdmaInv
  <2>1. /\ \A r \in Sides : /\ sent[r] \in Nat /\ placed[r] \in Nat /\ acked[r] \in Nat
                            /\ placed[r] <= sent[r] /\ sent[r] <= Total
        /\ \A r \in Sides : it[r] \in Nat /\ rq[r] \in Nat /\ pc[r] \in PCs
    BY <2>0 DEF CountType, FunType
  <2>2. pc[Client] \notin Early
    <3>1. sent[p] # 0
      BY <2>1
    <3> QED BY <2>0, <3>1, QuietBefore
  <2>3. pc[Server] \notin {"meet", "setup", "accept"}
    BY <2>0, <2>2 DEF Places, Early
  <2>4. pc[Peer(p)] \notin Over
    <3> SUFFICES ASSUME pc[Peer(p)] \in Over PROVE FALSE
      OBVIOUS
    <3>1. placed[p] = Total /\ sent[p] = Total
      BY <2>0, Pair, OverMeansDelivered
    <3> QED BY <2>1, <3>1
  <2>5. Total \in Nat /\ prepost \in Nat /\ 1 <= prepost
    BY <2>0, PrepostFits
  <2>6. CASE Peer(p) = Client
    <3>1. p = Server /\ pc[Client] \in Loop
      BY <2>0, <2>1, <2>2, <2>4, <2>6, Pair DEF Ended, Places, PCs, Early, Over, Loop
    <3>2. rq[Client] + placed[Server] = Limit(Client) /\ sent[Client] = Posted(Client)
          /\ live[Client] /\ sent[Server] <= placed[Client]
      BY <2>0, <3>1, Pair DEF Receives, Rounds, Loop, LiveExact, Lockstep
    <3>3. Posted(Client) <= Armed(Client) /\ Armed(Client) \in Nat
      BY <2>1, Pair DEF Posted, Armed
    <3>4. Limit(Client) >= Total \/ Limit(Client) > sent[Client]
      BY <2>1, <2>5, <3>2, <3>3, Pair DEF Limit
    <3>5. placed[Server] < sent[Server] /\ sent[Server] <= sent[Client] /\ sent[Server] <= Total
      BY <2>1, <3>1, <3>2, Pair
    <3>6. Limit(Client) \in Nat
      BY <2>0, CountsAreNat, Pair
    <3>7. rq[Client] > 0
      BY <2>1, <2>5, <3>2, <3>4, <3>5, <3>6, Pair
    <3> QED BY <2>6, <3>2, <3>7
  <2>7. CASE Peer(p) = Server
    <3>1. p = Client /\ pc[Server] \in Loop \cup {"estab", "barrier"}
      BY <2>0, <2>1, <2>3, <2>4, <2>7, Pair DEF Ended, Places, PCs, Over, Loop
    <3>2. rq[Server] + placed[Client] = Limit(Server) /\ sent[Server] = Posted(Server)
          /\ live[Server] /\ sent[Client] <= placed[Server] + 1
      BY <2>0, <3>1, Pair DEF Receives, Rounds, Loop, LiveExact, Lockstep
    <3>3. Posted(Server) <= Armed(Server) /\ Armed(Server) \in Nat
      BY <2>1, Pair DEF Posted, Armed
    <3>4. Limit(Server) >= Total \/ Limit(Server) > sent[Server]
      BY <2>1, <2>5, <3>2, <3>3, Pair DEF Limit
    <3>5. placed[Client] < sent[Client] /\ sent[Client] <= sent[Server] + 1 /\ sent[Client] <= Total
      BY <2>1, <3>1, <3>2, Pair
    <3>6. Limit(Server) \in Nat
      BY <2>0, CountsAreNat, Pair
    <3>7. rq[Server] > 0
      BY <2>1, <2>5, <3>2, <3>4, <3>5, <3>6, Pair
    <3> QED BY <2>7, <3>2, <3>7
  <2> QED BY <2>6, <2>7, Pair
<1> QED BY Invariance, <1>1, PTL

(* Nothing goes wrong but what OnlyKnownLosses lists: the last acknowledgement *)
(* lost to a peer that has left, the full queue at the largest depth, and the  *)
(* second test of backend_compare refused.                                     *)
THEOREM OnlyKnownLossesHolds == Spec => []OnlyKnownLosses
<1>1. IInv => OnlyKnownLosses
  <2> SUFFICES ASSUME IInv, NEW p \in Sides
               PROVE  /\ pc[p] = "failed" =>
                           /\ it[p] = Total - 1 /\ \A q \in Sides : placed[q] = Total
                           /\ pc[Peer(p)] \in {"next", "listening", "refused", "left"}
                      /\ pc[p] = "full" => /\ p = Client /\ depth = Room /\ prog # "compare"
                                           /\ ~Ended(Server)
                                           /\ \A q \in Sides : sent[q] = 0
                      /\ pc[p] = "refused" =>
                           prog = "compare" /\ \A q \in Sides : placed[q] = Total
                      /\ OnTcp => pc[p] \notin {"failed", "full", "refused"}
    BY DEF OnlyKnownLosses
  <2>1. CASE OnTcp
    BY <2>1 DEF IInv, TcpInv
  <2>2. CASE ~OnTcp
    <3>0. FunType /\ CountType /\ RdmaInv /\ Places /\ Losses /\ Lockstep
      BY <2>2 DEF IInv, RdmaInv
    <3>1. it[p] \in Nat /\ Total \in Nat /\ Total >= 1
      <4>1. Total \in Nat /\ Total >= 1
        BY <3>0, PrepostFits
      <4> QED BY <3>0, <4>1 DEF FunType
    <3>2. ASSUME pc[p] = "failed"
          PROVE  /\ it[p] = Total - 1 /\ \A q \in Sides : placed[q] = Total
                 /\ pc[Peer(p)] \in {"next", "listening", "refused", "left"}
      <4>1. it[p] + 1 = Total /\ pc[Peer(p)] \in Gone /\ \A q \in Sides : placed[q] = Total
        BY <3>0, <3>2 DEF Losses
      <4> QED BY <3>1, <4>1 DEF Gone
    <3>3. ASSUME pc[p] = "full"
          PROVE  /\ p = Client /\ depth = Room /\ prog # "compare" /\ ~Ended(Server)
                 /\ \A q \in Sides : sent[q] = 0
      <4>1. p = Client /\ depth = Room /\ prog # "compare" /\ sent[Client] = 0
        BY <3>0, <3>3, Pair DEF Places, Losses
      <4>2. sent[Server] = 0 /\ placed[Client] = 0
        <5>1. /\ sent[Server] <= placed[Client] /\ placed[Client] <= sent[Client]
              /\ sent[Server] \in Nat /\ placed[Client] \in Nat
          BY <3>0, Pair DEF Lockstep, CountType
        <5> QED BY <4>1, <5>1
      <4>3. pc[Server] \notin Over
        <5>1. pc[Server] \in Over => placed[Client] = Total
          BY <3>0, Pair, OverMeansDelivered
        <5> QED BY <3>1, <4>2, <5>1
      <4>4. pc[Server] # "failed"
        BY <3>0, <3>1, <4>2, Pair DEF Losses
      <4>5. pc[Server] # "full"
        BY <3>0 DEF Places
      <4>6. ~Ended(Server)
        BY <4>3, <4>4, <4>5 DEF Ended, Over
      <4> QED BY <4>1, <4>2, <4>6, Pair
    <3>4. ASSUME pc[p] = "refused"
          PROVE  prog = "compare" /\ \A q \in Sides : placed[q] = Total
      <4>1. prog = "compare"
        BY <3>0, <3>4 DEF Losses
      <4>2. pc[p] \in Over
        BY <3>4 DEF Over
      <4> QED BY <3>0, <4>1, <4>2, OverMeansDelivered
    <3> QED BY <2>2, <3>2, <3>3, <3>4
  <2> QED BY <2>1, <2>2
<1> QED BY Invariance, <1>1, PTL
=============================================================================
