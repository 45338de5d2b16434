------------------------------ MODULE PingPong ------------------------------
(***************************************************************************)
(* A two-sided ping-pong over one queue pair:                               *)
(*   lat_send_recv (phase1_verbs/bench/lat_send_recv.c), connected with     *)
(*     rdma_cm or with plain verbs, and                                     *)
(*   run_client_sendrecv / run_server_sendrecv (phase2_transport/bench/     *)
(*     backend_compare.cpp) on RDMA, and the step from that test to the     *)
(*     next one (main), on a new connection; on TCP the same test blocks in *)
(*     send() and recv() and is the only one.                               *)
(* On RDMA each side keeps receives posted ahead, and send and receive      *)
(* completions share one completion queue that rai_poll_cq drains without   *)
(* looking at what it takes.                                                *)
(*                                                                          *)
(* A message is posted, placed in a receive of the peer (whose completion   *)
(* appears there) and acknowledged (its completion appears at the sender).  *)
(* The acknowledgement of one message and the placing of the next one of    *)
(* the other direction come in either order.  A message that finds no       *)
(* receive is retried for ever (rnr_retry 7).                               *)
(***************************************************************************)
EXTENDS Integers, Sequences

CONSTANTS Total,    \* kWarmup + iters
          Depths,   \* receives kept posted: the values of --depth, 8 in backend_compare
          Room,     \* receives the queue takes: RAI_QP_MAX_WR - 1
          Programs  \* of "lat_cm", "lat_verbs", "compare", "compare_tcp"

ASSUME PingPongAssumption ==
  /\ Total \in Nat \ {0}
  /\ Room \in Nat \ {0}
  /\ Depths \subseteq 1..Room     \* bench_config_parse refuses the others
  /\ Programs \subseteq {"lat_cm", "lat_verbs", "compare", "compare_tcp"}

VARIABLES pc,      \* where each side's thread is
          it,      \* i, the round it is in
          rq,      \* its posted receives
          cq,      \* its completions not yet polled
          sent,    \* messages it has posted,
          placed,  \* those placed in a receive of the peer,
          acked,   \* and those acknowledged
          live,    \* its queue pair is in RTS
          prog,    \* the program and
          depth    \* --depth, which no step changes

vars == <<pc, it, rq, cq, sent, placed, acked, live, prog, depth>>

Client == "client"
Server == "server"
Sides  == {Client, Server}
Peer(p) == IF p = Client THEN Server ELSE Client

PCs == {"meet", "setup", "accept", "estab", "barrier", "prepost", "repost", "send", "poll1",
        "poll2", "recv", "done", "failed", "full", "next", "listening", "refused", "left"}

OnTcp == prog = "compare_tcp"

(* "left" is success; in backend_compare that is to be in the second test. *)
Ended(p) == pc[p] \in {"left", "failed", "full", "refused"}

TypeOK ==
  /\ pc \in [Sides -> PCs]
  /\ it \in [Sides -> 0..Total]
  /\ rq \in [Sides -> 0..Room]
  /\ cq \in [Sides -> Seq({"recv", "send", "error"})]
  /\ live \in [Sides -> BOOLEAN]
  /\ prog \in Programs
  /\ depth \in Depths
  /\ \A p \in Sides : /\ sent[p] \in 0..Total
                      /\ placed[p] \in 0..sent[p]
                      /\ acked[p] \in 0..placed[p]

(* The server listens; both queue pairs are built and in INIT. *)
Init ==
  /\ prog \in Programs
  /\ depth \in Depths
  /\ prog \in {"compare", "compare_tcp"} => depth < Room
  /\ pc = [p \in Sides |-> "meet"]
  /\ it = [p \in Sides |-> 0]
  /\ rq = [p \in Sides |-> 0]
  /\ cq = [p \in Sides |-> << >>]
  /\ sent = [p \in Sides |-> 0]
  /\ placed = [p \in Sides |-> 0]
  /\ acked = [p \in Sides |-> 0]
  /\ live = [p \in Sides |-> FALSE]

Goto(p, label) == pc' = [pc EXCEPT ![p] = label]

(* The round ends. *)
EndRound(p, first) ==
  /\ it' = [it EXCEPT ![p] = @ + 1]
  /\ Goto(p, IF it[p] + 1 = Total THEN "done" ELSE first)

(* prepost = min(depth, kWarmup + iters) *)
prepost == IF depth < Total THEN depth ELSE Total

-----------------------------------------------------------------------------
(* INIT -> RTR -> RTS *)
qp_to_rts(p) == live' = [live EXCEPT ![p] = TRUE]

WithCm == prog # "lat_verbs"

(* lat_send_recv has a barrier between the set-up and the first message. *)
AfterSetup(p) ==
  IF prog # "compare" THEN "barrier" ELSE IF p = Client THEN "prepost" ELSE "poll1"

(* The server's listen returns with the client's request: with rdma_cm the  *)
(* CONNECT_REQUEST, with verbs the exchange of queue pair numbers.  On TCP  *)
(* the connection stands then.                                              *)
Meet ==
  /\ pc = [p \in Sides |-> "meet"]
  /\ pc' = IF OnTcp THEN [pc EXCEPT ![Server] = "recv", ![Client] = "send"]
                    ELSE [pc EXCEPT ![Server] = "setup", ![Client] = "estab"]
  /\ UNCHANGED <<it, rq, cq, sent, placed, acked, live, prog, depth>>

(* It registers its memory and posts its receives before accept makes its   *)
(* queue pair live.                                                         *)
ServerPrepost ==
  /\ pc[Server] = "setup"
  /\ rq' = [rq EXCEPT ![Server] = prepost]
  /\ Goto(Server, "accept")
  /\ UNCHANGED <<it, cq, sent, placed, acked, live, prog, depth>>

(* With rdma_cm accept also waits for the client to be established. *)
ServerAccept ==
  /\ pc[Server] = "accept"
  /\ qp_to_rts(Server)
  /\ Goto(Server, IF WithCm THEN "estab" ELSE AfterSetup(Server))
  /\ UNCHANGED <<it, rq, cq, sent, placed, acked, prog, depth>>

ServerEstablished ==
  /\ pc[Server] = "estab" /\ live[Client]
  /\ Goto(Server, AfterSetup(Server))
  /\ UNCHANGED <<it, rq, cq, sent, placed, acked, live, prog, depth>>

\* Mutant: with rdma_cm too the client does not wait for the server's accept.
ClientConnected_Early ==
  /\ pc[Client] = "estab"
  /\ qp_to_rts(Client)
  /\ Goto(Client, AfterSetup(Client))
  /\ UNCHANGED <<it, rq, cq, sent, placed, acked, prog, depth>>

(* connect: with rdma_cm the client is established by the server's accept,  *)
(* with verbs it is live as soon as the exchange is through.                *)
ClientConnected ==
  /\ pc[Client] = "estab"
  /\ WithCm => live[Server]
  /\ qp_to_rts(Client)
  /\ Goto(Client, AfterSetup(Client))
  /\ UNCHANGED <<it, rq, cq, sent, placed, acked, prog, depth>>

\* Mutant: nobody waits at the barrier.
StartBarrier_Skipped ==
  \E p \in Sides :
    /\ pc[p] = "barrier"
    /\ Goto(p, IF p = Client THEN "prepost" ELSE "poll1")
    /\ UNCHANGED <<it, rq, cq, sent, placed, acked, live, prog, depth>>

(* rai_oob_accept and rai_oob_connect: the two meet before any traffic. *)
StartBarrier ==
  /\ pc[Client] = "barrier" /\ pc[Server] = "barrier"
  /\ pc' = [pc EXCEPT ![Client] = "prepost", ![Server] = "poll1"]
  /\ UNCHANGED <<it, rq, cq, sent, placed, acked, live, prog, depth>>

ClientPrepost ==
  /\ pc[Client] = "prepost"
  /\ rq' = [rq EXCEPT ![Client] = prepost]
  /\ Goto(Client, "repost")
  /\ UNCHANGED <<it, cq, sent, placed, acked, live, prog, depth>>

\* Mutant: consumed receives are not replaced.
MoreToCome_Never(p) == FALSE

(* if (i + prepost < total_iters) *)
MoreToCome(p) == it[p] + prepost < Total

(* The client posts one more receive before its ping, the server after a    *)
(* ping and before its pong.  A post on a full queue fails.                 *)
Repost(p) ==
  /\ pc[p] = "repost"
  /\ IF MoreToCome(p) /\ rq[p] = Room
     THEN /\ Goto(p, "full")
          /\ live' = [live EXCEPT ![p] = FALSE]
          /\ UNCHANGED rq
     ELSE /\ rq' = IF MoreToCome(p) THEN [rq EXCEPT ![p] = @ + 1] ELSE rq
          /\ Goto(p, "send")
          /\ UNCHANGED live
  /\ UNCHANGED <<it, cq, sent, placed, acked, prog, depth>>

Send(p) ==
  /\ pc[p] = "send" /\ ~OnTcp
  /\ sent' = [sent EXCEPT ![p] = @ + 1]
  /\ Goto(p, IF p = Client THEN "poll1" ELSE "poll2")
  /\ UNCHANGED <<it, rq, cq, placed, acked, live, prog, depth>>

CompletionAt(p) == cq[p] # << >> /\ Head(cq[p]) # "error"

(* The server's first poll waits for a ping, the client's for its send. *)
Poll1(p) ==
  /\ pc[p] = "poll1" /\ CompletionAt(p)
  /\ cq' = [cq EXCEPT ![p] = Tail(@)]
  /\ Goto(p, IF p = Client THEN "poll2" ELSE "repost")
  /\ UNCHANGED <<it, rq, sent, placed, acked, live, prog, depth>>

\* Mutant: the round ends without its second completion.
Poll2_NoWait(p) ==
  /\ pc[p] = "poll2"
  /\ EndRound(p, IF p = Client THEN "repost" ELSE "poll1")
  /\ UNCHANGED <<rq, cq, sent, placed, acked, live, prog, depth>>

(* The second poll ends the round: two completions, whichever they were. *)
Poll2(p) ==
  /\ pc[p] = "poll2" /\ CompletionAt(p)
  /\ cq' = [cq EXCEPT ![p] = Tail(@)]
  /\ EndRound(p, IF p = Client THEN "repost" ELSE "poll1")
  /\ UNCHANGED <<rq, sent, placed, acked, live, prog, depth>>

PollError(p) ==
  /\ pc[p] \in {"poll1", "poll2"}
  /\ cq[p] # << >> /\ Head(cq[p]) = "error"
  /\ Goto(p, "failed")
  /\ live' = [live EXCEPT ![p] = FALSE]
  /\ UNCHANGED <<it, rq, cq, sent, placed, acked, prog, depth>>

(* The TCP branches: the client sends and receives, the server the other    *)
(* way round.  A message is placed by the recv() that reads it.             *)
TcpSend(p) ==
  /\ pc[p] = "send" /\ OnTcp
  /\ sent' = [sent EXCEPT ![p] = @ + 1]
  /\ IF p = Client THEN Goto(p, "recv") /\ UNCHANGED it ELSE EndRound(p, "recv")
  /\ UNCHANGED <<rq, cq, placed, acked, live, prog, depth>>

TcpRecv(p) ==
  /\ pc[p] = "recv" /\ sent[Peer(p)] > placed[Peer(p)]
  /\ placed' = [placed EXCEPT ![Peer(p)] = @ + 1]
  /\ IF p = Server THEN Goto(p, "send") /\ UNCHANGED it ELSE EndRound(p, "send")
  /\ UNCHANGED <<rq, cq, sent, acked, live, prog, depth>>

(* rai_mr_dereg, rai_qp_destroy, ~Transport: nothing keeps a side that is   *)
(* done.  backend_compare goes on to its write test.                        *)
Leave(p) ==
  /\ pc[p] = "done"
  /\ Goto(p, IF prog = "compare" THEN "next" ELSE "left")
  /\ live' = [live EXCEPT ![p] = FALSE]
  /\ UNCHANGED <<it, rq, cq, sent, placed, acked, prog, depth>>

(* The server listens on port + 2 and waits for the client.                 *)
ListenNext ==
  /\ pc[Server] = "next"
  /\ Goto(Server, "listening")
  /\ UNCHANGED <<it, rq, cq, sent, placed, acked, live, prog, depth>>

(* The client connects there, once: it is refused by a server that has not  *)
(* got so far.                                                              *)
ConnectNext ==
  /\ pc[Client] = "next"
  /\ pc' = IF pc[Server] = "listening" THEN [p \in Sides |-> "left"]
           ELSE [pc EXCEPT ![Client] = "refused"]
  /\ UNCHANGED <<it, rq, cq, sent, placed, acked, live, prog, depth>>

-----------------------------------------------------------------------------
(* The NICs. *)
Place(p) ==
  LET q == Peer(p) IN
  /\ sent[p] > placed[p] /\ live[p] /\ live[q] /\ rq[q] > 0
  /\ placed' = [placed EXCEPT ![p] = @ + 1]
  /\ rq' = [rq EXCEPT ![q] = @ - 1]
  /\ cq' = [cq EXCEPT ![q] = Append(@, "recv")]
  /\ UNCHANGED <<pc, it, sent, acked, live, prog, depth>>

Ack(p) ==
  /\ placed[p] > acked[p] /\ live[p] /\ live[Peer(p)]
  /\ acked' = [acked EXCEPT ![p] = @ + 1]
  /\ cq' = [cq EXCEPT ![p] = Append(@, "send")]
  /\ UNCHANGED <<pc, it, rq, sent, placed, live, prog, depth>>

(* A message to a queue pair that is not live is rejected or, after its     *)
(* retries, given up.                                                       *)
NoAnswer(p) ==
  /\ sent[p] > acked[p] /\ live[p] /\ ~live[Peer(p)]
  /\ \A k \in DOMAIN cq[p] : cq[p][k] # "error"
  /\ cq' = [cq EXCEPT ![p] = Append(@, "error")]
  /\ UNCHANGED <<pc, it, rq, sent, placed, acked, live, prog, depth>>

Thread(p) ==
  \/ Repost(p) \/ Send(p) \/ Poll1(p) \/ Poll2(p) \/ PollError(p) \/ Leave(p)
  \/ TcpSend(p) \/ TcpRecv(p)

Startup ==
  \/ Meet \/ ServerPrepost \/ ServerAccept \/ ServerEstablished \/ ClientConnected
  \/ StartBarrier \/ ClientPrepost

Second == ListenNext \/ ConnectNext

Nic(p) == Place(p) \/ Ack(p) \/ NoAnswer(p)

(* A server whose client could not post its first ping spins in poll1: the *)
(* receives of a queue pair whose peer is gone never complete.              *)
ServerSpins == pc[Client] = "full" /\ pc[Server] = "poll1" /\ cq[Server] = << >>

(* And one whose client failed or was refused waits in its second listen.  *)
ServerWaits == Ended(Client) /\ pc[Server] = "listening"

AllOver == (\A p \in Sides : Ended(p)) \/ ServerSpins \/ ServerWaits

Finished == AllOver /\ UNCHANGED vars

Next == Startup \/ Second \/ (\E p \in Sides : Thread(p) \/ Nic(p)) \/ Finished

Spec == Init /\ [][Next]_vars

(* Both threads run and both NICs work. *)
FairSpec ==
  /\ Spec
  /\ WF_vars(Startup) /\ WF_vars(ListenNext) /\ WF_vars(ConnectNext)
  /\ \A p \in Sides : WF_vars(Thread(p)) /\ WF_vars(Place(p)) /\ WF_vars(Ack(p))
                      /\ WF_vars(NoAnswer(p))

-----------------------------------------------------------------------------
(* A pong answers a ping: although the server takes any two completions per *)
(* round, it never sends a pong whose ping has not been received.           *)
PongsAnswerPings == sent[Server] <= placed[Client]

(* "Neither ever hits an RNR anyway -- their receives are posted well ahead *)
(* of the matching send" (rdma_cm_connect.c): a message under way finds a   *)
(* receive posted.                                                          *)
ReceiveReady ==
  \A p \in Sides :
    sent[p] > placed[p] /\ ~Ended(Peer(p)) /\ ~OnTcp => live[Peer(p)] /\ rq[Peer(p)] > 0

(* What can go wrong, for every depth bench_config_parse accepts:           *)
(* - there is no exchange at the end, as the write benchmarks have, so a    *)
(*   side may leave before its peer has the acknowledgement of its last     *)
(*   message: in the last round, every message delivered, the peer gone     *)
(*   after its own success;                                                 *)
(* - the client, which posts one receive more before its first ping, finds  *)
(*   the queue full when --depth is the largest one accepted (127 for 128   *)
(*   entries) and there are more iterations; nothing has been sent then;    *)
(* - the client of backend_compare may reach its second test first and is   *)
(*   refused, its first test complete on both sides.                        *)
(* On TCP nothing can.                                                      *)
OnlyKnownLosses ==
  LET AllDelivered == \A q \in Sides : placed[q] = Total
  IN  \A p \in Sides :
        /\ pc[p] = "failed" => /\ it[p] = Total - 1 /\ AllDelivered
                               /\ pc[Peer(p)] \in {"next", "listening", "refused", "left"}
        /\ pc[p] = "full" => /\ p = Client /\ depth = Room /\ prog # "compare"
                             /\ ~Ended(Server)
                             /\ \A q \in Sides : sent[q] = 0
        /\ pc[p] = "refused" => prog = "compare" /\ AllDelivered
        /\ OnTcp => pc[p] \notin {"failed", "full", "refused"}

(* Both sides come to an end, but for a server whose client could not post  *)
(* its first ping, or did not reach the second test of backend_compare.     *)
Termination == <>AllOver
=============================================================================
