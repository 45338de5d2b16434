----------------------------- MODULE WriteStream -----------------------------
(***************************************************************************)
(* A client that streams one-sided writes at a passive server whose only    *)
(* clue is a doorbell in the last bytes of its memory:                      *)
(*   bw_rdma_write (phase1_verbs/bench/bw_rdma_write.c): a window of Depth  *)
(*     writes, a flag that is raised for the last one, and an OOB exchange  *)
(*     that holds both sides at the end;                                    *)
(*   run_client_write / run_server_write (phase2_transport/bench/           *)
(*     backend_compare.cpp): one write at a time, each with its number, and *)
(*     no exchange at the end.                                              *)
(*                                                                          *)
(* All writes have the same source buffer.  The NIC fetches a write's data  *)
(* from it some time after the post, unless the payload is so small that    *)
(* the post copied it (IBV_SEND_INLINE).                                    *)
(***************************************************************************)
EXTENDS Integers, Sequences

CONSTANTS Total,     \* kWarmup + iters
          Window,    \* bw_rdma_write's --depth
          Programs,  \* the programs looked at: "bw", "compare"
          Inlines    \* whether the post copies the payload (size <= max_inline)

ASSUME StreamAssumption ==
  /\ Total \in Nat \ {0} /\ Window \in Nat \ {0}
  /\ Programs \subseteq {"bw", "compare"} /\ Inlines \subseteq BOOLEAN

VARIABLES cpc,       \* where the client is
          scnt,      \* writes posted
          ccnt,      \* completions reaped
          src,       \* the doorbell in the source buffer
          sq,        \* posted writes not yet fetched: their inline doorbells
          wire,      \* the doorbells of the fetched writes not yet landed
          landed,    \* writes whose data are in the server's memory
          acked,     \* writes acknowledged to the client
          mem,       \* the doorbell in the server's memory
          spc,       \* where the server is
          prog,      \* which program this is
          inline     \* the post copies the payload

vars == <<cpc, scnt, ccnt, src, sq, wire, landed, acked, mem, spc, prog, inline>>

Depth    == IF prog = "bw" THEN Window ELSE 1  \* writes outstanding at most
Numbered == prog = "compare"   \* the doorbell is the write's number, not a flag
Sync     == prog = "bw"        \* the two sides meet before they leave

Doorbells == 0..Total

TypeOK ==
  /\ cpc \in {"stream", "sync", "done", "failed"}
  /\ spc \in {"wait", "sync", "done"}
  /\ scnt \in 0..Total /\ ccnt \in 0..acked
  /\ landed \in 0..scnt /\ acked \in 0..landed
  /\ src \in Doorbells /\ mem \in Doorbells
  /\ sq \in Seq(Doorbells) /\ wire \in Seq(Doorbells)
  /\ landed + Len(wire) + Len(sq) = scnt
  /\ prog \in Programs /\ inline \in Inlines

(* Both doorbells are cleared before the server's address is known. *)
Init ==
  /\ cpc = "stream" /\ spc = "wait"
  /\ scnt = 0 /\ ccnt = 0 /\ landed = 0 /\ acked = 0
  /\ src = 0 /\ mem = 0
  /\ sq = << >> /\ wire = << >>
  /\ prog \in Programs /\ inline \in Inlines

\* Mutant: the doorbell is one write behind.
Doorbell_Behind(n) ==
  IF Numbered THEN n - 1 ELSE IF n = Total + 1 THEN 1 ELSE src

\* Mutant: the doorbell is one write ahead.
Doorbell_Ahead(n) ==
  IF Numbered THEN IF n < Total THEN n + 1 ELSE n ELSE IF n >= Total - 1 THEN 1 ELSE src

(* The doorbell written before the post of write number n. *)
Doorbell(n) ==
  IF Numbered THEN n ELSE IF n = Total THEN 1 ELSE src

FinalDoorbell == IF Numbered THEN Total ELSE 1

-----------------------------------------------------------------------------
(* while (scnt < total_iters && scnt - ccnt < depth) *)
WindowOpen == scnt < Total /\ scnt - ccnt < Depth

Post ==
  /\ cpc = "stream" /\ WindowOpen
  /\ src' = Doorbell(scnt + 1)
  /\ sq' = Append(sq, src')
  /\ scnt' = scnt + 1
  /\ UNCHANGED <<cpc, ccnt, wire, landed, acked, mem, spc, prog, inline>>

(* ibv_poll_cq returns some of the completions that are there. *)
Reapable == 1..(acked - ccnt)

(* ccnt += ne; the loop ends when all are reaped. *)
Reap ==
  /\ cpc = "stream" /\ ~WindowOpen
  /\ \E ne \in Reapable : ccnt' = ccnt + ne
  /\ cpc' = IF ccnt' >= Total THEN IF Sync THEN "sync" ELSE "done" ELSE "stream"
  /\ UNCHANGED <<scnt, src, sq, wire, landed, acked, mem, spc, prog, inline>>

(* The server spins until the doorbell has its final value. *)
SeesDoorbell == mem = FinalDoorbell

ServerSees ==
  /\ spc = "wait" /\ SeesDoorbell
  /\ spc' = IF Sync THEN "sync" ELSE "done"
  /\ UNCHANGED <<cpc, scnt, ccnt, src, sq, wire, landed, acked, mem, prog, inline>>

\* Mutant: the server does not wait for the client.
TeardownSync_OneSided ==
  /\ spc = "sync"
  /\ spc' = "done"
  /\ UNCHANGED <<cpc, scnt, ccnt, src, sq, wire, landed, acked, mem, prog, inline>>

(* rai_oob_accept and rai_oob_connect: both are there, then both leave. *)
TeardownSync ==
  /\ cpc = "sync" /\ spc = "sync"
  /\ cpc' = "done" /\ spc' = "done"
  /\ UNCHANGED <<scnt, ccnt, src, sq, wire, landed, acked, mem, prog, inline>>

-----------------------------------------------------------------------------
(* The NICs: the client's works until it leaves, the server's too. *)
Fetch ==
  /\ sq # << >> /\ cpc \in {"stream", "sync"}
  /\ wire' = Append(wire, IF inline THEN Head(sq) ELSE src)
  /\ sq' = Tail(sq)
  /\ UNCHANGED <<cpc, scnt, ccnt, src, landed, acked, mem, spc, prog, inline>>

Land ==
  /\ wire # << >> /\ spc # "done"
  /\ mem' = Head(wire)
  /\ wire' = Tail(wire)
  /\ landed' = landed + 1
  /\ UNCHANGED <<cpc, scnt, ccnt, src, sq, acked, spc, prog, inline>>

Ack ==
  /\ acked < landed /\ spc # "done"
  /\ acked' = acked + 1
  /\ UNCHANGED <<cpc, scnt, ccnt, src, sq, wire, landed, mem, spc, prog, inline>>

(* The server has gone and a write stays without an acknowledgement: its    *)
(* completion has an error status, and the client gives up.                 *)
WriteFails ==
  /\ cpc = "stream" /\ ~WindowOpen
  /\ spc = "done" /\ acked < scnt /\ ccnt = acked
  /\ cpc' = "failed"
  /\ UNCHANGED <<scnt, ccnt, src, sq, wire, landed, acked, mem, spc, prog, inline>>

Ended == cpc \in {"done", "failed"} /\ spc = "done"

Finished == Ended /\ UNCHANGED vars

Next ==
  \/ Post \/ Reap \/ WriteFails \/ ServerSees \/ TeardownSync
  \/ Fetch \/ Land \/ Ack
  \/ Finished

Spec == Init /\ [][Next]_vars

(* The client's loop runs, the server's spins, and the NICs work. *)
FairSpec ==
  /\ Spec
  /\ WF_vars(Post) /\ WF_vars(Reap) /\ WF_vars(WriteFails)
  /\ WF_vars(ServerSees) /\ WF_vars(TeardownSync)
  /\ WF_vars(Fetch) /\ WF_vars(Land) /\ WF_vars(Ack)

-----------------------------------------------------------------------------
(* "The doorbell only tells the server that the last write's *data* landed" *)
(* (bw_rdma_write.c:123).  It does when the post copies the payload or only *)
(* one write is out: a server that has seen the final doorbell has all the  *)
(* data.  Otherwise an earlier write, fetched late, carries the flag.       *)
DoorbellMeansLast ==
  (inline \/ Depth = 1) /\ spc # "wait" => landed = Total

(* "A server that tears down at that point strands the client mid-ack, so   *)
(* hold both sides" (bw_rdma_write.c:124): where the two sides meet, no     *)
(* client fails, and the writes it has timed are in the server's memory     *)
(* however early the server saw the flag.                                   *)
HeldUntilReaped ==
  Sync => /\ cpc # "failed"
          /\ cpc \in {"sync", "done"} \/ spc = "done" => landed = Total

(* The same of either program: no client fails after its writes have        *)
(* landed.                                                                  *)
ClientNotStranded == cpc # "failed"

(* Both sides come to an end; in particular the server cannot miss the last *)
(* doorbell, however many earlier ones it misses.                           *)
Termination == <>Ended
=============================================================================
