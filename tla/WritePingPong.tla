---------------------------- MODULE WritePingPong ----------------------------
(***************************************************************************)
(* lat_rdma_write (phase1_verbs/bench/lat_rdma_write.c): a ping-pong of     *)
(* one-sided writes.  Each side spins on the last byte of the half its peer *)
(* writes, which carries the iteration number modulo SeqMod, and never      *)
(* resets it.                                                               *)
(*                                                                          *)
(* A posted write is fetched from the source buffer, lands in the peer's    *)
(* memory and is acknowledged, each some time later.                        *)
(***************************************************************************)
EXTENDS Integers

CONSTANTS Rounds,  \* kWarmup + iters
          SeqMod   \* 2^8: seq is a uint8_t

ASSUME WritePingPongAssumption == Rounds \in Nat \ {0} /\ SeqMod \in Nat \ {0, 1}

VARIABLES pc,       \* where each side is
          it,       \* i, its round
          post_buf, \* the doorbell it sends
          poll_buf, \* the doorbell its peer writes
          write,    \* its write: "idle", "posted", "fetched", "landed", "acked"
          bell,     \* the doorbell fetched
          arrived,  \* how many of the peer's writes have landed
          ack       \* what the completion says: TRUE is success

pingVars == <<pc, it, post_buf, poll_buf, write, bell, arrived, ack>>

Client == "client"
Server == "server"
Sides  == {Client, Server}
Peer(p) == IF p = Client THEN Server ELSE Client

Bytes == 0..(SeqMod - 1)

Gone(p) == pc[p] \in {"left", "failed"}

PingTypeOK ==
  /\ pc \in [Sides -> {"post", "reap", "spin", "sync", "left", "failed"}]
  /\ it \in [Sides -> 0..Rounds]
  /\ post_buf \in [Sides -> Bytes] /\ poll_buf \in [Sides -> Bytes]
  /\ bell \in [Sides -> Bytes]
  /\ write \in [Sides -> {"idle", "posted", "fetched", "landed", "acked"}]
  /\ arrived \in [Sides -> 0..Rounds]
  /\ ack \in [Sides -> BOOLEAN]

(* Both halves are zeroed before the peer learns the address. *)
PingInit ==
  /\ pc = [p \in Sides |-> IF p = Client THEN "post" ELSE "spin"]
  /\ it = [p \in Sides |-> 0]
  /\ post_buf = [p \in Sides |-> 0] /\ poll_buf = [p \in Sides |-> 0]
  /\ bell = [p \in Sides |-> 0]
  /\ write = [p \in Sides |-> "idle"]
  /\ arrived = [p \in Sides |-> 0]
  /\ ack = [p \in Sides |-> FALSE]

Goto(p, label) == pc' = [pc EXCEPT ![p] = label]

\* Mutant: rounds are numbered from 0, the value the buffer starts with.
seq_FromZero(p) == it[p] % SeqMod

(* (uint8_t)(i + 1) *)
seq(p) == (it[p] + 1) % SeqMod

EndRound(p, next) ==
  /\ it' = [it EXCEPT ![p] = @ + 1]
  /\ Goto(p, IF it[p] + 1 = Rounds THEN "sync" ELSE next)

-----------------------------------------------------------------------------
PostWrite(p) ==
  /\ pc[p] = "post"
  /\ post_buf' = [post_buf EXCEPT ![p] = seq(p)]
  /\ write' = [write EXCEPT ![p] = "posted"]
  /\ Goto(p, "reap")
  /\ UNCHANGED <<it, poll_buf, bell, arrived, ack>>

(* rai_poll_cq; the round of the server ends here. *)
ReapWrite(p) ==
  /\ pc[p] = "reap" /\ write[p] = "acked"
  /\ write' = [write EXCEPT ![p] = "idle"]
  /\ IF ~ack[p] THEN Goto(p, "failed") /\ UNCHANGED it
     ELSE IF p = Client THEN Goto(p, "spin") /\ UNCHANGED it
     ELSE EndRound(p, "spin")
  /\ UNCHANGED <<post_buf, poll_buf, bell, arrived, ack>>

(* while ( *poll_buf != seq ); the round of the client ends here. *)
Spin(p) ==
  /\ pc[p] = "spin" /\ poll_buf[p] = seq(p)
  /\ IF p = Client THEN EndRound(p, "post") ELSE Goto(p, "post") /\ UNCHANGED it
  /\ UNCHANGED <<post_buf, poll_buf, write, bell, arrived, ack>>

\* Mutant: the client leaves at once.
BothSync_OneSided ==
  /\ pc[Client] = "sync"
  /\ Goto(Client, "left")
  /\ UNCHANGED <<it, post_buf, poll_buf, write, bell, arrived, ack>>

(* rai_oob_accept and rai_oob_connect hold both sides. *)
BothSync ==
  /\ \A p \in Sides : pc[p] = "sync"
  /\ pc' = [p \in Sides |-> "left"]
  /\ UNCHANGED <<it, post_buf, poll_buf, write, bell, arrived, ack>>

-----------------------------------------------------------------------------
(* The NICs. *)
FetchWrite(p) ==
  /\ write[p] = "posted"
  /\ bell' = [bell EXCEPT ![p] = post_buf[p]]
  /\ write' = [write EXCEPT ![p] = "fetched"]
  /\ UNCHANGED <<pc, it, post_buf, poll_buf, arrived, ack>>

LandWrite(p) ==
  /\ write[p] = "fetched" /\ ~Gone(Peer(p))
  /\ poll_buf' = [poll_buf EXCEPT ![Peer(p)] = bell[p]]
  /\ arrived' = [arrived EXCEPT ![Peer(p)] = @ + 1]
  /\ write' = [write EXCEPT ![p] = "landed"]
  /\ UNCHANGED <<pc, it, post_buf, bell, ack>>

(* The acknowledgement comes back, or the peer has gone before it could. *)
Complete(p) ==
  /\ \/ write[p] = "landed"
     \/ write[p] = "fetched" /\ Gone(Peer(p))
  /\ write' = [write EXCEPT ![p] = "acked"]
  /\ ack' = [ack EXCEPT ![p] = ~Gone(Peer(p))]
  /\ UNCHANGED <<pc, it, post_buf, poll_buf, bell, arrived>>

BothEnded == \A p \in Sides : Gone(p)

BothFinished == BothEnded /\ UNCHANGED pingVars

PingNext ==
  \/ \E p \in Sides : \/ PostWrite(p) \/ ReapWrite(p) \/ Spin(p)
                      \/ FetchWrite(p) \/ LandWrite(p) \/ Complete(p)
  \/ BothSync
  \/ BothFinished

PingSpec == PingInit /\ [][PingNext]_pingVars

-----------------------------------------------------------------------------
(* "Truncating to 8 bits is safe": a side that reads the doorbell it waits  *)
(* for has the write of this very round, never one SeqMod rounds old.       *)
TruncationSafe ==
  \A p \in Sides :
    pc[p] = "spin" /\ poll_buf[p] = seq(p) => arrived[p] = it[p] + 1

(* "Tearing down first would strand it": no side fails for an               *)
(* acknowledgement its peer did not stay for.                               *)
NobodyStranded == \A p \in Sides : pc[p] # "failed"
=============================================================================
