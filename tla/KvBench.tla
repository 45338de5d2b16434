------------------------------- MODULE KvBench -------------------------------
(***************************************************************************)
(* kv_bench against kv_server (phase4_kv_cache), from the first connect()   *)
(* to both exits: the two connections, the META handshake, the exchange of  *)
(* the slab's address, kv_alloc, the check of the data path, the timed      *)
(* writes and reads of run_bench and kv_free.                               *)
(*                                                                          *)
(* A byte is a number; the slab starts at address 0.  The client's NIC      *)
(* executes the posted work requests in order, one per step, reading and    *)
(* writing memory when it does, not when the request is posted.             *)
(***************************************************************************)
EXTENDS KvServer

CONSTANTS Warmup,  \* kWarmup
          Iters,   \* --iters
          Depths,  \* the values of --depth
          MaxWr    \* work requests the send queue takes (RAI_QP_MAX_WR - 1)

ASSUME BenchAssumption ==
  /\ Warmup \in Nat
  /\ Iters \in Nat \ {0}
  /\ Depths \subseteq Nat \ {0}
  /\ MaxWr \in Nat \ {0}

VARIABLES cpc,     \* where the client's thread is
          remote,  \* KVRemote: num_slots, slot_size
          slot,    \* slot_idx
          local,   \* local_buf
          slab,    \* pool.mem, the server's registered memory
          sq,      \* the posted operations not yet executed, in order
          cq,      \* their completions not yet polled: TRUE is success
          phase,   \* "check", or the operation run_bench times
          i,       \* run_bench: operations of the batches before this one
          posted,  \* operations of this batch posted so far
          polled,  \* and polled so far
          start,   \* the operation at which bw_start was taken, -1 before
          depth    \* --depth: operations posted before any is polled

benchvars == <<cpc, remote, slot, local, slab, sq, cq, phase, i, posted, polled, start,
               depth>>
vars      == <<spc, free_list, c2s, s2c, copen, sopen, dlisten, creq, estab, oob,
               cpc, remote, slot, local, slab, sq, cq, phase, i, posted, polled, start,
               depth>>

Total       == Warmup + Iters
Bytes       == 0..SlotSize
SlabAddrs   == 0..(NumSlots * SlotSize - 1)
Offsets     == 0..(SlotSize - 1)
Pattern     == [o \in Offsets |-> o + 1]
Zeros       == [o \in Offsets |-> 0]
Operations  == {"write", "read"}

ClientPCs == {"ctrl", "data", "dwait", "meta", "metarecv", "buffers", "oob", "oobrecv",
              "alloc", "allocrecv", "fill", "written", "clear", "readback", "compare",
              "post", "poll", "report", "free", "freerecv", "exit0", "exit1"}

ClientEnded == cpc \in {"exit0", "exit1"}

TypeOK ==
  /\ ServerType
  /\ cpc \in ClientPCs
  /\ remote \in [num_slots : {0, NumSlots}, slot_size : {0, SlotSize}]
  /\ slot \in -1..(NumSlots - 1)
  /\ local \in [Offsets -> Bytes]
  /\ slab \in [SlabAddrs -> Bytes]
  /\ sq \in Seq(Operations)
  /\ cq \in Seq(BOOLEAN)
  /\ Len(sq) + Len(cq) <= MaxWr
  /\ phase \in Operations \cup {"check"}
  /\ depth \in Depths
  /\ i \in 0..(Total + depth)
  /\ polled \in 0..posted /\ posted \in 0..depth
  /\ start \in -1..Total

Init ==
  /\ spc = "listen"
  /\ free_list = << >>
  /\ c2s = << >> /\ s2c = << >>
  /\ copen = FALSE /\ sopen = FALSE /\ dlisten = FALSE
  /\ creq = FALSE /\ estab = FALSE /\ oob = "none"
  /\ cpc = "ctrl"
  /\ remote = [num_slots |-> 0, slot_size |-> 0]
  /\ slot = -1
  /\ local = Zeros
  /\ slab = [a \in SlabAddrs |-> 0]
  /\ sq = << >> /\ cq = << >>
  /\ phase = "check"
  /\ i = 0 /\ posted = 0 /\ polled = 0 /\ start = -1
  /\ depth \in Depths

ClientAt(label) == cpc = label
ClientGoto(label) == cpc' = label

(* main returns: both connections are closed. *)
ClientExit(label) == ClientGoto(label) /\ copen' = FALSE

-----------------------------------------------------------------------------
(* Start-up.  What the steps below leave alone: *)
ServerSide == UNCHANGED <<spc, free_list, sopen, dlisten, estab>>
Data       == UNCHANGED <<local, slab, sq, cq, phase, i, posted, polled, start,
                          depth>>

(* ctrl->connect is refused when nobody listens. *)
CtrlConnect ==
  /\ ClientAt("ctrl")
  /\ IF sopen THEN ClientGoto("data") /\ copen' = TRUE
              ELSE ClientExit("exit1")
  /\ ServerSide /\ Data
  /\ UNCHANGED <<c2s, s2c, creq, oob, remote, slot>>

(* data->connect is rejected when the data listener is not up yet: the      *)
(* server opens it after the one for ctrl.                                  *)
DataConnect ==
  /\ ClientAt("data")
  /\ IF dlisten THEN ClientGoto("dwait") /\ creq' = TRUE /\ UNCHANGED copen
                ELSE ClientExit("exit1") /\ UNCHANGED creq
  /\ ServerSide /\ Data
  /\ UNCHANGED <<c2s, s2c, oob, remote, slot>>

(* The ESTABLISHED event, or another when the server has gone. *)
DataConnected ==
  /\ ClientAt("dwait")
  /\ \/ estab /\ ClientGoto("meta") /\ UNCHANGED copen
     \/ ServerEnded /\ ClientExit("exit1")
  /\ ServerSide /\ Data
  /\ UNCHANGED <<c2s, s2c, creq, oob, remote, slot>>

(* The send half of a request on the control connection. *)
Request(from, to, words) ==
  /\ ClientAt(from)
  /\ ClientGoto(to)
  /\ c2s' = c2s \o words
  /\ ServerSide /\ Data
  /\ UNCHANGED <<s2c, copen, creq, oob, remote, slot>>

(* The receive half fails when the server has closed before.  (A send that  *)
(* fails has the same outcome one call earlier.)                            *)
ReplyLost ==
  /\ \/ ClientAt("metarecv") /\ ~HasWords(s2c, MetaLen)
     \/ cpc \in {"allocrecv", "freerecv"} /\ ~HasWords(s2c, 1)
  /\ ~sopen
  /\ ClientExit("exit1")
  /\ ServerSide /\ Data
  /\ UNCHANGED <<c2s, s2c, creq, oob, remote, slot>>

(* handshake_meta *)
MetaRequest == Request("meta", "metarecv", <<KV_MSG_META>>)

MetaReply ==
  /\ ClientAt("metarecv") /\ HasWords(s2c, MetaLen)
  /\ s2c' = Rest(s2c, MetaLen)
  /\ remote' = [num_slots |-> s2c[1], slot_size |-> s2c[3]]
  /\ ClientGoto("buffers")
  /\ ServerSide /\ Data
  /\ UNCHANGED <<c2s, copen, creq, oob, slot>>

(* local_buf.init and sb.init. *)
LocalBuffer ==
  /\ ClientAt("buffers")
  /\ \/ ClientGoto("oob") /\ UNCHANGED copen
     \/ MayFail /\ ClientExit("exit1")
  /\ ServerSide /\ Data
  /\ UNCHANGED <<c2s, s2c, creq, oob, remote, slot>>

(* data->exchange_buf: connect to the OOB listener (open since before the   *)
(* server accepted the data connection), then receive.                      *)
OobConnect ==
  /\ ClientAt("oob")
  /\ IF sopen THEN oob' = "waiting" /\ ClientGoto("oobrecv") /\ UNCHANGED copen
              ELSE ClientExit("exit1") /\ UNCHANGED oob
  /\ ServerSide /\ Data
  /\ UNCHANGED <<c2s, s2c, creq, remote, slot>>

OobReceive ==
  /\ ClientAt("oobrecv")
  /\ \/ oob = "done" /\ ClientGoto("alloc") /\ UNCHANGED copen
     \/ oob = "waiting" /\ ServerEnded /\ ClientExit("exit1")
  /\ ServerSide /\ Data
  /\ UNCHANGED <<c2s, s2c, creq, oob, remote, slot>>

(* kv_alloc and the check of the index it returns. *)
AllocRequest == Request("alloc", "allocrecv", <<KV_MSG_ALLOC, 0>>)

AllocReply ==
  /\ ClientAt("allocrecv") /\ HasWords(s2c, 1)
  /\ s2c' = Rest(s2c, 1)
  /\ slot' = Head(s2c)
  /\ IF slot' \in 0..(remote.num_slots - 1)
     THEN ClientGoto("fill") /\ UNCHANGED copen
     ELSE ClientExit("exit1")
  /\ ServerSide /\ Data
  /\ UNCHANGED <<c2s, creq, oob, remote>>

(* kv_free: any ack but 0 is an error. *)
FreeRequest == Request("free", "freerecv", <<KV_MSG_FREE, slot>>)

FreeReply ==
  /\ ClientAt("freerecv") /\ HasWords(s2c, 1)
  /\ s2c' = Rest(s2c, 1)
  /\ ClientExit(IF Head(s2c) = 0 THEN "exit0" ELSE "exit1")
  /\ ServerSide /\ Data
  /\ UNCHANGED <<c2s, creq, oob, remote, slot>>

-----------------------------------------------------------------------------
(* The data path. *)
Handshakes == UNCHANGED <<spc, free_list, c2s, s2c, sopen, dlisten, creq, estab, oob,
                          remote, slot, depth>>

\* Mutant: slots are counted as bytes.
remote_addr_Unscaled == slot

(* base_addr + slot_idx * slot_size *)
remote_addr == slot * remote.slot_size

(* The post fails when the send queue is full: a request leaves it when its *)
(* completion is polled.                                                    *)
QueueFull == Len(sq) + Len(cq) >= MaxWr

Post(op) == sq' = Append(sq, op)

Completed == cq # << >> /\ Head(cq)

(* poll(nullptr) returns an error for a completion with an error status. *)
PollError ==
  /\ cpc \in {"written", "readback", "poll"}
  /\ cq # << >> /\ ~Head(cq)
  /\ cq' = Tail(cq)
  /\ ClientExit("exit1")
  /\ Handshakes
  /\ UNCHANGED <<local, slab, sq, phase, i, posted, polled, start>>

CheckWrite ==
  /\ ClientAt("fill")
  /\ local' = Pattern
  /\ Post("write")
  /\ ClientGoto("written")
  /\ Handshakes
  /\ UNCHANGED <<copen, slab, cq, phase, i, posted, polled, start>>

\* Mutant: the write is not waited for.
CheckWritten_NoPoll ==
  /\ ClientAt("written")
  /\ ClientGoto("clear")
  /\ Handshakes
  /\ UNCHANGED <<copen, local, slab, sq, cq, phase, i, posted, polled, start>>

CheckWritten ==
  /\ ClientAt("written") /\ Completed
  /\ cq' = Tail(cq)
  /\ ClientGoto("clear")
  /\ Handshakes
  /\ UNCHANGED <<copen, local, slab, sq, phase, i, posted, polled, start>>

(* memset, read_async *)
CheckRead ==
  /\ ClientAt("clear")
  /\ local' = Zeros
  /\ Post("read")
  /\ ClientGoto("readback")
  /\ Handshakes
  /\ UNCHANGED <<copen, slab, cq, phase, i, posted, polled, start>>

CheckReadBack ==
  /\ ClientAt("readback") /\ Completed
  /\ cq' = Tail(cq)
  /\ ClientGoto("compare")
  /\ Handshakes
  /\ UNCHANGED <<copen, local, slab, sq, phase, i, posted, polled, start>>

(* run_bench starts: total_iters operations in batches of depth. *)
StartBench(op) ==
  /\ phase' = op
  /\ i' = 0 /\ posted' = 0 /\ polled' = 0
  /\ start' = -1
  /\ ClientGoto("post")

Compare ==
  /\ ClientAt("compare")
  /\ IF local = Pattern THEN StartBench("write") /\ UNCHANGED copen
     ELSE ClientExit("exit1") /\ UNCHANGED <<phase, i, posted, polled, start>>
  /\ Handshakes
  /\ UNCHANGED <<local, slab, sq, cq>>

\* Mutant: the last batch is as long as the others.
BatchSize_Full == depth

(* n = min(depth, total_iters - i) *)
BatchSize == IF Total - i < depth THEN Total - i ELSE depth

(* bw_start is taken once, at the first batch past the warm-up. *)
BwStart == IF i >= Warmup /\ start = -1 THEN i ELSE start

(* op(i + k) *)
BenchPost ==
  /\ ClientAt("post") /\ ~QueueFull
  /\ Post(phase)
  /\ posted' = posted + 1
  /\ start' = BwStart
  /\ ClientGoto(IF posted' = BatchSize THEN "poll" ELSE "post")
  /\ Handshakes
  /\ UNCHANGED <<copen, local, slab, cq, phase, i, polled>>

\* Mutant: a post on a full queue is tried again and again.
BenchPostFails_Retries == ClientAt("post") /\ QueueFull /\ UNCHANGED vars

BenchPostFails ==
  /\ ClientAt("post") /\ QueueFull
  /\ ClientExit("exit1")
  /\ Handshakes
  /\ UNCHANGED <<local, slab, sq, cq, phase, i, posted, polled, start>>

(* The batch is polled to the end before the next is posted. *)
LastPoll == polled + 1 = posted

BenchPoll ==
  /\ ClientAt("poll") /\ Completed
  /\ cq' = Tail(cq)
  /\ IF LastPoll
     THEN /\ i' = i + depth
          /\ posted' = 0 /\ polled' = 0
          /\ ClientGoto(IF i' < Total THEN "post" ELSE "report")
     ELSE /\ polled' = polled + 1
          /\ UNCHANGED <<i, posted, cpc>>
  /\ Handshakes
  /\ UNCHANGED <<copen, local, slab, sq, phase, start>>

(* The figures are printed, and the next benchmark runs. *)
Report ==
  /\ ClientAt("report")
  /\ IF phase = "write" THEN StartBench("read")
     ELSE ClientGoto("free") /\ UNCHANGED <<phase, i, posted, polled, start>>
  /\ Handshakes
  /\ UNCHANGED <<copen, local, slab, sq, cq>>

(* The NIC executes the request at the head: in the slab's bounds while     *)
(* the server is up, else it completes with an error.                       *)
InSlab == \A o \in Offsets : remote_addr + o \in SlabAddrs

Execute ==
  /\ sq # << >> /\ ~ClientEnded
  /\ sq' = Tail(sq)
  /\ IF ServerEnded \/ ~InSlab
     THEN cq' = Append(cq, FALSE) /\ UNCHANGED <<local, slab>>
     ELSE /\ cq' = Append(cq, TRUE)
          /\ IF Head(sq) = "write"
             THEN /\ slab' = [a \in SlabAddrs |->
                                IF a - remote_addr \in Offsets
                                THEN local[a - remote_addr] ELSE slab[a]]
                  /\ UNCHANGED local
             ELSE /\ local' = [o \in Offsets |-> slab[remote_addr + o]]
                  /\ UNCHANGED slab
  /\ Handshakes
  /\ UNCHANGED <<cpc, copen, phase, i, posted, polled, start>>

(* The process is killed. *)
ClientDies ==
  /\ MayFail /\ ~ClientEnded
  /\ ClientExit("exit1")
  /\ Handshakes
  /\ UNCHANGED <<local, slab, sq, cq, phase, i, posted, polled, start>>

-----------------------------------------------------------------------------
Client ==
  \/ CtrlConnect \/ DataConnect \/ DataConnected \/ MetaRequest \/ MetaReply \/ ReplyLost
  \/ LocalBuffer \/ OobConnect \/ OobReceive \/ AllocRequest \/ AllocReply
  \/ CheckWrite \/ CheckWritten \/ CheckRead \/ CheckReadBack \/ Compare
  \/ BenchPost \/ BenchPostFails \/ BenchPoll \/ PollError \/ Report
  \/ FreeRequest \/ FreeReply

Server == (ServerStart \/ Serve) /\ UNCHANGED benchvars

Killed == ClientDies \/ (ServerDies /\ UNCHANGED benchvars)

(* A server whose client went away before it reached the data listener, or  *)
(* before it reached the OOB listener, waits for another one.               *)
ServerStuck ==
  /\ ClientEnded
  /\ \/ spc = "dwait" /\ ~creq
     \/ spc = "exchange" /\ oob = "none"

Finished == ClientEnded /\ (ServerEnded \/ ServerStuck) /\ UNCHANGED vars

Next == Client \/ Server \/ Execute \/ Killed \/ Finished

Spec == Init /\ [][Next]_vars

(* Both threads run and the NIC works.  No process is ever bound to be      *)
(* killed.                                                                  *)
FairSpec == Spec /\ WF_vars(Client) /\ WF_vars(Server) /\ WF_vars(Execute)

-----------------------------------------------------------------------------
(* The data path check of main (write, clear, read, compare) never fails:   *)
(* what comes back is the pattern, although memory is read and written when *)
(* the NIC gets to a request and not when it is posted.                     *)
RoundTrip == ClientAt("compare") => local = Pattern

(* The client's writes touch its own slot alone, and the timed ones leave   *)
(* the pattern there.                                                       *)
OnlyOwnSlot ==
  \A a \in SlabAddrs :
    slab[a] # 0 => /\ a \div SlotSize = slot
                   /\ slab[a] = Pattern[a % SlotSize]

(* The batches of run_bench add up whatever depth is: the one in flight      *)
(* stays within the iterations latencies has room for, and no completion is *)
(* left for the next benchmark, whose poll(nullptr) takes whatever comes.   *)
BatchesExact ==
  /\ cpc \in {"post", "poll"} => i + posted <= Total
  /\ ClientAt("report") => sq = << >> /\ cq = << >>

(* The client always ends, wherever the server dies. *)
ClientEnds == <>ClientEnded

(* The server ends after its client in every case but two: a client that    *)
(* never got to the data listener, and one that was lost between META and   *)
(* the OOB exchange.  There accept() waits without a limit.  (A client that *)
(* stays for ever is served for ever; kv_bench does not, by ClientEnds.)    *)
ServerStopsOrStuck == <>[]copen \/ <>(ServerEnded \/ ServerStuck)

(* "The gbps below stays honest either way because it comes from total      *)
(* bytes over total elapsed" (kv_bench.cpp:157): the time printed is that   *)
(* of the iters operations whose bytes are counted.                         *)
GbpsHonest == ClientAt("report") => start # -1 /\ Total - start = Iters
=============================================================================
