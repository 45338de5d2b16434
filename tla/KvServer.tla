------------------------------ MODULE KvServer ------------------------------
(***************************************************************************)
(* kv_server (phase4_kv_cache/src/kv_server.cpp): a slab of NumSlots slots, *)
(* handed out and taken back over a TCP control connection, written and     *)
(* read by the client over RDMA without the server's help.                  *)
(*                                                                          *)
(* The server serves one client, from listen() to exit.  The control        *)
(* connection is a stream of 4-byte words in each direction; requests and   *)
(* replies are told apart by their lengths alone.  The clients are in       *)
(* KvPool (any client that keeps the protocol) and KvBench (kv_bench).      *)
(***************************************************************************)
EXTENDS Integers, Sequences, FiniteSets, SequencesExt

CONSTANTS NumSlots,  \* pool.num_slots
          SlotSize,  \* pool.slot_size
          MayFail    \* TRUE: memory may fail to be allocated or registered, and
                     \* the server may be killed

(* config_parse refuses the others. *)
ASSUME SlotsAssumption == NumSlots \in Nat /\ NumSlots > 0
ASSUME SizeAssumption  == SlotSize \in Nat /\ SlotSize > 0
ASSUME FailAssumption  == MayFail \in BOOLEAN

VARIABLES spc,        \* where the server's thread is
          free_list,  \* pool.free_list, a stack
          c2s, s2c,   \* words sent and not yet received, in each direction
          copen,      \* the client's end of the control connection is open
          sopen,      \* the server's end is, from its listen() on
          dlisten,    \* the data listener is up
          creq,       \* a CONNECT_REQUEST has reached the data listener
          estab,      \* the data queue pairs are connected
          oob         \* the OOB connection of exchange_buf: "none", the client's
                      \* is "waiting" in the listener, or "done"

ctrlvars   == <<c2s, s2c, copen>>
connvars   == <<dlisten, creq, estab, oob>>
servervars == <<spc, free_list, sopen>>
kvvars     == <<spc, free_list, c2s, s2c, copen, sopen, dlisten, creq, estab, oob>>

Slots == 0..(NumSlots - 1)

KV_MSG_ALLOC == 0
KV_MSG_FREE  == 1
KV_MSG_META  == 2

(* KVMeta on the wire: int, padding, size_t. *)
MetaWords == <<NumSlots, 0, SlotSize, 0>>
MetaLen   == 4

ServerPCs == {"listen", "dlisten", "dwait", "accept", "daccept", "meta", "setup",
              "exchange", "serve", "exit0", "exit1"}

ServerEnded == spc \in {"exit0", "exit1"}

ServerType ==
  /\ spc \in ServerPCs
  /\ free_list \in Seq(Slots)
  /\ c2s \in Seq(Int) /\ s2c \in Seq(Int)
  /\ copen \in BOOLEAN /\ sopen \in BOOLEAN
  /\ dlisten \in BOOLEAN /\ creq \in BOOLEAN /\ estab \in BOOLEAN
  /\ oob \in {"none", "waiting", "done"}

ServerAt(label) == spc = label

(* main returns: both transports are closed. *)
Exit(code) ==
  /\ spc' = IF code = 0 THEN "exit0" ELSE "exit1"
  /\ sopen' = FALSE
  /\ dlisten' = FALSE

(* send_async on the control connection: the words are in the socket        *)
(* buffer, or the client is known to be gone.                               *)
CtrlSend(words) == s2c' = IF copen THEN s2c \o words ELSE s2c

(* recv_async returns once n words are there... *)
HasWords(stream, n) == Len(stream) >= n
Rest(stream, n)     == SubSeq(stream, n + 1, Len(stream))

(* ...and fails when the client has closed before. *)
ClientHungUp(n) == ~copen /\ ~HasWords(c2s, n)

-----------------------------------------------------------------------------
ServerListen ==
  /\ ServerAt("listen")
  /\ sopen' = TRUE
  /\ spc' = "dlisten"
  /\ UNCHANGED <<free_list, c2s, s2c, copen, dlisten, creq, estab, oob>>

(* data->listen: rdma_listen, then rai_cm_listen_qp waits for the client's  *)
(* CONNECT_REQUEST and opens the OOB listener before it returns.            *)
DataListen ==
  /\ ServerAt("dlisten")
  /\ dlisten' = TRUE
  /\ spc' = "dwait"
  /\ UNCHANGED <<free_list, sopen, c2s, s2c, copen, creq, estab, oob>>

DataRequest ==
  /\ ServerAt("dwait")
  /\ creq
  /\ spc' = "accept"
  /\ UNCHANGED <<free_list, sopen, c2s, s2c, copen, dlisten, creq, estab, oob>>

(* ctrl->accept: the client connected before it asked for the data path. *)
CtrlAccept ==
  /\ ServerAt("accept")
  /\ spc' = "daccept"
  /\ UNCHANGED <<free_list, sopen, c2s, s2c, copen, dlisten, creq, estab, oob>>

(* data->accept: rdma_accept and the ESTABLISHED event, or another event    *)
(* when the client has gone.                                                *)
DataAccept ==
  /\ ServerAt("daccept")
  /\ \/ /\ copen
        /\ estab' = TRUE
        /\ spc' = "meta"
        /\ UNCHANGED <<sopen, dlisten>>
     \/ /\ ~copen
        /\ Exit(1)
        /\ UNCHANGED estab
  /\ UNCHANGED <<free_list, c2s, s2c, copen, creq, oob>>

(* handshake_meta: one word in, the pool's shape out. *)
HandshakeMeta ==
  /\ ServerAt("meta")
  /\ \/ /\ HasWords(c2s, 1)
        /\ c2s' = Rest(c2s, 1)
        /\ IF Head(c2s) # KV_MSG_META
           THEN Exit(1) /\ UNCHANGED s2c
           ELSE /\ CtrlSend(MetaWords)
                /\ spc' = "setup"
                /\ UNCHANGED <<sopen, dlisten>>
     \/ /\ ClientHungUp(1)
        /\ Exit(1)
        /\ UNCHANGED <<c2s, s2c>>
  /\ UNCHANGED <<free_list, copen, creq, estab, oob>>

(* pool.mem.resize may throw, sb.init may fail; else every slot is free. *)
Setup ==
  /\ ServerAt("setup")
  /\ \/ /\ free_list' = [i \in 1..NumSlots |-> i - 1]
        /\ spc' = "exchange"
        /\ UNCHANGED <<sopen, dlisten>>
     \/ /\ MayFail
        /\ Exit(1)
        /\ UNCHANGED free_list
  /\ UNCHANGED <<c2s, s2c, copen, creq, estab, oob>>

(* data->exchange_buf: accept() on the OOB listener blocks until the client *)
(* connects to it, for ever if it never does.  The slab's address and rkey  *)
(* go out, the client's, which are not used, come in.                       *)
ExchangeBuf ==
  /\ ServerAt("exchange")
  /\ oob = "waiting"
  /\ \/ /\ copen
        /\ oob' = "done"
        /\ spc' = "serve"
        /\ UNCHANGED <<sopen, dlisten>>
     \/ /\ ~copen
        /\ Exit(1)
        /\ UNCHANGED oob
  /\ UNCHANGED <<free_list, c2s, s2c, copen, creq, estab>>

(* The process is killed. *)
ServerDies ==
  /\ MayFail /\ ~ServerEnded
  /\ Exit(1)
  /\ UNCHANGED <<free_list, c2s, s2c, copen, creq, estab, oob>>

-----------------------------------------------------------------------------
(* serve: every request is two words, every reply one.                      *)

\* Mutant: the slot is handed out and kept on the free list.
ServeAlloc_NoPop ==
  /\ CtrlSend(<<IF free_list = << >> THEN -1 ELSE Last(free_list)>>)
  /\ UNCHANGED free_list

(* The slot on top of the free list, -1 when there is none. *)
ServeAlloc ==
  IF free_list = << >>
  THEN CtrlSend(<<-1>>) /\ UNCHANGED free_list
  ELSE CtrlSend(<<Last(free_list)>>) /\ free_list' = Front(free_list)

\* Mutant: the freed slot is not pushed back.
ServeFree_Leaks(slot_idx) ==
  /\ CtrlSend(<<0>>)
  /\ UNCHANGED <<free_list, spc, sopen, dlisten>>

(* Only the range of the index is checked, not whether it is in use. *)
ServeFree(slot_idx) ==
  IF slot_idx \notin Slots
  THEN Exit(1) /\ UNCHANGED <<free_list, s2c>>
  ELSE /\ CtrlSend(<<0>>)
       /\ free_list' = Append(free_list, slot_idx)
       /\ UNCHANGED <<spc, sopen, dlisten>>

(* sizeof(ctrl_buf.msg) in words. *)
RequestLen == 2

ServeRequest ==
  /\ ServerAt("serve")
  /\ HasWords(c2s, RequestLen)
  /\ c2s' = Rest(c2s, RequestLen)
  /\ CASE c2s[1] = KV_MSG_ALLOC -> ServeAlloc /\ UNCHANGED <<spc, sopen, dlisten>>
       [] c2s[1] = KV_MSG_FREE  -> ServeFree(c2s[2])
       [] OTHER                 -> Exit(1) /\ UNCHANGED <<free_list, s2c>>
  /\ UNCHANGED <<copen, creq, estab, oob>>

\* Mutant: the end of the stream is not noticed and the server reads on.
ServeHangup_Ignored ==
  /\ ServerAt("serve")
  /\ ClientHungUp(RequestLen)
  /\ UNCHANGED kvvars

(* A failed receive is a client that has finished: exit 0. *)
ServeHangup ==
  /\ ServerAt("serve")
  /\ ClientHungUp(RequestLen)
  /\ Exit(0)
  /\ UNCHANGED <<free_list, c2s, s2c, copen, creq, estab, oob>>

(* The list is changed, then the reply cannot be sent: the client has gone. *)
ServeSendFails ==
  /\ ServerAt("serve")
  /\ HasWords(c2s, RequestLen) /\ ~copen
  /\ Exit(1)
  /\ c2s' = Rest(c2s, RequestLen)
  /\ free_list' = CASE c2s[1] = KV_MSG_ALLOC /\ free_list # << >> -> Front(free_list)
                    [] c2s[1] = KV_MSG_FREE /\ c2s[2] \in Slots -> Append(free_list, c2s[2])
                    [] OTHER -> free_list
  /\ UNCHANGED <<s2c, copen, creq, estab, oob>>

ServerStart ==
  ServerListen \/ DataListen \/ DataRequest \/ CtrlAccept \/ DataAccept
  \/ HandshakeMeta \/ Setup \/ ExchangeBuf

Serve == ServeRequest \/ ServeHangup \/ ServeSendFails
=============================================================================
