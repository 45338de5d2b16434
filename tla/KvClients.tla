----------------------------- MODULE KvClients -----------------------------
(***************************************************************************)
(* kv_server with either kind of client: kv_bench from its first connect() *)
(* on (KvBench), or any client that keeps to the protocol, once start-up   *)
(* is over (KvPool).  The server is the same module for both.              *)
(***************************************************************************)
EXTENDS KvBench, KvPool

VARIABLE who \* which client this server has: "kv_bench" or "any"

bothVars == <<vars, client, held, asked, who>>

ClientsInit ==
  \/ /\ who = "kv_bench"
     /\ Init
     /\ client = "gone" /\ held = {} /\ asked = 0
  \/ /\ who = "any"
     /\ PoolInit
     /\ cpc = "exit0"
     /\ remote = [num_slots |-> NumSlots, slot_size |-> SlotSize]
     /\ slot = -1 /\ local = Zeros /\ slab = [a \in SlabAddrs |-> 0]
     /\ sq = << >> /\ cq = << >> /\ phase = "check"
     /\ i = 0 /\ posted = 0 /\ polled = 0 /\ start = -1
     /\ depth \in Depths

BenchClient == who = "kv_bench" /\ Next /\ UNCHANGED <<client, held, asked, who>>
AnyClient   == who = "any" /\ PoolNext /\ UNCHANGED <<benchvars, who>>

ClientsNext == BenchClient \/ AnyClient

(* As in KvBench: the threads run and the NIC works.  Nothing is asked of    *)
(* the any-client.                                                          *)
ClientsSpec ==
  /\ ClientsInit /\ [][ClientsNext]_bothVars
  /\ WF_vars(Client) /\ WF_vars(Server) /\ WF_vars(Execute)
=============================================================================
