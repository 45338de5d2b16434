------------------------------- MODULE KvPool -------------------------------
(***************************************************************************)
(* The serving loop of kv_server against every client that keeps to the     *)
(* protocol of kv_alloc and kv_free (phase4_kv_cache/bench/kv_bench.cpp):   *)
(* one request at a time, frees of slots it holds, any number and order of  *)
(* them, and a process that may end at any moment, also between a request   *)
(* and its reply.                                                           *)
(***************************************************************************)
EXTENDS KvServer

VARIABLES client, \* where the client is
          held,   \* the slots it holds
          asked   \* the slot its pending FREE names

poolVars == <<spc, free_list, c2s, s2c, copen, sopen, dlisten, creq, estab, oob,
              client, held, asked>>

PoolPCs == {"idle", "alloc", "free", "gone"}

PoolTypeOK ==
  /\ ServerType
  /\ client \in PoolPCs
  /\ held \subseteq Slots
  /\ asked \in Slots

(* Both sides have been through start-up (see KvBench). *)
PoolInit ==
  /\ spc = "serve"
  /\ free_list = [j \in 1..NumSlots |-> j - 1]
  /\ c2s = << >> /\ s2c = << >>
  /\ copen = TRUE /\ sopen = TRUE
  /\ dlisten = TRUE /\ creq = TRUE /\ estab = TRUE /\ oob = "done"
  /\ client = "idle"
  /\ held = {}
  /\ asked = 0

ClientUnchanged == UNCHANGED <<spc, free_list, copen, sopen, dlisten, creq, estab, oob>>

(* kv_alloc, first half: type and an unused word. *)
PoolAlloc ==
  /\ client = "idle"
  /\ c2s' = c2s \o <<KV_MSG_ALLOC, 0>>
  /\ client' = "alloc"
  /\ UNCHANGED <<s2c, held, asked>>
  /\ ClientUnchanged

(* Second half: -1 is no slot. *)
PoolAllocReply ==
  /\ client = "alloc" /\ HasWords(s2c, 1)
  /\ s2c' = Rest(s2c, 1)
  /\ held' = IF Head(s2c) = -1 THEN held ELSE held \cup {Head(s2c)}
  /\ client' = "idle"
  /\ UNCHANGED <<c2s, asked>>
  /\ ClientUnchanged

(* kv_free, first half. *)
PoolFree(j) ==
  /\ client = "idle" /\ j \in held
  /\ c2s' = c2s \o <<KV_MSG_FREE, j>>
  /\ held' = held \ {j}
  /\ asked' = j
  /\ client' = "free"
  /\ UNCHANGED s2c
  /\ ClientUnchanged

(* Second half: any ack but 0 is an error and the client ends. *)
PoolFreeReply ==
  /\ client = "free" /\ HasWords(s2c, 1)
  /\ s2c' = Rest(s2c, 1)
  /\ IF Head(s2c) = 0 THEN client' = "idle" /\ UNCHANGED copen
                      ELSE client' = "gone" /\ copen' = FALSE
  /\ UNCHANGED <<c2s, held, asked, spc, free_list, sopen, dlisten, creq, estab, oob>>

(* The client ends, or loses the server. *)
ClientGone ==
  /\ client # "gone"
  /\ client' = "gone"
  /\ copen' = FALSE
  /\ UNCHANGED <<c2s, s2c, held, asked, spc, free_list, sopen, dlisten, creq, estab, oob>>

PoolClient == PoolAlloc \/ PoolAllocReply \/ (\E j \in Slots : PoolFree(j)) \/ PoolFreeReply

PoolFinished == ServerEnded /\ client = "gone" /\ UNCHANGED poolVars

PoolNext ==
  \/ PoolClient \/ ClientGone
  \/ Serve /\ UNCHANGED <<client, held, asked>>
  \/ PoolFinished

PoolSpec == PoolInit /\ [][PoolNext]_poolVars

-----------------------------------------------------------------------------
(* The slot on its way to the client, and the one on its way back. *)
Granted  == IF client = "alloc" /\ s2c # << >> /\ Head(s2c) # -1 THEN {Head(s2c)} ELSE {}
Returned == IF client = "free" /\ s2c = << >> /\ c2s # << >> THEN {asked} ELSE {}

(* Slab accounting: at every moment every slot is in exactly one place, the *)
(* free list, the client, or one message between them.  No slot is handed   *)
(* out twice and none is lost.                                              *)
SlotsConserved ==
  client # "gone" =>
    /\ IsInjective(free_list)
    /\ ToSet(free_list) \cup held \cup Granted \cup Returned = Slots
    /\ Len(free_list) + Cardinality(held) + Cardinality(Granted)
         + Cardinality(Returned) = NumSlots

(* "-1 if full" and only then. *)
RefusedOnlyWhenFull ==
  client = "alloc" /\ s2c # << >> /\ Head(s2c) = -1 => held = Slots
=============================================================================
