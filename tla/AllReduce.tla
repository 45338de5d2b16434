----------------------------- MODULE AllReduce ------------------------------
(***************************************************************************)
(* What ring_allreduce promises its caller (collective.hpp: "Ring           *)
(* all-reduce: float32 sum, in-place"), without rings, steps or             *)
(* transports.  A rank enters a call with its own contribution in every     *)
(* chunk and returns with the sum of every rank's contribution to the same  *)
(* call.  Float addition is not associative, so results are compared in     *)
(* summation order: two ranks that hold the result of the same call hold    *)
(* the same floats, bit for bit.                                            *)
(***************************************************************************)
EXTENDS RingChunks

CONSTANT Faulty     \* the ranks that may stop in the middle of anything

VARIABLES st,       \* st[r]: where the caller of rank r is
          call,     \* call[r]: the number of the call r is in or last left
          result    \* result[r]: the buffer as of r's last return

States == {"ready", "in", "out", "done", "failed"}

NoResult == [c \in Chunks |-> << >>]

avars == <<st, call, result>>

Init ==
  /\ st = [r \in Ranks |-> "ready"]
  /\ call = [r \in Ranks |-> 0]
  /\ result = [r \in Ranks |-> NoResult]

(* r calls ring_allreduce. *)
Enter(r) ==
  /\ st[r] = "ready"
  /\ st' = [st EXCEPT ![r] = "in"]
  /\ UNCHANGED <<call, result>>

(* r returns 0: every rank has entered the same call (their contributions   *)
(* are needed), every chunk is the full sum, and r agrees with the ranks    *)
(* that still hold the result of this call.                                 *)
Return(r) ==
  /\ st[r] = "in"
  /\ \A q \in Ranks :
       \/ call[q] > call[r]
       \/ call[q] = call[r] /\ st[q] # "ready"
  /\ st' = [st EXCEPT ![r] = "out"]
  /\ \A c \in Chunks : IsSum(result'[r][c], call[r])
  /\ \A q \in Ranks \ {r} :
       /\ result'[q] = result[q]
       /\ st[q] \in {"out", "done"} /\ call[q] = call[r] => result'[r] = result[q]
  /\ UNCHANGED call

(* r's caller overwrites the buffer with its next contribution. *)
Reload(r) ==
  /\ st[r] = "out"
  /\ st' = [st EXCEPT ![r] = "ready"]
  /\ call' = [call EXCEPT ![r] = @ + 1]
  /\ result' = [result EXCEPT ![r] = NoResult]

(* r's caller has all it wanted. *)
Finish(r) ==
  /\ st[r] = "out"
  /\ st' = [st EXCEPT ![r] = "done"]
  /\ UNCHANGED <<call, result>>

(* r gives up, which needs a reason: a rank that left before r was through. *)
Abort(r) ==
  /\ st[r] \in {"ready", "in"}
  /\ \E q \in Ranks \ {r} : st[q] \in {"done", "failed"}
  /\ st' = [st EXCEPT ![r] = "failed"]
  /\ UNCHANGED <<call, result>>

Crash(r) ==
  /\ r \in Faulty
  /\ st[r] \notin {"done", "failed"}
  /\ st' = [st EXCEPT ![r] = "failed"]
  /\ result' = [result EXCEPT ![r] = NoResult]
  /\ UNCHANGED call

Next == \E r \in Ranks : \/ Enter(r) \/ Return(r) \/ Reload(r)
                         \/ Finish(r) \/ Abort(r) \/ Crash(r)

Spec == Init /\ [][Next]_avars
=============================================================================
