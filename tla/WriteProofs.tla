----------------------------- MODULE WriteProofs -----------------------------
(***************************************************************************)
(* Proofs about the programs that use one-sided writes.  WriteStream, for   *)
(* every number of writes and every window: when the doorbell tells the     *)
(* server that the last write has landed, and that the exchange at the end  *)
(* holds both sides until all is reaped.  WritePingPong, for every number   *)
(* of rounds and every width of the doorbell: the 8-bit round number never  *)
(* lets a side mistake an old write for the one it waits for, and no side   *)
(* is stranded.                                                             *)
(***************************************************************************)
EXTENDS WriteStream, WritePingPong, TLAPS

(* The inductive invariant.  Writes are fetched and land in the order of    *)
(* their posts, so the k-th doorbell on the wire belongs to write number    *)
(* landed + k and the k-th one still queued to landed + Len(wire) + k.      *)

\* The counters of the client and of the two NICs.
CountType ==
  /\ scnt \in Nat /\ ccnt \in Nat /\ landed \in Nat /\ acked \in Nat
  /\ ccnt <= acked /\ acked <= landed /\ landed <= scnt /\ scnt <= Total
QueueType ==
  /\ src \in Doorbells /\ mem \in Doorbells
  /\ sq \in Seq(Doorbells) /\ wire \in Seq(Doorbells)
StateType ==
  /\ cpc \in {"stream", "sync", "done", "failed"}
  /\ spc \in {"wait", "sync", "done"}
  /\ prog \in Programs /\ inline \in Inlines

Conserved == landed + Len(wire) + Len(sq) = scnt
InWindow  == scnt <= ccnt + Depth

\* The post copies the payload, or no later one can overtake its fetch.
Exact == inline \/ Depth = 1

\* Then the final doorbell is carried by the last write and by no other.
FinalIsLast ==
  Exact =>
    /\ src = FinalDoorbell => scnt = Total
    /\ \A k \in 1..Len(sq) : sq[k] = FinalDoorbell => landed + Len(wire) + k = Total
    /\ \A k \in 1..Len(wire) : wire[k] = FinalDoorbell => landed + k = Total
    /\ mem = FinalDoorbell => landed = Total
    /\ spc # "wait" => landed = Total

\* The client leaves its loop with all of its writes reaped, and where the
\* two sides meet they leave together.
Meeting ==
  /\ cpc \in {"sync", "done"} => ccnt = Total
  /\ Sync => (spc = "done" <=> cpc = "done") /\ cpc # "failed"

IInv == CountType /\ QueueType /\ StateType /\ Conserved /\ InWindow /\ FinalIsLast /\ Meeting

-----------------------------------------------------------------------------
(* The programs: the windows and the final doorbell they use.                 *)
LEMMA Parameters ==
  ASSUME StateType
  PROVE  /\ Total \in Nat /\ Total >= 1 /\ Depth \in Nat /\ Depth >= 1
         /\ FinalDoorbell \in Doorbells /\ FinalDoorbell # 0
         /\ ~Sync => Depth = 1 /\ Numbered
         /\ Sync <=> ~Numbered
<1>1. prog = "bw" \/ prog = "compare"
  BY StreamAssumption DEF StateType
<1>2. Total \in Nat /\ Total >= 1 /\ Window \in Nat /\ Window >= 1
  BY StreamAssumption
<1> QED BY <1>1, <1>2 DEF Depth, FinalDoorbell, Doorbells, Sync, Numbered

(* What an append does to a queue of doorbells.                               *)
LEMMA Appended ==
  ASSUME NEW q \in Seq(Doorbells), NEW d \in Doorbells
  PROVE  /\ Append(q, d) \in Seq(Doorbells)
         /\ Len(q) \in Nat /\ Len(Append(q, d)) = Len(q) + 1
         /\ \A k \in 1..Len(q) : Append(q, d)[k] = q[k]
         /\ Append(q, d)[Len(q) + 1] = d
  OBVIOUS

(* And what taking its head does.                                             *)
LEMMA Taken ==
  ASSUME NEW q \in Seq(Doorbells), q # << >>
  PROVE  /\ Tail(q) \in Seq(Doorbells) /\ Head(q) \in Doorbells /\ Head(q) = q[1]
         /\ Len(q) \in Nat /\ Len(q) >= 1 /\ Len(Tail(q)) = Len(q) - 1
         /\ \A k \in 1..Len(Tail(q)) : k + 1 \in 1..Len(q) /\ Tail(q)[k] = q[k + 1]
  OBVIOUS

(* Both programs start with cleared doorbells, and 0 is final in neither.     *)
LEMMA InitInv == Init => IInv
<1> SUFFICES ASSUME Init PROVE IInv
  OBVIOUS
<1>1. CountType /\ StateType
  BY StreamAssumption DEF Init, CountType, StateType
<1>2. QueueType
  BY <1>1, Parameters DEF Init, QueueType, Doorbells
<1>3. Conserved /\ InWindow
  BY <1>1, Parameters DEF Init, Conserved, InWindow
<1>4. FinalIsLast
  BY <1>1, Parameters DEF Init, FinalIsLast
<1>5. Meeting
  BY DEF Init, Meeting
<1> QED BY <1>1, <1>2, <1>3, <1>4, <1>5 DEF IInv

-----------------------------------------------------------------------------
(* A post numbers its write with the next number and queues it last; only     *)
(* the last one is posted with the final doorbell.                            *)
LEMMA PostKeeps ==
  ASSUME IInv, Post
  PROVE  IInv'
<1>0. CountType /\ QueueType /\ StateType /\ Conserved /\ InWindow /\ FinalIsLast /\ Meeting
  BY DEF IInv
<1>1. /\ cpc = "stream" /\ scnt < Total /\ scnt - ccnt < Depth
      /\ src' = Doorbell(scnt + 1) /\ sq' = Append(sq, src') /\ scnt' = scnt + 1
      /\ UNCHANGED <<cpc, ccnt, wire, landed, acked, mem, spc, prog, inline>>
  BY DEF Post, WindowOpen
<1>2. UNCHANGED <<Depth, Numbered, Sync, FinalDoorbell, Exact>>
  BY <1>1 DEF Depth, Numbered, Sync, FinalDoorbell, Exact
<1>3. Total \in Nat /\ Depth \in Nat /\ scnt \in Nat /\ ccnt \in Nat /\ landed \in Nat
  BY <1>0, Parameters DEF CountType
<1>4. src' \in Doorbells /\ (src' = FinalDoorbell => src = FinalDoorbell \/ scnt + 1 = Total)
  BY <1>0, <1>1, <1>3, Parameters DEF Doorbell, Doorbells, QueueType, FinalDoorbell
<1>5. /\ sq' \in Seq(Doorbells) /\ Len(sq) \in Nat /\ Len(sq') = Len(sq) + 1
      /\ \A k \in 1..Len(sq) : sq'[k] = sq[k]
      /\ sq'[Len(sq) + 1] = src'
  BY <1>0, <1>1, <1>4, Appended DEF QueueType
<1>6. Len(wire) \in Nat /\ Len(wire') = Len(wire)
  BY <1>0, <1>1 DEF QueueType
<1>7. CountType' /\ QueueType' /\ StateType' /\ InWindow'
  BY <1>0, <1>1, <1>2, <1>3, <1>4, <1>5
  DEF CountType, QueueType, StateType, InWindow
<1>8. Conserved'
  <2>1. landed + Len(wire) + Len(sq) = scnt
    BY <1>0 DEF Conserved
  <2>2. landed + Len(wire) + (Len(sq) + 1) = scnt + 1
    BY <1>3, <1>5, <1>6, <2>1
  <2>3. landed' + Len(wire') + Len(sq') = scnt'
    BY <1>1, <1>5, <1>6, <2>2
  <2> QED BY <2>3 DEF Conserved
<1>9. FinalIsLast'
  <2> SUFFICES ASSUME Exact
               PROVE  /\ src' = FinalDoorbell => scnt' = Total
                      /\ \A k \in 1..Len(sq') :
                           sq'[k] = FinalDoorbell => landed + Len(wire) + k = Total
    BY <1>0, <1>1, <1>2, <1>6 DEF FinalIsLast
  <2>1. src' = FinalDoorbell => scnt + 1 = Total
    BY <1>0, <1>1, <1>3, <1>4 DEF FinalIsLast
  <2>2. ASSUME NEW k \in 1..Len(sq'), sq'[k] = FinalDoorbell
        PROVE  landed + Len(wire) + k = Total
    <3>1. CASE k \in 1..Len(sq)
      BY <1>0, <1>5, <2>2, <3>1 DEF FinalIsLast
    <3>2. CASE k = Len(sq) + 1
      BY <1>0, <1>3, <1>5, <1>6, <2>1, <2>2, <3>2 DEF Conserved
    <3> QED BY <1>5, <3>1, <3>2
  <2> QED BY <1>1, <2>1, <2>2
<1>10. Meeting'
  BY <1>0, <1>1, <1>2 DEF Meeting
<1> QED BY <1>7, <1>8, <1>9, <1>10 DEF IInv

(* Reaping moves the window only.                                             *)
LEMMA ReapKeeps ==
  ASSUME IInv, Reap
  PROVE  IInv'
<1>0. CountType /\ QueueType /\ StateType /\ Conserved /\ InWindow /\ FinalIsLast /\ Meeting
  BY DEF IInv
<1>1. /\ cpc = "stream"
      /\ cpc' = IF ccnt' >= Total THEN IF Sync THEN "sync" ELSE "done" ELSE "stream"
      /\ UNCHANGED <<scnt, src, sq, wire, landed, acked, mem, spc, prog, inline>>
  BY DEF Reap
<1>2. UNCHANGED <<Depth, Numbered, Sync, FinalDoorbell, Exact>>
  BY <1>1 DEF Depth, Numbered, Sync, FinalDoorbell, Exact
<1>3. Total \in Nat /\ Depth \in Nat /\ scnt \in Nat /\ acked \in Nat /\ landed \in Nat
  BY <1>0, Parameters DEF CountType
<1>4. PICK ne \in 1..(acked - ccnt) : ccnt' = ccnt + ne
  BY DEF Reap, Reapable
<1>5. CountType' /\ InWindow'
  BY <1>0, <1>1, <1>2, <1>3, <1>4 DEF CountType, InWindow
<1>c. QueueType' /\ StateType' /\ Conserved' /\ FinalIsLast'
  BY <1>0, <1>1, <1>2 DEF QueueType, StateType, Conserved, FinalIsLast
<1>6. Meeting'
  <2>1. cpc' # "failed" /\ (cpc' \in {"sync", "done"} => ccnt' = Total)
    BY <1>0, <1>1, <1>3, <1>4 DEF CountType
  <2>2. Sync => cpc' # "done"
    BY <1>1
  <2> QED BY <1>0, <1>1, <1>2, <2>1, <2>2 DEF Meeting
<1> QED BY <1>5, <1>c, <1>6 DEF IInv

(* A write that fails does so only where the two sides do not meet: there     *)
(* the server cannot have gone while the client still streams.                *)
LEMMA WriteFailsKeeps ==
  ASSUME IInv, WriteFails
  PROVE  IInv'
<1>0. CountType /\ QueueType /\ StateType /\ Conserved /\ InWindow /\ FinalIsLast /\ Meeting
  BY DEF IInv
<1>1. /\ cpc = "stream" /\ spc = "done" /\ cpc' = "failed"
      /\ UNCHANGED <<scnt, ccnt, src, sq, wire, landed, acked, mem, spc, prog, inline>>
  BY DEF WriteFails
<1>2. UNCHANGED <<Depth, Numbered, Sync, FinalDoorbell, Exact>>
  BY <1>1 DEF Depth, Numbered, Sync, FinalDoorbell, Exact
<1>3. ~Sync
  BY <1>0, <1>1 DEF Meeting
<1>4. CountType' /\ QueueType' /\ StateType' /\ Conserved' /\ InWindow' /\ FinalIsLast'
  BY <1>0, <1>1, <1>2
  DEF CountType, QueueType, StateType, Conserved, InWindow, FinalIsLast
<1>5. Meeting'
  BY <1>1, <1>2, <1>3 DEF Meeting
<1> QED BY <1>4, <1>5 DEF IInv

(* The server goes on when it sees the final doorbell, which where it is      *)
(* exact only the last write brings.                                          *)
LEMMA ServerSeesKeeps ==
  ASSUME IInv, ServerSees
  PROVE  IInv'
<1>0. CountType /\ QueueType /\ StateType /\ Conserved /\ InWindow /\ FinalIsLast /\ Meeting
  BY DEF IInv
<1>1. /\ spc = "wait" /\ mem = FinalDoorbell /\ spc' = IF Sync THEN "sync" ELSE "done"
      /\ UNCHANGED <<cpc, scnt, ccnt, src, sq, wire, landed, acked, mem, prog, inline>>
  BY DEF ServerSees, SeesDoorbell
<1>2. UNCHANGED <<Depth, Numbered, Sync, FinalDoorbell, Exact>>
  BY <1>1 DEF Depth, Numbered, Sync, FinalDoorbell, Exact
<1>3. CountType' /\ QueueType' /\ StateType' /\ Conserved' /\ InWindow' /\ FinalIsLast'
  BY <1>0, <1>1, <1>2
  DEF CountType, QueueType, StateType, Conserved, InWindow, FinalIsLast
<1>4. Meeting'
  BY <1>0, <1>1, <1>2 DEF Meeting
<1> QED BY <1>3, <1>4 DEF IInv

(* Both sides leave together, all writes reaped.                              *)
LEMMA SyncKeeps ==
  ASSUME IInv, TeardownSync
  PROVE  IInv'
<1>0. CountType /\ QueueType /\ StateType /\ Conserved /\ InWindow /\ FinalIsLast /\ Meeting
  BY DEF IInv
<1>1. /\ cpc = "sync" /\ spc = "sync" /\ cpc' = "done" /\ spc' = "done"
      /\ UNCHANGED <<scnt, ccnt, src, sq, wire, landed, acked, mem, prog, inline>>
  BY DEF TeardownSync
<1>2. UNCHANGED <<Depth, Numbered, Sync, FinalDoorbell, Exact>>
  BY <1>1 DEF Depth, Numbered, Sync, FinalDoorbell, Exact
<1>3. CountType' /\ QueueType' /\ StateType' /\ Conserved' /\ InWindow' /\ FinalIsLast'
  BY <1>0, <1>1, <1>2
  DEF CountType, QueueType, StateType, Conserved, InWindow, FinalIsLast
<1>4. Meeting'
  BY <1>0, <1>1, <1>2 DEF Meeting
<1> QED BY <1>3, <1>4 DEF IInv

-----------------------------------------------------------------------------
(* The fetch.  Without a copy the NIC reads the source buffer as it is now:   *)
(* with one write out that is still the doorbell of this very write.          *)
LEMMA FetchKeeps ==
  ASSUME IInv, Fetch
  PROVE  IInv'
<1>0. CountType /\ QueueType /\ StateType /\ Conserved /\ InWindow /\ FinalIsLast /\ Meeting
  BY DEF IInv
<1> DEFINE d == IF inline THEN Head(sq) ELSE src
<1>1. /\ sq # << >> /\ wire' = Append(wire, d) /\ sq' = Tail(sq)
      /\ UNCHANGED <<cpc, scnt, ccnt, src, landed, acked, mem, spc, prog, inline>>
  BY DEF Fetch
<1>2. UNCHANGED <<Depth, Numbered, Sync, FinalDoorbell, Exact>>
  BY <1>1 DEF Depth, Numbered, Sync, FinalDoorbell, Exact
<1>3. Total \in Nat /\ Depth \in Nat /\ scnt \in Nat /\ ccnt \in Nat /\ landed \in Nat
  BY <1>0, Parameters DEF CountType
<1>4. /\ sq' \in Seq(Doorbells) /\ Head(sq) \in Doorbells /\ Head(sq) = sq[1]
      /\ Len(sq) \in Nat /\ Len(sq) >= 1 /\ Len(sq') = Len(sq) - 1
      /\ \A k \in 1..Len(sq') : k + 1 \in 1..Len(sq) /\ sq'[k] = sq[k + 1]
  BY <1>0, <1>1, Taken DEF QueueType
<1>5. d \in Doorbells
  BY <1>0, <1>4 DEF QueueType
<1> HIDE DEF d
<1>6. /\ wire' \in Seq(Doorbells) /\ Len(wire) \in Nat /\ Len(wire') = Len(wire) + 1
      /\ \A k \in 1..Len(wire) : wire'[k] = wire[k]
      /\ wire'[Len(wire) + 1] = d
  BY <1>0, <1>1, <1>5, Appended DEF QueueType
<1>7. CountType' /\ QueueType' /\ StateType' /\ InWindow' /\ Meeting'
  BY <1>0, <1>1, <1>2, <1>4, <1>6
  DEF CountType, QueueType, StateType, InWindow, Meeting
<1>8. Conserved'
  <2>1. Len(wire) \in Nat /\ Len(wire') = Len(wire) + 1
    BY <1>6
  <2>2. Len(sq) \in Nat /\ Len(sq') = Len(sq) - 1
    BY <1>4
  <2>3. landed + Len(wire) + Len(sq) = scnt /\ landed' = landed /\ scnt' = scnt
    BY <1>0, <1>1 DEF Conserved
  <2> QED BY <1>3, <2>1, <2>2, <2>3 DEF Conserved
<1>9. FinalIsLast'
  <2> SUFFICES ASSUME Exact
               PROVE  /\ \A k \in 1..Len(sq') :
                           sq'[k] = FinalDoorbell => landed + Len(wire') + k = Total
                      /\ \A k \in 1..Len(wire') :
                           wire'[k] = FinalDoorbell => landed + k = Total
    BY <1>0, <1>1, <1>2 DEF FinalIsLast
  <2>1. ASSUME NEW k \in 1..Len(sq'), sq'[k] = FinalDoorbell
        PROVE  landed + Len(wire') + k = Total
    <3>1. k \in Nat /\ k + 1 \in 1..Len(sq) /\ sq[k + 1] = FinalDoorbell
      BY <1>4, <2>1
    <3>2. landed + Len(wire) + (k + 1) = Total
      BY <1>0, <3>1 DEF FinalIsLast
    <3> QED BY <1>3, <1>6, <3>1, <3>2
  <2>2. d = FinalDoorbell => landed + Len(wire) + 1 = Total
    <3>1. CASE inline
      BY <1>0, <1>4, <3>1 DEF FinalIsLast, d
    <3>2. CASE ~inline
      <4>1. Depth = 1 /\ (d = FinalDoorbell => scnt = Total)
        BY <1>0, <3>2 DEF FinalIsLast, d, Exact
      <4>2. scnt <= landed + 1
        BY <1>0, <1>3, <4>1 DEF InWindow, CountType
      <4> QED BY <1>0, <1>3, <1>4, <1>6, <4>1, <4>2 DEF Conserved
    <3> QED BY <3>1, <3>2
  <2>3. ASSUME NEW k \in 1..Len(wire'), wire'[k] = FinalDoorbell
        PROVE  landed + k = Total
    <3>1. CASE k \in 1..Len(wire)
      BY <1>0, <1>6, <2>3, <3>1 DEF FinalIsLast
    <3>2. CASE k = Len(wire) + 1
      BY <1>3, <1>6, <2>2, <2>3, <3>2
    <3> QED BY <1>6, <3>1, <3>2
  <2> QED BY <2>1, <2>3
<1> QED BY <1>7, <1>8, <1>9 DEF IInv

(* The write that lands is number landed + 1.                                 *)
LEMMA LandKeeps ==
  ASSUME IInv, Land
  PROVE  IInv'
<1>0. CountType /\ QueueType /\ StateType /\ Conserved /\ InWindow /\ FinalIsLast /\ Meeting
  BY DEF IInv
<1>1. /\ wire # << >> /\ spc # "done" /\ mem' = Head(wire) /\ wire' = Tail(wire)
      /\ landed' = landed + 1
      /\ UNCHANGED <<cpc, scnt, ccnt, src, sq, acked, spc, prog, inline>>
  BY DEF Land
<1>2. UNCHANGED <<Depth, Numbered, Sync, FinalDoorbell, Exact>>
  BY <1>1 DEF Depth, Numbered, Sync, FinalDoorbell, Exact
<1>3. Total \in Nat /\ scnt \in Nat /\ landed \in Nat /\ landed <= scnt /\ scnt <= Total
  BY <1>0, Parameters DEF CountType
<1>4. /\ wire' \in Seq(Doorbells) /\ Head(wire) \in Doorbells /\ Head(wire) = wire[1]
      /\ Len(wire) \in Nat /\ Len(wire) >= 1 /\ Len(wire') = Len(wire) - 1
      /\ \A k \in 1..Len(wire') : k + 1 \in 1..Len(wire) /\ wire'[k] = wire[k + 1]
  BY <1>0, <1>1, Taken DEF QueueType
<1>5. Len(sq) \in Nat /\ Len(sq') = Len(sq)
  BY <1>0, <1>1 DEF QueueType
<1>6. landed + 1 <= scnt
  BY <1>0, <1>3, <1>4, <1>5 DEF Conserved
<1>7. CountType' /\ QueueType' /\ StateType' /\ InWindow' /\ Meeting'
  BY <1>0, <1>1, <1>2, <1>4, <1>6
  DEF CountType, QueueType, StateType, InWindow, Meeting
<1>8. Conserved'
  BY <1>0, <1>1, <1>3, <1>4, <1>5 DEF Conserved
<1>9. FinalIsLast'
  <2> SUFFICES ASSUME Exact
               PROVE  /\ \A k \in 1..Len(sq) :
                           sq[k] = FinalDoorbell => (landed + 1) + Len(wire') + k = Total
                      /\ \A k \in 1..Len(wire') :
                           wire'[k] = FinalDoorbell => (landed + 1) + k = Total
                      /\ mem' = FinalDoorbell => landed + 1 = Total
                      /\ spc # "wait" => landed + 1 = Total
    BY <1>0, <1>1, <1>2, <1>5 DEF FinalIsLast
  <2>1. ASSUME NEW k \in 1..Len(sq), sq[k] = FinalDoorbell
        PROVE  (landed + 1) + Len(wire') + k = Total
    <3>1. landed + Len(wire) + k = Total
      BY <1>0, <2>1 DEF FinalIsLast
    <3>2. Len(wire) \in Nat /\ Len(wire') = Len(wire) - 1 /\ k \in Nat
      BY <1>4, <1>5
    <3> QED BY <1>3, <3>1, <3>2
  <2>2. ASSUME NEW k \in 1..Len(wire'), wire'[k] = FinalDoorbell
        PROVE  (landed + 1) + k = Total
    <3>1. k \in Nat /\ k + 1 \in 1..Len(wire) /\ wire[k + 1] = FinalDoorbell
      BY <1>4, <2>2
    <3>2. landed + (k + 1) = Total
      BY <1>0, <3>1 DEF FinalIsLast
    <3> QED BY <1>3, <3>1, <3>2
  <2>3. mem' = FinalDoorbell => landed + 1 = Total
    BY <1>0, <1>1, <1>4 DEF FinalIsLast
  <2>4. spc # "wait" => landed + 1 = Total
    BY <1>0, <1>3, <1>6 DEF FinalIsLast
  <2> QED BY <2>1, <2>2, <2>3, <2>4
<1> QED BY <1>7, <1>8, <1>9 DEF IInv

(* An acknowledgement is of a write that has landed.                          *)
LEMMA AckKeeps ==
  ASSUME IInv, Ack
  PROVE  IInv'
<1>0. CountType /\ QueueType /\ StateType /\ Conserved /\ InWindow /\ FinalIsLast /\ Meeting
  BY DEF IInv
<1>1. /\ acked < landed /\ acked' = acked + 1
      /\ UNCHANGED <<cpc, scnt, ccnt, src, sq, wire, landed, mem, spc, prog, inline>>
  BY DEF Ack
<1>2. UNCHANGED <<Depth, Numbered, Sync, FinalDoorbell, Exact>>
  BY <1>1 DEF Depth, Numbered, Sync, FinalDoorbell, Exact
<1>3. CountType' /\ QueueType' /\ StateType' /\ Conserved' /\ InWindow' /\ FinalIsLast' /\ Meeting'
  BY <1>0, <1>1, <1>2
  DEF CountType, QueueType, StateType, Conserved, InWindow, FinalIsLast, Meeting
<1> QED BY <1>3 DEF IInv

-----------------------------------------------------------------------------
(* Every step of client, server and NICs keeps the invariant.                 *)
LEMMA NextInv == IInv /\ [Next]_vars => IInv'
<1> SUFFICES ASSUME IInv, [Next]_vars PROVE IInv'
  OBVIOUS
<1>1. CASE Next /\ ~Finished
  BY <1>1, PostKeeps, ReapKeeps, WriteFailsKeeps, ServerSeesKeeps, SyncKeeps, FetchKeeps,
     LandKeeps, AckKeeps
  DEF Next
<1>2. CASE UNCHANGED vars
  BY <1>2
  DEF vars, IInv, CountType, QueueType, StateType, Conserved, InWindow, FinalIsLast, Meeting,
      Depth, Numbered, Sync, FinalDoorbell, Exact
<1> QED BY <1>1, <1>2 DEF Finished

(* It holds throughout every run of either program.                           *)
LEMMA Invariance == Spec => []IInv
  BY InitInv, NextInv, PTL DEF Spec

(* The client never reaps a completion nobody sent, the NICs never lose or    *)
(* invent a write: landed, on the wire and queued add up to the posted ones.  *)
THEOREM TypeCorrect == Spec => []TypeOK
<1>1. IInv => TypeOK
  BY DEF IInv, CountType, QueueType, StateType, Conserved, TypeOK
<1> QED BY <1>1, Invariance, PTL

(* "The doorbell only tells the server that the last write's *data* landed":  *)
(* true for every stream length and window when the post copies the payload   *)
(* or only one write is out.                                                  *)
THEOREM DoorbellMeansLastHolds == Spec => []DoorbellMeansLast
<1>1. IInv => DoorbellMeansLast
  BY DEF IInv, FinalIsLast, Exact, DoorbellMeansLast
<1> QED BY <1>1, Invariance, PTL

(* Where bw_rdma_write's two sides meet at the end, no client fails and none  *)
(* leaves before all of its writes are in the server's memory, whatever the   *)
(* window and however early the server saw the flag.                          *)
THEOREM HeldUntilReapedHolds == Spec => []HeldUntilReaped
<1>1. IInv => HeldUntilReaped
  <2> SUFFICES ASSUME IInv, Sync PROVE HeldUntilReaped
    BY DEF HeldUntilReaped
  <2>1. CountType /\ StateType /\ Meeting
    BY DEF IInv
  <2>2. ccnt = Total => landed = Total
    BY <2>1, Parameters DEF CountType
  <2> QED BY <2>1, <2>2 DEF Meeting, HeldUntilReaped
<1> QED BY <1>1, Invariance, PTL

-----------------------------------------------------------------------------
(* WritePingPong.  In its inductive invariant Sent(p) counts the writes of  *)
(* p that have landed, from where its thread stands; both the round number  *)
(* and the doorbell in memory are then functions of that count.             *)

Sent(p) ==
  IF \/ pc[p] = "spin" /\ p = Client
     \/ pc[p] = "reap" /\ write[p] \in {"landed", "acked"}
  THEN it[p] + 1
  ELSE it[p]

\* A thread in the loop has rounds to go; one that left it has done them all.
RoundsLeft ==
  \A p \in Sides :
    /\ pc[p] \in {"post", "reap", "spin"} => it[p] < Rounds
    /\ pc[p] \in {"sync", "left"} => it[p] = Rounds

\* A write is outstanding exactly between its post and its reap.
OneWrite ==
  \A p \in Sides : write[p] = "idle" <=> pc[p] # "reap"

\* What is posted, fetched and landed is the number of the round.
BellNumbers ==
  \A p \in Sides :
    /\ pc[p] = "reap" => post_buf[p] = seq(p)
    /\ write[p] \in {"fetched", "landed", "acked"} => bell[p] = seq(p)
    /\ poll_buf[p] = arrived[p] % SeqMod

Counted == \A p \in Sides : arrived[Peer(p)] = Sent(p)

\* The sides take turns: the client is at most one write ahead, and neither
\* starts a write before the one it answers has landed.
Turns ==
  /\ arrived[Client] <= arrived[Server] /\ arrived[Server] <= arrived[Client] + 1
  /\ it[Client] <= arrived[Client]
  /\ it[Server] <= arrived[Server]
  /\ pc[Server] \in {"post", "reap"} => it[Server] + 1 <= arrived[Server]

\* Nobody leaves before both are done, so no acknowledgement is missed.
LeaveTogether ==
  /\ \A p \in Sides : pc[p] # "failed"
  /\ \A p, q \in Sides : pc[p] = "left" => pc[q] = "left"
  /\ \A p \in Sides : write[p] = "acked" => ack[p]

PingInv == PingTypeOK /\ RoundsLeft /\ OneWrite /\ BellNumbers /\ Counted /\ Turns /\ LeaveTogether

-----------------------------------------------------------------------------
(* Two consecutive rounds never have the same number: what makes comparing   *)
(* one byte enough.                                                           *)
LEMMA ConsecutiveDiffer ==
  ASSUME NEW k \in Nat
  PROVE  k % SeqMod # (k + 1) % SeqMod
<1> DEFINE M == SeqMod
           q1 == k \div M
           q2 == (k + 1) \div M
<1>0. M \in Nat /\ M >= 2
  BY WritePingPongAssumption
<1> HIDE DEF M
<1>1. q1 \in Int /\ q2 \in Int /\ k = M * q1 + (k % M) /\ k + 1 = M * q2 + ((k + 1) % M)
  BY <1>0
<1> HIDE DEF q1, q2
<1>2. ASSUME k % M = (k + 1) % M PROVE FALSE
  <2>1. k % M \in Int /\ M * q1 \in Int /\ M * q2 \in Int
    BY <1>0, <1>1
  <2>2. M * q2 = M * q1 + 1
    BY <1>0, <1>1, <1>2, <2>1
  <2>3. CASE q2 <= q1
    <3>1. M * q2 <= M * q1
      BY <1>0, <1>1, <2>3
    <3> QED BY <2>1, <2>2, <3>1
  <2>4. CASE q2 >= q1 + 1
    <3>1. M * q2 >= M * (q1 + 1)
      BY <1>0, <1>1, <2>4
    <3>2. M * (q1 + 1) = M * q1 + M
      BY <1>0, <1>1
    <3> QED BY <1>0, <2>1, <2>2, <3>1, <3>2
  <2> QED BY <1>1, <2>3, <2>4
<1> QED BY <1>2 DEF M

(* The two sides.                                                            *)
LEMMA Pair ==
  /\ Client \in Sides /\ Server \in Sides /\ Client # Server
  /\ Peer(Client) = Server /\ Peer(Server) = Client
  /\ \A p \in Sides : (p = Client \/ p = Server) /\ Peer(p) \in Sides
                      /\ Peer(p) # p /\ Peer(Peer(p)) = p
  BY DEF Sides, Client, Server, Peer

(* A round number is a byte.                                                 *)
LEMMA SeqType ==
  ASSUME NEW k \in Nat
  PROVE  k % SeqMod \in Bytes
  BY WritePingPongAssumption DEF Bytes

(* Before the first post nothing has landed, and both buffers hold the       *)
(* number of round zero, which no round has.                                 *)
LEMMA PingInitInv == PingInit => PingInv
<1> SUFFICES ASSUME PingInit PROVE PingInv
  OBVIOUS
<1>0. 0 % SeqMod = 0 /\ 0 \in Bytes
  BY WritePingPongAssumption DEF Bytes
<1>1. PingTypeOK
  BY <1>0, WritePingPongAssumption DEF PingInit, PingTypeOK
<1>2. RoundsLeft /\ OneWrite /\ LeaveTogether
  BY WritePingPongAssumption DEF PingInit, RoundsLeft, OneWrite, LeaveTogether
<1>3. BellNumbers
  BY <1>0 DEF PingInit, BellNumbers
<1>4. Counted /\ Turns
  BY Pair DEF PingInit, Counted, Sent, Turns
<1> QED BY <1>1, <1>2, <1>3, <1>4 DEF PingInv

-----------------------------------------------------------------------------
(* The statements of the two threads.                                        *)

(* Posting a write starts the outstanding one of this round.                  *)
LEMMA PostWriteKeeps ==
  ASSUME PingInv, NEW p \in Sides, PostWrite(p)
  PROVE  PingInv'
<1>0. PingTypeOK /\ RoundsLeft /\ OneWrite /\ BellNumbers /\ Counted /\ Turns /\ LeaveTogether
  BY DEF PingInv
<1>1. it[p] \in Nat /\ seq(p) \in Bytes
  BY <1>0, SeqType, WritePingPongAssumption DEF PingTypeOK, seq
<1>2. /\ pc[p] = "post" /\ write[p] = "idle"
      /\ pc' = [pc EXCEPT ![p] = "reap"]
      /\ write' = [write EXCEPT ![p] = "posted"]
      /\ post_buf' = [post_buf EXCEPT ![p] = seq(p)]
      /\ UNCHANGED <<it, poll_buf, bell, arrived, ack>>
  BY <1>0 DEF PostWrite, Goto, OneWrite
<1>3. PingTypeOK' /\ RoundsLeft' /\ OneWrite' /\ LeaveTogether'
  BY <1>0, <1>1, <1>2 DEF PingTypeOK, RoundsLeft, OneWrite, LeaveTogether
<1>4. BellNumbers'
  BY <1>0, <1>2 DEF BellNumbers, PingTypeOK, seq
<1>5. Counted'
  BY <1>0, <1>2 DEF Counted, Sent, PingTypeOK
<1>6. Turns'
  BY <1>0, <1>2, Pair DEF Turns, PingTypeOK
<1> QED BY <1>3, <1>4, <1>5, <1>6 DEF PingInv

(* Reaping finds the acknowledgement good; the server's round ends with it.  *)
LEMMA ReapWriteKeeps ==
  ASSUME PingInv, NEW p \in Sides, ReapWrite(p)
  PROVE  PingInv'
<1>0. PingTypeOK /\ RoundsLeft /\ OneWrite /\ BellNumbers /\ Counted /\ Turns /\ LeaveTogether
  BY DEF PingInv
<1>1. /\ pc[p] = "reap" /\ write[p] = "acked" /\ ack[p]
      /\ it[p] < Rounds /\ it[p] \in Nat /\ Rounds \in Nat
      /\ write' = [write EXCEPT ![p] = "idle"]
      /\ UNCHANGED <<post_buf, poll_buf, bell, arrived, ack>>
  BY <1>0, WritePingPongAssumption DEF ReapWrite, LeaveTogether, RoundsLeft, PingTypeOK
<1>2. CASE p = Client
  <2>1. pc' = [pc EXCEPT ![p] = "spin"] /\ it' = it
    BY <1>1, <1>2 DEF ReapWrite, Goto
  <2>2. PingTypeOK' /\ RoundsLeft' /\ OneWrite' /\ LeaveTogether'
    BY <1>0, <1>1, <2>1 DEF PingTypeOK, RoundsLeft, OneWrite, LeaveTogether
  <2>3. BellNumbers'
    BY <1>0, <1>1, <2>1 DEF BellNumbers, PingTypeOK, seq
  <2>4. Counted'
    BY <1>0, <1>1, <1>2, <2>1 DEF Counted, Sent, PingTypeOK
  <2>5. Turns'
    BY <1>0, <1>1, <1>2, <2>1, Pair DEF Turns, PingTypeOK
  <2> QED BY <2>2, <2>3, <2>4, <2>5 DEF PingInv
<1>3. CASE p = Server
  <2> DEFINE next == IF it[p] + 1 = Rounds THEN "sync" ELSE "spin"
  <2>1. pc' = [pc EXCEPT ![p] = next] /\ it' = [it EXCEPT ![p] = it[p] + 1]
    BY <1>1, <1>3, Pair DEF ReapWrite, EndRound, Goto
  <2>2. PingTypeOK' /\ RoundsLeft' /\ OneWrite' /\ LeaveTogether'
    BY <1>0, <1>1, <2>1 DEF PingTypeOK, RoundsLeft, OneWrite, LeaveTogether
  <2>3. BellNumbers'
    BY <1>0, <1>1, <2>1 DEF BellNumbers, PingTypeOK, seq
  <2>4. Counted'
    BY <1>0, <1>1, <1>3, <2>1, Pair DEF Counted, Sent, PingTypeOK
  <2>5. Turns'
    BY <1>0, <1>1, <1>3, <2>1, Pair DEF Turns, PingTypeOK
  <2> QED BY <2>2, <2>3, <2>4, <2>5 DEF PingInv
<1> QED BY <1>2, <1>3, Pair

(* A side that sees the doorbell it waits for has exactly this round's write: *)
(* the property itself, needed for the step that acts on it.                  *)
LEMMA SpinExact ==
  ASSUME PingInv
  PROVE  TruncationSafe
<1>0. PingTypeOK /\ BellNumbers /\ Counted /\ Turns
  BY DEF PingInv
<1> SUFFICES ASSUME NEW p \in Sides, pc[p] = "spin", poll_buf[p] = seq(p)
             PROVE  arrived[p] = it[p] + 1
  BY DEF TruncationSafe
<1>1. it[p] \in Nat /\ arrived[Client] \in Nat /\ arrived[Server] \in Nat
  BY <1>0, Pair, WritePingPongAssumption DEF PingTypeOK
<1>2. arrived[p] = it[p] \/ arrived[p] = it[p] + 1
  <2>1. CASE p = Client
    <3>1. arrived[Server] = it[Client] + 1
      BY <1>0, <2>1, Pair DEF Counted, Sent
    <3> QED BY <1>0, <1>1, <2>1, <3>1 DEF Turns
  <2>2. CASE p = Server
    <3>1. arrived[Client] = it[Server]
      BY <1>0, <2>2, Pair DEF Counted, Sent
    <3> QED BY <1>0, <1>1, <2>2, <3>1 DEF Turns
  <2> QED BY <2>1, <2>2, Pair
<1>3. arrived[p] % SeqMod = (it[p] + 1) % SeqMod
  BY <1>0 DEF BellNumbers, seq
<1> QED BY <1>1, <1>2, <1>3, ConsecutiveDiffer

(* The spin ends: the client's round with it, and the server's turn begins.   *)
LEMMA SpinKeeps ==
  ASSUME PingInv, NEW p \in Sides, Spin(p)
  PROVE  PingInv'
<1>0. PingTypeOK /\ RoundsLeft /\ OneWrite /\ BellNumbers /\ Counted /\ Turns /\ LeaveTogether
  BY DEF PingInv
<1>1. /\ pc[p] = "spin" /\ arrived[p] = it[p] + 1
      /\ it[p] < Rounds /\ it[p] \in Nat /\ Rounds \in Nat
      /\ write[p] = "idle"
      /\ UNCHANGED <<post_buf, poll_buf, write, bell, arrived, ack>>
  BY <1>0, SpinExact, WritePingPongAssumption
  DEF Spin, TruncationSafe, RoundsLeft, PingTypeOK, OneWrite
<1>2. CASE p = Client
  <2> DEFINE next == IF it[p] + 1 = Rounds THEN "sync" ELSE "post"
  <2>1. pc' = [pc EXCEPT ![p] = next] /\ it' = [it EXCEPT ![p] = it[p] + 1]
    BY <1>2 DEF Spin, EndRound, Goto
  <2>2. PingTypeOK' /\ RoundsLeft' /\ OneWrite' /\ LeaveTogether'
    BY <1>0, <1>1, <2>1 DEF PingTypeOK, RoundsLeft, OneWrite, LeaveTogether
  <2>3. BellNumbers'
    BY <1>0, <1>1, <2>1 DEF BellNumbers, PingTypeOK, seq
  <2>4. Counted'
    BY <1>0, <1>1, <1>2, <2>1, Pair DEF Counted, Sent, PingTypeOK
  <2>5. Turns'
    BY <1>0, <1>1, <1>2, <2>1, Pair DEF Turns, PingTypeOK
  <2> QED BY <2>2, <2>3, <2>4, <2>5 DEF PingInv
<1>3. CASE p = Server
  <2>1. pc' = [pc EXCEPT ![p] = "post"] /\ it' = it
    BY <1>3, Pair DEF Spin, Goto
  <2>2. PingTypeOK' /\ RoundsLeft' /\ OneWrite' /\ LeaveTogether'
    BY <1>0, <1>1, <2>1 DEF PingTypeOK, RoundsLeft, OneWrite, LeaveTogether
  <2>3. BellNumbers'
    BY <1>0, <1>1, <2>1 DEF BellNumbers, PingTypeOK, seq
  <2>4. Counted'
    BY <1>0, <1>1, <1>3, <2>1, Pair DEF Counted, Sent, PingTypeOK
  <2>5. Turns'
    BY <1>0, <1>1, <1>3, <2>1, Pair DEF Turns, PingTypeOK
  <2> QED BY <2>2, <2>3, <2>4, <2>5 DEF PingInv
<1> QED BY <1>2, <1>3, Pair

(* Both sides leave at the same moment.                                        *)
LEMMA BothSyncKeeps ==
  ASSUME PingInv, BothSync
  PROVE  PingInv'
<1>0. PingTypeOK /\ RoundsLeft /\ OneWrite /\ BellNumbers /\ Counted /\ Turns /\ LeaveTogether
  BY DEF PingInv
<1>1. PingTypeOK' /\ RoundsLeft' /\ OneWrite' /\ LeaveTogether'
  BY <1>0 DEF BothSync, PingTypeOK, RoundsLeft, OneWrite, LeaveTogether
<1>2. BellNumbers' /\ Counted' /\ Turns'
  BY <1>0, Pair DEF BothSync, PingTypeOK, BellNumbers, Counted, Sent, Turns, seq
<1> QED BY <1>1, <1>2 DEF PingInv

-----------------------------------------------------------------------------
(* The steps of the NICs.                                                     *)

(* What is fetched is what was posted: the thread is still reaping.            *)
LEMMA FetchWriteKeeps ==
  ASSUME PingInv, NEW p \in Sides, FetchWrite(p)
  PROVE  PingInv'
<1>0. PingTypeOK /\ RoundsLeft /\ OneWrite /\ BellNumbers /\ Counted /\ Turns /\ LeaveTogether
  BY DEF PingInv
<1>1. pc[p] = "reap"
  BY <1>0 DEF FetchWrite, OneWrite
<1>2. PingTypeOK' /\ RoundsLeft' /\ OneWrite' /\ LeaveTogether'
  BY <1>0 DEF FetchWrite, PingTypeOK, RoundsLeft, OneWrite, LeaveTogether
<1>3. BellNumbers'
  BY <1>0, <1>1 DEF FetchWrite, BellNumbers, PingTypeOK, seq
<1>4. Counted'
  BY <1>0 DEF FetchWrite, Counted, Sent, PingTypeOK
<1>5. Turns'
  BY <1>0 DEF FetchWrite, Turns
<1> QED BY <1>2, <1>3, <1>4, <1>5 DEF PingInv

(* A landing write is the next one of its side and overwrites a doorbell the  *)
(* other side has already acted on.                                           *)
LEMMA LandWriteKeeps ==
  ASSUME PingInv, NEW p \in Sides, LandWrite(p)
  PROVE  PingInv'
<1>0. PingTypeOK /\ RoundsLeft /\ OneWrite /\ BellNumbers /\ Counted /\ Turns /\ LeaveTogether
  BY DEF PingInv
<1>p. Peer(p) \in Sides /\ Peer(p) # p /\ Peer(Peer(p)) = p
  BY Pair
<1>1. /\ pc[p] = "reap" /\ write[p] = "fetched" /\ bell[p] = (it[p] + 1) % SeqMod
      /\ it[p] < Rounds /\ it[p] \in Nat /\ Rounds \in Nat
      /\ arrived[Peer(p)] = it[p]
  BY <1>0, <1>p, WritePingPongAssumption
  DEF LandWrite, OneWrite, BellNumbers, seq, RoundsLeft, PingTypeOK, Counted, Sent
<1>2. /\ poll_buf' = [poll_buf EXCEPT ![Peer(p)] = bell[p]]
      /\ arrived' = [arrived EXCEPT ![Peer(p)] = it[p] + 1]
      /\ write' = [write EXCEPT ![p] = "landed"]
      /\ UNCHANGED <<pc, it, post_buf, bell, ack>>
  BY <1>1 DEF LandWrite
<1>3. PingTypeOK' /\ RoundsLeft' /\ OneWrite' /\ LeaveTogether'
  BY <1>0, <1>1, <1>2, <1>p DEF PingTypeOK, RoundsLeft, OneWrite, LeaveTogether
<1>4. BellNumbers'
  BY <1>0, <1>1, <1>2, <1>p DEF BellNumbers, PingTypeOK, seq
<1>5. Counted'
  <2> SUFFICES ASSUME NEW q \in Sides PROVE arrived'[Peer(q)] = Sent(q)'
    BY DEF Counted
  <2>1. CASE q = p
    BY <1>0, <1>1, <1>2, <1>p, <2>1 DEF Sent, PingTypeOK
  <2>2. CASE q # p
    BY <1>0, <1>2, <1>p, <2>2, Pair DEF Counted, Sent, PingTypeOK
  <2> QED BY <2>1, <2>2
<1>6. Turns'
  <2>1. CASE p = Client
    BY <1>0, <1>1, <1>2, <2>1, Pair, WritePingPongAssumption DEF Turns, PingTypeOK
  <2>2. CASE p = Server
    BY <1>0, <1>1, <1>2, <2>2, Pair, WritePingPongAssumption DEF Turns, PingTypeOK
  <2> QED BY <2>1, <2>2, Pair
<1> QED BY <1>3, <1>4, <1>5, <1>6 DEF PingInv

(* An acknowledgement reports success, since its peer cannot have left.        *)
LEMMA CompleteKeeps ==
  ASSUME PingInv, NEW p \in Sides, Complete(p)
  PROVE  PingInv'
<1>0. PingTypeOK /\ RoundsLeft /\ OneWrite /\ BellNumbers /\ Counted /\ Turns /\ LeaveTogether
  BY DEF PingInv
<1>1. pc[p] = "reap" /\ ~Gone(Peer(p))
  BY <1>0, Pair DEF Complete, OneWrite, LeaveTogether, Gone
<1>2. /\ write[p] = "landed"
      /\ write' = [write EXCEPT ![p] = "acked"]
      /\ ack' = [ack EXCEPT ![p] = TRUE]
      /\ UNCHANGED <<pc, it, post_buf, poll_buf, bell, arrived>>
  BY <1>1 DEF Complete
<1>3. PingTypeOK' /\ RoundsLeft' /\ OneWrite' /\ LeaveTogether'
  BY <1>0, <1>1, <1>2 DEF PingTypeOK, RoundsLeft, OneWrite, LeaveTogether
<1>4. BellNumbers'
  BY <1>0, <1>2 DEF BellNumbers, PingTypeOK, seq
<1>5. Counted'
  BY <1>0, <1>2 DEF Counted, Sent, PingTypeOK
<1>6. Turns'
  BY <1>0, <1>2 DEF Turns
<1> QED BY <1>3, <1>4, <1>5, <1>6 DEF PingInv

-----------------------------------------------------------------------------
(* The invariant is kept whatever thread or NIC takes the next step.          *)
LEMMA PingNextInv == PingInv /\ [PingNext]_pingVars => PingInv'
<1> SUFFICES ASSUME PingInv, [PingNext]_pingVars PROVE PingInv'
  OBVIOUS
<1>1. CASE PingNext /\ ~BothFinished
  BY <1>1, PostWriteKeeps, ReapWriteKeeps, SpinKeeps, FetchWriteKeeps, LandWriteKeeps,
     CompleteKeeps, BothSyncKeeps
  DEF PingNext
<1>2. CASE UNCHANGED pingVars
  BY <1>2 DEF pingVars, PingInv, PingTypeOK, RoundsLeft, OneWrite, BellNumbers, Counted, Sent,
              Turns, LeaveTogether, seq
<1> QED BY <1>1, <1>2 DEF BothFinished

(* It holds throughout every run of lat_rdma_write.                           *)
LEMMA PingInvariance == PingSpec => []PingInv
  BY PingInitInv, PingNextInv, PTL DEF PingSpec

(* "Truncating to 8 bits is safe", for any number of rounds and any width of   *)
(* at least two values: a side that reads the doorbell it waits for has the   *)
(* write of this very round.                                                  *)
THEOREM TruncationSafeHolds == PingSpec => []TruncationSafe
<1>1. PingInv => TruncationSafe
  BY SpinExact
<1> QED BY <1>1, PingInvariance, PTL

(* The teardown exchange keeps both sides until every acknowledgement has      *)
(* been seen: no rai_poll_cq reports a failure.                               *)
THEOREM NobodyStrandedHolds == PingSpec => []NobodyStranded
<1>1. PingInv => NobodyStranded
  BY DEF PingInv, LeaveTogether, NobodyStranded
<1> QED BY <1>1, PingInvariance, PTL
=============================================================================
