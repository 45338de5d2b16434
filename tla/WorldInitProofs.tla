-------------------------- MODULE WorldInitProofs --------------------------
(***************************************************************************)
(* Proofs about WorldInit, for every world size, every number of attempts  *)
(* and every set of ranks that may be absent, fail or time out: the type   *)
(* invariant, and that a rank whose world_init returned 0 really is linked *)
(* to both of its neighbours.                                              *)
(***************************************************************************)
EXTENDS WorldInit, TLAPS

-----------------------------------------------------------------------------
(* The inductive invariant.  world_init's threads never look at each        *)
(* other's state; what one knows of the other is the state of the link.     *)
(* So, for every link, what its two ends may be doing while it is in a      *)
(* given state: m the connecting main thread, a the accepting listener.     *)
EdgeOK(m, a, l, rdma) ==
  /\ a = "deaf" => ~rdma
  /\ l = "none" => m \in {"off", "connect", "join", "failed"}
                   /\ a \in {"off", "listen", "waiting", "error", "deaf"}
  /\ l = "backlog" => ~rdma /\ m \in {"join", "ok"} /\ a \in {"waiting", "deaf"}
  /\ l = "requested" => rdma /\ m = "request" /\ a \in {"waiting", "accept", "error"}
  /\ l = "answered" => rdma /\ m = "request" /\ a = "established"
  /\ l = "rejected" => rdma /\ m = "request" /\ a = "error"
  /\ l = "stale" => rdma /\ m \in {"connect", "join", "failed"}
                    /\ a \in {"waiting", "accept", "established", "error"}
  /\ l = "up" => m \in {"join", "ok"} /\ (a = "done" \/ (rdma /\ a = "established"))
  /\ l = "closed" => /\ m \in {"join", "ok", "failed"}
                     /\ ~rdma => a \in {"waiting", "deaf", "done"}
                     /\ rdma => a = "done" \/ (m = "failed" /\ a \in {"established", "error"})

Edges == \A r \in Rank : EdgeOK(main[r], lst[Right(r)], link[r], use_rdma)

\* A rank that world_init reported ready has seen its own accept succeed.
OkMeansAccepted == \A r \in Rank : main[r] = "ok" => lst[r] = "done"

\* A rank leaves only after its join, and a connection is closed only by an
\* end of it that has left.
Joined(m, a) == m = "failed" => a \in {"done", "error", "deaf"}
LeftJoined == \A r \in Rank : Joined(main[r], lst[r])
ClosedByExit ==
  \A r \in Rank : link[r] = "closed" => main[r] = "failed" \/ main[Right(r)] = "failed"

\* The attempts are counted below the limit for as long as there are more.
TriesLeft ==
  \A r \in Rank : main[r] \in {"off", "connect", "request"} => tries[r] < MaxTries

\* A rank nobody has started has no listener either.
OffTogether == \A r \in Rank : main[r] = "off" => lst[r] = "off"

Exits == LeftJoined /\ ClosedByExit
IInv == TypeOK /\ TriesLeft /\ OffTogether /\ Edges /\ OkMeansAccepted /\ Exits

-----------------------------------------------------------------------------
(* Left and right are inverse moves around the ring, and a rank of a world   *)
(* of two or more is never its own neighbour.                                *)
LEMMA Neighbours ==
  ASSUME NEW r \in Rank
  PROVE  /\ Left(r) \in Rank /\ Right(r) \in Rank
         /\ Right(Left(r)) = r /\ Left(Right(r)) = r
         /\ Right(r) # r /\ Left(r) # r
<1>1. CASE r = 0
  <2>1. Left(r) = N - 1
    BY <1>1, NAssumption DEF Left
  <2>2. Right(r) = 1
    BY <1>1, NAssumption DEF Right
  <2>3. Right(N - 1) = 0
    BY NAssumption DEF Right
  <2>4. Left(1) = 0
    BY NAssumption DEF Left
  <2> QED BY <1>1, <2>1, <2>2, <2>3, <2>4, NAssumption DEF Rank
<1>2. CASE r # 0
  <2>1. Left(r) = r - 1
    BY <1>2, NAssumption DEF Left, Rank
  <2>2. Right(r - 1) = r
    BY <1>2, NAssumption DEF Right, Rank
  <2>3. CASE r = N - 1
    <3>1. Right(r) = 0
      BY <2>3, NAssumption DEF Right
    <3>2. Left(0) = N - 1
      BY NAssumption DEF Left
    <3> QED BY <1>2, <2>1, <2>2, <2>3, <3>1, <3>2, NAssumption DEF Rank
  <2>4. CASE r # N - 1
    <3>1. Right(r) = r + 1
      BY <2>4, NAssumption DEF Right, Rank
    <3>2. Left(r + 1) = r
      BY <2>4, NAssumption DEF Left, Rank
    <3> QED BY <1>2, <2>1, <2>2, <2>4, <3>1, <3>2, NAssumption DEF Rank
  <2> QED BY <2>3, <2>4
<1> QED BY <1>1, <1>2

(* Only one rank has r as its right neighbour: an accept of r's listener     *)
(* cannot be about the connection of any rank but Left(r).                   *)
LEMMA OneCaller ==
  ASSUME NEW r \in Rank, NEW q \in Rank, q # Left(r)
  PROVE  Right(q) # r
  BY Neighbours

(* Before any rank is started there is nothing to contradict.                *)
LEMMA InitInv == Init => IInv
<1> SUFFICES ASSUME Init PROVE IInv
  OBVIOUS
<1>1. TypeOK
  BY TriesAssumption DEF Init, TypeOK, MainState, LstState, LinkState
<1>2. TriesLeft
  BY TriesAssumption DEF Init, TriesLeft
<1>3. Edges
  BY Neighbours DEF Init, Edges, EdgeOK
<1>4. OkMeansAccepted
  BY DEF Init, OkMeansAccepted
<1>5. OffTogether
  BY DEF Init, OffTogether
<1>6. Exits
  BY DEF Init, Exits, LeftJoined, Joined, ClosedByExit
<1> QED BY <1>1, <1>2, <1>3, <1>4, <1>5, <1>6 DEF IInv

(* A failed attempt leaves the thread either with another one to go or at    *)
(* the join: the types and the count are kept.                               *)
LEMMA NextTryKeeps ==
  ASSUME TypeOK, TriesLeft, NEW r \in Rank, NextTry(r),
         main[r] \in {"connect", "request"}
  PROVE  /\ main' \in [Rank -> MainState] /\ tries' \in [Rank -> 0 .. MaxTries]
         /\ TriesLeft'
         /\ main'[r] \in {"connect", "join"}
         /\ \A q \in Rank : q # r => main'[q] = main[q]
<1>1. tries[r] \in 0 .. MaxTries /\ tries[r] < MaxTries
  BY DEF TypeOK, TriesLeft
<1>2. /\ tries' \in [Rank -> 0 .. MaxTries]
      /\ tries'[r] = tries[r] + 1
      /\ \A q \in Rank : q # r => tries'[q] = tries[q]
  BY <1>1, TriesAssumption DEF TypeOK, NextTry
<1>3. /\ main' \in [Rank -> MainState]
      /\ main'[r] = IF tries[r] + 1 < MaxTries THEN "connect" ELSE "join"
      /\ \A q \in Rank : q # r => main'[q] = main[q]
  BY DEF TypeOK, NextTry, MainState
<1>4. TriesLeft'
  BY <1>1, <1>2, <1>3 DEF TriesLeft
<1> QED BY <1>2, <1>3, <1>4

(* A step of r's main thread that keeps the listeners' states is good when    *)
(* it leaves r's own link in a state that fits its two ends.                  *)
LEMMA MainEdge ==
  ASSUME Edges, NEW r \in Rank, lst' = lst, use_rdma' = use_rdma,
         \A q \in Rank : q # r => main'[q] = main[q] /\ link'[q] = link[q],
         EdgeOK(main'[r], lst[Right(r)], link'[r], use_rdma)
  PROVE  Edges'
<1> SUFFICES ASSUME NEW q \in Rank
             PROVE  EdgeOK(main'[q], lst'[Right(q)], link'[q], use_rdma')
  BY DEF Edges
<1>1. CASE q = r
  BY <1>1
<1>2. CASE q # r
  BY <1>2 DEF Edges
<1> QED BY <1>1, <1>2

(* A step of r's listener that keeps the main threads' states is good when    *)
(* it leaves the link from the left neighbour in a state that fits.           *)
LEMMA ListenerEdge ==
  ASSUME Edges, NEW r \in Rank, main' = main, use_rdma' = use_rdma,
         \A q \in Rank : q # r => lst'[q] = lst[q],
         \A q \in Rank : q # Left(r) => link'[q] = link[q],
         EdgeOK(main[Left(r)], lst'[r], link'[Left(r)], use_rdma)
  PROVE  Edges'
<1> SUFFICES ASSUME NEW q \in Rank
             PROVE  EdgeOK(main'[q], lst'[Right(q)], link'[q], use_rdma')
  BY DEF Edges
<1>1. CASE q = Left(r)
  BY <1>1, Neighbours
<1>2. CASE q # Left(r)
  BY <1>2, OneCaller, Neighbours DEF Edges
<1> QED BY <1>1, <1>2

(* A step of a main thread that does not leave closes nothing.                 *)
LEMMA MainExits ==
  ASSUME Exits, NEW r \in Rank, lst' = lst, main[r] # "failed", main'[r] # "failed",
         \A q \in Rank : q # r => main'[q] = main[q] /\ link'[q] = link[q],
         link'[r] = "closed" => link[r] = "closed"
  PROVE  Exits'
<1>1. LeftJoined'
  BY DEF Exits, LeftJoined, Joined
<1>2. ClosedByExit'
  <2> SUFFICES ASSUME NEW q \in Rank, link'[q] = "closed"
               PROVE  main'[q] = "failed" \/ main'[Right(q)] = "failed"
    BY DEF ClosedByExit
  <2>1. link[q] = "closed" /\ Right(q) \in Rank
    BY Neighbours
  <2>2. main[q] = "failed" \/ main[Right(q)] = "failed"
    BY <2>1 DEF Exits, ClosedByExit
  <2> QED BY <2>1, <2>2
<1> QED BY <1>1, <1>2 DEF Exits

(* Nor does a listener, which is still running in a rank that has not left.    *)
LEMMA ListenerExits ==
  ASSUME Exits, NEW r \in Rank, main' = main, lst[r] \notin {"done", "error", "deaf"},
         \A q \in Rank : q # r => lst'[q] = lst[q],
         \A q \in Rank : link'[q] = "closed" => link[q] = "closed"
  PROVE  Exits'
<1>1. main[r] # "failed"
  BY DEF Exits, LeftJoined, Joined
<1>2. LeftJoined'
  <2> SUFFICES ASSUME NEW q \in Rank, main[q] = "failed"
               PROVE  lst'[q] \in {"done", "error", "deaf"}
    BY DEF LeftJoined, Joined
  <2>1. lst'[q] = lst[q]
    BY <1>1
  <2> QED BY <2>1 DEF Exits, LeftJoined, Joined
<1>3. ClosedByExit'
  BY DEF Exits, ClosedByExit
<1> QED BY <1>2, <1>3 DEF Exits

-----------------------------------------------------------------------------
(* A rank whose world_init failed leaves: its connections are closed, a        *)
(* request it never answered is rejected.                                       *)
LEMMA JoinFailsKeeps ==
  ASSUME IInv, NEW r \in Rank, JoinFails(r)
  PROVE  IInv'
<1>0. TypeOK /\ TriesLeft /\ OffTogether /\ Edges /\ OkMeansAccepted /\ Exits
  BY DEF IInv
<1>1. /\ main[r] = "join" /\ lst[r] \in {"done", "error", "deaf"}
      /\ lst[r] = "done" => link[r] \notin {"backlog", "up", "closed"}
      /\ main' = [main EXCEPT ![r] = "failed"]
      /\ link' = [q \in Rank |-> IF q \in {r, Left(r)} THEN Closed(link[q]) ELSE link[q]]
      /\ UNCHANGED <<use_rdma, lst, tries>>
  BY DEF JoinFails, Connected, ListenerFailed
<1>2. \A l \in LinkState :
        /\ Closed(l) \in LinkState
        /\ Closed(l) = CASE l \in {"backlog", "up"} -> "closed"
                         [] l = "requested" -> "rejected"
                         [] OTHER -> l
  BY DEF Closed, LinkState
<1>3. TypeOK' /\ TriesLeft' /\ OffTogether' /\ OkMeansAccepted'
  <2>1. \A q \in Rank : link[q] \in LinkState
    BY <1>0 DEF TypeOK
  <2>2. link' \in [Rank -> LinkState]
    BY <1>1, <1>2, <2>1
  <2> QED BY <1>0, <1>1, <2>2 DEF TypeOK, TriesLeft, OffTogether, OkMeansAccepted, MainState
<1>4. Edges'
  <2> SUFFICES ASSUME NEW q \in Rank
               PROVE  EdgeOK(main'[q], lst[Right(q)], link'[q], use_rdma)
    BY <1>1 DEF Edges
  <2>1. /\ EdgeOK(main[q], lst[Right(q)], link[q], use_rdma) /\ link[q] \in LinkState
        /\ Right(q) \in Rank
    BY <1>0, Neighbours DEF Edges, TypeOK
  <2>2. CASE q = r
    <3>1. main'[q] = "failed" /\ link'[q] = Closed(link[q]) /\ main[q] = "join"
      BY <1>0, <1>1, <2>2 DEF TypeOK
    <3> QED BY <1>2, <2>1, <3>1 DEF EdgeOK, Closed
  <2>3. CASE q # r /\ q = Left(r)
    <3>1. Right(q) = r /\ main'[q] = main[q] /\ link'[q] = Closed(link[q])
      BY <1>0, <1>1, <2>3, Neighbours DEF TypeOK
    <3> QED BY <1>1, <1>2, <2>1, <3>1 DEF EdgeOK, Closed
  <2>4. CASE q # r /\ q # Left(r)
    BY <1>0, <1>1, <2>1, <2>4 DEF TypeOK
  <2> QED BY <2>2, <2>3, <2>4
<1>5. Exits'
  <2>1. LeftJoined'
    BY <1>0, <1>1 DEF Exits, LeftJoined, Joined, TypeOK
  <2>2. ClosedByExit'
    <3> SUFFICES ASSUME NEW q \in Rank, link'[q] = "closed"
                 PROVE  main'[q] = "failed" \/ main'[Right(q)] = "failed"
      BY DEF ClosedByExit
    <3>1. Right(q) \in Rank /\ (q = Left(r) => Right(q) = r)
      BY Neighbours
    <3>2. CASE q \in {r, Left(r)}
      BY <1>0, <1>1, <3>1, <3>2 DEF TypeOK
    <3>3. CASE q \notin {r, Left(r)}
      BY <1>0, <1>1, <3>1, <3>3 DEF TypeOK, Exits, ClosedByExit
    <3> QED BY <3>2, <3>3
  <2> QED BY <2>1, <2>2 DEF Exits
<1> QED BY <1>3, <1>4, <1>5 DEF IInv

(* Every statement of the main thread, an attempt that fails locally and a    *)
(* connection request that times out keep the invariant.                      *)
LEMMA MainKeeps ==
  ASSUME IInv, NEW r \in Rank, MainStep(r) \/ CmTimeout(r) \/ ConnectFails(r)
  PROVE  IInv'
<1>0. TypeOK /\ TriesLeft /\ OffTogether /\ Edges /\ OkMeansAccepted /\ Exits
  BY DEF IInv
<1>e. EdgeOK(main[r], lst[Right(r)], link[r], use_rdma)
  BY <1>0 DEF Edges
<1>r. Right(r) \in Rank /\ Left(Right(r)) = r
  BY Neighbours
<1>1. CASE Refused(r) \/ ConnectFails(r)
  <2>1. main[r] = "connect" /\ NextTry(r) /\ UNCHANGED <<use_rdma, lst, link>>
    BY <1>1 DEF Refused, ConnectFails, MayConnect
  <2>2. TypeOK' /\ TriesLeft' /\ OffTogether' /\ OkMeansAccepted'
    BY <1>0, <2>1, NextTryKeeps DEF TypeOK, OffTogether, OkMeansAccepted
  <2>3. Edges'
    BY <1>0, <1>e, <2>1, NextTryKeeps, MainEdge DEF EdgeOK
  <2>4. Exits'
    BY <1>0, <2>1, NextTryKeeps, MainExits
  <2> QED BY <2>2, <2>3, <2>4 DEF IInv
<1>2. CASE TcpConnect(r)
  <2>1. /\ ~use_rdma /\ main[r] = "connect"
        /\ lst[Right(r)] \in {"waiting", "deaf"} /\ link[r] = "none"
        /\ link' = [link EXCEPT ![r] = "backlog"]
        /\ main' = [main EXCEPT ![r] = "join"]
        /\ UNCHANGED <<use_rdma, lst, tries>>
    BY <1>2, <1>r DEF TcpConnect, MayConnect, PortOpen
  <2>2. TypeOK' /\ TriesLeft' /\ OffTogether' /\ OkMeansAccepted'
    BY <1>0, <2>1 DEF TypeOK, TriesLeft, OffTogether, OkMeansAccepted, MainState, LinkState
  <2>3. EdgeOK(main'[r], lst[Right(r)], link'[r], use_rdma)
    BY <1>0, <2>1 DEF EdgeOK, TypeOK
  <2>4. Edges'
    BY <1>0, <2>1, <2>3, MainEdge DEF TypeOK
  <2>5. Exits'
    BY <1>0, <2>1, MainExits DEF TypeOK
  <2> QED BY <2>2, <2>4, <2>5 DEF IInv
<1>3. CASE CmRequest(r)
  <2>1. /\ use_rdma /\ main[r] = "connect"
        /\ lst[Right(r)] \in {"waiting", "deaf"} /\ link[r] = "none"
        /\ link' = [link EXCEPT ![r] = "requested"]
        /\ main' = [main EXCEPT ![r] = "request"]
        /\ UNCHANGED <<use_rdma, lst, tries>>
    BY <1>3, <1>r DEF CmRequest, MayConnect, PortOpen
  <2>2. TypeOK' /\ TriesLeft' /\ OffTogether' /\ OkMeansAccepted'
    BY <1>0, <2>1 DEF TypeOK, TriesLeft, OffTogether, OkMeansAccepted, MainState, LinkState
  <2>3. EdgeOK(main'[r], lst[Right(r)], link'[r], use_rdma)
    BY <1>0, <1>e, <2>1 DEF EdgeOK, TypeOK
  <2>4. Edges'
    BY <1>0, <2>1, <2>3, MainEdge DEF TypeOK
  <2>5. Exits'
    BY <1>0, <2>1, MainExits DEF TypeOK
  <2> QED BY <2>2, <2>4, <2>5 DEF IInv
<1>4. CASE CmConnected(r)
  <2>1. TypeOK' /\ TriesLeft' /\ OffTogether' /\ OkMeansAccepted'
    BY <1>0, <1>4
    DEF CmConnected, TypeOK, TriesLeft, OffTogether, OkMeansAccepted, MainState, LinkState
  <2>2. EdgeOK(main'[r], lst[Right(r)], link'[r], use_rdma)
    BY <1>0, <1>e, <1>4 DEF CmConnected, EdgeOK, TypeOK
  <2>3. Edges'
    BY <1>0, <1>4, <2>2, MainEdge DEF CmConnected, TypeOK
  <2>4. Exits'
    BY <1>0, <1>4, MainExits DEF CmConnected, TypeOK
  <2> QED BY <2>1, <2>3, <2>4 DEF IInv
<1>5. CASE CmRejected(r) \/ CmUnanswered(r)
  <2>1. /\ main[r] = "request" /\ NextTry(r)
        /\ link[r] = "rejected" \/ (link[r] = "requested" /\ lst[Right(r)] = "error")
        /\ link' = [link EXCEPT ![r] = "none"] /\ UNCHANGED <<use_rdma, lst>>
    BY <1>5 DEF CmRejected, CmUnanswered
  <2>2. TypeOK' /\ TriesLeft' /\ OffTogether' /\ OkMeansAccepted'
    BY <1>0, <2>1, NextTryKeeps DEF TypeOK, OffTogether, OkMeansAccepted, LinkState
  <2>3. EdgeOK(main'[r], lst[Right(r)], link'[r], use_rdma)
    BY <1>0, <1>e, <2>1, NextTryKeeps DEF EdgeOK, TypeOK
  <2>4. Edges'
    BY <1>0, <2>1, <2>3, NextTryKeeps, MainEdge DEF TypeOK
  <2>5. Exits'
    BY <1>0, <2>1, NextTryKeeps, MainExits DEF TypeOK
  <2> QED BY <2>2, <2>4, <2>5 DEF IInv
<1>6. CASE CmTimeout(r)
  <2>1. /\ main[r] = "request" /\ link[r] \in {"requested", "answered"} /\ NextTry(r)
        /\ link' = [link EXCEPT ![r] = "stale"] /\ UNCHANGED <<use_rdma, lst>>
    BY <1>6 DEF CmTimeout
  <2>2. TypeOK' /\ TriesLeft' /\ OffTogether' /\ OkMeansAccepted'
    BY <1>0, <2>1, NextTryKeeps DEF TypeOK, OffTogether, OkMeansAccepted, LinkState
  <2>3. EdgeOK(main'[r], lst[Right(r)], link'[r], use_rdma)
    BY <1>0, <1>e, <2>1, NextTryKeeps DEF EdgeOK, TypeOK
  <2>4. Edges'
    BY <1>0, <2>1, <2>3, NextTryKeeps, MainEdge DEF TypeOK
  <2>5. Exits'
    BY <1>0, <2>1, NextTryKeeps, MainExits DEF TypeOK
  <2> QED BY <2>2, <2>4, <2>5 DEF IInv
<1>7. CASE Join(r)
  <2>1. /\ main[r] = "join" /\ UNCHANGED <<use_rdma, lst, tries, link>>
        /\ main' = [main EXCEPT ![r] = "ok"]
        /\ lst[r] = "done" /\ link[r] \in {"backlog", "up", "closed"}
    BY <1>7 DEF Join, Connected
  <2>2. TypeOK' /\ TriesLeft' /\ OffTogether' /\ OkMeansAccepted'
    BY <1>0, <2>1 DEF TypeOK, TriesLeft, OffTogether, OkMeansAccepted, MainState
  <2>3. EdgeOK(main'[r], lst[Right(r)], link'[r], use_rdma)
    BY <1>0, <1>e, <2>1 DEF EdgeOK, TypeOK
  <2>4. Edges'
    BY <1>0, <2>1, <2>3, MainEdge DEF TypeOK
  <2>5. Exits'
    BY <1>0, <2>1, MainExits DEF TypeOK
  <2> QED BY <2>2, <2>4, <2>5 DEF IInv
<1>8. CASE JoinFails(r)
  BY <1>8, JoinFailsKeeps
<1> QED BY <1>1, <1>2, <1>3, <1>4, <1>5, <1>6, <1>7, <1>8 DEF MainStep

(* Every statement of the listener thread, its failures included, keeps the   *)
(* invariant.                                                                  *)
LEMMA ListenerKeeps ==
  ASSUME IInv, NEW r \in Rank, \/ ListenerStep(r) \/ ListenFails(r) \/ TcpAcceptFails(r)
                              \/ CmBuildFails(r) \/ CmAcceptFails(r)
  PROVE  IInv'
<1>0. TypeOK /\ TriesLeft /\ OffTogether /\ Edges /\ OkMeansAccepted /\ Exits
  BY DEF IInv
<1>l. Left(r) \in Rank /\ Right(Left(r)) = r
  BY Neighbours
<1>e. EdgeOK(main[Left(r)], lst[r], link[Left(r)], use_rdma)
  BY <1>0, <1>l DEF Edges
<1>1. CASE Listen(r) \/ ListenFails(r)
  <2>1. /\ lst[r] = "listen" /\ UNCHANGED <<use_rdma, main, tries, link>>
        /\ \/ lst' = [lst EXCEPT ![r] = "waiting"]
           \/ lst' = [lst EXCEPT ![r] = "error"]
    BY <1>1 DEF Listen, ListenFails
  <2>2. TypeOK' /\ TriesLeft' /\ OffTogether' /\ OkMeansAccepted'
    BY <1>0, <2>1 DEF TypeOK, TriesLeft, OffTogether, OkMeansAccepted, LstState
  <2>3. EdgeOK(main[Left(r)], lst'[r], link'[Left(r)], use_rdma)
    BY <1>0, <1>e, <2>1 DEF EdgeOK, TypeOK
  <2>4. Edges'
    BY <1>0, <2>1, <2>3, ListenerEdge DEF TypeOK
  <2>5. Exits'
    BY <1>0, <1>l, <2>1, ListenerExits DEF TypeOK
  <2> QED BY <2>2, <2>4, <2>5 DEF IInv
<1>2. CASE TcpAccept(r)
  <2>1. TypeOK' /\ TriesLeft' /\ OffTogether' /\ OkMeansAccepted'
    BY <1>0, <1>l, <1>2
    DEF TcpAccept, TypeOK, TriesLeft, OffTogether, OkMeansAccepted, LstState, LinkState
  <2>2. EdgeOK(main[Left(r)], lst'[r], link'[Left(r)], use_rdma)
    BY <1>0, <1>l, <1>e, <1>2 DEF TcpAccept, EdgeOK, TypeOK
  <2>3. Edges'
    BY <1>0, <1>2, <2>2, ListenerEdge DEF TcpAccept, TypeOK
  <2>4. Exits'
    BY <1>0, <1>l, <1>2, ListenerExits DEF TcpAccept, TypeOK
  <2> QED BY <2>1, <2>3, <2>4 DEF IInv
<1>3. CASE CmTakeRequest(r)
  <2>1. TypeOK' /\ TriesLeft' /\ OffTogether' /\ OkMeansAccepted'
    BY <1>0, <1>3 DEF CmTakeRequest, TypeOK, TriesLeft, OffTogether, OkMeansAccepted, LstState
  <2>2. EdgeOK(main[Left(r)], lst'[r], link'[Left(r)], use_rdma)
    BY <1>0, <1>e, <1>3 DEF CmTakeRequest, EdgeOK, TypeOK
  <2>3. Edges'
    BY <1>0, <1>3, <2>2, ListenerEdge DEF CmTakeRequest, TypeOK
  <2>4. Exits'
    BY <1>0, <1>l, <1>3, ListenerExits DEF CmTakeRequest, TypeOK
  <2> QED BY <2>1, <2>3, <2>4 DEF IInv
<1>4. CASE CmBuildFails(r)
  <2>1. /\ lst[r] = "waiting" /\ lst' = [lst EXCEPT ![r] = "error"]
        /\ UNCHANGED <<use_rdma, main, tries>>
        /\ \/ /\ link[Left(r)] = "stale"
              /\ link' = [link EXCEPT ![Left(r)] = "none"]
           \/ /\ link[Left(r)] = "requested"
              /\ link' = [link EXCEPT ![Left(r)] = "rejected"]
    BY <1>4 DEF CmBuildFails
  <2>2. TypeOK' /\ TriesLeft' /\ OffTogether' /\ OkMeansAccepted'
    BY <1>0, <1>l, <2>1 DEF TypeOK, TriesLeft, OffTogether, OkMeansAccepted, LstState, LinkState
  <2>3. EdgeOK(main[Left(r)], lst'[r], link'[Left(r)], use_rdma)
    BY <1>0, <1>l, <1>e, <2>1 DEF EdgeOK, TypeOK
  <2>4. Edges'
    BY <1>0, <2>1, <2>3, ListenerEdge DEF TypeOK
  <2>5. Exits'
    BY <1>0, <1>l, <2>1, ListenerExits DEF TypeOK
  <2> QED BY <2>2, <2>4, <2>5 DEF IInv
<1>5. CASE CmAccept(r)
  <2>1. /\ lst[r] = "accept" /\ lst' = [lst EXCEPT ![r] = "established"]
        /\ UNCHANGED <<use_rdma, main, tries>>
        /\ \/ /\ link[Left(r)] = "requested"
              /\ link' = [link EXCEPT ![Left(r)] = "answered"]
           \/ /\ link[Left(r)] # "requested"
              /\ link' = [link EXCEPT ![Left(r)] = link[Left(r)]]
    BY <1>5 DEF CmAccept
  <2>2. TypeOK' /\ TriesLeft' /\ OffTogether' /\ OkMeansAccepted'
    BY <1>0, <1>l, <2>1 DEF TypeOK, TriesLeft, OffTogether, OkMeansAccepted, LstState, LinkState
  <2>3. EdgeOK(main[Left(r)], lst'[r], link'[Left(r)], use_rdma)
    BY <1>0, <1>l, <1>e, <2>1 DEF EdgeOK, TypeOK, LinkState
  <2>4. Edges'
    BY <1>0, <2>1, <2>3, ListenerEdge DEF TypeOK
  <2>5. Exits'
    BY <1>0, <1>l, <2>1, ListenerExits DEF TypeOK
  <2> QED BY <2>2, <2>4, <2>5 DEF IInv
<1>6. CASE CmEstablished(r)
  <2>1. TypeOK' /\ TriesLeft' /\ OffTogether' /\ OkMeansAccepted'
    BY <1>0, <1>6 DEF CmEstablished, TypeOK, TriesLeft, OffTogether, OkMeansAccepted, LstState
  <2>2. EdgeOK(main[Left(r)], lst'[r], link'[Left(r)], use_rdma)
    BY <1>0, <1>e, <1>6 DEF CmEstablished, EdgeOK, TypeOK
  <2>3. Edges'
    BY <1>0, <1>6, <2>2, ListenerEdge DEF CmEstablished, TypeOK
  <2>4. Exits'
    BY <1>0, <1>l, <1>6, ListenerExits DEF CmEstablished, TypeOK
  <2> QED BY <2>1, <2>3, <2>4 DEF IInv
<1>7. CASE CmNotEstablished(r)
  <2>1. TypeOK' /\ TriesLeft' /\ OffTogether' /\ OkMeansAccepted'
    BY <1>0, <1>l, <1>7
    DEF CmNotEstablished, TypeOK, TriesLeft, OffTogether, OkMeansAccepted, LstState, LinkState
  <2>2. EdgeOK(main[Left(r)], lst'[r], link'[Left(r)], use_rdma)
    BY <1>0, <1>l, <1>e, <1>7 DEF CmNotEstablished, EdgeOK, TypeOK
  <2>3. Edges'
    BY <1>0, <1>7, <2>2, ListenerEdge DEF CmNotEstablished, TypeOK
  <2>4. Exits'
    BY <1>0, <1>l, <1>7, ListenerExits DEF CmNotEstablished, TypeOK
  <2> QED BY <2>1, <2>3, <2>4 DEF IInv
<1>8. CASE TcpAcceptFails(r) \/ CmAcceptFails(r)
  <2>1. /\ UNCHANGED <<use_rdma, main, tries, link>>
        /\ \/ lst[r] = "waiting" /\ ~use_rdma /\ lst' = [lst EXCEPT ![r] = "deaf"]
           \/ lst[r] = "accept" /\ lst' = [lst EXCEPT ![r] = "error"]
    BY <1>8 DEF TcpAcceptFails, CmAcceptFails
  <2>2. TypeOK' /\ TriesLeft' /\ OffTogether' /\ OkMeansAccepted'
    BY <1>0, <2>1 DEF TypeOK, TriesLeft, OffTogether, OkMeansAccepted, LstState
  <2>3. EdgeOK(main[Left(r)], lst'[r], link'[Left(r)], use_rdma)
    BY <1>0, <1>e, <2>1 DEF EdgeOK, TypeOK
  <2>4. Edges'
    BY <1>0, <2>1, <2>3, ListenerEdge DEF TypeOK
  <2>5. Exits'
    BY <1>0, <2>1, ListenerExits DEF TypeOK
  <2> QED BY <2>2, <2>4, <2>5 DEF IInv
<1> QED BY <1>1, <1>2, <1>3, <1>4, <1>5, <1>6, <1>7, <1>8 DEF ListenerStep

(* A rank that is started begins to connect and to listen; the links on both  *)
(* sides of it are still unused or, on the left, waiting for a port.          *)
LEMMA StartKeeps ==
  ASSUME IInv, NEW r \in Rank, Start(r)
  PROVE  IInv'
<1>0. TypeOK /\ TriesLeft /\ OffTogether /\ Edges /\ OkMeansAccepted /\ Exits
  BY DEF IInv
<1>1. TypeOK' /\ TriesLeft' /\ OffTogether' /\ OkMeansAccepted'
  BY <1>0 DEF Start, TypeOK, TriesLeft, OffTogether, OkMeansAccepted, MainState, LstState
<1>2. Edges'
  <2> SUFFICES ASSUME NEW q \in Rank
               PROVE  EdgeOK(main'[q], lst'[Right(q)], link'[q], use_rdma')
    BY DEF Edges
  <2>0. EdgeOK(main[q], lst[Right(q)], link[q], use_rdma) /\ Right(q) \in Rank /\ Right(q) # q
    BY <1>0, Neighbours DEF Edges
  <2>1. CASE q = r
    BY <1>0, <2>0, <2>1 DEF Start, EdgeOK, TypeOK
  <2>2. CASE Right(q) = r
    BY <1>0, <2>0, <2>2 DEF Start, EdgeOK, TypeOK, OffTogether
  <2>3. CASE q # r /\ Right(q) # r
    BY <1>0, <2>0, <2>3 DEF Start, TypeOK
  <2> QED BY <2>1, <2>2, <2>3
<1>3. Exits'
  BY <1>0 DEF Start, Exits, LeftJoined, Joined, ClosedByExit, TypeOK, OffTogether
<1> QED BY <1>1, <1>2, <1>3 DEF IInv

(* Whatever the two threads of the ranks do, in whatever order.               *)
LEMMA NextInv == IInv /\ [Next]_vars => IInv'
<1> SUFFICES ASSUME IInv, [Next]_vars PROVE IInv'
  OBVIOUS
<1>1. CASE Next
  BY <1>1, MainKeeps, ListenerKeeps, StartKeeps DEF Next
<1>2. CASE UNCHANGED vars
  BY <1>2 DEF vars, IInv, TypeOK, TriesLeft, OffTogether, Edges, OkMeansAccepted, Exits,
          LeftJoined, Joined, ClosedByExit
<1> QED BY <1>1, <1>2

(* The invariant holds throughout, whatever the fairness.                     *)
LEMMA Invariance == Spec => []IInv
  BY InitInv, NextInv, PTL DEF Spec

-----------------------------------------------------------------------------
(* Type correctness; in particular no rank makes more than MaxTries attempts. *)
THEOREM TypeCorrect == Spec => []TypeOK
<1>1. IInv => TypeOK
  BY DEF IInv
<1> QED BY <1>1, Invariance, PTL

(* When world_init returns 0 the left neighbour's connection has been         *)
(* accepted and the right one stands, over RDMA with a peer that has          *)
(* accepted, unless the neighbour has failed and left since: for every world  *)
(* size and whichever ranks are late, absent, fail or time out.               *)
THEOREM ReadyMeansLinkedHolds == Spec => []ReadyMeansLinked
<1>1. IInv => ReadyMeansLinked
  <2> SUFFICES ASSUME IInv PROVE ReadyMeansLinked
    OBVIOUS
  <2>0. TypeOK /\ Edges /\ OkMeansAccepted /\ ClosedByExit
    BY DEF IInv, Exits
  <2>1. ASSUME NEW r \in Rank, lst[r] = "done"
        PROVE  link[Left(r)] = "up" \/ main[r] = "failed" \/ main[Left(r)] = "failed"
    <3>1. /\ EdgeOK(main[Left(r)], lst[r], link[Left(r)], use_rdma)
          /\ link[Left(r)] \in LinkState
          /\ link[Left(r)] = "closed" => main[Left(r)] = "failed" \/ main[r] = "failed"
      BY <2>0, Neighbours DEF Edges, TypeOK, ClosedByExit
    <3> QED BY <2>1, <3>1 DEF EdgeOK, LinkState
  <2>2. ASSUME NEW r \in Rank, main[r] = "ok"
        PROVE  /\ link[Left(r)] = "up" \/ main[Left(r)] = "failed"
               /\ \/ link[r] = "up" \/ (~use_rdma /\ link[r] = "backlog")
                  \/ main[Right(r)] = "failed"
               /\ use_rdma => lst[Right(r)] \in {"established", "done"}
    <3>1. link[Left(r)] = "up" \/ main[Left(r)] = "failed"
      BY <2>0, <2>1, <2>2 DEF OkMeansAccepted
    <3>2. /\ EdgeOK(main[r], lst[Right(r)], link[r], use_rdma) /\ link[r] \in LinkState
          /\ link[r] = "closed" => main[r] = "failed" \/ main[Right(r)] = "failed"
      BY <2>0 DEF Edges, TypeOK, ClosedByExit
    <3> QED BY <2>2, <3>1, <3>2 DEF EdgeOK, LinkState
  <2> QED BY <2>1, <2>2 DEF ReadyMeansLinked
<1> QED BY <1>1, Invariance, PTL
=============================================================================
