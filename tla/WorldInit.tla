----------------------------- MODULE WorldInit -----------------------------
(***************************************************************************)
(* world_init (phase3_collective/src/world.cpp): how the ranks of a ring   *)
(* find one another.  Every rank runs two threads.  The listener waits for *)
(* the left neighbour; the main thread calls connect on the right          *)
(* neighbour until it succeeds or the attempts run out, then joins the     *)
(* listener, whatever came of the attempts.  Ranks are started by hand, in *)
(* any order, some perhaps never.                                          *)
(*                                                                         *)
(* With TCP a connect succeeds as soon as the neighbour's kernel listens.  *)
(* With rdma_cm the neighbour takes part: its listen() waits for the       *)
(* request, builds the queue pair and stops listening, its accept()        *)
(* answers and waits until the connection is established; the connecting   *)
(* side may have run into a CM timeout in between.  A rank whose           *)
(* world_init returns -1 exits, and its connections with it.               *)
(***************************************************************************)
EXTENDS Integers

CONSTANTS
  N,           \* size of the world
  MaxTries,    \* attempts to connect (600 in the code)
  MayBeAbsent, \* ranks that somebody may never start
  MayFail,     \* ranks whose calls may fail (port in use, no queue pair, no route)
  MayTimeOut   \* ranks whose connection request may time out

ASSUME NAssumption == N \in Nat /\ N >= 2
ASSUME TriesAssumption == MaxTries \in Nat \ {0}

Rank == 0 .. N - 1
ASSUME FaultAssumption ==
  MayBeAbsent \subseteq Rank /\ MayFail \subseteq Rank /\ MayTimeOut \subseteq Rank

Right(r) == (r + 1) % N
Left(r) == (r + N - 1) % N

VARIABLES
  use_rdma, \* which transport; chosen once
  main,     \* main thread
  lst,      \* listener thread
  tries,    \* attempts that failed
  link      \* link[r]: the connection from r to Right(r)

vars == <<use_rdma, main, lst, tries, link>>

MainState == {"off", "connect", "request", "join", "ok", "failed"}

\* "deaf": accept() failed, but the listening socket is still open.
LstState == {"off", "listen", "waiting", "accept", "established", "done", "error", "deaf"}

\* "requested", "answered", "rejected" and "stale" are states of an rdma_cm
\* request; "backlog" is a TCP connection nobody has accepted yet; "closed"
\* one that was there and that the exit of one of its ends has ended.
LinkState == {"none", "backlog", "requested", "answered", "rejected", "stale", "up", "closed"}

TypeOK ==
  /\ use_rdma \in BOOLEAN
  /\ main \in [Rank -> MainState]
  /\ lst \in [Rank -> LstState]
  /\ tries \in [Rank -> 0 .. MaxTries]
  /\ link \in [Rank -> LinkState]

Init ==
  /\ use_rdma \in BOOLEAN
  /\ main = [r \in Rank |-> "off"]
  /\ lst = [r \in Rank |-> "off"]
  /\ tries = [r \in Rank |-> 0]
  /\ link = [r \in Rank |-> "none"]

-----------------------------------------------------------------------------
(* The main thread *)

Start(r) ==
  /\ main[r] = "off"
  /\ main' = [main EXCEPT ![r] = "connect"]
  /\ lst' = [lst EXCEPT ![r] = "listen"]
  /\ UNCHANGED <<use_rdma, tries, link>>

\* Mutant: connect only after accept, the sequential order the code warns of.
MayConnect_Sequential(r) == main[r] = "connect" /\ lst[r] \in {"done", "error"}

\* Whether the main thread may try to connect: at once, the listener has a
\* thread of its own.
MayConnect(r) == main[r] = "connect"

\* Mutant: one attempt and no more.
NextTry_None(r) ==
  /\ tries' = [tries EXCEPT ![r] = @ + 1]
  /\ main' = [main EXCEPT ![r] = "join"]

\* An attempt fails: sleep and try again, up to the last one.
NextTry(r) ==
  /\ tries' = [tries EXCEPT ![r] = @ + 1]
  /\ main' = [main EXCEPT ![r] = IF tries[r] + 1 < MaxTries THEN "connect" ELSE "join"]

\* The neighbour's port answers: from listen() on, and with rdma_cm until a
\* first request has come, even one that has timed out since (listen() takes
\* one request and stops listening; a second one is answered by nobody and
\* rejected with the channel it waits in).  A TCP socket listens on after
\* accept() has failed, until the process ends.
PortOpen(r) ==
  /\ lst[r] = "waiting" \/ (lst[r] = "deaf" /\ main[r] # "failed")
  /\ link[Left(r)] = "none"

\* An attempt that fails on this side: no socket, no address, no route, no
\* queue pair.
ConnectFails(r) ==
  /\ r \in MayFail
  /\ MayConnect(r)
  /\ NextTry(r)
  /\ UNCHANGED <<use_rdma, lst, link>>

Refused(r) ==
  /\ MayConnect(r)
  /\ ~PortOpen(Right(r))
  /\ NextTry(r)
  /\ UNCHANGED <<use_rdma, lst, link>>

TcpConnect(r) ==
  /\ ~use_rdma
  /\ MayConnect(r)
  /\ PortOpen(Right(r))
  /\ link' = [link EXCEPT ![r] = "backlog"]
  /\ main' = [main EXCEPT ![r] = "join"]
  /\ UNCHANGED <<use_rdma, lst, tries>>

\* rdma_connect sends the request; cm_wait_event waits for the outcome.
CmRequest(r) ==
  /\ use_rdma
  /\ MayConnect(r)
  /\ PortOpen(Right(r))
  /\ link' = [link EXCEPT ![r] = "requested"]
  /\ main' = [main EXCEPT ![r] = "request"]
  /\ UNCHANGED <<use_rdma, lst, tries>>

CmConnected(r) ==
  /\ main[r] = "request"
  /\ link[r] = "answered"
  /\ link' = [link EXCEPT ![r] = "up"]
  /\ main' = [main EXCEPT ![r] = "join"]
  /\ UNCHANGED <<use_rdma, lst, tries>>

CmRejected(r) ==
  /\ main[r] = "request"
  /\ link[r] = "rejected"
  /\ link' = [link EXCEPT ![r] = "none"]
  /\ NextTry(r)
  /\ UNCHANGED <<use_rdma, lst>>

\* UNREACHABLE instead of ESTABLISHED: connect undoes its queue pair, and the
\* neighbour is left with a request nobody stands behind.
CmTimeout(r) ==
  /\ r \in MayTimeOut
  /\ main[r] = "request"
  /\ link[r] \in {"requested", "answered"}
  /\ link' = [link EXCEPT ![r] = "stale"]
  /\ NextTry(r)
  /\ UNCHANGED <<use_rdma, lst>>

\* rdma_cm gives up on a request that the other side will never answer.
CmUnanswered(r) ==
  /\ main[r] = "request"
  /\ link[r] = "requested"
  /\ lst[Right(r)] = "error"
  /\ link' = [link EXCEPT ![r] = "none"]
  /\ NextTry(r)
  /\ UNCHANGED <<use_rdma, lst>>

ListenerFailed(r) == lst[r] \in {"error", "deaf"}

\* connect() has returned 0; the other end may have gone since.
Connected(r) == link[r] \in {"backlog", "up", "closed"}

\* t.join(): both outcomes are needed for a return of 0.
Join(r) ==
  /\ main[r] = "join"
  /\ lst[r] = "done" /\ Connected(r)
  /\ main' = [main EXCEPT ![r] = "ok"]
  /\ UNCHANGED <<use_rdma, lst, tries, link>>

\* What the end of a process does to a connection of it.
Closed(l) ==
  CASE l \in {"backlog", "up"} -> "closed"
    [] l = "requested" -> "rejected"
    [] OTHER -> l

\* world_init returns -1, main returns, and ~World closes both transports.
JoinFails(r) ==
  /\ main[r] = "join"
  /\ ListenerFailed(r) \/ (lst[r] = "done" /\ ~Connected(r))
  /\ main' = [main EXCEPT ![r] = "failed"]
  /\ link' = [q \in Rank |-> IF q \in {r, Left(r)} THEN Closed(link[q]) ELSE link[q]]
  /\ UNCHANGED <<use_rdma, lst, tries>>

-----------------------------------------------------------------------------
(* The listener thread *)

Listen(r) ==
  /\ lst[r] = "listen"
  /\ lst' = [lst EXCEPT ![r] = "waiting"]
  /\ UNCHANGED <<use_rdma, main, tries, link>>

ListenFails(r) ==
  /\ r \in MayFail
  /\ lst[r] = "listen"
  /\ lst' = [lst EXCEPT ![r] = "error"]
  /\ UNCHANGED <<use_rdma, main, tries, link>>

\* Also a connection whose other end has closed it already.
TcpAccept(r) ==
  /\ ~use_rdma
  /\ lst[r] = "waiting"
  /\ link[Left(r)] \in {"backlog", "closed"}
  /\ lst' = [lst EXCEPT ![r] = "done"]
  /\ link' = [link EXCEPT ![Left(r)] = IF @ = "backlog" THEN "up" ELSE @]
  /\ UNCHANGED <<use_rdma, main, tries>>

TcpAcceptFails(r) ==
  /\ r \in MayFail
  /\ ~use_rdma
  /\ lst[r] = "waiting"
  /\ lst' = [lst EXCEPT ![r] = "deaf"]
  /\ UNCHANGED <<use_rdma, main, tries, link>>

\* CONNECT_REQUEST: the queue pair is built and the listening id destroyed;
\* listen() returns and accept() is next.
CmTakeRequest(r) ==
  /\ lst[r] = "waiting"
  /\ link[Left(r)] \in {"requested", "stale"}
  /\ lst' = [lst EXCEPT ![r] = "accept"]
  /\ UNCHANGED <<use_rdma, main, tries, link>>

\* The queue pair or the exchange listener cannot be made: destroying the id
\* of the request rejects it.
CmBuildFails(r) ==
  /\ r \in MayFail
  /\ lst[r] = "waiting"
  /\ link[Left(r)] \in {"requested", "stale"}
  /\ lst' = [lst EXCEPT ![r] = "error"]
  /\ link' = [link EXCEPT ![Left(r)] = IF @ = "stale" THEN "none" ELSE "rejected"]
  /\ UNCHANGED <<use_rdma, main, tries>>

CmAccept(r) ==
  /\ lst[r] = "accept"
  /\ lst' = [lst EXCEPT ![r] = "established"]
  /\ link' = [link EXCEPT ![Left(r)] = IF @ = "requested" THEN "answered" ELSE @]
  /\ UNCHANGED <<use_rdma, main, tries>>

\* rdma_accept fails; the id stays, and the request with it.
CmAcceptFails(r) ==
  /\ r \in MayFail
  /\ lst[r] = "accept"
  /\ lst' = [lst EXCEPT ![r] = "error"]
  /\ UNCHANGED <<use_rdma, main, tries, link>>

\* cm_wait_event(ESTABLISHED): any other event is an error.
CmEstablished(r) ==
  /\ lst[r] = "established"
  /\ link[Left(r)] \in {"up", "closed"}
  /\ lst' = [lst EXCEPT ![r] = "done"]
  /\ UNCHANGED <<use_rdma, main, tries, link>>

\* Mutant: the type of the event is not compared.
CmNotEstablished_AnyEvent(r) ==
  /\ lst[r] = "established"
  /\ link[Left(r)] = "stale"
  /\ lst' = [lst EXCEPT ![r] = "done"]
  /\ UNCHANGED <<use_rdma, main, tries, link>>

\* The request timed out on the other side: UNREACHABLE or REJECTED.  Or that
\* side has left and its DISCONNECTED is here first.
CmNotEstablished(r) ==
  /\ lst[r] = "established"
  /\ link[Left(r)] \in {"stale", "closed"}
  /\ lst' = [lst EXCEPT ![r] = "error"]
  /\ link' = [link EXCEPT ![Left(r)] = IF @ = "stale" THEN "none" ELSE @]
  /\ UNCHANGED <<use_rdma, main, tries>>

-----------------------------------------------------------------------------

MainStep(r) ==
  \/ Refused(r) \/ TcpConnect(r) \/ CmRequest(r) \/ CmConnected(r)
  \/ CmRejected(r) \/ CmUnanswered(r) \/ Join(r) \/ JoinFails(r)

ListenerStep(r) ==
  \/ Listen(r) \/ TcpAccept(r) \/ CmTakeRequest(r) \/ CmAccept(r)
  \/ CmEstablished(r) \/ CmNotEstablished(r)

Next ==
  \E r \in Rank :
    \/ Start(r) \/ MainStep(r) \/ ListenerStep(r)
    \/ ConnectFails(r) \/ ListenFails(r) \/ TcpAcceptFails(r)
    \/ CmBuildFails(r) \/ CmAcceptFails(r) \/ CmTimeout(r)

Spec == Init /\ [][Next]_vars

\* Both threads of a started rank keep running; a rank is started unless it
\* may be absent.  Nothing is assumed of failures and timeouts, except that a
\* request left without an answer does not wait for ever.
FairSpec ==
  /\ Spec
  /\ \A r \in Rank : WF_vars(MainStep(r)) /\ WF_vars(ListenerStep(r))
  /\ \A r \in Rank \ MayBeAbsent : WF_vars(Start(r))

-----------------------------------------------------------------------------
(* Properties *)

GaveUp(r) == tries[r] = MaxTries

\* What a caller may rely on when world_init returns 0: the left neighbour's
\* connection has been accepted, not only requested, and the right one
\* stands; over RDMA the right neighbour has a queue pair for it and has
\* accepted, so the first post cannot meet a half-built one.  A connection
\* that no longer stands was closed by a neighbour whose own world_init
\* failed.  A request that timed out on the other side never counts as one.
ReadyMeansLinked ==
  /\ \A r \in Rank : main[r] = "ok" =>
       /\ link[Left(r)] = "up" \/ main[Left(r)] = "failed"
       /\ \/ link[r] = "up" \/ (~use_rdma /\ link[r] = "backlog")
          \/ main[Right(r)] = "failed"
       /\ use_rdma => lst[Right(r)] \in {"established", "done"}
  /\ \A r \in Rank : lst[r] = "done" =>
       link[Left(r)] = "up" \/ "failed" \in {main[r], main[Left(r)]}

\* world_init returns in every started rank, with one exception: the join
\* waits for ever when the left neighbour is never started or has used up its
\* attempts.  (A rank that used up its own attempts is not spared the join.)
HangsOnlyBehindGivingUp ==
  \A r \in Rank :
    <>[](\/ main[r] \in {"off", "ok", "failed"}
         \/ /\ main[r] = "join"
            /\ lst[r] = "waiting"
            /\ main[Left(r)] = "off" \/ GaveUp(Left(r)))

\* The retries do what they are for: whatever the order in which the ranks
\* are started, the whole ring comes up unless a rank is never started, a
\* listener fails, or some rank has used up all of its attempts.
RingComesUp ==
  \/ <>[](\A r \in Rank : main[r] = "ok")
  \/ <>[](\E r \in Rank : main[r] = "off" \/ ListenerFailed(r) \/ GaveUp(r))
=============================================================================
