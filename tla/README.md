# TLA+ models of rdma-ai-infra

TLA+ specifications of the concurrent and distributed parts of this repository,
TLC configurations that check them on small instances, and TLAPS proofs, for every
value of the constants, of every invariant the runs check and of both refinements: the
ring all-reduce on both transports, the start of the ring, the life of queue pairs and
memory regions, the KV server and its client, and the benchmarks that run two processes
against each other. `PROJECT.json` lists the components, the
runs, the mutants that show a property can fail, the source lines behind every
definition, the hazards, the findings and the theorems.

    tlc -workers 2 -config RingPosted3.cfg RingPosted     # one run
    tlapm RingPostedProofs.tla                            # the proofs of one module

## 1. Inventory of the system

The repository is built in four layers, each a library with its benchmarks.

### Phase 1, verbs (`phase1_verbs/`)

| Part | State | Operations | What is hard | What makes it correct |
|---|---|---|---|---|
| `rdma_ops.c` | none of its own; the queues and completion queues of a `rai_qp` | post send / recv / write / read, spin in `rai_poll_cq` | a poll takes *any* completion; the NIC reads and writes buffers between post and completion; queues are full at `RAI_QP_MAX_WR - 1` | one completion per post, no buffer touched in between |
| `rdma_cm_connect.c`, `rdma_verbs_connect.c`, `rdma_oob_connect.c` | event channel, ids, listening sockets, the peer's address and key | listen, accept, connect, the TCP exchange, GID selection, INIT/RTR/RTS | client and server reach RTS at different times; failures half-way | nobody sends before the peer can receive; everything created is destroyed once |
| `rdma_qp.c`, `rdma_mr.c` | the verbs objects | create, destroy, register, deregister | the order of destruction after a partial set-up, with regions still registered, on a retry | no leak, no double destruction, nothing destroyed while in use, memory outlives its registration |
| `lat_send_recv.c` | receives posted ahead, round counter | start barrier, ping-pong | send and receive completions share a queue and arrive in either order | a round is one ping and its pong; receives are ready |
| `lat_rdma_write.c` | one doorbell byte per direction | write, reap, spin | the doorbell wraps at 256 and is never reset; the teardown | a doorbell value means the write of this round |
| `bw_rdma_write.c` | window `scnt`/`ccnt`, doorbell flag | stream writes, reap in batches, teardown exchange | one source buffer for all writes; the server leaves before the last acknowledgement | all timed writes have landed; nobody is stranded |

### Phase 2, transports (`phase2_transport/`)

`Transport` is the interface of the upper layers; `RdmaTransport` wraps phase 1 and
its receives only post, `TcpTransport` loops over `send()`/`recv()` and blocks.
`recv_blocks()` is how the layers above tell them apart. `backend_compare` runs a
send/receive and a write test on both. Hard: partial `send`/`recv`, a stream without
boundaries, full socket buffers, a peer that closes in the middle.

### Phase 3, collectives (`phase3_collective/`)

`World` holds a left and a right transport. `world_init` connects the ring with a
listener thread and a connecting one; `world_barrier` trades one byte with each
neighbour; `ring_allreduce` runs `ring_posted` (RDMA) or `ring_blocking` (TCP).
`allreduce_bench` calls it once, checks, calls it `iters` times with a reset and a
barrier before each, and checks again. Hard: ranks run ahead of one another, messages
of calls and barriers share queue pairs, the receive of the next step is armed while
this one is being summed, ranks are started by hand in any order and the connection
attempts are limited, everybody may block on everybody, a rank may die, and a rank
may exit while its neighbour still waits for an acknowledgement. Correct: every rank
that returns 0 holds the sum of all ranks' contributions to *this* call, bit for bit
the same everywhere, and every rank comes to an end.

### Phase 4, KV cache (`phase4_kv_cache/`)

`kv_server` owns a slab of slots, hands them out over a TCP control connection
(META, ALLOC, FREE) and lets the client write and read them with one-sided RDMA.
`kv_bench` allocates one slot, checks the data path, times writes and reads in batches
of `--depth`, and frees the slot. Hard: two connections that come up in different
orders on the two sides, either process dying between any two steps, batches that do
not divide the total, NIC access to a buffer the CPU reuses. Correct: no slot in two
places, writes in the own slot only, the server outlives no client.

### Around them

`common/include/` (command line, latency and bandwidth arithmetic), the Python
bindings over `Transport` (whose users decide when buffers and transports die), sweep
and plot scripts.

## 2. Modules and how they correspond to the code

| Module | Code | State and actions |
|---|---|---|
| `RingChunks` | chunk arithmetic of `ring_allreduce.cpp` | `send_chunk`, `recv_chunk`, neighbours; a float is the *list of contributions* summed into it, in order, so that a wrong, missing, double or stale contribution and a different rounding order are all visible |
| `AllReduce` | what `ring_allreduce` promises its caller | abstract: enter, return with full sums that agree in order, reload, finish, give up only because somebody left |
| `RingPosted` | `ring_posted`, `world_barrier`, `allreduce_bench::main`, the posts and polls below, the NIC | one action per statement between two points where the NIC can interfere; queues `rq`, `sq`, completions `rcq`, `scq`, `scerr`, data in flight `wire`, `landing`, `unacked` |
| `RingBlocking` | `ring_blocking`, `world_barrier`, `send_all`, `recv_all`, the benchmark | byte streams of bounded capacity, chunks moved in pieces, even ranks send first |
| `KvServer` | `kv_server.cpp` | start-up, the serving loop, every exit; the control connection as 4-byte words |
| `KvPool` | `KvServer` with every client that keeps the protocol of `kv_alloc` / `kv_free` | any number and order of requests, a client that goes away at any moment |
| `KvBench` | `KvServer` with `kv_bench.cpp` | from the first `connect()` to both exits, with the slab as bytes and the NIC executing posted operations in order |
| `KvClients` | the server with either kind of client | `KvBench` and `KvPool` side by side, chosen at the start (`who`); no action of its own |
| `PingPong` | `lat_send_recv.c` (`prog = "lat_cm"`, `"lat_verbs"`) and the send/receive test of `backend_compare.cpp` on RDMA (`prog = "compare"`, no start barrier, followed by the second test) and on TCP (`"compare_tcp"`) | set-up until both queue pairs are in RTS, with verbs the client first; one shared completion queue per side |
| `WriteStream` | `bw_rdma_write.c` (`prog = "bw"`: a flag, a window, an exchange at the end) and the write test of `backend_compare.cpp` (`prog = "compare"`: numbered writes, one at a time, no exchange) | window, source buffer, doorbell, teardown |
| `WritePingPong` | `lat_rdma_write.c` | doorbell modulo `SeqMod` |
| `WorldInit` | `world_init`, with `connect`, `listen` and `accept` of both transports | two threads per rank (`main`, `lst`), the attempts used up (`tries`), the state of each connection as seen by its two ends (`link`): a TCP connection in the backlog, an rdma_cm request sent, answered, rejected, or timed out on one side only, a connection closed by a rank that left. Every call that can fail has its failure (`ConnectFails`, `ListenFails`, `TcpAcceptFails`, `CmBuildFails`, `CmAcceptFails`), and a rank whose `world_init` returns -1 leaves and closes what it had (`JoinFails`) |
| `QpLifecycle` | `rai_qp_t` and `rai_mr_t` from creation to destruction (`rdma_qp.c`, `rdma_mr.c`, `rdma_cm_connect.c`, `rdma_verbs_connect.c`), `prepare_sge`, `RdmaTransport`, `ScopedBuffer`, `RegisteredBuffer` | every library call is the list of objects it makes and drops and of its waits (`todo`), any of which may fail, and its error path (`OnFailure`); objects that exist (`alive`) apart from the pointers to them (`handle`); who holds a buffer's memory (`refs`). `prog` is a phase 1 benchmark (`"cm"`, `"verbs"`), a C++ program that may retry its connect (`"scoped"`), or a user of the bindings, who may call anything in any order (`"python"`; `accept` without a set-up reads a NULL id and ends the process). What a post is asked for is what the programs pass: `BenchArgs` (both halves of `lat_rdma_write`), `ScopedArgs` (whole regions and the chunks of the ring), anything at all in Python |

The theorems of section 5 are in modules of their own, which extend the modules they
are about and change nothing in them: `RingPostedProofs` and `RingBlockingProofs`, with
the lemmas about `RingChunks` they share in `RingSums`; `WorldInitProofs`;
`QpLifecycleProofs`; `KvProofs` (of `KvPool` and `KvBench`); `PingPongProofs`;
`WriteProofs` (of `WriteStream` and `WritePingPong`). `KvPool` and `WritePingPong` name
their state and their specification (`PoolSpec`, `PingSpec`) so that they can be
extended together with `KvBench` and `WriteStream`.

`KvServer` is composed with its clients by `EXTENDS`: `KvPool` and `KvBench` conjoin
its actions with theirs, and `KvClients` puts the two side by side for one run. The two rings are connected with `AllReduce` by
`INSTANCE AllReduce WITH st <- AbsState, result <- AbsResult`.

The **NIC** is not in this repository. It is modelled from what the code relies on:
reliable connected service delivers in order and exactly once while both queue pairs
exist; the source of a send is read at some time after the post, again after each RNR
NAK (`rnr_retry_count = 7`, without limit, `rdma_cm_connect.c`); an inline payload is
read by the post; a receive is consumed in posting order; the acknowledgement may
reach the sender before or after the receiver's completion is there; when the peer's
queue pair is gone a send or write completes with an error after its retries.
`ibv_dereg_mr` succeeds on a region that exists (`StepDereg`): nothing refers to a region
but its user. Were it to fail, `rai_mr_dereg` would log that and free the memory all the
same, and `OwnersOutliveRegions` would not hold. These
definitions are marked external in `PROJECT.json`.

## 3. Runs

Every passing run has at least one mutant per property: a plausible bug in a mapped
definition that TLC finds with the same configuration.

| Run | Bounds | Question, and what the run shows |
|---|---|---|
| `ring_rdma_3` | `RingPosted`, 3 ranks, call 0 and one timed call, rank 1 may stop anywhere | Every interleaving of three threads and three NICs. Three ranks are the least number with a neighbour two steps ahead and with all four kinds of step (first and later scatter, first and later gather); two calls with a barrier between them make every hand-over happen. Queue discipline, no CPU/NIC race, messages meet the receives meant for them, the barrier, refinement of `AllReduce` (no rank returns a wrong sum, faults or not). Unless rank 1 stops, every rank ends, and the only failure is the loss of the last acknowledgement at exit. If it stops, a rank that *sends* to it notices; a rank that *receives* from it spins for ever, because nothing completes a receive from a silent peer. Hence `CHECK_DEADLOCK FALSE`: the model may end in that state, as the program does. |
| `ring_rdma_2` | 2 ranks, call 0 and two timed calls | The case where left and right are the same process and a gather receive is armed on the chunk still being sent: the NIC never overwrites what it sends, and no RNR NAK happens while a rank sums. Two timed calls, so that a call in the middle is followed by a reset without a check. |
| `ring_tcp` | `RingBlocking`, 3 ranks, two timed calls, chunks of 2 pieces; each connection holds 1 piece or 3, ranks 0 and 1 may stop anywhere | Ranks 0 and 2 are even neighbours, as in every odd ring. With room for 1 a chunk never fits the socket buffers: no circle of blocked sends. With room for 3 (a chunk and a barrier byte) ranks run ahead over calls and barriers: the stream stays aligned. Mixed rooms are included. The right sums, nobody fails without a cause, and a failure travels through the closed sockets until every rank has ended. One faulty rank is even and one odd. |
| `kv_cache` | `KvClients`, 4 slots of 2 bytes. With `kv_bench`: 6 + 3 operations, `--depth` 1, 3, 4, 5 or 6, a send queue of 5, kills and allocation failures anywhere. With any client: any sequence of requests, gone at any moment | The start-up race, the data path check, batches that divide the warm-up (1, 3) or not, that leave a short one (4, 5), that exceed the queue (6). The slot handed out is the last one, so a wrong address shows. The client always ends; the server ends or is in one of two known waits. With any client the slots reach both limits (none free, all free) in every order of alloc and free: none is lost or handed out twice, and an ALLOC is refused only when all are held. |
| `kv_bench_clock` | `KvBench`, warm-up 2, 2 iterations, depth 1 or 3, finding | see section 6 |
| `send_recv` | `PingPong`, all four programs, 7 rounds, depth 2 and (not `backend_compare`, which uses 8 of 127) 3, queue of 3 | More rounds than receives posted, all orders of completions: a pong answers a ping, a message always finds a receive. Depth 3 is the largest `bench_config_parse` accepts. `OnlyKnownLosses` names all that can go wrong: the last acknowledgement, the first ping at that depth, and the second test of `backend_compare`, whose client may be there before its server. Both sides end, but for a server that spins after that first ping or waits in its second `listen()`. |
| `write_stream` | `WriteStream`, 6 writes, both programs, window of 3, with and without inline payloads | Two full windows. With inline payloads or one write at a time the final doorbell means that all data are there; the exchange of `bw_rdma_write` holds both sides until they are, in every case; the server may miss any doorbell but the last. |
| `write_stream_teardown` | `backend_compare`, finding | see section 6 |
| `write_ping_pong` | `WritePingPong`, 15 rounds, doorbell modulo 4 | The doorbell wraps three times: a stale value never looks like the one waited for, and nobody is stranded at the end. A doorbell that is missed would be a deadlock, which the run checks. |
| `world_init` | `WorldInit`, 3 ranks, 3 attempts, either transport; ranks 1 and 2 may never be started, connects, listens and accepts of 0 and 1 may fail, every request may time out | All orders of starts. A return of 0 means that both connections were accepted and stand, also when a request timed out on one side, unless that neighbour's own `world_init` failed and it has left (`ReadyMeansLinked`). `world_init` waits for ever in one case only: at the join, its left neighbour never started or out of attempts (`HangsOnlyBehindGivingUp`), which the program really does, hence `CHECK_DEADLOCK FALSE`. Otherwise the ring comes up (`RingComesUp`). In a ring of three the two neighbours of a rank are different processes and each other's neighbours; three attempts let one be refused, one time out and one succeed. |
| `qp_lifecycle` | `QpLifecycle`, all four programs, 2 buffers, 3 set-ups, regions of 1, 2 and 6 bytes, 2^32 and 2^64 scaled to 4 and 11 | Every creation and wait fails at every point. Nothing is destroyed in use or twice and nothing leaks, over retries and in both modes, except what a Python user causes by `connect`, `listen` or `close` with a region registered: the PD stays behind. A post names live objects and exactly the bytes asked for, inside the region (`PostSound`): no C or C++ program gets to a length that loses its upper bits or to a sum of size and offset that wraps, and below those edges the check of `prepare_sge` is exact, also for Python, which alone could pass such numbers. The sizes are those where that is tight: 2 bytes are the two halves of the largest benchmark size, 6 the two chunks of the largest all-reduce (3 = 2^32 - 1 scaled). In C and C++ memory outlives its registration. Three set-ups: a failed one, a retry, a renewal with regions of the one before. The program ends, hence `CHECK_DEADLOCK FALSE`. |
| `py_memory` | `QpLifecycle`, Python, 1 buffer, finding | see section 6 |

Bounds are named constants. `Iters`, `Total`, `Warmup`, `Depths` and `MaxTries` are parameters of
the programs themselves, so the models are finite without cutting any behaviour;
`Rounds` is what `Total` is elsewhere; `MaxSetups` cuts off a program that sets up again
and again (the proofs hold for any value of it), `Word` and `SizeT` stand for 2^32 and 2^64,
`Pieces` and `Capacities` stand for the ratio of chunk to socket buffers, `SeqMod` for
2^8. What a program takes from its command line or its surroundings and one run should
vary (`depth` in `KvBench` and `PingPong`, `prog` in `PingPong`, `WriteStream` and
`QpLifecycle`, `use_rdma` in `WorldInit`, `inline` in
`WriteStream`, `room` in `RingBlocking`) is a variable that `Init` chooses and no action changes. Each module's
`TypeOK` states the types of its variables; `ring_rdma_3` checks that of `RingPosted`,
which the proofs start from.

### Fairness

Weak fairness of every thread: the polls and doorbell waits spin and the operating
system schedules each of them; a thread blocked in `recv()`, `send()` or `accept()` is
a disabled action. Weak fairness of every NIC step except the RNR NAK: an adapter
makes progress on each queue, and a NAK delays and never blocks since the receiver
posts without looking at the sender. Nothing is assumed of `Fail`, `ServerDies`,
`ClientDies`, `ClientGone`: no process has to die, so no liveness property holds
because one did. In `WorldInit` a rank is started for certain unless it is in `MayBeAbsent`, and
nothing is assumed of `ConnectFails`, `ListenFails`, `TcpAcceptFails`, `CmBuildFails`,
`CmAcceptFails` and `CmTimeout`. `CmUnanswered` is fair as part of the main thread:
rdma_cm gives up on a request that is never answered and reports it, so the wait for the
event ends. The any-client of `KvClients` has no fairness: it may stay for ever, and
`ServerStopsOrStuck` says so (`<>[]copen`). `write_ping_pong`, `qp_lifecycle`, `py_memory`
and `kv_bench_clock` check safety only and run without fairness.

## 4. Abstraction of data

Chunk contents are lists of contributions (`RingChunks`); the correctness check of the
benchmark is still modelled as the arithmetic it does (`AsExpected`), since it accepts
more than correct sums. Message contents of the control connection are integers.
The slab is a byte array because the properties are about addresses. Ping-pong
messages have no content at all. Time is absent; where a doc claims something about
time (`GbpsHonest`) the model records the operation at which the clock was started.
Printing, argument parsing (other than its limits) and latency sorting are left out.

## 5. What is proved

Every theorem has the form `Spec => []P`, or `Spec => ImplementsAllReduce` for the two
refinements (`ProgramsFit` is about operators alone), and holds for every value of the constants that the module's assumptions
admit. The assumptions are what the programs guarantee
before the modelled code starts: a ring has two ranks or more (`NAssumption`; a world of
one returns at once), there is at least one timed call (`ItersAssumption`), round, write
or operation (`PingPongAssumption`, `StreamAssumption`, `WritePingPongAssumption`,
`BenchAssumption`), slots, sizes, queues, pieces and socket buffers are not empty
(`SlotsAssumption`, `PiecesAssumption`, `CapacityAssumption`, `SizeAssumption` of
`KvServer`), the size of a region plus 2^32 is below 2^64 (`SizeAssumption` of
`QpLifecycle`, for every size of region; it is memory of one process), a buffer is not the name of a verbs
object (`NamesAssumption`), a
doorbell has two values or more, `--depth` is at most what `bench_config_parse` accepts,
there is at least one connection attempt (`TriesAssumption`). The sets of ranks that may
fail, stay away or time out are arbitrary (`FaultyAssumption`, `FaultAssumption`). TLC
evaluates all of them on the runs.

All proofs have the same shape: an inductive invariant `IInv`, one lemma per action or
per group of actions that it is kept, and a theorem per property that follows from it.
Most of the properties are not inductive; what had to be added says why the code works.
The strengthened invariants were checked by TLC on small instances first.

### `RingSums`: the arithmetic of the ring

What both rings need and no state takes part in, for every ring size. `Ring` and
`Chunk` give the neighbours and the chunks of a step in closed form. A chunk's content is a
list of contributions, and after so many sums and so many arrivals it has a closed form
too: `Sums(r, k, n)` are the `n` ranks to the left of `r` from `r` on, in call `k`,
`Full(c, k)` is the list a completed chunk holds on every rank, `Msg(r, k, t)` is the
message of step `t`, and `Content(r, c, k, m, h)` is chunk `c` of `r` after `m` sums and
`h` arrivals. `SentContent`, `ArrivedContent` and `SummedContent` are the three things
that happen to a chunk; `SumsGrow` shows that the chunk a step sums and the one that has
arrived continue each other's list; `EndContent` that after the last step all is
`Full`. That a full sum passes the benchmark's check needs Gauss's formula for every `N`.
`Total` adds up a list by a recursive function over its indices, and `SetInduction`
proves an induction over the naturals for a *set* of numbers (from the well-foundedness
of `<`), which avoids the library's operator parameters; with it `RoundAsExpected` and
`FullAsExpected`. The model adds integers; the program adds `float`s, which is the same
as long as `N (N + 1) / 2` is at most 2^24, that is up to 5792 ranks.

### `RingPostedProofs`: the ring over RDMA

`TypeCorrect`, `QueueDisciplineHolds` and `NoDmaRaceHolds` rest on

    IInv == TypeOK /\ QueueDiscipline /\ ResetBound

`TypeOK` alone is not inductive: `Accept` takes the head of the send queue and needs
`wire # << >> => sq # << >>` (part of `SendFlow`), and `Reset` increments `call`
and needs that a rank at "reset" has a call left (`ResetBound`). `NoDmaRace` is not
inductive either: a receive posted in the wrong place only does harm later.
`QueueDiscipline` says *which* location a queue entry may name, by where the thread is,
and with it `NoDmaRace` is a statement about locations: `ArmedElsewhere` shows that the
receive armed for step `s + 1` differs from the staging half and from the chunk that
step `s` sums. It is also why `poll(nullptr)`, which takes any completion, always takes
the right one.

`MessagesMeetTheirReceivesHolds`, `BarrierNeighboursHolds` and `NoNicOverlapHolds` are
about two neighbours, and need a bound on how far they drift apart:

    Drift == IInv /\ AllPosted /\ InStep /\ Caught /\ Crossed /\ NoNicOverlap

Nothing in the program numbers its messages. The proof numbers them `<<call, step>>`
(step -1 is the barrier's byte) and reads off the state of each end which one comes
next: `SendNext(r)` for the sender, `RecvNext(r)` for the receiver. `InStep` says that
the two ends of every connection agree. A statement of a thread does not move either
(`ThreadKeepsPlace`), an accepted message moves both by one (`SendAccepted`,
`RecvAccepted`), a send that fails with its peer gone happens only when there is no
receive left to agree with (`DriftLost`). `AllPosted` is the part of `QueueDiscipline`
that survives the failure of a thread, whose posted requests the NIC still executes.
`Caught` says that a rank sends the chunk of step `t` only after its left neighbour's
messages before `t` were accepted. For three ranks or more `NoNicOverlap` follows from
the chunk arithmetic (`ChunksApart`); for two, where the armed chunk *is* the one being
sent, it follows from `Caught` around the ring. `Crossed` is the barrier: a byte is
accepted only by a rank that has arrived.

`NoRnrWhileSummingHolds` is an action property and is about rings of two (in a larger
one a neighbour can be two steps ahead, and the NAK happens); it is proved for any
number of calls and faults. A message that finds no receive would be the byte of the
next barrier, and a rank that sends this byte has taken all chunks of the call before
it, among them one its neighbour has not sent yet (`Abreast`).

`OnlyTeardownFailsHolds` and `ImplementsAllReduceHolds` are about the results, and rest on

    SumInv == Drift /\ Data /\ AllKnown /\ Late /\ ErrDown

`Data` says of every chunk, of the staging halves, of what is on the wire and of what the
NIC is about to place that it is what `RingSums` computes (`Drift` has shown which
receive takes which message), so that the check of the benchmark always passes.

`AllKnown` says that a rank holding another's contribution to a call knows that the other
has entered it, so that nobody returns before all have entered, as `AllReduce` demands.
`Late` and `ErrDown` are about failures that no fault caused: the one race is the last
acknowledgement of the last call with the peer's process gone, when all is summed. The
refinement then maps each step of a thread or a NIC to one of `Enter`, `Return`,
`Reload`, `Finish`, `Abort`, `Crash` or a stutter, for every ring size, number of calls and
set of faulty ranks.

### `RingBlockingProofs`: the ring over TCP

`FramesAlignedHolds`: `recv_all` reads exactly the pieces its step expects, for every
chunk size and capacity. `BarrierLeftHolds`: a rank leaves the barrier only after its
left neighbour has arrived. `FailureHasCauseHolds`: unless a faulty rank stops, no rank
fails, although each closes its sockets as soon as it is done and checks its sums.
`ImplementsAllReduceHolds`: the refinement of `AllReduce`. `TypeCorrect`. They rest on

    SumInv == IInv /\ Data /\ Knowing

Every place in a rank's output is `<<call, step, piece>>`; `Linked` says that a stream
holds the pieces from the receiver's place to the sender's, in order and without gaps,
whichever of the two goes first (even and odd ranks interleave their calls differently),
and `DoneIsFed` that a rank which is done has read all its neighbour will ever send.
`Carries` is what a piece at a place is: the frame of its step, with `Msg` of that step
as its content, sent by a rank that has entered the call and knows (`Informed`) that as
many ranks to its left as the step counts have entered it too. `Within`, the set of all
entries into calls, only grows (`WithinGrows`), so what a piece says stays true while it
lies in a socket buffer. A receiver in the middle of a chunk holds the new pieces of it
and the old ones of the rest: `Data` describes memory piece by piece (`Has(r, u)`). The
check then always passes (`CheckAlwaysPasses`), and the refinement maps steps as it does
over RDMA.

### `WorldInitProofs`

`ReadyMeansLinkedHolds` and `TypeCorrect`. The two threads of a rank and those of its
neighbours never see each other's state; `EdgeOK` says for each state of a connection
what its two ends can be doing, and `OkMeansAccepted` that a return of 0 has seen its
own accept. `Exits` is about ranks that left: one whose `world_init` failed had come to
its join (`LeftJoined`), and a connection is closed only because one of its ends did
(`ClosedByExit`).

### `QpLifecycleProofs`: queue pairs and memory regions

`OrderlyTeardownHolds`, `NothingLeakedHolds`, `PostSoundHolds`,
`OwnersOutliveRegionsHolds` and `TypeCorrect`, for any number of buffers and set-ups and
every set of programs. `ProgramsFit`: `prepare_sge` never refuses what the C and C++
programs pass, for every region and width of the integers.

A call in progress is the list `todo` of steps it has still to take: any suffix of what
a library call or an error path consists of. The invariant never says which list it is.
It says what the list still holds (`Has`) and that its order is right: `Before` is the
partial order the steps must keep (the queue pair is destroyed before its completion
queue and PD, a region is deregistered before its PD goes, a teardown is over before
anything is made), `Ordered` that no list breaks it, `DeregFirst` that a region goes
before its memory. A suffix of an ordered list is ordered (`Taken`), and two lists join
to an ordered one when their steps are apart (`Joined`), so each library call is looked
at once (`CmListen`, `CmConnect`, `VerbsListen`, `VerbsConnect`, `Down`) and each step
once (`MakeKeeps`, `DropKeeps`, `FailsKeeps`, ...).

What the invariant adds to that is how the list, the handles and the objects belong
together: a handle names an object that exists unless a `memset` is still to come
(`Lively`); an object that exists has its handle, but for a PD that could not be
destroyed (`Known`); a `memset` to come means that everything alive has its destruction
in the list before it (`Cleared`), which is why nothing leaks on any error path; nothing
is made over a handle that is set (`Fresh`); between calls a `rai_qp_t` has its
queue pair or is all NULL (`Whole`); the mode `rai_qp_destroy` looks at says which fields can
be set (`ModeKept`).

`PostSoundHolds` needs the arithmetic of the programs besides: `ProgramArgs` shows from
`BenchArgs` and `ScopedArgs` that a length stays below 2^32 and ends inside its region. A
benchmark has twice its length in an unsigned 32-bit number; an all-reduce of an `int` of
4-byte floats has fewer than 2^33 bytes, and is divided among two ranks or more
(`ChunkEnds`). `Sizes` is the check itself, where it neither truncates nor wraps.

### `KvProofs`

`SlotsConservedHolds` and `RefusedOnlyWhenFullHolds`: `SlotsConserved` counts, and
counting is not inductive; `Shared` says that free list, client and the one message
under way are disjoint and make up the slab, and `PoolTalk` which words can be in the two
streams (a word's meaning is only its place).

`RoundTripHolds`, `OnlyOwnSlotHolds`, `BatchesExactHolds`, `HonestIffDivides` follow
the client from its first connect: `Hand` (what the control connection has told it),
`Mem` (what is in the slab, by what has been executed) and `Loop` (posted, outstanding
and polled requests add up; every batch starts at a multiple of the depth, and the clock
is that of the first one past the warm-up). `HonestIffDivides` says exactly when the
property of the finding `kv_bench_clock` holds: when the depth divides the warm-up. Types: `PoolTypeCorrect`, `TypeCorrect`.

### `PingPongProofs` and `WriteProofs`

`PongsAnswerPingsHolds`, `ReceiveReadyHolds`, `OnlyKnownLossesHolds`, for all four
programs. The polls do not look at the kind of a completion, so the invariant counts:
what a side has polled is at most what its peer placed and acknowledged (`Delivered`),
receives posted and used add up (`Receives`), and neither side is more than a message
ahead (`Lockstep`).

`DoorbellMeansLastHolds`, `HeldUntilReapedHolds`: the k-th entry on the wire is write
number `landed + k`, and when payloads are copied at the post, or one write is out at a
time, the final doorbell is carried by the last one only (`FinalIsLast`).

`TruncationSafeHolds`, `NobodyStrandedHolds`: `Sent` counts the landed writes from where
the sender stands, the doorbell in memory is that count modulo `SeqMod`, and `Turns`
keeps the two counts within one of each other; consecutive numbers differ modulo 2 or
more (`ConsecutiveDiffer`), which is all the comparison of one byte needs.

### Only model-checked

- All liveness (`Termination`, `SenderNoticesLoss`, `ClientEnds`, `ServerStopsOrStuck`,
  `RingComesUp`, `HangsOnlyBehindGivingUp`): the prover has no rule for fairness.

All invariants and action properties of the passing runs, and both refinements, are
proved.

## 6. Findings

Each is a run whose single property TLC finds violated; the quotes are in
`PROJECT.json`.

1. `write_stream_teardown`: the write test of `backend_compare` has no teardown
   exchange, and the server may leave before the client has its last acknowledgement.
2. `py_memory`: `RegisteredBuffer` declares `sb` before `source`, so its destructor
   drops the reference to the Python object first and deregisters after. The memory
   may be freed while the region still exists; declaring `source` first would do.
3. `kv_bench_clock`: `kv_bench.cpp:157`, "The gbps below stays honest either way": the
   clock starts with a batch, so when `--depth` does not divide the warm-up it starts up
   to `depth - 1` operations late, or never, while all `iters` are counted.

Two statements of the repository do not hold as they are worded; passing runs check
what holds instead:

- `collective.hpp:63`, "it only establishes that the two neighbours have arrived": on
  TCP `world_barrier` says nothing of the right neighbour, whose byte may sit in a
  socket buffer (`BarrierLeft` in `ring_tcp`; on RDMA `BarrierNeighbours` holds).
- `bench_config.h:116`, the limit on `--depth`: the client of `lat_send_recv` posts one
  receive more than `--depth`, so the largest depth accepted overflows the receive
  queue before the first ping and leaves the server spinning (`OnlyKnownLosses`,
  `Termination` in `send_recv`).

Other behaviours are stated as what the passing runs allow. In `bw_rdma_write` the flag
is raised in a source buffer shared with writes not yet fetched, so without inline
payloads the server may see it before the last write has landed; `DoorbellMeansLast`
says when it cannot, `HeldUntilReaped` that it does no harm. The
last acknowledgement may be lost at exit in `allreduce_bench`, `lat_send_recv` and the
send/receive test (`OnlyTeardownFails`, `OnlyKnownLosses`), and a server may wait for ever for a client
that left during start-up (`ServerStuck`), as may `world_init` for a left neighbour
(`HangsOnlyBehindGivingUp`).

## 7. Not modelled, and the plan

Left out, and why:

- The interpreter lock in the Python bindings. `listen` is bound without a
  `call_guard` and waits for the peer under RDMA, as do `send_async` and `recv_async`
  under TCP: a second Python thread that should be that peer never runs. A model would
  restate the list of guards. Nor is the buffer view of `reg_buf` modelled, which is
  released when the call returns, so that a registered `bytearray` may be resized.
- The search for a RoCE v2 GID (`rdma_verbs_connect.c`), a look-up in files of the
  driver; the percentiles of a sorted array; the bandwidth formula.
- `exchange_buf` over TCP, which only a Python program could call.
- Scripts and plots, and the kernel and adapter below the interfaces described above.
- Proofs of liveness, which the prover cannot do.

What a continuation could add: the Python interpreter lock as a module of its own with
two Python threads and the guards of every binding; `ring_allreduce` for values that are
not exact in `float`, where the order of the sums, which the lists of contributions
already record, decides the rounding.
