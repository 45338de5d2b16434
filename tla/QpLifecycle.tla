---------------------------- MODULE QpLifecycle ----------------------------
(***************************************************************************)
(* Life and death of the verbs objects of one process: rai_qp_t            *)
(* (rdma_qp.c, rdma_cm_connect.c, rdma_verbs_connect.c), rai_mr_t          *)
(* (rdma_mr.c), the arguments of a post (rdma_ops.c), and RdmaTransport    *)
(* around them (rdma_backend.cpp).  Every creation may fail.               *)
(*                                                                         *)
(* Three kinds of program use them.  "cm" and "verbs" are the phase 1      *)
(* benchmarks: one queue pair, one region, one exit path.  "scoped" is a   *)
(* C++ program: a transport that may retry its connect (world_init), then  *)
(* ScopedBuffers, destroyed in the reverse order.  "python" is a user of   *)
(* the bindings, who may call anything at any time and whose buffers live  *)
(* as long as Python refers to them.                                       *)
(*                                                                         *)
(* A library call is the list of its steps: objects it makes and drops,    *)
(* and waits that may fail.  An object is a kind and the number of the     *)
(* set-up that made it.                                                    *)
(***************************************************************************)
EXTENDS Integers, Sequences

CONSTANTS
  Programs,  \* subset of {"cm", "verbs", "scoped", "python"}
  Bufs,      \* buffers a program registers
  MaxSetups, \* bound on set-ups: attempts of a program that retries
  MrSizes,   \* bytes a region may have
  Word,      \* 2^32: sizes of posts are uint32_t
  SizeT      \* 2^64: offsets are size_t

ASSUME SizeAssumption ==
  /\ MaxSetups \in Nat /\ Word \in Nat \ {0} /\ SizeT \in Nat
  /\ MrSizes \subseteq Nat /\ \A n \in MrSizes : SizeT > Word + n

QpFields == {"ec", "cm_id", "ctx", "pd", "cq", "qp"}
Kinds == QpFields \cup {"listen_id", "ep_fd", "mr_fd"}
Setups == 1 .. MaxSetups

ASSUME NamesAssumption ==
  /\ Bufs \cap Kinds = {}
  /\ Programs \subseteq {"cm", "verbs", "scoped", "python"}

VARIABLES
  prog,   \* which program; chosen once
  stage,  \* how far it is: "new", "listening", "live", "out", "exit"
  call,   \* library call in progress, or "none"
  todo,   \* its remaining steps
  failed, \* whether it will return -1
  mode,   \* qp->mode
  setups, \* set-ups begun
  handle, \* fields of rai_qp_t, locals and descriptors: a set-up, or 0 for NULL
  alive,  \* objects that exist: <<kind, set-up>>, regions as <<buffer, set-up of the PD>>
  reg,    \* reg[b]: the set-up in whose PD b is registered, 0 when it is not
  refs,   \* who keeps the memory of a buffer: <<buffer, holder>>
  wr,     \* the last work request posted
  faults, \* destructions of what is in use or already gone
  early   \* python: connect, listen or close was called with a region registered

vars == <<prog, stage, call, todo, failed, mode, setups, handle, alive, reg,
          refs, wr, faults, early>>
progVars == <<prog, setups, early>>

NoWr == [buf |-> 0]
Bench == {"cm", "verbs"}

Init ==
  /\ prog \in Programs
  /\ stage = "new"
  /\ call = "none"
  /\ todo = << >>
  /\ failed = FALSE
  /\ mode = "cm"
  /\ setups = 0
  /\ handle = [k \in Kinds |-> 0]
  /\ alive = {}
  /\ reg = [b \in Bufs |-> 0]
  /\ refs = IF prog \in Bench THEN {} ELSE Bufs \X {"name"}
  /\ wr = NoWr
  /\ faults = {}
  /\ early = FALSE

TypeOK ==
  /\ prog \in Programs
  /\ stage \in {"new", "listening", "live", "out", "exit"}
  /\ call \in {"none", "listen", "accept", "connect", "close", "drop"}
  /\ failed \in BOOLEAN /\ early \in BOOLEAN
  /\ mode \in Bench
  /\ setups \in 0 .. MaxSetups
  /\ handle \in [Kinds -> 0 .. MaxSetups]
  /\ alive \subseteq (Kinds \cup Bufs) \X Setups
  /\ reg \in [Bufs -> 0 .. MaxSetups]
  /\ refs \subseteq Bufs \X {"name", "source", "mr"}

-----------------------------------------------------------------------------
(* The calls, as lists of steps *)

Make(k) == <<"make", k>>
Wait(w) == <<"wait", w>>
Drop(k) == <<"drop", k>>
Clear == <<"clear", "qp">>
Dereg(b) == <<"dereg", b>>
Unref(b, holder) == <<"unref", b, holder>>

\* Mutant: the channel before the id that reports on it.
qp_destroy_cm_ChannelFirst ==
  <<Drop("qp"), Drop("cq"), Drop("pd"), Drop("ec"), Drop("cm_id")>>

qp_destroy_cm == <<Drop("qp"), Drop("cq"), Drop("pd"), Drop("cm_id"), Drop("ec")>>
qp_destroy_verbs == <<Drop("qp"), Drop("cq"), Drop("pd"), Drop("ctx")>>

rai_qp_destroy ==
  (IF mode = "verbs" THEN qp_destroy_verbs ELSE qp_destroy_cm) \o <<Clear>>

build_qp_from_cm == <<Make("pd"), Make("cq"), Make("qp")>>
build_qp_verbs ==
  <<Make("ctx"), Wait("gid"), Make("pd"), Make("cq"), Make("qp"), Wait("init")>>

\* The new id comes with the CONNECT_REQUEST; the listening one is destroyed
\* on every path.
rai_cm_listen_qp ==
  <<Make("ec"), Make("listen_id"), Wait("bind"), Make("cm_id")>>
    \o build_qp_from_cm \o <<Make("mr_fd"), Drop("listen_id")>>
rai_cm_connect_qp ==
  <<Make("ec"), Make("cm_id"), Wait("route")>>
    \o build_qp_from_cm \o <<Wait("established")>>

rai_verbs_listen_qp ==
  <<Make("ep_fd"), Make("mr_fd")>>
    \o build_qp_verbs \o <<Wait("exchange"), Drop("ep_fd")>>
rai_verbs_connect_qp == build_qp_verbs \o <<Wait("exchange"), Wait("rts")>>

ListenSteps == IF prog = "verbs" THEN rai_verbs_listen_qp ELSE rai_cm_listen_qp
ConnectSteps == IF prog = "verbs" THEN rai_verbs_connect_qp ELSE rai_cm_connect_qp
AcceptSteps == <<Wait(IF prog = "verbs" THEN "rts" ELSE "established")>>

\* Mutant: the queue pair's objects are left to the caller.
OnFailure_KeepsQp ==
  CASE call = "listen" -> <<Drop("listen_id"), Drop("ep_fd")>>
    [] OTHER -> << >>

\* What the error path of the call in progress does.  accept leaves the
\* queue pair to its caller.
OnFailure ==
  CASE call = "listen" /\ prog = "verbs" ->
         <<Drop("ep_fd"), Drop("mr_fd")>> \o rai_qp_destroy
    [] call = "listen" /\ prog # "verbs" -> <<Drop("listen_id")>> \o rai_qp_destroy
    [] call = "connect" -> rai_qp_destroy
    [] OTHER -> << >>

\* RdmaTransport begins a set-up by undoing the last one.
Renew ==
  (IF handle["qp"] # 0 THEN rai_qp_destroy ELSE << >>) \o <<Drop("mr_fd")>>
TransportClose == rai_qp_destroy \o <<Drop("mr_fd")>>

-----------------------------------------------------------------------------
(* One step of the call in progress *)

Head1 == Head(todo)
Proceed == todo' = Tail(todo)

\* What must be gone before an object of kind k can be destroyed.
Users(k) ==
  CASE k = "pd" -> {"qp"} \cup Bufs
    [] k \in {"cq", "cm_id"} -> {"qp"}
    [] k = "ec" -> {"cm_id", "listen_id"}
    [] k = "ctx" -> {"qp", "pd", "cq"}
    [] OTHER -> {}

StepMake ==
  /\ todo # << >> /\ Head1[1] = "make"
  /\ handle' = [handle EXCEPT ![Head1[2]] = setups]
  /\ alive' = alive \cup {<<Head1[2], setups>>}
  /\ Proceed
  /\ UNCHANGED <<progVars, stage, call, failed, mode, reg, refs, wr, faults>>

StepWait ==
  /\ todo # << >> /\ Head1[1] = "wait"
  /\ Proceed
  /\ UNCHANGED <<progVars, stage, call, failed, mode, handle, alive, reg, refs,
                 wr, faults>>

StepFails ==
  /\ todo # << >> /\ Head1[1] \in {"make", "wait"}
  /\ failed' = TRUE
  /\ todo' = OnFailure
  /\ UNCHANGED <<progVars, stage, call, mode, handle, alive, reg, refs, wr, faults>>

\* Destroying what is still in use is refused (EBUSY) and only logged.
\* Descriptors and locals are reset one by one, the fields of rai_qp_t by
\* the memset at the end.
StepDrop ==
  /\ todo # << >> /\ Head1[1] = "drop"
  /\ LET k == Head1[2]
         o == <<k, handle[k]>>
         null == handle[k] = 0 \/ (k = "qp" /\ mode = "cm" /\ handle["cm_id"] = 0)
         busy == \E u \in Users(k) : <<u, handle[k]>> \in alive
     IN /\ alive' = IF null \/ busy THEN alive ELSE alive \ {o}
        /\ faults' = IF null \/ (o \in alive /\ ~busy) THEN faults
                     ELSE faults \cup {<<IF o \in alive THEN "busy" ELSE "dangling", k>>}
        /\ handle' = IF k \in QpFields THEN handle ELSE [handle EXCEPT ![k] = 0]
  /\ Proceed
  /\ UNCHANGED <<progVars, stage, call, failed, mode, reg, refs, wr>>

\* memset(qp, 0, sizeof(*qp)); RAI_CONN_CM is 0.
StepClear ==
  /\ todo # << >> /\ Head1[1] = "clear"
  /\ handle' = [k \in Kinds |-> IF k \in QpFields THEN 0 ELSE handle[k]]
  /\ mode' = "cm"
  /\ Proceed
  /\ UNCHANGED <<progVars, stage, call, failed, alive, reg, refs, wr, faults>>

\* rai_mr_dereg on a region that was registered; nothing for one that was not.
\* ibv_dereg_mr is taken to succeed: nothing but its own user refers to a
\* region (a failure would only be logged, and the memory freed all the same).
StepDereg ==
  /\ todo # << >> /\ Head1[1] = "dereg"
  /\ alive' = alive \ {<<Head1[2], reg[Head1[2]]>>}
  /\ reg' = [reg EXCEPT ![Head1[2]] = 0]
  /\ Proceed
  /\ UNCHANGED <<progVars, stage, call, failed, mode, handle, refs, wr, faults>>

StepUnref ==
  /\ todo # << >> /\ Head1[1] = "unref"
  /\ refs' = refs \ {<<Head1[2], Head1[3]>>}
  /\ Proceed
  /\ UNCHANGED <<progVars, stage, call, failed, mode, handle, alive, reg, wr, faults>>

\* The call returns to the program.  A benchmark goes to its exit path when
\* anything fails, a C++ program may try a connect again.
Return ==
  /\ call # "none" /\ todo = << >>
  /\ call' = "none"
  /\ stage' = CASE call = "drop" -> stage
                [] call = "close" -> IF stage = "out" THEN "exit" ELSE "new"
                [] call = "accept" /\ failed -> IF prog = "python" THEN stage ELSE "out"
                [] call \in {"listen", "connect"} /\ failed
                     -> IF prog \in Bench THEN "out" ELSE "new"
                [] call = "listen" /\ ~failed -> "listening"
                [] call \in {"connect", "accept"} /\ ~failed -> "live"
  /\ UNCHANGED <<progVars, todo, failed, mode, handle, alive, reg, refs, wr, faults>>

Step ==
  \/ StepMake \/ StepWait \/ StepFails \/ StepDrop \/ StepClear \/ StepDereg
  \/ StepUnref \/ Return

-----------------------------------------------------------------------------
(* The programs *)

Begin(c, steps) ==
  /\ call = "none"
  /\ call' = c
  /\ todo' = steps
  /\ failed' = FALSE
  /\ wr' = NoWr

Registered == {b \in Bufs : reg[b] # 0}

\* A set-up: at the start of a benchmark, before the ScopedBuffers of a C++
\* program, at any time in Python.  The calls set qp->mode first.
SetUp(c, steps) ==
  /\ stage = "new" \/ (prog = "python" /\ stage # "exit")
  /\ setups < MaxSetups
  /\ prog \in Bench => setups = 0
  /\ setups' = setups + 1
  /\ Begin(c, IF prog \in Bench THEN steps ELSE Renew \o steps)
  /\ mode' = IF prog = "verbs" THEN "verbs" ELSE "cm"
  /\ early' = (early \/ Registered # {})
  /\ UNCHANGED <<prog, stage, handle, alive, reg, refs, faults>>

Listen == SetUp("listen", ListenSteps)
Connect == SetUp("connect", ConnectSteps)

\* The benchmark registers before accept makes the queue pair live.  Python may
\* call accept again, or after connect.
Accept ==
  /\ stage = "listening" \/ (prog = "python" /\ stage # "exit")
  /\ prog \in Bench => Registered # {}
  /\ prog = "python" => handle["cm_id"] # 0
  /\ Begin("accept", AcceptSteps)
  /\ UNCHANGED <<progVars, stage, mode, handle, alive, reg, refs, faults>>

\* Without a set-up qp->cm_id is NULL and so is what rdma_accept reads: the
\* process ends there, and the kernel takes back what it had.
PyAcceptNull ==
  /\ prog = "python" /\ call = "none" /\ stage # "exit"
  /\ handle["cm_id"] = 0
  /\ stage' = "exit"
  /\ handle' = [k \in Kinds |-> 0]
  /\ alive' = {}
  /\ reg' = [b \in Bufs |-> 0]
  /\ refs' = {}
  /\ wr' = NoWr
  /\ UNCHANGED <<progVars, call, todo, failed, mode, faults>>

\* Who holds the memory besides its owner: rai_mr_reg allocates it itself,
\* a RegisteredBuffer refers to its Python source.
Holder(b) ==
  CASE prog \in Bench -> {<<b, "mr">>}
    [] prog = "python" -> {<<b, "source">>}
    [] OTHER -> {}

\* rai_mr_reg and rai_mr_reg_external need a PD; they undo what they did when
\* ibv_reg_mr fails.
Reg(b) ==
  /\ call = "none"
  /\ stage \in {"listening", "live"}
  /\ reg[b] = 0
  /\ prog \in Bench => Registered = {}
  /\ prog \in {"scoped", "python"} => <<b, "name">> \in refs
  /\ handle["pd"] # 0
  /\ reg' = [reg EXCEPT ![b] = handle["pd"]]
  /\ alive' = alive \cup {<<b, handle["pd"]>>}
  /\ refs' = refs \cup Holder(b)
  /\ wr' = NoWr
  /\ UNCHANGED <<progVars, stage, call, todo, failed, mode, handle, faults>>

\* A benchmark or a C++ program gives up; Python gets an exception.
RegFails ==
  /\ call = "none"
  /\ prog # "python"
  /\ stage \in {"listening", "live"}
  /\ stage' = "out"
  /\ UNCHANGED <<progVars, call, todo, failed, mode, handle, alive, reg, refs,
                 wr, faults>>

\* Mutant: an int, as everywhere else in the benchmarks.
Size_Int(len) == len % (Word \div 2)

\* prepare_sge: size_t len becomes uint32_t size, then the checks.
Size(len) == len % Word

\* (size_t)size + offset > mr->size is an error; the sum is a size_t.
Fits(mrSize, len, offset) ==
  Size(len) # 0 /\ (Size(len) + offset) % SizeT <= mrSize

\* --size is a positive int.  bw_rdma_write and lat_send_recv register so many
\* bytes, lat_rdma_write twice as many: the server replies from the high half.
BenchArgs(mrSize, len, offset) ==
  /\ 2 * len < Word
  /\ \/ mrSize = len /\ offset = 0
     \/ mrSize = 2 * len /\ offset \in {0, len}

\* A C++ program posts a whole region, whose size is an int (backend_compare
\* and kv_bench), or one of the k chunks it divides a region into: those of
\* the ring, at most an int of 4-byte floats in all, and the barrier's byte.
ScopedArgs(mrSize, len, offset) ==
  \E k \in 1 .. mrSize :
    /\ mrSize = k * len
    /\ \E c \in 0 .. k - 1 : offset = c * len
    /\ IF k = 1 THEN 2 * len < Word ELSE mrSize < 2 * Word

\* Python passes any two numbers.  A region's size matters to nothing but the
\* post: mrSize is chosen with it.
Post(b, mrSize, len, offset) ==
  /\ call = "none"
  /\ handle["qp"] # 0
  /\ reg[b] # 0
  /\ prog \in Bench => BenchArgs(mrSize, len, offset)
  /\ prog = "scoped" => ScopedArgs(mrSize, len, offset)
  /\ Fits(mrSize, len, offset)
  /\ wr' = [buf |-> b, pd |-> reg[b], mrSize |-> mrSize, size |-> Size(len),
            len |-> len, offset |-> offset]
  /\ UNCHANGED <<progVars, stage, call, todo, failed, mode, handle, alive, reg,
                 refs, faults>>

\* Mutant: the memory is freed first.
DeregAndFree_FreeFirst(b, holder) == <<Unref(b, holder), Dereg(b)>>
DeregAndFree(b, holder) == <<Dereg(b), Unref(b, holder)>>

\* The `out:` of a benchmark: descriptor, region, queue pair.
BenchOut(b) ==
  /\ prog \in Bench
  /\ stage \in {"out", "live"}
  /\ Registered \subseteq {b}
  /\ Begin("close", <<Drop("mr_fd")>> \o DeregAndFree(b, "mr") \o rai_qp_destroy)
  /\ stage' = "out"
  /\ UNCHANGED <<progVars, mode, handle, alive, reg, refs, faults>>

\* The scopes of a C++ program close: buffers first, the transport last.
ScopedDrop(b) ==
  /\ prog = "scoped"
  /\ stage \notin {"exit"}
  /\ <<b, "name">> \in refs
  /\ Begin("drop", DeregAndFree(b, "name"))
  /\ stage' = "out"
  /\ UNCHANGED <<progVars, mode, handle, alive, reg, refs, faults>>

ScopedOut ==
  /\ prog = "scoped"
  /\ stage \notin {"exit"}
  /\ refs = {}
  /\ Begin("close", TransportClose)
  /\ stage' = "out"
  /\ UNCHANGED <<progVars, mode, handle, alive, reg, refs, faults>>

\* ~RegisteredBuffer destroys its members in the reverse order of their
\* declaration: source, then the ScopedBuffer.
PyDropBuffer(b) ==
  /\ prog = "python"
  /\ <<b, "source">> \in refs
  /\ Begin("drop", <<Unref(b, "source"), Dereg(b)>>)
  /\ UNCHANGED <<progVars, stage, mode, handle, alive, reg, refs, faults>>

PyDropName(b) ==
  /\ prog = "python"
  /\ <<b, "name">> \in refs
  /\ Begin("drop", <<Unref(b, "name")>>)
  /\ UNCHANGED <<progVars, stage, mode, handle, alive, reg, refs, faults>>

PyClose ==
  /\ prog = "python"
  /\ stage \in {"new", "listening", "live"}
  /\ Begin("close", TransportClose)
  /\ early' = (early \/ Registered # {})
  /\ UNCHANGED <<prog, setups, stage, mode, handle, alive, reg, refs, faults>>

\* keep_alive: the transport outlives the buffers registered with it.
PyDelete ==
  /\ prog = "python"
  /\ stage # "exit"
  /\ Registered = {}
  /\ Begin("close", TransportClose)
  /\ stage' = "out"
  /\ UNCHANGED <<progVars, mode, handle, alive, reg, refs, faults>>

Next ==
  \/ Step
  \/ Listen \/ Connect \/ Accept \/ PyAcceptNull \/ RegFails \/ ScopedOut \/ PyClose \/ PyDelete
  \/ \E b \in Bufs :
       \/ Reg(b) \/ BenchOut(b) \/ ScopedDrop(b) \/ PyDropBuffer(b) \/ PyDropName(b)
       \/ \E mrSize \in MrSizes, len \in 0 .. 2 * Word - 1, offset \in 0 .. SizeT - 1 :
            Post(b, mrSize, len, offset)

Spec == Init /\ [][Next]_vars

-----------------------------------------------------------------------------
(* Properties *)

Held == {<<k, handle[k]>> : k \in Kinds} \cup {<<b, reg[b]>> : b \in Bufs}

\* Nothing is destroyed while something still depends on it (a PD with a
\* region or a queue pair, a CQ with a queue pair, an event channel with an
\* id, a device with anything) and nothing twice, whatever step failed and in
\* whatever mode.  Only Python can break it, by calling connect, listen or
\* close while a region is registered; then the PD is what stays behind.
OrderlyTeardown == faults # {} => early /\ faults = {<<"busy", "pd">>}

\* Between calls every object is reachable through the handles, so a set-up
\* that failed half-way has undone all of it and a retry starts clean; at the
\* end nothing is left.  The exception is the PD of OrderlyTeardown.
NothingLeaked ==
  call = "none" =>
    \A o \in alive : \/ o \in Held /\ stage # "exit"
                     \/ early /\ o[1] = "pd"

\* What the program asked for can be said in the types of the call: the
\* length in 32 bits, the end of the bytes in a size_t.
InRange == wr.len < Word /\ wr.offset + wr.len < SizeT

\* A post names a live queue pair, a region that exists, and exactly the bytes
\* the program asked for, all of them inside the region.  The C and C++
\* programs never get to the two edges of prepare_sge, a length that loses its
\* upper bits and a sum that wraps: half of the largest --count is the last
\* that fits.  Python is held to the range, where the check is then exact, and
\* may use a region of a PD left behind by a set-up before.
PostSound ==
  wr # NoWr =>
    /\ <<"qp", handle["qp"]>> \in alive
    /\ <<wr.buf, wr.pd>> \in alive
    /\ prog # "python" => wr.pd = handle["pd"] /\ InRange
    /\ InRange => wr.size = wr.len /\ wr.offset + wr.size <= wr.mrSize

\* "so the underlying memory (bytearray / numpy / torch tensor) survives
\* until the MR is dereg'd" (transport_py.cpp:6): a region the adapter may
\* still write has memory behind it.
SurvivesUntilDereg ==
  \A b \in Bufs : (\E e \in Setups : <<b, e>> \in alive) => \E h \in refs : h[1] = b

\* In the C and C++ programs memory outlives its registration.
OwnersOutliveRegions == prog # "python" => SurvivesUntilDereg
=============================================================================
