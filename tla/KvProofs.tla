------------------------------ MODULE KvProofs ------------------------------
(***************************************************************************)
(* Proofs about the key-value cache.  KvBench, for every number and size of *)
(* slots, warm-up, number of iterations, depth and queue length: the data   *)
(* path check reads back what it wrote, writes stay in the client's own     *)
(* slot, the batches add up, and the printed bandwidth is honest exactly    *)
(* where depth divides the warm-up.  KvPool, for every number of slots: the *)
(* free list, the client and the message between them share the slots, each *)
(* in one place, and an allocation is refused only when all are held.       *)
(***************************************************************************)
EXTENDS KvBench, KvPool, FiniteSetTheorems, SequenceTheorems, TLAPS

-----------------------------------------------------------------------------
(* The inductive invariant, in three parts: what the two processes have     *)
(* said to each other, what lies in memory and in the queues, and where     *)
(* run_bench is.                                                            *)

Exits     == {"exit0", "exit1"}
WithSlot  == {"fill", "written", "clear", "readback", "compare", "post", "poll", "report",
              "free", "freerecv"}
AfterMeta == {"buffers", "oob", "oobrecv", "alloc", "allocrecv"} \cup WithSlot

HandType ==
  /\ spc \in ServerPCs /\ cpc \in ClientPCs
  /\ free_list \in Seq(Slots)
  /\ c2s \in Seq(Int) /\ s2c \in Seq(Int)
  /\ copen \in BOOLEAN /\ sopen \in BOOLEAN
  /\ dlisten \in BOOLEAN /\ creq \in BOOLEAN /\ estab \in BOOLEAN
  /\ oob \in {"none", "waiting", "done"}
  /\ remote \in [num_slots : {0, NumSlots}, slot_size : {0, SlotSize}]
  /\ slot \in -1..(NumSlots - 1)

\* One request or one reply at a time, and the reply is the one waited for.
Talk ==
  /\ copen <=> cpc \notin Exits \cup {"ctrl"}
  /\ cpc \notin Exits \cup {"metarecv", "allocrecv", "freerecv"} => c2s = << >> /\ s2c = << >>
  /\ cpc = "metarecv" => \/ c2s = <<KV_MSG_META>> /\ s2c = << >>
                         \/ c2s = << >> /\ s2c = MetaWords
  /\ cpc = "allocrecv" => \/ c2s = <<KV_MSG_ALLOC, 0>> /\ s2c = << >>
                          \/ c2s = << >> /\ \E w \in Slots \cup {-1} : s2c = <<w>>
  /\ cpc = "freerecv" => \/ c2s = <<KV_MSG_FREE, slot>> /\ s2c = << >>
                         \/ c2s = << >> /\ s2c = <<0>>
  /\ cpc \in AfterMeta \/ (cpc = "metarecv" /\ c2s = << >>)
       => spc \in {"setup", "exchange", "serve", "exit0", "exit1"}

Known ==
  /\ cpc \in AfterMeta => remote = [num_slots |-> NumSlots, slot_size |-> SlotSize]
  /\ cpc \in WithSlot => slot \in Slots

DataType ==
  /\ local \in [Offsets -> Bytes] /\ slab \in [SlabAddrs -> Bytes]
  /\ sq \in Seq(Operations) /\ cq \in Seq(BOOLEAN)
  /\ Len(sq) + Len(cq) <= MaxWr

\* The requests outstanding are those of this step of main or of this batch.
Doing == IF cpc = "written" THEN "write" ELSE IF cpc = "readback" THEN "read" ELSE phase
Queues ==
  /\ cpc \notin Exits => \A j \in 1..Len(sq) : sq[j] = Doing
  /\ cpc \notin Exits \cup {"written", "readback", "post", "poll"} => sq = << >> /\ cq = << >>
  /\ cpc \in {"written", "readback"} => Len(sq) + Len(cq) = 1
  /\ cpc \in {"post", "poll"} => polled + Len(sq) + Len(cq) = posted

Blank  == \A a \in SlabAddrs : slab[a] = 0
Filled == \A o \in Offsets : /\ slot * SlotSize + o \in SlabAddrs
                             /\ slab[slot * SlotSize + o] = Pattern[o]

Contents ==
  /\ cpc \notin Exits \cup (WithSlot \ {"fill"}) => Blank
  /\ cpc = "written" => local = Pattern /\ (sq # << >> => Blank) /\ (Completed => Filled)
  /\ cpc = "readback" => (Completed => local = Pattern)
  /\ cpc \in {"compare", "post", "poll", "report", "free", "freerecv"} => local = Pattern
  /\ cpc \in WithSlot \ {"fill", "written"} => Filled
  /\ OnlyOwnSlot

LoopType ==
  /\ phase \in Operations \cup {"check"} /\ depth \in Depths
  /\ i \in 0..(Total + depth) /\ posted \in 0..depth /\ polled \in 0..posted
  /\ start \in -1..Total

Batches ==
  /\ cpc \in {"post", "poll"} => i < Total /\ phase \in Operations
  /\ cpc = "post" => polled = 0 /\ posted < BatchSize
  /\ cpc = "poll" => polled < posted /\ posted = BatchSize
  /\ cpc = "report" => i >= Total /\ posted = 0
  /\ i % depth = 0

\* Where a batch past the warm-up starts; the clock is that of the first one
\* before here.
Start(b) == b \in Warmup..(Total - 1) /\ b % depth = 0
Clock(here) ==
  IF start = -1 THEN \A b \in Nat : Start(b) => b >= here
  ELSE Start(start) /\ start < here /\ \A b \in Nat : Start(b) => start <= b
Timed ==
  cpc \in {"post", "poll", "report"} => Clock(IF posted > 0 THEN i + 1 ELSE i)

Hand == HandType /\ Talk /\ Known
Mem  == DataType /\ Queues /\ Contents
Loop == LoopType /\ Batches /\ Timed

IInv == Hand /\ Mem /\ Loop

-----------------------------------------------------------------------------
(* Words and numbers.                                                         *)

(* The words of a request or a reply come out of the stream as they went in. *)
LEMMA Words ==
  /\ \A v \in Int, w \in Int : /\ << >> \o <<v, w>> = <<v, w>> /\ <<v, w>> \in Seq(Int)
                               /\ Len(<<v, w>>) = 2 /\ Rest(<<v, w>>, 2) = << >>
                               /\ <<v, w>>[1] = v /\ <<v, w>>[2] = w /\ <<v, w>> # << >>
  /\ \A w \in Int : /\ << >> \o <<w>> = <<w>> /\ <<w>> \in Seq(Int) /\ Len(<<w>>) = 1
                    /\ Rest(<<w>>, 1) = << >> /\ Head(<<w>>) = w /\ <<w>> # << >>
  /\ << >> \in Seq(Int) /\ Len(<< >>) = 0
<1>1. ASSUME NEW v \in Int, NEW w \in Int
      PROVE  /\ << >> \o <<v, w>> = <<v, w>> /\ <<v, w>> \in Seq(Int)
             /\ Len(<<v, w>>) = 2 /\ Rest(<<v, w>>, 2) = << >>
             /\ <<v, w>>[1] = v /\ <<v, w>>[2] = w /\ <<v, w>> # << >>
  <2>1. /\ <<v, w>> \in Seq(Int) /\ Len(<<v, w>>) = 2 /\ <<v, w>>[1] = v /\ <<v, w>>[2] = w
        /\ <<v, w>> # << >>
    OBVIOUS
  <2>2. << >> \o <<v, w>> = <<v, w>>
    BY <2>1, ConcatEmptySeq
  <2>3. SubSeq(<<v, w>>, 3, 2) = << >>
    BY <2>1, SubSeqEmpty
  <2> QED BY <2>1, <2>2, <2>3 DEF Rest
<1>2. ASSUME NEW w \in Int
      PROVE  /\ << >> \o <<w>> = <<w>> /\ <<w>> \in Seq(Int) /\ Len(<<w>>) = 1
             /\ Rest(<<w>>, 1) = << >> /\ Head(<<w>>) = w /\ <<w>> # << >>
  <2>1. <<w>> \in Seq(Int) /\ Len(<<w>>) = 1 /\ Head(<<w>>) = w /\ <<w>> # << >>
    OBVIOUS
  <2>2. << >> \o <<w>> = <<w>>
    BY <2>1, ConcatEmptySeq
  <2>3. SubSeq(<<w>>, 2, 1) = << >>
    BY <2>1, SubSeqEmpty
  <2> QED BY <2>1, <2>2, <2>3 DEF Rest
<1> QED BY <1>1, <1>2

(* KVMeta is four words.                                                      *)
LEMMA Meta ==
  /\ << >> \o MetaWords = MetaWords /\ MetaWords \in Seq(Int) /\ Len(MetaWords) = 4
  /\ Rest(MetaWords, MetaLen) = << >> /\ MetaWords[1] = NumSlots /\ MetaWords[3] = SlotSize
  /\ MetaWords # << >>
<1>1. /\ MetaWords \in Seq(Int) /\ Len(MetaWords) = 4 /\ MetaWords[1] = NumSlots
      /\ MetaWords[3] = SlotSize /\ MetaWords # << >>
  BY SlotsAssumption, SizeAssumption DEF MetaWords
<1>2. << >> \o MetaWords = MetaWords
  BY <1>1, ConcatEmptySeq
<1>3. SubSeq(MetaWords, 5, 4) = << >>
  BY <1>1, SubSeqEmpty
<1> QED BY <1>1, <1>2, <1>3 DEF Rest, MetaLen

(* What remains of a stream is a stream.                                      *)
LEMMA RestType ==
  ASSUME NEW w \in Seq(Int), NEW n \in Nat, Len(w) >= n
  PROVE  Rest(w, n) \in Seq(Int)
  BY DEF Rest

(* The free list after an allocation and after a free.                        *)
LEMMA FreeList ==
  ASSUME NEW l \in Seq(Slots)
  PROVE  /\ l # << >> => Front(l) \in Seq(Slots) /\ Last(l) \in Slots
         /\ \A x \in Slots : Append(l, x) \in Seq(Slots)
<1>1. ASSUME l # << >> PROVE Front(l) \in Seq(Slots) /\ Last(l) \in Slots
  <2>1. Len(l) \in Nat /\ Len(l) >= 1 /\ \A j \in 1..Len(l) : l[j] \in Slots
    BY <1>1
  <2> QED BY <2>1 DEF Front, Last
<1> QED BY <1>1

(* Multiples of the depth are a depth apart.                                  *)
LEMMA Multiples ==
  ASSUME NEW d \in Nat, d > 0, NEW a \in Nat, a % d = 0
  PROVE  /\ (a + d) % d = 0
         /\ \A b \in Nat : b % d = 0 /\ a < b => a + d <= b
         /\ a >= d => (a - d) % d = 0
<1>1. \A x \in Nat : x = d * (x \div d) + (x % d) /\ x \div d \in Nat /\ x % d \in 0..(d - 1)
  OBVIOUS
<1> DEFINE q == a \div d
<1>2. a = d * q /\ q \in Nat
  BY <1>1
<1>3. \A k \in Nat : (d * k) % d = 0
  <2> SUFFICES ASSUME NEW k \in Nat PROVE (d * k) % d = 0
    OBVIOUS
  <2> DEFINE x == d * k
             m == x \div d
             e == x % d
  <2>1. x \in Nat
    OBVIOUS
  <2>2. x = d * m + e /\ m \in Nat /\ e \in 0..(d - 1)
    BY <1>1, <2>1
  <2> HIDE DEF m, e
  <2>3. d * (k - m) = e
    BY <2>2
  <2>4. k - m = 0
    <3>1. CASE k - m >= 1
      <4>1. d * (k - m) >= d
        BY <2>2, <3>1
      <4> QED BY <2>2, <2>3, <4>1
    <3>2. CASE k - m <= -1
      <4>1. d * (k - m) <= 0 - d
        BY <2>2, <3>2
      <4> QED BY <2>2, <2>3, <4>1
    <3> QED BY <2>2, <3>1, <3>2
  <2>5. e = 0
    BY <2>3, <2>4
  <2> QED BY <2>5 DEF e
<1>4. (a + d) % d = 0
  <2>1. a + d = d * (q + 1) /\ q + 1 \in Nat
    BY <1>2
  <2> QED BY <1>3, <2>1
<1>5. ASSUME a >= d PROVE (a - d) % d = 0
  <2>1. a - d = d * (q - 1)
    BY <1>2
  <2>2. q # 0
    BY <1>2, <1>5
  <2>3. q - 1 \in Nat
    BY <1>2, <2>2
  <2> HIDE DEF q
  <2>4. (d * (q - 1)) % d = 0
    BY <1>3, <2>3
  <2> QED BY <2>1, <2>4
<1>6. ASSUME NEW b \in Nat, b % d = 0, a < b PROVE a + d <= b
  <2> DEFINE m == b \div d
  <2>1. b = d * m /\ m \in Nat
    BY <1>1, <1>6
  <2> HIDE DEF m, q
  <2>2. d * (m - q) > 0 /\ d * (m - q) = b - a
    BY <1>2, <1>6, <2>1
  <2>3. m - q >= 1
    BY <1>2, <2>1, <2>2
  <2>4. d * (m - q) >= d
    BY <1>2, <2>1, <2>3
  <2> QED BY <2>2, <2>4
<1> QED BY <1>4, <1>5, <1>6

(* The bytes of slot k are those of the addresses k * SlotSize on.            *)
LEMMA Address ==
  ASSUME NEW k \in Nat, NEW o \in Offsets
  PROVE  (k * SlotSize + o) \div SlotSize = k /\ (k * SlotSize + o) % SlotSize = o
<1> DEFINE d == SlotSize
           x == k * d + o
           q == x \div d
           m == x % d
<1>1. d \in Nat /\ d > 0 /\ o \in 0..(d - 1)
  BY SizeAssumption DEF Offsets
<1>2. x \in Nat
  BY <1>1
<1>3. x = d * q + m /\ q \in Nat /\ m \in 0..(d - 1)
  BY <1>1, <1>2
<1> HIDE DEF q, m
<1>4. d * (q - k) = o - m
  BY <1>1, <1>3
<1>5. q - k = 0
  <2>1. CASE q - k >= 1
    <3>1. d * (q - k) >= d
      BY <1>1, <1>3, <2>1
    <3> QED BY <1>1, <1>3, <1>4, <3>1
  <2>2. CASE q - k <= -1
    <3>1. d * (q - k) <= 0 - d
      BY <1>1, <1>3, <2>2
    <3> QED BY <1>1, <1>3, <1>4, <3>1
  <2> QED BY <1>3, <2>1, <2>2
<1>6. q = k /\ m = o
  <2>1. d * (q - k) = 0
    BY <1>1, <1>5
  <2> QED BY <1>1, <1>3, <1>4, <1>5, <2>1
<1> QED BY <1>6 DEF q, m

-----------------------------------------------------------------------------
(* The initial state.                                                         *)
LEMMA InitInv == Init => IInv
<1> SUFFICES ASSUME Init PROVE IInv
  OBVIOUS
<1>1. /\ NumSlots \in Nat /\ NumSlots > 0 /\ SlotSize \in Nat /\ SlotSize > 0
      /\ Warmup \in Nat /\ Iters \in Nat /\ Iters > 0 /\ MaxWr \in Nat /\ MaxWr > 0
      /\ Total \in Nat /\ Total > 0 /\ depth \in Nat /\ depth > 0
  BY SlotsAssumption, SizeAssumption, BenchAssumption DEF Init, Total
<1>2. Hand
  <2>1. HandType
    <3>1. remote \in [num_slots : {0, NumSlots}, slot_size : {0, SlotSize}]
      BY DEF Init
    <3>2. slot \in -1..(NumSlots - 1)
      BY <1>1 DEF Init
    <3>3. << >> \in Seq(Slots) /\ << >> \in Seq(Int)
      OBVIOUS
    <3> QED BY <3>1, <3>2, <3>3 DEF Init, HandType, ServerPCs, ClientPCs
  <2>2. Talk /\ Known
    BY DEF Init, Talk, Known, Exits, AfterMeta, WithSlot
  <2> QED BY <2>1, <2>2 DEF Hand
<1>3. Mem
  <2>1. DataType
    BY <1>1 DEF Init, DataType, Zeros, Bytes
  <2>2. Queues
    BY DEF Init, Queues, Exits
  <2>3. Contents
    BY DEF Init, Contents, Blank, OnlyOwnSlot, WithSlot, Exits
  <2> QED BY <2>1, <2>2, <2>3 DEF Mem
<1>4. Loop
  <2>1. LoopType
    BY <1>1 DEF Init, LoopType
  <2>2. Batches /\ Timed
    BY <1>1 DEF Init, Batches, Timed
  <2> QED BY <2>1, <2>2 DEF Loop
<1> QED BY <1>2, <1>3, <1>4 DEF IInv

-----------------------------------------------------------------------------
(* What the two processes have said to each other.                            *)

Past == {"setup", "exchange", "serve", "exit0", "exit1"}

(* A client that has left is spoken to no more.                               *)
LEMMA HandExit ==
  ASSUME Hand, HandType', cpc' \in Exits, copen' = FALSE
  PROVE  Hand'
  BY DEF Hand, Talk, Known, Exits, AfterMeta, WithSlot

(* A step of the server that sends and receives nothing.                      *)
LEMMA ServerQuiet ==
  ASSUME Hand, UNCHANGED benchvars, UNCHANGED ctrlvars, HandType', spc \in Past => spc' \in Past
  PROVE  Hand'
<1>1. UNCHANGED <<cpc, remote, slot, c2s, s2c, copen>>
  BY DEF benchvars, ctrlvars
<1>2. Talk'
  BY <1>1 DEF Hand, Talk, Past
<1>3. Known'
  BY <1>1 DEF Hand, Known
<1> QED BY <1>2, <1>3 DEF Hand

(* Start-up and every way out of it.                                          *)
LEMMA StartHand ==
  ASSUME Hand, UNCHANGED benchvars,
         ServerListen \/ DataListen \/ DataRequest \/ CtrlAccept \/ DataAccept \/ Setup
           \/ ExchangeBuf \/ ServeHangup \/ ServerDies
  PROVE  Hand'
<1>0. HandType /\ UNCHANGED <<cpc, remote, slot>>
  BY DEF Hand, benchvars
<1>1. CASE ServerListen
  <2>1. HandType' /\ UNCHANGED ctrlvars /\ (spc \in Past => spc' \in Past)
    BY <1>0, <1>1 DEF ServerListen, HandType, ServerPCs, ServerAt, ctrlvars, Past
  <2> QED BY <2>1, ServerQuiet
<1>2. CASE DataListen
  <2>1. HandType' /\ UNCHANGED ctrlvars /\ (spc \in Past => spc' \in Past)
    BY <1>0, <1>2 DEF DataListen, HandType, ServerPCs, ServerAt, ctrlvars, Past
  <2> QED BY <2>1, ServerQuiet
<1>3. CASE DataRequest \/ CtrlAccept
  <2>1. HandType' /\ UNCHANGED ctrlvars /\ (spc \in Past => spc' \in Past)
    BY <1>0, <1>3 DEF DataRequest, CtrlAccept, HandType, ServerPCs, ServerAt, ctrlvars, Past
  <2> QED BY <2>1, ServerQuiet
<1>4. CASE DataAccept
  <2>1. HandType' /\ UNCHANGED ctrlvars /\ (spc \in Past => spc' \in Past)
    BY <1>0, <1>4 DEF DataAccept, Exit, HandType, ServerPCs, ServerAt, ctrlvars, Past
  <2> QED BY <2>1, ServerQuiet
<1>5. CASE Setup
  <2>1. [j \in 1..NumSlots |-> j - 1] \in Seq(Slots)
    BY SlotsAssumption DEF Slots
  <2>2. free_list' \in Seq(Slots)
    BY <1>0, <1>5, <2>1 DEF Setup, HandType
  <2>3. HandType' /\ UNCHANGED ctrlvars /\ (spc \in Past => spc' \in Past)
    BY <1>0, <1>5, <2>2 DEF Setup, Exit, HandType, ServerPCs, ServerAt, ctrlvars, Past
  <2> QED BY <2>3, ServerQuiet
<1>6. CASE ExchangeBuf
  <2>1. HandType' /\ UNCHANGED ctrlvars /\ (spc \in Past => spc' \in Past)
    BY <1>0, <1>6 DEF ExchangeBuf, Exit, HandType, ServerPCs, ServerAt, ctrlvars, Past
  <2> QED BY <2>1, ServerQuiet
<1>7. CASE ServeHangup \/ ServerDies
  <2>1. HandType' /\ UNCHANGED ctrlvars /\ (spc \in Past => spc' \in Past)
    BY <1>0, <1>7 DEF ServeHangup, ServerDies, Exit, HandType, ServerPCs, ctrlvars, Past
  <2> QED BY <2>1, ServerQuiet
<1> QED BY <1>1, <1>2, <1>3, <1>4, <1>5, <1>6, <1>7

(* handshake_meta on the server: the first word is the client's META.         *)
LEMMA MetaHand ==
  ASSUME Hand, UNCHANGED benchvars, HandshakeMeta
  PROVE  Hand'
<1>0. HandType /\ Talk /\ Known /\ UNCHANGED <<cpc, remote, slot>>
  BY DEF Hand, benchvars
<1>1. /\ spc = "meta" /\ UNCHANGED <<free_list, copen, creq, estab, oob>>
  BY DEF HandshakeMeta, ServerAt
<1>2. CASE ClientHungUp(1) /\ Exit(1) /\ UNCHANGED <<c2s, s2c>>
  <2>1. HandType' /\ UNCHANGED ctrlvars /\ (spc \in Past => spc' \in Past)
    BY <1>0, <1>1, <1>2 DEF Exit, HandType, ServerPCs, ctrlvars, Past
  <2> QED BY <2>1, ServerQuiet
<1>3. ASSUME HasWords(c2s, 1), c2s' = Rest(c2s, 1),
             IF Head(c2s) # KV_MSG_META
             THEN Exit(1) /\ UNCHANGED s2c
             ELSE CtrlSend(MetaWords) /\ spc' = "setup" /\ UNCHANGED <<sopen, dlisten>>
      PROVE  Hand'
  <2>1. c2s \in Seq(Int) /\ Len(c2s) >= 1 /\ c2s # << >>
    BY <1>0, <1>3 DEF HandType, HasWords
  <2>2. c2s' \in Seq(Int)
    BY <1>3, <2>1, RestType
  <2>3. s2c' \in Seq(Int)
    <3>1. s2c \in Seq(Int) /\ s2c \o MetaWords \in Seq(Int)
      BY <1>0, Meta DEF HandType
    <3> QED BY <1>3, <3>1 DEF CtrlSend
  <2>4. HandType'
    <3>1. spc' \in ServerPCs /\ sopen' \in BOOLEAN /\ dlisten' \in BOOLEAN
      BY <1>0, <1>3 DEF HandType, Exit, ServerPCs
    <3> QED BY <1>0, <1>1, <2>2, <2>3, <3>1 DEF HandType
  <2>5. cpc \in Exits \/ (cpc = "metarecv" /\ c2s = <<KV_MSG_META>> /\ s2c = << >>)
    BY <1>0, <1>1, <2>1 DEF Talk, AfterMeta, WithSlot, Exits, HandType, ClientPCs
  <2>6. CASE cpc \in Exits
    <3>1. cpc' \in Exits /\ copen' = FALSE
      BY <1>0, <1>1, <2>6 DEF Talk, HandType
    <3> QED BY <2>4, <3>1, HandExit
  <2>7. CASE cpc = "metarecv" /\ c2s = <<KV_MSG_META>> /\ s2c = << >>
    <3>1. c2s' = << >> /\ Head(c2s) = KV_MSG_META
      BY <1>3, <2>7, Words DEF KV_MSG_META
    <3>2. copen
      BY <1>0, <2>7 DEF Talk, Exits
    <3>3. spc' = "setup" /\ s2c' = MetaWords
      BY <1>3, <2>7, <3>1, <3>2, Meta DEF CtrlSend
    <3>4. Talk'
      BY <1>0, <1>1, <2>7, <3>1, <3>2, <3>3 DEF Talk, Exits, AfterMeta, WithSlot
    <3>5. Known'
      BY <1>0, <2>7 DEF Known, AfterMeta, WithSlot
    <3> QED BY <2>4, <3>4, <3>5 DEF Hand
  <2> QED BY <2>5, <2>6, <2>7
<1> QED BY <1>2, <1>3 DEF HandshakeMeta

(* serve: the two words are the request the client waits an answer for.       *)
LEMMA ServeHand ==
  ASSUME Hand, UNCHANGED benchvars, ServeRequest
  PROVE  Hand'
<1>0. HandType /\ Talk /\ Known /\ UNCHANGED <<cpc, remote, slot>>
  BY DEF Hand, benchvars
<1>1. /\ spc = "serve" /\ UNCHANGED <<copen, creq, estab, oob>> /\ c2s' = Rest(c2s, 2)
      /\ Len(c2s) >= 2
  BY DEF ServeRequest, ServerAt, HasWords, RequestLen
<1>2. c2s \in Seq(Int) /\ s2c \in Seq(Int) /\ free_list \in Seq(Slots) /\ c2s # << >>
  BY <1>0, <1>1 DEF HandType
<1>3. \/ c2s[1] = KV_MSG_ALLOC /\ ServeAlloc /\ UNCHANGED <<spc, sopen, dlisten>>
      \/ c2s[1] = KV_MSG_FREE /\ ServeFree(c2s[2])
      \/ Exit(1) /\ UNCHANGED <<free_list, s2c>>
  BY DEF ServeRequest
<1>4. HandType'
  <2>1. \A w \in Int : s2c \o <<w>> \in Seq(Int)
    BY <1>2
  <2>2. c2s' \in Seq(Int)
    BY <1>1, <1>2, RestType
  <2>3. Slots \subseteq Int
    BY DEF Slots
  <2>4. /\ s2c' \in Seq(Int) /\ free_list' \in Seq(Slots)
        /\ spc' \in ServerPCs /\ sopen' \in BOOLEAN /\ dlisten' \in BOOLEAN
    <3>1. CASE ServeAlloc /\ UNCHANGED <<spc, sopen, dlisten>>
      <4>1. free_list # << >> => Front(free_list) \in Seq(Slots) /\ Last(free_list) \in Int
        BY <1>2, <2>3, FreeList
      <4>2. free_list' \in Seq(Slots)
        BY <1>2, <3>1, <4>1 DEF ServeAlloc
      <4>3. \E w \in Int : CtrlSend(<<w>>)
        BY <3>1, <4>1 DEF ServeAlloc
      <4>4. s2c' \in Seq(Int)
        BY <1>2, <2>1, <4>3 DEF CtrlSend
      <4> QED BY <1>0, <3>1, <4>2, <4>4 DEF HandType
    <3>2. CASE ServeFree(c2s[2])
      <4>1. c2s[2] \in Slots => Append(free_list, c2s[2]) \in Seq(Slots)
        BY <1>2, FreeList
      <4>2. free_list' \in Seq(Slots)
        BY <1>2, <3>2, <4>1 DEF ServeFree
      <4>3. s2c' \in Seq(Int)
        <5>1. s2c \o <<0>> \in Seq(Int)
          BY <2>1
        <5> QED BY <1>2, <3>2, <5>1 DEF ServeFree, CtrlSend
      <4>4. spc' \in ServerPCs /\ sopen' \in BOOLEAN /\ dlisten' \in BOOLEAN
        BY <1>0, <3>2 DEF ServeFree, HandType, Exit, ServerPCs
      <4> QED BY <4>2, <4>3, <4>4
    <3>3. CASE Exit(1) /\ UNCHANGED <<free_list, s2c>>
      BY <1>0, <3>3 DEF HandType, Exit, ServerPCs
    <3> QED BY <1>3, <3>1, <3>2, <3>3
  <2> QED BY <1>0, <1>1, <2>2, <2>4 DEF HandType
<1>5. \/ cpc \in Exits
      \/ cpc = "allocrecv" /\ c2s = <<KV_MSG_ALLOC, 0>> /\ s2c = << >>
      \/ cpc = "freerecv" /\ c2s = <<KV_MSG_FREE, slot>> /\ s2c = << >>
  <2>1. c2s # <<KV_MSG_META>>
    <3> SUFFICES ASSUME c2s = <<KV_MSG_META>> PROVE FALSE
      OBVIOUS
    <3>1. Len(c2s) = 1
      OBVIOUS
    <3> QED BY <1>1, <3>1
  <2> QED BY <1>0, <1>2, <2>1 DEF Talk, HandType
<1>6. CASE cpc \in Exits
  <2>1. cpc' \in Exits /\ copen' = FALSE
    BY <1>0, <1>1, <1>6 DEF Talk, HandType
  <2> QED BY <1>4, <2>1, HandExit
<1>7. CASE cpc = "allocrecv" /\ c2s = <<KV_MSG_ALLOC, 0>> /\ s2c = << >>
  <2>1. c2s' = << >> /\ c2s[1] = KV_MSG_ALLOC
    BY <1>1, <1>7, Words DEF KV_MSG_ALLOC
  <2>2. ServeAlloc /\ spc' = spc
    BY <2>1 DEF ServeRequest, KV_MSG_ALLOC, KV_MSG_FREE
  <2>3. copen
    BY <1>0, <1>7 DEF Talk, Exits
  <2>4. \E w \in Slots \cup {-1} : s2c' = <<w>>
    <3>1. \A w \in Slots \cup {-1} : << >> \o <<w>> = <<w>>
      BY Words DEF Slots
    <3>2. free_list # << >> => Last(free_list) \in Slots
      BY <1>2, FreeList
    <3> QED BY <1>7, <2>2, <2>3, <3>1, <3>2 DEF ServeAlloc, CtrlSend
  <2>5. Talk'
    BY <1>0, <1>1, <1>7, <2>1, <2>2, <2>3, <2>4 DEF Talk, Exits
  <2>6. Known'
    BY <1>0 DEF Known
  <2> QED BY <1>4, <2>5, <2>6 DEF Hand
<1>8. CASE cpc = "freerecv" /\ c2s = <<KV_MSG_FREE, slot>> /\ s2c = << >>
  <2>0. slot \in Slots /\ slot \in Int
    BY <1>0, <1>8 DEF Known, WithSlot, Slots
  <2>1. c2s' = << >> /\ c2s[1] = KV_MSG_FREE /\ c2s[2] = slot
    BY <1>1, <1>8, <2>0, Words DEF KV_MSG_FREE
  <2>2. ServeFree(slot)
    BY <2>1 DEF ServeRequest, KV_MSG_ALLOC, KV_MSG_FREE
  <2>3. copen
    BY <1>0, <1>8 DEF Talk, Exits
  <2>4. s2c' = <<0>> /\ spc' = spc
    BY <1>8, <2>0, <2>2, <2>3, Words DEF ServeFree, CtrlSend
  <2>5. Talk'
    BY <1>0, <1>1, <1>8, <2>1, <2>3, <2>4 DEF Talk, Exits
  <2>6. Known'
    BY <1>0 DEF Known
  <2> QED BY <1>4, <2>5, <2>6 DEF Hand
<1> QED BY <1>5, <1>6, <1>7, <1>8

(* A reply that cannot be sent: the client has left.                          *)
LEMMA SendFailsHand ==
  ASSUME Hand, UNCHANGED benchvars, ServeSendFails
  PROVE  Hand'
<1>0. HandType /\ Talk /\ Known /\ UNCHANGED <<cpc, remote, slot>>
  BY DEF Hand, benchvars
<1>1. /\ Exit(1) /\ UNCHANGED <<s2c, copen, creq, estab, oob>> /\ c2s' = Rest(c2s, 2)
      /\ Len(c2s) >= 2 /\ ~copen
  BY DEF ServeSendFails, HasWords, RequestLen
<1>2. c2s \in Seq(Int) /\ free_list \in Seq(Slots) /\ c2s # << >>
  BY <1>0, <1>1 DEF HandType
<1>3. c2s' \in Seq(Int)
  BY <1>1, <1>2, RestType
<1>4. free_list' \in Seq(Slots)
  <2>1. \/ free_list # << >> /\ free_list' = Front(free_list)
        \/ c2s[2] \in Slots /\ free_list' = Append(free_list, c2s[2])
        \/ free_list' = free_list
    BY DEF ServeSendFails
  <2> QED BY <1>2, <2>1, FreeList
<1>5. HandType'
  BY <1>0, <1>1, <1>3, <1>4 DEF HandType, Exit, ServerPCs
<1>6. cpc' \in Exits /\ copen' = FALSE
  BY <1>0, <1>1, <1>2 DEF Talk, HandType, Exits
<1> QED BY <1>5, <1>6, HandExit

(* The client connects, twice, and gets its buffers.                          *)
LEMMA ConnectHand ==
  ASSUME Hand, CtrlConnect \/ DataConnect \/ DataConnected \/ LocalBuffer \/ OobConnect
               \/ OobReceive \/ ReplyLost
  PROVE  Hand'
<1>0. HandType /\ Talk /\ Known
  BY DEF Hand
<1>1. /\ UNCHANGED <<spc, free_list, sopen, dlisten, estab, c2s, s2c, remote, slot>>
      /\ creq' \in {creq, TRUE} /\ oob' \in {oob, "waiting"}
  BY DEF CtrlConnect, DataConnect, DataConnected, LocalBuffer, OobConnect, OobReceive,
         ReplyLost, ServerSide
<1>2. \/ cpc' = "exit1" /\ copen' = FALSE
      \/ cpc = "ctrl" /\ cpc' = "data" /\ copen' = TRUE
      \/ /\ copen' = copen
         /\ \/ cpc = "data" /\ cpc' = "dwait"
            \/ cpc = "dwait" /\ cpc' = "meta"
            \/ cpc = "buffers" /\ cpc' = "oob"
            \/ cpc = "oob" /\ cpc' = "oobrecv"
            \/ cpc = "oobrecv" /\ cpc' = "alloc"
  BY DEF CtrlConnect, DataConnect, DataConnected, LocalBuffer, OobConnect, OobReceive,
         ReplyLost, ClientAt, ClientGoto, ClientExit
<1>3. HandType'
  <2>1. cpc' \in ClientPCs /\ copen' \in BOOLEAN
    BY <1>0, <1>2 DEF HandType, ClientPCs
  <2> QED BY <1>0, <1>1, <2>1 DEF HandType
<1>4. CASE cpc' = "exit1" /\ copen' = FALSE
  BY <1>3, <1>4, HandExit DEF Exits
<1>5. CASE cpc' # "exit1"
  <2>1. Talk'
    BY <1>0, <1>1, <1>2, <1>5 DEF Talk, Exits, AfterMeta, WithSlot
  <2>2. Known'
    BY <1>0, <1>1, <1>2, <1>5 DEF Known, AfterMeta, WithSlot
  <2> QED BY <1>3, <2>1, <2>2 DEF Hand
<1> QED BY <1>2, <1>4, <1>5

(* It asks for the pool's shape, for a slot, and gives it back.               *)
LEMMA RequestHand ==
  ASSUME Hand, MetaRequest \/ AllocRequest \/ FreeRequest
  PROVE  Hand'
<1>0. HandType /\ Talk /\ Known
  BY DEF Hand
<1>1. UNCHANGED <<spc, free_list, sopen, dlisten, estab, s2c, copen, creq, oob, remote, slot>>
  BY DEF MetaRequest, AllocRequest, FreeRequest, Request, ServerSide
<1>2. CASE MetaRequest
  <2>1. cpc = "meta" /\ cpc' = "metarecv" /\ c2s' = c2s \o <<KV_MSG_META>>
    BY <1>2 DEF MetaRequest, Request, ClientAt, ClientGoto
  <2>2. c2s = << >> /\ s2c = << >>
    BY <1>0, <2>1 DEF Talk, Exits
  <2>3. c2s' = <<KV_MSG_META>> /\ c2s' \in Seq(Int) /\ c2s' # << >>
    BY <2>1, <2>2, Words DEF KV_MSG_META
  <2>4. HandType'
    BY <1>0, <1>1, <2>1, <2>3 DEF HandType, ClientPCs
  <2>5. Talk' /\ Known'
    BY <1>0, <1>1, <2>1, <2>2, <2>3 DEF Talk, Known, Exits, AfterMeta, WithSlot
  <2> QED BY <2>4, <2>5 DEF Hand
<1>3. CASE AllocRequest
  <2>1. cpc = "alloc" /\ cpc' = "allocrecv" /\ c2s' = c2s \o <<KV_MSG_ALLOC, 0>>
    BY <1>3 DEF AllocRequest, Request, ClientAt, ClientGoto
  <2>2. c2s = << >> /\ s2c = << >>
    BY <1>0, <2>1 DEF Talk, Exits
  <2>3. c2s' = <<KV_MSG_ALLOC, 0>> /\ c2s' \in Seq(Int)
    BY <2>1, <2>2, Words DEF KV_MSG_ALLOC
  <2>4. HandType'
    BY <1>0, <1>1, <2>1, <2>3 DEF HandType, ClientPCs
  <2>5. Talk' /\ Known'
    BY <1>0, <1>1, <2>1, <2>2, <2>3 DEF Talk, Known, Exits, AfterMeta, WithSlot
  <2> QED BY <2>4, <2>5 DEF Hand
<1>4. CASE FreeRequest
  <2>1. cpc = "free" /\ cpc' = "freerecv" /\ c2s' = c2s \o <<KV_MSG_FREE, slot>>
    BY <1>4 DEF FreeRequest, Request, ClientAt, ClientGoto
  <2>2. c2s = << >> /\ s2c = << >> /\ slot \in Int
    BY <1>0, <2>1 DEF Talk, Exits, Known, WithSlot, Slots
  <2>3. c2s' = <<KV_MSG_FREE, slot>> /\ c2s' \in Seq(Int)
    BY <2>1, <2>2, Words DEF KV_MSG_FREE
  <2>4. HandType'
    BY <1>0, <1>1, <2>1, <2>3 DEF HandType, ClientPCs
  <2>5. Talk' /\ Known'
    BY <1>0, <1>1, <2>1, <2>2, <2>3 DEF Talk, Known, Exits, AfterMeta, WithSlot
  <2> QED BY <2>4, <2>5 DEF Hand
<1> QED BY <1>2, <1>3, <1>4

(* It reads the pool's shape, then the slot, then the ack.                    *)
LEMMA ReplyHand ==
  ASSUME Hand, MetaReply \/ AllocReply \/ FreeReply
  PROVE  Hand'
<1>0. HandType /\ Talk /\ Known
  BY DEF Hand
<1>1. UNCHANGED <<spc, free_list, sopen, dlisten, estab, c2s, creq, oob>>
  BY DEF MetaReply, AllocReply, FreeReply, ServerSide
<1>2. CASE MetaReply
  <2>1. /\ cpc = "metarecv" /\ cpc' = "buffers" /\ Len(s2c) >= 4 /\ s2c' = Rest(s2c, MetaLen)
        /\ remote' = [num_slots |-> s2c[1], slot_size |-> s2c[3]] /\ UNCHANGED <<copen, slot>>
    BY <1>2 DEF MetaReply, ClientAt, ClientGoto, HasWords, MetaLen
  <2>2. c2s = << >> /\ s2c = MetaWords
    <3>1. s2c # << >>
      BY <2>1
    <3> QED BY <1>0, <2>1, <3>1 DEF Talk
  <2>3. s2c' = << >> /\ remote' = [num_slots |-> NumSlots, slot_size |-> SlotSize]
    BY <2>1, <2>2, Meta
  <2>4. HandType'
    <3>1. remote' \in [num_slots : {0, NumSlots}, slot_size : {0, SlotSize}]
      BY <2>3
    <3> QED BY <1>0, <1>1, <2>1, <2>3, <3>1 DEF HandType, ClientPCs
  <2>5. Talk'
    BY <1>0, <1>1, <2>1, <2>2, <2>3 DEF Talk, Exits, AfterMeta, WithSlot
  <2>6. Known'
    BY <2>1, <2>3 DEF Known, WithSlot
  <2> QED BY <2>4, <2>5, <2>6 DEF Hand
<1>3. CASE AllocReply
  <2>1. /\ cpc = "allocrecv" /\ Len(s2c) >= 1 /\ s2c' = Rest(s2c, 1) /\ slot' = Head(s2c)
        /\ remote' = remote
        /\ \/ slot' \in 0..(remote.num_slots - 1) /\ cpc' = "fill" /\ copen' = copen
           \/ cpc' = "exit1" /\ copen' = FALSE
    BY <1>3 DEF AllocReply, ClientAt, ClientGoto, ClientExit, HasWords
  <2>2. PICK w \in Slots \cup {-1} : c2s = << >> /\ s2c = <<w>>
    <3>1. s2c # << >>
      BY <2>1
    <3> QED BY <1>0, <2>1, <3>1 DEF Talk
  <2>3. s2c' = << >> /\ slot' = w
    BY <2>1, <2>2, Words DEF Slots
  <2>4. HandType'
    <3>1. slot' \in -1..(NumSlots - 1)
      BY <2>3, SlotsAssumption DEF Slots
    <3>2. cpc' \in ClientPCs /\ copen' \in BOOLEAN
      BY <1>0, <2>1 DEF HandType, ClientPCs
    <3>3. s2c' \in Seq(Int) /\ remote' = remote
      BY <2>1, <2>3, Words
    <3> QED BY <1>0, <1>1, <3>1, <3>2, <3>3 DEF HandType
  <2>5. CASE cpc' = "exit1" /\ copen' = FALSE
    BY <2>4, <2>5, HandExit DEF Exits
  <2>6. CASE slot' \in 0..(remote.num_slots - 1) /\ cpc' = "fill" /\ copen' = copen
    <3>1. remote = [num_slots |-> NumSlots, slot_size |-> SlotSize]
      BY <1>0, <2>1 DEF Known, AfterMeta
    <3>2. slot' \in Slots
      BY <2>6, <3>1 DEF Slots
    <3>3. Talk'
      BY <1>0, <1>1, <2>1, <2>2, <2>3, <2>6 DEF Talk, Exits, AfterMeta, WithSlot
    <3>4. Known'
      BY <2>1, <3>1, <3>2 DEF Known
    <3> QED BY <2>4, <3>3, <3>4 DEF Hand
  <2> QED BY <2>1, <2>5, <2>6
<1>4. CASE FreeReply
  <2>1. /\ cpc' \in Exits /\ copen' = FALSE /\ UNCHANGED <<remote, slot>> /\ Len(s2c) >= 1
        /\ s2c' = Rest(s2c, 1)
    BY <1>4 DEF FreeReply, ClientExit, ClientGoto, Exits, HasWords
  <2>2. s2c' \in Seq(Int)
    BY <1>0, <2>1, RestType DEF HandType
  <2>3. HandType'
    BY <1>0, <1>1, <2>1, <2>2 DEF HandType, ClientPCs, Exits
  <2> QED BY <2>1, <2>3, HandExit
<1> QED BY <1>2, <1>3, <1>4

(* On the data path nothing is said.                                          *)
LEMMA DataHand ==
  ASSUME Hand, Handshakes,
         \/ cpc' \in Exits /\ copen' = FALSE
         \/ cpc' = cpc /\ copen' = copen
         \/ {cpc, cpc'} \subseteq WithSlot \ {"freerecv"} /\ copen' = copen
  PROVE  Hand'
<1>0. HandType /\ Talk /\ Known
  BY DEF Hand
<1>1. UNCHANGED <<spc, free_list, c2s, s2c, sopen, dlisten, creq, estab, oob, remote, slot>>
  BY DEF Handshakes
<1>2. HandType'
  <2>1. cpc' \in ClientPCs /\ copen' \in BOOLEAN
    BY <1>0 DEF HandType, ClientPCs, Exits, WithSlot
  <2> QED BY <1>0, <1>1, <2>1 DEF HandType
<1>3. CASE cpc' \in Exits /\ copen' = FALSE
  BY <1>2, <1>3, HandExit
<1>4. CASE cpc' = cpc /\ copen' = copen
  BY <1>0, <1>1, <1>2, <1>4 DEF Hand, Talk, Known
<1>5. CASE {cpc, cpc'} \subseteq WithSlot \ {"freerecv"} /\ copen' = copen
  <2>1. cpc \in WithSlot /\ cpc' \in WithSlot /\ cpc # "freerecv" /\ cpc' # "freerecv"
    BY <1>5
  <2>2. Talk'
    BY <1>0, <1>1, <1>5, <2>1 DEF Talk, WithSlot, AfterMeta, Exits
  <2>3. Known'
    BY <1>0, <1>1, <2>1 DEF Known, AfterMeta
  <2> QED BY <1>2, <2>2, <2>3 DEF Hand
<1> QED BY <1>3, <1>4, <1>5

-----------------------------------------------------------------------------
(* Memory and the queues.                                                     *)

(* Taking from a queue and adding to one.                                     *)
LEMMA QueueFacts ==
  ASSUME NEW S, NEW q \in Seq(S)
  PROVE  /\ Len(q) \in Nat /\ (Len(q) = 0 <=> q = << >>)
         /\ q # << >> => /\ Tail(q) \in Seq(S) /\ Len(Tail(q)) = Len(q) - 1 /\ Len(q) >= 1
                         /\ Head(q) = q[1] /\ Head(q) \in S
                         /\ \A j \in 1..Len(Tail(q)) : Tail(q)[j] = q[j + 1]
         /\ \A x \in S : /\ Append(q, x) \in Seq(S) /\ Len(Append(q, x)) = Len(q) + 1
                         /\ Append(q, x)[Len(q) + 1] = x /\ Append(q, x) # << >>
                         /\ \A j \in 1..Len(q) : Append(q, x)[j] = q[j]
                         /\ q = << >> => Head(Append(q, x)) = x
<1>1. Len(q) \in Nat /\ (Len(q) = 0 <=> q = << >>)
  OBVIOUS
<1>2. q # << >> => /\ Tail(q) \in Seq(S) /\ Len(Tail(q)) = Len(q) - 1 /\ Len(q) >= 1
                   /\ Head(q) = q[1] /\ Head(q) \in S
                   /\ \A j \in 1..Len(Tail(q)) : Tail(q)[j] = q[j + 1]
  OBVIOUS
<1>3. ASSUME NEW x \in S
      PROVE  /\ Append(q, x) \in Seq(S) /\ Len(Append(q, x)) = Len(q) + 1
             /\ Append(q, x)[Len(q) + 1] = x /\ Append(q, x) # << >>
             /\ \A j \in 1..Len(q) : Append(q, x)[j] = q[j]
             /\ q = << >> => Head(Append(q, x)) = x
  OBVIOUS
<1> QED BY <1>1, <1>2, <1>3

(* Steps that do not touch them.                                              *)
LEMMA MemSame ==
  ASSUME Mem, UNCHANGED <<cpc, slot, local, slab, sq, cq, phase, posted, polled>>
  PROVE  Mem'
<1>1. DataType' /\ Queues'
  BY DEF Mem, DataType, Queues, Doing
<1>2. Contents'
  BY DEF Mem, Contents, Blank, Filled, OnlyOwnSlot, Completed
<1> QED BY <1>1, <1>2 DEF Mem

(* The client leaves.                                                         *)
LEMMA MemExit ==
  ASSUME Mem, DataType', cpc' \in Exits, slab' = slab, slot' = slot \/ Blank
  PROVE  Mem'
<1>1. Queues'
  BY DEF Queues, Exits
<1>2. OnlyOwnSlot'
  <2>1. CASE slot' = slot
    BY <2>1 DEF Mem, Contents, OnlyOwnSlot
  <2>2. CASE Blank
    BY <2>2 DEF Blank, OnlyOwnSlot
  <2> QED BY <2>1, <2>2
<1>3. Contents'
  BY <1>2 DEF Contents, Exits, WithSlot
<1> QED BY <1>1, <1>3 DEF Mem

(* Up to kv_alloc the slab is blank and nothing is posted; in kv_free nothing *)
(* is posted any more.                                                        *)
LEMMA MemTalk ==
  ASSUME Mem, UNCHANGED <<local, slab, sq, cq, phase, posted, polled>>,
         \/ cpc' \in Exits /\ (slot' = slot \/ Blank)
         \/ cpc \notin Exits \cup WithSlot /\ cpc' \notin Exits \cup (WithSlot \ {"fill"})
         \/ cpc = "free" /\ cpc' = "freerecv" /\ slot' = slot
  PROVE  Mem'
<1>0. DataType' /\ Queues /\ Contents
  BY DEF Mem, DataType
<1>1. CASE cpc' \in Exits /\ (slot' = slot \/ Blank)
  BY <1>0, <1>1, MemExit
<1>2. CASE cpc \notin Exits \cup WithSlot /\ cpc' \notin Exits \cup (WithSlot \ {"fill"})
  <2>1. sq = << >> /\ cq = << >> /\ Blank
    BY <1>0, <1>2 DEF Queues, Contents, Exits, WithSlot
  <2>2. Queues'
    BY <1>2, <2>1 DEF Queues, Exits, WithSlot
  <2>3. Contents'
    BY <1>2, <2>1 DEF Contents, Blank, OnlyOwnSlot, Exits, WithSlot
  <2> QED BY <1>0, <2>2, <2>3 DEF Mem
<1>3. CASE cpc = "free" /\ cpc' = "freerecv" /\ slot' = slot
  <2>1. sq = << >> /\ cq = << >> /\ Filled /\ local = Pattern
    BY <1>0, <1>3 DEF Queues, Contents, Exits, WithSlot
  <2>2. Queues'
    BY <1>3, <2>1 DEF Queues, Exits
  <2>3. Contents'
    BY <1>0, <1>3, <2>1 DEF Contents, Filled, OnlyOwnSlot, Exits, WithSlot
  <2> QED BY <1>0, <2>2, <2>3 DEF Mem
<1> QED BY <1>1, <1>2, <1>3

(* The pattern and the cleared buffer are bytes.                              *)
LEMMA PatternType == Pattern \in [Offsets -> Bytes] /\ Zeros \in [Offsets -> Bytes]
  BY SizeAssumption DEF Pattern, Zeros, Offsets, Bytes

(* A write of the pattern fills the client's slot and touches no other.       *)
LEMMA WriteOwn ==
  ASSUME slab \in [SlabAddrs -> Bytes], OnlyOwnSlot, local = Pattern, slot \in Slots,
         slot' = slot, NEW base, base = slot * SlotSize,
         \A o \in Offsets : base + o \in SlabAddrs,
         slab' = [a \in SlabAddrs |-> IF a - base \in Offsets THEN local[a - base] ELSE slab[a]]
  PROVE  slab' \in [SlabAddrs -> Bytes] /\ Filled' /\ OnlyOwnSlot'
<1>1. slot \in Nat /\ SlotSize \in Nat /\ SlotSize > 0 /\ base \in Nat
  BY SizeAssumption DEF Slots
<1>2. slab' \in [SlabAddrs -> Bytes]
  BY PatternType
<1>3. Filled'
  <2> SUFFICES ASSUME NEW o \in Offsets PROVE base + o \in SlabAddrs /\ slab'[base + o] = Pattern[o]
    BY DEF Filled
  <2>1. (base + o) - base = o
    BY <1>1 DEF Offsets
  <2> QED BY <2>1
<1>4. OnlyOwnSlot'
  <2> SUFFICES ASSUME NEW a \in SlabAddrs, slab'[a] # 0
               PROVE  a \div SlotSize = slot /\ slab'[a] = Pattern[a % SlotSize]
    BY DEF OnlyOwnSlot
  <2>1. CASE a - base \in Offsets
    <3> DEFINE o == a - base
    <3>1. o \in Offsets /\ slab'[a] = Pattern[o]
      BY <2>1
    <3>2. a = slot * SlotSize + o
      BY <1>1 DEF SlabAddrs
    <3>3. (slot * SlotSize + o) \div SlotSize = slot /\ (slot * SlotSize + o) % SlotSize = o
      BY <1>1, <3>1, Address
    <3> HIDE DEF o
    <3> QED BY <3>1, <3>2, <3>3
  <2>2. CASE a - base \notin Offsets
    <3>1. slab'[a] = slab[a]
      BY <2>2
    <3> QED BY <3>1 DEF OnlyOwnSlot
  <2> QED BY <2>1, <2>2
<1> QED BY <1>2, <1>3, <1>4

(* The counters are numbers.                                                  *)
LEMMA Numbers ==
  ASSUME LoopType
  PROVE  /\ depth \in Nat /\ depth > 0 /\ i \in Nat /\ posted \in Nat /\ polled \in Nat
         /\ start \in Int /\ Total \in Nat /\ Warmup \in Nat /\ Iters \in Nat /\ Iters > 0
         /\ Total = Warmup + Iters
  BY BenchAssumption DEF LoopType, Total

(* The NIC executes the request at the head of the queue.                     *)
LEMMA ExecuteMem ==
  ASSUME Hand, Mem, LoopType, Execute
  PROVE  Mem'
<1>0. DataType /\ Queues /\ Contents
  BY DEF Mem
<1>1. /\ sq # << >> /\ cpc \notin Exits /\ sq' = Tail(sq)
      /\ UNCHANGED <<cpc, slot, phase, posted, polled>>
  BY DEF Execute, ClientEnded, Exits, Handshakes
<1>2. PICK ok \in BOOLEAN : cq' = Append(cq, ok) /\ (ok = FALSE => UNCHANGED <<local, slab>>)
  BY DEF Execute
<1>3. /\ sq' \in Seq(Operations) /\ Len(sq') = Len(sq) - 1 /\ Len(sq) \in Nat /\ Len(sq) >= 1
      /\ Head(sq) = sq[1] /\ \A j \in 1..Len(sq') : sq'[j] = sq[j + 1]
  BY <1>0, <1>1, QueueFacts DEF DataType
<1>4. cq' \in Seq(BOOLEAN) /\ Len(cq') = Len(cq) + 1 /\ Len(cq) \in Nat
  BY <1>0, <1>2, QueueFacts DEF DataType
<1>5. cpc \in {"written", "readback", "post", "poll"}
  BY <1>0, <1>1 DEF Queues
<1>6. Head(sq) = Doing
  BY <1>0, <1>1, <1>3 DEF Queues
<1>7. Queues'
  <2>1. \A j \in 1..Len(sq') : j + 1 \in 1..Len(sq)
    BY <1>3
  <2>2. \A j \in 1..Len(sq') : sq'[j] = Doing
    BY <1>0, <1>1, <1>3, <2>1 DEF Queues
  <2>3. Doing' = Doing
    BY <1>1 DEF Doing
  <2>4. Len(sq') + Len(cq') = Len(sq) + Len(cq)
    BY <1>3, <1>4
  <2>5. cpc \in {"written", "readback"} => Len(sq') + Len(cq') = 1
    BY <1>0, <2>4 DEF Queues
  <2>6. cpc \in {"post", "poll"} => polled + Len(sq') + Len(cq') = posted
    BY <1>0, <1>3, <1>4, Numbers DEF Queues
  <2> QED BY <1>1, <1>5, <2>2, <2>3, <2>5, <2>6 DEF Queues
<1>8. /\ slot \in Slots /\ remote_addr = slot * SlotSize
  <2>1. remote = [num_slots |-> NumSlots, slot_size |-> SlotSize] /\ slot \in Slots
    BY <1>5 DEF Hand, Known, AfterMeta, WithSlot
  <2> QED BY <2>1 DEF remote_addr
<1>9. Len(sq') + Len(cq') <= MaxWr
  BY <1>0, <1>3, <1>4 DEF DataType
<1>10. cpc \in {"written", "readback"} => sq' = << >> /\ Head(cq') = ok
  <2> SUFFICES ASSUME cpc \in {"written", "readback"} PROVE sq' = << >> /\ Head(cq') = ok
    OBVIOUS
  <2>1. Len(sq') = 0 /\ Len(cq) = 0
    BY <1>0, <1>3, <1>4 DEF Queues
  <2>2. sq' = << >> /\ cq = << >>
    BY <1>0, <1>3, <2>1, QueueFacts DEF DataType
  <2> QED BY <1>0, <1>2, <2>2, QueueFacts DEF DataType
<1>11. CASE UNCHANGED <<local, slab>> /\ ok = FALSE
  <2>1. DataType'
    BY <1>0, <1>3, <1>4, <1>9, <1>11 DEF DataType
  <2>2. cpc \in {"written", "readback"} => ~Completed'
    BY <1>10, <1>11 DEF Completed
  <2>3. Contents'
    BY <1>0, <1>1, <1>5, <1>10, <1>11, <2>2 DEF Contents, Filled, OnlyOwnSlot, WithSlot, Exits
  <2> QED BY <1>7, <2>1, <2>3 DEF Mem
<1>12. CASE ok = TRUE
  <2>0. ~(ServerEnded \/ ~InSlab)
    <3>1. ASSUME ServerEnded \/ ~InSlab PROVE FALSE
      <4>1. cq' = Append(cq, FALSE)
        BY <3>1 DEF Execute
      <4>2. cq \in Seq(BOOLEAN)
        BY <1>0 DEF DataType
      <4>3. \A x \in BOOLEAN : Append(cq, x)[Len(cq) + 1] = x
        BY <4>2, QueueFacts
      <4>4. Append(cq, FALSE)[Len(cq) + 1] = FALSE /\ Append(cq, TRUE)[Len(cq) + 1] = TRUE
        BY <4>3
      <4>5. Append(cq, FALSE) = Append(cq, TRUE)
        BY <1>2, <1>12, <4>1
      <4> QED BY <4>4, <4>5
    <3> QED BY <3>1
  <2>1. \A o \in Offsets : remote_addr + o \in SlabAddrs
    BY <2>0 DEF InSlab
  <2>2. CASE Head(sq) = "write"
    <3>1. /\ slab' = [a \in SlabAddrs |-> IF a - remote_addr \in Offsets
                                          THEN local[a - remote_addr] ELSE slab[a]]
          /\ local' = local
      BY <2>0, <2>2 DEF Execute
    <3>2. cpc # "readback"
      BY <1>6, <2>2 DEF Doing
    <3>3. local = Pattern /\ OnlyOwnSlot
      BY <1>0, <1>5, <3>2 DEF Contents
    <3>4. slab' \in [SlabAddrs -> Bytes] /\ Filled' /\ OnlyOwnSlot'
      BY <1>0, <1>1, <1>8, <2>1, <3>1, <3>3, WriteOwn DEF DataType
    <3>5. DataType'
      BY <1>0, <1>3, <1>4, <1>9, <3>1, <3>4 DEF DataType
    <3>6. Contents'
      BY <1>1, <1>5, <1>10, <3>1, <3>2, <3>3, <3>4 DEF Contents, WithSlot, Exits
    <3> QED BY <1>7, <3>5, <3>6 DEF Mem
  <2>3. CASE Head(sq) # "write"
    <3>1. local' = [o \in Offsets |-> slab[remote_addr + o]] /\ slab' = slab
      BY <2>0, <2>3 DEF Execute
    <3>2. cpc # "written"
      BY <1>6, <2>3 DEF Doing
    <3>3. Filled
      BY <1>0, <1>5, <3>2 DEF Contents, WithSlot
    <3>4. local' = Pattern
      BY <1>8, <3>1, <3>3 DEF Filled, Pattern
    <3>5. DataType'
      BY <1>0, <1>3, <1>4, <1>9, <3>1, <3>4, PatternType DEF DataType
    <3>6. Filled' /\ OnlyOwnSlot'
      BY <1>0, <1>1, <3>1, <3>3 DEF Filled, OnlyOwnSlot, Contents
    <3>7. Contents'
      BY <1>1, <1>5, <1>10, <3>2, <3>4, <3>6 DEF Contents, WithSlot, Exits
    <3> QED BY <1>7, <3>5, <3>7 DEF Mem
  <2> QED BY <2>2, <2>3
<1> QED BY <1>2, <1>11, <1>12

(* main posts the write of its check, then the read.                          *)
LEMMA CheckPostMem ==
  ASSUME Mem, CheckWrite \/ CheckRead
  PROVE  Mem'
<1>0. DataType /\ Queues /\ Contents
  BY DEF Mem
<1>1. UNCHANGED <<slot, slab, cq>>
  BY DEF CheckWrite, CheckRead, Handshakes
<1>2. sq = << >> /\ cq = << >>
  BY <1>0 DEF CheckWrite, CheckRead, ClientAt, Queues, Exits
<1>3. \A op \in Operations : /\ Append(sq, op) \in Seq(Operations) /\ Len(Append(sq, op)) = 1
                             /\ Append(sq, op)[1] = op /\ Append(sq, op) # << >>
  <2>0. sq \in Seq(Operations)
    BY <1>0 DEF DataType
  <2>1. Len(sq) = 0
    BY <1>2
  <2> SUFFICES ASSUME NEW op \in Operations
               PROVE  /\ Append(sq, op) \in Seq(Operations) /\ Len(Append(sq, op)) = 1
                      /\ Append(sq, op)[1] = op /\ Append(sq, op) # << >>
    OBVIOUS
  <2>2. /\ Append(sq, op) \in Seq(Operations) /\ Len(Append(sq, op)) = Len(sq) + 1
        /\ Append(sq, op)[Len(sq) + 1] = op /\ Append(sq, op) # << >>
    BY <2>0, QueueFacts
  <2>3. Len(sq) + 1 = 1
    BY <2>1
  <2> QED BY <2>2, <2>3
<1>4. Len(cq) = 0 /\ MaxWr >= 1 /\ MaxWr \in Nat
  BY <1>2, BenchAssumption
<1>5. CASE CheckWrite
  <2>1. cpc = "fill" /\ cpc' = "written" /\ local' = Pattern /\ sq' = Append(sq, "write")
    BY <1>5 DEF CheckWrite, ClientAt, ClientGoto, Post
  <2>2. sq' \in Seq(Operations) /\ Len(sq') = 1 /\ sq'[1] = "write"
    BY <1>3, <2>1 DEF Operations
  <2>3. DataType'
    BY <1>0, <1>1, <1>4, <2>1, <2>2, PatternType DEF DataType
  <2>4. Queues'
    BY <1>1, <1>4, <2>1, <2>2 DEF Queues, Doing, Exits
  <2>5. Blank /\ ~Completed'
    BY <1>0, <1>1, <1>2, <2>1 DEF Contents, Exits, WithSlot, Completed
  <2>6. Contents'
    BY <1>0, <1>1, <2>1, <2>5 DEF Contents, Blank, OnlyOwnSlot, Exits, WithSlot
  <2> QED BY <2>3, <2>4, <2>6 DEF Mem
<1>6. CASE CheckRead
  <2>1. cpc = "clear" /\ cpc' = "readback" /\ local' = Zeros /\ sq' = Append(sq, "read")
    BY <1>6 DEF CheckRead, ClientAt, ClientGoto, Post
  <2>2. sq' \in Seq(Operations) /\ Len(sq') = 1 /\ sq'[1] = "read"
    BY <1>3, <2>1 DEF Operations
  <2>3. DataType'
    BY <1>0, <1>1, <1>4, <2>1, <2>2, PatternType DEF DataType
  <2>4. Queues'
    BY <1>1, <1>4, <2>1, <2>2 DEF Queues, Doing, Exits
  <2>5. Filled /\ ~Completed'
    BY <1>0, <1>1, <1>2, <2>1 DEF Contents, Exits, WithSlot, Completed
  <2>6. Contents'
    BY <1>0, <1>1, <2>1, <2>5 DEF Contents, Filled, OnlyOwnSlot, Exits, WithSlot
  <2> QED BY <2>3, <2>4, <2>6 DEF Mem
<1> QED BY <1>5, <1>6

(* And polls each before it goes on.                                          *)
LEMMA CheckPollMem ==
  ASSUME Mem, CheckWritten \/ CheckReadBack
  PROVE  Mem'
<1>0. DataType /\ Queues /\ Contents
  BY DEF Mem
<1>1. UNCHANGED <<slot, slab, local, sq>> /\ cq' = Tail(cq) /\ Completed
  BY DEF CheckWritten, CheckReadBack, Handshakes
<1>2. \/ cpc = "written" /\ cpc' = "clear"
      \/ cpc = "readback" /\ cpc' = "compare"
  BY DEF CheckWritten, CheckReadBack, ClientAt, ClientGoto
<1>3. /\ cq' \in Seq(BOOLEAN) /\ Len(cq') = Len(cq) - 1 /\ Len(cq) \in Nat /\ Len(cq) >= 1
      /\ Len(sq) \in Nat
  BY <1>0, <1>1, QueueFacts DEF DataType, Completed
<1>4. Len(sq) + Len(cq) = 1
  BY <1>0, <1>2 DEF Queues
<1>5. sq = << >> /\ cq' = << >>
  <2>1. Len(sq) = 0 /\ Len(cq') = 0
    BY <1>3, <1>4
  <2> QED BY <1>0, <1>3, <2>1, QueueFacts DEF DataType
<1>6. DataType'
  <2>1. Len(sq) + Len(cq') <= MaxWr
    BY <1>0, <1>3, BenchAssumption DEF DataType
  <2> QED BY <1>0, <1>1, <1>3, <2>1 DEF DataType
<1>7. Queues'
  BY <1>1, <1>2, <1>5 DEF Queues, Exits
<1>8. Filled /\ (cpc = "readback" => local = Pattern)
  BY <1>0, <1>1, <1>2 DEF Contents, WithSlot
<1>9. Contents'
  BY <1>0, <1>1, <1>2, <1>8 DEF Contents, Filled, OnlyOwnSlot, Exits, WithSlot
<1> QED BY <1>6, <1>7, <1>9 DEF Mem

(* A benchmark starts, or the last one is over.                               *)
LEMMA CompareMem ==
  ASSUME Mem, Compare \/ Report
  PROVE  Mem'
<1>0. DataType /\ Queues /\ Contents
  BY DEF Mem
<1>1. UNCHANGED <<slot, slab, local, sq, cq>> /\ cpc \in {"compare", "report"}
  BY DEF Compare, Report, Handshakes, ClientAt
<1>2. sq = << >> /\ cq = << >> /\ local = Pattern /\ Filled
  BY <1>0, <1>1 DEF Queues, Contents, Exits, WithSlot
<1>3. \/ cpc' = "exit1"
      \/ cpc' = "free"
      \/ cpc' = "post" /\ posted' = 0 /\ polled' = 0
  BY DEF Compare, Report, StartBench, ClientGoto, ClientExit
<1>4. DataType'
  BY <1>0, <1>1 DEF DataType
<1>5. CASE cpc' = "exit1"
  BY <1>1, <1>4, <1>5, MemExit DEF Exits
<1>6. CASE cpc' # "exit1"
  <2>1. Queues'
    BY <1>1, <1>2, <1>3, <1>6 DEF Queues, Exits
  <2>2. Contents'
    BY <1>0, <1>1, <1>2, <1>3, <1>6 DEF Contents, Filled, OnlyOwnSlot, Exits, WithSlot
  <2> QED BY <1>4, <2>1, <2>2 DEF Mem
<1> QED BY <1>5, <1>6

(* run_bench posts an operation.                                              *)
LEMMA BenchPostMem ==
  ASSUME Mem, Loop, BenchPost
  PROVE  Mem'
<1>0. DataType /\ Queues /\ Contents /\ LoopType /\ Batches
  BY DEF Mem, Loop
<1>1. /\ cpc = "post" /\ cpc' \in {"post", "poll"} /\ sq' = Append(sq, phase)
      /\ posted' = posted + 1 /\ ~(Len(sq) + Len(cq) >= MaxWr)
      /\ UNCHANGED <<slot, slab, local, cq, phase, polled>>
  BY DEF BenchPost, ClientAt, ClientGoto, Handshakes, Post, QueueFull
<1>2. phase \in Operations
  BY <1>0, <1>1 DEF Batches
<1>3. /\ sq' \in Seq(Operations) /\ Len(sq') = Len(sq) + 1 /\ Len(sq) \in Nat /\ Len(cq) \in Nat
      /\ sq'[Len(sq) + 1] = phase /\ \A j \in 1..Len(sq) : sq'[j] = sq[j]
  BY <1>0, <1>1, <1>2, QueueFacts DEF DataType
<1>4. Len(sq') + Len(cq) <= MaxWr
  BY <1>1, <1>3, BenchAssumption
<1>5. DataType'
  BY <1>0, <1>1, <1>3, <1>4 DEF DataType
<1>6. Queues'
  <2>1. \A j \in 1..Len(sq) : sq[j] = phase
    BY <1>0, <1>1 DEF Queues, Doing, Exits
  <2>2. \A j \in 1..Len(sq') : j \in 1..Len(sq) \/ j = Len(sq) + 1
    BY <1>3
  <2>3. \A j \in 1..Len(sq') : sq'[j] = phase
    BY <1>3, <2>1, <2>2
  <2>4. Doing' = phase
    BY <1>1 DEF Doing
  <2>5. polled + Len(sq) + Len(cq) = posted
    BY <1>0, <1>1 DEF Queues
  <2>6. polled + Len(sq') + Len(cq) = posted + 1
    <3> DEFINE a == Len(sq)
               b == Len(cq)
    <3>1. a \in Nat /\ b \in Nat /\ polled \in Nat
      BY <1>0, <1>3, Numbers
    <3>2. Len(sq') = a + 1 /\ polled + a + b = posted
      BY <1>3, <2>5
    <3> HIDE DEF a
    <3>3. polled + (a + 1) + b = posted + 1
      BY <3>1, <3>2
    <3> QED BY <3>2, <3>3
  <2> QED BY <1>1, <2>3, <2>4, <2>6 DEF Queues, Exits
<1>7. Filled /\ local = Pattern
  BY <1>0, <1>1 DEF Contents, WithSlot
<1>8. Contents'
  BY <1>0, <1>1, <1>7 DEF Contents, Filled, OnlyOwnSlot, Exits, WithSlot
<1> QED BY <1>5, <1>6, <1>8 DEF Mem

(* And polls one; after the last of a batch the queues are empty.             *)
LEMMA BenchPollMem ==
  ASSUME Mem, Loop, BenchPoll
  PROVE  Mem'
<1>0. DataType /\ Queues /\ Contents /\ LoopType /\ Batches
  BY DEF Mem, Loop
<1>1. /\ cpc = "poll" /\ Completed /\ cq' = Tail(cq)
      /\ UNCHANGED <<slot, slab, local, sq, phase>>
  BY DEF BenchPoll, ClientAt, Handshakes
<1>2. \/ polled + 1 = posted /\ posted' = 0 /\ polled' = 0 /\ cpc' \in {"post", "report"}
      \/ polled' = polled + 1 /\ posted' = posted /\ cpc' = cpc
  BY DEF BenchPoll, LastPoll, ClientGoto
<1>3. /\ cq' \in Seq(BOOLEAN) /\ Len(cq') = Len(cq) - 1 /\ Len(cq) \in Nat /\ Len(cq) >= 1
      /\ Len(sq) \in Nat
  BY <1>0, <1>1, QueueFacts DEF DataType, Completed
<1>4. polled + Len(sq) + Len(cq) = posted /\ polled \in Nat /\ posted \in Nat
  BY <1>0, <1>1, Numbers DEF Queues
<1>5. DataType'
  <2>1. Len(sq) + Len(cq') <= MaxWr
    BY <1>0, <1>3, BenchAssumption DEF DataType
  <2> QED BY <1>0, <1>1, <1>3, <2>1 DEF DataType
<1>6. Queues'
  <2>1. \A j \in 1..Len(sq) : sq[j] = phase
    BY <1>0, <1>1 DEF Queues, Doing, Exits
  <2>2. CASE polled + 1 = posted /\ posted' = 0 /\ polled' = 0 /\ cpc' \in {"post", "report"}
    <3>1. Len(sq) = 0 /\ Len(cq') = 0
      BY <1>3, <1>4, <2>2
    <3>2. sq = << >> /\ cq' = << >>
      BY <1>0, <1>3, <3>1, QueueFacts DEF DataType
    <3> QED BY <1>1, <2>2, <3>1, <3>2 DEF Queues, Exits
  <2>3. CASE polled' = polled + 1 /\ posted' = posted /\ cpc' = cpc
    <3>1. (polled + 1) + Len(sq) + Len(cq') = posted
      BY <1>3, <1>4
    <3>2. Doing' = phase
      BY <1>1, <2>3 DEF Doing
    <3> QED BY <1>1, <2>1, <2>3, <3>1, <3>2 DEF Queues, Exits
  <2> QED BY <1>2, <2>2, <2>3
<1>7. Filled /\ local = Pattern
  BY <1>0, <1>1 DEF Contents, WithSlot
<1>8. Contents'
  BY <1>0, <1>1, <1>2, <1>7 DEF Contents, Filled, OnlyOwnSlot, Exits, WithSlot
<1> QED BY <1>5, <1>6, <1>8 DEF Mem

(* Every other way out of the data path.                                      *)
LEMMA GiveUpMem ==
  ASSUME Mem, BenchPostFails \/ PollError \/ ClientDies
  PROVE  Mem'
<1>0. DataType
  BY DEF Mem
<1>1. /\ UNCHANGED <<slot, slab, local, sq>> /\ cpc' \in Exits
      /\ cq' = cq \/ (cq # << >> /\ cq' = Tail(cq))
  BY DEF BenchPostFails, PollError, ClientDies, ClientExit, ClientGoto, Handshakes, Exits
<1>2. cq' \in Seq(BOOLEAN) /\ Len(cq') <= Len(cq) /\ Len(cq) \in Nat /\ Len(cq') \in Nat
  <2>1. cq \in Seq(BOOLEAN)
    BY <1>0 DEF DataType
  <2>2. Len(cq) \in Nat
    BY <2>1, QueueFacts
  <2>3. CASE cq' = cq
    BY <2>1, <2>2, <2>3
  <2>4. CASE cq # << >> /\ cq' = Tail(cq)
    <3>1. Tail(cq) \in Seq(BOOLEAN) /\ Len(Tail(cq)) = Len(cq) - 1 /\ Len(cq) >= 1
      BY <2>1, <2>4, QueueFacts
    <3> QED BY <2>2, <2>4, <3>1
  <2> QED BY <1>1, <2>3, <2>4
<1>3. Len(sq) + Len(cq') <= MaxWr
  <2>1. Len(sq) \in Nat /\ Len(sq) + Len(cq) <= MaxWr
    BY <1>0 DEF DataType
  <2> QED BY <1>2, <2>1, BenchAssumption
<1>4. DataType'
  BY <1>0, <1>1, <1>2, <1>3 DEF DataType
<1> QED BY <1>1, <1>4, MemExit

-----------------------------------------------------------------------------
(* The batches and the clock.                                                 *)

(* Outside run_bench nothing moves.                                           *)
LEMMA LoopSame ==
  ASSUME Loop, UNCHANGED <<phase, i, posted, polled, start, depth>>,
         cpc' = cpc \/ cpc' \notin {"post", "poll", "report"}
  PROVE  Loop'
<1>1. LoopType'
  BY DEF Loop, LoopType
<1>2. Batches'
  BY DEF Loop, Batches, BatchSize
<1>3. Timed'
  BY DEF Loop, Timed, Clock, Start
<1> QED BY <1>1, <1>2, <1>3 DEF Loop

(* run_bench begins.                                                          *)
LEMMA StartLoop ==
  ASSUME Loop, depth' = depth, NEW op \in Operations, StartBench(op)
  PROVE  Loop'
<1>0. LoopType
  BY DEF Loop
<1>1. /\ cpc' = "post" /\ phase' = op /\ i' = 0 /\ posted' = 0 /\ polled' = 0 /\ start' = -1
  BY DEF StartBench, ClientGoto
<1>2. depth \in Nat /\ depth > 0 /\ Total \in Nat /\ Total > 0
  BY <1>0, Numbers
<1>3. LoopType'
  BY <1>0, <1>1, <1>2 DEF LoopType
<1>4. Batches'
  BY <1>1, <1>2 DEF Batches, BatchSize
<1>5. Timed'
  BY <1>1 DEF Timed, Clock, Start
<1> QED BY <1>3, <1>4, <1>5 DEF Loop

(* A post: the first one of a batch past the warm-up starts the clock.        *)
LEMMA BenchPostLoop ==
  ASSUME Loop, BenchPost
  PROVE  Loop'
<1>0. LoopType /\ Batches /\ Timed
  BY DEF Loop
<1>1. /\ cpc = "post" /\ posted' = posted + 1 /\ start' = BwStart
      /\ cpc' = (IF posted' = BatchSize THEN "poll" ELSE "post")
      /\ UNCHANGED <<phase, i, polled, depth>>
  BY DEF BenchPost, ClientAt, ClientGoto, Handshakes
<1>2. /\ depth \in Nat /\ depth > 0 /\ i \in Nat /\ posted \in Nat /\ polled \in Nat
      /\ start \in Int /\ Total \in Nat /\ Warmup \in Nat
  BY <1>0, Numbers
<1>3. i < Total /\ phase \in Operations /\ polled = 0 /\ posted < BatchSize /\ i % depth = 0
  BY <1>0, <1>1 DEF Batches
<1>4. BatchSize \in Nat /\ BatchSize <= depth /\ BatchSize' = BatchSize
  BY <1>1, <1>2, <1>3 DEF BatchSize
<1>5. start' \in -1..Total
  BY <1>0, <1>1, <1>2, <1>3 DEF BwStart, LoopType
<1>6. posted + 1 \in 0..depth /\ 0 \in 0..(posted + 1)
  BY <1>2, <1>3, <1>4
<1>7. LoopType'
  BY <1>0, <1>1, <1>3, <1>5, <1>6 DEF LoopType
<1>8. Batches'
  <2>1. posted + 1 <= BatchSize /\ 0 < posted + 1
    BY <1>2, <1>3, <1>4
  <2>2. CASE posted + 1 = BatchSize
    BY <1>1, <1>3, <1>4, <2>1, <2>2 DEF Batches
  <2>3. CASE posted + 1 # BatchSize
    <3>1. posted + 1 < BatchSize
      BY <1>2, <1>4, <2>1, <2>3
    <3> QED BY <1>1, <1>3, <1>4, <2>3, <3>1 DEF Batches
  <2> QED BY <2>2, <2>3
<1>9. Timed'
  <2>1. \A b : Start(b)' <=> Start(b)
    BY <1>1 DEF Start
  <2>2. Clock(IF posted > 0 THEN i + 1 ELSE i)
    BY <1>0, <1>1 DEF Timed
  <2>3. i >= Warmup => Start(i)
    BY <1>2, <1>3 DEF Start
  <2>4. start' = -1 => \A b \in Nat : Start(b) => b >= i + 1
    <3> SUFFICES ASSUME start' = -1, NEW b \in Nat, Start(b) PROVE b >= i + 1
      OBVIOUS
    <3>1. start = -1 /\ ~(i >= Warmup)
      BY <1>1, <1>2 DEF BwStart
    <3>2. b >= Warmup
      BY <1>2 DEF Start
    <3> QED BY <1>2, <3>1, <3>2
  <2>5. start' # -1 => Start(start') /\ start' < i + 1 /\ \A b \in Nat : Start(b) => start' <= b
    <3>1. CASE start = -1 /\ start' # -1
      <4>1. start' = i /\ i >= Warmup
        BY <1>1, <3>1 DEF BwStart
      <4>2. \A b \in Nat : Start(b) => i <= b
        BY <1>2, <2>2, <3>1 DEF Clock
      <4> QED BY <1>2, <2>3, <4>1, <4>2
    <3>2. CASE start # -1
      <4>1. start' = start
        BY <1>1, <3>2 DEF BwStart
      <4>2. Start(start) /\ start < i + 1 /\ \A b \in Nat : Start(b) => start <= b
        BY <1>2, <2>2, <3>2 DEF Clock
      <4> QED BY <4>1, <4>2
    <3> QED BY <3>1, <3>2
  <2>6. posted' > 0 /\ i' = i
    BY <1>1, <1>2
  <2>7. Clock(i + 1)'
    BY <1>1, <2>1, <2>4, <2>5 DEF Clock
  <2> QED BY <2>6, <2>7 DEF Timed
<1> QED BY <1>7, <1>8, <1>9 DEF Loop

(* A poll: the next batch starts a depth further on.                          *)
LEMMA BenchPollLoop ==
  ASSUME Loop, BenchPoll
  PROVE  Loop'
<1>0. LoopType /\ Batches /\ Timed
  BY DEF Loop
<1>1. cpc = "poll" /\ UNCHANGED <<phase, start, depth>>
  BY DEF BenchPoll, ClientAt, Handshakes
<1>2. /\ depth \in Nat /\ depth > 0 /\ i \in Nat /\ posted \in Nat /\ polled \in Nat
      /\ start \in Int /\ Total \in Nat /\ Warmup \in Nat
  BY <1>0, Numbers
<1>3. /\ i < Total /\ phase \in Operations /\ polled < posted /\ posted = BatchSize
      /\ i % depth = 0
  BY <1>0, <1>1 DEF Batches
<1>4. Clock(i + 1)
  BY <1>0, <1>1, <1>2, <1>3 DEF Timed
<1>5. ASSUME polled + 1 # posted PROVE Loop'
  <2>1. polled' = polled + 1 /\ UNCHANGED <<i, posted, cpc>>
    BY <1>5 DEF BenchPoll, LastPoll
  <2>2. polled + 1 < posted
    BY <1>2, <1>3, <1>5
  <2>3. LoopType'
    BY <1>0, <1>1, <1>2, <2>1, <2>2 DEF LoopType
  <2>4. Batches'
    BY <1>1, <1>3, <2>1, <2>2 DEF Batches, BatchSize
  <2>5. Timed'
    BY <1>0, <1>1, <2>1 DEF Timed, Clock, Start
  <2> QED BY <2>3, <2>4, <2>5 DEF Loop
<1>6. ASSUME polled + 1 = posted PROVE Loop'
  <2>1. /\ i' = i + depth /\ posted' = 0 /\ polled' = 0
        /\ cpc' = (IF i' < Total THEN "post" ELSE "report")
    BY <1>6 DEF BenchPoll, LastPoll, ClientGoto
  <2>2. i + depth \in 0..(Total + depth) /\ (i + depth) % depth = 0
    <3>1. (i + depth) % depth = 0
      BY <1>2, <1>3, Multiples
    <3>2. i + depth \in 0..(Total + depth)
      BY <1>2, <1>3
    <3> QED BY <3>1, <3>2
  <2>3. LoopType'
    BY <1>0, <1>1, <1>2, <2>1, <2>2 DEF LoopType
  <2>4. Batches'
    <3>1. CASE i + depth < Total
      BY <1>1, <1>2, <1>3, <2>1, <2>2, <3>1 DEF Batches, BatchSize
    <3>2. CASE ~(i + depth < Total)
      BY <1>1, <1>2, <1>3, <2>1, <2>2, <3>2 DEF Batches
    <3> QED BY <3>1, <3>2
  <2>5. Clock(i + depth)
    <3>1. CASE start = -1
      <4>1. \A b \in Nat : Start(b) => b >= i + 1 /\ b % depth = 0
        BY <1>4, <3>1 DEF Clock, Start
      <4>2. \A b \in Nat : b % depth = 0 /\ i < b => i + depth <= b
        BY <1>2, <1>3, Multiples
      <4>3. \A b \in Nat : Start(b) => b >= i + depth
        BY <1>2, <4>1, <4>2
      <4> QED BY <3>1, <4>3 DEF Clock
    <3>2. CASE start # -1
      BY <1>2, <1>4, <3>2 DEF Clock
    <3> QED BY <3>1, <3>2
  <2>6. Timed'
    <3>1. \A b : Start(b)' <=> Start(b)
      BY <1>1 DEF Start
    <3>2. Clock(i)'
      BY <1>1, <2>1, <2>5, <3>1 DEF Clock
    <3> QED BY <2>1, <3>2 DEF Timed
  <2> QED BY <2>3, <2>4, <2>6 DEF Loop
<1> QED BY <1>5, <1>6

-----------------------------------------------------------------------------
(* The steps.                                                                 *)

(* The server's do not touch the client.                                      *)
LEMMA ServerKeeps ==
  ASSUME IInv, UNCHANGED benchvars, ServerStart \/ Serve \/ ServerDies
  PROVE  IInv'
<1>0. Hand /\ Mem /\ Loop
  BY DEF IInv
<1>1. Hand'
  BY <1>0, StartHand, MetaHand, ServeHand, SendFailsHand DEF ServerStart, Serve
<1>2. Mem'
  BY <1>0, MemSame DEF benchvars
<1>3. Loop'
  BY <1>0, LoopSame DEF benchvars
<1> QED BY <1>1, <1>2, <1>3 DEF IInv

(* The client's on the control connection.                                    *)
LEMMA TalkKeeps ==
  ASSUME IInv,
         \/ CtrlConnect \/ DataConnect \/ DataConnected \/ MetaRequest \/ MetaReply \/ ReplyLost
         \/ LocalBuffer \/ OobConnect \/ OobReceive \/ AllocRequest \/ AllocReply
         \/ FreeRequest \/ FreeReply
  PROVE  IInv'
<1>0. Hand /\ Mem /\ Loop
  BY DEF IInv
<1>1. Hand'
  BY <1>0, ConnectHand, RequestHand, ReplyHand
<1>2. UNCHANGED <<local, slab, sq, cq, phase, i, posted, polled, start, depth>>
  BY DEF CtrlConnect, DataConnect, DataConnected, MetaRequest, MetaReply, ReplyLost, LocalBuffer,
         OobConnect, OobReceive, AllocRequest, AllocReply, FreeRequest, FreeReply, Request, Data
<1>3. \/ cpc' \in Exits /\ slot' = slot
      \/ cpc = "allocrecv" /\ cpc' \in {"fill", "exit1"}
      \/ /\ cpc \in {"ctrl", "data", "dwait", "meta", "metarecv", "buffers", "oob", "oobrecv",
                     "alloc"}
         /\ cpc' \in {"data", "dwait", "meta", "metarecv", "buffers", "oob", "oobrecv", "alloc",
                      "allocrecv"}
      \/ cpc = "free" /\ cpc' = "freerecv" /\ slot' = slot
  <2>1. CASE CtrlConnect \/ DataConnect \/ DataConnected \/ ReplyLost
    BY <2>1 DEF CtrlConnect, DataConnect, DataConnected, ReplyLost, ClientAt, ClientGoto,
                ClientExit, Exits
  <2>2. CASE LocalBuffer \/ OobConnect \/ OobReceive
    BY <2>2 DEF LocalBuffer, OobConnect, OobReceive, ClientAt, ClientGoto, ClientExit, Exits
  <2>3. CASE MetaRequest \/ AllocRequest \/ FreeRequest
    BY <2>3 DEF MetaRequest, AllocRequest, FreeRequest, Request, ClientAt, ClientGoto
  <2>4. CASE MetaReply \/ AllocReply \/ FreeReply
    BY <2>4 DEF MetaReply, AllocReply, FreeReply, ClientAt, ClientGoto, ClientExit, Exits
  <2> QED BY <2>1, <2>2, <2>3, <2>4
<1>4. cpc = "allocrecv" => Blank
  BY <1>0 DEF Mem, Contents, Exits, WithSlot
<1>5. \/ cpc' \in Exits /\ (slot' = slot \/ Blank)
      \/ cpc \notin Exits \cup WithSlot /\ cpc' \notin Exits \cup (WithSlot \ {"fill"})
      \/ cpc = "free" /\ cpc' = "freerecv" /\ slot' = slot
  BY <1>3, <1>4 DEF Exits, WithSlot
<1>6. Mem'
  BY <1>0, <1>2, <1>5, MemTalk
<1>7. cpc' \notin {"post", "poll", "report"}
  BY <1>3 DEF Exits
<1>8. Loop'
  BY <1>0, <1>2, <1>7, LoopSame
<1> QED BY <1>1, <1>6, <1>8 DEF IInv

(* And those on the data path.                                                *)
LEMMA CheckKeeps ==
  ASSUME IInv, CheckWrite \/ CheckWritten \/ CheckRead \/ CheckReadBack
  PROVE  IInv'
<1>0. Hand /\ Mem /\ Loop
  BY DEF IInv
<1>1. /\ cpc \in WithSlot \ {"freerecv"} /\ copen' = copen
      /\ cpc' \in {"written", "clear", "readback", "compare"}
      /\ Handshakes /\ UNCHANGED <<phase, i, posted, polled, start>>
  BY DEF CheckWrite, CheckWritten, CheckRead, CheckReadBack, ClientAt, ClientGoto, WithSlot
<1>2. Hand'
  <2>1. {cpc, cpc'} \subseteq WithSlot \ {"freerecv"}
    BY <1>1 DEF WithSlot
  <2> QED BY <1>0, <1>1, <2>1, DataHand
<1>3. Mem'
  BY <1>0, CheckPostMem, CheckPollMem
<1>4. Loop'
  BY <1>0, <1>1, LoopSame DEF Handshakes
<1> QED BY <1>2, <1>3, <1>4 DEF IInv

(* The memcmp of main starts the timed writes or gives up; after a report     *)
(* main starts the timed reads or frees the slot.                             *)
LEMMA CompareKeeps ==
  ASSUME IInv, Compare \/ Report
  PROVE  IInv'
<1>0. Hand /\ Mem /\ Loop
  BY DEF IInv
<1>1. Handshakes /\ cpc \in {"compare", "report"} /\ depth' = depth
  BY DEF Compare, Report, ClientAt, Handshakes
<1> DEFINE Starts == \E op \in Operations : StartBench(op)
           Moves  == /\ UNCHANGED <<phase, i, posted, polled, start>>
                     /\ \/ cpc' = "free" /\ copen' = copen
                        \/ cpc' = "exit1" /\ copen' = FALSE
<1>2. (copen' = copen /\ Starts) \/ Moves
  <2>1. CASE Compare
    <3>1. \/ StartBench("write") /\ copen' = copen
          \/ cpc' = "exit1" /\ copen' = FALSE /\ UNCHANGED <<phase, i, posted, polled, start>>
      BY <2>1 DEF Compare, ClientExit, ClientGoto
    <3>2. "write" \in Operations
      BY DEF Operations
    <3> QED BY <3>1, <3>2
  <2>2. CASE Report
    <3>1. /\ copen' = copen
          /\ \/ StartBench("read")
             \/ cpc' = "free" /\ UNCHANGED <<phase, i, posted, polled, start>>
      BY <2>2 DEF Report, ClientGoto
    <3>2. "read" \in Operations
      BY DEF Operations
    <3> QED BY <3>1, <3>2
  <2> QED BY <2>1, <2>2
<1>3. \/ cpc' \in {"post", "free"} /\ copen' = copen
      \/ cpc' = "exit1" /\ copen' = FALSE
  <2>1. Starts => cpc' = "post"
    BY DEF StartBench, ClientGoto
  <2> QED BY <1>2, <2>1
<1>4. Hand'
  <2>1. CASE cpc' = "exit1" /\ copen' = FALSE
    BY <1>0, <1>1, <2>1, DataHand DEF Exits
  <2>2. CASE cpc' \in {"post", "free"} /\ copen' = copen
    <3>1. {cpc, cpc'} \subseteq WithSlot \ {"freerecv"}
      BY <1>1, <2>2 DEF WithSlot
    <3> QED BY <1>0, <1>1, <2>2, <3>1, DataHand
  <2> QED BY <1>3, <2>1, <2>2
<1>5. Mem'
  BY <1>0, CompareMem
<1>6. Loop'
  <2>1. CASE Starts
    BY <1>0, <1>1, <2>1, StartLoop
  <2>2. CASE Moves
    <3>1. cpc' \notin {"post", "poll", "report"}
      BY <2>2
    <3> QED BY <1>0, <1>1, <2>2, <3>1, LoopSame
  <2> QED BY <1>2, <2>1, <2>2
<1> QED BY <1>4, <1>5, <1>6 DEF IInv

(* run_bench posts one operation of a batch, or reaps one.                    *)
LEMMA BenchKeeps ==
  ASSUME IInv, BenchPost \/ BenchPoll
  PROVE  IInv'
<1>0. Hand /\ Mem /\ Loop
  BY DEF IInv
<1>1. /\ Handshakes /\ copen' = copen /\ cpc \in {"post", "poll"}
      /\ cpc' \in {"post", "poll", "report"}
  BY DEF BenchPost, BenchPoll, ClientAt, ClientGoto
<1>2. {cpc, cpc'} \subseteq WithSlot \ {"freerecv"}
  BY <1>1 DEF WithSlot
<1>3. Hand'
  BY <1>0, <1>1, <1>2, DataHand
<1>4. Mem'
  BY <1>0, BenchPostMem, BenchPollMem
<1>5. Loop'
  BY <1>0, BenchPostLoop, BenchPollLoop
<1> QED BY <1>3, <1>4, <1>5 DEF IInv

(* A full send queue, a failed completion or a signal ends the client.        *)
LEMMA GiveUpKeeps ==
  ASSUME IInv, BenchPostFails \/ PollError \/ ClientDies
  PROVE  IInv'
<1>0. Hand /\ Mem /\ Loop
  BY DEF IInv
<1>1. /\ Handshakes /\ cpc' = "exit1" /\ copen' = FALSE
      /\ UNCHANGED <<phase, i, posted, polled, start>>
  BY DEF BenchPostFails, PollError, ClientDies, ClientExit, ClientGoto
<1>2. Hand'
  BY <1>0, <1>1, DataHand DEF Exits
<1>3. Mem'
  BY <1>0, GiveUpMem
<1>4. Loop'
  BY <1>0, <1>1, LoopSame DEF Handshakes
<1> QED BY <1>2, <1>3, <1>4 DEF IInv

(* The NIC executes the operation at the head of the send queue.              *)
LEMMA ExecuteKeeps ==
  ASSUME IInv, Execute
  PROVE  IInv'
<1>0. Hand /\ Mem /\ Loop /\ LoopType
  BY DEF IInv, Loop
<1>1. Handshakes /\ cpc' = cpc /\ copen' = copen /\ UNCHANGED <<phase, i, posted, polled, start>>
  BY DEF Execute
<1>2. Hand'
  BY <1>0, <1>1, DataHand
<1>3. Mem'
  BY <1>0, ExecuteMem
<1>4. Loop'
  BY <1>0, <1>1, LoopSame DEF Handshakes
<1> QED BY <1>2, <1>3, <1>4 DEF IInv

-----------------------------------------------------------------------------
(* The theorems.                                                              *)

(* Every reachable state of the benchmark and its server satisfies the        *)
(* inductive invariant.                                                       *)
LEMMA Invariance == Spec => []IInv
<1>1. IInv /\ [Next]_vars => IInv'
  <2> SUFFICES ASSUME IInv, [Next]_vars PROVE IInv'
    OBVIOUS
  <2>1. CASE Client
    BY <2>1, TalkKeeps, CheckKeeps, CompareKeeps, BenchKeeps, GiveUpKeeps DEF Client
  <2>2. CASE Server
    BY <2>2, ServerKeeps DEF Server
  <2>3. CASE Execute
    BY <2>3, ExecuteKeeps
  <2>4. CASE Killed
    BY <2>4, GiveUpKeeps, ServerKeeps DEF Killed
  <2>5. CASE UNCHANGED vars
    <3>1. Hand /\ Mem /\ Loop
      BY DEF IInv
    <3>2. Hand'
      BY <2>5, <3>1, DataHand DEF vars, Handshakes
    <3>3. Mem' /\ Loop'
      BY <2>5, <3>1, MemSame, LoopSame DEF vars
    <3> QED BY <3>2, <3>3 DEF IInv
  <2> QED BY <2>1, <2>2, <2>3, <2>4, <2>5 DEF Next, Finished
<1> QED BY <1>1, InitInv, PTL DEF Spec

(* Both processes stay well typed: no more requests than the send queue takes *)
(* are outstanding, a slot handed out is one of the pool's, and the counters  *)
(* of run_bench stay within latencies.                                        *)
THEOREM TypeCorrect == Spec => []TypeOK
<1>1. IInv => TypeOK
  BY DEF IInv, Hand, HandType, Mem, DataType, Loop, LoopType, TypeOK, ServerType
<1> QED BY <1>1, Invariance, PTL

(* main's write, clear, read and compare always finds the pattern, whenever   *)
(* the NIC gets to the requests and whoever dies.                             *)
THEOREM RoundTripHolds == Spec => []RoundTrip
<1>1. IInv => RoundTrip
  BY DEF IInv, Mem, Contents, RoundTrip, ClientAt
<1> QED BY <1>1, Invariance, PTL

(* No write of the client leaves the slot kv_alloc gave it, for any number    *)
(* and size of slots.                                                         *)
THEOREM OnlyOwnSlotHolds == Spec => []OnlyOwnSlot
<1>1. IInv => OnlyOwnSlot
  BY DEF IInv, Mem, Contents
<1> QED BY <1>1, Invariance, PTL

(* run_bench stays within total_iters whether or not the depth divides it,    *)
(* and leaves no completion behind for the next benchmark.                    *)
THEOREM BatchesExactHolds == Spec => []BatchesExact
<1>1. IInv => BatchesExact
  <2> SUFFICES ASSUME IInv PROVE BatchesExact
    OBVIOUS
  <2>1. cpc \in {"post", "poll"} => i + posted <= Total
    <3>1. LoopType /\ Batches
      BY DEF IInv, Loop
    <3>2. depth \in Nat /\ i \in Nat /\ posted \in Nat /\ Total \in Nat
      BY <3>1, Numbers
    <3> QED BY <3>1, <3>2 DEF Batches, BatchSize
  <2>2. cpc = "report" => sq = << >> /\ cq = << >>
    BY DEF IInv, Mem, Queues, Exits
  <2> QED BY <2>1, <2>2 DEF BatchesExact, ClientAt
<1> QED BY <1>1, Invariance, PTL

(* The time behind the printed bandwidth is that of the operations whose      *)
(* bytes are counted exactly when the depth divides the warm-up: else the     *)
(* clock starts late, at the first batch past the warm-up, or not at all.     *)
THEOREM HonestIffDivides ==
  Spec => [](ClientAt("report") => (GbpsHonest <=> Warmup % depth = 0))
<1> DEFINE Exactly == ClientAt("report") => (GbpsHonest <=> Warmup % depth = 0)
<1>1. IInv => Exactly
  <2> SUFFICES ASSUME IInv, cpc = "report"
               PROVE  start # -1 /\ Total - start = Iters <=> Warmup % depth = 0
    BY DEF GbpsHonest, ClientAt
  <2> DEFINE batches == {b \in Warmup..(Total - 1) : b % depth = 0}
  <2>1. LoopType /\ i >= Total /\ posted = 0 /\ Clock(i)
    BY DEF IInv, Loop, Batches, Timed
  <2>2. /\ depth \in Nat /\ depth > 0 /\ i \in Nat /\ start \in Int /\ Total \in Nat
        /\ Warmup \in Nat /\ Iters \in Nat /\ Iters > 0 /\ Total = Warmup + Iters
    BY <2>1, Numbers
  <2>3. start # -1 => start % depth = 0
    BY <2>1 DEF Clock, Start
  <2>4. start # -1 /\ Total - start = Iters => Warmup % depth = 0
    <3>1. Total - start = Iters => start = Warmup
      BY <2>2
    <3> QED BY <2>3, <3>1
  <2>5. ASSUME Warmup % depth = 0 PROVE start # -1 /\ Total - start = Iters
    <3>1. Start(Warmup) /\ Warmup < i
      BY <2>1, <2>2, <2>5 DEF Start
    <3>2. start # -1
      BY <2>1, <2>2, <3>1 DEF Clock
    <3>3. start <= Warmup /\ Start(start)
      BY <2>1, <2>2, <3>1, <3>2 DEF Clock
    <3>4. start >= Warmup
      BY <2>2, <3>3 DEF Start
    <3> QED BY <2>2, <3>2, <3>3, <3>4
  <2> QED BY <2>4, <2>5
<1>2. Spec => []Exactly
  BY <1>1, Invariance, PTL
<1> QED BY <1>2

-----------------------------------------------------------------------------
(* KvPool.  Its inductive invariant: SlotsConserved counts; the proof has   *)
(* to know that the places are disjoint, and which words are in the two     *)
(* streams.                                                                 *)

PoolType ==
  /\ spc \in ServerPCs /\ client \in PoolPCs
  /\ free_list \in Seq(Slots)
  /\ c2s \in Seq(Int) /\ s2c \in Seq(Int)
  /\ copen \in BOOLEAN /\ sopen \in BOOLEAN
  /\ dlisten \in BOOLEAN /\ creq \in BOOLEAN /\ estab \in BOOLEAN
  /\ oob \in {"none", "waiting", "done"}
  /\ held \subseteq Slots /\ asked \in Slots

\* One request or one reply at a time, of the kind the client waits for.  The
\* server cannot tell them apart but by their place in the stream.
PoolTalk ==
  /\ copen <=> client # "gone"
  /\ client = "idle" => c2s = << >> /\ s2c = << >>
  /\ client = "alloc" =>
       \/ c2s = <<KV_MSG_ALLOC, 0>> /\ s2c = << >>
       \/ c2s = << >> /\ \E w \in Slots \cup {-1} : s2c = <<w>>
  /\ client = "free" =>
       \/ c2s = <<KV_MSG_FREE, asked>> /\ s2c = << >>
       \/ c2s = << >> /\ s2c = <<0>>

Disjoint(free, inHand, moving) ==
  free \cap inHand = {} /\ free \cap moving = {} /\ inHand \cap moving = {}

Shared ==
  copen =>
    /\ IsInjective(free_list)
    /\ ToSet(free_list) \cup held \cup Granted \cup Returned = Slots
    /\ Disjoint(ToSet(free_list), held, Granted \cup Returned)

PoolInv == PoolType /\ PoolTalk /\ Shared /\ RefusedOnlyWhenFull

-----------------------------------------------------------------------------
(* Sequences of one and two words, and the free list.                        *)

(* pool.free_list.push_back of a slot that is not on the list.                *)
LEMMA Push ==
  ASSUME NEW l \in Seq(Slots), NEW x \in Slots, IsInjective(l), x \notin ToSet(l)
  PROVE  /\ Append(l, x) \in Seq(Slots) /\ IsInjective(Append(l, x))
         /\ ToSet(Append(l, x)) = ToSet(l) \cup {x}
<1> DEFINE m == Append(l, x)
<1>1. /\ m \in Seq(Slots) /\ Len(m) = Len(l) + 1 /\ DOMAIN m = 1..Len(m) /\ DOMAIN l = 1..Len(l)
      /\ Len(l) \in Nat /\ m[Len(l) + 1] = x /\ \A j \in 1..Len(l) : m[j] = l[j]
  OBVIOUS
<1>2. DOMAIN m = DOMAIN l \cup {Len(l) + 1}
  BY <1>1
<1>3. ToSet(m) = ToSet(l) \cup {x}
  BY <1>1, <1>2 DEF ToSet
<1>4. IsInjective(m)
  BY <1>1, <1>2 DEF ToSet, IsInjective
<1> QED BY <1>1, <1>3, <1>4

(* back() and pop_back() of a list that is not empty.                         *)
LEMMA Pop ==
  ASSUME NEW l \in Seq(Slots), l # << >>, IsInjective(l)
  PROVE  /\ Front(l) \in Seq(Slots) /\ IsInjective(Front(l)) /\ Last(l) \in Slots
         /\ ToSet(l) = ToSet(Front(l)) \cup {Last(l)} /\ Last(l) \notin ToSet(Front(l))
<1> DEFINE m == Front(l)
<1>1. Len(l) \in Nat /\ Len(l) >= 1 /\ DOMAIN l = 1..Len(l) /\ \A j \in 1..Len(l) : l[j] \in Slots
  OBVIOUS
<1>2. /\ m \in Seq(Slots) /\ Len(m) = Len(l) - 1 /\ DOMAIN m = 1..(Len(l) - 1)
      /\ \A j \in 1..(Len(l) - 1) : m[j] = l[j]
  BY <1>1 DEF Front
<1>3. DOMAIN l = DOMAIN m \cup {Len(l)} /\ Len(l) \notin DOMAIN m
  BY <1>1, <1>2
<1>4. ToSet(l) = ToSet(m) \cup {Last(l)} /\ Last(l) \in Slots
  BY <1>1, <1>2, <1>3 DEF ToSet, Last
<1>5. IsInjective(m)
  BY <1>2, <1>3 DEF IsInjective
<1>6. Last(l) \notin ToSet(m)
  BY <1>1, <1>2, <1>3 DEF ToSet, Last, IsInjective
<1> QED BY <1>2, <1>4, <1>5, <1>6

(* The size of a list without repetitions is the number of its slots.         *)
LEMMA CountList ==
  ASSUME NEW l \in Seq(Slots), IsInjective(l)
  PROVE  IsFiniteSet(ToSet(l)) /\ Cardinality(ToSet(l)) = Len(l)
<1>1. Len(l) \in Nat /\ DOMAIN l = 1..Len(l) /\ l \in [1..Len(l) -> ToSet(l)]
  BY DEF ToSet
<1>2. l \in Bijection(1..Len(l), ToSet(l))
  BY <1>1 DEF Bijection, Injection, Surjection, IsInjective, ToSet
<1>3. ExistsBijection(1..Len(l), ToSet(l))
  BY <1>2 DEF ExistsBijection
<1> QED BY <1>1, <1>3, FS_CountingElements, FS_NatBijection

-----------------------------------------------------------------------------
(* Initially every slot is free.                                              *)
LEMMA PoolInitInv == PoolInit => PoolInv
<1> SUFFICES ASSUME PoolInit PROVE PoolInv
  OBVIOUS
<1>1. NumSlots \in Nat /\ NumSlots > 0
  BY SlotsAssumption
<1>2. /\ free_list \in Seq(Slots) /\ DOMAIN free_list = 1..NumSlots
      /\ \A j \in 1..NumSlots : free_list[j] = j - 1
  BY <1>1 DEF PoolInit, Slots
<1>3. PoolType
  <2>1. 0 \in Slots
    BY <1>1 DEF Slots
  <2>2. << >> \in Seq(Int)
    OBVIOUS
  <2> QED BY <1>2, <2>1, <2>2 DEF PoolInit, PoolType, ServerPCs, PoolPCs
<1>4. PoolTalk
  BY DEF PoolInit, PoolTalk
<1>5. ToSet(free_list) = Slots
  <2>1. \A j \in 1..NumSlots : j - 1 \in Slots
    BY <1>1 DEF Slots
  <2>2. \A x \in Slots : x + 1 \in 1..NumSlots /\ (x + 1) - 1 = x
    BY <1>1 DEF Slots
  <2>3. \A x \in Slots : \E j \in DOMAIN free_list : free_list[j] = x
    BY <1>2, <2>2
  <2> QED BY <1>2, <2>1, <2>3 DEF ToSet
<1>6. IsInjective(free_list)
  BY <1>1, <1>2 DEF IsInjective
<1>7. Shared
  BY <1>5, <1>6 DEF PoolInit, Shared, Disjoint, Granted, Returned
<1>8. RefusedOnlyWhenFull
  BY DEF PoolInit, RefusedOnlyWhenFull
<1> QED BY <1>3, <1>4, <1>7, <1>8 DEF PoolInv

-----------------------------------------------------------------------------
(* The client's steps.                                                         *)

(* kv_alloc's request changes no slot.                                         *)
LEMMA PoolAllocKeeps ==
  ASSUME PoolInv, PoolAlloc
  PROVE  PoolInv'
<1>1. /\ client = "idle" /\ client' = "alloc" /\ c2s' = c2s \o <<KV_MSG_ALLOC, 0>>
      /\ UNCHANGED <<s2c, held, asked, spc, free_list, copen, sopen, dlisten, creq, estab, oob>>
  BY DEF PoolAlloc, ClientUnchanged
<1>2. c2s = << >> /\ s2c = << >> /\ c2s' = <<KV_MSG_ALLOC, 0>> /\ c2s' \in Seq(Int)
      /\ s2c' = << >>
  BY <1>1, Words DEF PoolInv, PoolTalk, KV_MSG_ALLOC
<1>3. PoolType'
  BY <1>1, <1>2 DEF PoolInv, PoolType, PoolPCs
<1>4. PoolTalk'
  BY <1>1, <1>2 DEF PoolInv, PoolTalk
<1>5. Granted' = Granted /\ Returned' = Returned
  BY <1>1, <1>2 DEF Granted, Returned
<1>6. Shared'
  BY <1>1, <1>5 DEF PoolInv, Shared
<1>7. RefusedOnlyWhenFull'
  BY <1>1, <1>2 DEF RefusedOnlyWhenFull
<1> QED BY <1>3, <1>4, <1>6, <1>7 DEF PoolInv

(* The slot of the reply was on its way to the client and is now held.         *)
LEMMA PoolAllocReplyKeeps ==
  ASSUME PoolInv, PoolAllocReply
  PROVE  PoolInv'
<1>1. /\ client = "alloc" /\ client' = "idle" /\ Len(s2c) >= 1 /\ s2c' = Rest(s2c, 1)
      /\ held' = IF Head(s2c) = -1 THEN held ELSE held \cup {Head(s2c)}
      /\ UNCHANGED <<c2s, asked, spc, free_list, copen, sopen, dlisten, creq, estab, oob>>
  BY DEF PoolAllocReply, ClientUnchanged, HasWords
<1>2. PICK w \in Slots \cup {-1} : s2c = <<w>> /\ c2s = << >>
  BY <1>1, Words DEF PoolInv, PoolTalk
<1>3. /\ w \in Int /\ s2c' = << >> /\ Head(s2c) = w /\ c2s' = << >> /\ s2c # << >>
      /\ held' = IF w = -1 THEN held ELSE held \cup {w}
  <2>1. w \in Int
    BY SlotsAssumption DEF Slots
  <2> QED BY <1>1, <1>2, <2>1, Words
<1>4. PoolType'
  BY <1>1, <1>3 DEF PoolInv, PoolType, PoolPCs
<1>5. PoolTalk'
  BY <1>1, <1>3 DEF PoolInv, PoolTalk
<1>6. Shared'
  <2>1. Granted = (IF w = -1 THEN {} ELSE {w}) /\ Returned = {}
    BY <1>1, <1>3 DEF Granted, Returned
  <2>2. Granted' = {} /\ Returned' = {}
    BY <1>1, <1>3 DEF Granted, Returned
  <2>3. held' = held \cup Granted
    BY <1>3, <2>1
  <2> QED BY <1>1, <2>1, <2>2, <2>3 DEF PoolInv, Shared, Disjoint
<1>7. RefusedOnlyWhenFull'
  BY <1>1 DEF RefusedOnlyWhenFull
<1> QED BY <1>4, <1>5, <1>6, <1>7 DEF PoolInv

(* kv_free's request takes the slot with it.                                   *)
LEMMA PoolFreeKeeps ==
  ASSUME PoolInv, NEW j \in Slots, PoolFree(j)
  PROVE  PoolInv'
<1>1. /\ client = "idle" /\ j \in held /\ client' = "free" /\ c2s' = c2s \o <<KV_MSG_FREE, j>>
      /\ held' = held \ {j} /\ asked' = j
      /\ UNCHANGED <<s2c, spc, free_list, copen, sopen, dlisten, creq, estab, oob>>
  BY DEF PoolFree, ClientUnchanged
<1>2. /\ c2s = << >> /\ s2c = << >> /\ c2s' = <<KV_MSG_FREE, j>> /\ c2s' \in Seq(Int)
      /\ s2c' = << >> /\ c2s' # << >>
  <2>1. j \in Int /\ KV_MSG_FREE \in Int
    BY SlotsAssumption DEF Slots, KV_MSG_FREE
  <2> QED BY <1>1, <2>1, Words DEF PoolInv, PoolTalk
<1>3. PoolType'
  BY <1>1, <1>2 DEF PoolInv, PoolType, PoolPCs
<1>4. PoolTalk'
  BY <1>1, <1>2 DEF PoolInv, PoolTalk
<1>5. Shared'
  <2>1. Granted = {} /\ Returned = {} /\ Granted' = {} /\ Returned' = {j}
    BY <1>1, <1>2 DEF Granted, Returned
  <2> QED BY <1>1, <2>1 DEF PoolInv, Shared, Disjoint
<1>6. RefusedOnlyWhenFull'
  BY <1>1 DEF RefusedOnlyWhenFull
<1> QED BY <1>3, <1>4, <1>5, <1>6 DEF PoolInv

(* The acknowledgement of a FREE is 0.                                         *)
LEMMA PoolFreeReplyKeeps ==
  ASSUME PoolInv, PoolFreeReply
  PROVE  PoolInv'
<1>1. /\ client = "free" /\ Len(s2c) >= 1 /\ s2c' = Rest(s2c, 1)
      /\ IF Head(s2c) = 0 THEN client' = "idle" /\ copen' = copen
                          ELSE client' = "gone" /\ copen' = FALSE
      /\ UNCHANGED <<c2s, held, asked, spc, free_list, sopen, dlisten, creq, estab, oob>>
  BY DEF PoolFreeReply, HasWords
<1>2. s2c = <<0>> /\ c2s = << >>
  BY <1>1, Words DEF PoolInv, PoolTalk
<1>3. s2c' = << >> /\ client' = "idle" /\ copen' = copen /\ c2s' = << >> /\ s2c # << >>
  BY <1>1, <1>2, Words
<1>4. PoolType'
  BY <1>1, <1>3 DEF PoolInv, PoolType, PoolPCs
<1>5. PoolTalk'
  BY <1>1, <1>3 DEF PoolInv, PoolTalk
<1>6. Shared'
  <2>1. Granted = {} /\ Returned = {} /\ Granted' = {} /\ Returned' = {}
    BY <1>1, <1>2, <1>3 DEF Granted, Returned
  <2> QED BY <1>1, <1>3, <2>1 DEF PoolInv, Shared
<1>7. RefusedOnlyWhenFull'
  BY <1>3 DEF RefusedOnlyWhenFull
<1> QED BY <1>4, <1>5, <1>6, <1>7 DEF PoolInv

(* The process may end anywhere.                                               *)
LEMMA ClientGoneKeeps ==
  ASSUME PoolInv, ClientGone
  PROVE  PoolInv'
<1>1. /\ client' = "gone" /\ copen' = FALSE
      /\ UNCHANGED <<c2s, s2c, held, asked, spc, free_list, sopen, dlisten, creq, estab, oob>>
  BY DEF ClientGone
<1>2. PoolType'
  BY <1>1 DEF PoolInv, PoolType, PoolPCs
<1>3. PoolTalk' /\ Shared' /\ RefusedOnlyWhenFull'
  BY <1>1 DEF PoolTalk, Shared, RefusedOnlyWhenFull
<1> QED BY <1>2, <1>3 DEF PoolInv

-----------------------------------------------------------------------------
(* The server's steps.  With the client gone nothing is left to keep but the   *)
(* types.                                                                      *)

(* serve with a client that is there.                                          *)
LEMMA ServeRequestKeeps ==
  ASSUME PoolInv, copen, ServeRequest, UNCHANGED <<client, held, asked>>
  PROVE  PoolInv'
<1>1. /\ HasWords(c2s, 2) /\ c2s' = Rest(c2s, 2) /\ client # "gone"
      /\ UNCHANGED <<copen, creq, estab, oob, client, held, asked>>
  BY DEF ServeRequest, RequestLen, PoolInv, PoolTalk
<1>2. c2s # << >> /\ client \in {"alloc", "free"}
  BY <1>1, Words DEF PoolInv, PoolTalk, HasWords, PoolType, PoolPCs
<1>3. CASE client = "alloc"
  <2>1. c2s = <<KV_MSG_ALLOC, 0>> /\ s2c = << >>
    BY <1>2, <1>3 DEF PoolInv, PoolTalk
  <2>2. c2s' = << >> /\ c2s[1] = KV_MSG_ALLOC
    BY <1>1, <2>1, Words DEF KV_MSG_ALLOC
  <2>3. ServeAlloc /\ UNCHANGED <<spc, sopen, dlisten>>
    BY <2>2 DEF ServeRequest, KV_MSG_ALLOC, KV_MSG_FREE
  <2>4. Granted = {} /\ Returned = {} /\ Returned' = {}
    BY <1>1, <1>3, <2>1 DEF Granted, Returned
  <2>5. IsInjective(free_list) /\ free_list \in Seq(Slots)
        /\ ToSet(free_list) \cup held = Slots /\ ToSet(free_list) \cap held = {}
    BY <2>4 DEF PoolInv, Shared, Disjoint, PoolType
  <2>6. CASE free_list = << >>
    <3>1. free_list' = free_list /\ s2c' = <<-1>> /\ s2c' \in Seq(Int)
      BY <2>1, <2>3, <2>6, Words DEF ServeAlloc, CtrlSend
    <3>2. PoolType'
      BY <1>1, <2>2, <2>3, <3>1, Words DEF PoolInv, PoolType
    <3>3. PoolTalk'
      BY <1>1, <1>3, <2>2, <3>1 DEF PoolInv, PoolTalk
    <3>4. Granted' = {}
      BY <1>1, <3>1, Words DEF Granted
    <3>5. Shared'
      BY <1>1, <2>4, <3>1, <3>4 DEF PoolInv, Shared
    <3>6. ToSet(free_list) = {}
      BY <2>6 DEF ToSet
    <3>7. RefusedOnlyWhenFull'
      BY <1>1, <2>5, <3>6 DEF RefusedOnlyWhenFull
    <3> QED BY <3>2, <3>3, <3>5, <3>7 DEF PoolInv
  <2>7. CASE free_list # << >>
    <3>0. /\ Front(free_list) \in Seq(Slots) /\ IsInjective(Front(free_list))
          /\ Last(free_list) \in Slots
          /\ ToSet(free_list) = ToSet(Front(free_list)) \cup {Last(free_list)}
          /\ Last(free_list) \notin ToSet(Front(free_list))
      BY <2>5, <2>7, Pop
    <3>1. Last(free_list) \in Int /\ Last(free_list) # -1
      BY <3>0, SlotsAssumption DEF Slots
    <3>2. /\ free_list' = Front(free_list) /\ s2c' = <<Last(free_list)>> /\ s2c' \in Seq(Int)
          /\ s2c' # << >> /\ Head(s2c') = Last(free_list)
      BY <2>1, <2>3, <2>7, <3>1, Words DEF ServeAlloc, CtrlSend
    <3>3. PoolType'
      BY <1>1, <2>2, <2>3, <3>0, <3>2, Words DEF PoolInv, PoolType
    <3>4. PoolTalk'
      BY <1>1, <1>3, <2>2, <3>0, <3>2 DEF PoolInv, PoolTalk
    <3>5. Granted' = {Last(free_list)}
      BY <1>1, <1>3, <3>1, <3>2 DEF Granted
    <3>6. Shared'
      BY <1>1, <2>4, <2>5, <3>0, <3>2, <3>5 DEF Shared, Disjoint
    <3>7. RefusedOnlyWhenFull'
      BY <3>1, <3>2 DEF RefusedOnlyWhenFull
    <3> QED BY <3>3, <3>4, <3>6, <3>7 DEF PoolInv
  <2> QED BY <2>6, <2>7
<1>4. CASE client = "free"
  <2>1. c2s = <<KV_MSG_FREE, asked>> /\ s2c = << >> /\ asked \in Slots
    BY <1>2, <1>4 DEF PoolInv, PoolTalk, PoolType
  <2>2. asked \in Int
    BY <2>1, SlotsAssumption DEF Slots
  <2>3. c2s' = << >> /\ c2s[1] = KV_MSG_FREE /\ c2s[2] = asked
    BY <1>1, <2>1, <2>2, Words DEF KV_MSG_FREE
  <2>4. ServeFree(asked)
    BY <2>3 DEF ServeRequest, KV_MSG_ALLOC, KV_MSG_FREE
  <2>5. /\ free_list' = Append(free_list, asked) /\ s2c' = <<0>> /\ s2c' \in Seq(Int)
        /\ UNCHANGED <<spc, sopen, dlisten>> /\ s2c' # << >>
    <3>1. /\ CtrlSend(<<0>>) /\ free_list' = Append(free_list, asked)
          /\ UNCHANGED <<spc, sopen, dlisten>>
      BY <2>1, <2>4 DEF ServeFree
    <3>2. s2c' = << >> \o <<0>>
      BY <2>1, <3>1 DEF CtrlSend
    <3>3. s2c' = <<0>> /\ <<0>> \in Seq(Int) /\ <<0>> # << >>
      BY <3>2, Words
    <3> QED BY <3>1, <3>3
  <2>6. Granted = {} /\ Returned = {asked} /\ Granted' = {} /\ Returned' = {}
    BY <1>1, <1>2, <1>4, <2>1, <2>5 DEF Granted, Returned
  <2>7. /\ IsInjective(free_list) /\ free_list \in Seq(Slots) /\ asked \notin ToSet(free_list)
        /\ ToSet(free_list) \cup held \cup {asked} = Slots /\ ToSet(free_list) \cap held = {}
        /\ asked \notin held
    BY <2>6 DEF PoolInv, Shared, Disjoint, PoolType
  <2>8. /\ free_list' \in Seq(Slots) /\ IsInjective(free_list')
        /\ ToSet(free_list') = ToSet(free_list) \cup {asked}
    BY <2>1, <2>5, <2>7, Push
  <2>9. PoolType'
    BY <1>1, <2>3, <2>5, <2>8, Words DEF PoolInv, PoolType
  <2>10. PoolTalk'
    BY <1>1, <1>4, <2>3, <2>5 DEF PoolInv, PoolTalk
  <2>11. Shared'
    BY <1>1, <2>6, <2>7, <2>8 DEF Shared, Disjoint
  <2>12. RefusedOnlyWhenFull'
    BY <1>1, <1>4 DEF RefusedOnlyWhenFull
  <2> QED BY <2>9, <2>10, <2>11, <2>12 DEF PoolInv
<1> QED BY <1>2, <1>3, <1>4

(* And with one that has gone: its last request is still served.               *)
LEMMA ServeGoneKeeps ==
  ASSUME PoolInv, ~copen, Serve, UNCHANGED <<client, held, asked>>
  PROVE  PoolInv'
<1>1. client = "gone" /\ client' = "gone" /\ ~copen'
  BY DEF PoolInv, PoolTalk, Serve, ServeRequest, ServeHangup, ServeSendFails
<1>2. PoolTalk' /\ Shared' /\ RefusedOnlyWhenFull'
  BY <1>1 DEF PoolTalk, Shared, RefusedOnlyWhenFull, PoolInv, PoolType
<1>3. free_list \in Seq(Slots) /\ c2s \in Seq(Int) /\ s2c \in Seq(Int)
  BY DEF PoolInv, PoolType
<1>4. c2s' \in Seq(Int) /\ s2c' \in Seq(Int)
  <2>1. c2s' = c2s \/ (Len(c2s) >= 2 /\ c2s' = Rest(c2s, 2))
    BY DEF Serve, ServeRequest, ServeHangup, ServeSendFails, RequestLen, HasWords
  <2>2. s2c' = s2c
    BY DEF Serve, ServeRequest, ServeHangup, ServeSendFails, ServeAlloc, ServeFree, CtrlSend
  <2> QED BY <1>3, <2>1, <2>2, RestType
<1>5. free_list' \in Seq(Slots)
  <2>1. \/ free_list' = free_list
        \/ free_list # << >> /\ free_list' = Front(free_list)
        \/ \E x \in Slots : free_list' = Append(free_list, x)
    BY DEF Serve, ServeRequest, ServeHangup, ServeSendFails, ServeAlloc, ServeFree
  <2>2. free_list # << >> => Front(free_list) \in Seq(Slots)
    BY <1>3 DEF Front
  <2>3. \A x \in Slots : Append(free_list, x) \in Seq(Slots)
    BY <1>3
  <2> QED BY <1>3, <2>1, <2>2, <2>3
<1>6. /\ spc' \in ServerPCs /\ sopen' \in BOOLEAN /\ dlisten' \in BOOLEAN
      /\ UNCHANGED <<copen, creq, estab, oob>>
  BY DEF Serve, ServeRequest, ServeHangup, ServeSendFails, ServeAlloc, ServeFree, Exit,
         PoolInv, PoolType, ServerPCs
<1>7. PoolType'
  BY <1>4, <1>5, <1>6 DEF PoolInv, PoolType
<1> QED BY <1>2, <1>7 DEF PoolInv

-----------------------------------------------------------------------------
(* Every reachable state satisfies IInv.                                       *)
LEMMA PoolInvariance == PoolSpec => []PoolInv
<1>1. PoolInv /\ [PoolNext]_poolVars => PoolInv'
  <2> SUFFICES ASSUME PoolInv, [PoolNext]_poolVars PROVE PoolInv'
    OBVIOUS
  <2>1. CASE PoolClient
    BY <2>1, PoolAllocKeeps, PoolAllocReplyKeeps, PoolFreeKeeps, PoolFreeReplyKeeps DEF PoolClient
  <2>2. CASE ClientGone
    BY <2>2, ClientGoneKeeps
  <2>3. CASE Serve /\ UNCHANGED <<client, held, asked>>
    <3>1. CASE copen
      <4>1. ServeRequest
        BY <2>3, <3>1 DEF Serve, ServeHangup, ServeSendFails, ClientHungUp
      <4> QED BY <2>3, <3>1, <4>1, ServeRequestKeeps
    <3>2. CASE ~copen
      BY <2>3, <3>2, ServeGoneKeeps
    <3> QED BY <3>1, <3>2
  <2>4. CASE UNCHANGED poolVars
    <3>1. Granted' = Granted /\ Returned' = Returned
      BY <2>4 DEF poolVars, Granted, Returned
    <3> QED BY <2>4, <3>1 DEF poolVars, PoolInv, PoolType, PoolTalk, Shared, RefusedOnlyWhenFull
  <2> QED BY <2>1, <2>2, <2>3, <2>4 DEF PoolNext, PoolFinished
<1> QED BY PoolInitInv, <1>1, PTL DEF PoolSpec

(* Every variable keeps its type: the free list holds slots of the slab only.  *)
THEOREM PoolTypeCorrect == PoolSpec => []PoolTypeOK
<1>1. PoolInv => PoolTypeOK
  BY DEF PoolInv, PoolType, PoolTypeOK, ServerType
<1> QED BY PoolInvariance, <1>1, PTL

(* While the client is connected no slot is lost and none is handed out twice: *)
(* each is on the free list, with the client, or in the one message between    *)
(* them, whatever the order of kv_alloc and kv_free.                           *)
THEOREM SlotsConservedHolds == PoolSpec => []SlotsConserved
<1>1. PoolInv => SlotsConserved
  <2> SUFFICES ASSUME PoolInv, client # "gone"
               PROVE  /\ IsInjective(free_list)
                      /\ ToSet(free_list) \cup held \cup Granted \cup Returned = Slots
                      /\ Len(free_list) + Cardinality(held) + Cardinality(Granted)
                           + Cardinality(Returned) = NumSlots
    BY DEF SlotsConserved
  <2>0. copen
    BY DEF PoolInv, PoolTalk
  <2>1. /\ IsInjective(free_list) /\ free_list \in Seq(Slots)
        /\ ToSet(free_list) \cup held \cup Granted \cup Returned = Slots
        /\ ToSet(free_list) \cap held = {}
        /\ (ToSet(free_list) \cup held) \cap Granted = {}
        /\ (ToSet(free_list) \cup held \cup Granted) \cap Returned = {}
    BY <2>0 DEF PoolInv, Shared, Disjoint, PoolType, Granted, Returned
  <2>2. IsFiniteSet(ToSet(free_list)) /\ Cardinality(ToSet(free_list)) = Len(free_list)
    BY <2>1, CountList
  <2>3. IsFiniteSet(Slots) /\ Cardinality(Slots) = NumSlots
    BY SlotsAssumption, FS_Interval DEF Slots
  <2>4. IsFiniteSet(held) /\ IsFiniteSet(Granted) /\ IsFiniteSet(Returned)
    BY <2>1, <2>3, FS_Subset
  <2>5. /\ Cardinality(held) \in Nat /\ Cardinality(Granted) \in Nat
        /\ Cardinality(Returned) \in Nat /\ Len(free_list) \in Nat
    BY <2>1, <2>4, FS_CardinalityType
  <2>6. ASSUME NEW S, NEW T, IsFiniteSet(S), IsFiniteSet(T), S \cap T = {}
        PROVE  IsFiniteSet(S \cup T) /\ Cardinality(S \cup T) = Cardinality(S) + Cardinality(T)
    <3>1. Cardinality(S \cap T) = 0
      BY <2>6, FS_EmptySet
    <3>2. Cardinality(S) \in Nat /\ Cardinality(T) \in Nat
      BY <2>6, FS_CardinalityType
    <3>3. /\ IsFiniteSet(S \cup T)
          /\ Cardinality(S \cup T) = Cardinality(S) + Cardinality(T) - Cardinality(S \cap T)
      BY <2>6, FS_Union
    <3> QED BY <3>1, <3>2, <3>3
  <2>7. /\ IsFiniteSet(ToSet(free_list) \cup held)
        /\ Cardinality(ToSet(free_list) \cup held) = Len(free_list) + Cardinality(held)
    BY <2>1, <2>2, <2>4, <2>6
  <2>8. /\ IsFiniteSet(ToSet(free_list) \cup held \cup Granted)
        /\ Cardinality(ToSet(free_list) \cup held \cup Granted)
             = Len(free_list) + Cardinality(held) + Cardinality(Granted)
    BY <2>1, <2>4, <2>6, <2>7
  <2>9. Cardinality(ToSet(free_list) \cup held \cup Granted \cup Returned)
          = Len(free_list) + Cardinality(held) + Cardinality(Granted) + Cardinality(Returned)
    BY <2>1, <2>4, <2>6, <2>8
  <2> QED BY <2>1, <2>3, <2>9
<1> QED BY PoolInvariance, <1>1, PTL

(* kv_alloc is refused only when the client holds every slot of the slab.      *)
THEOREM RefusedOnlyWhenFullHolds == PoolSpec => []RefusedOnlyWhenFull
  BY PoolInvariance, PTL DEF PoolInv
=============================================================================
