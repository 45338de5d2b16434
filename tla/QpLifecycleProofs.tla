------------------------- MODULE QpLifecycleProofs -------------------------
(***************************************************************************)
(* Proofs about QpLifecycle, for every set of programs, every number of     *)
(* buffers and of set-ups, and every width of the sizes: whatever step of a *)
(* set-up fails and in whatever order a program calls, objects are          *)
(* destroyed in the order they depend on each other, none is left behind,   *)
(* and a post that passes the checks is sound.                              *)
(*                                                                         *)
(* A call in progress is the list of the steps it has still to take.  The   *)
(* invariant never says which list that is: it says what the list still     *)
(* holds and what the order of its steps is, and relates both to the        *)
(* handles and to the objects alive.                                        *)
(***************************************************************************)
EXTENDS QpLifecycle, SequenceTheorems, TLAPS

-----------------------------------------------------------------------------
(* Lists of steps *)

Holders == {"name", "source", "mr"}
Waits == {"gid", "init", "bind", "route", "established", "exchange", "rts"}
Steps ==
  {Make(k) : k \in Kinds} \cup {Drop(k) : k \in Kinds} \cup {Wait(w) : w \in Waits}
    \cup {Clear} \cup {Dereg(b) : b \in Bufs} \cup {Unref(b, h) : b \in Bufs, h \in Holders}

Has(s, x) == \E n \in 1..Len(s) : s[n] = x

\* The order the steps of a call must keep: the queue pair goes before what it
\* uses, every field before the memset, a region before its PD; a teardown is
\* over before anything is made.
Before(x, y) ==
  \/ x[1] = "drop" /\ x[2] \in QpFields /\ y[1] = "clear"
  \/ /\ x[1] = "drop" /\ y[1] = "drop" /\ x[2] \in QpFields /\ y[2] \in QpFields
     /\ x[2] \in Users(y[2])
  \/ x[1] = "clear" /\ y[1] \in {"make", "wait"}
  \/ x[1] = "drop" /\ x[2] = "mr_fd" /\ y[1] = "make" /\ y[2] = "mr_fd"
  \/ x[1] = "make" /\ x[2] = "cm_id" /\ y[1] = "make" /\ y[2] = "qp"
  \/ x[1] = "make" /\ x[2] \in {"listen_id", "ep_fd"} /\ y[1] = "drop" /\ y[2] = x[2]
  \/ x[1] = "dereg" /\ (y[1] = "clear" \/ (y[1] = "drop" /\ y[2] = "pd"))

Apart(x, y) == x # y /\ ~Before(y, x)
Ordered(s) == \A m, n \in 1..Len(s) : m < n => Apart(s[m], s[n])

\* A region is deregistered before its memory goes.
Kept(x, y) == ~(y[1] = "dereg" /\ x[1] = "unref" /\ x[2] = y[2])
DeregFirst(s) == \A m, n \in 1..Len(s) : m < n => Kept(s[m], s[n])

List(s) == s \in Seq(Steps) /\ Ordered(s)

-----------------------------------------------------------------------------
(* The inductive invariant *)

Zero == \A k \in QpFields : handle[k] = 0
SetUps == {"listen", "connect"}

Listing ==
  /\ List(todo)
  /\ prog # "python" => DeregFirst(todo)
  /\ call = "none" => todo = << >>
  /\ call # "none" => wr = NoWr
  /\ \A k \in QpFields : Has(todo, Drop(k)) => Has(todo, Clear)
  /\ \A k \in Kinds : Has(todo, Make(k)) => call \in SetUps /\ ~failed
  /\ \A w \in Waits : Has(todo, Wait(w)) => call \in SetUps \cup {"accept"} /\ ~failed
  /\ call \in {"none", "accept", "drop"} => ~Has(todo, Clear)
  /\ call \in SetUps => setups # 0
  /\ setups = 0 => \A k \in Kinds : handle[k] = 0

\* A handle that is set names an object that exists, but between the
\* destruction of the object and the memset.
Lively ==
  \A k \in Kinds : handle[k] # 0 /\ <<k, handle[k]>> \notin alive =>
    k \in QpFields /\ Has(todo, Clear) /\ ~Has(todo, Drop(k))

\* An object that exists is the one its handle names, but for a PD that could
\* not be destroyed.
Known ==
  \A k \in Kinds, e \in Setups : <<k, e>> \in alive => handle[k] = e \/ (early /\ k = "pd")
Regions == \A b \in Bufs, e \in Setups : <<b, e>> \in alive <=> reg[b] = e

\* A teardown destroys everything before it forgets it.
Cleared ==
  Has(todo, Clear) => \A k \in QpFields : handle[k] # 0 /\ <<k, handle[k]>> \in alive =>
    Has(todo, Drop(k)) \/ (early /\ k = "pd")

\* The listening id and the listening socket do not survive their call.
Locals ==
  /\ handle["listen_id"] # 0 =>
       /\ Has(todo, Drop("listen_id")) /\ call = "listen" /\ prog # "verbs"
       /\ Has(todo, Clear) => Head(todo) = Drop("listen_id")
  /\ handle["ep_fd"] # 0 => Has(todo, Drop("ep_fd")) /\ call = "listen" /\ prog = "verbs"
  /\ Has(todo, Make("listen_id")) =>
       Has(todo, Drop("listen_id")) /\ call = "listen" /\ prog # "verbs"
  /\ Has(todo, Make("ep_fd")) => Has(todo, Drop("ep_fd")) /\ call = "listen" /\ prog = "verbs"

\* Nothing is made over a handle that is set.
Fresh ==
  \A k \in Kinds : Has(todo, Make(k)) =>
    \/ handle[k] = 0
    \/ k \in QpFields /\ Has(todo, Clear)
    \/ k = "mr_fd" /\ Has(todo, Drop(k))

\* Between calls a rai_qp_t has its queue pair or is all NULL.
Whole ==
  /\ call \in SetUps /\ ~failed =>
       Has(todo, Make("qp")) \/ (handle["qp"] # 0 /\ ~Has(todo, Clear))
  /\ call \in SetUps /\ failed => Has(todo, Clear) \/ Zero
  /\ call = "close" => /\ Has(todo, Clear) \/ Zero
                       /\ Has(todo, Drop("mr_fd")) \/ handle["mr_fd"] = 0
  /\ call \in {"none", "accept", "drop"} => handle["qp"] # 0 \/ Zero

\* rai_qp_destroy looks at the mode to know which fields can be set.
ModeKept ==
  /\ mode = "verbs" => prog = "verbs"
  /\ handle["ctx"] # 0 => mode = "verbs"
  /\ handle["cm_id"] # 0 \/ handle["ec"] # 0 => prog # "verbs"
  /\ handle["qp"] # 0 => mode = "verbs" \/ handle["cm_id"] # 0
  /\ Has(todo, Make("ctx")) => mode = "verbs" /\ ~Has(todo, Clear)
  /\ Has(todo, Make("cm_id")) \/ Has(todo, Make("ec")) => prog # "verbs"
  /\ Has(todo, Make("qp")) => \/ Has(todo, Make("cm_id"))
                              \/ ~Has(todo, Clear) /\ (mode = "verbs" \/ handle["cm_id"] # 0)
  /\ early => prog = "python"

\* A region has its PD and its memory, except in Python.
Owner == IF prog = "scoped" THEN "name" ELSE "mr"
Owned ==
  \A b \in Bufs : reg[b] # 0 =>
    /\ prog # "python" =>
         /\ reg[b] = handle["pd"] /\ <<b, Owner>> \in refs
         /\ stage # "new"
         /\ \A h \in Holders : Has(todo, Unref(b, h)) => Has(todo, Dereg(b))
    /\ call \in SetUps => early
    /\ Has(todo, Clear) => early \/ Has(todo, Dereg(b))
    /\ call = "close" /\ stage = "out" => Has(todo, Dereg(b))

Staged ==
  /\ prog # "python" /\ call \in SetUps => stage = "new"
  /\ prog # "python" /\ call = "close" => stage = "out"
  /\ prog # "python" /\ call = "accept" => stage = "listening"
  /\ stage = "exit" => /\ Zero /\ handle["mr_fd"] = 0 /\ \A b \in Bufs : reg[b] = 0
                       /\ call \in {"none", "drop"}

\* InRange, of a length and an offset.
Sayable(len, offset) == len < Word /\ offset + len < SizeT

Posted ==
  wr # NoWr => \E b \in Bufs : \E mrSize, size, len, offset \in Nat :
    /\ wr = [buf |-> b, pd |-> reg[b], mrSize |-> mrSize, size |-> size,
             len |-> len, offset |-> offset]
    /\ reg[b] # 0 /\ handle["qp"] # 0
    /\ prog # "python" => Sayable(len, offset)
    /\ Sayable(len, offset) => size = len /\ offset + size <= mrSize

Control == Listing /\ Locals /\ Fresh /\ Whole /\ ModeKept /\ Staged
Objects == Lively /\ Known /\ Regions /\ Cleared /\ Owned
IInv == TypeOK /\ Control /\ Objects /\ Posted /\ OrderlyTeardown

-----------------------------------------------------------------------------
(* Steps and lists *)

(* Two steps are equal when they are the same step of the same thing.        *)
LEMMA Distinct ==
  /\ \A k, l : (Make(k) = Make(l) <=> k = l) /\ (Drop(k) = Drop(l) <=> k = l)
               /\ (Dereg(k) = Dereg(l) <=> k = l) /\ Make(k) # Drop(l)
               /\ Make(k) # Dereg(l) /\ Drop(k) # Dereg(l)
               /\ Make(k) # Wait(l) /\ Drop(k) # Wait(l) /\ Dereg(k) # Wait(l)
  /\ \A k : Make(k) # Clear /\ Drop(k) # Clear /\ Dereg(k) # Clear /\ Wait(k) # Clear
  /\ \A k, b, h : Make(k) # Unref(b, h) /\ Drop(k) # Unref(b, h) /\ Dereg(k) # Unref(b, h)
                  /\ Wait(k) # Unref(b, h) /\ Clear # Unref(b, h)
<1>1. ASSUME NEW k, NEW l
      PROVE  /\ (Make(k) = Make(l) <=> k = l) /\ (Drop(k) = Drop(l) <=> k = l)
             /\ (Dereg(k) = Dereg(l) <=> k = l) /\ Make(k) # Drop(l)
             /\ Make(k) # Dereg(l) /\ Drop(k) # Dereg(l)
             /\ Make(k) # Wait(l) /\ Drop(k) # Wait(l) /\ Dereg(k) # Wait(l)
  BY DEF Make, Drop, Dereg, Wait
<1>2. ASSUME NEW k
      PROVE  Make(k) # Clear /\ Drop(k) # Clear /\ Dereg(k) # Clear /\ Wait(k) # Clear
  BY DEF Make, Drop, Dereg, Wait, Clear
<1>3. ASSUME NEW k, NEW b, NEW h
      PROVE  /\ Make(k) # Unref(b, h) /\ Drop(k) # Unref(b, h) /\ Dereg(k) # Unref(b, h)
             /\ Wait(k) # Unref(b, h) /\ Clear # Unref(b, h)
  <2>1. Unref(b, h)[1] = "unref"
    BY DEF Unref
  <2>2. Make(k)[1] = "make" /\ Drop(k)[1] = "drop" /\ Dereg(k)[1] = "dereg"
        /\ Wait(k)[1] = "wait" /\ Clear[1] = "clear"
    BY DEF Make, Drop, Dereg, Wait, Clear
  <2> QED BY <2>1, <2>2
<1> QED BY <1>1, <1>2, <1>3

(* The parts of a step.                                                      *)
LEMMA Parts ==
  /\ \A k : Make(k)[1] = "make" /\ Make(k)[2] = k /\ Drop(k)[1] = "drop" /\ Drop(k)[2] = k
            /\ Wait(k)[1] = "wait" /\ Dereg(k)[1] = "dereg" /\ Dereg(k)[2] = k
  /\ Clear[1] = "clear"
  /\ \A b, h : Unref(b, h)[1] = "unref" /\ Unref(b, h)[2] = b /\ Unref(b, h)[3] = h
  BY DEF Make, Drop, Wait, Dereg, Clear, Unref

(* A step of each name is made by the operator of that name.                 *)
LEMMA Names ==
  ASSUME NEW x \in Steps
  PROVE  /\ x[1] = "make" => x[2] \in Kinds /\ x = Make(x[2])
         /\ x[1] = "drop" => x[2] \in Kinds /\ x = Drop(x[2])
         /\ x[1] = "wait" => \E w \in Waits : x = Wait(w)
         /\ x[1] = "clear" => x = Clear
         /\ x[1] = "dereg" => x[2] \in Bufs /\ x = Dereg(x[2])
         /\ x[1] = "unref" => x[2] \in Bufs /\ x[3] \in Holders /\ x = Unref(x[2], x[3])
         /\ x[1] \in {"make", "drop", "wait", "clear", "dereg", "unref"}
  BY Parts DEF Steps

(* Taking the first step of a list leaves the others, and none of them had   *)
(* to come before it.                                                        *)
LEMMA Taken ==
  ASSUME NEW s, List(s), s # << >>
  PROVE  /\ List(Tail(s)) /\ Head(s) \in Steps /\ Has(s, Head(s))
         /\ \A x : Has(Tail(s), x) <=> Has(s, x) /\ x # Head(s)
         /\ \A x : Has(s, x) => ~Before(x, Head(s)) \/ x = Head(s)
         /\ DeregFirst(s) => /\ DeregFirst(Tail(s))
                             /\ \A x : Has(s, x) => Kept(Head(s), x) \/ x = Head(s)
<1> DEFINE t == Tail(s)
<1>1. /\ s \in Seq(Steps) /\ Len(s) \in Nat /\ Len(s) >= 1 /\ Head(s) = s[1] /\ s[1] \in Steps
      /\ t \in Seq(Steps) /\ Len(t) = Len(s) - 1 /\ \A n \in 1..Len(t) : t[n] = s[n + 1]
  BY DEF List
<1>2. \A n \in 2..Len(s) : n - 1 \in 1..Len(t) /\ t[n - 1] = s[n]
  BY <1>1
<1>3. \A n \in 2..Len(s) : Apart(s[1], s[n])
  BY <1>1 DEF List, Ordered
<1>4. \A x : Has(t, x) <=> \E n \in 2..Len(s) : s[n] = x
  <2>1. ASSUME NEW x, NEW n \in 1..Len(t), t[n] = x PROVE \E j \in 2..Len(s) : s[j] = x
    <3>1. n + 1 \in 2..Len(s) /\ s[n + 1] = x
      BY <1>1, <2>1
    <3> QED BY <3>1
  <2>2. ASSUME NEW x, NEW n \in 2..Len(s), s[n] = x PROVE \E j \in 1..Len(t) : t[j] = x
    BY <1>2, <2>2
  <2> QED BY <2>1, <2>2 DEF Has
<1>5. \A x : Has(s, x) <=> x = s[1] \/ Has(t, x)
  <2>1. 1..Len(s) = {1} \cup 2..Len(s)
    BY <1>1
  <2> QED BY <1>4, <2>1 DEF Has
<1>6. Ordered(t)
  <2> SUFFICES ASSUME NEW m \in 1..Len(t), NEW n \in 1..Len(t), m < n
               PROVE  Apart(t[m], t[n])
    BY DEF Ordered
  <2>1. m + 1 \in 1..Len(s) /\ n + 1 \in 1..Len(s) /\ m + 1 < n + 1
    BY <1>1
  <2> QED BY <1>1, <2>1 DEF List, Ordered
<1>7. \A x : Has(t, x) => x # s[1] /\ ~Before(x, s[1])
  BY <1>3, <1>4 DEF Apart
<1>8. ASSUME DeregFirst(s)
      PROVE  DeregFirst(t) /\ \A x : Has(t, x) => Kept(s[1], x)
  <2>1. ASSUME NEW m \in 1..Len(t), NEW n \in 1..Len(t), m < n
        PROVE  Kept(t[m], t[n])
    <3>1. m + 1 \in 1..Len(s) /\ n + 1 \in 1..Len(s) /\ m + 1 < n + 1
      BY <1>1, <2>1
    <3> QED BY <1>1, <1>8, <3>1 DEF DeregFirst
  <2>2. \A n \in 2..Len(s) : Kept(s[1], s[n])
    BY <1>1, <1>8 DEF DeregFirst
  <2> QED BY <1>4, <2>1, <2>2 DEF DeregFirst
<1> HIDE DEF t
<1>9. List(t)
  BY <1>1, <1>6 DEF List
<1> QED BY <1>1, <1>5, <1>7, <1>8, <1>9 DEF t

(* A list followed by a list.                                                *)
LEMMA Joined ==
  ASSUME NEW s, NEW t, List(s), List(t),
         \A x, y : Has(s, x) /\ Has(t, y) => Apart(x, y)
  PROVE  /\ List(s \o t)
         /\ \A x : Has(s \o t, x) <=> Has(s, x) \/ Has(t, x)
<1> DEFINE u == s \o t
<1>1. /\ s \in Seq(Steps) /\ t \in Seq(Steps) /\ u \in Seq(Steps)
      /\ Len(s) \in Nat /\ Len(t) \in Nat /\ Len(u) = Len(s) + Len(t)
      /\ \A n \in 1..Len(s) : u[n] = s[n]
      /\ \A n \in 1..Len(t) : u[Len(s) + n] = t[n]
  BY DEF List
<1> HIDE DEF u
<1>2. \A n \in 1..Len(u) : n \in 1..Len(s) \/ n - Len(s) \in 1..Len(t)
  BY <1>1
<1>3. ASSUME NEW n \in 1..Len(u), n \notin 1..Len(s)
      PROVE  n - Len(s) \in 1..Len(t) /\ u[n] = t[n - Len(s)]
  <2>1. n - Len(s) \in 1..Len(t) /\ Len(s) + (n - Len(s)) = n
    BY <1>1, <1>3
  <2> QED BY <1>1, <2>1
<1>4. ASSUME NEW x PROVE Has(u, x) <=> Has(s, x) \/ Has(t, x)
  <2>1. ASSUME Has(s, x) PROVE Has(u, x)
    <3>1. \A n \in 1..Len(s) : n \in 1..Len(u)
      BY <1>1
    <3> QED BY <1>1, <2>1, <3>1 DEF Has
  <2>2. ASSUME Has(t, x) PROVE Has(u, x)
    <3>1. \A n \in 1..Len(t) : Len(s) + n \in 1..Len(u)
      BY <1>1
    <3> QED BY <1>1, <2>2, <3>1 DEF Has
  <2>3. ASSUME Has(u, x) PROVE Has(s, x) \/ Has(t, x)
    <3>1. PICK n \in 1..Len(u) : u[n] = x
      BY <2>3 DEF Has
    <3>2. CASE n \in 1..Len(s)
      BY <1>1, <3>1, <3>2 DEF Has
    <3>3. CASE n \notin 1..Len(s)
      BY <1>3, <3>1, <3>3 DEF Has
    <3> QED BY <3>2, <3>3
  <2> QED BY <2>1, <2>2, <2>3
<1>5. Ordered(u)
  <2> SUFFICES ASSUME NEW m \in 1..Len(u), NEW n \in 1..Len(u), m < n
               PROVE  Apart(u[m], u[n])
    BY DEF Ordered
  <2>1. CASE n \in 1..Len(s)
    <3>1. m \in 1..Len(s)
      BY <1>1, <2>1
    <3> QED BY <1>1, <2>1, <3>1 DEF List, Ordered
  <2>2. CASE m \notin 1..Len(s)
    <3>1. n \notin 1..Len(s)
      BY <1>1, <2>2
    <3>2. /\ m - Len(s) \in 1..Len(t) /\ u[m] = t[m - Len(s)]
          /\ n - Len(s) \in 1..Len(t) /\ u[n] = t[n - Len(s)]
      BY <1>3, <2>2, <3>1
    <3>3. m - Len(s) < n - Len(s)
      BY <1>1
    <3> QED BY <3>2, <3>3 DEF List, Ordered
  <2>3. CASE m \in 1..Len(s) /\ n \notin 1..Len(s)
    <3>1. Has(s, u[m])
      BY <1>1, <2>3 DEF Has
    <3>2. Has(t, u[n])
      BY <1>3, <2>3 DEF Has
    <3> QED BY <3>1, <3>2
  <2> QED BY <2>1, <2>2, <2>3
<1> QED BY <1>1, <1>4, <1>5 DEF u, List

(* And so it is with the order of deregistrations.                           *)
LEMMA JoinedFirst ==
  ASSUME NEW s, NEW t, List(s), List(t), DeregFirst(s), DeregFirst(t),
         \A x, y : Has(s, x) /\ Has(t, y) => Kept(x, y)
  PROVE  DeregFirst(s \o t)
<1> DEFINE u == s \o t
<1>1. /\ s \in Seq(Steps) /\ t \in Seq(Steps) /\ u \in Seq(Steps)
      /\ Len(s) \in Nat /\ Len(t) \in Nat /\ Len(u) = Len(s) + Len(t)
      /\ \A n \in 1..Len(s) : u[n] = s[n]
      /\ \A n \in 1..Len(t) : u[Len(s) + n] = t[n]
  BY DEF List
<1> HIDE DEF u
<1>2. ASSUME NEW n \in 1..Len(u), n \notin 1..Len(s)
      PROVE  n - Len(s) \in 1..Len(t) /\ u[n] = t[n - Len(s)]
  <2>1. n - Len(s) \in 1..Len(t) /\ Len(s) + (n - Len(s)) = n
    BY <1>1, <1>2
  <2> QED BY <1>1, <2>1
<1>3. ASSUME NEW m \in 1..Len(u), NEW n \in 1..Len(u), m < n
      PROVE  Kept(u[m], u[n])
  <2>1. CASE n \in 1..Len(s)
    <3>1. m \in 1..Len(s)
      BY <1>1, <1>3, <2>1
    <3> QED BY <1>1, <1>3, <2>1, <3>1 DEF DeregFirst
  <2>2. CASE m \notin 1..Len(s)
    <3>1. n \notin 1..Len(s)
      BY <1>1, <1>3, <2>2
    <3>2. /\ m - Len(s) \in 1..Len(t) /\ u[m] = t[m - Len(s)]
          /\ n - Len(s) \in 1..Len(t) /\ u[n] = t[n - Len(s)]
      BY <1>2, <2>2, <3>1
    <3>3. m - Len(s) < n - Len(s)
      BY <1>1, <1>3
    <3> QED BY <3>2, <3>3 DEF DeregFirst
  <2>3. CASE m \in 1..Len(s) /\ n \notin 1..Len(s)
    <3>1. Has(s, u[m])
      BY <1>1, <2>3 DEF Has
    <3>2. Has(t, u[n])
      BY <1>2, <2>3 DEF Has
    <3> QED BY <3>1, <3>2
  <2> QED BY <2>1, <2>2, <2>3
<1> QED BY <1>3 DEF u, DeregFirst

(* The empty list.                                                           *)
LEMMA Nothing == List(<< >>) /\ DeregFirst(<< >>) /\ \A x : ~Has(<< >>, x)
  BY DEF List, Ordered, DeregFirst, Has

(* Lists of a few steps.                                                     *)
LEMMA One ==
  ASSUME NEW a \in Steps
  PROVE  List(<<a>>) /\ DeregFirst(<<a>>) /\ \A x : Has(<<a>>, x) <=> x = a
  BY DEF List, Ordered, DeregFirst, Has

(* Two.                                                                      *)
LEMMA Two ==
  ASSUME NEW a \in Steps, NEW b \in Steps, Apart(a, b)
  PROVE  List(<<a, b>>) /\ \A x : Has(<<a, b>>, x) <=> x \in {a, b}
  BY DEF List, Ordered, Has

(* Three.                                                                    *)
LEMMA Three ==
  ASSUME NEW a \in Steps, NEW b \in Steps, NEW c \in Steps,
         Apart(a, b), Apart(a, c), Apart(b, c)
  PROVE  List(<<a, b, c>>) /\ \A x : Has(<<a, b, c>>, x) <=> x \in {a, b, c}
  BY DEF List, Ordered, Has

(* Four.                                                                     *)
LEMMA Four ==
  ASSUME NEW a \in Steps, NEW b \in Steps, NEW c \in Steps, NEW d \in Steps,
         Apart(a, b), Apart(a, c), Apart(a, d), Apart(b, c), Apart(b, d), Apart(c, d)
  PROVE  List(<<a, b, c, d>>) /\ \A x : Has(<<a, b, c, d>>, x) <=> x \in {a, b, c, d}
  BY DEF List, Ordered, Has

(* Five.                                                                     *)
LEMMA Five ==
  ASSUME NEW a \in Steps, NEW b \in Steps, NEW c \in Steps, NEW d \in Steps, NEW e \in Steps,
         Apart(a, b), Apart(a, c), Apart(a, d), Apart(a, e), Apart(b, c), Apart(b, d),
         Apart(b, e), Apart(c, d), Apart(c, e), Apart(d, e)
  PROVE  List(<<a, b, c, d, e>>) /\ \A x : Has(<<a, b, c, d, e>>, x) <=> x \in {a, b, c, d, e}
  BY DEF List, Ordered, Has

(* Six.                                                                      *)
LEMMA Six ==
  ASSUME NEW a \in Steps, NEW b \in Steps, NEW c \in Steps, NEW d \in Steps, NEW e \in Steps,
         NEW f \in Steps,
         Apart(a, b), Apart(a, c), Apart(a, d), Apart(a, e), Apart(a, f), Apart(b, c),
         Apart(b, d), Apart(b, e), Apart(b, f), Apart(c, d), Apart(c, e), Apart(c, f),
         Apart(d, e), Apart(d, f), Apart(e, f)
  PROVE  /\ List(<<a, b, c, d, e, f>>)
         /\ \A x : Has(<<a, b, c, d, e, f>>, x) <=> x \in {a, b, c, d, e, f}
  BY DEF List, Ordered, Has

(* The pairs of steps that may stand in this order.                          *)
LEMMA Aparts ==
  /\ \A k, l \in Kinds :
       /\ k # l /\ l \notin Users(k) => Apart(Drop(k), Drop(l))
       /\ k # l /\ ~(l = "cm_id" /\ k = "qp") => Apart(Make(k), Make(l))
       /\ (k = l => k \notin {"listen_id", "ep_fd"}) => Apart(Drop(k), Make(l))
       /\ l # "mr_fd" => Apart(Make(k), Drop(l))
  /\ \A k \in Kinds : Apart(Drop(k), Clear) /\ Apart(Clear, Make(k))
                      /\ (k \notin QpFields => Apart(Clear, Drop(k)))
  /\ \A k \in Kinds : \A w : Apart(Make(k), Wait(w)) /\ Apart(Wait(w), Make(k))
                              /\ Apart(Drop(k), Wait(w)) /\ Apart(Wait(w), Drop(k))
  /\ \A w, v : w # v => Apart(Wait(w), Wait(v))
  /\ \A w : Apart(Clear, Wait(w))
<1>1. ASSUME NEW k \in Kinds, NEW l \in Kinds
      PROVE  /\ k # l /\ l \notin Users(k) => Apart(Drop(k), Drop(l))
             /\ k # l /\ ~(l = "cm_id" /\ k = "qp") => Apart(Make(k), Make(l))
             /\ (k = l => k \notin {"listen_id", "ep_fd"}) => Apart(Drop(k), Make(l))
             /\ l # "mr_fd" => Apart(Make(k), Drop(l))
  BY Parts DEF Apart, Before
<1>2. ASSUME NEW k \in Kinds
      PROVE  Apart(Drop(k), Clear) /\ Apart(Clear, Make(k))
             /\ (k \notin QpFields => Apart(Clear, Drop(k)))
  BY Parts DEF Apart, Before
<1>3. ASSUME NEW k \in Kinds, NEW w
      PROVE  Apart(Make(k), Wait(w)) /\ Apart(Wait(w), Make(k))
             /\ Apart(Drop(k), Wait(w)) /\ Apart(Wait(w), Drop(k))
  BY Parts DEF Apart, Before
<1>4. ASSUME NEW w, NEW v, w # v PROVE Apart(Wait(w), Wait(v))
  <2>1. Wait(w) # Wait(v)
    BY <1>4 DEF Wait
  <2> QED BY <2>1, Parts DEF Apart, Before
<1>5. ASSUME NEW w PROVE Apart(Clear, Wait(w))
  BY Parts DEF Apart, Before
<1> QED BY <1>1, <1>2, <1>3, <1>4, <1>5

(* And those with a region.                                                  *)
LEMMA RegionAparts ==
  \A b \in Bufs, h \in Holders, k \in Kinds :
    /\ Apart(Dereg(b), Unref(b, h)) /\ Apart(Unref(b, h), Dereg(b))
    /\ Apart(Dereg(b), Drop(k)) /\ Apart(Dereg(b), Clear)
    /\ Apart(Unref(b, h), Drop(k)) /\ Apart(Unref(b, h), Clear)
    /\ k # "pd" => Apart(Drop(k), Dereg(b))
    /\ Apart(Drop(k), Unref(b, h))
<1> SUFFICES ASSUME NEW b \in Bufs, NEW h \in Holders, NEW k \in Kinds
             PROVE  /\ Apart(Dereg(b), Unref(b, h)) /\ Apart(Unref(b, h), Dereg(b))
                    /\ Apart(Dereg(b), Drop(k)) /\ Apart(Dereg(b), Clear)
                    /\ Apart(Unref(b, h), Drop(k)) /\ Apart(Unref(b, h), Clear)
                    /\ k # "pd" => Apart(Drop(k), Dereg(b))
                    /\ Apart(Drop(k), Unref(b, h))
  OBVIOUS
<1>1. /\ Unref(b, h)[1] = "unref" /\ Dereg(b)[1] = "dereg" /\ Drop(k)[1] = "drop"
      /\ Drop(k)[2] = k /\ Clear[1] = "clear"
  BY Parts
<1>2. /\ Dereg(b) # Unref(b, h) /\ Dereg(b) # Drop(k) /\ Dereg(b) # Clear
      /\ Unref(b, h) # Drop(k) /\ Unref(b, h) # Clear
  BY <1>1
<1> QED BY <1>1, <1>2 DEF Apart, Before

(* The steps of the lists are steps.                                         *)
LEMMA StepsIn ==
  /\ \A k \in Kinds : Make(k) \in Steps /\ Drop(k) \in Steps
  /\ \A w \in Waits : Wait(w) \in Steps
  /\ Clear \in Steps
  /\ \A b \in Bufs : Dereg(b) \in Steps /\ \A h \in Holders : Unref(b, h) \in Steps
  BY DEF Steps

(* A list that frees no memory.                                              *)
LEMMA NoUnref ==
  ASSUME NEW s, List(s), \A x : Has(s, x) => x[1] # "unref"
  PROVE  DeregFirst(s)
  BY DEF DeregFirst, Kept, Has

-----------------------------------------------------------------------------
(* The lists of the calls *)

DownFields == IF mode = "verbs" THEN {"qp", "cq", "pd", "ctx"}
                                ELSE {"qp", "cq", "pd", "cm_id", "ec"}

(* rai_qp_destroy keeps the order in both modes.                              *)
LEMMA Down ==
  /\ List(rai_qp_destroy) /\ DeregFirst(rai_qp_destroy)
  /\ \A x : Has(rai_qp_destroy, x) <=> x = Clear \/ \E k \in DownFields : x = Drop(k)
<1> DEFINE C == <<Clear>>
<1>1. List(C) /\ \A x : Has(C, x) <=> x = Clear
  BY One, StepsIn
<1>2. CASE mode = "verbs"
  <2> DEFINE D == qp_destroy_verbs
  <2>1. List(D) /\ \A x : Has(D, x) <=> x \in {Drop("qp"), Drop("cq"), Drop("pd"), Drop("ctx")}
    <3>1. /\ Drop("qp") \in Steps /\ Drop("cq") \in Steps /\ Drop("pd") \in Steps
          /\ Drop("ctx") \in Steps
      BY StepsIn DEF Kinds, QpFields
    <3>2. /\ Apart(Drop("qp"), Drop("cq")) /\ Apart(Drop("qp"), Drop("pd"))
          /\ Apart(Drop("qp"), Drop("ctx")) /\ Apart(Drop("cq"), Drop("pd"))
          /\ Apart(Drop("cq"), Drop("ctx")) /\ Apart(Drop("pd"), Drop("ctx"))
      BY Aparts, NamesAssumption DEF Kinds, QpFields, Users
    <3> QED BY <3>1, <3>2, Four DEF qp_destroy_verbs
  <2> HIDE DEF D, C
  <2>2. \A x, y : Has(D, x) /\ Has(C, y) => Apart(x, y)
    BY <1>1, <2>1, Aparts DEF Kinds, QpFields
  <2>3. List(D \o C) /\ \A x : Has(D \o C, x) <=> Has(D, x) \/ Has(C, x)
    BY <1>1, <2>1, <2>2, Joined
  <2>4. rai_qp_destroy = D \o C
    BY <1>2 DEF rai_qp_destroy, D, C
  <2>5. \A x : Has(D \o C, x) <=> x = Clear \/ \E k \in DownFields : x = Drop(k)
    BY <1>1, <1>2, <2>1, <2>3 DEF DownFields
  <2>6. DeregFirst(D \o C)
    BY <2>3, <2>5, NoUnref, Parts
  <2> QED BY <2>3, <2>4, <2>5, <2>6
<1>3. CASE mode # "verbs"
  <2> DEFINE D == qp_destroy_cm
  <2>1. /\ List(D)
        /\ \A x : Has(D, x) <=> x \in {Drop("qp"), Drop("cq"), Drop("pd"), Drop("cm_id"),
                                       Drop("ec")}
    <3>1. /\ Drop("qp") \in Steps /\ Drop("cq") \in Steps /\ Drop("pd") \in Steps
          /\ Drop("cm_id") \in Steps /\ Drop("ec") \in Steps
      BY StepsIn DEF Kinds, QpFields
    <3>2. /\ Apart(Drop("qp"), Drop("cq")) /\ Apart(Drop("qp"), Drop("pd"))
          /\ Apart(Drop("qp"), Drop("cm_id")) /\ Apart(Drop("qp"), Drop("ec"))
          /\ Apart(Drop("cq"), Drop("pd")) /\ Apart(Drop("cq"), Drop("cm_id"))
          /\ Apart(Drop("cq"), Drop("ec"))
      BY Aparts, NamesAssumption DEF Kinds, QpFields, Users
    <3>3. /\ Apart(Drop("pd"), Drop("cm_id")) /\ Apart(Drop("pd"), Drop("ec"))
          /\ Apart(Drop("cm_id"), Drop("ec"))
      BY Aparts, NamesAssumption DEF Kinds, QpFields, Users
    <3> QED BY <3>1, <3>2, <3>3, Five DEF qp_destroy_cm
  <2> HIDE DEF D, C
  <2>2. \A x, y : Has(D, x) /\ Has(C, y) => Apart(x, y)
    BY <1>1, <2>1, Aparts DEF Kinds, QpFields
  <2>3. List(D \o C) /\ \A x : Has(D \o C, x) <=> Has(D, x) \/ Has(C, x)
    BY <1>1, <2>1, <2>2, Joined
  <2>4. rai_qp_destroy = D \o C
    BY <1>3 DEF rai_qp_destroy, D, C
  <2>5. \A x : Has(D \o C, x) <=> x = Clear \/ \E k \in DownFields : x = Drop(k)
    BY <1>1, <1>3, <2>1, <2>3 DEF DownFields
  <2>6. DeregFirst(D \o C)
    BY <2>3, <2>5, NoUnref, Parts
  <2> QED BY <2>3, <2>4, <2>5, <2>6
<1> QED BY <1>2, <1>3

(* A list between descriptors and a teardown, as close and the error paths.   *)
LEMMA DropThenDown ==
  ASSUME NEW l \in Kinds \ QpFields, NEW t, t = <<Drop(l)>> \o rai_qp_destroy
  PROVE  /\ List(t) /\ DeregFirst(t) /\ Head(t) = Drop(l)
         /\ \A x : Has(t, x) <=> x \in {Drop(l), Clear} \/ \E k \in DownFields : x = Drop(k)
<1> DEFINE D == rai_qp_destroy
           C == <<Drop(l)>>
<1>1. List(C) /\ \A x : Has(C, x) <=> x = Drop(l)
  BY One, StepsIn
<1>2. List(D) /\ \A x : Has(D, x) <=> x = Clear \/ \E k \in DownFields : x = Drop(k)
  BY Down
<1>3. Head(t) = Drop(l)
  BY <1>2 DEF List
<1> HIDE DEF D, C
<1>4. \A x, y : Has(C, x) /\ Has(D, y) => Apart(x, y)
  <2>1. \A k \in DownFields : Apart(Drop(l), Drop(k))
    BY Aparts, NamesAssumption DEF DownFields, Kinds, QpFields, Users
  <2>2. Apart(Drop(l), Clear)
    BY Aparts
  <2> QED BY <1>1, <1>2, <2>1, <2>2
<1>5. List(t) /\ \A x : Has(t, x) <=> Has(C, x) \/ Has(D, x)
  BY <1>1, <1>2, <1>4, Joined DEF C, D
<1>6. \A x : Has(t, x) <=> x \in {Drop(l), Clear} \/ \E k \in DownFields : x = Drop(k)
  BY <1>1, <1>2, <1>5
<1>7. DeregFirst(t)
  BY <1>5, <1>6, NoUnref, Parts
<1> QED BY <1>3, <1>5, <1>6, <1>7

(* RdmaTransport::close, and the first part of a new set-up.                  *)
LEMMA DownThenDrop ==
  LET t == rai_qp_destroy \o <<Drop("mr_fd")>>
  IN  /\ List(t) /\ DeregFirst(t)
      /\ \A x : Has(t, x) <=> x \in {Drop("mr_fd"), Clear} \/ \E k \in DownFields : x = Drop(k)
<1> DEFINE D == rai_qp_destroy
           C == <<Drop("mr_fd")>>
<1>1. List(C) /\ \A x : Has(C, x) <=> x = Drop("mr_fd")
  BY One, StepsIn DEF Kinds
<1>2. List(D) /\ \A x : Has(D, x) <=> x = Clear \/ \E k \in DownFields : x = Drop(k)
  BY Down
<1> HIDE DEF D, C
<1>3. \A x, y : Has(D, x) /\ Has(C, y) => Apart(x, y)
  <2>1. \A k \in DownFields : Apart(Drop(k), Drop("mr_fd"))
    BY Aparts, NamesAssumption DEF DownFields, Kinds, QpFields, Users
  <2>2. Apart(Clear, Drop("mr_fd"))
    BY Aparts DEF Kinds, QpFields
  <2> QED BY <1>1, <1>2, <2>1, <2>2
<1>4. List(D \o C) /\ \A x : Has(D \o C, x) <=> Has(D, x) \/ Has(C, x)
  BY <1>1, <1>2, <1>3, Joined
<1>5. \A x : Has(D \o C, x) <=> x \in {Drop("mr_fd"), Clear} \/ \E k \in DownFields : x = Drop(k)
  BY <1>1, <1>2, <1>4
<1>6. DeregFirst(D \o C)
  BY <1>4, <1>5, NoUnref, Parts
<1> QED BY <1>4, <1>5, <1>6 DEF D, C

(* The error path of rai_verbs_listen_qp.                                     *)
LEMMA SocketsThenDown ==
  LET t == <<Drop("ep_fd"), Drop("mr_fd")>> \o rai_qp_destroy
  IN  /\ List(t) /\ DeregFirst(t)
      /\ \A x : Has(t, x) <=> \/ x \in {Drop("ep_fd"), Drop("mr_fd"), Clear}
                              \/ \E k \in DownFields : x = Drop(k)
<1> DEFINE D == rai_qp_destroy
           C == <<Drop("ep_fd"), Drop("mr_fd")>>
<1>1. List(C) /\ \A x : Has(C, x) <=> x \in {Drop("ep_fd"), Drop("mr_fd")}
  <2>1. Drop("ep_fd") \in Steps /\ Drop("mr_fd") \in Steps
    BY StepsIn DEF Kinds
  <2>2. Apart(Drop("ep_fd"), Drop("mr_fd"))
    BY Aparts DEF Kinds, Users
  <2> QED BY <2>1, <2>2, Two
<1>2. List(D) /\ \A x : Has(D, x) <=> x = Clear \/ \E k \in DownFields : x = Drop(k)
  BY Down
<1> HIDE DEF D, C
<1>3. \A x, y : Has(C, x) /\ Has(D, y) => Apart(x, y)
  <2>1. \A k \in DownFields : Apart(Drop("mr_fd"), Drop(k)) /\ Apart(Drop("ep_fd"), Drop(k))
    BY Aparts, NamesAssumption DEF DownFields, Kinds, QpFields, Users
  <2>2. Apart(Drop("mr_fd"), Clear) /\ Apart(Drop("ep_fd"), Clear)
    BY Aparts DEF Kinds
  <2> QED BY <1>1, <1>2, <2>1, <2>2
<1>4. List(C \o D) /\ \A x : Has(C \o D, x) <=> Has(C, x) \/ Has(D, x)
  BY <1>1, <1>2, <1>3, Joined
<1>5. \A x : Has(C \o D, x) <=> \/ x \in {Drop("ep_fd"), Drop("mr_fd"), Clear}
                                \/ \E k \in DownFields : x = Drop(k)
  BY <1>1, <1>2, <1>4
<1>6. DeregFirst(C \o D)
  BY <1>4, <1>5, NoUnref, Parts
<1> QED BY <1>4, <1>5, <1>6 DEF D, C

(* Deregistering a buffer and freeing its memory.                             *)
LEMMA Freeing ==
  ASSUME NEW b \in Bufs, NEW h \in Holders
  PROVE  /\ List(DeregAndFree(b, h)) /\ DeregFirst(DeregAndFree(b, h))
         /\ \A x : Has(DeregAndFree(b, h), x) <=> x \in {Dereg(b), Unref(b, h)}
<1>1. Dereg(b) \in Steps /\ Unref(b, h) \in Steps /\ Apart(Dereg(b), Unref(b, h))
  BY StepsIn, RegionAparts DEF Kinds, QpFields
<1> DEFINE s == <<Dereg(b), Unref(b, h)>>
<1>2. List(s) /\ \A x : Has(s, x) <=> x \in {Dereg(b), Unref(b, h)}
  BY <1>1, Two
<1>3. DeregFirst(s)
  <2>1. Len(s) = 2 /\ s[1] = Dereg(b) /\ s[2] = Unref(b, h)
    OBVIOUS
  <2>2. Kept(Dereg(b), Unref(b, h))
    BY Parts DEF Kept
  <2> QED BY <2>1, <2>2 DEF DeregFirst
<1> QED BY <1>2, <1>3 DEF DeregAndFree

(* The exit path of a benchmark.                                              *)
LEMMA BenchList ==
  ASSUME NEW b \in Bufs
  PROVE  LET t == <<Drop("mr_fd")>> \o DeregAndFree(b, "mr") \o rai_qp_destroy
         IN  /\ List(t) /\ DeregFirst(t)
             /\ \A x : Has(t, x) <=> \/ x \in {Drop("mr_fd"), Dereg(b), Unref(b, "mr"), Clear}
                                     \/ \E k \in DownFields : x = Drop(k)
<1> DEFINE D == rai_qp_destroy
           F == DeregAndFree(b, "mr")
           C == <<Drop("mr_fd")>>
<1>1. List(C) /\ DeregFirst(C) /\ \A x : Has(C, x) <=> x = Drop("mr_fd")
  BY One, StepsIn DEF Kinds
<1>2. /\ List(D) /\ DeregFirst(D)
      /\ \A x : Has(D, x) <=> x = Clear \/ \E k \in DownFields : x = Drop(k)
  BY Down
<1>3. /\ List(F) /\ DeregFirst(F) /\ \A x : Has(F, x) <=> x \in {Dereg(b), Unref(b, "mr")}
  BY Freeing DEF Holders
<1> HIDE DEF D, C, F
<1>4. DownFields \subseteq Kinds
  BY DEF DownFields, Kinds, QpFields
<1>5. /\ \A k \in DownFields : /\ Apart(Drop("mr_fd"), Drop(k)) /\ Apart(Dereg(b), Drop(k))
                               /\ Apart(Unref(b, "mr"), Drop(k))
      /\ Apart(Drop("mr_fd"), Clear) /\ Apart(Dereg(b), Clear) /\ Apart(Unref(b, "mr"), Clear)
      /\ Apart(Drop("mr_fd"), Dereg(b)) /\ Apart(Drop("mr_fd"), Unref(b, "mr"))
  <2>1. "mr_fd" \in Kinds /\ "mr" \in Holders
    BY DEF Kinds, Holders
  <2>2. \A k \in DownFields : Apart(Drop("mr_fd"), Drop(k))
    BY Aparts, NamesAssumption DEF DownFields, Kinds, QpFields, Users
  <2> QED BY <1>4, <2>1, <2>2, Aparts, RegionAparts
<1>6. \A x, y : Has(C, x) /\ Has(F, y) => Apart(x, y) /\ Kept(x, y)
  BY <1>1, <1>3, <1>5, Parts DEF Kept
<1>7. /\ List(C \o F) /\ DeregFirst(C \o F)
      /\ \A x : Has(C \o F, x) <=> Has(C, x) \/ Has(F, x)
  BY <1>1, <1>3, <1>6, Joined, JoinedFirst
<1> DEFINE G == C \o F
<1> HIDE DEF G
<1>8. \A x, y : Has(G, x) /\ Has(D, y) => Apart(x, y) /\ Kept(x, y)
  <2>1. \A x, y : Has(G, x) /\ Has(D, y) => Apart(x, y)
    BY <1>1, <1>2, <1>3, <1>5, <1>7 DEF G
  <2>2. \A x, y : Has(D, y) => Kept(x, y)
    BY <1>2, Parts DEF Kept
  <2> QED BY <2>1, <2>2
<1>9. /\ List(G \o D) /\ DeregFirst(G \o D)
      /\ \A x : Has(G \o D, x) <=> Has(G, x) \/ Has(D, x)
  BY <1>2, <1>7, <1>8, Joined, JoinedFirst DEF G
<1>10. \A x : Has(G \o D, x) <=> \/ x \in {Drop("mr_fd"), Dereg(b), Unref(b, "mr"), Clear}
                                 \/ \E k \in DownFields : x = Drop(k)
  BY <1>1, <1>2, <1>3, <1>7, <1>9 DEF G
<1> QED BY <1>9, <1>10 DEF G, C, D, F

Rising(s) ==
  /\ List(s)
  /\ \A x : Has(s, x) => \/ \E k \in Kinds : x = Make(k)
                         \/ \E w \in Waits : x = Wait(w)
                         \/ x \in {Drop("listen_id"), Drop("ep_fd")}

(* A connection made with rdma_cm, or with plain verbs.                       *)
RaisesCm(s) == /\ Has(s, Make("qp")) /\ Has(s, Make("cm_id")) /\ ~Has(s, Make("ctx"))
               /\ ~Has(s, Make("ep_fd"))
RaisesVerbs(s) == /\ Has(s, Make("qp")) /\ ~Has(s, Make("cm_id")) /\ ~Has(s, Make("ec"))
                  /\ ~Has(s, Make("listen_id"))

(* The objects of a queue pair on a connected id.                             *)
LEMMA BuildCm ==
  /\ List(build_qp_from_cm)
  /\ \A x : Has(build_qp_from_cm, x) <=> x \in {Make("pd"), Make("cq"), Make("qp")}
<1>1. Make("pd") \in Steps /\ Make("cq") \in Steps /\ Make("qp") \in Steps
  BY StepsIn DEF Kinds, QpFields
<1>2. /\ Apart(Make("pd"), Make("cq")) /\ Apart(Make("pd"), Make("qp"))
      /\ Apart(Make("cq"), Make("qp"))
  BY Aparts DEF Kinds, QpFields
<1> QED BY <1>1, <1>2, Three DEF build_qp_from_cm

(* And on an opened device.                                                   *)
LEMMA BuildVerbs ==
  /\ List(build_qp_verbs)
  /\ \A x : Has(build_qp_verbs, x) <=> x \in {Make("ctx"), Wait("gid"), Make("pd"), Make("cq"),
                                              Make("qp"), Wait("init")}
<1>1. /\ Make("ctx") \in Steps /\ Wait("gid") \in Steps /\ Make("pd") \in Steps
      /\ Make("cq") \in Steps /\ Make("qp") \in Steps /\ Wait("init") \in Steps
  BY StepsIn DEF Kinds, QpFields, Waits
<1>2. /\ Apart(Make("ctx"), Make("pd")) /\ Apart(Make("ctx"), Make("cq"))
      /\ Apart(Make("ctx"), Make("qp")) /\ Apart(Make("pd"), Make("cq"))
      /\ Apart(Make("pd"), Make("qp")) /\ Apart(Make("cq"), Make("qp"))
  BY Aparts DEF Kinds, QpFields
<1>3. /\ Apart(Make("ctx"), Wait("gid")) /\ Apart(Make("ctx"), Wait("init"))
      /\ Apart(Make("pd"), Wait("init")) /\ Apart(Make("cq"), Wait("init"))
      /\ Apart(Make("qp"), Wait("init")) /\ Apart(Wait("gid"), Make("pd"))
      /\ Apart(Wait("gid"), Make("cq")) /\ Apart(Wait("gid"), Make("qp"))
      /\ Apart(Wait("gid"), Wait("init"))
  BY Aparts DEF Kinds, QpFields
<1> QED BY <1>1, <1>2, <1>3, Six DEF build_qp_verbs

(* rai_cm_listen_qp.                                                          *)
LEMMA CmListen ==
  /\ Rising(rai_cm_listen_qp) /\ RaisesCm(rai_cm_listen_qp)
  /\ Has(rai_cm_listen_qp, Drop("listen_id"))
<1> DEFINE P == <<Make("ec"), Make("listen_id"), Wait("bind"), Make("cm_id")>>
           B == build_qp_from_cm
           R == <<Make("mr_fd"), Drop("listen_id")>>
           Q == P \o B
<1>1. /\ List(P)
      /\ \A x : Has(P, x) <=> x \in {Make("ec"), Make("listen_id"), Wait("bind"), Make("cm_id")}
  <2>1. /\ Make("ec") \in Steps /\ Make("listen_id") \in Steps /\ Wait("bind") \in Steps
        /\ Make("cm_id") \in Steps
    BY StepsIn DEF Kinds, QpFields, Waits
  <2>2. /\ Apart(Make("ec"), Make("listen_id")) /\ Apart(Make("ec"), Wait("bind"))
        /\ Apart(Make("ec"), Make("cm_id")) /\ Apart(Make("listen_id"), Wait("bind"))
        /\ Apart(Make("listen_id"), Make("cm_id")) /\ Apart(Wait("bind"), Make("cm_id"))
    BY Aparts DEF Kinds, QpFields
  <2> QED BY <2>1, <2>2, Four
<1>2. List(B) /\ \A x : Has(B, x) <=> x \in {Make("pd"), Make("cq"), Make("qp")}
  BY BuildCm
<1>3. List(R) /\ \A x : Has(R, x) <=> x \in {Make("mr_fd"), Drop("listen_id")}
  <2>1. Make("mr_fd") \in Steps /\ Drop("listen_id") \in Steps
    BY StepsIn DEF Kinds
  <2>2. Apart(Make("mr_fd"), Drop("listen_id"))
    BY Aparts DEF Kinds
  <2> QED BY <2>1, <2>2, Two
<1> HIDE DEF P, B, R
<1>4. \A x, y : Has(P, x) /\ Has(B, y) => Apart(x, y)
  <2>1. \A k \in {"ec", "listen_id", "cm_id"}, l \in {"pd", "cq", "qp"} : Apart(Make(k), Make(l))
    BY Aparts DEF Kinds, QpFields
  <2>2. \A l \in {"pd", "cq", "qp"} : Apart(Wait("bind"), Make(l))
    BY Aparts DEF Kinds, QpFields
  <2> QED BY <1>1, <1>2, <2>1, <2>2
<1>5. List(Q) /\ \A x : Has(Q, x) <=> Has(P, x) \/ Has(B, x)
  BY <1>1, <1>2, <1>4, Joined
<1> HIDE DEF Q
<1>6. \A x, y : Has(Q, x) /\ Has(R, y) => Apart(x, y)
  <2>1. \A k \in {"ec", "listen_id", "cm_id", "pd", "cq", "qp"} :
          Apart(Make(k), Make("mr_fd")) /\ Apart(Make(k), Drop("listen_id"))
    BY Aparts DEF Kinds, QpFields
  <2>2. Apart(Wait("bind"), Make("mr_fd")) /\ Apart(Wait("bind"), Drop("listen_id"))
    BY Aparts DEF Kinds, QpFields
  <2> QED BY <1>1, <1>2, <1>3, <1>5, <2>1, <2>2
<1>7. List(Q \o R) /\ \A x : Has(Q \o R, x) <=> Has(Q, x) \/ Has(R, x)
  BY <1>3, <1>5, <1>6, Joined
<1>8. \A x : Has(Q \o R, x) <=>
        x \in {Make("ec"), Make("listen_id"), Wait("bind"), Make("cm_id"), Make("pd"),
               Make("cq"), Make("qp"), Make("mr_fd"), Drop("listen_id")}
  BY <1>1, <1>2, <1>3, <1>5, <1>7
<1>9. rai_cm_listen_qp = Q \o R
  BY DEF rai_cm_listen_qp, P, B, R, Q
<1>10. Rising(Q \o R)
  BY <1>7, <1>8 DEF Rising, Kinds, QpFields, Waits
<1>11. RaisesCm(Q \o R) /\ Has(Q \o R, Drop("listen_id"))
  BY <1>8, Distinct DEF RaisesCm
<1> QED BY <1>9, <1>10, <1>11

(* rai_cm_connect_qp.                                                         *)
LEMMA CmConnect ==
  /\ Rising(rai_cm_connect_qp) /\ RaisesCm(rai_cm_connect_qp)
  /\ ~Has(rai_cm_connect_qp, Make("listen_id"))
<1> DEFINE P == <<Make("ec"), Make("cm_id"), Wait("route")>>
           B == build_qp_from_cm
           R == <<Wait("established")>>
           Q == P \o B
<1>1. List(P) /\ \A x : Has(P, x) <=> x \in {Make("ec"), Make("cm_id"), Wait("route")}
  <2>1. Make("ec") \in Steps /\ Wait("route") \in Steps /\ Make("cm_id") \in Steps
    BY StepsIn DEF Kinds, QpFields, Waits
  <2>2. /\ Apart(Make("ec"), Make("cm_id")) /\ Apart(Make("ec"), Wait("route"))
        /\ Apart(Make("cm_id"), Wait("route"))
    BY Aparts DEF Kinds, QpFields
  <2> QED BY <2>1, <2>2, Three
<1>2. List(B) /\ \A x : Has(B, x) <=> x \in {Make("pd"), Make("cq"), Make("qp")}
  BY BuildCm
<1>3. List(R) /\ \A x : Has(R, x) <=> x = Wait("established")
  BY One, StepsIn DEF Waits
<1> HIDE DEF P, B, R
<1>4. \A x, y : Has(P, x) /\ Has(B, y) => Apart(x, y)
  <2>1. \A k \in {"ec", "cm_id"}, l \in {"pd", "cq", "qp"} : Apart(Make(k), Make(l))
    BY Aparts DEF Kinds, QpFields
  <2>2. \A l \in {"pd", "cq", "qp"} : Apart(Wait("route"), Make(l))
    BY Aparts DEF Kinds, QpFields
  <2> QED BY <1>1, <1>2, <2>1, <2>2
<1>5. List(Q) /\ \A x : Has(Q, x) <=> Has(P, x) \/ Has(B, x)
  BY <1>1, <1>2, <1>4, Joined
<1> HIDE DEF Q
<1>6. \A x, y : Has(Q, x) /\ Has(R, y) => Apart(x, y)
  <2>1. \A k \in {"ec", "cm_id", "pd", "cq", "qp"} : Apart(Make(k), Wait("established"))
    BY Aparts DEF Kinds, QpFields
  <2>2. Apart(Wait("route"), Wait("established"))
    BY Aparts
  <2> QED BY <1>1, <1>2, <1>3, <1>5, <2>1, <2>2
<1>7. List(Q \o R) /\ \A x : Has(Q \o R, x) <=> Has(Q, x) \/ Has(R, x)
  BY <1>3, <1>5, <1>6, Joined
<1>8. \A x : Has(Q \o R, x) <=>
        x \in {Make("ec"), Make("cm_id"), Wait("route"), Make("pd"), Make("cq"), Make("qp"),
               Wait("established")}
  BY <1>1, <1>2, <1>3, <1>5, <1>7
<1>9. rai_cm_connect_qp = Q \o R
  BY DEF rai_cm_connect_qp, P, B, R, Q
<1>10. Rising(Q \o R)
  BY <1>7, <1>8 DEF Rising, Kinds, QpFields, Waits
<1>11. RaisesCm(Q \o R) /\ ~Has(Q \o R, Make("listen_id"))
  BY <1>8, Distinct DEF RaisesCm
<1> QED BY <1>9, <1>10, <1>11

(* rai_verbs_listen_qp.                                                       *)
LEMMA VerbsListen ==
  /\ Rising(rai_verbs_listen_qp) /\ RaisesVerbs(rai_verbs_listen_qp)
  /\ Has(rai_verbs_listen_qp, Drop("ep_fd"))
<1> DEFINE P == <<Make("ep_fd"), Make("mr_fd")>>
           B == build_qp_verbs
           R == <<Wait("exchange"), Drop("ep_fd")>>
           Q == P \o B
<1>1. List(P) /\ \A x : Has(P, x) <=> x \in {Make("ep_fd"), Make("mr_fd")}
  <2>1. Make("ep_fd") \in Steps /\ Make("mr_fd") \in Steps
    BY StepsIn DEF Kinds
  <2>2. Apart(Make("ep_fd"), Make("mr_fd"))
    BY Aparts DEF Kinds
  <2> QED BY <2>1, <2>2, Two
<1>2. List(B) /\ \A x : Has(B, x) <=> x \in {Make("ctx"), Wait("gid"), Make("pd"), Make("cq"),
                                             Make("qp"), Wait("init")}
  BY BuildVerbs
<1>3. List(R) /\ \A x : Has(R, x) <=> x \in {Wait("exchange"), Drop("ep_fd")}
  <2>1. Wait("exchange") \in Steps /\ Drop("ep_fd") \in Steps
    BY StepsIn DEF Kinds, Waits
  <2>2. Apart(Wait("exchange"), Drop("ep_fd"))
    BY Aparts DEF Kinds
  <2> QED BY <2>1, <2>2, Two
<1> HIDE DEF P, B, R
<1>4. \A x, y : Has(P, x) /\ Has(B, y) => Apart(x, y)
  <2>1. \A k \in {"ep_fd", "mr_fd"}, l \in {"ctx", "pd", "cq", "qp"} : Apart(Make(k), Make(l))
    BY Aparts DEF Kinds, QpFields
  <2>2. \A k \in {"ep_fd", "mr_fd"}, w \in {"gid", "init"} : Apart(Make(k), Wait(w))
    BY Aparts DEF Kinds
  <2> QED BY <1>1, <1>2, <2>1, <2>2
<1>5. List(Q) /\ \A x : Has(Q, x) <=> Has(P, x) \/ Has(B, x)
  BY <1>1, <1>2, <1>4, Joined
<1> HIDE DEF Q
<1>6. \A x, y : Has(Q, x) /\ Has(R, y) => Apart(x, y)
  <2>1. \A k \in {"ep_fd", "mr_fd", "ctx", "pd", "cq", "qp"} :
          Apart(Make(k), Wait("exchange")) /\ Apart(Make(k), Drop("ep_fd"))
    BY Aparts DEF Kinds, QpFields
  <2>2. \A w \in {"gid", "init"} : Apart(Wait(w), Wait("exchange")) /\ Apart(Wait(w), Drop("ep_fd"))
    BY Aparts DEF Kinds
  <2> QED BY <1>1, <1>2, <1>3, <1>5, <2>1, <2>2
<1>7. List(Q \o R) /\ \A x : Has(Q \o R, x) <=> Has(Q, x) \/ Has(R, x)
  BY <1>3, <1>5, <1>6, Joined
<1>8. \A x : Has(Q \o R, x) <=>
        x \in {Make("ep_fd"), Make("mr_fd"), Make("ctx"), Wait("gid"), Make("pd"), Make("cq"),
               Make("qp"), Wait("init"), Wait("exchange"), Drop("ep_fd")}
  BY <1>1, <1>2, <1>3, <1>5, <1>7
<1>9. rai_verbs_listen_qp = Q \o R
  BY DEF rai_verbs_listen_qp, P, B, R, Q
<1>10. Rising(Q \o R)
  BY <1>7, <1>8 DEF Rising, Kinds, QpFields, Waits
<1>11. RaisesVerbs(Q \o R) /\ Has(Q \o R, Drop("ep_fd"))
  BY <1>8, Distinct DEF RaisesVerbs
<1> QED BY <1>9, <1>10, <1>11

(* rai_verbs_connect_qp.                                                      *)
LEMMA VerbsConnect ==
  /\ Rising(rai_verbs_connect_qp) /\ RaisesVerbs(rai_verbs_connect_qp)
  /\ ~Has(rai_verbs_connect_qp, Make("ep_fd"))
<1> DEFINE B == build_qp_verbs
           R == <<Wait("exchange"), Wait("rts")>>
<1>1. List(B) /\ \A x : Has(B, x) <=> x \in {Make("ctx"), Wait("gid"), Make("pd"), Make("cq"),
                                             Make("qp"), Wait("init")}
  BY BuildVerbs
<1>2. List(R) /\ \A x : Has(R, x) <=> x \in {Wait("exchange"), Wait("rts")}
  <2>1. Wait("exchange") \in Steps /\ Wait("rts") \in Steps
    BY StepsIn DEF Waits
  <2>2. Apart(Wait("exchange"), Wait("rts"))
    BY Aparts
  <2> QED BY <2>1, <2>2, Two
<1> HIDE DEF B, R
<1>3. \A x, y : Has(B, x) /\ Has(R, y) => Apart(x, y)
  <2>1. \A k \in {"ctx", "pd", "cq", "qp"}, w \in {"exchange", "rts"} : Apart(Make(k), Wait(w))
    BY Aparts DEF Kinds, QpFields
  <2>2. \A w \in {"gid", "init"}, v \in {"exchange", "rts"} : Apart(Wait(w), Wait(v))
    BY Aparts
  <2> QED BY <1>1, <1>2, <2>1, <2>2
<1>4. List(B \o R) /\ \A x : Has(B \o R, x) <=> Has(B, x) \/ Has(R, x)
  BY <1>1, <1>2, <1>3, Joined
<1>5. \A x : Has(B \o R, x) <=>
        x \in {Make("ctx"), Wait("gid"), Make("pd"), Make("cq"), Make("qp"), Wait("init"),
               Wait("exchange"), Wait("rts")}
  BY <1>1, <1>2, <1>4
<1>6. rai_verbs_connect_qp = B \o R
  BY DEF rai_verbs_connect_qp, B, R
<1>7. Rising(B \o R)
  BY <1>4, <1>5 DEF Rising, Kinds, QpFields, Waits
<1>8. RaisesVerbs(B \o R) /\ ~Has(B \o R, Make("ep_fd"))
  BY <1>5, Distinct DEF RaisesVerbs
<1> QED BY <1>6, <1>7, <1>8

(* A new set-up of a transport: the old one is undone first.                  *)
LEMMA RenewList ==
  ASSUME NEW U, Rising(U)
  PROVE  LET t == Renew \o U
         IN  /\ List(t) /\ DeregFirst(t)
             /\ \A x : Has(t, x) <=>
                  \/ Has(U, x)
                  \/ x = Drop("mr_fd")
                  \/ handle["qp"] # 0 /\ (x = Clear \/ \E k \in DownFields : x = Drop(k))
<1>1. /\ List(Renew)
      /\ \A x : Has(Renew, x) <=>
           \/ x = Drop("mr_fd")
           \/ handle["qp"] # 0 /\ (x = Clear \/ \E k \in DownFields : x = Drop(k))
  <2>1. CASE handle["qp"] # 0
    <3>1. Renew = rai_qp_destroy \o <<Drop("mr_fd")>>
      BY <2>1 DEF Renew
    <3> QED BY <2>1, <3>1, DownThenDrop
  <2>2. CASE handle["qp"] = 0
    <3>1. Drop("mr_fd") \in Steps
      BY StepsIn DEF Kinds
    <3>2. <<Drop("mr_fd")>> \in Seq(Steps)
      BY <3>1
    <3>3. << >> \o <<Drop("mr_fd")>> = <<Drop("mr_fd")>>
      BY <3>2, ConcatEmptySeq
    <3>4. Renew = <<Drop("mr_fd")>>
      BY <2>2, <3>3 DEF Renew
    <3> QED BY <2>2, <3>1, <3>4, One
  <2> QED BY <2>1, <2>2
<1> DEFINE R == Renew
<1> HIDE DEF R
<1>2. \A x, y : Has(R, x) /\ Has(U, y) => Apart(x, y)
  <2>1. ASSUME NEW x, NEW y, Has(R, x), Has(U, y) PROVE Apart(x, y)
    <3>1. x = Clear \/ \E k \in DownFields \cup {"mr_fd"} : x = Drop(k)
      BY <1>1, <2>1 DEF R
    <3>2. \/ \E k \in Kinds : y = Make(k)
          \/ \E w \in Waits : y = Wait(w)
          \/ y \in {Drop("listen_id"), Drop("ep_fd")}
      BY <2>1 DEF Rising
    <3>3. DownFields \cup {"mr_fd"} \subseteq Kinds
      BY DEF DownFields, Kinds, QpFields
    <3>4. CASE x = Clear
      <4>1. Apart(Clear, Drop("listen_id")) /\ Apart(Clear, Drop("ep_fd"))
        BY Aparts DEF Kinds, QpFields
      <4> QED BY <3>2, <3>4, <4>1, Aparts
    <3>5. CASE \E k \in DownFields \cup {"mr_fd"} : x = Drop(k)
      <4>1. PICK k \in DownFields \cup {"mr_fd"} : x = Drop(k)
        BY <3>5
      <4>2. k \in {"qp", "cq", "pd", "ctx", "cm_id", "mr_fd"} =>
              Apart(Drop(k), Drop("listen_id")) /\ Apart(Drop(k), Drop("ep_fd"))
        BY Aparts, NamesAssumption DEF Kinds, QpFields, Users
      <4>3. k = "ec" => Apart(Drop(k), Drop("listen_id")) /\ Apart(Drop(k), Drop("ep_fd"))
        BY Parts, Distinct DEF Apart, Before, QpFields
      <4>4. k \in {"qp", "cq", "pd", "ctx", "cm_id", "mr_fd", "ec"}
        BY DEF DownFields
      <4>5. k \notin {"listen_id", "ep_fd"}
        BY <4>4
      <4> QED BY <3>2, <3>3, <4>1, <4>2, <4>3, <4>4, <4>5, Aparts
    <3> QED BY <3>1, <3>4, <3>5
  <2> QED BY <2>1
<1>3. List(R \o U) /\ \A x : Has(R \o U, x) <=> Has(R, x) \/ Has(U, x)
  BY <1>1, <1>2, Joined DEF Rising, R
<1>4. \A x : Has(R \o U, x) => x[1] # "unref"
  BY <1>1, <1>3, Parts DEF R, Rising
<1>5. DeregFirst(R \o U)
  BY <1>3, <1>4, NoUnref
<1> QED BY <1>1, <1>3, <1>5 DEF R

-----------------------------------------------------------------------------
(* What the order of a list says of its first step *)

(* When a step is due, what had to come before it is done.                    *)
LEMMA Order ==
  ASSUME List(todo), todo # << >>
  PROVE  /\ Head1[1] \in {"make", "wait"} => ~Has(todo, Clear)
         /\ \A k, u \in QpFields : Head1 = Drop(k) /\ u \in Users(k) => ~Has(todo, Drop(u))
         /\ Head1 = Clear => /\ \A k \in QpFields : ~Has(todo, Drop(k))
                             /\ \A b \in Bufs : ~Has(todo, Dereg(b))
         /\ Head1 = Drop("pd") => \A b \in Bufs : ~Has(todo, Dereg(b))
         /\ Head1 = Make("mr_fd") => ~Has(todo, Drop("mr_fd"))
         /\ Head1 = Make("qp") => ~Has(todo, Make("cm_id"))
         /\ \A k \in {"listen_id", "ep_fd"} : Head1 = Drop(k) => ~Has(todo, Make(k))
         /\ DeregFirst(todo) => \A b \in Bufs, h \in Holders :
              Head1 = Unref(b, h) => ~Has(todo, Dereg(b))
<1>1. \A x : Has(todo, x) => ~Before(x, Head1) \/ x = Head1
  BY Taken DEF Head1
<1>2. Head1[1] \in {"make", "wait"} => ~Has(todo, Clear)
  BY <1>1, Parts DEF Before
<1>3. ASSUME NEW k \in QpFields, NEW u \in QpFields, Head1 = Drop(k), u \in Users(k)
      PROVE  ~Has(todo, Drop(u))
  <2>1. u # k
    BY <1>3, NamesAssumption DEF Users, QpFields, Kinds
  <2>2. Before(Drop(u), Drop(k))
    BY <1>3, Parts DEF Before
  <2> QED BY <1>1, <1>3, <2>1, <2>2, Distinct
<1>4. ASSUME Head1 = Clear
      PROVE  /\ \A k \in QpFields : ~Has(todo, Drop(k))
             /\ \A b \in Bufs : ~Has(todo, Dereg(b))
  <2>1. \A k \in QpFields : Before(Drop(k), Clear)
    BY Parts DEF Before
  <2>2. \A b \in Bufs : Before(Dereg(b), Clear)
    BY Parts DEF Before
  <2> QED BY <1>1, <1>4, <2>1, <2>2, Distinct
<1>5. Head1 = Drop("pd") => \A b \in Bufs : ~Has(todo, Dereg(b))
  <2>1. \A b \in Bufs : Before(Dereg(b), Drop("pd"))
    BY Parts DEF Before
  <2> QED BY <1>1, <2>1, Distinct
<1>6. Head1 = Make("mr_fd") => ~Has(todo, Drop("mr_fd"))
  <2>1. Before(Drop("mr_fd"), Make("mr_fd"))
    BY Parts DEF Before
  <2> QED BY <1>1, <2>1, Distinct
<1>7. Head1 = Make("qp") => ~Has(todo, Make("cm_id"))
  <2>1. Before(Make("cm_id"), Make("qp"))
    BY Parts DEF Before
  <2> QED BY <1>1, <2>1, Distinct
<1>9. ASSUME NEW k \in {"listen_id", "ep_fd"}, Head1 = Drop(k) PROVE ~Has(todo, Make(k))
  <2>1. Before(Make(k), Drop(k))
    BY Parts DEF Before
  <2> QED BY <1>1, <1>9, <2>1, Distinct
<1>8. ASSUME DeregFirst(todo), NEW b \in Bufs, NEW h \in Holders, Head1 = Unref(b, h)
      PROVE  ~Has(todo, Dereg(b))
  <2>1. \A x : Has(todo, x) => Kept(Head1, x) \/ x = Head1
    BY <1>8, Taken DEF Head1
  <2>2. ~Kept(Unref(b, h), Dereg(b))
    BY Parts DEF Kept
  <2> QED BY <1>8, <2>1, <2>2, Distinct
<1> QED BY <1>2, <1>3, <1>4, <1>5, <1>6, <1>7, <1>8, <1>9

(* A step of a call takes the first of the list.                              *)
LEMMA Stepping ==
  ASSUME Listing, todo # << >>, Proceed, prog' = prog
  PROVE  /\ List(todo') /\ (prog' # "python" => DeregFirst(todo'))
         /\ \A x : Has(todo', x) <=> Has(todo, x) /\ x # Head1
         /\ Has(todo, Head1) /\ Head1 \in Steps
         /\ call # "none" /\ wr = NoWr
  BY Taken DEF Listing, Proceed, Head1

-----------------------------------------------------------------------------
(* The steps of a call *)

(* A wait that succeeds changes nothing but the list.                         *)
LEMMA WaitKeeps ==
  ASSUME IInv, StepWait
  PROVE  IInv'
<1>1. /\ todo # << >> /\ Head1[1] = "wait" /\ Proceed
      /\ UNCHANGED <<prog, setups, early, stage, call, failed, mode, handle, alive, reg, refs,
                     wr, faults>>
  BY DEF StepWait, progVars
<1>2. /\ List(todo') /\ (prog' # "python" => DeregFirst(todo'))
      /\ \A x : Has(todo', x) <=> Has(todo, x) /\ x # Head1
      /\ Head1 \in Steps /\ call # "none" /\ wr = NoWr
  BY <1>1, Stepping DEF IInv, Control
<1>3. ~Has(todo, Clear) /\ ~Has(todo', Clear)
  BY <1>1, <1>2, Order DEF IInv, Control, Listing
<1>4. /\ \A k : Head1 # Make(k) /\ Head1 # Drop(k) /\ Head1 # Dereg(k)
      /\ \A b, h : Head1 # Unref(b, h)
  BY <1>1, Parts
<1>5. /\ \A k : Has(todo', Make(k)) <=> Has(todo, Make(k))
      /\ \A k : Has(todo', Drop(k)) <=> Has(todo, Drop(k))
      /\ \A b : Has(todo', Dereg(b)) <=> Has(todo, Dereg(b))
      /\ \A b, h : Has(todo', Unref(b, h)) <=> Has(todo, Unref(b, h))
  BY <1>2, <1>4
<1>6. TypeOK' /\ OrderlyTeardown' /\ Posted'
  BY <1>1, <1>2 DEF IInv, TypeOK, OrderlyTeardown, Posted
<1>7. Listing'
  BY <1>1, <1>2, <1>3, <1>5 DEF IInv, Control, Listing
<1>8. Locals' /\ Fresh' /\ Whole'
  BY <1>1, <1>3, <1>5 DEF IInv, Control, Locals, Fresh, Whole, Zero
<1>9. ModeKept' /\ Staged'
  BY <1>1, <1>3, <1>5 DEF IInv, Control, ModeKept, Staged, Zero
<1>10. Lively' /\ Known' /\ Regions' /\ Cleared'
  BY <1>1, <1>3, <1>5 DEF IInv, Objects, Lively, Known, Regions, Cleared
<1>11. Owned'
  BY <1>1, <1>3, <1>5 DEF IInv, Objects, Owned, Owner
<1> QED BY <1>6, <1>7, <1>8, <1>9, <1>10, <1>11 DEF IInv, Control, Objects

(* An object is made: no handle to an older one is overwritten.               *)
LEMMA MakeKeeps ==
  ASSUME IInv, StepMake
  PROVE  IInv'
<1> DEFINE k == Head1[2]
<1>1. /\ todo # << >> /\ Head1[1] = "make" /\ Proceed
      /\ handle' = [handle EXCEPT ![k] = setups] /\ alive' = alive \cup {<<k, setups>>}
      /\ UNCHANGED <<prog, setups, early, stage, call, failed, mode, reg, refs, wr, faults>>
  BY DEF StepMake, progVars
<1>2. /\ List(todo') /\ (prog' # "python" => DeregFirst(todo'))
      /\ \A x : Has(todo', x) <=> Has(todo, x) /\ x # Head1
      /\ Has(todo, Head1) /\ Head1 \in Steps /\ call # "none" /\ wr = NoWr
  BY <1>1, Stepping DEF IInv, Control
<1>3. k \in Kinds /\ Head1 = Make(k) /\ Has(todo, Make(k))
  BY <1>1, <1>2, Names
<1> HIDE DEF k
<1>4. /\ ~Has(todo, Clear) /\ ~Has(todo', Clear)
      /\ k = "mr_fd" => ~Has(todo, Drop("mr_fd"))
      /\ k = "qp" => ~Has(todo, Make("cm_id"))
  BY <1>1, <1>2, <1>3, Order DEF IInv, Control, Listing
<1>5. /\ \A l : Has(todo', Make(l)) <=> Has(todo, Make(l)) /\ l # k
      /\ \A l : Has(todo', Drop(l)) <=> Has(todo, Drop(l))
      /\ \A b : Has(todo', Dereg(b)) <=> Has(todo, Dereg(b))
      /\ \A b, h : Has(todo', Unref(b, h)) <=> Has(todo, Unref(b, h))
  BY <1>2, <1>3, Distinct
<1>6. /\ call \in SetUps /\ ~failed /\ setups # 0 /\ setups \in Setups
      /\ handle[k] = 0 /\ handle \in [Kinds -> 0..MaxSetups]
  <2>1. call \in SetUps /\ ~failed /\ setups # 0
    BY <1>3 DEF IInv, Control, Listing
  <2>2. setups \in Setups
    BY <2>1, SizeAssumption DEF IInv, TypeOK, Setups
  <2>3. handle[k] = 0
    BY <1>3, <1>4 DEF IInv, Control, Fresh
  <2> QED BY <2>1, <2>2, <2>3 DEF IInv, TypeOK
<1>7. /\ \A l \in Kinds : handle'[l] = IF l = k THEN setups ELSE handle[l]
      /\ \A l \in Kinds : \A e : <<l, e>> \in alive' <=> <<l, e>> \in alive \/ (l = k /\ e = setups)
      /\ \A b \in Bufs : \A e : <<b, e>> \in alive' <=> <<b, e>> \in alive
  <2>1. \A b \in Bufs : b # k
    BY <1>3, NamesAssumption
  <2> QED BY <1>1, <1>3, <1>6, <2>1
<1>8. TypeOK'
  <2>1. handle' \in [Kinds -> 0..MaxSetups]
    BY <1>1, <1>3, <1>6 DEF IInv, TypeOK
  <2>2. alive' \subseteq (Kinds \cup Bufs) \X Setups
    BY <1>1, <1>3, <1>6 DEF IInv, TypeOK
  <2> QED BY <1>1, <2>1, <2>2 DEF IInv, TypeOK
<1>9. OrderlyTeardown' /\ Posted'
  BY <1>1, <1>2 DEF IInv, OrderlyTeardown, Posted
<1>10. Listing'
  BY <1>1, <1>2, <1>4, <1>5, <1>6 DEF IInv, Control, Listing
<1>11. Locals'
  BY <1>1, <1>3, <1>4, <1>5, <1>7 DEF IInv, Control, Locals, Kinds
<1>12. Fresh'
  BY <1>3, <1>4, <1>5, <1>7 DEF IInv, Control, Fresh
<1>13. Whole'
  BY <1>1, <1>4, <1>5, <1>6, <1>7 DEF IInv, Control, Whole, SetUps, Kinds, QpFields
<1>14. ModeKept'
  BY <1>1, <1>3, <1>4, <1>5, <1>6, <1>7 DEF IInv, Control, ModeKept, Kinds, QpFields
<1>15. Staged'
  BY <1>1, <1>6, <1>7 DEF IInv, Control, Staged, SetUps
<1>16. Lively'
  BY <1>4, <1>5, <1>7 DEF IInv, Objects, Lively
<1>17. Known'
  BY <1>1, <1>3, <1>6, <1>7 DEF IInv, Objects, Known, Setups
<1>18. Regions' /\ Cleared'
  BY <1>1, <1>4, <1>7 DEF IInv, Objects, Regions, Cleared
<1>19. Owned'
  <2>1. ASSUME NEW b \in Bufs, reg[b] # 0 PROVE prog = "python"
    BY <1>6, <2>1 DEF IInv, Objects, Owned, Control, Staged
  <2> QED BY <1>1, <1>4, <1>5, <2>1 DEF IInv, Objects, Owned, Owner
<1> QED BY <1>8, <1>9, <1>10, <1>11, <1>12, <1>13, <1>14, <1>15, <1>16, <1>17, <1>18, <1>19
        DEF IInv, Control, Objects

(* Whatever fails, the error path undoes what the call has made.              *)
LEMMA FailsKeeps ==
  ASSUME IInv, StepFails
  PROVE  IInv'
<1>1. /\ todo # << >> /\ Head1[1] \in {"make", "wait"} /\ failed' = TRUE /\ todo' = OnFailure
      /\ UNCHANGED <<prog, setups, early, stage, call, mode, handle, alive, reg, refs, wr, faults>>
  BY DEF StepFails, progVars
<1>2. Has(todo, Head1) /\ Head1 \in Steps /\ ~Has(todo, Clear)
  BY <1>1, Taken, Order DEF IInv, Control, Listing, Head1
<1>3. call \in SetUps \cup {"accept"} /\ wr = NoWr /\ (call \in SetUps => setups # 0)
  <2>1. call \in SetUps \cup {"accept"}
    BY <1>1, <1>2, Names DEF IInv, Control, Listing
  <2> QED BY <2>1 DEF IInv, Control, Listing, SetUps
<1>4. TypeOK' /\ OrderlyTeardown' /\ Posted'
  BY <1>1, <1>3 DEF IInv, TypeOK, OrderlyTeardown, Posted
<1>5. CASE call = "accept"
  <2>1. todo' = << >> /\ List(todo') /\ DeregFirst(todo') /\ \A x : ~Has(todo', x)
    BY <1>1, <1>5, Nothing DEF OnFailure
  <2>2. Listing'
    BY <1>1, <1>3, <1>5, <2>1 DEF IInv, Control, Listing, SetUps
  <2>3. Locals' /\ Fresh'
    BY <1>1, <1>5, <2>1 DEF IInv, Control, Locals, Fresh
  <2>4. Whole'
    BY <1>1, <1>5, <2>1 DEF IInv, Control, Whole, SetUps, Zero
  <2>5. ModeKept' /\ Staged'
    BY <1>1, <1>5, <2>1 DEF IInv, Control, ModeKept, Staged, SetUps, Zero
  <2>6. Lively' /\ Known' /\ Regions' /\ Cleared'
    BY <1>1, <1>2, <2>1 DEF IInv, Objects, Lively, Known, Regions, Cleared
  <2>7. Owned'
    BY <1>1, <1>5, <2>1 DEF IInv, Objects, Owned, Owner, SetUps
  <2> QED BY <1>4, <2>2, <2>3, <2>4, <2>5, <2>6, <2>7 DEF IInv, Control, Objects
<1>6. CASE call \in SetUps
  <2> DEFINE L == IF call = "connect" THEN {} ELSE IF prog = "verbs" THEN {"ep_fd", "mr_fd"}
                  ELSE {"listen_id"}
  <2>1. /\ List(todo') /\ DeregFirst(todo')
        /\ \A x : Has(todo', x) <=> x = Clear \/ \E k \in DownFields \cup L : x = Drop(k)
        /\ call = "listen" /\ prog # "verbs" => Head(todo') = Drop("listen_id")
    <3>1. CASE call = "connect"
      <4>1. todo' = rai_qp_destroy
        BY <1>1, <3>1 DEF OnFailure
      <4> QED BY <3>1, <4>1, Down
    <3>2. CASE call = "listen" /\ prog = "verbs"
      <4>1. todo' = <<Drop("ep_fd"), Drop("mr_fd")>> \o rai_qp_destroy
        BY <1>1, <3>2 DEF OnFailure
      <4> QED BY <3>2, <4>1, SocketsThenDown
    <3>3. CASE call = "listen" /\ prog # "verbs"
      <4>1. todo' = <<Drop("listen_id")>> \o rai_qp_destroy
        BY <1>1, <3>3 DEF OnFailure
      <4>2. "listen_id" \in Kinds \ QpFields
        BY DEF Kinds, QpFields
      <4>3. L = {"listen_id"}
        BY <3>3
      <4>4. /\ List(todo') /\ DeregFirst(todo') /\ Head(todo') = Drop("listen_id")
            /\ \A x : Has(todo', x) <=>
                 x = Clear \/ \E k \in DownFields \cup {"listen_id"} : x = Drop(k)
        BY <4>1, <4>2, DropThenDown
      <4> QED BY <4>3, <4>4
    <3> QED BY <1>6, <3>1, <3>2, <3>3 DEF SetUps
  <2>2. /\ Has(todo', Clear) /\ \A k : Has(todo', Drop(k)) <=> k \in DownFields \cup L
        /\ \A k : ~Has(todo', Make(k)) /\ ~Has(todo', Wait(k)) /\ ~Has(todo', Dereg(k))
        /\ \A b, h : ~Has(todo', Unref(b, h))
    BY <2>1, Distinct
  <2> HIDE DEF L
  <2>3. \A k \in QpFields : handle[k] # 0 => k \in DownFields
    BY DEF IInv, Control, ModeKept, DownFields, QpFields
  <2>4. Listing'
    BY <1>1, <1>3, <1>6, <2>1, <2>2 DEF IInv, Control, Listing, SetUps
  <2>5. Locals'
    <3>1. handle["listen_id"] # 0 => call = "listen" /\ prog # "verbs"
      BY DEF IInv, Control, Locals
    <3>2. handle["ep_fd"] # 0 => call = "listen" /\ prog = "verbs"
      BY DEF IInv, Control, Locals
    <3> QED BY <1>1, <2>1, <2>2, <3>1, <3>2 DEF Locals, L
  <2>6. Fresh' /\ Whole'
    BY <1>1, <1>6, <2>2 DEF Fresh, Whole, SetUps
  <2>7. ModeKept' /\ Staged'
    BY <1>1, <2>2 DEF IInv, Control, ModeKept, Staged, Zero
  <2>8. Lively' /\ Known' /\ Regions'
    BY <1>1, <1>2 DEF IInv, Objects, Lively, Known, Regions
  <2>9. Cleared'
    BY <1>1, <2>2, <2>3 DEF Cleared
  <2>10. Owned'
    <3>1. \A b \in Bufs : reg[b] # 0 => prog = "python"
      BY <1>6 DEF IInv, Objects, Owned, Control, Staged
    <3>2. \A b \in Bufs : reg[b] # 0 => early
      BY <1>6 DEF IInv, Objects, Owned
    <3> QED BY <1>1, <1>6, <2>2, <3>1, <3>2 DEF Owned, SetUps
  <2> QED BY <1>4, <2>4, <2>5, <2>6, <2>7, <2>8, <2>9, <2>10 DEF IInv, Control, Objects
<1> QED BY <1>3, <1>5, <1>6

(* An object is destroyed.  Everything that uses it is gone by then, but for  *)
(* the regions Python has left in its PD.                                     *)
LEMMA DropKeeps ==
  ASSUME IInv, StepDrop
  PROVE  IInv'
<1> DEFINE k == Head1[2]
           null == handle[k] = 0 \/ (k = "qp" /\ mode = "cm" /\ handle["cm_id"] = 0)
           busy == \E u \in Users(k) : <<u, handle[k]>> \in alive
<1>1. /\ todo # << >> /\ Head1[1] = "drop" /\ Proceed
      /\ alive' = IF null \/ busy THEN alive ELSE alive \ {<<k, handle[k]>>}
      /\ faults' = IF null \/ (<<k, handle[k]>> \in alive /\ ~busy) THEN faults
                   ELSE faults \cup {<<IF <<k, handle[k]>> \in alive THEN "busy"
                                      ELSE "dangling", k>>}
      /\ handle' = IF k \in QpFields THEN handle ELSE [handle EXCEPT ![k] = 0]
      /\ UNCHANGED <<prog, setups, early, stage, call, failed, mode, reg, refs, wr>>
  BY DEF StepDrop, progVars
<1>2. /\ List(todo') /\ (prog' # "python" => DeregFirst(todo'))
      /\ \A x : Has(todo', x) <=> Has(todo, x) /\ x # Head1
      /\ Has(todo, Head1) /\ Head1 \in Steps /\ call # "none" /\ wr = NoWr
  BY <1>1, Stepping DEF IInv, Control
<1>3. k \in Kinds /\ Head1 = Drop(k) /\ Has(todo, Drop(k))
  BY <1>1, <1>2, Names
<1>4. handle \in [Kinds -> 0..MaxSetups] /\ reg \in [Bufs -> 0..MaxSetups]
      /\ alive \subseteq (Kinds \cup Bufs) \X Setups
  BY DEF IInv, TypeOK
<1>5. k \in QpFields => Has(todo, Clear)
  BY <1>3 DEF IInv, Control, Listing
<1>6. null <=> handle[k] = 0
  BY DEF IInv, Control, ModeKept
<1>7. handle[k] # 0 => <<k, handle[k]>> \in alive
  BY <1>3 DEF IInv, Objects, Lively
<1>8. handle[k] # 0 /\ busy => k = "pd" /\ early
  <2> SUFFICES ASSUME handle[k] # 0, NEW u \in Users(k), <<u, handle[k]>> \in alive
               PROVE  k = "pd" /\ early
    OBVIOUS
  <2>1. handle[k] \in Setups
    BY <1>3, <1>4 DEF Setups
  <2>2. k \in QpFields
    BY <1>3 DEF Kinds, QpFields, Users
  <2>3. CASE u \in QpFields
    <3>1. ~Has(todo, Drop(u))
      BY <1>1, <1>2, <1>3, <2>2, <2>3, Order DEF IInv, Control, Listing
    <3>2. u \in Kinds
      BY <2>3 DEF Kinds
    <3>3. handle[u] = handle[k] \/ (early /\ u = "pd")
      BY <2>1, <3>2 DEF IInv, Objects, Known
    <3>4. ASSUME early, u = "pd" PROVE FALSE
      <4>1. prog = "python" /\ handle["ctx"] = 0
        BY <3>4 DEF IInv, Control, ModeKept
      <4>2. k = "ctx"
        BY <2>2, <3>4, NamesAssumption DEF Users, Kinds, QpFields
      <4> QED BY <4>1, <4>2
    <3>5. handle[u] # 0 /\ <<u, handle[u]>> \in alive
      BY <3>3, <3>4
    <3>6. Has(todo, Drop(u)) \/ (early /\ u = "pd")
      BY <1>5, <2>2, <2>3, <3>5 DEF IInv, Objects, Cleared
    <3> QED BY <3>1, <3>4, <3>6
  <2>4. CASE u = "listen_id"
    <3>1. handle["listen_id"] = handle[k]
      BY <2>1, <2>4 DEF IInv, Objects, Known, Kinds
    <3>2. Head1 = Drop("listen_id")
      BY <1>5, <2>2, <3>1 DEF IInv, Control, Locals, Head1
    <3> QED BY <1>3, <2>2, <3>2, Distinct DEF QpFields
  <2>5. CASE u \in Bufs
    <3>1. k = "pd"
      BY <2>5, NamesAssumption DEF Users, Kinds, QpFields
    <3>2. reg[u] # 0
      BY <2>1, <2>5 DEF IInv, Objects, Regions, Setups
    <3>3. ~Has(todo, Dereg(u))
      BY <1>1, <1>3, <2>5, <3>1, Order DEF IInv, Control, Listing
    <3>4. early
      BY <1>5, <2>2, <2>5, <3>2, <3>3 DEF IInv, Objects, Owned
    <3> QED BY <3>1, <3>4
  <2> QED BY <2>2, <2>3, <2>4, <2>5 DEF Users, QpFields
<1> HIDE DEF null, busy, k
<1>9. OrderlyTeardown'
  <2>1. CASE null
    <3>1. faults' = faults
      BY <1>1, <2>1
    <3> QED BY <1>1, <3>1 DEF IInv, OrderlyTeardown
  <2>2. CASE ~null /\ busy
    <3>1. faults' = faults \cup {<<"busy", k>>} /\ k = "pd" /\ early
      BY <1>1, <1>6, <1>7, <1>8, <2>2
    <3> QED BY <1>1, <3>1 DEF IInv, OrderlyTeardown
  <2>3. CASE ~null /\ ~busy
    <3>1. faults' = faults
      BY <1>1, <1>6, <1>7, <2>3
    <3> QED BY <1>1, <3>1 DEF IInv, OrderlyTeardown
  <2> QED BY <2>1, <2>2, <2>3
<1>10. /\ \A l : Has(todo', Drop(l)) <=> Has(todo, Drop(l)) /\ l # k
       /\ \A l : Has(todo', Make(l)) <=> Has(todo, Make(l))
       /\ \A w : Has(todo', Wait(w)) <=> Has(todo, Wait(w))
       /\ \A b : Has(todo', Dereg(b)) <=> Has(todo, Dereg(b))
       /\ \A b, h : Has(todo', Unref(b, h)) <=> Has(todo, Unref(b, h))
       /\ Has(todo', Clear) <=> Has(todo, Clear)
  BY <1>2, <1>3, Distinct
<1>11. /\ \A l \in Kinds : handle'[l] = IF l = k /\ k \notin QpFields THEN 0 ELSE handle[l]
       /\ handle' \in [Kinds -> 0..MaxSetups]
  <2>1. 0 \in 0..MaxSetups
    BY SizeAssumption
  <2> QED BY <1>1, <1>3, <1>4, <2>1
<1>12. /\ alive' \subseteq alive
       /\ \A o \in alive : o # <<k, handle[k]>> => o \in alive'
       /\ handle[k] # 0 /\ <<k, handle[k]>> \in alive' => k = "pd" /\ early
  BY <1>1, <1>6, <1>8
<1>13. /\ \A l \in Kinds : \A e : <<l, e>> \in alive /\ l # k => <<l, e>> \in alive'
       /\ \A b \in Bufs : \A e : <<b, e>> \in alive' <=> <<b, e>> \in alive
  <2>1. \A b \in Bufs : b # k
    BY <1>3, NamesAssumption
  <2>2. \A l, e : l # k => <<l, e>> # <<k, handle[k]>>
    OBVIOUS
  <2> QED BY <1>12, <2>1, <2>2
<1>14. TypeOK'
  BY <1>1, <1>11, <1>12 DEF IInv, TypeOK
<1>15. Listing' /\ Posted'
  BY <1>1, <1>2, <1>10, <1>11 DEF IInv, Control, Listing, Posted
<1>16. Locals'
  <2>1. "listen_id" \in Kinds \ QpFields /\ "ep_fd" \in Kinds \ QpFields
    BY DEF Kinds, QpFields
  <2>2. ASSUME handle'["listen_id"] # 0
        PROVE  /\ Has(todo', Drop("listen_id")) /\ call = "listen" /\ prog # "verbs"
               /\ Has(todo', Clear) => Head(todo') = Drop("listen_id")
    <3>1. handle["listen_id"] # 0 /\ k # "listen_id"
      BY <1>11, <2>1, <2>2
    <3>2. ~Has(todo, Clear)
      BY <1>3, <3>1, Distinct DEF IInv, Control, Locals, Head1
    <3> QED BY <1>10, <3>1, <3>2 DEF IInv, Control, Locals
  <2>3. ASSUME handle'["ep_fd"] # 0
        PROVE  Has(todo', Drop("ep_fd")) /\ call = "listen" /\ prog = "verbs"
    BY <1>10, <1>11, <2>1, <2>3 DEF IInv, Control, Locals
  <2>4. ASSUME NEW l \in {"listen_id", "ep_fd"}, Has(todo, Make(l)) PROVE k # l
    BY <1>1, <1>3, <2>4, Order DEF IInv, Control, Listing
  <2> QED BY <1>1, <1>10, <2>2, <2>3, <2>4 DEF IInv, Control, Locals

<1>17. Fresh'
  <2> SUFFICES ASSUME NEW l \in Kinds, Has(todo', Make(l))
               PROVE  \/ handle'[l] = 0
                      \/ l \in QpFields /\ Has(todo', Clear)
                      \/ l = "mr_fd" /\ Has(todo', Drop(l))
    BY DEF Fresh
  <2>1. \/ handle[l] = 0
        \/ l \in QpFields /\ Has(todo, Clear)
        \/ l = "mr_fd" /\ Has(todo, Drop(l))
    BY <1>10 DEF IInv, Control, Fresh
  <2>2. "mr_fd" \notin QpFields
    BY DEF QpFields
  <2> QED BY <1>10, <1>11, <2>1, <2>2
<1>18. Whole'
  <2>1. handle'["qp"] = handle["qp"] /\ \A l \in QpFields : handle'[l] = handle[l]
    BY <1>11 DEF Kinds, QpFields
  <2>2. Has(todo', Drop("mr_fd")) \/ handle'["mr_fd"] = 0
          \/ ~(Has(todo, Drop("mr_fd")) \/ handle["mr_fd"] = 0)
    BY <1>10, <1>11 DEF Kinds, QpFields
  <2> QED BY <1>1, <1>10, <2>1, <2>2 DEF IInv, Control, Whole, Zero
<1>19. ModeKept' /\ Staged'
  <2>1. \A l \in QpFields : handle'[l] = handle[l]
    BY <1>11 DEF Kinds
  <2>2. /\ handle'["qp"] = handle["qp"] /\ handle'["ctx"] = handle["ctx"]
        /\ handle'["cm_id"] = handle["cm_id"] /\ handle'["ec"] = handle["ec"]
    BY <2>1 DEF QpFields
  <2>3. ModeKept'
    BY <1>1, <1>10, <2>2 DEF IInv, Control, ModeKept
  <2>4. handle["mr_fd"] = 0 => handle'["mr_fd"] = 0
    BY <1>11 DEF Kinds
  <2>5. Staged'
    BY <1>1, <2>1, <2>4 DEF IInv, Control, Staged, Zero
  <2> QED BY <2>3, <2>5
<1>20. Lively'
  <2> SUFFICES ASSUME NEW l \in Kinds, handle'[l] # 0, <<l, handle'[l]>> \notin alive'
               PROVE  l \in QpFields /\ Has(todo', Clear) /\ ~Has(todo', Drop(l))
    BY DEF Lively
  <2>1. handle'[l] = handle[l] /\ (l = k => k \in QpFields)
    BY <1>11
  <2>2. CASE l = k
    BY <1>5, <1>10, <2>1, <2>2
  <2>3. CASE l # k
    <3>1. <<l, handle[l]>> \notin alive
      BY <1>13, <2>1, <2>3
    <3> QED BY <1>10, <2>1, <3>1 DEF IInv, Objects, Lively
  <2> QED BY <2>2, <2>3
<1>21. Known'
  <2> SUFFICES ASSUME NEW l \in Kinds, NEW e \in Setups, <<l, e>> \in alive'
               PROVE  handle'[l] = e \/ (early' /\ l = "pd")
    BY DEF Known
  <2>1. handle[l] = e \/ (early /\ l = "pd")
    BY <1>12 DEF IInv, Objects, Known
  <2>2. e # 0
    BY DEF Setups
  <2>3. ASSUME l = k, k \notin QpFields, handle[l] = e PROVE FALSE
    <3>1. k = "pd"
      BY <1>12, <2>2, <2>3
    <3> QED BY <2>3, <3>1 DEF QpFields
  <2> QED BY <1>1, <1>11, <2>1, <2>3
<1>22. Regions'
  BY <1>1, <1>13 DEF IInv, Objects, Regions
<1>23. Cleared'
  <2> SUFFICES ASSUME Has(todo', Clear), NEW l \in QpFields, handle'[l] # 0,
                      <<l, handle'[l]>> \in alive'
               PROVE  Has(todo', Drop(l)) \/ (early' /\ l = "pd")
    BY DEF Cleared
  <2>1. handle'[l] = handle[l]
    BY <1>11 DEF Kinds
  <2>2. Has(todo, Drop(l)) \/ (early /\ l = "pd")
    BY <1>10, <1>12, <2>1 DEF IInv, Objects, Cleared
  <2>3. l = k => l = "pd" /\ early
    BY <1>12, <2>1
  <2> QED BY <1>1, <1>10, <2>2, <2>3
<1>24. Owned'
  <2>1. handle'["pd"] = handle["pd"]
    BY <1>11 DEF Kinds, QpFields
  <2> QED BY <1>1, <1>10, <2>1 DEF IInv, Objects, Owned, Owner
<1> QED BY <1>9, <1>14, <1>15, <1>16, <1>17, <1>18, <1>19, <1>20, <1>21, <1>22, <1>23, <1>24
        DEF IInv, Control, Objects

(* The memset of rai_qp_destroy: everything the handles named is gone.        *)
LEMMA ClearKeeps ==
  ASSUME IInv, StepClear
  PROVE  IInv'
<1>1. /\ todo # << >> /\ Head1[1] = "clear" /\ Proceed /\ mode' = "cm"
      /\ handle' = [k \in Kinds |-> IF k \in QpFields THEN 0 ELSE handle[k]]
      /\ UNCHANGED <<prog, setups, early, stage, call, failed, alive, reg, refs, wr, faults>>
  BY DEF StepClear, progVars
<1>2. /\ List(todo') /\ (prog' # "python" => DeregFirst(todo'))
      /\ \A x : Has(todo', x) <=> Has(todo, x) /\ x # Head1
      /\ Has(todo, Head1) /\ Head1 \in Steps /\ call # "none" /\ wr = NoWr
  BY <1>1, Stepping DEF IInv, Control
<1>3. Head1 = Clear /\ Has(todo, Clear)
  BY <1>1, <1>2, Names
<1>4. /\ \A k \in QpFields : ~Has(todo, Drop(k))
      /\ \A b \in Bufs : ~Has(todo, Dereg(b))
  BY <1>1, <1>3, Order DEF IInv, Control, Listing
<1>5. /\ \A l : Has(todo', Drop(l)) <=> Has(todo, Drop(l))
      /\ \A l : Has(todo', Make(l)) <=> Has(todo, Make(l))
      /\ \A w : Has(todo', Wait(w)) <=> Has(todo, Wait(w))
      /\ \A b : Has(todo', Dereg(b)) <=> Has(todo, Dereg(b))
      /\ \A b, h : Has(todo', Unref(b, h)) <=> Has(todo, Unref(b, h))
      /\ ~Has(todo', Clear)
  BY <1>2, <1>3, Distinct
<1>6. /\ \A k \in QpFields : handle'[k] = 0
      /\ \A k \in Kinds \ QpFields : handle'[k] = handle[k]
      /\ handle \in [Kinds -> 0..MaxSetups] /\ handle' \in [Kinds -> 0..MaxSetups]
  <2>1. handle \in [Kinds -> 0..MaxSetups] /\ 0 \in 0..MaxSetups
    BY SizeAssumption DEF IInv, TypeOK
  <2>2. \A k \in QpFields : k \in Kinds
    BY DEF Kinds
  <2> QED BY <1>1, <2>1, <2>2
<1>7. \A b \in Bufs : reg[b] # 0 => early
  BY <1>3, <1>4 DEF IInv, Objects, Owned
<1>8. handle["listen_id"] = 0
  BY <1>3, Distinct DEF IInv, Control, Locals, Head1
<1>9. /\ handle'["qp"] = 0 /\ handle'["ctx"] = 0 /\ handle'["cm_id"] = 0 /\ handle'["ec"] = 0
      /\ handle'["listen_id"] = handle["listen_id"] /\ handle'["ep_fd"] = handle["ep_fd"]
      /\ handle'["mr_fd"] = handle["mr_fd"]
  BY <1>6 DEF Kinds, QpFields
<1>10. TypeOK'
  BY <1>1, <1>6 DEF IInv, TypeOK, Bench
<1>11. OrderlyTeardown' /\ Posted'
  BY <1>1, <1>2 DEF IInv, OrderlyTeardown, Posted
<1>12. Listing'
  BY <1>1, <1>2, <1>4, <1>5, <1>6 DEF IInv, Control, Listing
<1>13. Locals'
  BY <1>1, <1>5, <1>8, <1>9 DEF IInv, Control, Locals
<1>14. Fresh'
  BY <1>5, <1>6 DEF IInv, Control, Fresh
<1>15. Whole'
  BY <1>1, <1>3, <1>5, <1>6, <1>9 DEF IInv, Control, Whole, Zero
<1>16. ModeKept'
  BY <1>1, <1>3, <1>5, <1>9 DEF IInv, Control, ModeKept
<1>17. Staged'
  BY <1>1, <1>6, <1>9 DEF IInv, Control, Staged, Zero
<1>18. Lively'
  BY <1>1, <1>6 DEF IInv, Objects, Lively
<1>19. Known'
  <2> SUFFICES ASSUME NEW k \in Kinds, NEW e \in Setups, <<k, e>> \in alive'
               PROVE  handle'[k] = e \/ (early' /\ k = "pd")
    BY DEF Known
  <2>1. handle[k] = e \/ (early /\ k = "pd")
    BY <1>1 DEF IInv, Objects, Known
  <2>2. k \in QpFields /\ handle[k] = e => early /\ k = "pd"
    BY <1>1, <1>3, <1>4 DEF IInv, Objects, Cleared, Setups
  <2> QED BY <1>1, <1>6, <2>1, <2>2
<1>20. Regions' /\ Cleared'
  BY <1>1, <1>5 DEF IInv, Objects, Regions, Cleared
<1>21. Owned'
  <2>1. early => prog = "python"
    BY DEF IInv, Control, ModeKept
  <2> QED BY <1>1, <1>5, <1>7, <2>1 DEF IInv, Objects, Owned
<1> QED BY <1>10, <1>11, <1>12, <1>13, <1>14, <1>15, <1>16, <1>17, <1>18, <1>19, <1>20, <1>21
        DEF IInv, Control, Objects

(* rai_mr_dereg.                                                              *)
LEMMA DeregKeeps ==
  ASSUME IInv, StepDereg
  PROVE  IInv'
<1> DEFINE b == Head1[2]
<1>1. /\ todo # << >> /\ Head1[1] = "dereg" /\ Proceed
      /\ alive' = alive \ {<<b, reg[b]>>} /\ reg' = [reg EXCEPT ![b] = 0]
      /\ UNCHANGED <<prog, setups, early, stage, call, failed, mode, handle, refs, wr, faults>>
  BY DEF StepDereg, progVars
<1>2. /\ List(todo') /\ (prog' # "python" => DeregFirst(todo'))
      /\ \A x : Has(todo', x) <=> Has(todo, x) /\ x # Head1
      /\ Has(todo, Head1) /\ Head1 \in Steps /\ call # "none" /\ wr = NoWr
  BY <1>1, Stepping DEF IInv, Control
<1>3. b \in Bufs /\ Head1 = Dereg(b)
  BY <1>1, <1>2, Names
<1> HIDE DEF b
<1>4. /\ \A l : Has(todo', Drop(l)) <=> Has(todo, Drop(l))
      /\ \A l : Has(todo', Make(l)) <=> Has(todo, Make(l))
      /\ \A w : Has(todo', Wait(w)) <=> Has(todo, Wait(w))
      /\ \A c : Has(todo', Dereg(c)) <=> Has(todo, Dereg(c)) /\ c # b
      /\ \A c, h : Has(todo', Unref(c, h)) <=> Has(todo, Unref(c, h))
      /\ Has(todo', Clear) <=> Has(todo, Clear)
  BY <1>2, <1>3, Distinct
<1>5. /\ reg \in [Bufs -> 0..MaxSetups] /\ reg' \in [Bufs -> 0..MaxSetups]
      /\ \A c \in Bufs : reg'[c] = IF c = b THEN 0 ELSE reg[c]
  <2>1. reg \in [Bufs -> 0..MaxSetups] /\ 0 \in 0..MaxSetups
    BY SizeAssumption DEF IInv, TypeOK
  <2> QED BY <1>1, <1>3, <2>1
<1>6. /\ alive' \subseteq alive
      /\ \A k \in Kinds : \A e : <<k, e>> \in alive' <=> <<k, e>> \in alive
      /\ \A c \in Bufs : \A e : <<c, e>> \in alive' <=> <<c, e>> \in alive /\ ~(c = b /\ e = reg[b])
  <2>1. \A k \in Kinds : k # b
    BY <1>3, NamesAssumption
  <2> QED BY <1>1, <2>1
<1>7. ~Has(todo, Clear) \/ handle["listen_id"] = 0
  BY <1>3, Distinct DEF IInv, Control, Locals, Head1
<1>8. TypeOK'
  BY <1>1, <1>5, <1>6 DEF IInv, TypeOK
<1>9. OrderlyTeardown' /\ Posted' /\ Listing'
  BY <1>1, <1>2, <1>4 DEF IInv, Control, OrderlyTeardown, Posted, Listing
<1>10. Locals' /\ Fresh' /\ Whole'
  BY <1>1, <1>4, <1>7 DEF IInv, Control, Locals, Fresh, Whole, Zero
<1>11. ModeKept' /\ Staged'
  BY <1>1, <1>4, <1>5 DEF IInv, Control, ModeKept, Staged, Zero
<1>12. Lively' /\ Known' /\ Cleared'
  <2>1. QpFields \subseteq Kinds
    BY DEF Kinds
  <2> QED BY <1>1, <1>4, <1>6, <2>1 DEF IInv, Objects, Lively, Known, Cleared
<1>13. Regions'
  <2> SUFFICES ASSUME NEW c \in Bufs, NEW e \in Setups
               PROVE  <<c, e>> \in alive' <=> reg'[c] = e
    BY DEF Regions
  <2>1. e # 0 /\ (<<c, e>> \in alive <=> reg[c] = e)
    BY DEF IInv, Objects, Regions, Setups
  <2>2. <<c, e>> \in alive' <=> <<c, e>> \in alive /\ ~(c = b /\ e = reg[b])
    BY <1>6
  <2> QED BY <1>5, <2>1, <2>2
<1>14. Owned'
  BY <1>1, <1>4, <1>5 DEF IInv, Objects, Owned, Owner
<1> QED BY <1>8, <1>9, <1>10, <1>11, <1>12, <1>13, <1>14 DEF IInv, Control, Objects

(* Memory is given up: that of a region only after its deregistration.        *)
LEMMA UnrefKeeps ==
  ASSUME IInv, StepUnref
  PROVE  IInv'
<1> DEFINE b == Head1[2]
           h == Head1[3]
<1>1. /\ todo # << >> /\ Head1[1] = "unref" /\ Proceed /\ refs' = refs \ {<<b, h>>}
      /\ UNCHANGED <<prog, setups, early, stage, call, failed, mode, handle, alive, reg, wr,
                     faults>>
  BY DEF StepUnref, progVars
<1>2. /\ List(todo') /\ (prog' # "python" => DeregFirst(todo'))
      /\ \A x : Has(todo', x) <=> Has(todo, x) /\ x # Head1
      /\ Has(todo, Head1) /\ Head1 \in Steps /\ call # "none" /\ wr = NoWr
  BY <1>1, Stepping DEF IInv, Control
<1>3. b \in Bufs /\ h \in Holders /\ Head1 = Unref(b, h) /\ Has(todo, Unref(b, h))
  BY <1>1, <1>2, Names
<1> HIDE DEF b, h
<1>4. /\ \A l : Has(todo', Drop(l)) <=> Has(todo, Drop(l))
      /\ \A l : Has(todo', Make(l)) <=> Has(todo, Make(l))
      /\ \A w : Has(todo', Wait(w)) <=> Has(todo, Wait(w))
      /\ \A c : Has(todo', Dereg(c)) <=> Has(todo, Dereg(c))
      /\ \A c, g : Has(todo', Unref(c, g)) => Has(todo, Unref(c, g))
      /\ Has(todo', Clear) <=> Has(todo, Clear)
  BY <1>2, <1>3, Distinct
<1>5. prog # "python" => reg[b] = 0
  <2>1. prog # "python" => ~Has(todo, Dereg(b))
    BY <1>1, <1>3, Order DEF IInv, Control, Listing
  <2> QED BY <1>3, <2>1 DEF IInv, Objects, Owned
<1>6. ~Has(todo, Clear) \/ handle["listen_id"] = 0
  BY <1>3, Distinct DEF IInv, Control, Locals, Head1
<1>7. TypeOK' /\ OrderlyTeardown' /\ Posted' /\ Listing'
  BY <1>1, <1>2, <1>4 DEF IInv, Control, TypeOK, OrderlyTeardown, Posted, Listing
<1>8. Locals' /\ Fresh' /\ Whole'
  BY <1>1, <1>4, <1>6 DEF IInv, Control, Locals, Fresh, Whole, Zero
<1>9. ModeKept' /\ Staged'
  BY <1>1, <1>4 DEF IInv, Control, ModeKept, Staged, Zero
<1>10. Lively' /\ Known' /\ Regions' /\ Cleared'
  BY <1>1, <1>4 DEF IInv, Objects, Lively, Known, Regions, Cleared
<1>11. Owned'
  <2>1. \A c \in Bufs : \A g : <<c, g>> \in refs /\ c # b => <<c, g>> \in refs'
    BY <1>1
  <2> QED BY <1>1, <1>4, <1>5, <2>1 DEF IInv, Objects, Owned, Owner
<1> QED BY <1>7, <1>8, <1>9, <1>10, <1>11 DEF IInv, Control, Objects

(* A call returns when its list is empty.                                     *)
LEMMA ReturnKeeps ==
  ASSUME IInv, Return
  PROVE  IInv'
<1>1. /\ call # "none" /\ todo = << >> /\ call' = "none"
      /\ UNCHANGED <<prog, setups, early, todo, failed, mode, handle, alive, reg, refs, wr,
                     faults>>
  BY DEF Return, progVars
<1>2. List(todo) /\ DeregFirst(todo) /\ todo' = << >> /\ \A x : ~Has(todo, x)
  BY <1>1, Nothing
<1>3. \/ call = "drop" /\ stage' = stage
      \/ call = "close" /\ stage' = IF stage = "out" THEN "exit" ELSE "new"
      \/ call = "accept" /\ stage' \in {stage, "out", "live"}
      \/ call \in SetUps /\ stage' \in {"listening", "live", "out"}
      \/ call \in SetUps /\ failed /\ prog \notin Bench /\ stage' = "new"
  <2>1. call \in {"drop", "close", "accept", "listen", "connect"} /\ failed \in BOOLEAN
    BY <1>1 DEF IInv, TypeOK
  <2>2. CASE call = "drop"
    BY <2>2 DEF Return
  <2>3. CASE call = "close"
    BY <2>3 DEF Return
  <2>4. CASE call = "accept"
    BY <2>1, <2>4 DEF Return
  <2>5. CASE call \in SetUps
    BY <2>1, <2>5 DEF Return, SetUps
  <2> QED BY <2>1, <2>2, <2>3, <2>4, <2>5 DEF SetUps
<1>4. handle["qp"] # 0 \/ Zero
  BY <1>1, <1>2 DEF IInv, TypeOK, Control, Whole, SetUps
<1>5. handle["listen_id"] = 0 /\ handle["ep_fd"] = 0
  BY <1>2 DEF IInv, Control, Locals
<1>6. TypeOK' /\ OrderlyTeardown' /\ Posted'
  <2>1. stage' \in {"new", "listening", "live", "out", "exit"}
    BY <1>3 DEF IInv, TypeOK
  <2>2. wr = NoWr
    BY <1>1 DEF IInv, Control, Listing
  <2> QED BY <1>1, <2>1, <2>2 DEF IInv, TypeOK, OrderlyTeardown, Posted
<1>7. Listing'
  BY <1>1, <1>2 DEF IInv, Control, Listing, SetUps
<1>8. Locals' /\ Fresh' /\ Whole' /\ ModeKept'
  BY <1>1, <1>2, <1>4, <1>5 DEF IInv, Control, Locals, Fresh, Whole, ModeKept, Zero, SetUps
<1>9. Staged'
  <2>1. ASSUME stage' = "exit"
        PROVE  Zero /\ handle["mr_fd"] = 0 /\ \A b \in Bufs : reg[b] = 0
    <3>1. CASE call = "close" /\ stage = "out"
      BY <1>2, <3>1 DEF IInv, Control, Whole, Objects, Owned
    <3>2. CASE stage = "exit"
      BY <3>2 DEF IInv, Control, Staged
    <3> QED BY <1>3, <2>1, <3>1, <3>2
  <2> QED BY <1>1, <2>1 DEF Staged, SetUps, Zero
<1>10. Lively' /\ Known' /\ Regions' /\ Cleared'
  BY <1>1, <1>2 DEF IInv, Objects, Lively, Known, Regions, Cleared
<1>11. Owned'
  <2>1. ASSUME NEW b \in Bufs, reg[b] # 0, prog # "python" PROVE stage' # "new"
    <3>1. stage # "new" /\ call \notin SetUps
      BY <2>1 DEF IInv, Objects, Owned, Control, Staged
    <3>2. call = "close" => stage = "out"
      BY <2>1 DEF IInv, Control, Staged
    <3> QED BY <1>3, <3>1, <3>2
  <2> QED BY <1>1, <1>2, <2>1 DEF IInv, Objects, Owned, Owner, SetUps
<1> QED BY <1>6, <1>7, <1>8, <1>9, <1>10, <1>11 DEF IInv, Control, Objects

-----------------------------------------------------------------------------
(* The programs *)

(* Between calls every handle is of an object that exists.                    *)
LEMMA Idle ==
  ASSUME IInv, call = "none"
  PROVE  /\ todo = << >> /\ \A x : ~Has(todo, x)
         /\ handle["listen_id"] = 0 /\ handle["ep_fd"] = 0
         /\ handle["qp"] # 0 \/ Zero
         /\ \A k \in QpFields : handle[k] # 0 => k \in DownFields
         /\ \A k \in Kinds : handle[k] # 0 => <<k, handle[k]>> \in alive
<1>1. todo = << >> /\ \A x : ~Has(todo, x)
  BY Nothing DEF IInv, Control, Listing
<1>2. handle["listen_id"] = 0 /\ handle["ep_fd"] = 0
  BY <1>1 DEF IInv, Control, Locals
<1>3. handle["qp"] # 0 \/ Zero
  BY DEF IInv, Control, Whole
<1>4. \A k \in QpFields : handle[k] # 0 => k \in DownFields
  BY DEF IInv, Control, ModeKept, DownFields, QpFields
<1>5. \A k \in Kinds : handle[k] # 0 => <<k, handle[k]>> \in alive
  BY <1>1 DEF IInv, Objects, Lively
<1> QED BY <1>1, <1>2, <1>3, <1>4, <1>5

(* listen and connect, with the list they begin with.                         *)
LEMMA SetUpKeeps ==
  ASSUME IInv, NEW c \in SetUps, NEW U, SetUp(c, U), Rising(U),
         prog # "verbs" =>
           /\ RaisesCm(U)
           /\ Has(U, Make("listen_id")) => c = "listen" /\ Has(U, Drop("listen_id")),
         prog = "verbs" => /\ RaisesVerbs(U)
                           /\ Has(U, Make("ep_fd")) => c = "listen" /\ Has(U, Drop("ep_fd"))
  PROVE  IInv'
<1>1. /\ stage = "new" \/ (prog = "python" /\ stage # "exit")
      /\ setups < MaxSetups /\ (prog \in Bench => setups = 0) /\ setups' = setups + 1
      /\ call = "none" /\ call' = c /\ failed' = FALSE /\ wr' = NoWr
      /\ todo' = IF prog \in Bench THEN U ELSE Renew \o U
      /\ mode' = IF prog = "verbs" THEN "verbs" ELSE "cm"
      /\ early' = (early \/ Registered # {})
      /\ UNCHANGED <<prog, stage, handle, alive, reg, refs, faults>>
  BY DEF SetUp, Begin
<1>2. /\ \A x : ~Has(todo, x)
      /\ handle["listen_id"] = 0 /\ handle["ep_fd"] = 0
      /\ handle["qp"] # 0 \/ Zero
      /\ \A k \in QpFields : handle[k] # 0 => k \in DownFields
      /\ \A k \in Kinds : handle[k] # 0 => <<k, handle[k]>> \in alive
  BY <1>1, Idle
<1>3. prog \in Bench => \A k \in Kinds : handle[k] = 0
  BY <1>1 DEF IInv, Control, Listing
<1> DEFINE again == prog \notin Bench /\ handle["qp"] # 0
<1>4. /\ List(todo') /\ DeregFirst(todo')
      /\ \A x : Has(todo', x) <=>
           \/ Has(U, x)
           \/ prog \notin Bench /\ x = Drop("mr_fd")
           \/ again /\ (x = Clear \/ \E k \in DownFields : x = Drop(k))
  <2>1. CASE prog \in Bench
    <3>1. todo' = U /\ \A x : Has(U, x) => x[1] # "unref"
      BY <1>1, <2>1, Parts DEF Rising
    <3> QED BY <2>1, <3>1, NoUnref DEF Rising
  <2>2. CASE prog \notin Bench
    <3>1. todo' = Renew \o U
      BY <1>1, <2>2
    <3> QED BY <2>2, <3>1, RenewList
  <2> QED BY <2>1, <2>2
<1> HIDE DEF again
<1>5. /\ \A l : Has(todo', Make(l)) <=> Has(U, Make(l))
      /\ \A w : Has(todo', Wait(w)) <=> Has(U, Wait(w))
      /\ \A b : ~Has(todo', Dereg(b))
      /\ \A b, h : ~Has(todo', Unref(b, h))
      /\ Has(todo', Clear) <=> again
      /\ \A l \in QpFields : Has(todo', Drop(l)) <=> again /\ l \in DownFields
      /\ prog \notin Bench => Has(todo', Drop("mr_fd"))
      /\ \A l : Has(U, Drop(l)) => Has(todo', Drop(l))
  <2>1. /\ \A b : ~Has(U, Dereg(b))
        /\ \A b, h : ~Has(U, Unref(b, h))
        /\ ~Has(U, Clear)
        /\ \A l \in QpFields : ~Has(U, Drop(l))
    BY Distinct DEF Rising, QpFields
  <2>2. \A l \in QpFields : l # "mr_fd"
    BY DEF QpFields
  <2> QED BY <1>4, <2>1, <2>2, Distinct
<1>6. \A b \in Bufs : reg[b] # 0 => prog = "python" /\ early'
  <2>1. \A b \in Bufs : reg[b] # 0 => Registered # {}
    BY DEF Registered
  <2> QED BY <1>1, <2>1 DEF IInv, Objects, Owned
<1>7. again => prog # "verbs"
  BY DEF again, Bench
<1>8. TypeOK' /\ OrderlyTeardown' /\ Posted'
  <2>1. setups + 1 \in 0..MaxSetups
    BY <1>1, SizeAssumption DEF IInv, TypeOK
  <2>2. mode' \in Bench /\ failed' \in BOOLEAN /\ early' \in BOOLEAN
    BY <1>1 DEF Bench, IInv, TypeOK
  <2>3. call' \in {"none", "listen", "accept", "connect", "close", "drop"}
    BY <1>1 DEF SetUps
  <2> QED BY <1>1, <2>1, <2>2, <2>3 DEF IInv, TypeOK, OrderlyTeardown, Posted
<1>9. Listing'
  <2>1. setups' # 0 /\ call' # "none" /\ call' \in SetUps /\ call' \notin {"none", "accept", "drop"}
    BY <1>1 DEF IInv, TypeOK, SetUps
  <2> QED BY <1>1, <1>4, <1>5, <2>1 DEF Listing
<1>10. Locals'
  BY <1>1, <1>2, <1>5 DEF Locals, RaisesCm, RaisesVerbs
<1>11. Fresh'
  <2> SUFFICES ASSUME NEW k \in Kinds, Has(todo', Make(k)), handle[k] # 0
               PROVE  \/ k \in QpFields /\ Has(todo', Clear)
                      \/ k = "mr_fd" /\ Has(todo', Drop(k))
    BY <1>1 DEF Fresh
  <2>1. prog \notin Bench
    BY <1>3
  <2>2. k \in QpFields \/ k = "mr_fd"
    BY <1>2 DEF Kinds
  <2>3. k \in QpFields => again
    BY <1>2, <2>1 DEF again, Zero
  <2> QED BY <1>5, <2>1, <2>2, <2>3
<1>12. Whole'
  BY <1>1, <1>5 DEF Whole, SetUps, RaisesCm, RaisesVerbs
<1>13. ModeKept'
  <2>1. prog = "verbs" => /\ \A k \in Kinds : handle[k] = 0
                          /\ ~again /\ mode' = "verbs"
    BY <1>1, <1>3, <1>7 DEF Bench
  <2>2. prog # "verbs" => handle["ctx"] = 0 /\ (handle["qp"] # 0 => handle["cm_id"] # 0)
    BY DEF IInv, Control, ModeKept
  <2>3. early' => prog = "python"
    <3>1. Registered # {} => \E b \in Bufs : reg[b] # 0
      BY DEF Registered
    <3> QED BY <1>1, <1>6, <3>1 DEF IInv, Control, ModeKept
  <2>4. CASE prog = "verbs"
    BY <1>1, <1>5, <2>1, <2>3, <2>4 DEF ModeKept, RaisesVerbs, Kinds, QpFields
  <2>5. CASE prog # "verbs"
    BY <1>1, <1>5, <2>2, <2>3, <2>5 DEF ModeKept, RaisesCm
  <2> QED BY <2>4, <2>5
<1>14. Staged'
  BY <1>1 DEF IInv, Control, Staged, SetUps
<1>15. Lively' /\ Known' /\ Regions'
  BY <1>1, <1>2 DEF IInv, Objects, Lively, Known, Regions
<1>16. Cleared'
  BY <1>1, <1>2, <1>5 DEF Cleared
<1>17. Owned'
  BY <1>1, <1>5, <1>6 DEF Owned, SetUps
<1> QED BY <1>8, <1>9, <1>10, <1>11, <1>12, <1>13, <1>14, <1>15, <1>16, <1>17
        DEF IInv, Control, Objects

(* The four set-ups.                                                          *)
LEMMA SetUpsKeep ==
  ASSUME IInv, Listen \/ Connect
  PROVE  IInv'
<1>1. CASE Listen
  <2>1. CASE prog = "verbs"
    <3>1. SetUp("listen", rai_verbs_listen_qp)
      BY <1>1, <2>1 DEF Listen, ListenSteps
    <3> QED BY <2>1, <3>1, SetUpKeeps, VerbsListen DEF SetUps
  <2>2. CASE prog # "verbs"
    <3>1. SetUp("listen", rai_cm_listen_qp)
      BY <1>1, <2>2 DEF Listen, ListenSteps
    <3> QED BY <2>2, <3>1, SetUpKeeps, CmListen DEF SetUps
  <2> QED BY <2>1, <2>2
<1>2. CASE Connect
  <2>1. CASE prog = "verbs"
    <3>1. SetUp("connect", rai_verbs_connect_qp)
      BY <1>2, <2>1 DEF Connect, ConnectSteps
    <3> QED BY <2>1, <3>1, SetUpKeeps, VerbsConnect DEF SetUps
  <2>2. CASE prog # "verbs"
    <3>1. SetUp("connect", rai_cm_connect_qp)
      BY <1>2, <2>2 DEF Connect, ConnectSteps
    <3> QED BY <2>2, <3>1, SetUpKeeps, CmConnect DEF SetUps
  <2> QED BY <2>1, <2>2
<1> QED BY <1>1, <1>2

(* A call that closes everything.                                             *)
LEMMA CloseKeeps ==
  ASSUME IInv, NEW t, Begin("close", t), List(t), DeregFirst(t),
         Has(t, Clear), \A k \in DownFields : Has(t, Drop(k)), Has(t, Drop("mr_fd")),
         \A k : ~Has(t, Make(k)) /\ ~Has(t, Wait(k)),
         UNCHANGED <<prog, setups, mode, handle, alive, reg, refs, faults>>,
         early' \in BOOLEAN, early => early', early' => prog = "python",
         stage # "exit", stage' \in {stage, "out"}, prog # "python" => stage' = "out",
         \A b \in Bufs : reg[b] # 0 => /\ early' \/ Has(t, Dereg(b))
                                       /\ prog # "python" \/ stage' = "out" => Has(t, Dereg(b))
  PROVE  IInv'
<1>1. call = "none" /\ call' = "close" /\ todo' = t /\ failed' = FALSE /\ wr' = NoWr
  BY DEF Begin
<1>2. /\ handle["listen_id"] = 0 /\ handle["ep_fd"] = 0
      /\ \A k \in QpFields : handle[k] # 0 => k \in DownFields
      /\ \A k \in Kinds : handle[k] # 0 => <<k, handle[k]>> \in alive
  BY <1>1, Idle
<1>3. TypeOK' /\ OrderlyTeardown' /\ Posted'
  BY <1>1 DEF IInv, TypeOK, OrderlyTeardown, Posted
<1>4. Listing'
  BY <1>1 DEF IInv, Control, Listing, SetUps
<1>5. Locals' /\ Fresh' /\ Whole'
  BY <1>1, <1>2 DEF Locals, Fresh, Whole, SetUps
<1>6. ModeKept' /\ Staged'
  BY <1>1 DEF IInv, Control, ModeKept, Staged, SetUps
<1>7. Lively' /\ Known' /\ Regions'
  BY <1>2 DEF IInv, Objects, Lively, Known, Regions
<1>8. Cleared'
  BY <1>1, <1>2 DEF Cleared
<1>9. Owned'
  BY <1>1 DEF IInv, Objects, Owned, Owner, SetUps
<1> QED BY <1>3, <1>4, <1>5, <1>6, <1>7, <1>8, <1>9 DEF IInv, Control, Objects

(* The exit path of a benchmark.                                              *)
LEMMA BenchOutKeeps ==
  ASSUME IInv, NEW b \in Bufs, BenchOut(b)
  PROVE  IInv'
<1> DEFINE t == <<Drop("mr_fd")>> \o DeregAndFree(b, "mr") \o rai_qp_destroy
<1>1. /\ prog \in Bench /\ stage \in {"out", "live"} /\ Registered \subseteq {b}
      /\ Begin("close", t) /\ stage' = "out"
      /\ UNCHANGED <<prog, setups, early, mode, handle, alive, reg, refs, faults>>
  BY DEF BenchOut, progVars
<1>2. /\ List(t) /\ DeregFirst(t)
      /\ \A x : Has(t, x) <=> \/ x \in {Drop("mr_fd"), Dereg(b), Unref(b, "mr"), Clear}
                              \/ \E k \in DownFields : x = Drop(k)
  BY BenchList
<1> HIDE DEF t
<1>3. /\ Has(t, Clear) /\ \A k \in DownFields : Has(t, Drop(k))
      /\ Has(t, Drop("mr_fd")) /\ Has(t, Dereg(b))
      /\ \A k : ~Has(t, Make(k)) /\ ~Has(t, Wait(k))
  BY <1>2, Distinct
<1>4. \A c \in Bufs : reg[c] # 0 => c = b
  BY <1>1 DEF Registered
<1>5. early' \in BOOLEAN /\ (early => early') /\ (early' => prog = "python") /\ stage # "exit"
  BY <1>1 DEF IInv, TypeOK, Control, ModeKept
<1> QED BY <1>1, <1>2, <1>3, <1>4, <1>5, CloseKeeps

(* close and the destructor of RdmaTransport.                                 *)
LEMMA TransportKeeps ==
  ASSUME IInv, ScopedOut \/ PyClose \/ PyDelete
  PROVE  IInv'
<1> DEFINE t == TransportClose
<1>1. /\ prog \notin Bench /\ stage # "exit" /\ Begin("close", t)
      /\ stage' \in {stage, "out"}
      /\ UNCHANGED <<prog, setups, mode, handle, alive, reg, refs, faults>>
  BY DEF ScopedOut, PyClose, PyDelete, progVars, Bench
<1>2. /\ List(t) /\ DeregFirst(t)
      /\ \A x : Has(t, x) <=> x \in {Drop("mr_fd"), Clear} \/ \E k \in DownFields : x = Drop(k)
  BY DownThenDrop DEF TransportClose
<1> HIDE DEF t
<1>3. /\ Has(t, Clear) /\ (\A k \in DownFields : Has(t, Drop(k))) /\ Has(t, Drop("mr_fd"))
      /\ \A k : ~Has(t, Make(k)) /\ ~Has(t, Wait(k))
  BY <1>2, Distinct
<1>4. \A b \in Bufs : reg[b] # 0 => Registered # {}
  BY DEF Registered
<1>5. /\ early' \in BOOLEAN /\ (early => early') /\ (early' => prog = "python")
      /\ prog # "python" => stage' = "out"
      /\ \A b \in Bufs : reg[b] # 0 => early' /\ prog = "python" /\ stage' # "out"
  <2>0. early \in BOOLEAN /\ (early => prog = "python")
    BY DEF IInv, TypeOK, Control, ModeKept
  <2>1. CASE ScopedOut
    <3>1. \A b \in Bufs : reg[b] = 0
      BY <2>1 DEF ScopedOut, IInv, Objects, Owned
    <3> QED BY <2>0, <2>1, <3>1 DEF ScopedOut, progVars
  <2>2. CASE PyClose
    BY <1>4, <2>0, <2>2 DEF PyClose
  <2>3. CASE PyDelete
    BY <1>4, <2>0, <2>3 DEF PyDelete, progVars
  <2> QED BY <2>1, <2>2, <2>3
<1> QED BY <1>1, <1>2, <1>3, <1>5, CloseKeeps

(* A buffer or a name goes out of scope.                                      *)
LEMMA BufferKeeps ==
  ASSUME IInv, NEW t, Begin("drop", t), List(t),
         \A x : Has(t, x) => x[1] \in {"dereg", "unref"},
         UNCHANGED <<progVars, mode, handle, alive, reg, refs, faults>>,
         stage' = stage \/ (stage' = "out" /\ stage # "exit"),
         prog # "python" =>
           /\ DeregFirst(t)
           /\ \A b \in Bufs, h \in Holders : Has(t, Unref(b, h)) => Has(t, Dereg(b))
  PROVE  IInv'
<1>1. /\ call = "none" /\ call' = "drop" /\ todo' = t /\ failed' = FALSE /\ wr' = NoWr
      /\ prog' = prog /\ setups' = setups /\ early' = early
  BY DEF Begin, progVars
<1>2. /\ handle["listen_id"] = 0 /\ handle["ep_fd"] = 0
      /\ handle["qp"] # 0 \/ Zero
      /\ \A k \in Kinds : handle[k] # 0 => <<k, handle[k]>> \in alive
  BY <1>1, Idle
<1>3. ~Has(t, Clear) /\ \A k : ~Has(t, Make(k)) /\ ~Has(t, Wait(k)) /\ ~Has(t, Drop(k))
  BY Parts
<1>4. TypeOK' /\ OrderlyTeardown' /\ Posted'
  BY <1>1 DEF IInv, TypeOK, OrderlyTeardown, Posted
<1>5. Listing'
  BY <1>1, <1>3 DEF IInv, Control, Listing, SetUps
<1>6. Locals' /\ Fresh' /\ Whole'
  BY <1>1, <1>2, <1>3 DEF Locals, Fresh, Whole, SetUps, Zero
<1>7. ModeKept' /\ Staged'
  BY <1>1, <1>3 DEF IInv, Control, ModeKept, Staged, SetUps, Zero
<1>8. Lively' /\ Known' /\ Regions' /\ Cleared'
  BY <1>1, <1>2, <1>3 DEF IInv, Objects, Lively, Known, Regions, Cleared
<1>9. Owned'
  BY <1>1, <1>3 DEF IInv, Objects, Owned, Owner, SetUps
<1> QED BY <1>4, <1>5, <1>6, <1>7, <1>8, <1>9 DEF IInv, Control, Objects

(* In C++ the region goes first, in Python the reference to the memory does.  *)
LEMMA BuffersKeep ==
  ASSUME IInv, NEW b \in Bufs, ScopedDrop(b) \/ PyDropBuffer(b) \/ PyDropName(b)
  PROVE  IInv'
<1>1. CASE ScopedDrop(b)
  <2>1. /\ prog = "scoped" /\ stage # "exit" /\ stage' = "out"
        /\ Begin("drop", DeregAndFree(b, "name"))
        /\ UNCHANGED <<progVars, mode, handle, alive, reg, refs, faults>>
    BY <1>1 DEF ScopedDrop
  <2> DEFINE t == DeregAndFree(b, "name")
  <2>2. List(t) /\ DeregFirst(t) /\ \A x : Has(t, x) <=> x \in {Dereg(b), Unref(b, "name")}
    BY Freeing DEF Holders
  <2> HIDE DEF t
  <2>3. /\ \A x : Has(t, x) => x[1] \in {"dereg", "unref"}
        /\ \A c \in Bufs, h \in Holders : Has(t, Unref(c, h)) => Has(t, Dereg(c))
    <3>1. \A c, h : Unref(c, h) = Unref(b, "name") => c = b
      BY Parts
    <3> QED BY <2>2, <3>1, Parts, Distinct
  <2>4. Begin("drop", t)
    BY <2>1 DEF t
  <2> QED BY <2>1, <2>2, <2>3, <2>4, BufferKeeps
<1>2. CASE PyDropBuffer(b)
  <2> DEFINE t == <<Unref(b, "source"), Dereg(b)>>
  <2>1. /\ prog = "python" /\ Begin("drop", t)
        /\ UNCHANGED <<progVars, stage, mode, handle, alive, reg, refs, faults>>
    BY <1>2 DEF PyDropBuffer
  <2>2. List(t) /\ \A x : Has(t, x) <=> x \in {Unref(b, "source"), Dereg(b)}
    <3>1. Unref(b, "source") \in Steps /\ Dereg(b) \in Steps /\ Apart(Unref(b, "source"), Dereg(b))
      BY StepsIn, RegionAparts DEF Holders, Kinds, QpFields
    <3> QED BY <3>1, Two
  <2> HIDE DEF t
  <2>3. \A x : Has(t, x) => x[1] \in {"dereg", "unref"}
    BY <2>2, Parts
  <2> QED BY <2>1, <2>2, <2>3, BufferKeeps
<1>3. CASE PyDropName(b)
  <2> DEFINE t == <<Unref(b, "name")>>
  <2>1. /\ prog = "python" /\ Begin("drop", t)
        /\ UNCHANGED <<progVars, stage, mode, handle, alive, reg, refs, faults>>
    BY <1>3 DEF PyDropName
  <2>2. List(t) /\ \A x : Has(t, x) <=> x = Unref(b, "name")
    BY StepsIn, One DEF Holders
  <2> HIDE DEF t
  <2>3. \A x : Has(t, x) => x[1] \in {"dereg", "unref"}
    BY <2>2, Parts
  <2> QED BY <2>1, <2>2, <2>3, BufferKeeps
<1> QED BY <1>1, <1>2, <1>3

(* accept only waits.                                                         *)
LEMMA AcceptKeeps ==
  ASSUME IInv, Accept
  PROVE  IInv'
<1> DEFINE w == IF prog = "verbs" THEN "rts" ELSE "established"
           t == <<Wait(w)>>
<1>1. /\ stage # "exit" /\ (prog # "python" => stage = "listening")
      /\ call = "none" /\ call' = "accept" /\ todo' = t
      /\ failed' = FALSE /\ wr' = NoWr
      /\ UNCHANGED <<prog, setups, early, stage, mode, handle, alive, reg, refs, faults>>
  BY DEF Accept, Begin, AcceptSteps, progVars
<1>2. List(t) /\ DeregFirst(t) /\ \A x : Has(t, x) <=> x = Wait(w)
  <2>1. Wait(w) \in Steps
    BY StepsIn DEF Waits
  <2> QED BY <2>1, One
<1> HIDE DEF t, w
<1>3. /\ ~Has(t, Clear) /\ \A k : ~Has(t, Make(k)) /\ ~Has(t, Drop(k)) /\ ~Has(t, Dereg(k))
      /\ \A b, h : ~Has(t, Unref(b, h))
  BY <1>2, Distinct
<1>4. /\ handle["listen_id"] = 0 /\ handle["ep_fd"] = 0
      /\ handle["qp"] # 0 \/ Zero
      /\ \A k \in Kinds : handle[k] # 0 => <<k, handle[k]>> \in alive
  BY <1>1, Idle
<1>5. TypeOK' /\ OrderlyTeardown' /\ Posted'
  BY <1>1 DEF IInv, TypeOK, OrderlyTeardown, Posted
<1>6. Listing'
  BY <1>1, <1>2, <1>3 DEF IInv, Control, Listing, SetUps
<1>7. Locals' /\ Fresh' /\ Whole'
  BY <1>1, <1>3, <1>4 DEF Locals, Fresh, Whole, SetUps, Zero
<1>8. ModeKept' /\ Staged'
  BY <1>1, <1>3 DEF IInv, Control, ModeKept, Staged, SetUps, Zero
<1>9. Lively' /\ Known' /\ Regions' /\ Cleared'
  BY <1>1, <1>3, <1>4 DEF IInv, Objects, Lively, Known, Regions, Cleared
<1>10. Owned'
  BY <1>1, <1>3 DEF IInv, Objects, Owned, Owner, SetUps
<1> QED BY <1>5, <1>6, <1>7, <1>8, <1>9, <1>10 DEF IInv, Control, Objects

(* A process that ends leaves nothing.                                        *)
LEMMA AcceptNullKeeps ==
  ASSUME IInv, PyAcceptNull
  PROVE  IInv'
<1>1. /\ prog = "python" /\ call = "none" /\ stage' = "exit"
      /\ handle' = [k \in Kinds |-> 0] /\ alive' = {} /\ reg' = [b \in Bufs |-> 0]
      /\ refs' = {} /\ wr' = NoWr
      /\ UNCHANGED <<prog, setups, early, call, todo, failed, mode, faults>>
  BY DEF PyAcceptNull, progVars
<1>2. todo = << >> /\ \A x : ~Has(todo, x)
  BY <1>1, Idle
<1>3. /\ \A k \in Kinds : handle'[k] = 0
      /\ \A b \in Bufs : reg'[b] = 0
  BY <1>1
<1>4. TypeOK'
  <2>1. 0 \in 0..MaxSetups
    BY SizeAssumption
  <2>2. handle' \in [Kinds -> 0..MaxSetups] /\ reg' \in [Bufs -> 0..MaxSetups]
    BY <1>1, <2>1
  <2> QED BY <1>1, <2>2 DEF IInv, TypeOK
<1>5. OrderlyTeardown' /\ Posted' /\ Listing'
  BY <1>1, <1>2 DEF IInv, Control, OrderlyTeardown, Posted, Listing
<1>6. Locals' /\ Fresh' /\ Whole' /\ Staged'
  BY <1>1, <1>2, <1>3 DEF Locals, Fresh, Whole, Staged, Zero, SetUps, Kinds, QpFields
<1>7. ModeKept'
  BY <1>1, <1>2, <1>3 DEF IInv, Control, ModeKept, Kinds, QpFields
<1>8. Lively' /\ Known' /\ Regions' /\ Cleared' /\ Owned'
  BY <1>1, <1>2, <1>3 DEF Lively, Known, Regions, Cleared, Owned, Setups
<1> QED BY <1>4, <1>5, <1>6, <1>7, <1>8 DEF IInv, Control, Objects

(* A buffer is registered in the PD of the set-up there is.                   *)
LEMMA RegKeeps ==
  ASSUME IInv, NEW b \in Bufs, Reg(b)
  PROVE  IInv'
<1>1. /\ call = "none" /\ stage \in {"listening", "live"} /\ reg[b] = 0
      /\ prog \in {"scoped", "python"} => <<b, "name">> \in refs
      /\ handle["pd"] # 0 /\ reg' = [reg EXCEPT ![b] = handle["pd"]]
      /\ alive' = alive \cup {<<b, handle["pd"]>>} /\ refs' = refs \cup Holder(b) /\ wr' = NoWr
      /\ UNCHANGED <<prog, setups, early, stage, call, todo, failed, mode, handle, faults>>
  BY DEF Reg, progVars
<1>2. todo = << >> /\ \A x : ~Has(todo, x)
  BY <1>1, Idle
<1>3. handle["pd"] \in Setups /\ reg \in [Bufs -> 0..MaxSetups]
      /\ handle \in [Kinds -> 0..MaxSetups] /\ prog \in {"cm", "verbs", "scoped", "python"}
  <2>1. handle \in [Kinds -> 0..MaxSetups] /\ reg \in [Bufs -> 0..MaxSetups] /\ "pd" \in Kinds
    BY DEF IInv, TypeOK, Kinds, QpFields
  <2>2. prog \in {"cm", "verbs", "scoped", "python"}
    BY NamesAssumption DEF IInv, TypeOK
  <2> QED BY <1>1, <2>1, <2>2, SizeAssumption DEF Setups
<1>4. /\ \A c \in Bufs : reg'[c] = IF c = b THEN handle["pd"] ELSE reg[c]
      /\ reg' \in [Bufs -> 0..MaxSetups]
  BY <1>1, <1>3 DEF Setups
<1>5. /\ \A k \in Kinds : \A e : <<k, e>> \in alive' <=> <<k, e>> \in alive
      /\ \A c \in Bufs : \A e : <<c, e>> \in alive' <=>
           <<c, e>> \in alive \/ (c = b /\ e = handle["pd"])
  <2>1. \A k \in Kinds : k # b
    BY NamesAssumption
  <2> QED BY <1>1, <2>1
<1>6. TypeOK'
  <2>1. alive' \subseteq (Kinds \cup Bufs) \X Setups
    BY <1>1, <1>3 DEF IInv, TypeOK
  <2>2. refs' \subseteq Bufs \X {"name", "source", "mr"}
    <3>1. Holder(b) \subseteq Bufs \X {"name", "source", "mr"}
      BY DEF Holder, Bench
    <3> QED BY <1>1, <3>1 DEF IInv, TypeOK
  <2> QED BY <1>1, <1>4, <2>1, <2>2 DEF IInv, TypeOK
<1>7. OrderlyTeardown' /\ Posted' /\ Listing'
  BY <1>1 DEF IInv, Control, OrderlyTeardown, Posted, Listing
<1>8. Locals' /\ Fresh' /\ Whole' /\ ModeKept'
  BY <1>1 DEF IInv, Control, Locals, Fresh, Whole, ModeKept, Zero
<1>9. Staged'
  BY <1>1 DEF IInv, Control, Staged
<1>10. Lively' /\ Known' /\ Cleared'
  BY <1>1, <1>2, <1>5 DEF IInv, Objects, Lively, Known, Cleared
<1>11. Regions'
  <2> SUFFICES ASSUME NEW c \in Bufs, NEW e \in Setups
               PROVE  <<c, e>> \in alive' <=> reg'[c] = e
    BY DEF Regions
  <2>1. e # 0 /\ (<<c, e>> \in alive <=> reg[c] = e)
    BY DEF IInv, Objects, Regions, Setups
  <2> QED BY <1>1, <1>4, <1>5, <2>1
<1>12. Owned'
  <2>1. prog # "python" => <<b, Owner>> \in refs'
    BY <1>1, <1>3 DEF Owner, Holder, Bench
  <2>2. refs \subseteq refs'
    BY <1>1
  <2> QED BY <1>1, <1>2, <1>4, <2>1, <2>2 DEF IInv, Objects, Owned, Owner, SetUps
<1> QED BY <1>6, <1>7, <1>8, <1>9, <1>10, <1>11, <1>12 DEF IInv, Control, Objects

(* A registration that fails sends the program to its exit path.              *)
LEMMA RegFailsKeeps ==
  ASSUME IInv, RegFails
  PROVE  IInv'
<1>1. /\ call = "none" /\ stage \in {"listening", "live"} /\ stage' = "out"
      /\ UNCHANGED <<prog, setups, early, call, todo, failed, mode, handle, alive, reg, refs, wr,
                     faults>>
  BY DEF RegFails, progVars
<1>2. TypeOK' /\ OrderlyTeardown' /\ Posted' /\ Listing'
  BY <1>1 DEF IInv, Control, TypeOK, OrderlyTeardown, Posted, Listing
<1>3. Locals' /\ Fresh' /\ Whole' /\ ModeKept' /\ Staged'
  BY <1>1 DEF IInv, Control, Locals, Fresh, Whole, ModeKept, Staged, Zero, SetUps
<1>4. Lively' /\ Known' /\ Regions' /\ Cleared'
  BY <1>1 DEF IInv, Objects, Lively, Known, Regions, Cleared
<1>5. Owned'
  BY <1>1 DEF IInv, Objects, Owned, Owner
<1> QED BY <1>2, <1>3, <1>4, <1>5 DEF IInv, Control, Objects

(* Chunk c of k ends within the region.                                       *)
LEMMA ChunkEnds ==
  ASSUME NEW k \in Nat, NEW c \in Nat, NEW len \in Nat, c < k
  PROVE  c * len + len <= k * len
<1> DEFINE d == k - c - 1
<1>1. d \in Nat /\ k = c + 1 + d
  OBVIOUS
<1> HIDE DEF d
<1>2. d * len \in Nat /\ c * len \in Nat
  BY <1>1
<1>3. k * len = c * len + len + d * len
  BY <1>1
<1> QED BY <1>2, <1>3

(* What the C and C++ programs pass can be said in 32 bits and lies in the    *)
(* region.                                                                    *)
LEMMA ProgramArgs ==
  ASSUME NEW mrSize \in MrSizes, NEW len \in Nat, NEW offset \in Nat,
         BenchArgs(mrSize, len, offset) \/ ScopedArgs(mrSize, len, offset)
  PROVE  Sayable(len, offset) /\ offset + len <= mrSize
<1>1. /\ Word \in Nat /\ SizeT \in Nat /\ mrSize \in Nat /\ SizeT > Word + mrSize
  BY SizeAssumption
<1>2. len < Word /\ offset + len <= mrSize
  <2>1. CASE BenchArgs(mrSize, len, offset)
    BY <1>1, <2>1 DEF BenchArgs
  <2>2. CASE ScopedArgs(mrSize, len, offset)
    <3>1. PICK k \in 1 .. mrSize :
            /\ mrSize = k * len
            /\ \E c \in 0 .. k - 1 : offset = c * len
            /\ IF k = 1 THEN 2 * len < Word ELSE mrSize < 2 * Word
      BY <2>2 DEF ScopedArgs
    <3>2. PICK c \in 0 .. k - 1 : offset = c * len
      BY <3>1
    <3>3. k \in Nat /\ c \in Nat /\ c < k /\ k >= 1
      BY <1>1
    <3>4. offset + len <= mrSize
      BY <3>1, <3>2, <3>3, ChunkEnds
    <3>5. CASE k = 1
      BY <1>1, <3>1, <3>4, <3>5
    <3>6. CASE k # 1
      <4>1. 1 * len + len <= k * len
        BY <3>3, <3>6, ChunkEnds
      <4> QED BY <1>1, <3>1, <3>4, <3>6, <4>1
    <3> QED BY <3>5, <3>6
  <2> QED BY <2>1, <2>2
<1> QED BY <1>1, <1>2 DEF Sayable

(* The arithmetic of prepare_sge, where it neither truncates nor wraps.       *)
LEMMA Sizes ==
  ASSUME NEW mrSize \in MrSizes, NEW len \in Nat, NEW offset \in Nat
  PROVE  /\ Size(len) \in Nat
         /\ Sayable(len, offset) =>
              /\ Size(len) = len
              /\ Fits(mrSize, len, offset) <=> len # 0 /\ len + offset <= mrSize
<1>1. Word \in Nat /\ Word > 0 /\ SizeT \in Nat /\ mrSize \in Nat
  BY SizeAssumption
<1>2. Size(len) \in Nat
  BY <1>1 DEF Size
<1>3. ASSUME len < Word, offset + len < SizeT
      PROVE  /\ Size(len) = len
             /\ Fits(mrSize, len, offset) <=> len # 0 /\ len + offset <= mrSize
  <2>1. Size(len) = len
    BY <1>1, <1>3 DEF Size
  <2>2. (len + offset) % SizeT = len + offset
    <3> DEFINE n == len + offset
    <3>1. n \in Nat /\ n < SizeT
      BY <1>1, <1>3
    <3> HIDE DEF n
    <3>2. n % SizeT = n
      BY <1>1, <3>1
    <3> QED BY <3>2 DEF n
  <2> QED BY <2>1, <2>2 DEF Fits
<1> QED BY <1>2, <1>3 DEF Sayable

(* A post.                                                                    *)
LEMMA PostKeeps ==
  ASSUME IInv, NEW b \in Bufs, NEW mrSize \in MrSizes, NEW len \in Nat, NEW offset \in Nat,
         Post(b, mrSize, len, offset)
  PROVE  IInv'
<1>1. /\ call = "none" /\ handle["qp"] # 0 /\ reg[b] # 0 /\ Fits(mrSize, len, offset)
      /\ prog \in Bench => BenchArgs(mrSize, len, offset)
      /\ prog = "scoped" => ScopedArgs(mrSize, len, offset)
      /\ wr' = [buf |-> b, pd |-> reg[b], mrSize |-> mrSize, size |-> Size(len),
                len |-> len, offset |-> offset]
      /\ UNCHANGED <<prog, setups, early, stage, call, todo, failed, mode, handle, alive, reg,
                     refs, faults>>
  BY DEF Post, progVars
<1>2. mrSize \in Nat
  BY SizeAssumption
<1>3. /\ Size(len) \in Nat
      /\ Sayable(len, offset) => Size(len) = len /\ len + offset <= mrSize
  BY <1>1, Sizes
<1>4. prog # "python" => Sayable(len, offset)
  <2>1. prog \in Bench \/ prog = "scoped" \/ prog = "python"
    BY NamesAssumption DEF IInv, TypeOK, Bench
  <2> QED BY <1>1, <2>1, ProgramArgs
<1>5. Posted'
  <2> DEFINE n == Size(len)
  <2>1. /\ n \in Nat
        /\ wr' = [buf |-> b, pd |-> reg'[b], mrSize |-> mrSize, size |-> n,
                  len |-> len, offset |-> offset]
        /\ reg'[b] # 0 /\ handle'["qp"] # 0
        /\ prog' # "python" => Sayable(len, offset)
        /\ Sayable(len, offset) => n = len /\ offset + n <= mrSize
    BY <1>1, <1>2, <1>3, <1>4
  <2> HIDE DEF n
  <2> QED BY <1>2, <2>1 DEF Posted, Sayable
<1>6. TypeOK' /\ OrderlyTeardown' /\ Listing'
  BY <1>1 DEF IInv, Control, TypeOK, OrderlyTeardown, Listing
<1>7. Locals' /\ Fresh' /\ Whole' /\ ModeKept' /\ Staged'
  BY <1>1 DEF IInv, Control, Locals, Fresh, Whole, ModeKept, Staged, Zero
<1>8. Lively' /\ Known' /\ Regions' /\ Cleared' /\ Owned'
  BY <1>1 DEF IInv, Objects, Lively, Known, Regions, Cleared, Owned, Owner
<1> QED BY <1>5, <1>6, <1>7, <1>8 DEF IInv, Control, Objects

-----------------------------------------------------------------------------
(* The theorems *)

(* A program starts with nothing.                                             *)
LEMMA InitInv == Init => IInv
<1> SUFFICES ASSUME Init PROVE IInv
  OBVIOUS
<1>1. /\ stage = "new" /\ call = "none" /\ todo = << >> /\ failed = FALSE /\ mode = "cm"
      /\ setups = 0 /\ handle = [k \in Kinds |-> 0] /\ alive = {} /\ reg = [b \in Bufs |-> 0]
      /\ wr = NoWr /\ faults = {} /\ early = FALSE /\ prog \in Programs
      /\ refs = IF prog \in Bench THEN {} ELSE Bufs \X {"name"}
  BY DEF Init
<1>2. List(todo) /\ DeregFirst(todo) /\ \A x : ~Has(todo, x)
  BY <1>1, Nothing
<1>3. /\ \A k \in Kinds : handle[k] = 0
      /\ \A b \in Bufs : reg[b] = 0
  BY <1>1
<1>4. TypeOK
  <2>1. 0 \in 0..MaxSetups
    BY SizeAssumption
  <2>2. handle \in [Kinds -> 0..MaxSetups] /\ reg \in [Bufs -> 0..MaxSetups]
    BY <1>1, <2>1
  <2>3. refs \subseteq Bufs \X {"name", "source", "mr"}
    BY <1>1
  <2> QED BY <1>1, <2>1, <2>2, <2>3 DEF TypeOK, Bench
<1>5. Listing /\ Posted /\ OrderlyTeardown
  BY <1>1, <1>2, <1>3 DEF Listing, Posted, OrderlyTeardown, SetUps
<1>6. Locals /\ Fresh /\ Whole /\ ModeKept /\ Staged
  BY <1>1, <1>2, <1>3 DEF Locals, Fresh, Whole, ModeKept, Staged, Zero, SetUps, Kinds, QpFields
<1>7. Lively /\ Known /\ Regions /\ Cleared /\ Owned
  BY <1>1, <1>2, <1>3 DEF Lively, Known, Regions, Cleared, Owned, Setups
<1> QED BY <1>4, <1>5, <1>6, <1>7 DEF IInv, Control, Objects

(* Every step keeps the invariant.                                            *)
LEMMA NextInv == IInv /\ [Next]_vars => IInv'
<1> SUFFICES ASSUME IInv, [Next]_vars PROVE IInv'
  OBVIOUS
<1>1. CASE Step
  BY <1>1, MakeKeeps, WaitKeeps, FailsKeeps, DropKeeps, ClearKeeps, DeregKeeps, UnrefKeeps,
     ReturnKeeps DEF Step
<1>2. CASE Listen \/ Connect
  BY <1>2, SetUpsKeep
<1>3. CASE Accept \/ PyAcceptNull
  BY <1>3, AcceptKeeps, AcceptNullKeeps
<1>4. CASE RegFails
  BY <1>4, RegFailsKeeps
<1>5. CASE ScopedOut \/ PyClose \/ PyDelete
  BY <1>5, TransportKeeps
<1>6. ASSUME NEW b \in Bufs,
             \/ Reg(b) \/ BenchOut(b) \/ ScopedDrop(b) \/ PyDropBuffer(b) \/ PyDropName(b)
             \/ \E mrSize \in MrSizes, len \in 0 .. 2 * Word - 1, offset \in 0 .. SizeT - 1 :
                  Post(b, mrSize, len, offset)
      PROVE  IInv'
  <2>1. CASE Reg(b)
    BY <2>1, RegKeeps
  <2>2. CASE BenchOut(b)
    BY <2>2, BenchOutKeeps
  <2>3. CASE ScopedDrop(b) \/ PyDropBuffer(b) \/ PyDropName(b)
    BY <2>3, BuffersKeep
  <2>4. CASE \E mrSize \in MrSizes, len \in 0 .. 2 * Word - 1, offset \in 0 .. SizeT - 1 :
               Post(b, mrSize, len, offset)
    <3>1. PICK mrSize \in MrSizes, len \in 0 .. 2 * Word - 1, offset \in 0 .. SizeT - 1 :
            Post(b, mrSize, len, offset)
      BY <2>4
    <3>2. len \in Nat /\ offset \in Nat
      BY SizeAssumption
    <3> QED BY <3>1, <3>2, PostKeeps
  <2> QED BY <1>6, <2>1, <2>2, <2>3, <2>4
<1>7. CASE UNCHANGED vars
  <2>1. UNCHANGED <<prog, stage, call, todo, failed, mode, setups, handle, alive, reg, refs, wr,
                    faults, early>>
    BY <1>7 DEF vars
  <2>2. TypeOK' /\ OrderlyTeardown' /\ Posted' /\ Listing'
    BY <2>1 DEF IInv, Control, TypeOK, OrderlyTeardown, Posted, Listing
  <2>3. Locals' /\ Fresh' /\ Whole' /\ ModeKept' /\ Staged'
    BY <2>1 DEF IInv, Control, Locals, Fresh, Whole, ModeKept, Staged, Zero
  <2>4. Lively' /\ Known' /\ Regions' /\ Cleared' /\ Owned'
    BY <2>1 DEF IInv, Objects, Lively, Known, Regions, Cleared, Owned, Owner
  <2> QED BY <2>2, <2>3, <2>4 DEF IInv, Control, Objects
<1> QED BY <1>1, <1>2, <1>3, <1>4, <1>5, <1>6, <1>7 DEF Next

(* So it holds throughout.                                                    *)
LEMMA Invariance == Spec => []IInv
  BY InitInv, NextInv, PTL DEF Spec

(* Every variable keeps its type: no handle names a set-up that was not begun.*)
THEOREM TypeCorrect == Spec => []TypeOK
  BY Invariance, PTL DEF IInv

(* Objects are destroyed in the order they depend on each other and never     *)
(* twice, whichever step of a set-up failed and in both modes of              *)
(* rai_qp_destroy; what is left is Python's PD with a region in it.           *)
THEOREM OrderlyTeardownHolds == Spec => []OrderlyTeardown
  BY Invariance, PTL DEF IInv

(* Between calls every object is reachable through a handle, and at the end   *)
(* there is none: the error paths of listen, connect and the exit paths undo  *)
(* everything.                                                                *)
THEOREM NothingLeakedHolds == Spec => []NothingLeaked
<1>1. IInv => NothingLeaked
  <2> SUFFICES ASSUME IInv, call = "none", NEW o \in alive
               PROVE  (o \in Held /\ stage # "exit") \/ (early /\ o[1] = "pd")
    BY DEF NothingLeaked
  <2>1. PICK k \in Kinds \cup Bufs, e \in Setups : o = <<k, e>>
    BY DEF IInv, TypeOK
  <2>2. e # 0
    BY DEF Setups
  <2>3. CASE k \in Kinds
    <3>1. handle[k] = e \/ (early /\ k = "pd")
      BY <2>1, <2>3 DEF IInv, Objects, Known
    <3>2. ASSUME handle[k] = e PROVE o \in Held /\ stage # "exit"
      <4>1. o \in Held
        BY <2>1, <2>3, <3>2 DEF Held
      <4>2. handle["listen_id"] = 0 /\ handle["ep_fd"] = 0
        BY Idle
      <4>3. stage = "exit" => \A l \in Kinds : handle[l] = 0
        BY <4>2 DEF IInv, Control, Staged, Zero, Kinds
      <4> QED BY <2>2, <2>3, <3>2, <4>1, <4>3
    <3> QED BY <2>1, <3>1, <3>2
  <2>4. CASE k \in Bufs
    <3>1. reg[k] = e
      BY <2>1, <2>4 DEF IInv, Objects, Regions
    <3>2. o \in Held
      BY <2>1, <2>4, <3>1 DEF Held
    <3>3. stage # "exit"
      BY <2>2, <2>4, <3>1 DEF IInv, Control, Staged
    <3> QED BY <3>2, <3>3
  <2> QED BY <2>1, <2>3, <2>4
<1> QED BY Invariance, <1>1, PTL

(* What the C and C++ programs post is never refused for its arguments: with  *)
(* a size above 0 the check of prepare_sge lets it through, also at the end   *)
(* of the region and with half of the largest --count.                        *)
THEOREM ProgramsFit ==
  ASSUME NEW mrSize \in MrSizes, NEW len \in Nat, NEW offset \in Nat, len > 0,
         BenchArgs(mrSize, len, offset) \/ ScopedArgs(mrSize, len, offset)
  PROVE  Fits(mrSize, len, offset)
<1>1. mrSize \in Nat
  BY SizeAssumption
<1>2. Sayable(len, offset) /\ offset + len <= mrSize
  BY ProgramArgs
<1>3. Fits(mrSize, len, offset) <=> len # 0 /\ len + offset <= mrSize
  BY <1>2, Sizes
<1> QED BY <1>1, <1>2, <1>3

(* A post names a live queue pair, a region that exists and exactly the bytes *)
(* asked for, inside the region: always in the C and C++ programs, whose      *)
(* lengths keep within 32 bits, and in Python for arguments in range.         *)
THEOREM PostSoundHolds == Spec => []PostSound
<1>1. IInv => PostSound
  <2> SUFFICES ASSUME IInv, wr # NoWr
               PROVE  /\ <<"qp", handle["qp"]>> \in alive
                      /\ <<wr.buf, wr.pd>> \in alive
                      /\ prog # "python" => wr.pd = handle["pd"] /\ InRange
                      /\ InRange => wr.size = wr.len /\ wr.offset + wr.size <= wr.mrSize
    BY DEF PostSound
  <2>1. PICK b \in Bufs, mrSize \in Nat, size \in Nat, len \in Nat, offset \in Nat :
          /\ wr = [buf |-> b, pd |-> reg[b], mrSize |-> mrSize, size |-> size,
                   len |-> len, offset |-> offset]
          /\ reg[b] # 0 /\ handle["qp"] # 0
          /\ prog # "python" => Sayable(len, offset)
          /\ Sayable(len, offset) => size = len /\ offset + size <= mrSize
    BY DEF IInv, Posted
  <2>2. /\ wr.buf = b /\ wr.pd = reg[b] /\ wr.mrSize = mrSize /\ wr.size = size
        /\ wr.len = len /\ wr.offset = offset /\ (InRange <=> Sayable(len, offset))
    BY <2>1 DEF InRange, Sayable
  <2>3. call = "none"
    BY DEF IInv, Control, Listing
  <2>4. <<"qp", handle["qp"]>> \in alive
    BY <2>1, <2>3, Idle DEF Kinds, QpFields
  <2>5. reg[b] \in Setups
    BY <2>1, SizeAssumption DEF IInv, TypeOK, Setups
  <2>6. <<b, reg[b]>> \in alive /\ (prog # "python" => reg[b] = handle["pd"])
    BY <2>1, <2>5 DEF IInv, Objects, Regions, Owned
  <2> QED BY <2>1, <2>2, <2>4, <2>6
<1> QED BY Invariance, <1>1, PTL

(* In the C and C++ programs a region the adapter may still write has memory  *)
(* behind it: rai_mr_dereg comes before the memory is freed on every path.    *)
THEOREM OwnersOutliveRegionsHolds == Spec => []OwnersOutliveRegions
<1>1. IInv => OwnersOutliveRegions
  <2> SUFFICES ASSUME IInv, prog # "python", NEW b \in Bufs, NEW e \in Setups, <<b, e>> \in alive
               PROVE  \E h \in refs : h[1] = b
    BY DEF OwnersOutliveRegions, SurvivesUntilDereg
  <2>1. reg[b] = e /\ e # 0
    BY DEF IInv, Objects, Regions, Setups
  <2>2. <<b, Owner>> \in refs
    BY <2>1 DEF IInv, Objects, Owned
  <2>3. <<b, Owner>>[1] = b
    OBVIOUS
  <2> QED BY <2>2, <2>3
<1> QED BY Invariance, <1>1, PTL
=============================================================================
