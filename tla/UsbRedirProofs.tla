----------------------------- MODULE UsbRedirProofs ----------------------------
(***************************************************************************)
(* What the usbredir device keeps true for queues and FIFOs of every size, *)
(* every kind of stream it can be given, and every scenario that keeps to  *)
(* the hypothesis Restricted.  A handler leaves one of several states; its *)
(* lemma says of each that it is Sound and that no transfer has left a     *)
(* queue without an answer.                                                *)
(***************************************************************************)
EXTENDS UsbRedir, HostChardevLemmas, Integers, SequenceTheorems, FiniteSetTheorems,
        WellFoundedInduction, TLAPS

MsgKind == {"hello", "connect", "disconnect", "reply", "intr", "info"}
Status  == {"ok", "stall", "ioerror", "cancelled", "babble", "receiving", "inval", "stopped"}
Msg     == [t : MsgKind, id : Nat, status : Status]
View    == [greeted : BOOLEAN, hello : BOOLEAN, offered : BOOLEAN,
            owed : SUBSET Nat, stale : SUBSET Nat, ctl : Nat, intr : BOOLEAN, bad : BOOLEAN]

--------------------------------------------------------------------------------
(* Induction over the natural numbers, of sets.                            *)

\* A set of numbers that holds 0 and the successor of each is all of Nat.
LEMMA SetInduction ==
    ASSUME NEW S \in SUBSET Nat, 0 \in S, \A m \in S : m + 1 \in S
    PROVE  S = Nat
<1> DEFINE T == Nat \ S
           R == {ss \in Nat \X Nat : ss[1] < ss[2]}
<1> SUFFICES ASSUME T # {} PROVE FALSE
  OBVIOUS
<1>1. R = OpToRel(<, Nat)
  BY DEF OpToRel
<1>2. IsWellFoundedOn(R, Nat)
  BY <1>1, NatLessThanWellFounded
<1>3. T \subseteq Nat
  OBVIOUS
<1>4. \E x \in T : \A y \in T : ~(<<y, x>> \in R)
  <2> HIDE DEF T, R
  <2> QED BY <1>2, <1>3, WFMin
<1>5. PICK x \in T : \A y \in T : ~(<<y, x>> \in R)
  BY <1>4
<1>6. x \in Nat /\ x # 0 /\ x - 1 \in Nat
  OBVIOUS
<1>7. <<x - 1, x>> \in R
  BY <1>6
<1>8. x - 1 \in S
  BY <1>5, <1>6, <1>7
<1> QED
  BY <1>6, <1>8

--------------------------------------------------------------------------------
(* What the peer makes of one packet, and of several.                      *)

\* What one packet makes of each thing the peer knows (module UsbRedir, Reads).
LEMMA ReadsFields ==
    ASSUME NEW v \in View, NEW m \in Msg
    PROVE  LET r == Reads(v, m) IN
           /\ r \in View
           /\ r.greeted = v.greeted
           /\ r.hello <=> v.hello \/ m.t = "hello"
           /\ r.offered <=> (v.offered \/ m.t = "connect") /\ m.t # "disconnect"
           /\ m.t = "disconnect" => r.owed = {} /\ r.stale = (v.stale \cup v.owed) \ {m.id}
           /\ m.t # "disconnect" => r.owed = v.owed \ {m.id} /\ r.stale = v.stale \ {m.id}
           /\ r.ctl = IF m.t = "disconnect" \/ m.id = v.ctl THEN 0 ELSE v.ctl
           /\ r.intr <=> (v.intr \/ m.status = "receiving")
                            /\ m.status # "stopped" /\ m.t # "disconnect"
           /\ ~r.bad <=> /\ ~v.bad
                         /\ m.t = "hello" => ~v.hello
                         /\ m.t = "connect" => v.hello /\ ~v.offered
                         /\ m.t = "disconnect" => v.offered
                         /\ m.t = "reply" => v.hello /\ m.id \in v.owed \cup v.stale
                         /\ m.t = "intr" => v.intr
                         /\ m.t = "info" => v.hello
<1> DEFINE ok == CASE m.t = "hello"      -> ~v.hello
                   [] m.t = "connect"    -> v.hello /\ ~v.offered
                   [] m.t = "disconnect" -> v.offered
                   [] m.t = "reply"      -> v.hello /\ m.id \in v.owed \cup v.stale
                   [] m.t = "intr"       -> v.intr
                   [] m.t = "info"       -> v.hello
           hello == v.hello \/ m.t = "hello"
           offered == (v.offered \/ m.t = "connect") /\ m.t # "disconnect"
           stale == (IF m.t = "disconnect" THEN v.stale \cup v.owed ELSE v.stale) \ {m.id}
           owed  == IF m.t = "disconnect" THEN {} ELSE v.owed \ {m.id}
           ctl   == IF m.t = "disconnect" \/ m.id = v.ctl THEN 0 ELSE v.ctl
           intr  == (v.intr \/ m.status = "receiving") /\ m.status # "stopped" /\ m.t # "disconnect"
           bad   == v.bad \/ ~ok
<1>1. Reads(v, m) = [v EXCEPT !.hello = hello, !.offered = offered, !.stale = stale,
                              !.owed = owed, !.ctl = ctl, !.intr = intr, !.bad = bad]
  BY DEF Reads
<1>2. /\ hello \in BOOLEAN /\ offered \in BOOLEAN /\ stale \in SUBSET Nat
      /\ owed \in SUBSET Nat /\ ctl \in Nat /\ intr \in BOOLEAN /\ bad \in BOOLEAN
  BY DEF View
<1>3. ok <=> /\ m.t = "hello" => ~v.hello
             /\ m.t = "connect" => v.hello /\ ~v.offered
             /\ m.t = "disconnect" => v.offered
             /\ m.t = "reply" => v.hello /\ m.id \in v.owed \cup v.stale
             /\ m.t = "intr" => v.intr
             /\ m.t = "info" => v.hello
  <2> m.t \in MsgKind
    BY DEF Msg
  <2>1. CASE m.t = "hello"  BY <2>1
  <2>2. CASE m.t = "connect"  BY <2>2
  <2>3. CASE m.t = "disconnect"  BY <2>3
  <2>4. CASE m.t = "reply"  BY <2>4
  <2>5. CASE m.t = "intr"  BY <2>5
  <2>6. CASE m.t = "info"  BY <2>6
  <2> QED
    BY <2>1, <2>2, <2>3, <2>4, <2>5, <2>6 DEF MsgKind
<1> HIDE DEF ok
<1>4. bad <=> v.bad \/ ~ok
  OBVIOUS
<1>5. /\ m.t = "disconnect" => owed = {} /\ stale = (v.stale \cup v.owed) \ {m.id}
      /\ m.t # "disconnect" => owed = v.owed \ {m.id} /\ stale = v.stale \ {m.id}
  OBVIOUS
<1> HIDE DEF bad, owed, stale
<1>6. /\ Reads(v, m) \in View
      /\ Reads(v, m).hello = hello /\ Reads(v, m).offered = offered
      /\ Reads(v, m).stale = stale /\ Reads(v, m).owed = owed /\ Reads(v, m).ctl = ctl
      /\ Reads(v, m).intr = intr /\ Reads(v, m).bad = bad /\ Reads(v, m).greeted = v.greeted
  <2> HIDE DEF hello, offered, ctl, intr
  <2> QED BY <1>1, <1>2 DEF View
<1> QED
  BY <1>3, <1>4, <1>5, <1>6

\* f: what the peer knows after each of the packets.
Trace(f, v, ms) ==
    /\ f \in [0..Len(ms) -> View]
    /\ f[0] = v
    /\ \A i \in 1..Len(ms) : f[i] = Reads(f[i - 1], ms[i])

\* Any packets can be read one after the other.
LEMMA TraceExists ==
    ASSUME NEW v \in View, NEW ms \in Seq(Msg)
    PROVE  \E f : Trace(f, v, ms)
<1> DEFINE N == Len(ms)
           Upto(f, m) == /\ f \in [0..m -> View] /\ f[0] = v
                         /\ \A i \in 1..m : f[i] = Reads(f[i - 1], ms[i])
           T == {m \in Nat : m <= N => \E f : Upto(f, m)}
<1>0. N \in Nat
  OBVIOUS
<1>1. 0 \in T
  <2> DEFINE f == [i \in 0..0 |-> v]
  <2>1. Upto(f, 0)
    OBVIOUS
  <2> QED
    BY <2>1
<1>2. ASSUME NEW m \in T PROVE m + 1 \in T
  <2>0. m \in Nat /\ m + 1 \in Nat
    OBVIOUS
  <2> SUFFICES ASSUME m + 1 <= N PROVE \E f : Upto(f, m + 1)
    BY <2>0
  <2>1. PICK f : Upto(f, m)
    BY <1>0, <2>0
  <2> DEFINE x == Reads(f[m], ms[m + 1])
             g == [i \in 0..m + 1 |-> IF i = m + 1 THEN x ELSE f[i]]
  <2>2. f[m] \in View /\ ms[m + 1] \in Msg
    BY <1>0, <2>0, <2>1
  <2>3. x \in View
    BY <2>2, ReadsFields
  <2>4. g \in [0..m + 1 -> View] /\ g[0] = v
    <3>1. \A i \in 0..m + 1 : i = m + 1 \/ i \in 0..m
      BY <2>0
    <3> HIDE DEF x
    <3> QED
      BY <2>0, <2>1, <2>3, <3>1
  <2>5. ASSUME NEW i \in 1..m + 1 PROVE g[i] = Reads(g[i - 1], ms[i])
    <3>1. CASE i = m + 1
      <4>1. i - 1 = m /\ m \in 0..m + 1 /\ m # m + 1
        BY <2>0, <3>1
      <4>2. g[i - 1] = f[m] /\ g[i] = x
        BY <3>1, <4>1
      <4> QED
        BY <3>1, <4>2
    <3>2. CASE i # m + 1
      <4>1. i \in 1..m /\ i - 1 \in 0..m /\ i - 1 # m + 1
        BY <2>0, <3>2
      <4>2. g[i] = f[i] /\ g[i - 1] = f[i - 1]
        BY <2>0, <4>1
      <4> QED
        BY <2>1, <4>1, <4>2
    <3> QED
      BY <3>1, <3>2
  <2> QED
    BY <2>4, <2>5
<1>3. T = Nat
  <2>1. T \in SUBSET Nat
    OBVIOUS
  <2> HIDE DEF T
  <2> QED
    BY <1>1, <1>2, <2>1, SetInduction
<1>4. \E f : Upto(f, N)
  BY <1>0, <1>3
<1> QED
  BY <1>4 DEF Trace

\* What the peer knows after each packet is determined by the packets.
LEMMA TraceUnique ==
    ASSUME NEW v, NEW ms \in Seq(Msg), NEW f, NEW g,
           f[0] = g[0],
           \A i \in 1..Len(ms) : f[i] = Reads(f[i - 1], ms[i]),
           \A i \in 1..Len(ms) : g[i] = Reads(g[i - 1], ms[i])
    PROVE  \A i \in 0..Len(ms) : f[i] = g[i]
<1> DEFINE T == {m \in Nat : m <= Len(ms) => f[m] = g[m]}
<1>1. 0 \in T
  OBVIOUS
<1>2. ASSUME NEW m \in T PROVE m + 1 \in T
  <2> SUFFICES ASSUME m + 1 <= Len(ms) PROVE f[m + 1] = g[m + 1]
    OBVIOUS
  <2>1. m + 1 \in 1..Len(ms) /\ (m + 1) - 1 = m /\ f[m] = g[m]
    OBVIOUS
  <2> QED
    BY <2>1
<1>3. T = Nat
  <2>1. T \in SUBSET Nat
    OBVIOUS
  <2> HIDE DEF T
  <2> QED
    BY <1>1, <1>2, <2>1, SetInduction
<1> QED
  BY <1>3

\* ReadsAll is where such a reading ends.
LEMMA TraceIs ==
    ASSUME NEW v \in View, NEW ms \in Seq(Msg), NEW g, Trace(g, v, ms)
    PROVE  ReadsAll(v, ms) = g[Len(ms)]
<1> DEFINE P(f) == f = [i \in 0..Len(ms) |-> IF i = 0 THEN v ELSE Reads(f[i - 1], ms[i])]
           f == CHOOSE h : P(h)
<1>0. Len(ms) \in Nat
  OBVIOUS
<1>1. P(g)
  <2>1. \A i \in 0..Len(ms) : g[i] = IF i = 0 THEN v ELSE Reads(g[i - 1], ms[i])
    BY DEF Trace
  <2>2. g = [i \in 0..Len(ms) |-> g[i]]
    BY DEF Trace
  <2> QED
    BY <2>1, <2>2
<1>2. P(f)
  BY <1>1
<1>3. f[0] = g[0] /\ \A i \in 1..Len(ms) : f[i] = Reads(f[i - 1], ms[i])
  <2>1. \A i \in 0..Len(ms) : f[i] = IF i = 0 THEN v ELSE Reads(f[i - 1], ms[i])
    <3> HIDE DEF f
    <3> QED BY <1>2
  <2> HIDE DEF f
  <2> QED
    BY <1>0, <2>1 DEF Trace
<1>4. f[Len(ms)] = g[Len(ms)]
  <2> HIDE DEF f
  <2> QED BY <1>0, <1>3, TraceUnique DEF Trace
<1>5. ReadsAll(v, ms) = f[Len(ms)]
  BY DEF ReadsAll
<1> QED
  BY <1>4, <1>5

\* Reading leaves the peer with a view.
LEMMA ReadsAllTyped ==
    ASSUME NEW v \in View, NEW ms \in Seq(Msg)
    PROVE  ReadsAll(v, ms) \in View
<1>1. PICK f : Trace(f, v, ms)
  BY TraceExists
<1> QED
  BY <1>1, TraceIs DEF Trace

\* No packets, nothing learnt.
LEMMA ReadsEmpty ==
    ASSUME NEW v \in View
    PROVE  ReadsAll(v, <<>>) = v
<1>1. <<>> \in Seq(Msg) /\ Len(<<>>) = 0
  OBVIOUS
<1>2. PICK f : Trace(f, v, <<>>)
  BY <1>1, TraceExists
<1> QED
  BY <1>1, <1>2, TraceIs DEF Trace

\* The rest of the packets after the first n, read after them.
LEMMA ReadsSplit ==
    ASSUME NEW v \in View, NEW ms \in Seq(Msg), NEW n \in 0..Len(ms)
    PROVE  LET a == SubSeq(ms, 1, n)
               b == SubSeq(ms, n + 1, Len(ms))
           IN  /\ a \in Seq(Msg) /\ b \in Seq(Msg)
               /\ ReadsAll(v, a) \in View
               /\ ReadsAll(ReadsAll(v, a), b) = ReadsAll(v, ms)
<1> DEFINE a == SubSeq(ms, 1, n)
           b == SubSeq(ms, n + 1, Len(ms))
<1>0. Len(ms) \in Nat /\ n \in Nat /\ n <= Len(ms)
  OBVIOUS
<1>1. /\ a \in Seq(Msg) /\ Len(a) = n /\ \A i \in 1..n : a[i] = ms[i]
      /\ b \in Seq(Msg) /\ Len(b) = Len(ms) - n /\ \A i \in 1..(Len(ms) - n) : b[i] = ms[n + i]
  BY <1>0
<1>2. PICK f : Trace(f, v, ms)
  BY TraceExists
<1> HIDE DEF a, b
<1> DEFINE fa == [i \in 0..n |-> f[i]]
           fb == [i \in 0..(Len(ms) - n) |-> f[n + i]]
<1>3. Trace(fa, v, a)
  <2>1. fa \in [0..Len(a) -> View] /\ fa[0] = v
    BY <1>0, <1>1, <1>2 DEF Trace
  <2>2. ASSUME NEW i \in 1..n PROVE fa[i] = Reads(fa[i - 1], a[i])
    <3>1. i \in 0..n /\ i - 1 \in 0..n /\ i \in 1..Len(ms)
      BY <1>0
    <3>2. fa[i] = f[i] /\ fa[i - 1] = f[i - 1] /\ a[i] = ms[i]
      BY <1>1, <3>1
    <3> QED
      BY <1>2, <3>1, <3>2 DEF Trace
  <2> HIDE DEF fa
  <2> QED
    BY <1>1, <2>1, <2>2 DEF Trace
<1>4. ReadsAll(v, a) = f[n]
  <2>1. fa[n] = f[n]
    BY <1>0
  <2> HIDE DEF fa
  <2> QED
    BY <1>1, <1>3, <2>1, TraceIs
<1>5. f[n] \in View
  BY <1>0, <1>2 DEF Trace
<1>6. Trace(fb, f[n], b)
  <2>1. fb \in [0..Len(b) -> View] /\ fb[0] = f[n]
    <3>1. \A i \in 0..(Len(ms) - n) : n + i \in 0..Len(ms)
      BY <1>0
    <3> QED
      BY <1>0, <1>1, <1>2, <3>1 DEF Trace
  <2>2. ASSUME NEW i \in 1..(Len(ms) - n) PROVE fb[i] = Reads(fb[i - 1], b[i])
    <3>1. /\ i \in 0..(Len(ms) - n) /\ i - 1 \in 0..(Len(ms) - n)
          /\ n + i \in 1..Len(ms) /\ n + (i - 1) = (n + i) - 1
      BY <1>0
    <3>2. fb[i] = f[n + i] /\ fb[i - 1] = f[(n + i) - 1] /\ b[i] = ms[n + i]
      BY <1>1, <3>1
    <3>3. f[n + i] = Reads(f[(n + i) - 1], ms[n + i])
      BY <1>2, <3>1 DEF Trace
    <3> QED
      BY <3>2, <3>3
  <2> HIDE DEF fb
  <2> QED
    BY <1>1, <2>1, <2>2 DEF Trace
<1>7. ReadsAll(f[n], b) = f[Len(ms)]
  <2>1. fb[Len(b)] = f[Len(ms)]
    BY <1>0, <1>1
  <2> HIDE DEF fb
  <2> QED
    BY <1>1, <1>5, <1>6, <2>1, TraceIs
<1>8. ReadsAll(v, ms) = f[Len(ms)]
  BY <1>2, TraceIs
<1> QED
  BY <1>1, <1>4, <1>5, <1>7, <1>8 DEF a, b

\* The last packet is read last.
LEMMA ReadsAppend ==
    ASSUME NEW v \in View, NEW ms \in Seq(Msg), NEW m \in Msg
    PROVE  ReadsAll(v, Append(ms, m)) = Reads(ReadsAll(v, ms), m)
<1> DEFINE n == Len(ms)
           q == Append(ms, m)
<1>0. n \in Nat /\ q \in Seq(Msg) /\ Len(q) = n + 1 /\ q[n + 1] = m
      /\ \A i \in 1..n : q[i] = ms[i]
  OBVIOUS
<1>1. PICK f : Trace(f, v, q)
  BY <1>0, TraceExists
<1> DEFINE g == [i \in 0..n |-> f[i]]
<1> HIDE DEF q
<1>2. Trace(g, v, ms)
  <2>1. g \in [0..n -> View] /\ g[0] = v
    BY <1>0, <1>1 DEF Trace
  <2>2. ASSUME NEW i \in 1..n PROVE g[i] = Reads(g[i - 1], ms[i])
    <3>1. i \in 0..n /\ i - 1 \in 0..n /\ i \in 1..n + 1
      BY <1>0
    <3>2. g[i] = f[i] /\ g[i - 1] = f[i - 1] /\ q[i] = ms[i]
      BY <1>0, <3>1
    <3> QED
      BY <1>0, <1>1, <3>1, <3>2 DEF Trace
  <2> HIDE DEF g
  <2> QED
    BY <2>1, <2>2 DEF Trace
<1>3. g[n] = f[n] /\ f[n + 1] = Reads(f[n], q[n + 1])
  <2>1. n + 1 \in 1..Len(q) /\ (n + 1) - 1 = n
    BY <1>0
  <2> QED
    BY <1>0, <1>1, <2>1 DEF Trace
<1>4. ReadsAll(v, ms) = g[n]
  <2> HIDE DEF g
  <2> QED BY <1>2, TraceIs
<1>5. ReadsAll(v, q) = f[n + 1]
  BY <1>0, <1>1, TraceIs
<1> QED
  BY <1>0, <1>3, <1>4, <1>5 DEF q

\* a is what a peer that knew v knows after the first k packets of ms.
After(v, a, ms, k) ==
    /\ a.owed \subseteq v.owed
    /\ a.owed \cup a.stale \subseteq v.owed \cup v.stale
    /\ a.ctl \in {0, v.ctl}
    /\ \A i \in 1..k : ms[i].id \notin a.owed \cup a.stale
    /\ \A id \in v.owed : \/ id \in a.owed
                          \/ \E i \in 1..k : ms[i].id = id \/ ms[i].t = "disconnect"
    /\ ~a.bad => /\ ~v.bad
                 /\ \A i \in 1..k : ms[i].t = "reply" => ms[i].id \in v.owed \cup v.stale
                 /\ \A i, j \in 1..k : i < j /\ ms[j].t = "reply" => ms[i].id # ms[j].id

\* What is true after k packets is true after one more.
LEMMA AfterStep ==
    ASSUME NEW v \in View, NEW a \in View, NEW ms \in Seq(Msg), NEW k \in Nat,
           k + 1 \in 1..Len(ms), After(v, a, ms, k)
    PROVE  After(v, Reads(a, ms[k + 1]), ms, k + 1)
<1> DEFINE m == ms[k + 1]
           r == Reads(a, m)
<1>0. m \in Msg /\ \A i \in 1..k + 1 : i \in 1..k \/ i = k + 1
  OBVIOUS
<1>1. /\ m.t = "disconnect" => r.owed = {} /\ r.stale = (a.stale \cup a.owed) \ {m.id}
      /\ m.t # "disconnect" => r.owed = a.owed \ {m.id} /\ r.stale = a.stale \ {m.id}
      /\ r.ctl = IF m.t = "disconnect" \/ m.id = a.ctl THEN 0 ELSE a.ctl
      /\ ~r.bad => ~a.bad /\ (m.t = "reply" => m.id \in a.owed \cup a.stale)
  BY <1>0, ReadsFields
<1> HIDE DEF m, r
<1>2. r.owed \subseteq a.owed /\ r.owed \cup r.stale \subseteq (a.owed \cup a.stale) \ {m.id}
  BY <1>1
<1>3. r.owed \subseteq v.owed /\ r.owed \cup r.stale \subseteq v.owed \cup v.stale
  BY <1>2 DEF After
<1>4. r.ctl \in {0, v.ctl}
  BY <1>1 DEF After
<1>5. ASSUME NEW i \in 1..k + 1 PROVE ms[i].id \notin r.owed \cup r.stale
  BY <1>0, <1>2 DEF After, m
<1>6. ASSUME NEW id \in v.owed, id \notin r.owed
      PROVE  \E i \in 1..k + 1 : ms[i].id = id \/ ms[i].t = "disconnect"
  <2>1. CASE id \in a.owed
    <3>1. k + 1 \in 1..k + 1
      OBVIOUS
    <3>2. m.t = "disconnect" \/ m.id = id
      BY <1>1, <1>6, <2>1
    <3> QED
      BY <3>1, <3>2 DEF m
  <2>2. CASE id \notin a.owed
    <3>1. PICK i \in 1..k : ms[i].id = id \/ ms[i].t = "disconnect"
      BY <2>2 DEF After
    <3>2. i \in 1..k + 1
      OBVIOUS
    <3> QED
      BY <3>1, <3>2
  <2> QED
    BY <2>1, <2>2
<1>7. ASSUME ~r.bad
      PROVE  /\ ~v.bad
             /\ \A i \in 1..k + 1 : ms[i].t = "reply" => ms[i].id \in v.owed \cup v.stale
             /\ \A i, j \in 1..k + 1 : i < j /\ ms[j].t = "reply" => ms[i].id # ms[j].id
  <2>1. ~a.bad /\ (m.t = "reply" => m.id \in a.owed \cup a.stale)
    BY <1>1, <1>7
  <2>2. ASSUME NEW i \in 1..k + 1, ms[i].t = "reply" PROVE ms[i].id \in v.owed \cup v.stale
    BY <1>0, <2>1, <2>2 DEF After, m
  <2>3. ASSUME NEW i \in 1..k + 1, NEW j \in 1..k + 1, i < j, ms[j].t = "reply"
        PROVE  ms[i].id # ms[j].id
    <3>1. i \in 1..k
      BY <2>3
    <3>2. CASE j = k + 1
      BY <2>1, <2>3, <3>1, <3>2 DEF After, m
    <3>3. CASE j \in 1..k
      BY <2>1, <2>3, <3>1, <3>3 DEF After
    <3> QED
      BY <1>0, <3>2, <3>3
  <2> QED
    BY <2>1, <2>2, <2>3 DEF After
<1> QED
  BY <1>3, <1>4, <1>5, <1>6, <1>7 DEF After, m, r

\* What reading all packets does to the requests the peer waits for.
LEMMA ReadsAfter ==
    ASSUME NEW v \in View, NEW ms \in Seq(Msg)
    PROVE  After(v, ReadsAll(v, ms), ms, Len(ms))
<1>1. PICK f : Trace(f, v, ms)
  BY TraceExists
<1> DEFINE T == {k \in Nat : k <= Len(ms) => After(v, f[k], ms, k)}
<1>2. 0 \in T
  BY <1>1 DEF Trace, After, View
<1>3. ASSUME NEW k \in T PROVE k + 1 \in T
  <2> SUFFICES ASSUME k + 1 <= Len(ms) PROVE After(v, f[k + 1], ms, k + 1)
    OBVIOUS
  <2>1. k + 1 \in 1..Len(ms) /\ (k + 1) - 1 = k /\ k \in 0..Len(ms) /\ After(v, f[k], ms, k)
    OBVIOUS
  <2>2. f[k] \in View /\ f[k + 1] = Reads(f[k], ms[k + 1])
    BY <1>1, <2>1 DEF Trace
  <2> QED
    BY <2>1, <2>2, AfterStep
<1>4. T = Nat
  <2>1. T \in SUBSET Nat
    OBVIOUS
  <2> HIDE DEF T
  <2> QED
    BY <1>2, <1>3, <2>1, SetInduction
<1>5. After(v, f[Len(ms)], ms, Len(ms))
  BY <1>4
<1> QED
  BY <1>1, <1>5, TraceIs

\* Two views that differ by what the peer did between two packets.
Joins(a, b, n) ==
    \/ b.owed = a.owed \cup {n} /\ b.stale = a.stale
    \/ a.owed = {} /\ b.owed = {} /\ b.stale = a.stale \cup {n} /\ b.ctl = a.ctl /\ a.ctl = 0
Differ(how, n, a, b) ==
    /\ b.hello = a.hello /\ b.offered = a.offered /\ b.intr = a.intr /\ b.bad = a.bad
    /\ how = "greets" => b.owed = a.owed /\ b.stale = a.stale /\ b.ctl = a.ctl
    /\ how = "asks"   => Joins(a, b, n) /\ b.ctl = a.ctl
    /\ how = "class"  => Joins(a, b, n) /\ a.ctl = 0 /\ b.ctl = (IF n \in b.owed THEN n ELSE 0)
    /\ how = "resets" => b.owed = {} /\ b.stale = a.stale \cup a.owed /\ b.ctl = 0

\* One packet keeps the difference between two views.
LEMMA DifferStep ==
    ASSUME NEW how \in {"greets", "asks", "class", "resets"}, NEW n \in Nat \ {0},
           NEW a \in View, NEW b \in View, NEW m \in Msg,
           how \in {"asks", "class"} => m.id # n, Differ(how, n, a, b)
    PROVE  Differ(how, n, Reads(a, m), Reads(b, m))
<1> DEFINE r == Reads(a, m)
           s == Reads(b, m)
<1>1. /\ r \in View
      /\ r.hello <=> a.hello \/ m.t = "hello"
      /\ r.offered <=> (a.offered \/ m.t = "connect") /\ m.t # "disconnect"
      /\ m.t = "disconnect" => r.owed = {} /\ r.stale = (a.stale \cup a.owed) \ {m.id}
      /\ m.t # "disconnect" => r.owed = a.owed \ {m.id} /\ r.stale = a.stale \ {m.id}
      /\ r.ctl = IF m.t = "disconnect" \/ m.id = a.ctl THEN 0 ELSE a.ctl
      /\ r.intr <=> (a.intr \/ m.status = "receiving")
                       /\ m.status # "stopped" /\ m.t # "disconnect"
      /\ ~r.bad <=> /\ ~a.bad
                    /\ m.t = "hello" => ~a.hello
                    /\ m.t = "connect" => a.hello /\ ~a.offered
                    /\ m.t = "disconnect" => a.offered
                    /\ m.t = "reply" => a.hello /\ m.id \in a.owed \cup a.stale
                    /\ m.t = "intr" => a.intr
                    /\ m.t = "info" => a.hello
  BY ReadsFields
<1>2. /\ s \in View
      /\ s.hello <=> b.hello \/ m.t = "hello"
      /\ s.offered <=> (b.offered \/ m.t = "connect") /\ m.t # "disconnect"
      /\ m.t = "disconnect" => s.owed = {} /\ s.stale = (b.stale \cup b.owed) \ {m.id}
      /\ m.t # "disconnect" => s.owed = b.owed \ {m.id} /\ s.stale = b.stale \ {m.id}
      /\ s.ctl = IF m.t = "disconnect" \/ m.id = b.ctl THEN 0 ELSE b.ctl
      /\ s.intr <=> (b.intr \/ m.status = "receiving")
                       /\ m.status # "stopped" /\ m.t # "disconnect"
      /\ ~s.bad <=> /\ ~b.bad
                    /\ m.t = "hello" => ~b.hello
                    /\ m.t = "connect" => b.hello /\ ~b.offered
                    /\ m.t = "disconnect" => b.offered
                    /\ m.t = "reply" => b.hello /\ m.id \in b.owed \cup b.stale
                    /\ m.t = "intr" => b.intr
                    /\ m.t = "info" => b.hello
  BY ReadsFields
<1> HIDE DEF r, s
<1>3. m.id \in Nat /\ (how \in {"asks", "class"} => m.id # n)
  BY DEF Msg
<1>4. b.hello = a.hello /\ b.offered = a.offered /\ b.intr = a.intr /\ b.bad = a.bad
  BY DEF Differ
<1>5. m.t = "reply" => (m.id \in a.owed \cup a.stale <=> m.id \in b.owed \cup b.stale)
  BY <1>3 DEF Differ, Joins
<1>6. how = "greets" => s.owed = r.owed /\ s.stale = r.stale /\ s.ctl = r.ctl
  BY <1>1, <1>2 DEF Differ
<1>7. how \in {"asks", "class"} => Joins(r, s, n)
  <2> SUFFICES ASSUME how \in {"asks", "class"} PROVE Joins(r, s, n)
    OBVIOUS
  <2>1. Joins(a, b, n)
    BY DEF Differ
  <2>2. CASE m.t # "disconnect" /\ b.owed = a.owed \cup {n} /\ b.stale = a.stale
    BY <1>1, <1>2, <1>3, <2>2 DEF Joins
  <2>3. CASE m.t # "disconnect" /\ ~(b.owed = a.owed \cup {n} /\ b.stale = a.stale)
    BY <1>1, <1>2, <1>3, <2>1, <2>3 DEF Joins
  <2>4. CASE m.t = "disconnect"
    <3>1. r.owed = {} /\ s.owed = {} /\ r.ctl = 0 /\ s.ctl = 0
      BY <1>1, <1>2, <2>4
    <3>2. s.stale = r.stale \cup {n}
      BY <1>1, <1>2, <1>3, <2>1, <2>4 DEF Joins
    <3> QED
      BY <3>1, <3>2 DEF Joins
  <2> QED
    BY <2>2, <2>3, <2>4
<1>8. how = "asks" => s.ctl = r.ctl
  BY <1>1, <1>2 DEF Differ
<1>9. how = "class" => r.ctl = 0 /\ s.ctl = (IF n \in s.owed THEN n ELSE 0)
  <2> SUFFICES ASSUME how = "class" PROVE r.ctl = 0 /\ s.ctl = (IF n \in s.owed THEN n ELSE 0)
    OBVIOUS
  <2>1. a.ctl = 0 /\ b.ctl = (IF n \in b.owed THEN n ELSE 0)
    BY DEF Differ
  <2> QED
    BY <1>1, <1>2, <1>3, <2>1
<1>10. how = "resets" => s.owed = {} /\ s.stale = r.stale \cup r.owed /\ s.ctl = 0
  <2> SUFFICES ASSUME how = "resets" PROVE s.owed = {} /\ s.stale = r.stale \cup r.owed /\ s.ctl = 0
    OBVIOUS
  <2>1. b.owed = {} /\ b.stale = a.stale \cup a.owed /\ b.ctl = 0
    BY DEF Differ
  <2> QED
    BY <1>1, <1>2, <2>1
<1>11. s.hello = r.hello /\ s.offered = r.offered /\ s.intr = r.intr
  BY <1>1, <1>2, <1>4 DEF View
<1>12. s.bad = r.bad
  BY <1>1, <1>2, <1>4, <1>5 DEF View
<1> QED
  BY <1>6, <1>7, <1>8, <1>9, <1>10, <1>11, <1>12 DEF Differ, r, s

\* Any packets keep the difference: what the peer does while packets are
\* buffered comes to the same as doing it after they are read.
LEMMA ReadsDiffer ==
    ASSUME NEW how \in {"greets", "asks", "class", "resets"}, NEW n \in Nat \ {0},
           NEW v \in View, NEW w \in View, NEW ms \in Seq(Msg),
           how \in {"asks", "class"} => \A i \in 1..Len(ms) : ms[i].id # n,
           Differ(how, n, v, w)
    PROVE  Differ(how, n, ReadsAll(v, ms), ReadsAll(w, ms))
<1>1. PICK f : Trace(f, v, ms)
  BY TraceExists
<1>2. PICK g : Trace(g, w, ms)
  BY TraceExists
<1> DEFINE T == {k \in Nat : k <= Len(ms) => Differ(how, n, f[k], g[k])}
<1>3. 0 \in T
  BY <1>1, <1>2 DEF Trace
<1>4. ASSUME NEW k \in T PROVE k + 1 \in T
  <2> SUFFICES ASSUME k + 1 <= Len(ms) PROVE Differ(how, n, f[k + 1], g[k + 1])
    OBVIOUS
  <2>1. k + 1 \in 1..Len(ms) /\ (k + 1) - 1 = k /\ k \in 0..Len(ms) /\ Differ(how, n, f[k], g[k])
    OBVIOUS
  <2>2. /\ f[k] \in View /\ f[k + 1] = Reads(f[k], ms[k + 1])
        /\ g[k] \in View /\ g[k + 1] = Reads(g[k], ms[k + 1])
    BY <1>1, <1>2, <2>1 DEF Trace
  <2>3. ms[k + 1] \in Msg /\ (how \in {"asks", "class"} => ms[k + 1].id # n)
    BY <2>1
  <2> QED
    BY <2>1, <2>2, <2>3, DifferStep
<1>5. T = Nat
  <2>1. T \in SUBSET Nat
    OBVIOUS
  <2> HIDE DEF T
  <2> QED
    BY <1>3, <1>4, <2>1, SetInduction
<1>6. Differ(how, n, f[Len(ms)], g[Len(ms)])
  BY <1>5
<1> QED
  BY <1>1, <1>2, <1>6, TraceIs

--------------------------------------------------------------------------------
(* The controller, as far as the device looks at it: whether it is         *)
(* attached, and how the request it had has ended.                         *)

Outcomes  == {<<>>, <<"ok">>, <<"stall">>}
UShape(v) == {"attached", "done"} \subseteq DOMAIN v
Steady(c, v) == UShape(v) /\ v.attached = c.attached /\ v.done = c.done
Ended(c, v)  == UShape(v) /\ v.attached = c.attached /\ v.done \in Outcomes

\* usbf_update_irq changes neither.
LEMMA NotifySteady ==
    ASSUME NEW c, UShape(c)
    PROVE  Steady(c, Notify(c))
BY DEF UShape, Steady, Notify

\* usbf_finish_control ends the request that was there.
LEMMA FinishEnded ==
    ASSUME NEW c, UShape(c), c.done = <<>>, NEW s \in {"ok", "stall"}
    PROVE  Ended(c, FinishControl(c, s))
BY DEF UShape, Ended, FinishControl, Outcomes

\* Flushing the FIFOs changes neither.
LEMMA FlushSteady ==
    ASSUME NEW c, UShape(c)
    PROVE  Steady(c, FlushFifos(c))
BY DEF UShape, Steady, FlushFifos

\* Queueing an IN packet changes neither.
LEMMA QueueInSteady ==
    ASSUME NEW c, UShape(c)
    PROVE  Steady(c, QueueIn(c))
BY DEF UShape, Steady, QueueIn

\* An update of the interrupt line keeps how a request has ended.
LEMMA EndedNotify ==
    ASSUME NEW c, NEW v, Ended(c, v)
    PROVE  Ended(c, Notify(v))
BY NotifySteady DEF Ended, Steady

\* A call that changes neither leaves no request ended.
LEMMA SteadyEnded ==
    ASSUME NEW c, NEW v, Steady(c, v), c.done = <<>>
    PROVE  Ended(c, v)
BY DEF Ended, Steady, Outcomes

\* The guest's accesses.
LEMMA GuestEnds ==
    ASSUME NEW c, UShape(c), c.done = <<>>
    PROVE  /\ \A b : Ended(c, WriteUnitEn(c, b)) /\ Ended(c, WriteDesc(c, b))
           /\ \A b : Ended(c, WriteEp3Fifo(c, b)) /\ Ended(c, DmaTx(c, b))
           /\ Ended(c, UsbfReset(c)) /\ Ended(c, ResetPulse(c)) /\ Ended(c, Ep0Stall(c))
           /\ Ended(c, ReadOutFifo(c)) /\ Ended(c, ReadSetupFifo(c))
           /\ Ended(c, Commit(c, {0})) /\ Ended(c, Commit(c, {1})) /\ Ended(c, Commit(c, {3}))
<1> DEFINE fin == FinishControl(c, "stall")
<1>1. Ended(c, fin)
  BY FinishEnded
<1>2. ASSUME NEW b PROVE Ended(c, WriteUnitEn(c, b)) /\ Ended(c, WriteDesc(c, b))
  <2>1. Steady(c, [c EXCEPT !.unit_en = b]) /\ Steady(c, WriteDesc(c, b))
    BY DEF UShape, Steady, WriteDesc
  <2> QED
    BY <2>1, SteadyEnded, EndedNotify DEF WriteUnitEn
<1>3. ASSUME NEW b PROVE Ended(c, WriteEp3Fifo(c, b)) /\ Ended(c, DmaTx(c, b))
  <2> DEFINE p == [c EXCEPT !.ep3_stage = IF Len(@) < MaxPacket THEN Append(@, b) ELSE @]
             v == [c EXCEPT !.in_stage = b]
             w == IF Len(b) = MaxPacket THEN QueueIn(v) ELSE v
             z == [w EXCEPT !.top_latched = @ \cup {"TX_DONE"}]
  <2>1. Steady(c, p) /\ Steady(c, v)
    BY DEF UShape, Steady
  <2>2. Steady(c, w)
    <3> HIDE DEF v
    <3> QED BY <2>1, QueueInSteady DEF Steady
  <2>3. Steady(c, z)
    <3> HIDE DEF w
    <3> QED BY <2>2 DEF UShape, Steady
  <2>4. WriteEp3Fifo(c, b) = Notify(p) /\ DmaTx(c, b) = Notify(z)
    BY DEF WriteEp3Fifo, DmaTx
  <2> HIDE DEF p, z
  <2> QED
    BY <2>1, <2>3, <2>4, SteadyEnded, EndedNotify
<1>4. Ended(c, UsbfReset(c))
  <2> DEFINE v == [UsbfInit EXCEPT !.attached = c.attached, !.done = fin.done]
  <2>1. UShape(v) /\ v.attached = c.attached /\ v.done = fin.done
    BY DEF UsbfInit, UShape
  <2>2. Ended(c, v)
    BY <1>1, <2>1 DEF Ended
  <2> QED
    BY <2>2, EndedNotify DEF UsbfReset
<1>5. Ended(c, ResetPulse(c)) /\ Ended(c, Ep0Stall(c))
  <2> DEFINE f == FlushFifos(fin)
             v == [f EXCEPT !.latched = {}, !.top_latched = {}, !.ep1_off = FALSE]
  <2>1. Ended(c, f)
    <3> HIDE DEF fin
    <3> QED BY <1>1, FlushSteady DEF Ended, Steady
  <2>2. Ended(c, v)
    <3> HIDE DEF f
    <3> QED BY <2>1 DEF Ended, UShape
  <2> QED
    BY <1>1, <2>2, EndedNotify DEF ResetPulse, Ep0Stall
<1>6. Ended(c, ReadOutFifo(c)) /\ Ended(c, ReadSetupFifo(c))
  <2> DEFINE o == [c EXCEPT !.out = IF @ = <<>> THEN @ ELSE Tail(@)]
             v == [c EXCEPT !.setup_pos = @ + 1]
             w == [v EXCEPT !.latched = @ \ {"SETUP"}]
  <2>1. Steady(c, o) /\ Steady(c, v) /\ Steady(c, c)
    BY DEF UShape, Steady
  <2>2. Steady(c, w)
    <3> HIDE DEF v
    <3> QED BY <2>1 DEF UShape, Steady
  <2>3. ReadSetupFifo(c) \in {c, v, Notify(w)} /\ ReadOutFifo(c) = Notify(o)
    BY DEF ReadSetupFifo, ReadOutFifo
  <2> HIDE DEF o, v, w
  <2> QED
    BY <2>1, <2>2, <2>3, SteadyEnded, EndedNotify
<1>7. Ended(c, Commit(c, {0}))
  <2> DEFINE v == [c EXCEPT !.latched = @ \cup {"STATUS_DONE"}]
  <2>1. Steady(c, v)
    BY DEF UShape, Steady
  <2>2. Ended(c, CommitEp0(c))
    <3> HIDE DEF v
    <3>1. Ended(v, FinishControl(v, "ok"))
      BY <2>1, FinishEnded DEF Steady
    <3> QED BY <2>1, <3>1 DEF CommitEp0, Ended, Steady, v
  <2>3. Commit(c, {0}) = Notify(CommitEp0(c))
    BY DEF Commit
  <2> QED
    BY <2>2, <2>3, EndedNotify
<1>8. Ended(c, Commit(c, {1})) /\ Ended(c, Commit(c, {3}))
  <2>1. Steady(c, QueueIn(c)) /\ Steady(c, CommitEp3(c))
    BY QueueInSteady DEF CommitEp3, UShape, Steady
  <2>2. Commit(c, {1}) = Notify(QueueIn(c)) /\ Commit(c, {3}) = Notify(CommitEp3(c))
    BY DEF Commit
  <2> QED
    BY <2>1, <2>2, SteadyEnded, EndedNotify
<1> QED
  BY <1>2, <1>3, <1>4, <1>5, <1>6, <1>7, <1>8

\* The calls of the bus.
LEMMA HostEnds ==
    ASSUME NEW c, UShape(c), c.done = <<>>, c.attached \in BOOLEAN
    PROVE  /\ Ended(c, HostBusReset(c)) /\ Ended(c, ClassRequest(c))
           /\ \A a : Ended(c, SetAddress(c, a)) /\ Ended(c, SetConfiguration(c, a))
           /\ \A p : Ended(c, HostOut(c, p))
           /\ Ended(c, HostIn(c)) /\ Ended(c, HostIntrIn(c))
           /\ \A b \in BOOLEAN : LET v == HostAttach(c, b) IN
                 UShape(v) /\ v.attached = b /\ v.done \in Outcomes
<1>1. ASSUME NEW s, UShape(s), s.done = <<>>
      PROVE  Ended(s, Unplugged(s)) /\ Ended(s, FinishControl(s, "stall"))
  <2> DEFINE fin == FinishControl(s, "stall")
             f == FlushFifos(fin)
  <2>1. Ended(s, fin)
    BY <1>1, FinishEnded
  <2>2. Ended(s, f)
    <3> HIDE DEF fin
    <3> QED BY <2>1, FlushSteady DEF Ended, Steady
  <2>3. Ended(s, [f EXCEPT !.address = 0, !.config = 0])
    <3> HIDE DEF f
    <3> QED BY <2>2 DEF Ended, UShape
  <2> QED
    BY <2>1, <2>3 DEF Unplugged
<1>2. Ended(c, HostBusReset(c))
  <2> DEFINE a == Unplugged(c)
  <2>1. Ended(c, a)
    BY <1>1
  <2> HIDE DEF a
  <2>2. Ended(c, [a EXCEPT !.latched = @ \cup {"BUS_RESET"}])
    BY <2>1 DEF Ended, UShape
  <2> QED
    BY <2>2, EndedNotify DEF HostBusReset, a
<1>3. Ended(c, ClassRequest(c))
  <2> DEFINE a == FinishControl(c, "stall")
             v == [a EXCEPT !.setup_pos = 0, !.ctrl_pending = TRUE,
                            !.latched = @ \cup {"SETUP", "SETUP_OVR", "STATUS_RDY"}]
  <2>1. Ended(c, a) /\ Ended(c, c)
    BY <1>1 DEF Ended, Outcomes
  <2>2. Ended(c, v)
    <3> HIDE DEF a
    <3> QED BY <2>1 DEF Ended, UShape
  <2>3. ClassRequest(c) \in {c, Notify(v)}
    BY DEF ClassRequest
  <2> HIDE DEF v
  <2> QED
    BY <2>1, <2>2, <2>3, EndedNotify
<1>4. ASSUME NEW a PROVE Ended(c, SetAddress(c, a)) /\ Ended(c, SetConfiguration(c, a))
  <2> DEFINE v == [c EXCEPT !.address = a]
             w == [c EXCEPT !.config = a, !.latched = @ \cup {"CONFIG"}]
  <2>1. Steady(c, v) /\ Steady(c, w) /\ Steady(c, c)
    BY DEF Steady, UShape
  <2>2. SetAddress(c, a) \in {c, v} /\ SetConfiguration(c, a) \in {c, Notify(w)}
    BY DEF SetAddress, SetConfiguration
  <2> HIDE DEF v, w
  <2> QED
    BY <2>1, <2>2, SteadyEnded, EndedNotify
<1>5. ASSUME NEW p PROVE Ended(c, HostOut(c, p))
  <2> DEFINE v == [c EXCEPT !.out = @ \o Marked(p)]
  <2>1. Steady(c, v) /\ Steady(c, c)
    BY DEF Steady, UShape
  <2>2. HostOut(c, p) \in {c, Notify(v)}
    BY DEF HostOut
  <2> HIDE DEF v
  <2> QED
    BY <2>1, <2>2, SteadyEnded, EndedNotify
<1>6. Ended(c, HostIn(c)) /\ Ended(c, HostIntrIn(c))
  <2>1. Steady(c, [c EXCEPT !.in = Tail(@)]) /\ Steady(c, [c EXCEPT !.ep3 = <<>>])
    BY DEF Steady, UShape
  <2> QED
    BY <2>1, SteadyEnded, EndedNotify DEF HostIn, HostIntrIn
<1>7. ASSUME NEW b \in BOOLEAN
      PROVE  LET v == HostAttach(c, b) IN UShape(v) /\ v.attached = b /\ v.done \in Outcomes
  <2> DEFINE v == [c EXCEPT !.attached = b]
             a == Unplugged(v)
  <2>1. UShape(v) /\ v.attached = b /\ v.done = <<>>
    BY DEF UShape
  <2> HIDE DEF v
  <2>2. Ended(v, v) /\ Ended(v, a)
    BY <1>1, <2>1 DEF Ended, Outcomes
  <2>3. (HostAttach(c, b) = c /\ c.attached = b) \/ HostAttach(c, b) \in {Notify(v), Notify(a)}
    BY DEF HostAttach, v
  <2> HIDE DEF a
  <2>4. Ended(v, Notify(v)) /\ Ended(v, Notify(a))
    BY <2>2, EndedNotify
  <2> QED
    BY <2>1, <2>3, <2>4 DEF Ended, Outcomes
<1> QED
  BY <1>2, <1>3, <1>4, <1>5, <1>6, <1>7

--------------------------------------------------------------------------------
(* The transfer queues.                                                    *)

Transfer(x) == {"id", "off"} \subseteq DOMAIN x /\ x.id \in Nat
Queue(q) == /\ q \in Seq({q[i] : i \in DOMAIN q})
            /\ \A i \in 1..Len(q) : Transfer(q[i])
NoDup(q) == \A i, j \in 1..Len(q) : q[i].id = q[j].id => i = j

\* A sequence of anything is a queue of what it holds.
LEMMA QueueOf ==
    ASSUME NEW S, NEW q \in Seq(S), \A i \in 1..Len(q) : Transfer(q[i])
    PROVE  Queue(q) /\ Len(q) \in Nat /\ Ids(q) = {q[i].id : i \in 1..Len(q)}
<1>1. DOMAIN q = 1..Len(q) /\ Len(q) \in Nat
  OBVIOUS
<1>2. q \in [1..Len(q) -> {q[i] : i \in DOMAIN q}]
  BY <1>1
<1>3. q \in Seq({q[i] : i \in DOMAIN q})
  <2> DEFINE R == {q[i] : i \in DOMAIN q}
  <2> HIDE DEF R
  <2>1. q \in [1..Len(q) -> R] => q \in Seq(R)
    BY <1>1, SeqDef
  <2> QED
    BY <1>2, <2>1 DEF R
<1> QED
  BY <1>1, <1>3 DEF Queue, Ids

\* What a queue is, in one place.
LEMMA QueueIs ==
    ASSUME NEW q, Queue(q)
    PROVE  /\ \E S : q \in Seq(S)
           /\ Len(q) \in Nat /\ DOMAIN q = 1..Len(q)
           /\ \A i \in 1..Len(q) : Transfer(q[i])
           /\ Ids(q) = {q[i].id : i \in 1..Len(q)} /\ Ids(q) \subseteq Nat
           /\ q = <<>> <=> Len(q) = 0
<1>1. PICK S : q \in Seq(S)
  BY DEF Queue
<1>2. \A i \in 1..Len(q) : Transfer(q[i])
  BY DEF Queue
<1>3. Len(q) \in Nat /\ DOMAIN q = 1..Len(q) /\ (q = <<>> <=> Len(q) = 0)
  BY <1>1
<1>4. Ids(q) = {q[i].id : i \in 1..Len(q)}
  BY <1>3 DEF Ids
<1>5. Ids(q) \subseteq Nat
  BY <1>2, <1>4 DEF Transfer
<1> QED
  BY <1>1, <1>2, <1>3, <1>4, <1>5

\* No transfers are a queue.
LEMMA QueueEmpty == Queue(<<>>) /\ NoDup(<<>>) /\ Ids(<<>>) = {}
<1>1. <<>> \in Seq({}) /\ Len(<<>>) = 0
  OBVIOUS
<1>2. \A q : q = <<>> => Queue(q) /\ NoDup(q) /\ Ids(q) = {}
  <2> SUFFICES ASSUME NEW q, q = <<>> PROVE Queue(q) /\ NoDup(q) /\ Ids(q) = {}
    OBVIOUS
  <2>1. q \in Seq({}) /\ Len(q) = 0
    BY <1>1
  <2>2. 1..Len(q) = {}
    BY <2>1
  <2>3. \A i \in 1..Len(q) : Transfer(q[i])
    BY <2>2
  <2>4. Queue(q)
    BY <2>1, <2>3, EmptySeq DEF Queue
  <2>5. DOMAIN q = {}
    BY <2>1, <2>2
  <2> QED
    BY <2>2, <2>4, <2>5 DEF NoDup, Ids
<1> QED
  BY <1>2

\* queue_push of a transfer with a new id.
LEMMA QueueAppend ==
    ASSUME NEW q, Queue(q), NoDup(q), NEW x, Transfer(x), x.id \notin Ids(q)
    PROVE  LET r == Append(q, x) IN
           Queue(r) /\ NoDup(r) /\ Ids(r) = Ids(q) \cup {x.id}
<1>1. PICK S : q \in Seq(S)
  BY QueueIs
<1>2. Len(q) \in Nat /\ Ids(q) = {q[i].id : i \in 1..Len(q)} /\ \A i \in 1..Len(q) : Transfer(q[i])
  BY QueueIs
<1> DEFINE r == Append(q, x)
<1>3. r \in Seq(S \cup {x})
  <2>1. q \in Seq(S \cup {x})
    BY <1>1, SeqMonotonic
  <2> QED BY <2>1
<1>4. Len(r) = Len(q) + 1 /\ r[Len(q) + 1] = x /\ \A i \in 1..Len(q) : r[i] = q[i]
  BY <1>1
<1> HIDE DEF r
<1>5. \A i \in 1..Len(r) : i \in 1..Len(q) \/ i = Len(q) + 1
  BY <1>2, <1>4
<1>6. \A i \in 1..Len(r) : Transfer(r[i])
  BY <1>2, <1>4, <1>5
<1>7. Queue(r) /\ Ids(r) = {r[i].id : i \in 1..Len(r)}
  BY <1>3, <1>6, QueueOf
<1>8. Ids(r) = Ids(q) \cup {x.id}
  <2>1. Len(q) + 1 \in 1..Len(r) /\ \A i \in 1..Len(q) : i \in 1..Len(r)
    BY <1>2, <1>4
  <2> QED
    BY <1>2, <1>4, <1>5, <1>7, <2>1
<1>9. NoDup(r)
  <2>1. \A i \in 1..Len(q) : q[i].id # x.id
    BY <1>2
  <2> QED
    BY <1>4, <1>5, <2>1 DEF NoDup
<1> QED
  BY <1>7, <1>8, <1>9 DEF r

\* The first n items of a sequence and the rest.
LEMMA Parts ==
    ASSUME NEW S, NEW q \in Seq(S), NEW n \in 0..Len(q)
    PROVE  LET a == SubSeq(q, 1, n)
               b == SubSeq(q, n + 1, Len(q))
           IN  /\ a \in Seq(S) /\ Len(a) = n /\ \A i \in 1..n : a[i] = q[i]
               /\ b \in Seq(S) /\ Len(b) = Len(q) - n
               /\ \A i \in 1..(Len(q) - n) : b[i] = q[n + i]
<1>0. Len(q) \in Nat /\ n \in Nat /\ n <= Len(q)
  OBVIOUS
<1> QED
  BY <1>0

\* queue_remove takes out the one transfer with the id.
LEMMA QueueWithout ==
    ASSUME NEW q, Queue(q), NoDup(q), NEW id \in Ids(q)
    PROVE  LET r == Without(q, id) IN
           Queue(r) /\ NoDup(r) /\ Ids(r) = Ids(q) \ {id}
<1>1. PICK S : q \in Seq(S)
  BY QueueIs
<1>2. /\ Len(q) \in Nat /\ Ids(q) = {q[i].id : i \in 1..Len(q)}
      /\ \A i \in 1..Len(q) : Transfer(q[i])
      /\ DOMAIN q = 1..Len(q)
  BY QueueIs
<1> DEFINE P(i) == q[i].id = id /\ \A j \in 1..(i - 1) : q[j].id # id
           k == CHOOSE i \in DOMAIN q : P(i)
           a == SubSeq(q, 1, k - 1)
           b == SubSeq(q, k + 1, Len(q))
           r == a \o b
<1>3. \E i \in DOMAIN q : P(i)
  <2>1. PICK i \in 1..Len(q) : q[i].id = id
    BY <1>2
  <2>2. \A j \in 1..(i - 1) : q[j].id # id
    <3>1. \A j \in 1..(i - 1) : j \in 1..Len(q) /\ j # i
      BY <1>2
    <3> QED
      BY <2>1, <3>1 DEF NoDup
  <2> QED
    BY <1>2, <2>1, <2>2
<1>4. k \in 1..Len(q) /\ q[k].id = id
  BY <1>2, <1>3
<1>5. Without(q, id) = r
  BY DEF Without
<1> HIDE DEF k
<1>6. /\ a \in Seq(S) /\ Len(a) = k - 1 /\ \A i \in 1..(k - 1) : a[i] = q[i]
      /\ b \in Seq(S) /\ Len(b) = Len(q) - k /\ \A i \in 1..(Len(q) - k) : b[i] = q[k + i]
  <2>1. k \in 0..Len(q) /\ k - 1 \in 0..Len(q)
    BY <1>2, <1>4
  <2> QED
    BY <1>1, <2>1, Parts
<1> HIDE DEF a, b
<1>7. /\ r \in Seq(S) /\ Len(r) = Len(q) - 1
      /\ \A i \in 1..(k - 1) : r[i] = q[i]
      /\ \A i \in k..(Len(q) - 1) : r[i] = q[i + 1]
  <2>1. r \in Seq(S) /\ Len(r) = Len(a) + Len(b)
    BY <1>6
  <2>2. Len(r) = Len(q) - 1
    BY <1>2, <1>4, <1>6, <2>1
  <2>3. \A i \in 1..Len(a) + Len(b) : r[i] = IF i <= Len(a) THEN a[i] ELSE b[i - Len(a)]
    BY <1>6, ConcatProperties
  <2>4. ASSUME NEW i \in 1..(k - 1) PROVE r[i] = q[i]
    <3>1. i \in 1..Len(a) + Len(b) /\ i <= Len(a)
      BY <1>2, <1>4, <1>6
    <3> QED
      BY <1>6, <2>3, <3>1
  <2>5. ASSUME NEW i \in k..(Len(q) - 1) PROVE r[i] = q[i + 1]
    <3>1. /\ i - (k - 1) \in 1..(Len(q) - k) /\ k + (i - (k - 1)) = i + 1
          /\ i \in 1..Len(a) + Len(b) /\ ~(i <= Len(a)) /\ i - Len(a) = i - (k - 1)
      BY <1>2, <1>4, <1>6
    <3>2. r[i] = b[i - (k - 1)]
      BY <2>3, <3>1
    <3> QED
      BY <1>6, <3>1, <3>2
  <2> QED
    BY <2>1, <2>2, <2>4, <2>5
<1> HIDE DEF r
\* the place in q of the i-th of r
<1> DEFINE p(i) == IF i < k THEN i ELSE i + 1
<1>8. ASSUME NEW i \in 1..Len(r)
      PROVE  p(i) \in 1..Len(q) /\ p(i) # k /\ r[i] = q[p(i)]
  <2>1. CASE i < k
    <3>1. i \in 1..(k - 1) /\ p(i) = i
      BY <1>2, <1>4, <2>1
    <3> QED
      BY <1>2, <1>4, <1>7, <3>1
  <2>2. CASE ~(i < k)
    <3>1. i \in k..(Len(q) - 1) /\ p(i) = i + 1
      BY <1>2, <1>4, <1>7, <2>2
    <3> QED
      BY <1>2, <1>4, <1>7, <3>1
  <2> QED
    BY <2>1, <2>2
<1>9. \A i, j \in 1..Len(r) : p(i) = p(j) => i = j
  BY <1>2, <1>4, <1>7
<1>10. ASSUME NEW m \in 1..Len(q), m # k PROVE \E i \in 1..Len(r) : p(i) = m
  <2>1. CASE m < k
    <3>1. m \in 1..Len(r) /\ p(m) = m
      BY <1>2, <1>4, <1>7, <2>1
    <3> QED
      BY <3>1
  <2>2. CASE m > k
    <3>1. m - 1 \in 1..Len(r) /\ p(m - 1) = m
      BY <1>2, <1>4, <1>7, <2>2
    <3> QED
      BY <3>1
  <2> QED
    BY <1>2, <1>4, <1>10, <2>1, <2>2
<1> HIDE DEF p
<1>11. Queue(r) /\ Ids(r) = {r[i].id : i \in 1..Len(r)}
  BY <1>2, <1>7, <1>8, QueueOf
<1>12. NoDup(r)
  BY <1>8, <1>9 DEF NoDup
<1>13. Ids(r) = Ids(q) \ {id}
  <2>1. \A i \in 1..Len(r) : r[i].id \in Ids(q) /\ r[i].id # id
    BY <1>2, <1>4, <1>8 DEF NoDup
  <2>2. ASSUME NEW m \in 1..Len(q), q[m].id # id PROVE \E i \in 1..Len(r) : r[i].id = q[m].id
    <3>1. PICK i \in 1..Len(r) : p(i) = m
      BY <1>4, <1>10, <2>2
    <3> QED
      BY <1>8, <3>1
  <2> QED
    BY <1>2, <1>11, <2>1, <2>2
<1> QED
  BY <1>5, <1>11, <1>12, <1>13

\* queue_pop takes out the oldest transfer.
LEMMA QueueTail ==
    ASSUME NEW q, Queue(q), NoDup(q), q # <<>>
    PROVE  Queue(Tail(q)) /\ NoDup(Tail(q)) /\ Ids(Tail(q)) = Ids(q) \ {Head(q).id}
           /\ Head(q).id \in Ids(q) /\ Transfer(Head(q))
<1>1. PICK S : q \in Seq(S)
  BY QueueIs
<1>2. /\ Len(q) \in Nat /\ Len(q) > 0 /\ Ids(q) = {q[i].id : i \in 1..Len(q)}
      /\ \A i \in 1..Len(q) : Transfer(q[i])
  BY QueueIs
<1> DEFINE r == Tail(q)
<1>3. /\ r \in Seq(S) /\ Len(r) = Len(q) - 1 /\ \A i \in 1..Len(r) : r[i] = q[i + 1]
      /\ Head(q) = q[1]
  BY <1>1, <1>2
<1> HIDE DEF r
<1>4. \A i \in 1..Len(r) : i + 1 \in 1..Len(q) /\ i + 1 # 1
  BY <1>2, <1>3
<1>5. Queue(r) /\ Ids(r) = {r[i].id : i \in 1..Len(r)}
  BY <1>2, <1>3, <1>4, QueueOf
<1>6. NoDup(r)
  BY <1>2, <1>3, <1>4 DEF NoDup
<1>7. Ids(r) = Ids(q) \ {q[1].id}
  <2>1. 1 \in 1..Len(q)
    BY <1>2
  <2>2. \A i \in 1..Len(r) : r[i].id \in Ids(q) /\ r[i].id # q[1].id
    BY <1>2, <1>3, <1>4, <2>1 DEF NoDup
  <2>3. ASSUME NEW m \in 1..Len(q), q[m].id # q[1].id PROVE \E i \in 1..Len(r) : r[i].id = q[m].id
    <3>1. m - 1 \in 1..Len(r) /\ (m - 1) + 1 = m
      BY <1>2, <1>3, <2>3
    <3> QED
      BY <1>3, <3>1
  <2> QED
    BY <1>2, <1>5, <2>2, <2>3
<1> QED
  BY <1>2, <1>3, <1>5, <1>6, <1>7 DEF r

\* A transfer gets on.
LEMMA QueueAdvance ==
    ASSUME NEW q, Queue(q), NoDup(q), q # <<>>, NEW n
    PROVE  LET r == [q EXCEPT ![1].off = n] IN
           /\ Queue(r) /\ NoDup(r) /\ Ids(r) = Ids(q) /\ r # <<>> /\ Head(r).id = Head(q).id
<1>1. PICK S : q \in Seq(S)
  BY QueueIs
<1>2. /\ Len(q) \in Nat /\ Len(q) > 0 /\ Ids(q) = {q[i].id : i \in 1..Len(q)}
      /\ \A i \in 1..Len(q) : Transfer(q[i])
  BY QueueIs
<1> DEFINE x == [q[1] EXCEPT !.off = n]
           r == [q EXCEPT ![1] = x]
<1>3. Transfer(q[1]) /\ 1 \in 1..Len(q)
  BY <1>2
<1>4. Transfer(x) /\ x.id = q[1].id
  BY <1>3 DEF Transfer
<1> HIDE DEF x
<1>5. q \in Seq(S \cup {x})
  BY <1>1, SeqMonotonic
<1>6. r \in Seq(S \cup {x}) /\ Len(r) = Len(q) /\ r[1] = x /\ \A i \in 2..Len(q) : r[i] = q[i]
  BY <1>2, <1>3, <1>5
<1>7. [q EXCEPT ![1].off = n] = r
  BY DEF x
<1> HIDE DEF r
<1>8. \A i \in 1..Len(r) : Transfer(r[i]) /\ r[i].id = q[i].id
  <2>1. \A i \in 1..Len(r) : i = 1 \/ i \in 2..Len(q)
    BY <1>2, <1>6
  <2> QED
    BY <1>2, <1>4, <1>6, <2>1
<1>9. Queue(r) /\ Ids(r) = {r[i].id : i \in 1..Len(r)}
  BY <1>6, <1>8, QueueOf
<1>10. Ids(r) = Ids(q) /\ NoDup(r)
  BY <1>2, <1>6, <1>8, <1>9 DEF NoDup
<1>11. Head(r) = r[1] /\ Head(q) = q[1] /\ r # <<>>
  BY <1>1, <1>2, <1>6
<1> QED
  BY <1>4, <1>6, <1>7, <1>9, <1>10, <1>11

--------------------------------------------------------------------------------
(* The packets on their way to the device, and what it holds of them.      *)

Pkt == {p \in [t : AllReqs \cup {"hello"}, id : Nat, len : Nat] :
          p.id = 0 <=> p.t \in {"hello", "reset", "oversized"}}

\* The requests on a wire
AskAt(w)  == {i \in 1..Len(w) : w[i].t # "cancel" /\ w[i].id # 0}
AskIds(w) == {w[i].id : i \in AskAt(w)}

(***************************************************************************)
(* K: the requests the device holds, C: the class requests among them, O:  *)
(* those that the peer waits for, v: what it will know when it has read    *)
(* all, w: the wire.  What it will still wait for then is held or on the   *)
(* wire, and requests are numbered in the order in which they come and are *)
(* dropped.  What a reset on the wire is to drop, the peer waits for no    *)
(* more; of class requests it waits for one at most.                       *)
(***************************************************************************)
Fits(K, C, O, v, w) ==
    /\ C \subseteq K
    /\ K \cup AskIds(w) \subseteq v.owed \cup v.stale
    /\ v.owed \subseteq K \cup AskIds(w) /\ v.owed \subseteq O
    /\ \A k \in K : \A i \in AskAt(w) : k < w[i].id
    /\ \A i, j \in AskAt(w) : i < j => w[i].id < w[j].id
    /\ \A r \in 1..Len(w) : w[r].t = "reset" =>
          /\ K \cap O = {}
          /\ \A i \in AskAt(w) : i < r => w[i].id \notin O
    /\ \A s \in v.stale : \A o \in v.owed : s < o
    /\ \A c \in C \cap v.owed : v.ctl = c
    /\ \A i \in AskAt(w) : w[i].t = "class" /\ w[i].id \in v.owed => v.ctl = w[i].id

--------------------------------------------------------------------------------
(* The state of the file.                                                  *)

Names == {"u", "ch", "present", "rx", "tx", "hello", "connected", "ctrl_active",
          "ctrl_done", "ctrl_status", "ctrl_id", "bulk_in", "bulk_out", "wrapped",
          "intr_receiving", "intr_due", "setup_id", "view"}

Class(e) == IF e.ctrl_active THEN {e.ctrl_id} ELSE {}
Kept(e)  == Ids(e.bulk_in) \cup Ids(e.bulk_out) \cup Class(e)
Final(e) == ReadsAll(e.view, e.tx)
Up(e)    == IsReady(e.ch)

\* An answer names its request, and nothing else does.
Told(tx) == \A i \in 1..Len(tx) : tx[i].t # "reply" => tx[i].id = 0

Plain(e) ==
    /\ Names \subseteq DOMAIN e
    /\ UShape(e.u) /\ e.u.done = <<>> /\ e.u.attached \in BOOLEAN
    /\ ChGood(e.ch)
    /\ e.rx \in Seq(Pkt) /\ e.tx \in Seq(Msg) /\ Told(e.tx) /\ e.view \in View
    /\ e.connected \in BOOLEAN /\ e.intr_receiving \in BOOLEAN
    /\ e.ctrl_active \in BOOLEAN /\ e.ctrl_status \in {"ok", "stall"} /\ e.ctrl_id \in Nat
    /\ Queue(e.bulk_in) /\ Queue(e.bulk_out)

\* A device that is not connected holds nothing.
Level(e) ==
    /\ e.u.attached = e.connected
    /\ ~e.connected => /\ e.bulk_in = <<>> /\ e.bulk_out = <<>>
                       /\ ~e.ctrl_active /\ ~e.intr_receiving

\* A request is held in one place.
Distinct(e) ==
    /\ NoDup(e.bulk_in) /\ NoDup(e.bulk_out)
    /\ Ids(e.bulk_in) \cap Ids(e.bulk_out) = {}
    /\ Class(e) \cap (Ids(e.bulk_in) \cup Ids(e.bulk_out)) = {}

\* What the peer of e, which has made n requests, sees of it
Agrees(e, n) ==
    /\ ~Final(e).bad
    /\ Final(e).offered = e.connected
    /\ e.intr_receiving => Final(e).intr
    /\ Final(e).hello = ~e.ch.new_peer
    /\ e.view.owed \cup e.view.stale \subseteq 1..n

Gone(e) ==
    /\ ~Up(e) /\ ~e.connected /\ ~e.ch.new_peer
    /\ e.rx = <<>> /\ e.tx = <<>>

Sound(e, w, n) ==
    /\ Plain(e) /\ Level(e) /\ Distinct(e)
    /\ ~e.view.bad
    /\ ~Up(e) => Gone(e)
    /\ e.ch.new_peer => e.tx = <<>>
    /\ Up(e) => Agrees(e, n) /\ Fits(Kept(e), Class(e), e.view.owed, Final(e), w)

Wire == IF pc \in {"idle", "hello"} THEN toDev ELSE d.rx

IInv ==
    /\ sc \in Scenarios
    /\ pc \in {"idle", "off"} \cup Handlers
    /\ toDev \in Seq(Pkt) /\ nreq \in Nat
    /\ pc # "off" => Sound(d, Wire, nreq)
    /\ pc = "off" => ~Up(d) /\ ~d.view.bad
    /\ pc # "rx" => d.rx = <<>>
    /\ pc \notin {"idle", "hello", "off"} => toDev = <<>>
    /\ pc # "hello" => ~d.ch.new_peer
    /\ pc = "hello" => Up(d)

\* Holding less, when the peer waits for less, still fits.
LEMMA FitsLess ==
    ASSUME NEW K, NEW C, NEW O, NEW v \in View, NEW w \in Seq(Pkt), Fits(K, C, O, v, w),
           NEW K1, NEW C1, NEW O1, K1 \subseteq K, C1 \subseteq C, C1 \subseteq K1,
           O1 \subseteq O, NEW r \in View, r.owed \subseteq v.owed, r.owed = {} \/ r.stale \subseteq v.stale,
           K1 \cup AskIds(w) \subseteq r.owed \cup r.stale,
           r.owed \subseteq K1 \cup AskIds(w), r.owed \subseteq O1,
           r.ctl = v.ctl \/ v.ctl \notin r.owed
    PROVE  Fits(K1, C1, O1, r, w)
<1>1. \A s \in r.stale : \A o \in r.owed : s < o
  BY DEF Fits
<1>2. \A k \in K1 : \A i \in AskAt(w) : k < w[i].id
  BY DEF Fits
<1>3. \A i, j \in AskAt(w) : i < j => w[i].id < w[j].id
  BY DEF Fits
<1>4. \A i \in 1..Len(w) : w[i].t = "reset" =>
          /\ K1 \cap O1 = {}
          /\ \A j \in AskAt(w) : j < i => w[j].id \notin O1
  BY DEF Fits
<1>5. \A c \in C1 \cap r.owed : r.ctl = c
  BY DEF Fits
<1>6. \A i \in AskAt(w) : w[i].t = "class" /\ w[i].id \in r.owed => r.ctl = w[i].id
  BY DEF Fits
<1> QED
  BY <1>1, <1>2, <1>3, <1>4, <1>5, <1>6 DEF Fits

\* An answer, or a packet that answers nothing
LEMMA FitsReply ==
    ASSUME NEW K, NEW C, NEW O, NEW v \in View, NEW w \in Seq(Pkt), Fits(K, C, O, v, w),
           NEW m \in Msg, m.t # "disconnect", m.id \notin AskIds(w),
           NEW O1, O1 \subseteq O, Reads(v, m).owed \subseteq O1
    PROVE  Fits(K \ {m.id}, C \ {m.id}, O1, Reads(v, m), w)
<1> DEFINE r == Reads(v, m)
<1>1. /\ r \in View /\ r.owed = v.owed \ {m.id} /\ r.stale = v.stale \ {m.id}
      /\ r.ctl = (IF m.id = v.ctl THEN 0 ELSE v.ctl) /\ r.owed \subseteq O1
  BY ReadsFields
<1> HIDE DEF r
<1>2. (K \ {m.id}) \cup AskIds(w) \subseteq r.owed \cup r.stale
  BY <1>1 DEF Fits
<1>3. r.owed \subseteq (K \ {m.id}) \cup AskIds(w)
  BY <1>1 DEF Fits
<1>4. r.ctl = v.ctl \/ v.ctl \notin r.owed
  BY <1>1
<1>5. C \subseteq K
  BY DEF Fits
<1>6. /\ K \ {m.id} \subseteq K /\ C \ {m.id} \subseteq C /\ C \ {m.id} \subseteq K \ {m.id}
      /\ r.owed \subseteq v.owed /\ r.stale \subseteq v.stale
  BY <1>1, <1>5
<1>7. Fits(K \ {m.id}, C \ {m.id}, O1, r, w)
  BY <1>1, <1>2, <1>3, <1>4, <1>6, FitsLess
<1> QED
  BY <1>7 DEF r

\* 0 names no request.
LEMMA AskIdsNonzero ==
    ASSUME NEW w
    PROVE  0 \notin AskIds(w)
BY DEF AskIds, AskAt

\* A device_disconnect ends the wait for everything.
LEMMA FitsDisconnect ==
    ASSUME NEW K, NEW C, NEW O, NEW v \in View, NEW w \in Seq(Pkt), Fits(K, C, O, v, w)
    PROVE  Fits({}, {}, O, Reads(v, Note("disconnect")), w)
<1> DEFINE m == Note("disconnect")
           r == Reads(v, m)
<1>0. m \in Msg /\ m.t = "disconnect" /\ m.id = 0
  BY DEF Note, Msg, MsgKind, Status
<1> HIDE DEF m
<1>1. r \in View /\ r.owed = {} /\ r.stale = (v.stale \cup v.owed) \ {0}
  BY <1>0, ReadsFields
<1> HIDE DEF r
<1>2. AskIds(w) \subseteq r.owed \cup r.stale
  BY <1>1, AskIdsNonzero DEF Fits
<1> DEFINE E == {}
<1>3. /\ E \subseteq K /\ E \subseteq C /\ E \subseteq E /\ r.owed \subseteq v.owed
      /\ r.owed = {} /\ E \cup AskIds(w) \subseteq r.owed \cup r.stale
      /\ r.owed \subseteq E \cup AskIds(w) /\ v.ctl \notin r.owed
  BY <1>1, <1>2
<1> HIDE DEF E
<1>4. Fits(E, E, O, r, w)
  BY <1>1, <1>3, FitsLess
<1> QED
  BY <1>4 DEF E, r, m

\* The packet at the head of the wire
LEMMA TailAsks ==
    ASSUME NEW w \in Seq(Pkt), w # <<>>
    PROVE  /\ Tail(w) \in Seq(Pkt) /\ Head(w) = w[1] /\ Head(w) \in Pkt /\ 1 \in 1..Len(w)
           /\ \A i \in 1..Len(Tail(w)) : i + 1 \in 1..Len(w) /\ Tail(w)[i] = w[i + 1]
           /\ \A i \in AskAt(Tail(w)) : i + 1 \in AskAt(w) /\ Tail(w)[i] = w[i + 1] /\ i \in Nat
           /\ \A i \in AskAt(w) : i = 1 \/ (i > 1 /\ i - 1 \in AskAt(Tail(w)) /\ w[i] = Tail(w)[i - 1])
           /\ 1 \in AskAt(w) <=> w[1].t # "cancel" /\ w[1].id # 0
           /\ AskIds(w) = AskIds(Tail(w)) \cup (IF 1 \in AskAt(w) THEN {w[1].id} ELSE {})
<1> DEFINE z == Tail(w)
<1>1. /\ z \in Seq(Pkt) /\ Len(z) = Len(w) - 1 /\ Head(w) = w[1] /\ Head(w) \in Pkt
      /\ \A i \in 1..Len(z) : z[i] = w[i + 1]
  OBVIOUS
<1>2. Len(w) \in Nat /\ Len(w) > 0
  OBVIOUS
<1> HIDE DEF z
<1>3. \A i \in 1..Len(z) : i + 1 \in 1..Len(w) /\ z[i] = w[i + 1] /\ i \in Nat
  BY <1>1, <1>2
<1>4. \A i \in AskAt(z) : i + 1 \in AskAt(w) /\ z[i] = w[i + 1] /\ i \in Nat
  BY <1>3 DEF AskAt
<1>5. ASSUME NEW i \in AskAt(w), i # 1
      PROVE  i > 1 /\ i - 1 \in AskAt(z) /\ w[i] = z[i - 1]
  <2>1. i \in 1..Len(w) /\ i - 1 \in 1..Len(z) /\ (i - 1) + 1 = i /\ i > 1
    BY <1>1, <1>2, <1>5 DEF AskAt
  <2>2. w[i] = z[i - 1]
    BY <1>3, <2>1
  <2> QED
    BY <2>1, <2>2, <1>5 DEF AskAt
<1>6. 1 \in AskAt(w) <=> w[1].t # "cancel" /\ w[1].id # 0
  BY <1>2 DEF AskAt
<1>7. AskIds(w) = AskIds(z) \cup (IF 1 \in AskAt(w) THEN {w[1].id} ELSE {})
  BY <1>4, <1>5 DEF AskIds
<1>8. /\ z \in Seq(Pkt) /\ Head(w) = w[1] /\ Head(w) \in Pkt /\ 1 \in 1..Len(w)
      /\ \A i \in 1..Len(z) : i + 1 \in 1..Len(w) /\ z[i] = w[i + 1]
      /\ \A i \in AskAt(z) : i + 1 \in AskAt(w) /\ z[i] = w[i + 1] /\ i \in Nat
      /\ \A i \in AskAt(w) : i = 1 \/ (i > 1 /\ i - 1 \in AskAt(z) /\ w[i] = z[i - 1])
      /\ 1 \in AskAt(w) <=> w[1].t # "cancel" /\ w[1].id # 0
      /\ AskIds(w) = AskIds(z) \cup (IF 1 \in AskAt(w) THEN {w[1].id} ELSE {})
  <2>1. 1 \in 1..Len(w)
    BY <1>2
  <2> QED
    BY <1>1, <1>3, <1>4, <1>5, <1>6, <1>7, <2>1
<1> QED
  BY <1>8 DEF z

\* A request read from the wire is held from then on.
LEMMA FitsTaken ==
    ASSUME NEW K, NEW C, NEW O, NEW v \in View, NEW w \in Seq(Pkt), w # <<>>, Fits(K, C, O, v, w),
           Head(w).t # "cancel", Head(w).id # 0
    PROVE  LET p  == Head(w)
               C1 == IF p.t = "class" THEN {p.id} ELSE {}
           IN  /\ Fits(K \cup {p.id}, C \cup C1, O, v, Tail(w))
               /\ p.id \notin K \cup AskIds(Tail(w)) /\ p.id \in v.owed \cup v.stale
               /\ p.t = "class" => C \cap v.owed = {}
<1> DEFINE p == Head(w)
           z == Tail(w)
           C1 == IF p.t = "class" THEN {p.id} ELSE {}
<1>1. /\ p = w[1] /\ p \in Pkt /\ 1 \in AskAt(w)
      /\ \A i \in 1..Len(z) : i + 1 \in 1..Len(w) /\ z[i] = w[i + 1]
      /\ \A i \in AskAt(z) : i + 1 \in AskAt(w) /\ z[i] = w[i + 1] /\ i \in Nat
      /\ AskIds(w) = AskIds(z) \cup {w[1].id}
  BY TailAsks
<1> HIDE DEF p, z
<1>2. p.id \in Nat /\ p.id \in AskIds(w) /\ K \subseteq Nat
  BY <1>1 DEF Pkt, Fits, View
<1>3. \A i \in AskAt(z) : p.id < z[i].id
  <2> TAKE i \in AskAt(z)
  <2>1. 1 < i + 1 /\ i + 1 \in AskAt(w) /\ z[i] = w[i + 1]
    BY <1>1 DEF AskAt
  <2> QED
    BY <1>1, <2>1 DEF Fits
<1>4. \A k \in K : k < p.id
  BY <1>1 DEF Fits
<1>5. p.id \notin K \cup AskIds(z)
  BY <1>2, <1>3, <1>4 DEF AskIds
<1>6. C \cup C1 \subseteq K \cup {p.id} /\ p.id \in v.owed \cup v.stale
  BY <1>1, <1>2 DEF Fits
<1>7. (K \cup {p.id}) \cup AskIds(z) \subseteq v.owed \cup v.stale
  BY <1>1 DEF Fits
<1>8. v.owed \subseteq (K \cup {p.id}) \cup AskIds(z)
  BY <1>1 DEF Fits
<1>8a. v.owed \subseteq O
  BY DEF Fits
<1>9. \A k \in K \cup {p.id} : \A i \in AskAt(z) : k < z[i].id
  BY <1>1, <1>3 DEF Fits
<1>10. \A i, j \in AskAt(z) : i < j => z[i].id < z[j].id
  <2> SUFFICES ASSUME NEW i \in AskAt(z), NEW j \in AskAt(z), i < j PROVE z[i].id < z[j].id
    OBVIOUS
  <2>1. i + 1 < j + 1
    BY <1>1
  <2> QED
    BY <1>1, <2>1 DEF Fits
<1>11. ASSUME NEW r \in 1..Len(z), z[r].t = "reset"
       PROVE  /\ (K \cup {p.id}) \cap O = {}
              /\ \A i \in AskAt(z) : i < r => z[i].id \notin O
  <2>1. r + 1 \in 1..Len(w) /\ w[r + 1].t = "reset" /\ 1 < r + 1
    BY <1>1, <1>11
  <2>2. K \cap O = {} /\ \A i \in AskAt(w) : i < r + 1 => w[i].id \notin O
    BY <2>1 DEF Fits
  <2>3. p.id \notin O
    BY <1>1, <2>1, <2>2
  <2>4. ASSUME NEW i \in AskAt(z), i < r PROVE z[i].id \notin O
    <3>1. i + 1 < r + 1 /\ i + 1 \in AskAt(w) /\ z[i] = w[i + 1]
      BY <1>1, <2>4
    <3> QED
      BY <2>2, <3>1
  <2> QED
    BY <2>2, <2>3, <2>4
<1>12. \A c \in (C \cup C1) \cap v.owed : v.ctl = c
  BY <1>1 DEF Fits
<1>13. \A i \in AskAt(z) : z[i].t = "class" /\ z[i].id \in v.owed => v.ctl = z[i].id
  BY <1>1 DEF Fits
<1>14. p.t = "class" => C \cap v.owed = {}
  <2> SUFFICES ASSUME p.t = "class", NEW c \in C, c \in v.owed PROVE FALSE
    OBVIOUS
  <2>1. c \in K /\ c \in Nat /\ c < p.id /\ v.ctl = c
    BY <1>2, <1>4 DEF Fits
  <2>2. CASE p.id \in v.owed
    BY <1>1, <2>1, <2>2 DEF Fits
  <2>3. CASE p.id \in v.stale
    BY <1>2, <2>1, <2>3 DEF Fits
  <2> QED
    BY <1>6, <2>2, <2>3
<1>15. \A s \in v.stale : \A o \in v.owed : s < o
  BY DEF Fits
<1>16. Fits(K \cup {p.id}, C \cup C1, O, v, z)
  <2> HIDE DEF C1
  <2> QED BY <1>6, <1>7, <1>8, <1>8a, <1>9, <1>10, <1>11, <1>12, <1>13, <1>15 DEF Fits
<1> QED
  BY <1>5, <1>6, <1>14, <1>16 DEF p, z

\* A packet that asks for nothing leaves the rest as it was; a reset may drop
\* all that is held.
LEMMA FitsPassed ==
    ASSUME NEW K, NEW C, NEW O, NEW v \in View, NEW w \in Seq(Pkt), w # <<>>, Fits(K, C, O, v, w),
           Head(w).t = "cancel" \/ Head(w).id = 0
    PROVE  /\ Fits(K, C, O, v, Tail(w)) /\ AskIds(Tail(w)) = AskIds(w)
           /\ Head(w).t = "reset" => K \cap O = {} /\ Fits({}, {}, O, v, Tail(w))
<1> DEFINE p == Head(w)
           z == Tail(w)
<1>1. /\ z \in Seq(Pkt) /\ p = w[1] /\ p \in Pkt /\ 1 \in 1..Len(w) /\ 1 \notin AskAt(w)
      /\ \A i \in 1..Len(z) : i + 1 \in 1..Len(w) /\ z[i] = w[i + 1]
      /\ \A i \in AskAt(z) : i + 1 \in AskAt(w) /\ z[i] = w[i + 1] /\ i \in Nat
      /\ AskIds(w) = AskIds(z)
  BY TailAsks
<1> HIDE DEF p, z
<1>2. /\ C \subseteq K /\ K \cup AskIds(z) \subseteq v.owed \cup v.stale
      /\ v.owed \subseteq K \cup AskIds(z) /\ v.owed \subseteq O
  BY <1>1 DEF Fits
<1>3. \A k \in K : \A i \in AskAt(z) : k < z[i].id
  BY <1>1 DEF Fits
<1>4. \A i, j \in AskAt(z) : i < j => z[i].id < z[j].id
  <2> SUFFICES ASSUME NEW i \in AskAt(z), NEW j \in AskAt(z), i < j PROVE z[i].id < z[j].id
    OBVIOUS
  <2>1. i + 1 < j + 1
    BY <1>1
  <2> QED
    BY <1>1, <2>1 DEF Fits
<1>5. ASSUME NEW r \in 1..Len(z), z[r].t = "reset"
      PROVE  K \cap O = {} /\ \A i \in AskAt(z) : i < r => z[i].id \notin O
  <2>1. r + 1 \in 1..Len(w) /\ w[r + 1].t = "reset"
    BY <1>1, <1>5
  <2>2. K \cap O = {} /\ \A i \in AskAt(w) : i < r + 1 => w[i].id \notin O
    BY <2>1 DEF Fits
  <2>3. ASSUME NEW i \in AskAt(z), i < r PROVE z[i].id \notin O
    <3>1. i + 1 < r + 1 /\ i + 1 \in AskAt(w) /\ z[i] = w[i + 1]
      BY <1>1, <2>3
    <3> QED
      BY <2>2, <3>1
  <2> QED
    BY <2>2, <2>3
<1>6. /\ \A s \in v.stale : \A o \in v.owed : s < o
      /\ \A c \in C \cap v.owed : v.ctl = c
  BY DEF Fits
<1>7. \A i \in AskAt(z) : z[i].t = "class" /\ z[i].id \in v.owed => v.ctl = z[i].id
  BY <1>1 DEF Fits
<1>8. Fits(K, C, O, v, z)
  BY <1>2, <1>3, <1>4, <1>5, <1>6, <1>7 DEF Fits
<1>9. ASSUME p.t = "reset" PROVE K \cap O = {} /\ Fits({}, {}, O, v, z)
  <2>1. K \cap O = {}
    BY <1>1, <1>9 DEF Fits
  <2> DEFINE E == {}
  <2>2. /\ E \subseteq K /\ E \subseteq C /\ E \subseteq E
        /\ E \cup AskIds(z) \subseteq v.owed \cup v.stale /\ v.owed \subseteq E \cup AskIds(z)
        /\ v.owed \subseteq O
    BY <1>2, <2>1
  <2> HIDE DEF E
  <2>3. Fits(E, E, O, v, z)
    BY <1>1, <1>8, <2>2, FitsLess
  <2> QED
    BY <2>1, <2>3 DEF E
<1> QED
  BY <1>1, <1>8, <1>9 DEF p, z

\* A packet at the end of the wire
LEMMA AppendAsks ==
    ASSUME NEW w \in Seq(Pkt), NEW p \in Pkt
    PROVE  LET z == Append(w, p) IN
           /\ z \in Seq(Pkt) /\ Len(w) \in Nat
           /\ \A i \in 1..Len(z) : (i = Len(w) + 1 /\ z[i] = p) \/ (i \in 1..Len(w) /\ z[i] = w[i])
           /\ \A i \in AskAt(w) : i \in AskAt(z) /\ i \in 1..Len(w) /\ z[i] = w[i]
           /\ \A i \in AskAt(z) : \/ i \in AskAt(w) /\ i \in 1..Len(w) /\ z[i] = w[i]
                                  \/ i = Len(w) + 1 /\ z[i] = p
           /\ AskIds(z) = AskIds(w) \cup (IF p.t # "cancel" /\ p.id # 0 THEN {p.id} ELSE {})
<1> DEFINE z == Append(w, p)
           n == Len(w)
<1>1. /\ z \in Seq(Pkt) /\ n \in Nat /\ Len(z) = n + 1 /\ z[n + 1] = p
      /\ \A i \in 1..n : z[i] = w[i]
  OBVIOUS
<1> HIDE DEF z
<1>2. \A i \in 1..Len(z) : (i = n + 1 /\ z[i] = p) \/ (i \in 1..n /\ z[i] = w[i])
  <2>1. \A i \in 1..Len(z) : i = n + 1 \/ i \in 1..n
    BY <1>1
  <2> QED
    BY <1>1, <2>1
<1>3. \A i \in AskAt(w) : i \in AskAt(z) /\ i \in 1..n /\ z[i] = w[i]
  BY <1>1 DEF AskAt
<1>4. \A i \in AskAt(z) : \/ i \in AskAt(w) /\ i \in 1..n /\ z[i] = w[i]
                          \/ i = n + 1 /\ z[i] = p
  BY <1>2 DEF AskAt
<1>5. p.t # "cancel" /\ p.id # 0 <=> n + 1 \in AskAt(z)
  BY <1>1 DEF AskAt
<1>6. \A i \in AskAt(z) : z[i].id # 0 /\ z[i].t # "cancel"
  BY DEF AskAt
<1>7. AskIds(z) = AskIds(w) \cup (IF p.t # "cancel" /\ p.id # 0 THEN {p.id} ELSE {})
  BY <1>1, <1>3, <1>4, <1>5, <1>6 DEF AskIds
<1>8. /\ z \in Seq(Pkt) /\ n \in Nat
      /\ \A i \in 1..Len(z) : (i = n + 1 /\ z[i] = p) \/ (i \in 1..n /\ z[i] = w[i])
      /\ \A i \in AskAt(w) : i \in AskAt(z) /\ i \in 1..n /\ z[i] = w[i]
      /\ \A i \in AskAt(z) : \/ i \in AskAt(w) /\ i \in 1..n /\ z[i] = w[i]
                             \/ i = n + 1 /\ z[i] = p
      /\ AskIds(z) = AskIds(w) \cup (IF p.t # "cancel" /\ p.id # 0 THEN {p.id} ELSE {})
  BY <1>1, <1>2, <1>3, <1>4, <1>7
<1> QED
  BY <1>8 DEF z

\* A new request is the youngest of all.
LEMMA FitsAsked ==
    ASSUME NEW K, NEW C, NEW O, NEW v \in View, NEW w \in Seq(Pkt), Fits(K, C, O, v, w),
           NEW p \in Pkt, p.t # "cancel", p.id # 0, NEW r \in View, Joins(v, r, p.id),
           \A id \in v.owed \cup v.stale : id < p.id /\ id # 0,
           p.t # "class" => r.ctl = v.ctl,
           p.t = "class" => v.ctl = 0 /\ r.ctl = (IF p.id \in r.owed THEN p.id ELSE 0)
    PROVE  Fits(K, C, O \cup {p.id}, r, Append(w, p))
<1> DEFINE z == Append(w, p)
           n == Len(w)
<1>1. /\ z \in Seq(Pkt) /\ n \in Nat
      /\ \A i \in 1..Len(z) : (i = n + 1 /\ z[i] = p) \/ (i \in 1..n /\ z[i] = w[i])
      /\ \A i \in AskAt(z) : \/ i \in AskAt(w) /\ i \in 1..n /\ z[i] = w[i]
                             \/ i = n + 1 /\ z[i] = p
      /\ AskIds(z) = AskIds(w) \cup {p.id}
  BY AppendAsks
<1> HIDE DEF z
<1>2. p.id \in Nat /\ p.t # "reset" /\ v.owed \subseteq Nat /\ v.stale \subseteq Nat
  BY DEF Pkt, View
<1>3. r.owed \cup r.stale = v.owed \cup v.stale \cup {p.id} /\ v.owed \subseteq r.owed
      /\ r.owed \subseteq v.owed \cup {p.id}
  BY DEF Joins
<1>4. \A id \in K \cup AskIds(w) : id \in v.owed \cup v.stale
  BY DEF Fits
<1>5. C \subseteq K /\ K \cup AskIds(z) \subseteq r.owed \cup r.stale
  BY <1>1, <1>3, <1>4 DEF Fits
<1>6. r.owed \subseteq K \cup AskIds(z) /\ r.owed \subseteq O \cup {p.id}
  BY <1>1, <1>3 DEF Fits
<1>7. \A k \in K : \A i \in AskAt(z) : k < z[i].id
  BY <1>1, <1>4 DEF Fits
<1>8. ASSUME NEW i \in AskAt(z), NEW j \in AskAt(z), i < j PROVE z[i].id < z[j].id
  <2>1. i \in AskAt(w) /\ z[i] = w[i] /\ w[i].id \in AskIds(w)
    BY <1>1, <1>8 DEF AskIds, AskAt
  <2>2. CASE j \in AskAt(w)
    BY <1>1, <1>8, <2>1, <2>2 DEF Fits
  <2>3. CASE j = n + 1 /\ z[j] = p
    BY <1>4, <2>1, <2>3
  <2> QED
    BY <1>1, <2>2, <2>3
<1>9. ASSUME NEW m \in 1..Len(z), z[m].t = "reset"
      PROVE  /\ K \cap (O \cup {p.id}) = {}
             /\ \A i \in AskAt(z) : i < m => z[i].id \notin O \cup {p.id}
  <2>1. m \in 1..n /\ w[m].t = "reset"
    BY <1>1, <1>2, <1>9
  <2>2. K \cap O = {} /\ \A i \in AskAt(w) : i < m => w[i].id \notin O
    BY <2>1 DEF Fits
  <2>3. p.id \notin K
    BY <1>2, <1>4
  <2>4. ASSUME NEW i \in AskAt(z), i < m PROVE z[i].id \notin O \cup {p.id}
    <3>1. i \in AskAt(w) /\ z[i] = w[i] /\ w[i].id \in AskIds(w)
      BY <1>1, <2>1, <2>4 DEF AskIds
    <3>2. w[i].id # p.id
      BY <1>2, <1>4, <3>1
    <3> QED
      BY <2>2, <2>4, <3>1, <3>2
  <2> QED
    BY <2>2, <2>3, <2>4
<1>10. \A s \in r.stale : \A o \in r.owed : s < o
  BY DEF Joins, Fits
<1>11. C \cap r.owed \subseteq v.owed
  BY <1>2, <1>3, <1>4, <1>5
<1>12. \A c \in C \cap r.owed : r.ctl = c
  BY <1>11 DEF Fits
<1>13. ASSUME NEW i \in AskAt(z), z[i].t = "class", z[i].id \in r.owed PROVE r.ctl = z[i].id
  <2>1. CASE i = n + 1 /\ z[i] = p
    BY <1>13, <2>1
  <2>2. CASE i \in AskAt(w) /\ z[i] = w[i]
    <3>1. w[i].id \in AskIds(w)
      BY <2>2 DEF AskIds
    <3>2. w[i].id \in v.owed
      BY <1>2, <1>3, <1>4, <1>13, <2>2, <3>1
    <3>3. v.ctl = w[i].id /\ v.ctl # 0
      BY <1>13, <2>2, <3>2 DEF Fits
    <3> QED
      BY <2>2, <3>3
  <2> QED
    BY <1>1, <2>1, <2>2
<1> QED
  BY <1>5, <1>6, <1>7, <1>8, <1>9, <1>10, <1>12, <1>13 DEF Fits, z

\* A packet that asks for no answer
LEMMA FitsTold ==
    ASSUME NEW K, NEW C, NEW O, NEW v \in View, NEW w \in Seq(Pkt), Fits(K, C, O, v, w),
           NEW p \in Pkt, p.t = "cancel" \/ p.id = 0, NEW r \in View, NEW O1,
           \/ /\ p.t # "reset" /\ O1 = O
              /\ r.owed = v.owed /\ r.stale = v.stale /\ r.ctl = v.ctl
           \/ O1 = {} /\ r.owed = {} /\ r.stale = v.stale \cup v.owed
    PROVE  Fits(K, C, O1, r, Append(w, p))
<1> DEFINE z == Append(w, p)
           n == Len(w)
<1>1. /\ z \in Seq(Pkt) /\ n \in Nat
      /\ \A i \in 1..Len(z) : (i = n + 1 /\ z[i] = p) \/ (i \in 1..n /\ z[i] = w[i])
      /\ \A i \in AskAt(z) : \/ i \in AskAt(w) /\ i \in 1..n /\ z[i] = w[i]
                             \/ i = n + 1 /\ z[i] = p
      /\ AskIds(z) = AskIds(w) \cup (IF p.t # "cancel" /\ p.id # 0 THEN {p.id} ELSE {})
  BY AppendAsks
<1> HIDE DEF z
<1>2. AskIds(z) = AskIds(w) /\ \A i \in AskAt(z) : i \in AskAt(w) /\ z[i] = w[i]
  BY <1>1 DEF AskAt
<1>3. r.owed \cup r.stale = v.owed \cup v.stale /\ r.owed \subseteq v.owed
  OBVIOUS
<1>4. /\ C \subseteq K /\ K \cup AskIds(z) \subseteq r.owed \cup r.stale
      /\ r.owed \subseteq K \cup AskIds(z) /\ r.owed \subseteq O1
  BY <1>2, <1>3 DEF Fits
<1>5. \A k \in K : \A i \in AskAt(z) : k < z[i].id
  BY <1>2 DEF Fits
<1>6. \A i, j \in AskAt(z) : i < j => z[i].id < z[j].id
  BY <1>2 DEF Fits
<1>7. ASSUME NEW m \in 1..Len(z), z[m].t = "reset"
      PROVE  K \cap O1 = {} /\ \A i \in AskAt(z) : i < m => z[i].id \notin O1
  <2>1. CASE O1 = {}
    BY <2>1
  <2>2. CASE p.t # "reset" /\ O1 = O
    <3>1. m \in 1..n /\ w[m].t = "reset"
      BY <1>1, <1>7, <2>2
    <3>2. K \cap O = {} /\ \A i \in AskAt(w) : i < m => w[i].id \notin O
      BY <3>1 DEF Fits
    <3> QED
      BY <1>2, <2>2, <3>2
  <2> QED
    BY <2>1, <2>2
<1>8. \A s \in r.stale : \A o \in r.owed : s < o
  BY DEF Fits
<1>9. \A c \in C \cap r.owed : r.ctl = c
  BY DEF Fits
<1>10. \A i \in AskAt(z) : z[i].t = "class" /\ z[i].id \in r.owed => r.ctl = z[i].id
  BY <1>2 DEF Fits
<1> QED
  BY <1>4, <1>5, <1>6, <1>7, <1>8, <1>9, <1>10 DEF Fits, z

--------------------------------------------------------------------------------
(* Calls into the controller.                                              *)

\* x is e but for the fields F.
Apart(e, x, F) == Names \subseteq DOMAIN x /\ \A f \in Names \ F : x[f] = e[f]

\* A call into the controller, with on_ctrl_done inside it.
LEMMA AccessPlain ==
    ASSUME NEW e, Plain(e), NEW v, UShape(v), v.done \in Outcomes, v.attached \in BOOLEAN
    PROVE  LET x == Access(e, v) IN
           /\ Plain(x) /\ Apart(e, x, {"u", "ctrl_done", "ctrl_status"})
           /\ x.u.attached = v.attached
<1> DEFINE u1 == [v EXCEPT !.done = <<>>]
           w == [e EXCEPT !.u = u1]
           s == v.done[Len(v.done)]
           x == [w EXCEPT !.ctrl_done = TRUE, !.ctrl_status = s]
<1>1. UShape(u1) /\ u1.done = <<>> /\ u1.attached = v.attached
  BY DEF UShape
<1> HIDE DEF u1
<1>2. Plain(w) /\ Apart(e, w, {"u", "ctrl_done", "ctrl_status"}) /\ w.u = u1
  <2>1. Names \subseteq DOMAIN w /\ w.u = u1 /\ \A f \in Names \ {"u"} : w[f] = e[f]
    BY DEF Plain, Names
  <2> HIDE DEF w
  <2>2. /\ w.ch = e.ch /\ w.rx = e.rx /\ w.tx = e.tx /\ w.view = e.view
        /\ w.connected = e.connected /\ w.intr_receiving = e.intr_receiving
        /\ w.ctrl_active = e.ctrl_active /\ w.ctrl_status = e.ctrl_status
        /\ w.ctrl_id = e.ctrl_id /\ w.bulk_in = e.bulk_in /\ w.bulk_out = e.bulk_out
    BY <2>1 DEF Names
  <2> QED
    BY <1>1, <2>1, <2>2 DEF Plain, Apart
<1> HIDE DEF w
<1>3. CASE v.done = <<>> \/ ~e.ctrl_active
  <2>1. Access(e, v) = w
    BY <1>3 DEF Access, w, u1
  <2> QED
    BY <1>1, <1>2, <2>1
<1>4. CASE ~(v.done = <<>> \/ ~e.ctrl_active)
  <2>1. s \in {"ok", "stall"}
    BY <1>4 DEF Outcomes
  <2> HIDE DEF s
  <2>2. Names \subseteq DOMAIN w
    BY <1>2 DEF Plain
  <2>3. /\ Names \subseteq DOMAIN x /\ x.ctrl_status = s
        /\ \A f \in Names \ {"ctrl_done", "ctrl_status"} : x[f] = w[f]
    BY <2>2 DEF Names
  <2> HIDE DEF x
  <2>4. /\ x.ch = w.ch /\ x.rx = w.rx /\ x.tx = w.tx /\ x.view = w.view /\ x.u = w.u
        /\ x.connected = w.connected /\ x.intr_receiving = w.intr_receiving
        /\ x.ctrl_active = w.ctrl_active
        /\ x.ctrl_id = w.ctrl_id /\ x.bulk_in = w.bulk_in /\ x.bulk_out = w.bulk_out
    BY <2>3 DEF Names
  <2>5. Plain(x)
    BY <1>2, <2>1, <2>3, <2>4 DEF Plain
  <2>6. Apart(e, x, {"u", "ctrl_done", "ctrl_status"})
    BY <1>2, <2>3 DEF Apart
  <2>7. Access(e, v) = x
    BY <1>4 DEF Access, x, w, u1, s
  <2> QED
    BY <1>1, <1>2, <2>4, <2>5, <2>6, <2>7
<1> QED
  BY <1>3, <1>4

\* The same for a call that keeps the attachment.
LEMMA AccessEnds ==
    ASSUME NEW e, Plain(e), NEW v, Ended(e.u, v)
    PROVE  LET x == Access(e, v) IN
           /\ Plain(x) /\ Apart(e, x, {"u", "ctrl_done", "ctrl_status"})
           /\ x.u.attached = e.u.attached
<1>1. UShape(v) /\ v.done \in Outcomes /\ v.attached = e.u.attached /\ v.attached \in BOOLEAN
  BY DEF Ended, Plain
<1> QED
  BY <1>1, AccessPlain

\* What Apart is good for
LEMMA ApartFields ==
    ASSUME NEW e, NEW x, Apart(e, x, {"u", "ctrl_done", "ctrl_status"})
    PROVE  /\ x.ch = e.ch /\ x.rx = e.rx /\ x.tx = e.tx /\ x.view = e.view
           /\ x.present = e.present /\ x.hello = e.hello
           /\ x.connected = e.connected /\ x.intr_receiving = e.intr_receiving
           /\ x.ctrl_active = e.ctrl_active /\ x.ctrl_id = e.ctrl_id
           /\ x.bulk_in = e.bulk_in /\ x.bulk_out = e.bulk_out
BY DEF Apart, Names

--------------------------------------------------------------------------------
(* Losing the peer.                                                        *)

Left(e, x) ==
    /\ Plain(x) /\ Gone(x) /\ x.ch.fd = NoFd /\ x.view = e.view
    /\ Level(e) => Level(x) /\ Distinct(x)

\* peer_lost leaves nothing behind.
LEMMA LostLeft ==
    ASSUME NEW e, Plain(e)
    PROVE  Left(e, PeerLost(e))
<1> DEFINE a == DropTransfers([e EXCEPT !.connected = FALSE])
           w == QuietDisconnect(e)
           x == PeerLost(e)
<1>1. /\ Plain(w) /\ w.view = e.view /\ w.ch = e.ch /\ ~w.connected
      /\ Level(e) => /\ ~w.u.attached /\ w.bulk_in = <<>> /\ w.bulk_out = <<>>
                     /\ ~w.ctrl_active /\ ~w.intr_receiving
  <2>1. CASE ~e.connected
    BY <2>1 DEF QuietDisconnect, Level, Plain
  <2>2. CASE e.connected
    <3> DEFINE v == HostAttach(a.u, FALSE)
    <3>1. /\ Names \subseteq DOMAIN a
          /\ a.u = e.u /\ a.ch = e.ch /\ a.rx = e.rx /\ a.tx = e.tx /\ a.view = e.view
          /\ a.ctrl_status = e.ctrl_status /\ a.ctrl_id = e.ctrl_id
          /\ a.connected = FALSE /\ a.bulk_in = <<>> /\ a.bulk_out = <<>>
          /\ a.ctrl_active = FALSE /\ a.intr_receiving = FALSE
      BY DEF Plain, Names, DropTransfers
    <3> HIDE DEF a
    <3>2. Plain(a)
      BY <3>1, QueueEmpty DEF Plain
    <3>3. UShape(v) /\ v.attached = FALSE /\ v.done \in Outcomes
      BY <3>1, HostEnds DEF Plain
    <3> HIDE DEF v
    <3>4. /\ Plain(Access(a, v)) /\ Apart(a, Access(a, v), {"u", "ctrl_done", "ctrl_status"})
          /\ Access(a, v).u.attached = v.attached
      BY <3>2, <3>3, AccessPlain
    <3>5. w = Access(a, v)
      BY <2>2 DEF QuietDisconnect, a, v
    <3> QED
      BY <3>1, <3>3, <3>4, <3>5, ApartFields
  <2> QED
    BY <2>1, <2>2 DEF Plain
<1> HIDE DEF w
<1>2. /\ Names \subseteq DOMAIN x /\ x.ch = ChDropPeer(w.ch) /\ x.rx = <<>> /\ x.tx = <<>>
      /\ x.u = w.u /\ x.view = w.view /\ x.connected = w.connected
      /\ x.intr_receiving = w.intr_receiving /\ x.ctrl_active = w.ctrl_active
      /\ x.ctrl_status = w.ctrl_status /\ x.ctrl_id = w.ctrl_id
      /\ x.bulk_in = w.bulk_in /\ x.bulk_out = w.bulk_out
  BY <1>1 DEF PeerLost, w, Plain, Names
<1> HIDE DEF x
<1>3. ChGood(x.ch) /\ ~IsReady(x.ch) /\ ~x.ch.new_peer /\ x.ch.fd = NoFd
  <2>1. ChGood(w.ch)
    BY <1>1 DEF Plain
  <2>2. /\ ~IsReady(ChDropPeer(w.ch)) /\ ~ChDropPeer(w.ch).new_peer
        /\ ChDropPeer(w.ch).fd = NoFd
    BY <2>1 DEF ChGood, Channel, ChDropPeer, IsReady, NoFd
  <2>3. ChGood(ChDropPeer(w.ch))
    BY <2>1, DropGood DEF ChGood
  <2> QED
    BY <1>2, <2>2, <2>3
<1>4. Told(<<>>) /\ <<>> \in Seq(Msg) /\ <<>> \in Seq(Pkt)
  BY DEF Told
<1>5. Plain(x)
  BY <1>1, <1>2, <1>3, <1>4 DEF Plain
<1>6. Gone(x) /\ (Level(e) => Level(x))
  BY <1>1, <1>2, <1>3 DEF Level, Gone, Up, Plain
<1>7. Level(e) => Distinct(x)
  BY <1>1, <1>2, QueueEmpty DEF Distinct, Class
<1> QED
  BY <1>1, <1>2, <1>3, <1>5, <1>6, <1>7 DEF Left, x

--------------------------------------------------------------------------------
(* Writing to the peer.                                                    *)

TxIds(tx) == {tx[i].id : i \in DOMAIN tx}

\* x is e after a write, when the peer is to know a in the end.
Written(e, x, a) ==
    /\ Apart(e, x, {"tx", "view"})
    /\ x.tx \in Seq(Msg) /\ Told(x.tx) /\ x.view \in View
    /\ Final(x) = a
    /\ x.view.owed \subseteq e.view.owed
    /\ x.view.owed \cup x.view.stale \subseteq e.view.owed \cup e.view.stale
    /\ ~a.bad => ~x.view.bad

\* A write changes the buffer and what the peer knows, and nothing else.
LEMMA WrittenFields ==
    ASSUME NEW e, Plain(e), NEW x, NEW a, Written(e, x, a)
    PROVE  /\ x.ch = e.ch /\ x.rx = e.rx /\ x.u = e.u
           /\ x.present = e.present /\ x.hello = e.hello
           /\ x.connected = e.connected /\ x.intr_receiving = e.intr_receiving
           /\ x.ctrl_active = e.ctrl_active /\ x.ctrl_id = e.ctrl_id
           /\ x.ctrl_status = e.ctrl_status
           /\ x.bulk_in = e.bulk_in /\ x.bulk_out = e.bulk_out
           /\ Plain(x) /\ (Up(x) <=> Up(e)) /\ Kept(x) = Kept(e) /\ Class(x) = Class(e)
           /\ (Distinct(x) <=> Distinct(e)) /\ (Level(x) <=> Level(e))
<1>1. /\ Names \subseteq DOMAIN x
      /\ x.ch = e.ch /\ x.rx = e.rx /\ x.u = e.u
      /\ x.present = e.present /\ x.hello = e.hello
      /\ x.connected = e.connected /\ x.intr_receiving = e.intr_receiving
      /\ x.ctrl_active = e.ctrl_active /\ x.ctrl_id = e.ctrl_id
      /\ x.ctrl_status = e.ctrl_status
      /\ x.bulk_in = e.bulk_in /\ x.bulk_out = e.bulk_out
  BY DEF Written, Apart, Names
<1>2. Plain(x)
  BY <1>1 DEF Plain, Written
<1>3. (Up(x) <=> Up(e)) /\ Kept(x) = Kept(e) /\ Class(x) = Class(e)
  BY <1>1 DEF Up, Kept, Class
<1>4. (Distinct(x) <=> Distinct(e)) /\ (Level(x) <=> Level(e))
  BY <1>1, <1>3 DEF Distinct, Level
<1> QED
  BY <1>1, <1>2, <1>3, <1>4

\* The peer has what was written, the rest is to come.
LEMMA PartWritten ==
    ASSUME NEW e, Plain(e), NEW n \in 0..Len(e.tx)
    PROVE  LET x == [e EXCEPT !.tx = SubSeq(@, n + 1, Len(@)),
                              !.view = ReadsAll(@, SubSeq(e.tx, 1, n))]
           IN  /\ Written(e, x, Final(e)) /\ (e.tx = <<>> => x.tx = <<>>)
               /\ \A i \in 1..Len(e.tx) :
                    e.tx[i].id \in TxIds(x.tx) \/ e.tx[i].id \notin x.view.owed
<1> DEFINE a == SubSeq(e.tx, 1, n)
           b == SubSeq(e.tx, n + 1, Len(e.tx))
           v == ReadsAll(e.view, a)
           x == [e EXCEPT !.tx = b, !.view = v]
<1>0. e.tx \in Seq(Msg) /\ e.view \in View /\ Told(e.tx) /\ Names \subseteq DOMAIN e
  BY DEF Plain
<1>1. /\ a \in Seq(Msg) /\ b \in Seq(Msg) /\ v \in View
      /\ ReadsAll(v, b) = ReadsAll(e.view, e.tx)
  BY <1>0, ReadsSplit
<1>2. /\ Len(a) = n /\ \A i \in 1..n : a[i] = e.tx[i]
      /\ Len(b) = Len(e.tx) - n /\ \A i \in 1..(Len(e.tx) - n) : b[i] = e.tx[n + i]
  BY <1>0, Parts
<1>3. After(e.view, v, a, n)
  BY <1>0, <1>1, <1>2, ReadsAfter
<1>4. After(v, ReadsAll(v, b), b, Len(b))
  BY <1>1, ReadsAfter
<1>5. n \in Nat /\ Len(e.tx) \in Nat /\ DOMAIN b = 1..Len(b)
  BY <1>0, <1>1
<1> HIDE DEF a, b, v
<1>6. x.tx = b /\ x.view = v /\ Apart(e, x, {"tx", "view"})
  BY <1>0 DEF Apart, Names
<1> HIDE DEF x
<1>7. Told(b)
  <2>1. \A i \in 1..Len(b) : n + i \in 1..Len(e.tx) /\ b[i] = e.tx[n + i]
    BY <1>2, <1>5
  <2> QED
    BY <1>0, <2>1 DEF Told
<1>8. Written(e, x, Final(e))
  BY <1>1, <1>3, <1>4, <1>6, <1>7 DEF Written, Final, After
<1>9. ASSUME NEW i \in 1..Len(e.tx)
      PROVE  e.tx[i].id \in TxIds(x.tx) \/ e.tx[i].id \notin x.view.owed
  <2>1. CASE i <= n
    <3>1. i \in 1..n
      BY <1>5, <2>1
    <3> QED
      BY <1>2, <1>3, <1>6, <3>1 DEF After
  <2>2. CASE i > n
    <3>1. i - n \in 1..(Len(e.tx) - n) /\ n + (i - n) = i
      BY <1>2, <1>5, <2>2
    <3>2. b[i - n] = e.tx[i] /\ i - n \in DOMAIN b
      BY <1>2, <1>5, <3>1
    <3> QED
      BY <1>6, <3>2 DEF TxIds
  <2> QED
    BY <1>5, <2>1, <2>2
<1>10. e.tx = <<>> => x.tx = <<>>
  BY <1>1, <1>2, <1>5, <1>6
<1> QED
  BY <1>8, <1>9, <1>10 DEF x, v, b, a

\* flush_tx writes all, or a part and keeps the rest, or loses the peer; an
\* answer that has gone out is one the peer has read.
LEMMA FlushOutcome ==
    ASSUME NEW e, Plain(e), NEW h, NEW x \in FlushTx(e, h)
    PROVE  \/ /\ Written(e, x, Final(e)) /\ (e.tx = <<>> => x.tx = <<>>)
              /\ \A i \in 1..Len(e.tx) :
                   e.tx[i].id \in TxIds(x.tx) \/ e.tx[i].id \notin x.view.owed
           \/ h \in sc.fails /\ x = PeerLost(e)
<1> DEFINE sent(n) == [e EXCEPT !.tx = SubSeq(@, n + 1, Len(@)),
                                !.view = ReadsAll(@, SubSeq(e.tx, 1, n))]
<1>1. CASE x \in {sent(n) : n \in {k \in 0..Len(e.tx) : Len(e.tx) - k <= sc.backlog}}
  <2>1. PICK n \in 0..Len(e.tx) : x = sent(n)
    BY <1>1
  <2> QED
    BY <2>1, PartWritten
<1>2. CASE x \in IF h \in sc.fails /\ e.tx # <<>> THEN {PeerLost(e)} ELSE {}
  BY <1>2
<1> QED
  BY <1>1, <1>2 DEF FlushTx

\* send_packet to a peer that is there.
LEMMA SendOutcome ==
    ASSUME NEW e, Plain(e), Up(e), NEW m \in Msg, m.t # "reply" => m.id = 0,
           NEW h, NEW x \in Send(e, m, h)
    PROVE  \/ Written(e, x, Reads(Final(e), m)) /\ (m.id \in TxIds(x.tx) \/ m.id \notin x.view.owed)
           \/ h \in sc.fails /\ Left(e, x)
<1> DEFINE t == Append(e.tx, m)
           w == [e EXCEPT !.tx = t]
<1>0. e.tx \in Seq(Msg) /\ e.view \in View /\ Told(e.tx) /\ Names \subseteq DOMAIN e
  BY DEF Plain
<1>1. /\ t \in Seq(Msg) /\ Len(e.tx) \in Nat /\ Len(t) = Len(e.tx) + 1 /\ t[Len(e.tx) + 1] = m
      /\ \A i \in 1..Len(e.tx) : t[i] = e.tx[i]
  BY <1>0
<1>2. ReadsAll(e.view, t) = Reads(Final(e), m)
  BY <1>0, ReadsAppend DEF Final
<1> HIDE DEF t
<1>3. Told(t)
  BY <1>0, <1>1 DEF Told
<1>4. w.tx = t /\ \A f \in Names \ {"tx"} : w[f] = e[f]
  BY <1>0 DEF Names
<1>5. Names \subseteq DOMAIN w
  BY <1>0 DEF Names
<1>6. x \in FlushTx(w, h)
  BY DEF Send, Up, t
<1> HIDE DEF w
<1>7. /\ w.ch = e.ch /\ w.rx = e.rx /\ w.u = e.u /\ w.view = e.view
      /\ w.connected = e.connected /\ w.intr_receiving = e.intr_receiving
      /\ w.ctrl_active = e.ctrl_active /\ w.ctrl_id = e.ctrl_id
      /\ w.ctrl_status = e.ctrl_status
      /\ w.bulk_in = e.bulk_in /\ w.bulk_out = e.bulk_out
  BY <1>4 DEF Names
<1>8. Plain(w) /\ (Level(e) => Level(w))
  BY <1>1, <1>3, <1>4, <1>5, <1>7 DEF Plain, Level
<1>9. Final(w) = Reads(Final(e), m)
  BY <1>2, <1>4, <1>7 DEF Final
<1>10. CASE Written(w, x, Final(w)) /\ \A i \in 1..Len(w.tx) :
                w.tx[i].id \in TxIds(x.tx) \/ w.tx[i].id \notin x.view.owed
  <2>1. Len(t) \in 1..Len(t)
    BY <1>1
  <2>2. m.id \in TxIds(x.tx) \/ m.id \notin x.view.owed
    BY <1>1, <1>4, <1>10, <2>1
  <2>3. Apart(e, x, {"tx", "view"})
    BY <1>4, <1>10 DEF Written, Apart
  <2>4. Written(e, x, Reads(Final(e), m))
    BY <1>7, <1>9, <1>10, <2>3 DEF Written
  <2> QED
    BY <2>2, <2>4
<1>11. CASE h \in sc.fails /\ x = PeerLost(w)
  <2>1. Left(w, x)
    BY <1>8, <1>11, LostLeft
  <2>2. Left(e, x)
    BY <1>7, <1>8, <2>1 DEF Left
  <2> QED
    BY <1>11, <2>2
<1> QED
  BY <1>6, <1>8, <1>10, <1>11, FlushOutcome

--------------------------------------------------------------------------------
(* A device with a peer, in a handler.                                     *)

Works(e, n) ==
    /\ Plain(e) /\ Level(e) /\ Distinct(e) /\ Up(e) /\ ~e.ch.new_peer
    /\ ~Final(e).bad /\ Final(e).hello /\ Final(e).offered = e.connected
    /\ e.view.owed \cup e.view.stale \subseteq 1..n
Polls(e)   == e.intr_receiving => Final(e).intr
Owns(e, w) == Fits(Kept(e), Class(e), e.view.owed, Final(e), w)

\* What the peer will know in the end.
LEMMA FinalTyped ==
    ASSUME NEW e, Plain(e)
    PROVE  Final(e) \in View /\ After(e.view, Final(e), e.tx, Len(e.tx))
BY ReadsAllTyped, ReadsAfter DEF Plain, Final

\* A sound device with a peer is one that works, polls and owns.
LEMMA SoundWorks ==
    ASSUME NEW e, NEW w, NEW n
    PROVE  /\ Works(e, n) /\ Polls(e) /\ Owns(e, w) => Sound(e, w, n)
           /\ Sound(e, w, n) /\ Up(e) /\ ~e.ch.new_peer => Works(e, n) /\ Polls(e) /\ Owns(e, w)
<1>1. ASSUME Works(e, n), Polls(e), Owns(e, w) PROVE Sound(e, w, n)
  <2>1. ~e.view.bad
    BY <1>1, FinalTyped DEF Works, After
  <2>2. Agrees(e, n)
    BY <1>1 DEF Works, Polls, Agrees
  <2> QED
    BY <1>1, <2>1, <2>2 DEF Works, Owns, Sound
<1>2. ASSUME Sound(e, w, n), Up(e), ~e.ch.new_peer PROVE Works(e, n) /\ Polls(e) /\ Owns(e, w)
  BY <1>2 DEF Sound, Agrees, Works, Polls, Owns
<1> QED
  BY <1>1, <1>2

\* A device whose peer is lost is sound.
LEMMA LeftSound ==
    ASSUME NEW e, NEW x, Left(e, x), Level(e), ~e.view.bad, NEW w, NEW n
    PROVE  Sound(x, w, n) /\ ~Up(x) /\ ~x.connected /\ ~x.ch.new_peer /\ x.rx = <<>>
BY DEF Left, Gone, Sound

\* What the peer will know does not depend on the rest.
LEMMA WorksAlike ==
    ASSUME NEW e, NEW n, Works(e, n), NEW x, Plain(x), Level(x), Distinct(x),
           x.ch = e.ch, x.tx = e.tx, x.view = e.view, x.connected = e.connected
    PROVE  Works(x, n) /\ Final(x) = Final(e)
BY DEF Works, Final, Up

(***************************************************************************)
(* The end of a handler that tells the peer m.  K, C: what the device held *)
(* before, of which it has dropped what m answers.                         *)
(***************************************************************************)
Said(e, x, id) ==
    \/ /\ x.bulk_in = e.bulk_in /\ x.bulk_out = e.bulk_out /\ x.rx = e.rx
       /\ x.ch = e.ch /\ (id \in TxIds(x.tx) \/ id \notin x.view.owed)
       /\ x.connected = e.connected /\ x.intr_receiving = e.intr_receiving
    \/ ~Up(x) /\ ~x.connected /\ x.rx = <<>>

Wrote(e, x, m) ==
    \/ Written(e, x, Reads(Final(e), m)) /\ (m.id \in TxIds(x.tx) \/ m.id \notin x.view.owed)
    \/ Left(e, x)

\* A handler that ends by telling the peer something it can make sense of
\* leaves the device sound.
LEMMA SendSound ==
    ASSUME NEW e, NEW n, Works(e, n), NEW w \in Seq(Pkt), NEW K, NEW C,
           Fits(K, C, e.view.owed, Final(e), w),
           NEW m \in Msg, m.t # "disconnect", m.t # "reply" => m.id = 0,
           m.id \notin AskIds(w), Kept(e) = K \ {m.id}, Class(e) = C \ {m.id},
           LET r == Reads(Final(e), m) IN
           ~r.bad /\ r.hello /\ r.offered = e.connected /\ (e.intr_receiving => r.intr),
           NEW h, NEW x, x \in Send(e, m, h) \/ Wrote(e, x, m)
    PROVE  Sound(x, w, n) /\ ~x.ch.new_peer /\ Said(e, x, m.id)
<1> DEFINE r == Reads(Final(e), m)
<1>1. ~r.bad /\ r.hello /\ r.offered = e.connected /\ (e.intr_receiving => r.intr)
  OBVIOUS
<1>2. Plain(e) /\ Level(e) /\ Up(e) /\ ~e.ch.new_peer
  BY DEF Works
<1>3. Final(e) \in View /\ ~e.view.bad
  BY <1>2, FinalTyped DEF Works, After
<1>4. ASSUME NEW O1, O1 \subseteq e.view.owed, r.owed \subseteq O1
      PROVE  Fits(K \ {m.id}, C \ {m.id}, O1, r, w)
  BY <1>3, <1>4, FitsReply
<1> HIDE DEF r
<1>5. CASE Written(e, x, r) /\ (m.id \in TxIds(x.tx) \/ m.id \notin x.view.owed)
  <2>1. /\ x.ch = e.ch /\ x.rx = e.rx /\ x.u = e.u
        /\ x.connected = e.connected /\ x.intr_receiving = e.intr_receiving
        /\ x.bulk_in = e.bulk_in /\ x.bulk_out = e.bulk_out
        /\ Plain(x) /\ (Up(x) <=> Up(e)) /\ Kept(x) = Kept(e) /\ Class(x) = Class(e)
        /\ (Distinct(x) <=> Distinct(e)) /\ (Level(x) <=> Level(e))
    BY <1>2, <1>5, WrittenFields
  <2>2. Final(x) = r /\ x.view.owed \cup x.view.stale \subseteq e.view.owed \cup e.view.stale
    BY <1>5 DEF Written
  <2>3. Works(x, n) /\ Polls(x)
    BY <1>1, <2>1, <2>2 DEF Works, Polls
  <2>4. Owns(x, w)
    <3>1. x.view.owed \subseteq e.view.owed
      BY <1>5 DEF Written
    <3>2. r.owed \subseteq x.view.owed
      BY <2>1, <2>2, FinalTyped DEF After
    <3> QED
      BY <1>4, <2>1, <2>2, <3>1, <3>2 DEF Owns
  <2>5. Sound(x, w, n)
    BY <2>3, <2>4, SoundWorks
  <2> QED
    BY <1>2, <1>5, <2>1, <2>5 DEF Said
<1>6. CASE Left(e, x)
  BY <1>2, <1>3, <1>6, LeftSound DEF Said
<1>7. Wrote(e, x, m)
  BY <1>2, SendOutcome DEF Wrote
<1> QED
  BY <1>5, <1>6, <1>7 DEF r, Wrote

(***************************************************************************)
(* A request off the wire that is answered at once.  e is the file with    *)
(* the rest of the packets, x what the handler makes of it before it       *)
(* answers.                                                                *)
(***************************************************************************)
Taken(e, w, p, n) ==
    /\ Works(e, n) /\ Polls(e) /\ w \in Seq(Pkt) /\ p \in Pkt /\ p.t # "cancel" /\ p.id # 0
    /\ Fits(Kept(e) \cup {p.id}, Class(e) \cup (IF p.t = "class" THEN {p.id} ELSE {}),
            e.view.owed, Final(e), w)
    /\ p.id \notin Kept(e) \cup AskIds(w) /\ p.id \in Final(e).owed \cup Final(e).stale
    /\ p.t = "class" => Class(e) \cap Final(e).owed = {}

\* The answer to the request just read, whatever else the handler did.
LEMMA AnswerSound ==
    ASSUME NEW e, NEW w, NEW p, NEW n, Taken(e, w, p, n), NEW s \in Status,
           NEW y, Plain(y), Level(y), y.ch = e.ch, y.tx = e.tx, y.view = e.view,
           y.connected = e.connected, y.bulk_in = e.bulk_in, y.bulk_out = e.bulk_out,
           y.ctrl_active = e.ctrl_active, y.ctrl_id = e.ctrl_id,
           y.intr_receiving => (e.intr_receiving \/ s = "receiving") /\ s # "stopped",
           NEW h, NEW x \in Send(y, Reply(p.id, s), h)
    PROVE  Sound(x, w, n) /\ ~x.ch.new_peer /\ Said(y, x, p.id)
<1> DEFINE m == Reply(p.id, s)
           C1 == IF p.t = "class" THEN {p.id} ELSE {}
           K == Kept(e) \cup {p.id}
           C == Class(e) \cup C1
<1>1. m \in Msg /\ m.t = "reply" /\ m.id = p.id /\ m.status = s
  BY DEF Reply, Msg, MsgKind, Taken, Pkt
<1> HIDE DEF m
<1>2. Kept(y) = Kept(e) /\ Class(y) = Class(e) /\ Class(e) \subseteq Kept(e)
  BY DEF Kept, Class
<1>3. Distinct(y)
  BY <1>2 DEF Taken, Works, Distinct
<1>4. Works(y, n) /\ Final(y) = Final(e)
  BY <1>3, WorksAlike DEF Taken
<1>5. Final(y) \in View
  BY FinalTyped
<1>6. LET r == Reads(Final(y), m) IN
      ~r.bad /\ r.hello /\ r.offered = y.connected /\ (y.intr_receiving => r.intr)
  <2> DEFINE r == Reads(Final(y), m)
             v == Final(y)
  <2>1. /\ r \in View
        /\ r.hello <=> v.hello \/ m.t = "hello"
        /\ r.offered <=> (v.offered \/ m.t = "connect") /\ m.t # "disconnect"
        /\ r.intr <=> (v.intr \/ m.status = "receiving")
                            /\ m.status # "stopped" /\ m.t # "disconnect"
        /\ ~r.bad <=> /\ ~v.bad
                      /\ m.t = "hello" => ~v.hello
                      /\ m.t = "connect" => v.hello /\ ~v.offered
                      /\ m.t = "disconnect" => v.offered
                      /\ m.t = "reply" => v.hello /\ m.id \in v.owed \cup v.stale
                      /\ m.t = "intr" => v.intr
                      /\ m.t = "info" => v.hello
    BY <1>1, <1>5, ReadsFields
  <2> HIDE DEF r, v
  <2>2. /\ ~v.bad /\ v.hello /\ v.offered = y.connected /\ v \in View
        /\ p.id \in v.owed \cup v.stale /\ (e.intr_receiving => v.intr)
    BY <1>4, <1>5 DEF Works, Taken, Polls, v
  <2>3. ~r.bad /\ r.hello
    BY <1>1, <2>1, <2>2
  <2>4. r.offered = y.connected
    BY <1>1, <2>1, <2>2 DEF View, Plain
  <2>5. y.intr_receiving => r.intr
    BY <1>1, <2>1, <2>2
  <2> QED
    BY <2>3, <2>4, <2>5 DEF r
<1>7. /\ Fits(K, C, y.view.owed, Final(y), w) /\ p.id \notin Kept(e) \cup AskIds(w) /\ w \in Seq(Pkt)
  BY <1>4 DEF Taken
<1>8. Kept(y) = K \ {m.id} /\ Class(y) = C \ {m.id}
  <2> HIDE DEF C1
  <2>1. C1 \subseteq {p.id}
    BY DEF C1
  <2> QED
    BY <1>1, <1>2, <1>7, <2>1
<1> HIDE DEF K, C
<1>9. x \in Send(y, m, h)
  BY DEF m
<1>10. Sound(x, w, n) /\ ~x.ch.new_peer /\ Said(y, x, m.id)
  BY <1>1, <1>4, <1>6, <1>7, <1>8, <1>9, SendSound, ZenonT(120)
<1> QED
  BY <1>1, <1>10

\* 0 is no request the device holds or the peer waits for.
LEMMA KeptNonzero ==
    ASSUME NEW e, NEW w, NEW n \in Nat, Works(e, n), Owns(e, w)
    PROVE  0 \notin Kept(e) /\ 0 \notin Class(e) /\ 0 \notin Final(e).owed \cup Final(e).stale
<1>1. 0 \notin Final(e).owed \cup Final(e).stale
  BY FinalTyped DEF Works, After
<1> QED
  BY <1>1 DEF Owns, Fits

\* A packet that answers nothing
LEMMA NoteSound ==
    ASSUME NEW e, NEW w \in Seq(Pkt), NEW n \in Nat, Works(e, n), Polls(e), Owns(e, w),
           NEW t \in {"info", "intr"}, t = "intr" => Final(e).intr,
           NEW h, NEW x \in Send(e, Note(t), h)
    PROVE  Sound(x, w, n) /\ ~x.ch.new_peer /\ Said(e, x, 0)
<1> DEFINE m == Note(t)
           r == Reads(Final(e), m)
           v == Final(e)
<1>1. m \in Msg /\ m.t = t /\ m.id = 0 /\ m.status = "ok"
  BY DEF Note, Msg, MsgKind, Status
<1>2. x \in Send(e, m, h)
  OBVIOUS
<1> HIDE DEF m
<1>3. v \in View
  BY FinalTyped DEF Works
<1>4. /\ r \in View
      /\ r.hello <=> v.hello \/ m.t = "hello"
      /\ r.offered <=> (v.offered \/ m.t = "connect") /\ m.t # "disconnect"
      /\ r.intr <=> (v.intr \/ m.status = "receiving")
                          /\ m.status # "stopped" /\ m.t # "disconnect"
      /\ ~r.bad <=> /\ ~v.bad
                    /\ m.t = "hello" => ~v.hello
                    /\ m.t = "connect" => v.hello /\ ~v.offered
                    /\ m.t = "disconnect" => v.offered
                    /\ m.t = "reply" => v.hello /\ m.id \in v.owed \cup v.stale
                    /\ m.t = "intr" => v.intr
                    /\ m.t = "info" => v.hello
  BY <1>1, <1>3, ReadsFields
<1> HIDE DEF r
<1>5. ~v.bad /\ v.hello /\ v.offered = e.connected /\ (e.intr_receiving => v.intr)
  BY DEF Works, Polls
<1>6. t = "intr" => v.intr
  OBVIOUS
<1> HIDE DEF v
<1>7. ~r.bad /\ r.hello /\ (e.intr_receiving => r.intr)
  BY <1>1, <1>4, <1>5, <1>6
<1>8. r.offered = e.connected
  BY <1>1, <1>3, <1>4, <1>5 DEF View, Works, Plain
<1>9. Kept(e) = Kept(e) \ {m.id} /\ Class(e) = Class(e) \ {m.id} /\ m.id \notin AskIds(w)
  BY <1>1, KeptNonzero, AskIdsNonzero
<1>10. Fits(Kept(e), Class(e), e.view.owed, Final(e), w)
  BY DEF Owns
<1>11. Sound(x, w, n) /\ ~x.ch.new_peer /\ Said(e, x, m.id)
  BY <1>1, <1>2, <1>7, <1>8, <1>9, <1>10, SendSound DEF r, v
<1> QED
  BY <1>1, <1>11

--------------------------------------------------------------------------------
(* The packets of the peer.                                                *)

Leaves(e, x) ==
    \A q \in {"bulk_in", "bulk_out"} : \A id \in Ids(e[q]) \ Ids(x[q]) :
        ~x.connected \/ id \in TxIds(x.tx) \/ id \notin x.view.owed

Handled(e, x, w, n) ==
    Sound(x, w, n) /\ ~x.ch.new_peer /\ (Up(x) => x.rx = e.rx) /\ Leaves(e, x)

\* A handler that ends with an answer lets no other transfer go.
LEMMA SaidHandled ==
    ASSUME NEW e, NEW x, NEW y, NEW w, NEW n, NEW id, Sound(x, w, n), ~x.ch.new_peer,
           Said(y, x, id), y.rx = e.rx,
           Ids(e.bulk_in) \subseteq Ids(y.bulk_in) \cup {id},
           Ids(e.bulk_out) \subseteq Ids(y.bulk_out) \cup {id}
    PROVE  Handled(e, x, w, n)
<1>1. CASE x.bulk_in = y.bulk_in /\ x.bulk_out = y.bulk_out /\ x.rx = y.rx
           /\ (id \in TxIds(x.tx) \/ id \notin x.view.owed)
  BY <1>1 DEF Handled, Leaves
<1>2. CASE ~Up(x) /\ ~x.connected /\ x.rx = <<>>
  BY <1>2 DEF Handled, Leaves
<1> QED
  BY <1>1, <1>2 DEF Said

\* A handler that answers nothing lets none go.
LEMMA SameHandled ==
    ASSUME NEW e, NEW x, NEW w, NEW n, Works(x, n), Polls(x), Owns(x, w), x.rx = e.rx,
           \/ ~x.connected
           \/ Ids(e.bulk_in) \subseteq Ids(x.bulk_in) /\ Ids(e.bulk_out) \subseteq Ids(x.bulk_out)
    PROVE  Handled(e, x, w, n)
<1>1. Sound(x, w, n) /\ ~x.ch.new_peer
  BY SoundWorks DEF Works
<1> QED
  BY <1>1 DEF Handled, Leaves

\* A request that is answered at once, with nothing else done
LEMMA AnswerHandled ==
    ASSUME NEW e, NEW w, NEW p, NEW n, Taken(e, w, p, n),
           NEW s \in {"ok", "ioerror", "stall"}, NEW x \in Send(e, Reply(p.id, s), "rx")
    PROVE  Handled(e, x, w, n)
<1>1. Plain(e) /\ Level(e) /\ s \in Status /\ s # "receiving" /\ s # "stopped"
  BY DEF Taken, Works, Status
<1>2. Sound(x, w, n) /\ ~x.ch.new_peer /\ Said(e, x, p.id)
  BY <1>1, AnswerSound
<1> QED
  BY <1>2, SaidHandled

\* handle_set_configuration: refused, stalled or accepted, it answers once.
LEMMA ConfigHandled ==
    ASSUME NEW e, NEW w, NEW p, NEW n \in Nat, Taken(e, w, p, n), p.t = "config",
           NEW x \in HandleConfig(e, p.id)
    PROVE  Handled(e, x, w, n)
<1>1. CASE ~e.connected
  BY <1>1, AnswerHandled DEF HandleConfig
<1>2. CASE e.connected /\ ~ControlAccepted(e.u)
  <2>1. x \in Send(e, Reply(p.id, "stall"), "rx")
    BY <1>2 DEF HandleConfig
  <2> QED
    BY <2>1, AnswerHandled
<1>3. CASE e.connected /\ ControlAccepted(e.u)
  <2> DEFINE y == Access(e, SetConfiguration(e.u, 1))
  <2>1. x \in SendBoth(y, Reply(p.id, "ok"), Note("info"), "rx")
    BY <1>3 DEF HandleConfig
  <2>2. PICK z \in Send(y, Reply(p.id, "ok"), "rx") : x \in Send(z, Note("info"), "rx")
    BY <2>1 DEF SendBoth
  <2>3. Plain(e) /\ Level(e) /\ w \in Seq(Pkt)
    BY DEF Taken, Works
  <2>4. Ended(e.u, SetConfiguration(e.u, 1))
    BY <2>3, HostEnds DEF Plain
  <2>5. /\ Plain(y) /\ Apart(e, y, {"u", "ctrl_done", "ctrl_status"})
        /\ y.u.attached = e.u.attached
    BY <2>3, <2>4, AccessEnds
  <2> HIDE DEF y
  <2>6. /\ y.ch = e.ch /\ y.rx = e.rx /\ y.tx = e.tx /\ y.view = e.view
        /\ y.connected = e.connected /\ y.intr_receiving = e.intr_receiving
        /\ y.ctrl_active = e.ctrl_active /\ y.ctrl_id = e.ctrl_id
        /\ y.bulk_in = e.bulk_in /\ y.bulk_out = e.bulk_out
    BY <2>5, ApartFields
  <2>7. Level(y)
    BY <2>3, <2>5, <2>6 DEF Level
  <2>8. Sound(z, w, n) /\ ~z.ch.new_peer /\ Said(y, z, p.id)
    BY <2>2, <2>5, <2>6, <2>7, AnswerSound DEF Status
  <2>9. CASE Up(z)
    <3>1. Works(z, n) /\ Polls(z) /\ Owns(z, w)
      BY <2>8, <2>9, SoundWorks
    <3>2. Sound(x, w, n) /\ ~x.ch.new_peer /\ Said(z, x, 0)
      BY <2>2, <2>3, <3>1, NoteSound
    <3> QED
      BY <2>6, <2>8, <2>9, <3>2, SaidHandled DEF Said
  <2>10. CASE ~Up(z)
    <3>1. x = z
      BY <2>2, <2>10 DEF Send, Up
    <3> QED
      BY <2>6, <2>8, <3>1, SaidHandled
  <2> QED
    BY <2>9, <2>10
<1> QED
  BY <1>1, <1>2, <1>3

\* handle_control: a class request is refused or handed to the controller.
LEMMA ClassHandled ==
    ASSUME NEW e, NEW w, NEW p, NEW n \in Nat, Taken(e, w, p, n), p.t = "class",
           NEW x \in HandleControl(e, p.id)
    PROVE  Handled(e, x, w, n)
<1>1. CASE ~e.connected
  BY <1>1, AnswerHandled DEF HandleControl
<1>2. CASE e.connected /\ ~ControlAccepted(e.u)
  <2>1. x \in Send(e, Reply(p.id, "stall"), "rx")
    BY <1>2 DEF HandleControl
  <2> QED
    BY <2>1, AnswerHandled
<1>3. CASE e.connected /\ ControlAccepted(e.u)
  <2> DEFINE y == Access(e, ClassRequest(e.u))
             z == [y EXCEPT !.ctrl_active = TRUE, !.ctrl_done = FALSE,
                            !.ctrl_id = p.id, !.setup_id = p.id]
             v == Final(e)
             B == Ids(e.bulk_in) \cup Ids(e.bulk_out)
  <2>1. x = z
    BY <1>3 DEF HandleControl
  <2>2. Plain(e) /\ Level(e) /\ Distinct(e) /\ w \in Seq(Pkt) /\ p.id \in Nat
    BY DEF Taken, Works, Pkt
  <2>3. Ended(e.u, ClassRequest(e.u))
    BY <2>2, HostEnds DEF Plain
  <2>4. /\ Plain(y) /\ Apart(e, y, {"u", "ctrl_done", "ctrl_status"})
        /\ y.u.attached = e.u.attached
    BY <2>2, <2>3, AccessEnds
  <2> HIDE DEF y
  <2>5. /\ y.ch = e.ch /\ y.rx = e.rx /\ y.tx = e.tx /\ y.view = e.view
        /\ y.connected = e.connected /\ y.intr_receiving = e.intr_receiving
        /\ y.bulk_in = e.bulk_in /\ y.bulk_out = e.bulk_out
    BY <2>4, ApartFields
  <2>6. Names \subseteq DOMAIN y
    BY <2>4 DEF Plain
  <2>7. /\ Names \subseteq DOMAIN z /\ z.ctrl_active = TRUE /\ z.ctrl_id = p.id
        /\ z.u = y.u /\ z.ch = y.ch /\ z.rx = y.rx /\ z.tx = y.tx /\ z.view = y.view
        /\ z.connected = y.connected /\ z.intr_receiving = y.intr_receiving
        /\ z.ctrl_status = y.ctrl_status
        /\ z.bulk_in = y.bulk_in /\ z.bulk_out = y.bulk_out
    BY <2>6 DEF Names
  <2> HIDE DEF z
  <2>8. Plain(z)
    BY <2>2, <2>4, <2>7 DEF Plain
  <2>9. Level(z)
    BY <1>3, <2>2, <2>4, <2>5, <2>7 DEF Level
  <2>10. Class(z) = {p.id} /\ Kept(z) = B \cup {p.id} /\ Kept(e) = B \cup Class(e)
    BY <2>5, <2>7 DEF Class, Kept
  <2>11. Distinct(z)
    <3>1. p.id \notin B
      BY <2>10 DEF Taken
    <3> QED
      BY <2>2, <2>5, <2>7, <2>10, <3>1 DEF Distinct
  <2>12. Works(z, n) /\ Final(z) = v
    BY <2>5, <2>7, <2>8, <2>9, <2>11, WorksAlike DEF Taken
  <2>13. Fits(Kept(z), Class(z), e.view.owed, v, w)
    <3> DEFINE K == Kept(e) \cup {p.id}
               C == Class(e) \cup {p.id}
               O == e.view.owed
    <3>1. Fits(K, C, O, v, w) /\ Class(e) \cap v.owed = {}
      BY DEF Taken
    <3>2. v \in View
      BY <2>2, FinalTyped
    <3>3. /\ Kept(z) \subseteq K /\ Class(z) \subseteq C /\ Class(z) \subseteq Kept(z)
          /\ K \subseteq Kept(z) \cup Class(e)
      BY <2>10
    <3> HIDE DEF K, C
    <3>4. Kept(z) \cup AskIds(w) \subseteq v.owed \cup v.stale
      BY <3>1, <3>3 DEF Fits
    <3>5. v.owed \subseteq Kept(z) \cup AskIds(w) /\ v.owed \subseteq O
      BY <3>1, <3>3 DEF Fits
    <3> HIDE DEF v, O
    <3>6. Fits(Kept(z), Class(z), O, v, w)
      BY <2>2, <3>1, <3>2, <3>3, <3>4, <3>5, FitsLess
    <3> QED
      BY <3>6 DEF O
  <2>14. Polls(z) /\ Owns(z, w)
    BY <2>5, <2>7, <2>12, <2>13 DEF Polls, Owns, Taken
  <2> QED
    BY <2>1, <2>5, <2>7, <2>12, <2>14, SameHandled
<1> QED
  BY <1>1, <1>2, <1>3

\* handle_bulk: a transfer is queued, or refused when the queue is full.
LEMMA BulkHandled ==
    ASSUME NEW e, NEW w, NEW p, NEW n \in Nat, Taken(e, w, p, n),
           p.t \in {"bulk_in", "bulk_out"}, NEW x \in HandleBulk(e, p)
    PROVE  Handled(e, x, w, n)
<1>1. CASE ~e.connected
  BY <1>1, AnswerHandled DEF HandleBulk
<1>2. CASE e.connected /\ Len(e[p.t]) >= QueueLen
  <2>1. x \in Send(e, Reply(p.id, "ioerror"), "rx")
    BY <1>2 DEF HandleBulk
  <2> QED
    BY <2>1, AnswerHandled
<1>3. CASE e.connected /\ ~(Len(e[p.t]) >= QueueLen)
  <2> DEFINE o == Xfer(p)
             q == Append(e[p.t], o)
             z == [e EXCEPT ![p.t] = q]
  <2>1. x = z
    BY <1>3 DEF HandleBulk
  <2>2. Plain(e) /\ Level(e) /\ Distinct(e) /\ p.id \in Nat /\ Names \subseteq DOMAIN e
    BY DEF Taken, Works, Plain, Pkt
  <2>3. Transfer(o) /\ o.id = p.id
    BY <2>2 DEF Xfer, Transfer
  <2> HIDE DEF o
  <2>4. p.id \notin Ids(e.bulk_in) \cup Ids(e.bulk_out) \cup Class(e)
    BY DEF Taken, Kept
  <2>5. Queue(e[p.t]) /\ NoDup(e[p.t]) /\ p.id \notin Ids(e[p.t])
    BY <2>2, <2>4 DEF Plain, Distinct
  <2>6. Queue(q) /\ NoDup(q) /\ Ids(q) = Ids(e[p.t]) \cup {p.id}
    BY <2>3, <2>5, QueueAppend
  <2> HIDE DEF q
  <2>7. z[p.t] = q /\ Names \subseteq DOMAIN z /\ \A f \in Names \ {p.t} : z[f] = e[f]
    BY <2>2 DEF Names
  <2> HIDE DEF z
  <2>8. /\ z.u = e.u /\ z.ch = e.ch /\ z.rx = e.rx /\ z.tx = e.tx /\ z.view = e.view
        /\ z.connected = e.connected /\ z.intr_receiving = e.intr_receiving
        /\ z.ctrl_active = e.ctrl_active /\ z.ctrl_id = e.ctrl_id
        /\ z.ctrl_status = e.ctrl_status
        /\ p.t = "bulk_in"  => z.bulk_in = q /\ z.bulk_out = e.bulk_out
        /\ p.t = "bulk_out" => z.bulk_out = q /\ z.bulk_in = e.bulk_in
    BY <2>7 DEF Names
  <2>9. Plain(z) /\ Level(z)
    BY <1>3, <2>2, <2>6, <2>7, <2>8 DEF Plain, Level
  <2>10. Class(z) = Class(e) /\ Kept(z) = Kept(e) \cup {p.id}
    BY <2>6, <2>8 DEF Class, Kept
  <2>11. Distinct(z)
    BY <2>2, <2>4, <2>6, <2>8, <2>10 DEF Distinct
  <2>12. Works(z, n) /\ Final(z) = Final(e)
    BY <2>8, <2>9, <2>11, WorksAlike DEF Taken
  <2>13. Polls(z) /\ Owns(z, w)
    BY <2>8, <2>10, <2>12 DEF Polls, Owns, Taken
  <2>14. Ids(e.bulk_in) \subseteq Ids(z.bulk_in) /\ Ids(e.bulk_out) \subseteq Ids(z.bulk_out)
    BY <2>6, <2>8
  <2> QED
    BY <2>1, <2>8, <2>12, <2>13, <2>14, SameHandled
<1> QED
  BY <1>1, <1>2, <1>3

(***************************************************************************)
(* A request that is held and is answered: y is e without it.              *)
(***************************************************************************)
LEMMA ReplyReads ==
    ASSUME NEW v \in View, NEW id \in v.owed \cup v.stale, NEW s \in Status,
           ~v.bad, v.hello, s # "stopped"
    PROVE  LET m == Reply(id, s)
               r == Reads(v, m)
           IN  /\ m \in Msg /\ m.t = "reply" /\ m.id = id /\ m.status = s
               /\ ~r.bad /\ r.hello /\ r.offered = v.offered /\ (v.intr => r.intr)
<1> DEFINE m == Reply(id, s)
           r == Reads(v, m)
<1>1. m \in Msg /\ m.t = "reply" /\ m.id = id /\ m.status = s
  BY DEF Reply, Msg, MsgKind, View
<1> HIDE DEF m
<1>2. /\ r \in View
      /\ r.hello <=> v.hello \/ m.t = "hello"
      /\ r.offered <=> (v.offered \/ m.t = "connect") /\ m.t # "disconnect"
      /\ r.intr <=> (v.intr \/ m.status = "receiving")
                          /\ m.status # "stopped" /\ m.t # "disconnect"
      /\ ~r.bad <=> /\ ~v.bad
                    /\ m.t = "hello" => ~v.hello
                    /\ m.t = "connect" => v.hello /\ ~v.offered
                    /\ m.t = "disconnect" => v.offered
                    /\ m.t = "reply" => v.hello /\ m.id \in v.owed \cup v.stale
                    /\ m.t = "intr" => v.intr
                    /\ m.t = "info" => v.hello
  BY <1>1, ReadsFields
<1> HIDE DEF r
<1>3. ~r.bad /\ r.hello /\ (v.intr => r.intr)
  BY <1>1, <1>2
<1>4. r.offered = v.offered
  BY <1>1, <1>2 DEF View
<1> QED
  BY <1>1, <1>3, <1>4 DEF m, r

\* The answer to a request the device held and now drops.
LEMMA DoneSound ==
    ASSUME NEW e, NEW w \in Seq(Pkt), NEW n \in Nat, Works(e, n), Polls(e), Owns(e, w),
           NEW id \in Kept(e), NEW s \in Status, s # "stopped",
           NEW y, Plain(y), Level(y), Distinct(y), y.ch = e.ch, y.tx = e.tx, y.view = e.view,
           y.connected = e.connected, y.intr_receiving = e.intr_receiving,
           Kept(y) = Kept(e) \ {id}, Class(y) = Class(e) \ {id},
           NEW h, NEW x, x \in Send(y, Reply(id, s), h) \/ Wrote(y, x, Reply(id, s))
    PROVE  Sound(x, w, n) /\ ~x.ch.new_peer /\ Said(y, x, id)
<1> DEFINE m == Reply(id, s)
           v == Final(e)
<1>1. Works(y, n) /\ Final(y) = v
  BY WorksAlike
<1>2. v \in View /\ ~v.bad /\ v.hello /\ v.offered = y.connected /\ (y.intr_receiving => v.intr)
  BY FinalTyped DEF Works, Polls
<1>3. id \in v.owed \cup v.stale /\ id \notin AskIds(w) /\ id \in Nat
  <2>1. v.owed \cup v.stale \subseteq Nat
    BY <1>2 DEF View
  <2>2. id \in v.owed \cup v.stale
    BY DEF Owns, Fits
  <2>3. \A i \in AskAt(w) : id < w[i].id
    BY DEF Owns, Fits
  <2> QED
    BY <2>1, <2>2, <2>3 DEF AskIds
<1> HIDE DEF v
<1>4. /\ m \in Msg /\ m.t = "reply" /\ m.id = id
      /\ LET r == Reads(v, m) IN
         ~r.bad /\ r.hello /\ r.offered = v.offered /\ (v.intr => r.intr)
  BY <1>2, <1>3, ReplyReads
<1>5. x \in Send(y, m, h) \/ Wrote(y, x, m)
  OBVIOUS
<1> HIDE DEF m
<1>6. LET r == Reads(Final(y), m) IN
      ~r.bad /\ r.hello /\ r.offered = y.connected /\ (y.intr_receiving => r.intr)
  BY <1>1, <1>2, <1>4
<1>7. Fits(Kept(e), Class(e), y.view.owed, Final(y), w)
  BY <1>1 DEF Owns, v
<1>8. Sound(x, w, n) /\ ~x.ch.new_peer /\ Said(y, x, m.id)
  BY <1>1, <1>3, <1>4, <1>5, <1>6, <1>7, SendSound
<1> QED
  BY <1>4, <1>8

\* handle_cancel answers what it takes out, and nothing it does not find.
LEMMA CancelHandled ==
    ASSUME NEW e, NEW w \in Seq(Pkt), NEW n \in Nat, Works(e, n), Polls(e), Owns(e, w),
           NEW id, NEW x \in HandleCancel(e, id)
    PROVE  Handled(e, x, w, n)
<1>0. Plain(e) /\ Level(e) /\ Distinct(e) /\ "cancelled" \in Status /\ Names \subseteq DOMAIN e
  BY DEF Works, Status, Plain
<1>1. CASE e.ctrl_active /\ e.ctrl_id = id
  <2> DEFINE y == [e EXCEPT !.ctrl_active = FALSE, !.ctrl_done = FALSE]
  <2>1. x \in Send(y, Reply(id, "cancelled"), "rx")
    BY <1>1 DEF HandleCancel
  <2>2. /\ Names \subseteq DOMAIN y /\ y.ctrl_active = FALSE
        /\ y.u = e.u /\ y.ch = e.ch /\ y.rx = e.rx /\ y.tx = e.tx /\ y.view = e.view
        /\ y.connected = e.connected /\ y.intr_receiving = e.intr_receiving
        /\ y.ctrl_id = e.ctrl_id /\ y.ctrl_status = e.ctrl_status
        /\ y.bulk_in = e.bulk_in /\ y.bulk_out = e.bulk_out
    BY <1>0 DEF Names
  <2> HIDE DEF y
  <2>3. Plain(y) /\ Level(y) /\ Distinct(y)
    BY <1>0, <2>2 DEF Plain, Level, Distinct, Class
  <2>4. Class(e) = {id} /\ Class(y) = {} /\ id \notin Ids(e.bulk_in) \cup Ids(e.bulk_out)
    BY <1>0, <1>1, <2>2 DEF Class, Distinct
  <2>5. id \in Kept(e) /\ Kept(y) = Kept(e) \ {id} /\ Class(y) = Class(e) \ {id}
    BY <2>2, <2>4 DEF Kept
  <2>6. Sound(x, w, n) /\ ~x.ch.new_peer /\ Said(y, x, id)
    BY <1>0, <2>1, <2>2, <2>3, <2>5, DoneSound
  <2> QED
    BY <2>2, <2>6, SaidHandled
<1>2. ASSUME NEW f \in {"bulk_in", "bulk_out"}, id \in Ids(e[f]), id \notin Class(e),
             x \in Send([e EXCEPT ![f] = Without(@, id)], Reply(id, "cancelled"), "rx")
      PROVE  Handled(e, x, w, n)
  <2> DEFINE q == Without(e[f], id)
             y == [e EXCEPT ![f] = q]
  <2>1. Queue(e[f]) /\ NoDup(e[f])
    BY <1>0 DEF Plain, Distinct
  <2>2. Queue(q) /\ NoDup(q) /\ Ids(q) = Ids(e[f]) \ {id}
    BY <1>2, <2>1, QueueWithout
  <2>3. x \in Send(y, Reply(id, "cancelled"), "rx")
    BY <1>2
  <2>4. f = "bulk_in" => id \notin Ids(e.bulk_out)
    BY <1>0, <1>2 DEF Distinct
  <2>5. f = "bulk_out" => id \notin Ids(e.bulk_in)
    BY <1>0, <1>2 DEF Distinct
  <2> HIDE DEF q
  <2>6. y[f] = q /\ Names \subseteq DOMAIN y /\ \A g \in Names \ {f} : y[g] = e[g]
    BY <1>0 DEF Names
  <2> HIDE DEF y
  <2>7. /\ y.u = e.u /\ y.ch = e.ch /\ y.rx = e.rx /\ y.tx = e.tx /\ y.view = e.view
        /\ y.connected = e.connected /\ y.intr_receiving = e.intr_receiving
        /\ y.ctrl_active = e.ctrl_active /\ y.ctrl_id = e.ctrl_id
        /\ y.ctrl_status = e.ctrl_status
        /\ f = "bulk_in"  => y.bulk_in = q /\ y.bulk_out = e.bulk_out
        /\ f = "bulk_out" => y.bulk_out = q /\ y.bulk_in = e.bulk_in
    BY <2>6 DEF Names
  <2>8. Ids(e[f]) # {} => e.connected
    BY <1>0, QueueEmpty DEF Level
  <2>9. Plain(y) /\ Level(y)
    BY <1>0, <1>2, <2>2, <2>6, <2>7, <2>8 DEF Plain, Level
  <2>10. Class(y) = Class(e)
    BY <2>7 DEF Class
  <2>11. Distinct(y)
    BY <1>0, <2>2, <2>7, <2>10 DEF Distinct
  <2>12. id \in Kept(e) /\ Kept(y) = Kept(e) \ {id} /\ Class(y) = Class(e) \ {id}
    BY <1>2, <2>2, <2>4, <2>5, <2>7, <2>10 DEF Kept
  <2>13. Sound(x, w, n) /\ ~x.ch.new_peer /\ Said(y, x, id)
    BY <1>0, <2>3, <2>7, <2>9, <2>11, <2>12, DoneSound
  <2>14. Ids(e.bulk_in) \subseteq Ids(y.bulk_in) \cup {id}
         /\ Ids(e.bulk_out) \subseteq Ids(y.bulk_out) \cup {id}
    BY <2>2, <2>7
  <2> QED
    BY <2>7, <2>13, <2>14, SaidHandled
<1>3. CASE ~(e.ctrl_active /\ e.ctrl_id = id) /\ id \in Ids(e.bulk_in)
  <2>1. id \notin Class(e)
    BY <1>3 DEF Class
  <2>2. x \in Send([e EXCEPT !.bulk_in = Without(@, id)], Reply(id, "cancelled"), "rx")
    BY <1>3 DEF HandleCancel
  <2> QED
    BY <1>2, <1>3, <2>1, <2>2
<1>4. CASE ~(e.ctrl_active /\ e.ctrl_id = id) /\ id \in Ids(e.bulk_out) \ Ids(e.bulk_in)
  <2>1. id \notin Class(e)
    BY <1>4 DEF Class
  <2>2. x \in Send([e EXCEPT !.bulk_out = Without(@, id)], Reply(id, "cancelled"), "rx")
    BY <1>4 DEF HandleCancel
  <2> QED
    BY <1>2, <1>4, <2>1, <2>2
<1>5. CASE /\ ~(e.ctrl_active /\ e.ctrl_id = id)
           /\ id \notin Ids(e.bulk_in) /\ id \notin Ids(e.bulk_out)
  <2>1. x = e
    BY <1>5 DEF HandleCancel
  <2> QED
    BY <2>1, SameHandled
<1> QED
  BY <1>1, <1>3, <1>4, <1>5

\* start and stop of interrupt polling, with their status.
LEMMA PollingHandled ==
    ASSUME NEW e, NEW w, NEW p, NEW n \in Nat, Taken(e, w, p, n),
           NEW b \in BOOLEAN, NEW s \in {"receiving", "inval", "stopped"},
           b => s # "stopped" /\ e.connected /\ (e.intr_receiving \/ s = "receiving"),
           NEW x \in Send([e EXCEPT !.intr_receiving = b], Reply(p.id, s), "rx")
    PROVE  Handled(e, x, w, n)
<1> DEFINE y == [e EXCEPT !.intr_receiving = b]
<1>0. Plain(e) /\ Level(e) /\ s \in Status /\ Names \subseteq DOMAIN e
  BY DEF Taken, Works, Status, Plain
<1>1. /\ Names \subseteq DOMAIN y /\ y.ctrl_active = e.ctrl_active
      /\ y.u = e.u /\ y.ch = e.ch /\ y.rx = e.rx /\ y.tx = e.tx /\ y.view = e.view
      /\ y.connected = e.connected /\ y.intr_receiving = b
      /\ y.ctrl_id = e.ctrl_id /\ y.ctrl_status = e.ctrl_status
      /\ y.bulk_in = e.bulk_in /\ y.bulk_out = e.bulk_out
  BY <1>0 DEF Names
<1>2. x \in Send(y, Reply(p.id, s), "rx")
  OBVIOUS
<1> HIDE DEF y
<1>3. Plain(y) /\ Level(y)
  BY <1>0, <1>1 DEF Plain, Level
<1>4. Sound(x, w, n) /\ ~x.ch.new_peer /\ Said(y, x, p.id)
  BY <1>0, <1>1, <1>2, <1>3, AnswerSound
<1> QED
  BY <1>1, <1>4, SaidHandled

\* BusReset(DropTransfers(e)): also what usbredir_dev_configure does.
LEMMA BusResetPlain ==
    ASSUME NEW e, Plain(e)
    PROVE  LET x == BusReset(e) IN
           /\ Plain(x) /\ Apart(e, x, {"u", "ctrl_done", "ctrl_status"})
           /\ x.u.attached = e.u.attached
<1> DEFINE y == Access(e, HostBusReset(e.u))
           x == BusReset(e)
<1>1. Ended(e.u, HostBusReset(e.u))
  BY HostEnds DEF Plain
<1>2. /\ Plain(y) /\ Apart(e, y, {"u", "ctrl_done", "ctrl_status"})
      /\ y.u.attached = e.u.attached
  BY <1>1, AccessEnds
<1>3. x = Access(y, SetAddress(y.u, 1))
  BY DEF BusReset
<1> HIDE DEF y
<1>4. Ended(y.u, SetAddress(y.u, 1))
  BY <1>2, HostEnds DEF Plain
<1>5. /\ Plain(x) /\ Apart(y, x, {"u", "ctrl_done", "ctrl_status"})
      /\ x.u.attached = y.u.attached
  BY <1>2, <1>3, <1>4, AccessEnds
<1> QED
  BY <1>2, <1>5 DEF Apart

\* handle_reset drops what the peer no longer waits for.
LEMMA ResetHandled ==
    ASSUME NEW e, NEW w, NEW n \in Nat, Works(e, n), Polls(e), Owns(e, w),
           Kept(e) \cap e.view.owed = {}, Fits({}, {}, e.view.owed, Final(e), w)
    PROVE  Handled(e, IF e.connected THEN BusReset(DropTransfers(e)) ELSE e, w, n)
<1>0. Plain(e) /\ Level(e) /\ Names \subseteq DOMAIN e
  BY DEF Works, Plain
<1>1. CASE ~e.connected
  BY <1>1, SameHandled
<1>2. CASE e.connected
  <2> DEFINE y == DropTransfers(e)
             x == BusReset(y)
  <2>1. /\ Names \subseteq DOMAIN y /\ y.ctrl_active = FALSE
        /\ y.u = e.u /\ y.ch = e.ch /\ y.rx = e.rx /\ y.tx = e.tx /\ y.view = e.view
        /\ y.connected = e.connected /\ y.intr_receiving = FALSE
        /\ y.ctrl_id = e.ctrl_id /\ y.ctrl_status = e.ctrl_status
        /\ y.bulk_in = <<>> /\ y.bulk_out = <<>>
    BY <1>0 DEF Names, DropTransfers
  <2> HIDE DEF y
  <2>2. Plain(y)
    BY <1>0, <2>1, QueueEmpty DEF Plain
  <2>3. /\ Plain(x) /\ Apart(y, x, {"u", "ctrl_done", "ctrl_status"})
        /\ x.u.attached = y.u.attached
    BY <2>2, BusResetPlain
  <2> HIDE DEF x
  <2>4. /\ x.ch = e.ch /\ x.rx = e.rx /\ x.tx = e.tx /\ x.view = e.view
        /\ x.connected = e.connected /\ x.intr_receiving = FALSE
        /\ x.ctrl_active = FALSE /\ x.bulk_in = <<>> /\ x.bulk_out = <<>>
    BY <2>1, <2>3, ApartFields
  <2>5. Class(x) = {} /\ Kept(x) = {}
    BY <2>4, QueueEmpty DEF Class, Kept
  <2>6. Level(x) /\ Distinct(x)
    BY <1>0, <2>1, <2>3, <2>4, <2>5, QueueEmpty DEF Level, Distinct
  <2>7. Works(x, n) /\ Final(x) = Final(e)
    BY <2>3, <2>4, <2>6, WorksAlike
  <2>8. Polls(x) /\ Owns(x, w)
    BY <2>4, <2>5, <2>7 DEF Polls, Owns
  <2>9. Sound(x, w, n) /\ ~x.ch.new_peer
    BY <2>7, <2>8, SoundWorks DEF Works
  <2>10. Ids(e.bulk_in) \cap x.view.owed = {} /\ Ids(e.bulk_out) \cap x.view.owed = {}
    BY <2>4 DEF Kept
  <2>11. Handled(e, x, w, n)
    BY <2>4, <2>9, <2>10 DEF Handled, Leaves
  <2> QED
    BY <1>2, <2>11 DEF x, y
<1> QED
  BY <1>1, <1>2

\* A handler's result from the state before the packet was taken off the buffer
LEMMA PacketHandled ==
    ASSUME NEW e0, NEW n \in Nat, Works(e0, n), Polls(e0), Owns(e0, e0.rx), e0.rx # <<>>,
           NEW x \in HandlePacket([e0 EXCEPT !.rx = Tail(@)], Head(e0.rx))
    PROVE  Handled([e0 EXCEPT !.rx = Tail(@)], x, Tail(e0.rx), n)
<1> DEFINE p == Head(e0.rx)
           w == Tail(e0.rx)
           e == [e0 EXCEPT !.rx = w]
           v == Final(e0)
<1>1. /\ Plain(e0) /\ Level(e0) /\ Distinct(e0) /\ Names \subseteq DOMAIN e0
      /\ e0.rx \in Seq(Pkt)
  BY DEF Works, Plain
<1>2. w \in Seq(Pkt) /\ p \in Pkt
  BY <1>1
<1>3. Fits(Kept(e0), Class(e0), e0.view.owed, v, e0.rx) /\ v \in View
  BY <1>1, FinalTyped DEF Owns
<1>4. p.t # "cancel" /\ p.id # 0 =>
        LET C1 == IF p.t = "class" THEN {p.id} ELSE {} IN
        /\ Fits(Kept(e0) \cup {p.id}, Class(e0) \cup C1, e0.view.owed, v, w)
        /\ p.id \notin Kept(e0) \cup AskIds(w) /\ p.id \in v.owed \cup v.stale
        /\ p.t = "class" => Class(e0) \cap v.owed = {}
  <2> DEFINE K == Kept(e0)
             C == Class(e0)
             O == e0.view.owed
             r == e0.rx
  <2>1. Fits(K, C, O, v, r) /\ r \in Seq(Pkt) /\ r # <<>> /\ v \in View
    BY <1>1, <1>3
  <2> HIDE DEF K, C, O, r, v
  <2>2. ASSUME Head(r).t # "cancel", Head(r).id # 0
        PROVE  LET C1 == IF Head(r).t = "class" THEN {Head(r).id} ELSE {} IN
               /\ Fits(K \cup {Head(r).id}, C \cup C1, O, v, Tail(r))
               /\ Head(r).id \notin K \cup AskIds(Tail(r)) /\ Head(r).id \in v.owed \cup v.stale
               /\ Head(r).t = "class" => C \cap v.owed = {}
    BY <2>1, <2>2, FitsTaken, ZenonT(120)
  <2> QED
    BY <2>2 DEF K, C, O, r
<1>5. p.t = "cancel" \/ p.id = 0 =>
        /\ Fits(Kept(e0), Class(e0), e0.view.owed, v, w)
        /\ p.t = "reset" => Kept(e0) \cap e0.view.owed = {} /\ Fits({}, {}, e0.view.owed, v, w)
  BY <1>1, <1>3, FitsPassed
<1>6. x \in HandlePacket(e, p)
  OBVIOUS
<1> HIDE DEF p, w
<1>7. Names \subseteq DOMAIN e /\ e.rx = w /\ \A f \in Names \ {"rx"} : e[f] = e0[f]
  BY <1>1 DEF Names
<1> HIDE DEF e
<1>8. /\ e.u = e0.u /\ e.ch = e0.ch /\ e.tx = e0.tx /\ e.view = e0.view
      /\ e.connected = e0.connected /\ e.intr_receiving = e0.intr_receiving
      /\ e.ctrl_active = e0.ctrl_active /\ e.ctrl_id = e0.ctrl_id
      /\ e.ctrl_status = e0.ctrl_status
      /\ e.bulk_in = e0.bulk_in /\ e.bulk_out = e0.bulk_out
  BY <1>7 DEF Names
<1>9. Kept(e) = Kept(e0) /\ Class(e) = Class(e0)
  BY <1>8 DEF Kept, Class
<1>10. Plain(e) /\ Level(e) /\ Distinct(e)
  BY <1>1, <1>2, <1>7, <1>8, <1>9 DEF Plain, Level, Distinct
<1>11. Works(e, n) /\ Final(e) = v
  BY <1>8, <1>10, WorksAlike
<1>12. Polls(e)
  BY <1>8, <1>11 DEF Polls
<1> HIDE DEF v
<1>13. p.t # "cancel" /\ p.id # 0 => Taken(e, w, p, n)
  BY <1>2, <1>4, <1>8, <1>9, <1>11, <1>12 DEF Taken
<1>14. p.t = "cancel" \/ p.id = 0 =>
        /\ Owns(e, w)
        /\ p.t = "reset" => Kept(e) \cap e.view.owed = {} /\ Fits({}, {}, e.view.owed, Final(e), w)
  BY <1>5, <1>8, <1>9, <1>11 DEF Owns
<1>15. p.id = 0 <=> p.t \in {"hello", "reset", "oversized"}
  BY <1>2 DEF Pkt
<1>16. Handled(e, x, w, n)
  <2>1. CASE p.t = "hello"
    <3> DEFINE y == [e EXCEPT !.hello = TRUE]
    <3>1. x = y
      BY <1>6, <2>1 DEF HandlePacket
    <3>2. Names \subseteq DOMAIN y /\ \A f \in Names \ {"hello"} : y[f] = e[f]
      BY <1>7 DEF Names
    <3> HIDE DEF y
    <3>3. /\ y.u = e.u /\ y.ch = e.ch /\ y.tx = e.tx /\ y.view = e.view /\ y.rx = e.rx
          /\ y.connected = e.connected /\ y.intr_receiving = e.intr_receiving
          /\ y.ctrl_active = e.ctrl_active /\ y.ctrl_id = e.ctrl_id
          /\ y.ctrl_status = e.ctrl_status
          /\ y.bulk_in = e.bulk_in /\ y.bulk_out = e.bulk_out
      BY <3>2 DEF Names
    <3>4. Kept(y) = Kept(e) /\ Class(y) = Class(e)
      BY <3>3 DEF Kept, Class
    <3>5. Plain(y) /\ Level(y) /\ Distinct(y)
      BY <1>10, <3>2, <3>3, <3>4 DEF Plain, Level, Distinct
    <3>6. Works(y, n) /\ Final(y) = Final(e)
      BY <1>11, <3>3, <3>5, WorksAlike
    <3>7. Polls(y) /\ Owns(y, w)
      BY <1>12, <1>14, <1>15, <2>1, <3>3, <3>4, <3>6 DEF Polls, Owns
    <3> QED
      BY <3>1, <3>3, <3>6, <3>7, SameHandled
  <2>2. CASE p.t = "reset"
    <3>1. x = IF e.connected THEN BusReset(DropTransfers(e)) ELSE e
      BY <1>6, <2>2 DEF HandlePacket
    <3> QED
      BY <1>11, <1>12, <1>14, <1>15, <2>2, <3>1, ResetHandled
  <2>3. CASE p.t = "config"
    <3>1. x \in HandleConfig(e, p.id)
      BY <1>6, <2>3 DEF HandlePacket
    <3> QED
      BY <1>13, <1>15, <2>3, <3>1, ConfigHandled
  <2>4. CASE p.t = "query"
    <3>1. x \in Send(e, Reply(p.id, "ok"), "rx")
      BY <1>6, <2>4 DEF HandlePacket
    <3> QED
      BY <1>13, <1>15, <2>4, <3>1, AnswerHandled
  <2>5. CASE p.t = "class"
    <3>1. x \in HandleControl(e, p.id)
      BY <1>6, <2>5 DEF HandlePacket
    <3> QED
      BY <1>13, <1>15, <2>5, <3>1, ClassHandled
  <2>6. CASE p.t \in {"bulk_out", "bulk_in"}
    <3>1. x \in HandleBulk(e, p)
      BY <1>6, <2>6 DEF HandlePacket
    <3> QED
      BY <1>13, <1>15, <2>6, <3>1, BulkHandled
  <2>7. CASE p.t = "cancel"
    <3>1. x \in HandleCancel(e, p.id)
      BY <1>6, <2>7 DEF HandlePacket
    <3> QED
      BY <1>2, <1>11, <1>12, <1>14, <2>7, <3>1, CancelHandled
  <2>8. CASE p.t = "start_intr"
    <3> DEFINE b == e.intr_receiving \/ e.connected
               s == IF e.connected THEN "receiving" ELSE "inval"
    <3>1. x \in Send([e EXCEPT !.intr_receiving = b], Reply(p.id, s), "rx")
      BY <1>6, <2>8 DEF HandlePacket
    <3>2. b \in BOOLEAN /\ s \in {"receiving", "inval", "stopped"}
          /\ (b => s # "stopped" /\ e.connected /\ (e.intr_receiving \/ s = "receiving"))
      BY <1>10 DEF Plain, Level
    <3> HIDE DEF b, s
    <3> QED
      BY <1>13, <1>15, <2>8, <3>1, <3>2, PollingHandled
  <2>9. CASE p.t = "stop_intr"
    <3> DEFINE b == FALSE
               s == "stopped"
    <3>1. x \in Send([e EXCEPT !.intr_receiving = b], Reply(p.id, s), "rx")
      BY <1>6, <2>9 DEF HandlePacket
    <3>2. b \in BOOLEAN /\ s \in {"receiving", "inval", "stopped"} /\ ~b
      OBVIOUS
    <3> HIDE DEF b, s
    <3> QED
      BY <1>13, <1>15, <2>9, <3>1, <3>2, PollingHandled
  <2>10. CASE p.t = "oversized"
    <3>1. x = PeerLost(e)
      BY <1>6, <2>10 DEF HandlePacket
    <3>2. Left(e, x) /\ ~e.view.bad
      BY <1>10, <1>11, <3>1, LostLeft, FinalTyped DEF Works, After
    <3>3. Sound(x, w, n) /\ ~Up(x) /\ ~x.connected /\ ~x.ch.new_peer
      BY <1>10, <3>2, LeftSound
    <3> QED
      BY <3>3 DEF Handled, Leaves
  <2>11. p.t \in AllReqs \cup {"hello"}
    BY <1>2 DEF Pkt
  <2> QED
    BY <2>1, <2>2, <2>3, <2>4, <2>5, <2>6, <2>7, <2>8, <2>9, <2>10, <2>11 DEF AllReqs
<1> QED
  BY <1>16 DEF e, p, w

--------------------------------------------------------------------------------
(* The other handlers of the tick.                                         *)

\* A handler that does nothing.
LEMMA StillHandled ==
    ASSUME NEW e, NEW w, NEW n, Sound(e, w, n), ~e.ch.new_peer
    PROVE  Handled(e, e, w, n)
BY DEF Handled, Leaves

\* What the peer makes of an offer and of a withdrawal
LEMMA OfferReads ==
    ASSUME NEW v \in View, ~v.bad, v.hello, 0 \notin v.owed \cup v.stale
    PROVE  /\ Note("info") \in Msg /\ Note("info").id = 0
           /\ Note("connect") \in Msg /\ Note("connect").id = 0
           /\ ~v.offered =>
                LET r == Reads(Reads(v, Note("info")), Note("connect")) IN
                /\ r \in View /\ ~r.bad /\ r.hello /\ r.offered
                /\ r.owed = v.owed /\ r.stale = v.stale /\ r.ctl = v.ctl
<1> DEFINE m1 == Note("info")
           m2 == Note("connect")
           q == Reads(v, m1)
           r == Reads(q, m2)
<1>1. /\ m1 \in Msg /\ m1.id = 0 /\ m1.t = "info" /\ m1.status = "ok"
      /\ m2 \in Msg /\ m2.id = 0 /\ m2.t = "connect" /\ m2.status = "ok"
  BY DEF Note, Msg, MsgKind, Status
<1> HIDE DEF m1, m2
<1>2. SUFFICES ASSUME ~v.offered
               PROVE  /\ r \in View /\ ~r.bad /\ r.hello /\ r.offered
                      /\ r.owed = v.owed /\ r.stale = v.stale /\ r.ctl = v.ctl
  BY <1>1 DEF m1, m2
<1>3. /\ q \in View /\ ~q.bad /\ q.hello /\ ~q.offered
      /\ q.owed = v.owed /\ q.stale = v.stale /\ q.ctl = v.ctl
  <2>1. /\ q \in View
        /\ q.hello <=> v.hello \/ m1.t = "hello"
        /\ q.offered <=> (v.offered \/ m1.t = "connect") /\ m1.t # "disconnect"
        /\ m1.t # "disconnect" => q.owed = v.owed \ {m1.id} /\ q.stale = v.stale \ {m1.id}
        /\ q.ctl = IF m1.t = "disconnect" \/ m1.id = v.ctl THEN 0 ELSE v.ctl
        /\ ~q.bad <=> /\ ~v.bad
                      /\ m1.t = "hello" => ~v.hello
                      /\ m1.t = "connect" => v.hello /\ ~v.offered
                      /\ m1.t = "disconnect" => v.offered
                      /\ m1.t = "reply" => v.hello /\ m1.id \in v.owed \cup v.stale
                      /\ m1.t = "intr" => v.intr
                      /\ m1.t = "info" => v.hello
    BY <1>1, ReadsFields
  <2> HIDE DEF q
  <2>2. q \in View /\ ~q.bad /\ q.hello /\ ~q.offered
    BY <1>1, <1>2, <2>1
  <2>3. q.owed = v.owed /\ q.stale = v.stale /\ q.ctl = v.ctl
    BY <1>1, <2>1
  <2> QED
    BY <2>2, <2>3
<1> HIDE DEF q
<1>4. /\ r \in View
      /\ r.hello <=> q.hello \/ m2.t = "hello"
      /\ r.offered <=> (q.offered \/ m2.t = "connect") /\ m2.t # "disconnect"
      /\ m2.t # "disconnect" => r.owed = q.owed \ {m2.id} /\ r.stale = q.stale \ {m2.id}
      /\ r.ctl = IF m2.t = "disconnect" \/ m2.id = q.ctl THEN 0 ELSE q.ctl
      /\ ~r.bad <=> /\ ~q.bad
                    /\ m2.t = "hello" => ~q.hello
                    /\ m2.t = "connect" => q.hello /\ ~q.offered
                    /\ m2.t = "disconnect" => q.offered
                    /\ m2.t = "reply" => q.hello /\ m2.id \in q.owed \cup q.stale
                    /\ m2.t = "intr" => q.intr
                    /\ m2.t = "info" => q.hello
  BY <1>1, <1>3, ReadsFields, SMTT(60)
<1> HIDE DEF r
<1>5. r \in View /\ ~r.bad /\ r.hello /\ r.offered
  BY <1>1, <1>3, <1>4
<1>6. r.owed = v.owed /\ r.stale = v.stale /\ r.ctl = v.ctl
  BY <1>1, <1>3, <1>4
<1> QED
  BY <1>5, <1>6

(***************************************************************************)
(* The offer: interface_info, then device_connect.  A write that fails     *)
(* between them is finding 1.                                              *)
(***************************************************************************)
LEMMA OfferHandled ==
    ASSUME NEW e, NEW w \in Seq(Pkt), NEW n \in Nat, Works(e, n), Owns(e, w),
           ~e.connected, "update" \notin sc.fails,
           NEW z \in SendBoth(BusReset(Access(e, HostAttach(e.u, TRUE))),
                              Note("info"), Note("connect"), "update")
    PROVE  Handled(e, [z EXCEPT !.connected = TRUE], w, n)
<1> DEFINE a == Access(e, HostAttach(e.u, TRUE))
           y == BusReset(a)
           x == [z EXCEPT !.connected = TRUE]
           v == Final(e)
           r == Reads(Reads(v, Note("info")), Note("connect"))
<1>1. PICK s \in Send(y, Note("info"), "update") : z \in Send(s, Note("connect"), "update")
  BY DEF SendBoth
<1>2. /\ Plain(e) /\ Level(e) /\ Up(e) /\ ~e.ch.new_peer
      /\ e.bulk_in = <<>> /\ e.bulk_out = <<>> /\ ~e.ctrl_active /\ ~e.intr_receiving
  BY DEF Works, Level
<1>3. v \in View /\ ~v.bad /\ v.hello /\ ~v.offered /\ 0 \notin v.owed \cup v.stale
  BY <1>2, FinalTyped, KeptNonzero DEF Works
<1>4. /\ Plain(y) /\ Apart(e, y, {"u", "ctrl_done", "ctrl_status"}) /\ y.u.attached = TRUE
  <2>1. /\ UShape(HostAttach(e.u, TRUE)) /\ HostAttach(e.u, TRUE).attached = TRUE
        /\ HostAttach(e.u, TRUE).done \in Outcomes
    BY <1>2, HostEnds DEF Plain
  <2>2. /\ Plain(a) /\ Apart(e, a, {"u", "ctrl_done", "ctrl_status"}) /\ a.u.attached = TRUE
    BY <1>2, <2>1, AccessPlain
  <2> HIDE DEF a
  <2>3. /\ Plain(y) /\ Apart(a, y, {"u", "ctrl_done", "ctrl_status"})
        /\ y.u.attached = a.u.attached
    BY <2>2, BusResetPlain
  <2> QED
    BY <2>2, <2>3 DEF Apart
<1> HIDE DEF y
<1>5. /\ y.ch = e.ch /\ y.rx = e.rx /\ y.tx = e.tx /\ y.view = e.view
      /\ y.connected = e.connected /\ y.intr_receiving = e.intr_receiving
      /\ y.ctrl_active = e.ctrl_active
      /\ y.bulk_in = e.bulk_in /\ y.bulk_out = e.bulk_out
  BY <1>4, ApartFields
<1>6. Up(y) /\ Final(y) = v
  BY <1>2, <1>5 DEF Up, Final
<1> HIDE DEF v
<1>7. /\ Note("info") \in Msg /\ Note("info").id = 0
      /\ Note("connect") \in Msg /\ Note("connect").id = 0
      /\ r \in View /\ ~r.bad /\ r.hello /\ r.offered
      /\ r.owed = v.owed /\ r.stale = v.stale /\ r.ctl = v.ctl
  BY <1>3, OfferReads
<1>8. Written(y, s, Reads(v, Note("info")))
  BY <1>1, <1>4, <1>6, <1>7, SendOutcome
<1>9. /\ s.ch = y.ch /\ s.rx = y.rx /\ s.u = y.u
      /\ s.intr_receiving = y.intr_receiving /\ s.ctrl_active = y.ctrl_active
      /\ s.bulk_in = y.bulk_in /\ s.bulk_out = y.bulk_out /\ Plain(s) /\ Up(s)
  BY <1>4, <1>6, <1>8, WrittenFields
<1>10. Final(s) = Reads(v, Note("info"))
  BY <1>8 DEF Written
<1>11. Written(s, z, r)
  BY <1>1, <1>7, <1>9, <1>10, SendOutcome
<1> HIDE DEF r
<1>12. /\ z.ch = s.ch /\ z.rx = s.rx /\ z.u = s.u
       /\ z.intr_receiving = s.intr_receiving /\ z.ctrl_active = s.ctrl_active
       /\ z.bulk_in = s.bulk_in /\ z.bulk_out = s.bulk_out /\ Plain(z)
  BY <1>9, <1>11, WrittenFields
<1>13. /\ Final(z) = r /\ z.view.owed \subseteq e.view.owed
       /\ z.view.owed \cup z.view.stale \subseteq e.view.owed \cup e.view.stale
  BY <1>5, <1>8, <1>11 DEF Written
<1>14. Names \subseteq DOMAIN x /\ x.connected = TRUE /\ \A f \in Names \ {"connected"} : x[f] = z[f]
  BY <1>12 DEF Names, Plain
<1> HIDE DEF x
<1>15. /\ x.ch = z.ch /\ x.rx = z.rx /\ x.u = z.u /\ x.tx = z.tx /\ x.view = z.view
       /\ x.intr_receiving = z.intr_receiving /\ x.ctrl_active = z.ctrl_active
       /\ x.ctrl_id = z.ctrl_id /\ x.ctrl_status = z.ctrl_status
       /\ x.bulk_in = z.bulk_in /\ x.bulk_out = z.bulk_out
  BY <1>14 DEF Names
<1>16. Plain(x)
  BY <1>12, <1>14, <1>15 DEF Plain
<1>17. Kept(x) = {} /\ Class(x) = {} /\ Kept(e) = {} /\ Class(e) = {}
  BY <1>2, <1>5, <1>9, <1>12, <1>15, QueueEmpty DEF Kept, Class
<1>18. Level(x) /\ Distinct(x)
  BY <1>2, <1>4, <1>5, <1>9, <1>12, <1>14, <1>15, <1>17, QueueEmpty, ZenonT(120) DEF Level, Distinct
<1>19. Final(x) = r
  BY <1>13, <1>15 DEF Final
<1>20. Works(x, n)
  <2>1. Up(x) /\ ~x.ch.new_peer
    BY <1>2, <1>5, <1>9, <1>12, <1>15 DEF Up
  <2>2. r.offered = x.connected
    BY <1>7, <1>14
  <2>3. x.view.owed \cup x.view.stale \subseteq 1..n
    BY <1>13, <1>15 DEF Works
  <2> QED
    BY <1>7, <1>16, <1>18, <1>19, <2>1, <2>2, <2>3 DEF Works
<1>21. Owns(x, w)
  <2> DEFINE K == Kept(e)
             C == Class(e)
             O == e.view.owed
             O1 == x.view.owed
  <2>1. Fits(K, C, O, v, w) /\ K = {} /\ C = {}
    BY <1>17 DEF Owns, v
  <2>2. O1 \subseteq O /\ r.owed \subseteq O1
    BY <1>13, <1>15, <1>16, <1>19, FinalTyped DEF After
  <2> HIDE DEF K, C, O, O1
  <2>3. K \cup AskIds(w) \subseteq r.owed \cup r.stale /\ r.owed \subseteq K \cup AskIds(w)
    BY <1>7, <2>1 DEF Fits
  <2>4. Fits(K, C, O1, r, w)
    BY <1>3, <1>7, <2>1, <2>2, <2>3, FitsLess
  <2> QED
    BY <1>17, <1>19, <2>4 DEF Owns, K, C, O1
<1>22. Polls(x)
  BY <1>2, <1>5, <1>9, <1>12, <1>15 DEF Polls
<1>23. x.rx = e.rx /\ x.bulk_in = e.bulk_in /\ x.bulk_out = e.bulk_out
  BY <1>5, <1>9, <1>12, <1>15
<1> QED
  BY <1>20, <1>21, <1>22, <1>23, SameHandled DEF x

(***************************************************************************)
(* The withdrawal: all transfers are dropped, and the peer is told.        *)
(***************************************************************************)
LEMMA DisconnectOutcome ==
    ASSUME NEW e, NEW w \in Seq(Pkt), NEW n \in Nat, Works(e, n), Owns(e, w), e.connected,
           NEW h, NEW x \in Disconnect(e, TRUE, h)
    PROVE  \/ Handled(e, x, w, n) /\ ~x.connected
           \/ h \in sc.fails /\ Plain(x) /\ Gone(x) /\ ~x.view.bad
<1> DEFINE y == DropTransfers([e EXCEPT !.connected = FALSE])
           m == Note("disconnect")
           v == Final(e)
           r == Reads(v, m)
<1>1. PICK z \in Send(y, m, h) : x = Access(z, HostAttach(z.u, FALSE))
  BY DEF Disconnect
<1>2. Plain(e) /\ Level(e) /\ Up(e) /\ ~e.ch.new_peer /\ Names \subseteq DOMAIN e
  BY DEF Works, Plain
<1>3. /\ Names \subseteq DOMAIN y /\ y.ctrl_active = FALSE
      /\ y.u = e.u /\ y.ch = e.ch /\ y.rx = e.rx /\ y.tx = e.tx /\ y.view = e.view
      /\ y.connected = FALSE /\ y.intr_receiving = FALSE
      /\ y.ctrl_id = e.ctrl_id /\ y.ctrl_status = e.ctrl_status
      /\ y.bulk_in = <<>> /\ y.bulk_out = <<>>
  BY <1>2 DEF Names, DropTransfers
<1> HIDE DEF y
<1>4. Plain(y) /\ Up(y) /\ Final(y) = v
  BY <1>2, <1>3, QueueEmpty DEF Plain, Up, Final
<1>5. v \in View /\ ~v.bad /\ v.hello /\ v.offered /\ ~e.view.bad
  BY <1>2, FinalTyped DEF Works, After
<1>6. m \in Msg /\ m.id = 0 /\ m.t = "disconnect" /\ m.status = "ok"
  BY DEF Note, Msg, MsgKind, Status
<1>7. Fits({}, {}, e.view.owed, r, w)
  BY <1>5, FitsDisconnect DEF Owns
<1>8. r \in View /\ ~r.bad /\ r.hello /\ ~r.offered /\ r.owed = {}
  <2> HIDE DEF v, m
  <2>1. /\ r \in View
        /\ r.hello <=> v.hello \/ m.t = "hello"
        /\ r.offered <=> (v.offered \/ m.t = "connect") /\ m.t # "disconnect"
        /\ m.t = "disconnect" => r.owed = {} /\ r.stale = (v.stale \cup v.owed) \ {m.id}
        /\ ~r.bad <=> /\ ~v.bad
                      /\ m.t = "hello" => ~v.hello
                      /\ m.t = "connect" => v.hello /\ ~v.offered
                      /\ m.t = "disconnect" => v.offered
                      /\ m.t = "reply" => v.hello /\ m.id \in v.owed \cup v.stale
                      /\ m.t = "intr" => v.intr
                      /\ m.t = "info" => v.hello
    BY <1>5, <1>6, ReadsFields
  <2> HIDE DEF r
  <2> QED
    BY <1>5, <1>6, <2>1
<1>9. z \in Send(y, m, h) /\ (m.t # "reply" => m.id = 0)
  BY <1>6
<1> HIDE DEF m
<1>10. \/ Written(y, z, r)
       \/ h \in sc.fails /\ Left(y, z)
  BY <1>4, <1>6, <1>9, SendOutcome
<1> HIDE DEF v, r
<1>11. ASSUME Plain(z) PROVE /\ Plain(x) /\ Apart(z, x, {"u", "ctrl_done", "ctrl_status"})
                             /\ x.u.attached = FALSE
  <2>1. /\ UShape(HostAttach(z.u, FALSE)) /\ HostAttach(z.u, FALSE).attached = FALSE
        /\ HostAttach(z.u, FALSE).done \in Outcomes
    BY <1>11, HostEnds DEF Plain
  <2> QED
    BY <1>1, <1>11, <2>1, AccessPlain
<1>12. CASE Written(y, z, r)
  <2>1. /\ z.ch = y.ch /\ z.rx = y.rx /\ z.connected = y.connected
        /\ z.intr_receiving = y.intr_receiving /\ z.ctrl_active = y.ctrl_active
        /\ z.bulk_in = y.bulk_in /\ z.bulk_out = y.bulk_out /\ Plain(z)
    BY <1>4, <1>12, WrittenFields
  <2>2. /\ Plain(x) /\ Apart(z, x, {"u", "ctrl_done", "ctrl_status"}) /\ x.u.attached = FALSE
    BY <1>11, <2>1
  <2>3. /\ x.ch = z.ch /\ x.rx = z.rx /\ x.tx = z.tx /\ x.view = z.view
        /\ x.connected = z.connected /\ x.intr_receiving = z.intr_receiving
        /\ x.ctrl_active = z.ctrl_active
        /\ x.bulk_in = z.bulk_in /\ x.bulk_out = z.bulk_out
    BY <2>2, ApartFields
  <2>4. Kept(x) = {} /\ Class(x) = {}
    BY <1>3, <2>1, <2>3, QueueEmpty DEF Kept, Class
  <2>5. Level(x) /\ Distinct(x)
    BY <1>3, <2>1, <2>2, <2>3, <2>4, QueueEmpty DEF Level, Distinct
  <2>6. /\ Final(x) = r /\ x.view.owed \subseteq e.view.owed
        /\ x.view.owed \cup x.view.stale \subseteq e.view.owed \cup e.view.stale
    BY <1>3, <1>12, <2>3 DEF Written, Final
  <2>7. Works(x, n)
    <3>1. Up(x) /\ ~x.ch.new_peer
      BY <1>2, <1>3, <2>1, <2>3 DEF Up
    <3>2. r.offered = x.connected
      BY <1>3, <1>8, <2>1, <2>3 DEF View
    <3>3. x.view.owed \cup x.view.stale \subseteq 1..n
      BY <2>6 DEF Works
    <3> QED
      BY <1>8, <2>2, <2>5, <2>6, <3>1, <3>2, <3>3 DEF Works
  <2>8. Owns(x, w)
    <3> DEFINE N == {}
               O == e.view.owed
               O1 == x.view.owed
    <3>1. Fits(N, N, O, r, w) /\ O1 \subseteq O /\ r.owed = {}
      BY <1>7, <1>8, <2>6
    <3>2. N \cup AskIds(w) \subseteq r.owed \cup r.stale /\ r.owed \subseteq N \cup AskIds(w)
      BY <3>1 DEF Fits
    <3> HIDE DEF N, O, O1
    <3>3. Fits(N, N, O1, r, w)
      BY <1>8, <3>1, <3>2, FitsLess
    <3> QED
      BY <2>4, <2>6, <3>3 DEF Owns, N, O1
  <2>9. Polls(x) /\ ~x.connected /\ x.rx = e.rx
    BY <1>3, <2>1, <2>3 DEF Polls
  <2> QED
    BY <2>7, <2>8, <2>9, SameHandled
<1>13. CASE h \in sc.fails /\ Left(y, z)
  <2>1. Plain(z) /\ Gone(z) /\ z.view = y.view
    BY <1>13 DEF Left
  <2>2. Plain(x) /\ Apart(z, x, {"u", "ctrl_done", "ctrl_status"})
    BY <1>11, <2>1
  <2>3. /\ x.ch = z.ch /\ x.rx = z.rx /\ x.tx = z.tx /\ x.view = z.view
        /\ x.connected = z.connected
    BY <2>2, ApartFields
  <2>4. Gone(x)
    BY <2>1, <2>3 DEF Gone, Up
  <2> QED
    BY <1>3, <1>5, <1>13, <2>1, <2>2, <2>3, <2>4
<1> QED
  BY <1>10, <1>12, <1>13

\* update_connection offers the device, withdraws it or leaves it.
LEMMA UpdateHandled ==
    ASSUME NEW e, NEW w \in Seq(Pkt), NEW n \in Nat, Sound(e, w, n), ~e.ch.new_peer,
           "update" \notin sc.fails, NEW x \in UpdateConnection(e)
    PROVE  Handled(e, x, w, n)
<1>1. Up(e) => Works(e, n) /\ Polls(e) /\ Owns(e, w)
  BY SoundWorks
<1>2. CASE Want(e) /\ ~e.connected
  <2>1. Up(e)
    BY <1>2 DEF Want, Up
  <2>2. PICK z \in SendBoth(BusReset(Access(e, HostAttach(e.u, TRUE))),
                            Note("info"), Note("connect"), "update") :
               x = [z EXCEPT !.connected = TRUE]
    BY <1>2 DEF UpdateConnection
  <2> QED
    BY <1>1, <1>2, <2>1, <2>2, OfferHandled
<1>3. CASE ~Want(e) /\ e.connected
  <2>1. Up(e)
    BY <1>3 DEF Sound, Gone
  <2>2. x \in Disconnect(e, TRUE, "update")
    <3>1. x \in Disconnect(e, IsReady(e.ch), "update")
      BY <1>3 DEF UpdateConnection
    <3>2. IsReady(e.ch) = TRUE
      BY <2>1 DEF Up, IsReady
    <3> QED
      BY <3>1, <3>2
  <2> QED
    BY <1>1, <1>3, <2>1, <2>2, DisconnectOutcome
<1>4. CASE ~(Want(e) /\ ~e.connected) /\ ~(~Want(e) /\ e.connected)
  <2>1. x = e
    BY <1>4 DEF UpdateConnection
  <2> QED
    BY <2>1, StillHandled
<1> QED
  BY <1>2, <1>3, <1>4

\* send_ctrl_reply answers a finished request once.
LEMMA CtrlHandled ==
    ASSUME NEW e, NEW w \in Seq(Pkt), NEW n \in Nat, Sound(e, w, n), ~e.ch.new_peer,
           NEW x \in SendCtrlReply(e)
    PROVE  Handled(e, x, w, n)
<1>1. CASE ~(e.ctrl_active /\ e.ctrl_done)
  <2>1. x = e
    BY <1>1 DEF SendCtrlReply
  <2> QED
    BY <2>1, StillHandled
<1>2. CASE e.ctrl_active /\ e.ctrl_done
  <2> DEFINE y == [e EXCEPT !.ctrl_active = FALSE, !.ctrl_done = FALSE]
             id == e.ctrl_id
             s == e.ctrl_status
  <2>1. x \in Send(y, Reply(id, s), "ctrl")
    BY <1>2 DEF SendCtrlReply
  <2>2. Plain(e) /\ Level(e) /\ Distinct(e) /\ Names \subseteq DOMAIN e
    BY DEF Sound, Plain
  <2>3. Up(e)
    BY <1>2, <2>2 DEF Sound, Gone, Level
  <2>4. Works(e, n) /\ Polls(e) /\ Owns(e, w)
    BY <2>3, SoundWorks
  <2>5. /\ Names \subseteq DOMAIN y /\ y.ctrl_active = FALSE
        /\ y.u = e.u /\ y.ch = e.ch /\ y.rx = e.rx /\ y.tx = e.tx /\ y.view = e.view
        /\ y.connected = e.connected /\ y.intr_receiving = e.intr_receiving
        /\ y.ctrl_id = e.ctrl_id /\ y.ctrl_status = e.ctrl_status
        /\ y.bulk_in = e.bulk_in /\ y.bulk_out = e.bulk_out
    BY <2>2 DEF Names
  <2>6. s \in Status /\ s # "stopped"
    BY <2>2 DEF Plain, Status
  <2> HIDE DEF y, s
  <2>7. Plain(y) /\ Level(y) /\ Distinct(y)
    BY <2>2, <2>5 DEF Plain, Level, Distinct, Class
  <2>8. Class(e) = {id} /\ Class(y) = {} /\ id \notin Ids(e.bulk_in) \cup Ids(e.bulk_out)
    BY <1>2, <2>2, <2>5 DEF Class, Distinct
  <2>9. id \in Kept(e) /\ Kept(y) = Kept(e) \ {id} /\ Class(y) = Class(e) \ {id}
    BY <2>5, <2>8 DEF Kept
  <2> HIDE DEF id
  <2>10. Sound(x, w, n) /\ ~x.ch.new_peer /\ Said(y, x, id)
    BY <2>1, <2>4, <2>5, <2>6, <2>7, <2>9, DoneSound
  <2> QED
    BY <2>5, <2>10, SaidHandled
<1> QED
  BY <1>1, <1>2

(***************************************************************************)
(* queue_pop after its answer.  A failing write, which empties the queue   *)
(* before it is popped, is finding 2.                                      *)
(***************************************************************************)
LEMMA PopHandled ==
    ASSUME NEW e, NEW w \in Seq(Pkt), NEW n \in Nat, Works(e, n), Polls(e), Owns(e, w),
           NEW q \in {"bulk_in", "bulk_out"}, e[q] # <<>>, NEW s \in {"ok", "babble"},
           NEW h, h \notin sc.fails, NEW x \in ReplyAndPop(e, q, s, h)
    PROVE  Handled(e, x, w, n)
<1> DEFINE id == Head(e[q]).id
           m == Reply(id, s)
           t == Tail(e[q])
           y == [e EXCEPT ![q] = t]
<1>1. PICK z \in Send(e, m, h) : x = QueuePop(z, q)
  BY DEF ReplyAndPop
<1>2. Plain(e) /\ Level(e) /\ Distinct(e) /\ Up(e) /\ Names \subseteq DOMAIN e
  BY DEF Works, Plain
<1>3. Queue(e[q]) /\ NoDup(e[q])
  BY <1>2 DEF Plain, Distinct
<1>4. /\ Queue(t) /\ NoDup(t) /\ Ids(t) = Ids(e[q]) \ {id} /\ id \in Ids(e[q]) /\ id \in Nat
  BY <1>3, QueueTail DEF Transfer
<1>5. e.connected
  BY <1>2 DEF Level
<1> HIDE DEF t
<1>6. Names \subseteq DOMAIN y /\ y[q] = t /\ \A f \in Names \ {q} : y[f] = e[f]
  BY <1>2 DEF Names
<1> HIDE DEF y, id
<1>7. /\ y.u = e.u /\ y.ch = e.ch /\ y.rx = e.rx /\ y.tx = e.tx /\ y.view = e.view
      /\ y.connected = e.connected /\ y.intr_receiving = e.intr_receiving
      /\ y.ctrl_active = e.ctrl_active /\ y.ctrl_id = e.ctrl_id
      /\ y.ctrl_status = e.ctrl_status
      /\ q = "bulk_in"  => y.bulk_in = t /\ y.bulk_out = e.bulk_out
      /\ q = "bulk_out" => y.bulk_out = t /\ y.bulk_in = e.bulk_in
  BY <1>6 DEF Names
<1>8. Plain(y) /\ Level(y)
  BY <1>2, <1>4, <1>5, <1>6, <1>7 DEF Plain, Level
<1>9. Class(y) = Class(e)
  BY <1>7 DEF Class
<1>10. Distinct(y)
  BY <1>2, <1>4, <1>7, <1>9 DEF Distinct
<1>11. id \in Kept(e) /\ Kept(y) = Kept(e) \ {id} /\ Class(y) = Class(e) \ {id}
  BY <1>2, <1>4, <1>7, <1>9 DEF Kept, Distinct
<1>12. m \in Msg /\ m.t = "reply" /\ m.id = id
  BY <1>4 DEF Reply, Msg, MsgKind, Status
<1>13. Wrote(y, x, m)
  <2> HIDE DEF m
  <2>1. Written(e, z, Reads(Final(e), m)) /\ (m.id \in TxIds(z.tx) \/ m.id \notin z.view.owed)
    BY <1>1, <1>2, <1>12, SendOutcome
  <2>2. z[q] = e[q] /\ Names \subseteq DOMAIN z /\ \A f \in Names \ {"tx", "view"} : z[f] = e[f]
    BY <2>1 DEF Written, Apart, Names
  <2>3. x = [z EXCEPT ![q] = t]
    BY <1>1, <2>2 DEF QueuePop, t
  <2>4. x[q] = t /\ Names \subseteq DOMAIN x /\ \A f \in Names \ {q} : x[f] = z[f]
    BY <2>2, <2>3 DEF Names
  <2>5. x.tx = z.tx /\ x.view = z.view
    BY <2>4 DEF Names
  <2>6. Apart(y, x, {"tx", "view"})
    BY <1>6, <2>2, <2>4 DEF Apart
  <2>7. Final(y) = Final(e) /\ Final(x) = Final(z)
    BY <1>7, <2>5 DEF Final
  <2>8. Written(y, x, Reads(Final(y), m))
    BY <1>7, <2>1, <2>5, <2>6, <2>7 DEF Written
  <2> QED
    BY <2>1, <2>5, <2>8 DEF Wrote
<1>14. s \in Status /\ s # "stopped"
  BY DEF Status
<1>15. Sound(x, w, n) /\ ~x.ch.new_peer /\ Said(y, x, id)
  BY <1>7, <1>8, <1>10, <1>11, <1>13, <1>14, DoneSound
<1>16. /\ Ids(e.bulk_in) \subseteq Ids(y.bulk_in) \cup {id}
       /\ Ids(e.bulk_out) \subseteq Ids(y.bulk_out) \cup {id}
  BY <1>4, <1>7
<1> QED
  BY <1>7, <1>15, <1>16, SaidHandled

\* A token to the controller, after which the transfer at the head gets on
Advanced(a, q, k) == [a EXCEPT ![q] = [a[q] EXCEPT ![1].off = k]]

\* A token that moves the oldest transfer on keeps it queued.
LEMMA TokenWorks ==
    ASSUME NEW e, NEW w \in Seq(Pkt), NEW n \in Nat, Works(e, n), Polls(e), Owns(e, w),
           NEW q \in {"bulk_in", "bulk_out"}, e[q] # <<>>, NEW v, Ended(e.u, v), NEW k,
           NEW x, x = Advanced(Access(e, v), q, k)
    PROVE  /\ Works(x, n) /\ Polls(x) /\ Owns(x, w) /\ x[q] # <<>> /\ x.rx = e.rx
           /\ Ids(x.bulk_in) = Ids(e.bulk_in) /\ Ids(x.bulk_out) = Ids(e.bulk_out)
<1> DEFINE a == Access(e, v)
           t == [e[q] EXCEPT ![1].off = k]
<1>1. Plain(e) /\ Level(e) /\ Distinct(e)
  BY DEF Works
<1>2. /\ Plain(a) /\ Apart(e, a, {"u", "ctrl_done", "ctrl_status"})
      /\ a.u.attached = e.u.attached
  BY <1>1, AccessEnds
<1>3. x = [a EXCEPT ![q] = [a[q] EXCEPT ![1].off = k]]
  BY DEF Advanced
<1> HIDE DEF a
<1>4. /\ a.ch = e.ch /\ a.rx = e.rx /\ a.tx = e.tx /\ a.view = e.view
      /\ a.connected = e.connected /\ a.intr_receiving = e.intr_receiving
      /\ a.ctrl_active = e.ctrl_active /\ a.ctrl_id = e.ctrl_id
      /\ a.bulk_in = e.bulk_in /\ a.bulk_out = e.bulk_out
  BY <1>2, ApartFields
<1>5. a[q] = e[q] /\ Names \subseteq DOMAIN a
  BY <1>2, <1>4 DEF Plain
<1>6. x = [a EXCEPT ![q] = t]
  BY <1>3, <1>5
<1>7. Queue(e[q]) /\ NoDup(e[q])
  BY <1>1 DEF Plain, Distinct
<1>8. Queue(t) /\ NoDup(t) /\ Ids(t) = Ids(e[q]) /\ t # <<>>
  BY <1>7, QueueAdvance
<1> HIDE DEF t
<1>9. Names \subseteq DOMAIN x /\ x[q] = t /\ \A f \in Names \ {q} : x[f] = a[f]
  BY <1>5, <1>6 DEF Names
<1>10. /\ x.u = a.u /\ x.ch = a.ch /\ x.rx = a.rx /\ x.tx = a.tx /\ x.view = a.view
       /\ x.connected = a.connected /\ x.intr_receiving = a.intr_receiving
       /\ x.ctrl_active = a.ctrl_active /\ x.ctrl_id = a.ctrl_id
       /\ x.ctrl_status = a.ctrl_status
       /\ q = "bulk_in"  => x.bulk_in = t /\ x.bulk_out = a.bulk_out
       /\ q = "bulk_out" => x.bulk_out = t /\ x.bulk_in = a.bulk_in
  BY <1>9 DEF Names
<1>11. e.connected
  BY <1>1 DEF Level
<1>12. Plain(x) /\ Level(x)
  BY <1>1, <1>2, <1>4, <1>8, <1>9, <1>10, <1>11 DEF Plain, Level
<1>13. Ids(x.bulk_in) = Ids(e.bulk_in) /\ Ids(x.bulk_out) = Ids(e.bulk_out)
  BY <1>4, <1>8, <1>10
<1>14. Class(x) = Class(e) /\ Kept(x) = Kept(e)
  BY <1>4, <1>10, <1>13 DEF Class, Kept
<1>15. Distinct(x)
  <2>1. NoDup(x.bulk_in) /\ NoDup(x.bulk_out)
    BY <1>1, <1>4, <1>8, <1>10 DEF Distinct
  <2> QED
    BY <1>1, <1>13, <1>14, <2>1 DEF Distinct
<1>16. Works(x, n) /\ Final(x) = Final(e)
  BY <1>4, <1>10, <1>12, <1>15, WorksAlike
<1>17. Polls(x) /\ Owns(x, w)
  BY <1>4, <1>10, <1>14, <1>16 DEF Polls, Owns
<1> QED
  BY <1>4, <1>8, <1>9, <1>10, <1>13, <1>16, <1>17

\* An OUT token of service_endpoints.
LEMMA OutHandled ==
    ASSUME NEW e, NEW w \in Seq(Pkt), NEW n \in Nat, Works(e, n), Polls(e), Owns(e, w),
           "out" \notin sc.fails, CanService(e, "bulk_out"), NEW x \in ServiceOut(e)
    PROVE  Handled(e, x, w, n)
<1> DEFINE r     == Head(e.bulk_out)
           chunk == Low(r.len - r.off, MaxPacket)
           v     == HostOut(e.u, [i \in 1..chunk |-> 1])
           a     == Access(e, v)
           y     == [a EXCEPT !.bulk_out[1].off = @ + chunk]
           k     == a.bulk_out[1].off + chunk
           q     == "bulk_out"
<1>1. x = y \/ x \in ReplyAndPop(y, q, "ok", "out")
  BY DEF ServiceOut
<1>2. q \in {"bulk_in", "bulk_out"} /\ e[q] # <<>>
  BY DEF CanService
<1>3. Ended(e.u, v)
  BY HostEnds DEF Works, Plain
<1>4. y = Advanced(a, q, k)
  <2> HIDE DEF a
  <2> QED BY DEF Advanced
<1> HIDE DEF v, k, chunk
<1>5. y = Advanced(Access(e, v), q, k)
  BY <1>4
<1> HIDE DEF y, q
<1>6. /\ Works(y, n) /\ Polls(y) /\ Owns(y, w) /\ y[q] # <<>> /\ y.rx = e.rx
      /\ Ids(y.bulk_in) = Ids(e.bulk_in) /\ Ids(y.bulk_out) = Ids(e.bulk_out)
  BY <1>2, <1>3, <1>5, TokenWorks
<1>7. CASE x = y
  BY <1>6, <1>7, SameHandled
<1>8. CASE x \in ReplyAndPop(y, q, "ok", "out")
  <2>1. Handled(y, x, w, n)
    BY <1>2, <1>6, <1>8, PopHandled
  <2> QED
    BY <1>6, <2>1 DEF Handled, Leaves
<1> QED
  BY <1>1, <1>7, <1>8

\* An IN token, cut short or not.
LEMMA InHandled ==
    ASSUME NEW e, NEW w \in Seq(Pkt), NEW n \in Nat, Works(e, n), Polls(e), Owns(e, w),
           "in" \notin sc.fails, CanService(e, "bulk_in"), NEW x \in ServiceIn(e)
    PROVE  Handled(e, x, w, n)
<1> DEFINE r    == Head(e.bulk_in)
           m    == Len(Head(e.u.in))
           room == r.len - r.off
           low  == Low(m, room)
           v    == HostIn(e.u)
           a    == Access(e, v)
           y    == [a EXCEPT !.bulk_in[1].off = @ + low]
           k    == a.bulk_in[1].off + low
           q    == "bulk_in"
<1>1. \/ x = y
      \/ x \in ReplyAndPop(y, q, "ok", "in")
      \/ x \in ReplyAndPop(y, q, "babble", "in")
  BY DEF ServiceIn
<1>2. q \in {"bulk_in", "bulk_out"} /\ e[q] # <<>>
  BY DEF CanService
<1>3. Ended(e.u, v)
  BY HostEnds DEF Works, Plain
<1>4. y = Advanced(a, q, k)
  <2> HIDE DEF a
  <2> QED BY DEF Advanced
<1> HIDE DEF v, k, low
<1>5. y = Advanced(Access(e, v), q, k)
  BY <1>4
<1> HIDE DEF y, q
<1>6. /\ Works(y, n) /\ Polls(y) /\ Owns(y, w) /\ y[q] # <<>> /\ y.rx = e.rx
      /\ Ids(y.bulk_in) = Ids(e.bulk_in) /\ Ids(y.bulk_out) = Ids(e.bulk_out)
  BY <1>2, <1>3, <1>5, TokenWorks
<1>7. CASE x = y
  BY <1>6, <1>7, SameHandled
<1>8. CASE x \in ReplyAndPop(y, q, "ok", "in") \/ x \in ReplyAndPop(y, q, "babble", "in")
  <2>1. Handled(y, x, w, n)
    BY <1>2, <1>6, <1>8, PopHandled
  <2> QED
    BY <1>6, <2>1 DEF Handled, Leaves
<1> QED
  BY <1>1, <1>7, <1>8

\* An interrupt packet goes out only while the peer polls.
LEMMA IntrHandled ==
    ASSUME NEW e, NEW w \in Seq(Pkt), NEW n \in Nat, Sound(e, w, n), ~e.ch.new_peer,
           NEW x \in ServiceIntr(e)
    PROVE  Handled(e, x, w, n)
<1> DEFINE y == [e EXCEPT !.intr_due = FALSE]
           z == Access(y, HostIntrIn(y.u))
<1>1. CASE ~(e.intr_receiving /\ e.intr_due)
  <2>1. x = e
    BY <1>1 DEF ServiceIntr
  <2> QED
    BY <2>1, StillHandled
<1>2. CASE e.intr_receiving /\ e.intr_due
  <2>1. x = y \/ x \in Send(z, Note("intr"), "intr")
    BY <1>2 DEF ServiceIntr
  <2>2. Plain(e) /\ Level(e) /\ Distinct(e) /\ Names \subseteq DOMAIN e
    BY DEF Sound, Plain
  <2>3. Up(e)
    BY <1>2, <2>2 DEF Sound, Gone, Level
  <2>4. Works(e, n) /\ Polls(e) /\ Owns(e, w)
    BY <2>3, SoundWorks
  <2>5. Names \subseteq DOMAIN y /\ \A f \in Names \ {"intr_due"} : y[f] = e[f]
    BY <2>2 DEF Names
  <2> HIDE DEF y
  <2>6. /\ y.u = e.u /\ y.ch = e.ch /\ y.rx = e.rx /\ y.tx = e.tx /\ y.view = e.view
        /\ y.connected = e.connected /\ y.intr_receiving = e.intr_receiving
        /\ y.ctrl_active = e.ctrl_active /\ y.ctrl_id = e.ctrl_id
        /\ y.ctrl_status = e.ctrl_status
        /\ y.bulk_in = e.bulk_in /\ y.bulk_out = e.bulk_out
    BY <2>5 DEF Names
  <2>7. Plain(y)
    BY <2>2, <2>5, <2>6 DEF Plain
  <2>8. Ended(y.u, HostIntrIn(y.u))
    BY <2>7, HostEnds DEF Plain
  <2>9. /\ Plain(z) /\ Apart(y, z, {"u", "ctrl_done", "ctrl_status"})
        /\ z.u.attached = y.u.attached
    BY <2>7, <2>8, AccessEnds
  <2> HIDE DEF z
  <2>10. /\ z.ch = e.ch /\ z.rx = e.rx /\ z.tx = e.tx /\ z.view = e.view
         /\ z.connected = e.connected /\ z.intr_receiving = e.intr_receiving
         /\ z.ctrl_active = e.ctrl_active /\ z.ctrl_id = e.ctrl_id
         /\ z.bulk_in = e.bulk_in /\ z.bulk_out = e.bulk_out
    BY <2>6, <2>9, ApartFields
  <2>11. ASSUME NEW s \in {y, z} PROVE Works(s, n) /\ Polls(s) /\ Owns(s, w)
    <3>1. /\ s.ch = e.ch /\ s.tx = e.tx /\ s.view = e.view
          /\ s.connected = e.connected /\ s.intr_receiving = e.intr_receiving
          /\ s.ctrl_active = e.ctrl_active /\ s.ctrl_id = e.ctrl_id
          /\ s.bulk_in = e.bulk_in /\ s.bulk_out = e.bulk_out
          /\ s.u.attached = e.u.attached /\ Plain(s)
      BY <2>6, <2>7, <2>9, <2>10, <2>11
    <3>2. Class(s) = Class(e) /\ Kept(s) = Kept(e)
      BY <3>1 DEF Class, Kept
    <3>3. Level(s) /\ Distinct(s)
      BY <2>2, <3>1, <3>2 DEF Level, Distinct
    <3>4. Works(s, n) /\ Final(s) = Final(e)
      BY <2>4, <3>1, <3>3, WorksAlike
    <3> QED
      BY <2>4, <3>1, <3>2, <3>4 DEF Polls, Owns
  <2>12. CASE x = y
    BY <2>6, <2>11, <2>12, SameHandled
  <2>13. CASE x \in Send(z, Note("intr"), "intr")
    <3>1. Works(z, n) /\ Polls(z) /\ Owns(z, w) /\ Final(z).intr
      BY <1>2, <2>10, <2>11 DEF Polls
    <3>2. Sound(x, w, n) /\ ~x.ch.new_peer /\ Said(z, x, 0)
      BY <2>13, <3>1, NoteSound
    <3> QED
      BY <2>10, <3>2, SaidHandled
  <2> QED
    BY <2>1, <2>12, <2>13
<1> QED
  BY <1>1, <1>2

\* What is written at the end of a tick and at shutdown
LEMMA FlushHandled ==
    ASSUME NEW e, NEW w \in Seq(Pkt), NEW n \in Nat, Sound(e, w, n), ~e.ch.new_peer,
           NEW h, NEW x \in FlushTx(e, h)
    PROVE  Handled(e, x, w, n)
<1>1. Plain(e) /\ Level(e) /\ Distinct(e) /\ ~e.view.bad
  BY DEF Sound
<1>2. CASE Written(e, x, Final(e)) /\ (e.tx = <<>> => x.tx = <<>>)
  <2>1. /\ x.ch = e.ch /\ x.rx = e.rx
        /\ x.connected = e.connected /\ x.intr_receiving = e.intr_receiving
        /\ x.bulk_in = e.bulk_in /\ x.bulk_out = e.bulk_out
        /\ Plain(x) /\ (Up(x) <=> Up(e)) /\ Kept(x) = Kept(e) /\ Class(x) = Class(e)
        /\ Distinct(x) /\ Level(x)
    BY <1>1, <1>2, WrittenFields
  <2>2. /\ Final(x) = Final(e) /\ x.view.owed \subseteq e.view.owed
        /\ x.view.owed \cup x.view.stale \subseteq e.view.owed \cup e.view.stale
    BY <1>2 DEF Written
  <2>3. CASE Up(e)
    <3>1. Works(e, n) /\ Polls(e) /\ Owns(e, w)
      BY <2>3, SoundWorks
    <3>2. Works(x, n) /\ Polls(x)
      BY <2>1, <2>2, <3>1 DEF Works, Polls
    <3>3. Owns(x, w)
      <4> DEFINE v == Final(e)
                 K == Kept(e)
                 C == Class(e)
                 O == e.view.owed
                 O1 == x.view.owed
      <4>1. Fits(K, C, O, v, w) /\ O1 \subseteq O /\ v.owed \subseteq O1 /\ v \in View
        BY <1>1, <2>1, <2>2, <3>1, FinalTyped DEF Owns, After
      <4> HIDE DEF v, K, C, O, O1
      <4>2. /\ K \cup AskIds(w) \subseteq v.owed \cup v.stale /\ v.owed \subseteq K \cup AskIds(w)
            /\ C \subseteq K
        BY <4>1 DEF Fits
      <4>3. Fits(K, C, O1, v, w)
        BY <4>1, <4>2, FitsLess
      <4> QED
        BY <2>1, <2>2, <4>3 DEF Owns, v, K, C, O1
    <3> QED
      BY <2>1, <3>2, <3>3, SameHandled
  <2>4. CASE ~Up(e)
    <3>1. Gone(e) /\ ~Up(x)
      BY <2>1, <2>4 DEF Sound
    <3>2. Gone(x)
      BY <1>2, <2>1, <3>1 DEF Gone
    <3>3. ~x.view.bad
      <4>1. Final(e) = e.view
        BY <1>1, <3>1, ReadsEmpty DEF Gone, Final, Plain
      <4> QED
        BY <1>1, <1>2, <4>1 DEF Written
    <3>4. Sound(x, w, n)
      BY <2>1, <3>1, <3>2, <3>3 DEF Sound, Gone
    <3> QED
      BY <2>1, <3>1, <3>4 DEF Handled, Leaves
  <2> QED
    BY <2>3, <2>4
<1>3. CASE x = PeerLost(e)
  <2>1. Left(e, x)
    BY <1>1, <1>3, LostLeft
  <2>2. Sound(x, w, n) /\ ~Up(x) /\ ~x.connected /\ ~x.ch.new_peer
    BY <1>1, <2>1, LeftSound
  <2> QED
    BY <2>2 DEF Handled, Leaves
<1> QED
  BY <1>1, <1>2, <1>3, FlushOutcome

--------------------------------------------------------------------------------
(* What a step outside the handlers leaves alone.                          *)

\* Soundness does not look at the rest of the state.
LEMMA SoundAlike ==
    ASSUME NEW e, NEW w, NEW n, Sound(e, w, n), NEW x, Plain(x),
           Up(x) <=> Up(e), x.ch.new_peer = e.ch.new_peer,
           x.u.attached = e.u.attached, x.tx = e.tx, x.view = e.view,
           x.connected = e.connected, x.intr_receiving = e.intr_receiving,
           x.ctrl_active = e.ctrl_active, x.ctrl_id = e.ctrl_id,
           x.bulk_in = e.bulk_in, x.bulk_out = e.bulk_out,
           ~Up(e) => x.rx = <<>>
    PROVE  Sound(x, w, n) /\ Leaves(e, x)
<1>1. Class(x) = Class(e) /\ Kept(x) = Kept(e) /\ Final(x) = Final(e)
  BY DEF Class, Kept, Final
<1>2. Level(x) /\ Distinct(x)
  BY <1>1 DEF Sound, Level, Distinct
<1>3. ~Up(x) => Gone(x)
  BY DEF Sound, Gone
<1>4. Up(x) => Agrees(x, n) /\ Fits(Kept(x), Class(x), x.view.owed, Final(x), w)
  BY <1>1 DEF Sound, Agrees
<1>5. ~x.view.bad /\ (x.ch.new_peer => x.tx = <<>>)
  BY DEF Sound
<1> QED
  BY <1>2, <1>3, <1>4, <1>5 DEF Sound, Leaves

\* Without a peer the wire does not matter.
LEMMA SoundAny ==
    ASSUME NEW e, NEW w, NEW n, Sound(e, w, n), ~Up(e), NEW z, NEW k
    PROVE  Sound(e, z, k)
BY DEF Sound, Gone

\* The guest at the registers does not change what the peer is owed.
LEMMA AccessSound ==
    ASSUME NEW e, NEW w, NEW n, Sound(e, w, n), NEW v, Ended(e.u, v)
    PROVE  LET x == Access(e, v) IN
           Sound(x, w, n) /\ Leaves(e, x) /\ x.rx = e.rx /\ x.ch = e.ch
<1> DEFINE x == Access(e, v)
<1>1. /\ Plain(x) /\ Apart(e, x, {"u", "ctrl_done", "ctrl_status"})
      /\ x.u.attached = e.u.attached
  BY AccessEnds DEF Sound
<1> HIDE DEF x
<1>2. /\ x.ch = e.ch /\ x.rx = e.rx /\ x.tx = e.tx /\ x.view = e.view
      /\ x.connected = e.connected /\ x.intr_receiving = e.intr_receiving
      /\ x.ctrl_active = e.ctrl_active /\ x.ctrl_id = e.ctrl_id
      /\ x.bulk_in = e.bulk_in /\ x.bulk_out = e.bulk_out
  BY <1>1, ApartFields
<1>3. ~Up(e) => x.rx = <<>>
  BY <1>2 DEF Sound, Gone
<1>4. Up(x) <=> Up(e)
  BY <1>2 DEF Up
<1>5. Sound(x, w, n) /\ Leaves(e, x)
  BY <1>1, <1>2, <1>3, <1>4, SoundAlike
<1> QED
  BY <1>2, <1>5 DEF x

\* A field that only the handlers look at, or the stream's timer
LEMMA FieldSound ==
    ASSUME NEW e, NEW w, NEW n, Sound(e, w, n),
           NEW x, Names \subseteq DOMAIN x,
           \A f \in Names \ {"present", "intr_due", "ch"} : x[f] = e[f],
           ChGood(x.ch), Up(x) <=> Up(e), x.ch.new_peer = e.ch.new_peer
    PROVE  Sound(x, w, n) /\ Leaves(e, x) /\ x.rx = e.rx
<1>1. /\ x.u = e.u /\ x.rx = e.rx /\ x.tx = e.tx /\ x.view = e.view
      /\ x.connected = e.connected /\ x.intr_receiving = e.intr_receiving
      /\ x.ctrl_active = e.ctrl_active /\ x.ctrl_id = e.ctrl_id
      /\ x.ctrl_status = e.ctrl_status
      /\ x.bulk_in = e.bulk_in /\ x.bulk_out = e.bulk_out
  BY DEF Names
<1>2. Plain(x)
  BY <1>1 DEF Sound, Plain
<1>3. ~Up(e) => x.rx = <<>>
  BY <1>1 DEF Sound, Gone
<1>4. Sound(x, w, n) /\ Leaves(e, x)
  BY <1>1, <1>2, <1>3, SoundAlike
<1> QED
  BY <1>1, <1>4

--------------------------------------------------------------------------------
(* The stream: what a tick of it finds.                                    *)

\* host_chardev_tick and host_chardev_ready bring a usable stream only with a
\* new peer, unless a redial completes at once.
LEMMA PollReady ==
    ASSUME NEW h, ChGood(h), NEW r1 \in ChTickResults(h),
           NEW r2 \in ChReadyResults(ChTick(h, r1, 1)), ~ImmediateRedial
    PROVE  LET c == ChReady(ChTick(h, r1, 1), r2) IN
           /\ ChGood(c)
           /\ IsReady(h) => c = h
           /\ ~IsReady(h) /\ IsReady(c) => c.new_peer
<1> DEFINE a == ChTick(h, r1, 1)
           c == ChReady(a, r2)
<1>1. ChGood(a)
  BY TickGood
<1>2. ChGood(c)
  <2>1. r2 \in ChReadyResults(a)
    OBVIOUS
  <2> HIDE DEF a
  <2> QED BY <1>1, <2>1, ReadyGood
<1>3. ASSUME IsReady(h) PROVE c = h
  <2>1. r1 = "none" /\ a = h
    BY <1>3 DEF IsReady, ChTickResults, CanAccept, CanRedial, ChTick
  <2>2. r2 = "none"
    BY <1>3, <2>1 DEF IsReady, ChReadyResults
  <2> QED
    BY <2>1, <2>2 DEF ChReady
<1>4. ASSUME ~IsReady(h), IsReady(c) PROVE c.new_peer
  <2>1. h \in Channel /\ a \in Channel
    BY <1>1 DEF ChGood
  <2>2. CASE r2 = "established"
    <3> HIDE DEF a
    <3> QED BY <2>1, <2>2 DEF ChReady, Channel
  <2>3. CASE r2 # "established"
    <3>1. c = a
      <4> HIDE DEF a
      <4>1. r2 = "failed" => ~IsReady(c)
        BY <2>1 DEF ChReady, Channel, IsReady, NoFd
      <4> QED
        BY <1>4, <2>3, <4>1 DEF ChReady
    <3>2. a # h
      BY <1>4, <3>1
    <3>3. r1 \in {"accepted", "in_progress", "refused"}
      BY <3>2 DEF ChTickResults, ConnectResults, ChTick
    <3>4. CASE r1 = "accepted"
      <4>1. a = [h EXCEPT !.fd = 1, !.new_peer = TRUE]
        BY <3>4 DEF ChTick, TryAccept
      <4> QED
        BY <2>1, <3>1, <4>1 DEF Channel
    <3>5. CASE r1 = "in_progress"
      <4>1. a = [h EXCEPT !.due = FALSE, !.fd = 1, !.connecting = TRUE]
        BY <3>5 DEF ChTick, TryReconnect
      <4>2. a.connecting
        BY <2>1, <4>1 DEF Channel
      <4> QED
        BY <1>4, <3>1, <4>2 DEF IsReady
    <3>6. CASE r1 = "refused"
      <4>1. a = [h EXCEPT !.due = FALSE]
        BY <3>6 DEF ChTick, TryReconnect
      <4>2. a.fd = h.fd /\ a.connecting = h.connecting
        BY <2>1, <4>1 DEF Channel
      <4> QED
        BY <1>4, <3>1, <4>2 DEF IsReady
    <3> QED
      BY <3>3, <3>4, <3>5, <3>6
  <2> QED
    BY <2>2, <2>3
<1> QED
  BY <1>2, <1>3, <1>4

\* What the peer can send.
LEMMA AskPkt ==
    ASSUME NEW t \in AllReqs \cup {"hello"}, NEW id \in Nat, NEW len \in Nat,
           id = 0 <=> t \in {"hello", "reset", "oversized"}
    PROVE  Ask(t, id, len) \in Pkt
BY DEF Ask, Pkt

\* What may come with a connection
Greeting == {<<>>, <<Packet0("hello")>>}

\* A peer that has just come: nothing is written to it, and it waits for nothing.
LEMMA NewPeerSound ==
    ASSUME NEW e, NEW w, NEW n, Sound(e, w, n), ~Up(e),
           NEW c, ChGood(c), IsReady(c), c.new_peer, NEW z \in Greeting,
           NEW v \in View, v.owed = {}, v.stale = {}, ~v.bad, ~v.hello, ~v.offered,
           NEW x, Names \subseteq DOMAIN x, x.ch = c, x.view = v,
           \A f \in Names \ {"ch", "view"} : x[f] = e[f]
    PROVE  Sound(x, z, 0) /\ Leaves(e, x) /\ x.rx = <<>> /\ x.ch = c
<1>1. /\ Plain(e) /\ Level(e) /\ Distinct(e) /\ Gone(e) /\ Names \subseteq DOMAIN e
  BY DEF Sound, Plain
<1>2. v \in View
  OBVIOUS
<1>3. /\ v.owed = {} /\ v.stale = {} /\ ~v.bad /\ v.hello = FALSE /\ v.offered = FALSE
  BY DEF View
<1>4. /\ Names \subseteq DOMAIN x /\ x.ch = c /\ x.view = v
      /\ x.u = e.u /\ x.rx = e.rx /\ x.tx = e.tx
      /\ x.connected = e.connected /\ x.intr_receiving = e.intr_receiving
      /\ x.ctrl_active = e.ctrl_active /\ x.ctrl_id = e.ctrl_id
      /\ x.ctrl_status = e.ctrl_status
      /\ x.bulk_in = e.bulk_in /\ x.bulk_out = e.bulk_out
  BY <1>1 DEF Names
<1>5. Plain(x)
  BY <1>1, <1>2, <1>4 DEF Plain
<1>6. /\ x.connected = FALSE /\ ~x.intr_receiving /\ x.tx = <<>> /\ x.rx = <<>>
      /\ x.bulk_in = <<>> /\ x.bulk_out = <<>> /\ ~x.ctrl_active
  BY <1>1, <1>4 DEF Gone, Level, Plain
<1>7. Class(x) = {} /\ Kept(x) = {} /\ Class(e) = {}
  BY <1>4, <1>6, QueueEmpty DEF Class, Kept
<1>8. Level(x) /\ Distinct(x)
  BY <1>1, <1>4, <1>6, <1>7, QueueEmpty DEF Level, Distinct
<1>9. Final(x) = v
  BY <1>2, <1>4, <1>6, ReadsEmpty DEF Final
<1>10. Up(x) /\ Agrees(x, 0)
  <2>1. Up(x)
    BY <1>4 DEF Up
  <2>2. x.ch.new_peer = TRUE
    BY <1>4 DEF ChGood, Channel
  <2> QED
    BY <1>3, <1>4, <1>6, <1>9, <2>1, <2>2 DEF Agrees
<1>11. AskAt(z) = {} /\ AskIds(z) = {} /\ \A i \in 1..Len(z) : z[i].t # "reset"
  <2>1. \A i \in 1..Len(z) : z[i] = Packet0("hello")
    BY DEF Greeting
  <2>2. Packet0("hello").id = 0 /\ Packet0("hello").t # "reset"
    BY DEF Packet0, Ask
  <2> QED
    BY <2>1, <2>2 DEF AskAt, AskIds
<1>12. Fits({}, {}, v.owed, v, z)
  BY <1>3, <1>11 DEF Fits
<1>13. Sound(x, z, 0)
  BY <1>3, <1>4, <1>5, <1>6, <1>7, <1>8, <1>9, <1>10, <1>12 DEF Sound
<1>14. Leaves(e, x)
  BY <1>4 DEF Leaves
<1> QED
  BY <1>4, <1>6, <1>13, <1>14

(***************************************************************************)
(* The start of a session: the hello is the first packet of the new peer.  *)
(***************************************************************************)
LEMMA SessionSound ==
    ASSUME NEW e, NEW w \in Seq(Pkt), NEW n \in Nat, Sound(e, w, n), Up(e), e.rx = <<>>,
           NEW x \in SessionStart(e)
    PROVE  /\ Sound(x, w, n) /\ ~x.ch.new_peer /\ x.rx = <<>> /\ Leaves(e, x)
           /\ Up(x) \/ x.ch.fd = NoFd
<1>1. CASE ~e.ch.new_peer
  <2>1. x = e
    BY <1>1 DEF SessionStart
  <2> QED
    BY <1>1, <2>1 DEF Leaves
<1>2. CASE e.ch.new_peer
  <2> DEFINE y == [e EXCEPT !.ch = ChTakeNewPeer(@), !.hello = FALSE,
                            !.rx = <<>>, !.tx = <<>>]
             m == Note("hello")
             v == e.view
             r == Reads(v, m)
  <2>1. x \in Send(y, m, "hello")
    BY <1>2 DEF SessionStart
  <2>2. /\ Plain(e) /\ Level(e) /\ Distinct(e) /\ Names \subseteq DOMAIN e /\ e.tx = <<>>
        /\ v \in View /\ ~v.bad
    BY <1>2 DEF Sound, Plain
  <2>3. /\ Names \subseteq DOMAIN y /\ y.ch = ChTakeNewPeer(e.ch) /\ y.rx = <<>> /\ y.tx = <<>>
        /\ y.u = e.u /\ y.view = e.view
        /\ y.connected = e.connected /\ y.intr_receiving = e.intr_receiving
        /\ y.ctrl_active = e.ctrl_active /\ y.ctrl_id = e.ctrl_id
        /\ y.ctrl_status = e.ctrl_status
        /\ y.bulk_in = e.bulk_in /\ y.bulk_out = e.bulk_out
    BY <2>2 DEF Names
  <2> HIDE DEF y
  <2>4. ChGood(y.ch) /\ Up(y) /\ ~y.ch.new_peer
    <3>1. ChGood(e.ch)
      BY <2>2 DEF Plain
    <3>2. ChGood(y.ch)
      BY <2>3, <3>1, TakeGood
    <3> QED
      BY <2>3, <3>1, <3>2 DEF ChTakeNewPeer, ChGood, Channel, Up, IsReady
  <2>5. Plain(y)
    <3>1. Told(<<>>) /\ <<>> \in Seq(Msg) /\ <<>> \in Seq(Pkt)
      BY DEF Told
    <3> QED
      BY <2>2, <2>3, <2>4, <3>1 DEF Plain
  <2>6. Class(y) = Class(e) /\ Kept(y) = Kept(e) /\ Final(y) = v /\ Final(e) = v
    BY <2>2, <2>3, ReadsEmpty DEF Class, Kept, Final
  <2>7. Level(y) /\ Distinct(y)
    BY <2>2, <2>3, <2>6 DEF Level, Distinct
  <2>8. Agrees(e, n) /\ Fits(Kept(e), Class(e), v.owed, v, w)
    BY <2>6 DEF Sound
  <2>9. /\ v.offered = e.connected /\ (e.intr_receiving => v.intr) /\ ~v.hello
        /\ v.owed \cup v.stale \subseteq 1..n
    BY <1>2, <2>6, <2>8 DEF Agrees
  <2>10. m \in Msg /\ m.id = 0 /\ m.t = "hello" /\ m.status = "ok"
    BY DEF Note, Msg, MsgKind, Status
  <2>11. m.t # "reply" => m.id = 0
    BY <2>10
  <2> HIDE DEF m
  <2>12. /\ r \in View /\ ~r.bad /\ r.hello /\ r.offered = e.connected
         /\ (e.intr_receiving => r.intr)
    <3> HIDE DEF v
    <3>1. /\ r \in View
          /\ r.hello <=> v.hello \/ m.t = "hello"
          /\ r.offered <=> (v.offered \/ m.t = "connect") /\ m.t # "disconnect"
          /\ r.intr <=> (v.intr \/ m.status = "receiving")
                              /\ m.status # "stopped" /\ m.t # "disconnect"
          /\ ~r.bad <=> /\ ~v.bad
                        /\ m.t = "hello" => ~v.hello
                        /\ m.t = "connect" => v.hello /\ ~v.offered
                        /\ m.t = "disconnect" => v.offered
                        /\ m.t = "reply" => v.hello /\ m.id \in v.owed \cup v.stale
                        /\ m.t = "intr" => v.intr
                        /\ m.t = "info" => v.hello
      BY <2>2, <2>10, ReadsFields
    <3> HIDE DEF r
    <3>2. r \in View /\ ~r.bad /\ r.hello /\ (e.intr_receiving => r.intr)
      BY <2>2, <2>9, <2>10, <3>1
    <3>3. r.offered = e.connected
      BY <2>2, <2>9, <2>10, <3>1 DEF View
    <3> QED
      BY <3>2, <3>3
  <2>13. \/ Written(y, x, r)
         \/ Left(y, x)
    BY <2>1, <2>4, <2>5, <2>6, <2>10, <2>11, SendOutcome
  <2>14. CASE Written(y, x, r)
    <3>1. /\ x.ch = y.ch /\ x.rx = y.rx
          /\ x.connected = y.connected /\ x.intr_receiving = y.intr_receiving
          /\ x.bulk_in = y.bulk_in /\ x.bulk_out = y.bulk_out
          /\ Plain(x) /\ (Up(x) <=> Up(y)) /\ Kept(x) = Kept(y) /\ Class(x) = Class(y)
          /\ Distinct(x) /\ Level(x)
      BY <2>5, <2>7, <2>14, WrittenFields
    <3>2. /\ Final(x) = r /\ x.view.owed \subseteq v.owed
          /\ x.view.owed \cup x.view.stale \subseteq v.owed \cup v.stale
      BY <2>3, <2>14 DEF Written
    <3>3. Works(x, n)
      BY <2>3, <2>4, <2>9, <2>12, <3>1, <3>2 DEF Works
    <3>4. Polls(x)
      BY <2>3, <2>12, <3>1, <3>2 DEF Polls
    <3>5. Owns(x, w)
      <4> DEFINE K == Kept(e)
                 C == Class(e)
                 O == v.owed
                 O1 == x.view.owed
      <4>1. Fits(K, C, O, v, w) /\ O1 \subseteq O /\ r.owed \subseteq O1
        BY <2>8, <3>1, <3>2, FinalTyped DEF After
      <4>2. K \cup AskIds(w) \subseteq v.owed \cup v.stale /\ C \subseteq K
        BY <4>1 DEF Fits
      <4> HIDE DEF K, C, O, O1
      <4>3. K \ {0} = K /\ C \ {0} = C
        BY <2>9, <4>2
      <4>4. m.t # "disconnect" /\ m.id \notin AskIds(w)
        BY <2>10, AskIdsNonzero
      <4> HIDE DEF v
      <4>5. Fits(K \ {m.id}, C \ {m.id}, O1, r, w)
        BY <2>2, <2>10, <4>1, <4>4, FitsReply
      <4> HIDE DEF r
      <4>6. Fits(K, C, O1, r, w)
        BY <2>10, <4>3, <4>5
      <4> QED
        BY <2>6, <3>1, <3>2, <4>6 DEF Owns, K, C, O1
    <3>6. Sound(x, w, n)
      BY <3>3, <3>4, <3>5, SoundWorks
    <3>7. Leaves(e, x)
      BY <2>3, <3>1 DEF Leaves
    <3> QED
      BY <2>3, <2>4, <3>1, <3>6, <3>7
  <2>15. CASE Left(y, x)
    <3>1. Sound(x, w, n) /\ ~Up(x) /\ ~x.connected /\ ~x.ch.new_peer /\ x.rx = <<>>
      BY <2>2, <2>3, <2>7, <2>15, LeftSound
    <3>2. x.ch.fd = NoFd
      BY <2>15 DEF Left
    <3> QED
      BY <3>1, <3>2 DEF Leaves
  <2> QED
    BY <2>13, <2>14, <2>15
<1> QED
  BY <1>1, <1>2

--------------------------------------------------------------------------------
(* The peer's packets join the wire.                                       *)

\* A packet of the peer added to the wire.
LEMMA PeerSound ==
    ASSUME NEW e, NEW w \in Seq(Pkt), NEW n \in Nat, Sound(e, w, n), Up(e), ~e.ch.new_peer,
           NEW how \in {"greets", "asks", "class", "resets"}, NEW p \in Pkt,
           how = "greets" => (p.t = "cancel" \/ p.id = 0) /\ p.t # "reset",
           how = "asks"   => p.id = n + 1 /\ p.t # "cancel" /\ p.t # "class",
           how = "class"  => p.id = n + 1 /\ p.t = "class",
           how = "resets" => p.id = 0,
           NEW a \in View, Differ(how, n + 1, e.view, a),
           how \in {"asks", "class"} => a.owed = e.view.owed \cup {n + 1} /\ a.stale = e.view.stale,
           NEW k \in {n, n + 1}, how \in {"asks", "class"} => k = n + 1,
           NEW x, Names \subseteq DOMAIN x, x.view = a, \A f \in Names \ {"view"} : x[f] = e[f]
    PROVE  Sound(x, Append(w, p), k) /\ Leaves(e, x) /\ x.rx = e.rx /\ x.ch = e.ch
<1> DEFINE v == Final(e)
           r == Final(x)
           z == Append(w, p)
<1>1. Works(e, n) /\ Polls(e) /\ Owns(e, w)
  BY SoundWorks
<1>2. /\ Plain(e) /\ Level(e) /\ Distinct(e) /\ e.tx \in Seq(Msg) /\ Told(e.tx)
      /\ e.view \in View /\ ~v.bad /\ v.hello /\ v.offered = e.connected
      /\ e.view.owed \cup e.view.stale \subseteq 1..n
  BY <1>1 DEF Works, Plain
<1>3. /\ x.u = e.u /\ x.ch = e.ch /\ x.rx = e.rx /\ x.tx = e.tx
      /\ x.connected = e.connected /\ x.intr_receiving = e.intr_receiving
      /\ x.ctrl_active = e.ctrl_active /\ x.ctrl_id = e.ctrl_id
      /\ x.ctrl_status = e.ctrl_status
      /\ x.bulk_in = e.bulk_in /\ x.bulk_out = e.bulk_out
  BY DEF Names
<1>4. Plain(x)
  BY <1>2, <1>3 DEF Plain
<1>5. Class(x) = Class(e) /\ Kept(x) = Kept(e)
  BY <1>3 DEF Class, Kept
<1>6. Level(x) /\ Distinct(x)
  BY <1>2, <1>3, <1>5 DEF Level, Distinct
<1>7. v \in View /\ After(e.view, v, e.tx, Len(e.tx)) /\ r \in View
  BY <1>2, <1>4, FinalTyped
<1>8. \A i \in 1..Len(e.tx) : e.tx[i].id # n + 1
  <2>1. ASSUME NEW i \in 1..Len(e.tx) PROVE e.tx[i].id = 0 \/ e.tx[i].id \in 1..n
    <3>1. e.tx[i].t = "reply" => e.tx[i].id \in e.view.owed \cup e.view.stale
      BY <1>2, <1>7 DEF After
    <3> QED
      BY <1>2, <3>1 DEF Told
  <2> QED
    BY <2>1
<1>9. Differ(how, n + 1, v, r)
  <2> DEFINE ms == e.tx
             u == e.view
             c == n + 1
  <2>1. /\ c \in Nat \ {0} /\ u \in View /\ ms \in Seq(Msg) /\ Differ(how, c, u, a)
        /\ \A i \in 1..Len(ms) : ms[i].id # c
    BY <1>2, <1>8
  <2>2. v = ReadsAll(u, ms) /\ r = ReadsAll(a, ms)
    BY <1>3 DEF Final
  <2> HIDE DEF ms, u, c, v, r
  <2>3. Differ(how, c, v, r)
    BY <2>1, <2>2, ReadsDiffer
  <2> QED
    BY <2>3 DEF c
<1> HIDE DEF v, r
<1>10. /\ v.owed \cup v.stale \subseteq 1..n /\ v.owed \subseteq e.view.owed
       /\ Fits(Kept(e), Class(e), e.view.owed, v, w)
  BY <1>1, <1>2, <1>7 DEF After, Owns, v
<1>11. z \in Seq(Pkt) /\ Fits(Kept(e), Class(e), a.owed, r, z)
  <2> DEFINE K == Kept(e)
             C == Class(e)
             O == e.view.owed
             c == n + 1
  <2>1. Fits(K, C, O, v, w) /\ v \in View /\ r \in View /\ Differ(how, c, v, r)
    BY <1>7, <1>9, <1>10
  <2> HIDE DEF K, C, O
  <2>2. CASE how = "greets"
    <3>1. r.owed = v.owed /\ r.stale = v.stale /\ r.ctl = v.ctl /\ p.t # "reset"
          /\ (p.t = "cancel" \/ p.id = 0)
      BY <2>1, <2>2 DEF Differ
    <3>2. a.owed = O
      BY <2>2 DEF Differ, O
    <3>3. Fits(K, C, O, r, z)
      BY <2>1, <3>1, FitsTold
    <3> QED
      BY <3>2, <3>3 DEF K, C
  <2>3. CASE how \in {"asks", "class"}
    <3>1. /\ Joins(v, r, c) /\ p.id = c /\ p.t # "cancel" /\ p.id # 0
          /\ (p.t # "class" => r.ctl = v.ctl)
          /\ (p.t = "class" => v.ctl = 0 /\ r.ctl = (IF c \in r.owed THEN c ELSE 0))
      BY <2>1, <2>3 DEF Differ
    <3>2. a.owed = O \cup {p.id}
      BY <2>3, <3>1 DEF O
    <3>3. \A id \in v.owed \cup v.stale : id < c /\ id # 0
      BY <1>10
    <3> HIDE DEF c
    <3>4. Fits(K, C, O \cup {p.id}, r, z)
      BY <2>1, <3>1, <3>3, FitsAsked
    <3> QED
      BY <3>2, <3>4 DEF K, C
  <2>4. CASE how = "resets"
    <3>1. r.owed = {} /\ r.stale = v.stale \cup v.owed /\ p.id = 0
      BY <2>1, <2>4 DEF Differ
    <3>2. a.owed = {}
      BY <2>4 DEF Differ
    <3> DEFINE O1 == a.owed
    <3>3. O1 = {}
      BY <3>2
    <3> HIDE DEF O1
    <3>4. Fits(K, C, O1, r, z)
      BY <2>1, <3>1, <3>3, FitsTold
    <3> QED
      BY <3>4 DEF K, C, O1
  <2> QED
    BY <2>2, <2>3, <2>4
<1>12. a.owed \cup a.stale \subseteq 1..k
  <2>1. CASE how \in {"asks", "class"}
    BY <1>2, <2>1
  <2>2. CASE how \in {"greets", "resets"}
    <3>1. a.owed \cup a.stale \subseteq e.view.owed \cup e.view.stale
      BY <2>2 DEF Differ
    <3>2. 1..n \subseteq 1..k
      OBVIOUS
    <3> QED
      BY <1>2, <3>1, <3>2
  <2> QED
    BY <2>1, <2>2
<1>13. Works(x, k)
  <2>1. ~r.bad /\ r.hello /\ r.offered = x.connected
    BY <1>2, <1>3, <1>9 DEF Differ
  <2>2. Up(x) /\ ~x.ch.new_peer
    BY <1>3 DEF Up
  <2> QED
    BY <1>4, <1>6, <1>12, <2>1, <2>2 DEF Works, r
<1>14. Polls(x)
  BY <1>1, <1>3, <1>9 DEF Polls, Differ, v, r
<1>15. Owns(x, z)
  BY <1>5, <1>11 DEF Owns, r
<1>16. Leaves(e, x)
  BY <1>3 DEF Leaves
<1> QED
  BY <1>3, <1>13, <1>14, <1>15, <1>16, SoundWorks

--------------------------------------------------------------------------------
(* The steps.                                                              *)

(***************************************************************************)
(* No write fails while the device is offered or a transfer is answered,   *)
(* and no redial completes at once: there the code does otherwise, see     *)
(* CountInRange and ConnectedMeansOffered of UsbRedir and                  *)
(* ReportedOncePerPeer of HostChardevMachine.                              *)
(***************************************************************************)
Restricted ==
    /\ ~ImmediateRedial
    /\ \A c \in Scenarios : c.fails \cap {"update", "out", "in"} = {}

\* The file after usbredir_dev_configure.
LEMMA InitInv ==
    ASSUME Init
    PROVE  IInv
<1> DEFINE ch == [ChInit EXCEPT !.kind = sc.kind, !.listening = sc.kind \in ListenKinds]
<1>1. sc.kind \in AllKinds
  BY RedirAssumption DEF Init, ScenarioType
<1>2. ch.fd = 0 /\ ch.connecting = FALSE /\ ch.new_peer = FALSE
  BY DEF ChInit, NoFd
<1>3. ch \in Channel
  <2> DEFINE b == sc.kind \in ListenKinds
             k == sc.kind
  <2>1. ch = [ChInit EXCEPT !.kind = k, !.listening = b] /\ b \in BOOLEAN /\ k \in ChKind
    BY <1>1 DEF ChKind
  <2> HIDE DEF b, k
  <2> QED
    BY <2>1 DEF ChInit, Channel, ChFds, NoFd
<1> HIDE DEF ch
<1>4. /\ d.u = UsbfInit /\ d.ch = ch /\ d.rx = <<>> /\ d.tx = <<>>
      /\ d.connected = FALSE /\ d.ctrl_active = FALSE /\ d.ctrl_status = "ok" /\ d.ctrl_id = 0
      /\ d.bulk_in = <<>> /\ d.bulk_out = <<>> /\ d.intr_receiving = FALSE /\ d.view = NewView
      /\ Names \subseteq DOMAIN d
  <2>1. d = RedirInit(sc.kind)
    BY DEF Init
  <2> QED
    BY <2>1 DEF RedirInit, ch, Names
<1>5. UShape(d.u) /\ d.u.done = <<>> /\ d.u.attached = FALSE
  BY <1>4 DEF UsbfInit, UShape
<1>6. ChGood(d.ch) /\ ~Up(d) /\ ~d.ch.new_peer
  BY <1>2, <1>3, <1>4 DEF ChGood, Up, IsReady, NoFd
<1>7. NewView \in View /\ ~NewView.bad
  BY DEF NewView, View
<1>8. Plain(d)
  <2>1. Told(<<>>) /\ <<>> \in Seq(Msg) /\ <<>> \in Seq(Pkt)
    BY DEF Told
  <2>2. /\ d.rx \in Seq(Pkt) /\ d.tx \in Seq(Msg) /\ Told(d.tx) /\ d.view \in View
        /\ Queue(d.bulk_in) /\ Queue(d.bulk_out)
    BY <1>4, <1>7, <2>1, QueueEmpty
  <2>3. /\ d.u.attached \in BOOLEAN /\ d.connected \in BOOLEAN /\ d.intr_receiving \in BOOLEAN
        /\ d.ctrl_active \in BOOLEAN /\ d.ctrl_status \in {"ok", "stall"} /\ d.ctrl_id \in Nat
    <3>1. d.ctrl_id \in Nat
      BY <1>4
    <3> QED
      BY <1>4, <1>5, <3>1, Zenon
  <2> QED
    BY <1>4, <1>5, <1>6, <2>2, <2>3 DEF Plain
<1>9. Level(d) /\ Distinct(d) /\ Gone(d)
  BY <1>4, <1>5, <1>6, QueueEmpty DEF Level, Distinct, Gone, Class
<1>10. Sound(d, toDev, nreq)
  BY <1>4, <1>6, <1>7, <1>8, <1>9 DEF Sound
<1>11. toDev \in Seq(Pkt) /\ nreq \in Nat /\ sc \in Scenarios /\ pc = "idle"
  BY DEF Init
<1> QED
  BY <1>4, <1>6, <1>10, <1>11 DEF IInv, Wire

\* The stream is polled: the peer is still there, gone, or a new one.
LEMMA PollStep ==
    ASSUME Restricted, IInv, TickPoll
    PROVE  IInv' /\ Leaves(d, d')
<1>1. PICK r1 \in ChTickResults(d.ch) : \E r2 \in ChReadyResults(ChTick(d.ch, r1, 1)) :
           LET c2 == ChReady(ChTick(d.ch, r1, 1), r2) IN
           CASE ~IsReady(c2) ->
                  /\ d' = QuietDisconnect([d EXCEPT !.ch = c2])
                  /\ pc' = "idle"
                  /\ UNCHANGED <<toDev, eof, nreq, peers>>
             [] IsReady(c2) /\ IsReady(d.ch) ->
                  /\ d' = [d EXCEPT !.ch = c2]
                  /\ pc' = "hello"
                  /\ UNCHANGED <<toDev, eof, nreq, peers>>
             [] IsReady(c2) /\ ~IsReady(d.ch) ->
                  /\ NewPeer
                  /\ \E greeted \in BOOLEAN :
                       /\ toDev' = IF greeted THEN <<Packet0("hello")>> ELSE <<>>
                       /\ d' = [d EXCEPT !.ch = c2, !.view = [NewView EXCEPT !.greeted = greeted]]
                  /\ pc' = "hello"
  BY DEF TickPoll
<1>2. PICK r2 \in ChReadyResults(ChTick(d.ch, r1, 1)) :
           LET c2 == ChReady(ChTick(d.ch, r1, 1), r2) IN
           CASE ~IsReady(c2) ->
                  /\ d' = QuietDisconnect([d EXCEPT !.ch = c2])
                  /\ pc' = "idle"
                  /\ UNCHANGED <<toDev, eof, nreq, peers>>
             [] IsReady(c2) /\ IsReady(d.ch) ->
                  /\ d' = [d EXCEPT !.ch = c2]
                  /\ pc' = "hello"
                  /\ UNCHANGED <<toDev, eof, nreq, peers>>
             [] IsReady(c2) /\ ~IsReady(d.ch) ->
                  /\ NewPeer
                  /\ \E greeted \in BOOLEAN :
                       /\ toDev' = IF greeted THEN <<Packet0("hello")>> ELSE <<>>
                       /\ d' = [d EXCEPT !.ch = c2, !.view = [NewView EXCEPT !.greeted = greeted]]
                  /\ pc' = "hello"
  BY <1>1
<1> DEFINE c == ChReady(ChTick(d.ch, r1, 1), r2)
<1>3. /\ pc = "idle" /\ sc' = sc /\ Sound(d, toDev, nreq) /\ d.rx = <<>> /\ ~d.ch.new_peer
      /\ sc \in Scenarios /\ toDev \in Seq(Pkt) /\ nreq \in Nat
  BY DEF TickPoll, Idle, IInv, Wire
<1>4. Plain(d) /\ ChGood(d.ch) /\ Names \subseteq DOMAIN d
  BY <1>3 DEF Sound, Plain
<1>5. /\ ChGood(c) /\ (IsReady(d.ch) => c = d.ch)
      /\ (~IsReady(d.ch) /\ IsReady(c) => c.new_peer)
  BY <1>4, PollReady DEF Restricted
<1>6. \/ /\ ~IsReady(c) /\ d' = QuietDisconnect([d EXCEPT !.ch = c]) /\ pc' = "idle"
         /\ toDev' = toDev /\ nreq' = nreq
      \/ /\ IsReady(c) /\ IsReady(d.ch) /\ d' = [d EXCEPT !.ch = c] /\ pc' = "hello"
         /\ toDev' = toDev /\ nreq' = nreq
      \/ /\ IsReady(c) /\ ~IsReady(d.ch) /\ pc' = "hello" /\ nreq' = 0
         /\ \E b \in BOOLEAN :
              /\ toDev' = IF b THEN <<Packet0("hello")>> ELSE <<>>
              /\ d' = [d EXCEPT !.ch = c, !.view = [NewView EXCEPT !.greeted = b]]
  BY <1>2 DEF NewPeer
<1> HIDE DEF c
<1> DEFINE y == [d EXCEPT !.ch = c]
<1>7. Names \subseteq DOMAIN y /\ y.ch = c /\ \A f \in Names \ {"ch"} : y[f] = d[f]
  BY <1>4 DEF Names
<1>8. y.connected = d.connected
  BY <1>7 DEF Names
<1> HIDE DEF y
<1>9. CASE /\ ~IsReady(c) /\ d' = QuietDisconnect(y) /\ pc' = "idle"
           /\ toDev' = toDev /\ nreq' = nreq
  <2>1. ~Up(d) /\ Gone(d)
    BY <1>3, <1>5, <1>9 DEF Up, Sound
  <2>2. d' = y
    BY <1>8, <1>9, <2>1 DEF QuietDisconnect, Gone
  <2>3. ~c.new_peer
    BY <1>5, <1>9 DEF ChGood, IsReady, NoFd
  <2>4. (Up(y) <=> Up(d)) /\ y.ch.new_peer = d.ch.new_peer
    BY <1>3, <1>4, <1>5, <1>7, <1>9, <2>1, <2>3 DEF Up, ChGood, Channel
  <2>5. Sound(y, toDev, nreq) /\ Leaves(d, y) /\ y.rx = d.rx
    BY <1>3, <1>5, <1>7, <2>4, FieldSound
  <2> QED
    BY <1>3, <1>7, <1>9, <2>2, <2>3, <2>5 DEF IInv, Wire
<1>10. CASE /\ IsReady(c) /\ IsReady(d.ch) /\ d' = y /\ pc' = "hello"
            /\ toDev' = toDev /\ nreq' = nreq
  <2>1. (Up(y) <=> Up(d)) /\ y.ch.new_peer = d.ch.new_peer /\ Up(y) /\ ChGood(y.ch)
    BY <1>5, <1>7, <1>10 DEF Up
  <2>2. Sound(y, toDev, nreq) /\ Leaves(d, y) /\ y.rx = d.rx
    BY <1>3, <1>7, <2>1, FieldSound
  <2> QED
    BY <1>3, <1>10, <2>1, <2>2 DEF IInv, Wire, Handlers
<1>11. CASE /\ IsReady(c) /\ ~IsReady(d.ch) /\ pc' = "hello" /\ nreq' = 0
            /\ \E b \in BOOLEAN :
                 /\ toDev' = IF b THEN <<Packet0("hello")>> ELSE <<>>
                 /\ d' = [d EXCEPT !.ch = c, !.view = [NewView EXCEPT !.greeted = b]]
  <2>1. PICK b \in BOOLEAN :
             /\ toDev' = IF b THEN <<Packet0("hello")>> ELSE <<>>
             /\ d' = [d EXCEPT !.ch = c, !.view = [NewView EXCEPT !.greeted = b]]
    BY <1>11
  <2>2. toDev' \in Greeting
    BY <2>1 DEF Greeting
  <2>3. ~Up(d)
    BY <1>11 DEF Up
  <2>4. Sound(d', toDev', 0) /\ Leaves(d, d') /\ d'.rx = <<>> /\ d'.ch = c
    <3> DEFINE v == [NewView EXCEPT !.greeted = b]
    <3>1. /\ v \in View /\ v.owed = {} /\ v.stale = {} /\ ~v.bad /\ ~v.hello /\ ~v.offered
      BY DEF NewView, View
    <3>3. d' = [d EXCEPT !.ch = c, !.view = v]
      BY <2>1
    <3>2. ChGood(c) /\ IsReady(c) /\ c.new_peer
      BY <1>5, <1>11
    <3> HIDE DEF v
    <3>4. /\ Names \subseteq DOMAIN d' /\ d'.ch = c /\ d'.view = v
          /\ \A f \in Names \ {"ch", "view"} : d'[f] = d[f]
      BY <1>4, <3>3 DEF Names
    <3> QED
      BY <1>3, <2>2, <2>3, <3>1, <3>2, <3>4, NewPeerSound
  <2>5. Packet0("hello") \in Pkt
    BY AskPkt DEF Packet0
  <2>6. toDev' \in Seq(Pkt)
    <3> DEFINE P == Packet0("hello")
    <3>1. P \in Pkt /\ (toDev' = <<>> \/ toDev' = <<P>>)
      BY <2>2, <2>5 DEF Greeting
    <3> HIDE DEF P
    <3>2. <<P>> \in Seq(Pkt) /\ <<>> \in Seq(Pkt)
      BY <3>1
    <3> QED
      BY <3>1, <3>2, Zenon
  <2>7. Up(d')
    BY <1>11, <2>4 DEF Up
  <2> QED
    BY <1>3, <1>11, <2>4, <2>6, <2>7 DEF IInv, Wire, Handlers
<1> QED
  BY <1>6, <1>9, <1>10, <1>11 DEF y

\* The session starts and the socket is drained.
LEMMA HelloStep ==
    ASSUME IInv, TickHello
    PROVE  IInv' /\ Leaves(d, d')
<1>1. /\ pc = "hello" /\ sc' = sc /\ nreq' = nreq /\ toDev' = <<>> /\ sc \in Scenarios
      /\ Sound(d, toDev, nreq) /\ Up(d) /\ d.rx = <<>> /\ toDev \in Seq(Pkt) /\ nreq \in Nat
  BY DEF TickHello, IInv, Wire
<1>2. PICK e \in SessionStart(d) :
           IF eof \/ e.ch.fd = NoFd
           THEN d' = PeerLost(e) /\ pc' = "idle"
           ELSE d' = [e EXCEPT !.rx = @ \o toDev] /\ pc' = "rx"
  BY DEF TickHello
<1>3. /\ Sound(e, toDev, nreq) /\ ~e.ch.new_peer /\ e.rx = <<>> /\ Leaves(d, e)
      /\ Up(e) \/ e.ch.fd = NoFd
  BY <1>1, <1>2, SessionSound
<1>4. /\ Plain(e) /\ Level(e) /\ ~e.view.bad /\ Names \subseteq DOMAIN e
  BY <1>3 DEF Sound, Plain
<1>5. <<>> \in Seq(Pkt)
  OBVIOUS
<1>6. CASE d' = PeerLost(e) /\ pc' = "idle"
  <2>1. Left(e, d')
    BY <1>4, <1>6, LostLeft
  <2>2. /\ Sound(d', toDev', nreq') /\ ~Up(d') /\ ~d'.connected /\ ~d'.ch.new_peer
        /\ d'.rx = <<>>
    BY <1>4, <2>1, LeftSound
  <2>3. Leaves(d, d')
    BY <2>2 DEF Leaves
  <2> QED
    BY <1>1, <1>5, <1>6, <2>2, <2>3 DEF IInv, Wire
<1>7. CASE d' = [e EXCEPT !.rx = @ \o toDev] /\ pc' = "rx" /\ e.ch.fd # NoFd
  <2>1. e.rx \o toDev = toDev
    BY <1>1, <1>3
  <2>2. d' = [e EXCEPT !.rx = toDev]
    BY <1>7, <2>1
  <2>3. /\ Names \subseteq DOMAIN d' /\ d'.rx = toDev
        /\ d'.u = e.u /\ d'.ch = e.ch /\ d'.tx = e.tx /\ d'.view = e.view
        /\ d'.connected = e.connected /\ d'.intr_receiving = e.intr_receiving
        /\ d'.ctrl_active = e.ctrl_active /\ d'.ctrl_id = e.ctrl_id
        /\ d'.ctrl_status = e.ctrl_status
        /\ d'.bulk_in = e.bulk_in /\ d'.bulk_out = e.bulk_out
    BY <1>4, <2>2 DEF Names
  <2>4. Up(e) /\ Up(d')
    BY <1>3, <1>7, <2>3 DEF Up
  <2>5. Plain(d')
    BY <1>1, <1>4, <2>3 DEF Plain
  <2>6. Sound(d', toDev, nreq) /\ Leaves(e, d')
    BY <1>3, <2>3, <2>4, <2>5, SoundAlike
  <2>7. Leaves(d, d')
    BY <1>3, <2>3 DEF Leaves
  <2> QED
    BY <1>1, <1>3, <1>5, <1>7, <2>3, <2>6, <2>7 DEF IInv, Wire, Handlers
<1> QED
  BY <1>2, <1>6, <1>7

\* One packet of the peer is handled.
LEMMA RxStep ==
    ASSUME IInv, TickRx
    PROVE  IInv' /\ Leaves(d, d')
<1>1. /\ pc = "rx" /\ sc' = sc /\ nreq' = nreq /\ toDev' = toDev /\ sc \in Scenarios
      /\ Sound(d, d.rx, nreq) /\ ~d.ch.new_peer /\ toDev \in Seq(Pkt) /\ nreq \in Nat
      /\ toDev = <<>>
  BY DEF TickRx, Env, IInv, Wire
<1>2. CASE d.rx = <<>>
  <2>1. d' = d /\ pc' = "update"
    BY <1>2 DEF TickRx
  <2>2. Leaves(d, d')
    BY <2>1 DEF Leaves
  <2> QED
    BY <1>1, <1>2, <2>1, <2>2 DEF IInv, Wire, Handlers
<1>3. CASE d.rx # <<>>
  <2> DEFINE y == [d EXCEPT !.rx = Tail(@)]
             w == Tail(d.rx)
  <2>1. d' \in HandlePacket(y, Head(d.rx)) /\ pc' = IF d'.ch.fd = NoFd THEN "idle" ELSE "rx"
    BY <1>3 DEF TickRx
  <2>2. Up(d)
    BY <1>1, <1>3 DEF Sound, Gone
  <2>3. Works(d, nreq) /\ Polls(d) /\ Owns(d, d.rx) /\ Names \subseteq DOMAIN d
    BY <1>1, <2>2, SoundWorks DEF Works, Plain
  <2>4. Handled(y, d', w, nreq)
    BY <1>1, <1>3, <2>1, <2>3, PacketHandled
  <2>5. y.rx = w /\ y.bulk_in = d.bulk_in /\ y.bulk_out = d.bulk_out
    BY <2>3 DEF Names
  <2> HIDE DEF y, w
  <2>6. Sound(d', w, nreq) /\ ~d'.ch.new_peer /\ (Up(d') => d'.rx = w)
    BY <2>4, <2>5 DEF Handled
  <2>7. Leaves(d, d')
    BY <2>4, <2>5 DEF Handled, Leaves
  <2>8. Sound(d', d'.rx, nreq) /\ (~Up(d') => d'.rx = <<>>)
    <3>1. CASE Up(d')
      BY <2>6, <3>1
    <3>2. CASE ~Up(d')
      BY <2>6, <3>2, SoundAny DEF Sound, Gone
    <3> QED
      BY <3>1, <3>2
  <2>9. d'.ch.fd = NoFd => ~Up(d')
    BY DEF Up, IsReady
  <2> QED
    BY <1>1, <2>1, <2>6, <2>7, <2>8, <2>9 DEF IInv, Wire, Handlers
<1> QED
  BY <1>2, <1>3

\* The other handlers: their packets are all read.
LEMMA AfterHandler ==
    ASSUME IInv, pc \notin {"idle", "hello", "rx", "off"}, Handled(d, d', <<>>, nreq),
           UNCHANGED Env, pc' \in {"ctrl", "out", "in", "intr", "flush", "idle"}
    PROVE  IInv' /\ Leaves(d, d')
<1>1. /\ d.rx = <<>> /\ toDev = <<>> /\ toDev \in Seq(Pkt) /\ nreq \in Nat /\ sc \in Scenarios
      /\ toDev' = toDev /\ nreq' = nreq /\ sc' = sc
  BY DEF IInv, Env, Handlers
<1>2. Sound(d', toDev', nreq') /\ ~d'.ch.new_peer /\ Leaves(d, d')
  BY <1>1 DEF Handled
<1>3. d'.rx = <<>>
  BY <1>1, <1>2 DEF Handled, Sound, Gone
<1> QED
  BY <1>1, <1>2, <1>3 DEF IInv, Wire, Handlers

\* The other handlers of the tick.
LEMMA HandlerStep ==
    ASSUME Restricted, IInv,
           TickUpdate \/ TickCtrl \/ TickOut \/ TickIn \/ TickIntr \/ TickFlush
    PROVE  IInv' /\ Leaves(d, d')
<1>1. /\ pc \in {"update", "ctrl", "out", "in", "intr", "flush"} /\ UNCHANGED Env
  BY DEF TickUpdate, TickCtrl, TickOut, TickIn, TickIntr, TickFlush
<1> DEFINE w == d.rx
<1>2. /\ w \in Seq(Pkt) /\ w = <<>> /\ Sound(d, w, nreq) /\ ~d.ch.new_peer /\ nreq \in Nat
      /\ sc \in Scenarios
  BY <1>1 DEF IInv, Wire, Sound, Plain
<1>3. "update" \notin sc.fails /\ "out" \notin sc.fails /\ "in" \notin sc.fails
  BY <1>2 DEF Restricted
<1> HIDE DEF w
<1>4. Handled(d, d, w, nreq)
  BY <1>2, StillHandled
<1>5. ASSUME d.bulk_in # <<>> \/ d.bulk_out # <<>>
      PROVE  Works(d, nreq) /\ Polls(d) /\ Owns(d, w)
  <2>1. Up(d)
    BY <1>2, <1>5 DEF Sound, Gone, Level
  <2> QED
    BY <1>2, <2>1, SoundWorks
<1>6. Handled(d, d', w, nreq) /\ pc' \in {"ctrl", "out", "in", "intr", "flush", "idle"}
  <2>1. CASE TickUpdate
    BY <1>2, <1>3, <2>1, UpdateHandled DEF TickUpdate
  <2>2. CASE TickCtrl
    BY <1>2, <2>2, CtrlHandled DEF TickCtrl
  <2>3. CASE TickOut
    <3>1. CASE CanService(d, "bulk_out")
      <4>1. d.bulk_out # <<>>
        BY <3>1 DEF CanService
      <4>2. Works(d, nreq) /\ Polls(d) /\ Owns(d, w)
        BY <1>5, <4>1
      <4>3. d' \in ServiceOut(d) /\ pc' = "out"
        BY <2>3, <3>1 DEF TickOut
      <4> QED
        BY <1>2, <1>3, <3>1, <4>2, <4>3, OutHandled
    <3>2. CASE ~CanService(d, "bulk_out")
      BY <1>4, <2>3, <3>2 DEF TickOut
    <3> QED
      BY <3>1, <3>2
  <2>4. CASE TickIn
    <3>1. CASE CanService(d, "bulk_in")
      <4>1. d.bulk_in # <<>>
        BY <3>1 DEF CanService
      <4>2. Works(d, nreq) /\ Polls(d) /\ Owns(d, w)
        BY <1>5, <4>1
      <4>3. d' \in ServiceIn(d) /\ pc' = "in"
        BY <2>4, <3>1 DEF TickIn
      <4> QED
        BY <1>2, <1>3, <3>1, <4>2, <4>3, InHandled
    <3>2. CASE ~CanService(d, "bulk_in")
      BY <1>4, <2>4, <3>2 DEF TickIn
    <3> QED
      BY <3>1, <3>2
  <2>5. CASE TickIntr
    BY <1>2, <2>5, IntrHandled DEF TickIntr
  <2>6. CASE TickFlush
    BY <1>2, <2>6, FlushHandled DEF TickFlush
  <2> QED
    BY <2>1, <2>2, <2>3, <2>4, <2>5, <2>6
<1>7. Handled(d, d', <<>>, nreq)
  BY <1>2, <1>6
<1> QED
  BY <1>1, <1>6, <1>7, AfterHandler

\* usbredir_dev_shutdown tells the peer and closes the stream.
LEMMA ShutdownStep ==
    ASSUME IInv, Shutdown
    PROVE  IInv' /\ Leaves(d, d')
<1> DEFINE w == toDev
           k == nreq
           h == "flush"
<1>1. /\ pc = "idle" /\ pc' = "off" /\ sc' = sc /\ k' = k /\ w' = w
      /\ sc \in Scenarios /\ w \in Seq(Pkt) /\ k \in Nat
      /\ Sound(d, w, k) /\ ~d.ch.new_peer
  BY DEF Shutdown, Idle, Env, IInv, Wire
<1>2. PICK e \in IF IsReady(d.ch)
                 THEN UNION {FlushTx(y, h) : y \in Disconnect(d, TRUE, h)}
                 ELSE {d} :
           d' = [DropTransfers(e) EXCEPT !.ch = ChClose(@), !.rx = <<>>, !.tx = <<>>]
  BY DEF Shutdown
<1> HIDE DEF w, k, h
<1>3. Plain(d) /\ Level(d) /\ ~d.view.bad
  BY <1>1 DEF Sound
<1>4. Plain(e) /\ ~e.view.bad /\ ~e.connected
  <2>1. CASE ~IsReady(d.ch)
    BY <1>1, <1>2, <1>3, <2>1 DEF Sound, Gone, Up
  <2>2. CASE IsReady(d.ch)
    <3>1. PICK y \in Disconnect(d, TRUE, h) : e \in FlushTx(y, h)
      BY <1>2, <2>2
    <3>2. Works(d, k) /\ Polls(d) /\ Owns(d, w)
      BY <1>1, <2>2, SoundWorks DEF Up
    <3>3. ASSUME Handled(d, y, w, k), ~y.connected PROVE Plain(e) /\ ~e.view.bad /\ ~e.connected
      <4>1. Sound(y, w, k) /\ ~y.ch.new_peer
        BY <3>3 DEF Handled
      <4>2. Handled(y, e, w, k)
        BY <1>1, <3>1, <4>1, FlushHandled
      <4>3. Plain(e) /\ ~e.view.bad
        BY <4>2 DEF Handled, Sound
      <4>4. ~e.connected
        <5>1. CASE Written(y, e, Final(y))
          BY <3>3, <4>1, <5>1, WrittenFields DEF Sound
        <5>2. CASE e = PeerLost(y)
          BY <4>1, <5>2, LostLeft DEF Sound, Left, Gone
        <5> QED
          BY <3>1, <4>1, <5>1, <5>2, FlushOutcome DEF Sound
      <4> QED
        BY <4>3, <4>4
    <3>4. CASE ~d.connected
      <4>1. y = d
        BY <3>1, <3>4 DEF Disconnect
      <4> QED
        BY <1>1, <3>3, <3>4, <4>1, StillHandled
    <3>5. CASE d.connected
      <4>1. \/ Handled(d, y, w, k) /\ ~y.connected
            \/ Plain(y) /\ Gone(y) /\ ~y.view.bad
        BY <1>1, <3>1, <3>2, <3>5, DisconnectOutcome
      <4>2. ASSUME Plain(y), Gone(y), ~y.view.bad PROVE Plain(e) /\ ~e.view.bad /\ ~e.connected
        <5>1. CASE Written(y, e, Final(y))
          <6>1. Final(y) = y.view
            BY <4>2, ReadsEmpty DEF Gone, Final, Plain
          <6>2. ~e.view.bad
            BY <4>2, <5>1, <6>1 DEF Written
          <6> QED
            BY <4>2, <5>1, <6>2, WrittenFields DEF Gone
        <5>2. CASE e = PeerLost(y)
          BY <4>2, <5>2, LostLeft DEF Left, Gone
        <5> QED
          BY <3>1, <4>2, <5>1, <5>2, FlushOutcome
      <4> QED
        BY <3>3, <4>1, <4>2
    <3> QED
      BY <3>4, <3>5
  <2> QED
    BY <2>1, <2>2
<1>5. Names \subseteq DOMAIN e /\ ChGood(e.ch)
  BY <1>4 DEF Plain
<1>6. d'.ch = ChClose(e.ch) /\ d'.rx = <<>> /\ d'.view = e.view /\ d'.connected = e.connected
  BY <1>2, <1>5 DEF DropTransfers, Names
<1>7. ~Up(d') /\ ~d'.ch.new_peer
  BY <1>5, <1>6 DEF ChClose, ChGood, Channel, Up, IsReady, NoFd
<1>8. Leaves(d, d')
  BY <1>4, <1>6 DEF Leaves
<1>9. IInv'
  BY <1>1, <1>4, <1>6, <1>7 DEF IInv, w, k
<1> QED
  BY <1>8, <1>9

\* The guest between ticks.
LEMMA GuestStepInv ==
    ASSUME IInv, GuestStep \/ GuestReadsOut \/ GuestReadsSetup \/ GuestAnswersSetup
    PROVE  IInv' /\ Leaves(d, d')
<1>1. /\ pc = "idle" /\ pc' = pc /\ sc' = sc /\ nreq' = nreq /\ toDev' = toDev
  BY DEF GuestStep, GuestReadsOut, GuestReadsSetup, GuestAnswersSetup, Idle, Env
<1>2. /\ sc \in Scenarios /\ toDev \in Seq(Pkt) /\ nreq \in Nat
      /\ Sound(d, toDev, nreq) /\ ~d.ch.new_peer /\ d.rx = <<>>
  BY <1>1 DEF IInv, Wire
<1>3. UShape(d.u) /\ d.u.done = <<>>
  BY <1>2 DEF Sound, Plain
<1>4. \E v : Ended(d.u, v) /\ d' = Access(d, v)
  <2>1. CASE GuestStep
    BY <1>3, <2>1, GuestEnds DEF GuestStep, GuestBrings, GuestSendsData, Does
  <2>2. CASE GuestReadsOut \/ GuestReadsSetup \/ GuestAnswersSetup
    BY <1>3, <2>2, GuestEnds DEF GuestReadsOut, GuestReadsSetup, GuestAnswersSetup, Does
  <2> QED
    BY <2>1, <2>2
<1>5. Sound(d', toDev, nreq) /\ Leaves(d, d') /\ d'.rx = d.rx /\ d'.ch = d.ch
  BY <1>2, <1>4, AccessSound
<1> QED
  BY <1>1, <1>2, <1>5 DEF IInv, Wire

\* The cable, the poll interval and the redial interval.
LEMMA WorldStep ==
    ASSUME IInv, SetPresent \/ TimePasses
    PROVE  IInv' /\ Leaves(d, d')
<1>1. /\ pc = "idle" /\ pc' = pc /\ sc' = sc /\ nreq' = nreq /\ toDev' = toDev
  BY DEF SetPresent, TimePasses, Idle, Env
<1>2. /\ sc \in Scenarios /\ toDev \in Seq(Pkt) /\ nreq \in Nat
      /\ Sound(d, toDev, nreq) /\ ~d.ch.new_peer /\ d.rx = <<>>
  BY <1>1 DEF IInv, Wire
<1>3. Names \subseteq DOMAIN d /\ ChGood(d.ch)
  BY <1>2 DEF Sound, Plain
<1>4. /\ Names \subseteq DOMAIN d' /\ \A f \in Names \ {"present", "intr_due", "ch"} : d'[f] = d[f]
      /\ d'.ch = d.ch \/ d'.ch = [d.ch EXCEPT !.due = TRUE]
  <2>1. CASE SetPresent
    <3>1. PICK b : d' = [d EXCEPT !.present = b]
      BY <2>1 DEF SetPresent
    <3> QED
      BY <1>3, <3>1 DEF Names
  <2>2. CASE TimePasses
    <3> DEFINE c == [d.ch EXCEPT !.due = TRUE]
    <3>1. d' = [d EXCEPT !.intr_due = TRUE, !.ch = c]
      BY <2>2 DEF TimePasses
    <3> HIDE DEF c
    <3>2. Names \subseteq DOMAIN d' /\ d'.ch = c
          /\ \A f \in Names \ {"present", "intr_due", "ch"} : d'[f] = d[f]
      BY <1>3, <3>1 DEF Names
    <3> QED
      BY <3>2 DEF c
  <2> QED
    BY <2>1, <2>2
<1>5. ChGood(d'.ch) /\ (Up(d') <=> Up(d)) /\ d'.ch.new_peer = d.ch.new_peer
  BY <1>3, <1>4 DEF ChGood, Channel, Up, IsReady
<1>6. Sound(d', toDev, nreq) /\ Leaves(d, d') /\ d'.rx = d.rx
  BY <1>2, <1>4, <1>5, FieldSound
<1> QED
  BY <1>1, <1>2, <1>5, <1>6 DEF IInv, Wire

\* A packet of the peer that is here
LEMMA ArrivesStep ==
    ASSUME IInv, PeerThere, pc' = pc, sc' = sc,
           NEW how \in {"greets", "asks", "class", "resets"}, NEW p \in Pkt, Arrives(p),
           how = "greets" => (p.t = "cancel" \/ p.id = 0) /\ p.t # "reset",
           how = "asks"   => p.id = nreq + 1 /\ p.t # "cancel" /\ p.t # "class",
           how = "class"  => p.id = nreq + 1 /\ p.t = "class",
           how = "resets" => p.id = 0,
           NEW a \in View, Differ(how, nreq + 1, d.view, a),
           how \in {"asks", "class"} => a.owed = d.view.owed \cup {nreq + 1} /\ a.stale = d.view.stale,
           nreq' \in {nreq, nreq + 1}, how \in {"asks", "class"} => nreq' = nreq + 1,
           Names \subseteq DOMAIN d', d'.view = a, \A f \in Names \ {"view"} : d'[f] = d[f]
    PROVE  IInv' /\ Leaves(d, d')
<1>1. /\ pc = "idle" /\ Up(d) /\ sc \in Scenarios /\ toDev \in Seq(Pkt) /\ nreq \in Nat
      /\ Sound(d, toDev, nreq) /\ ~d.ch.new_peer /\ d.rx = <<>>
  BY DEF PeerThere, Idle, Up, IInv, Wire
<1>2. /\ Sound(d', Append(toDev, p), nreq') /\ Leaves(d, d') /\ d'.rx = d.rx /\ d'.ch = d.ch
  BY <1>1, PeerSound
<1>3. toDev' = Append(toDev, p) /\ toDev' \in Seq(Pkt) /\ nreq' \in Nat
  BY <1>1 DEF Arrives
<1> QED
  BY <1>1, <1>2, <1>3 DEF IInv, Wire

\* The peer says hello.
LEMMA GreetsStep ==
    ASSUME IInv, PeerGreets
    PROVE  IInv' /\ Leaves(d, d')
<1> DEFINE a == [d.view EXCEPT !.greeted = TRUE]
           p == Packet0("hello")
<1>1. /\ PeerThere /\ Arrives(p) /\ d' = [d EXCEPT !.view = a]
      /\ pc' = pc /\ sc' = sc /\ nreq' = nreq
  BY DEF PeerGreets
<1>2. d.view \in View /\ Names \subseteq DOMAIN d /\ nreq \in Nat
  BY <1>1 DEF PeerThere, Idle, IInv, Wire, Sound, Plain
<1>3. a \in View /\ Differ("greets", nreq + 1, d.view, a)
  BY <1>2 DEF View, Differ
<1>4. p \in Pkt /\ p.id = 0 /\ p.t = "hello"
  BY AskPkt DEF Packet0, Ask
<1> HIDE DEF a, p
<1>5. Names \subseteq DOMAIN d' /\ d'.view = a /\ \A f \in Names \ {"view"} : d'[f] = d[f]
  BY <1>1, <1>2 DEF Names
<1> DEFINE how == "greets"
<1>6. /\ how = "greets" /\ how \in {"greets", "asks", "class", "resets"}
      /\ Differ(how, nreq + 1, d.view, a)
  BY <1>3
<1> HIDE DEF how
<1> QED
  BY <1>1, <1>3, <1>4, <1>5, <1>6, ArrivesStep

\* The peer makes a request that is answered.
LEMMA AsksStep ==
    ASSUME IInv, PeerThere, pc' = pc, sc' = sc, nreq' = nreq + 1, PeerAsks
    PROVE  IInv' /\ Leaves(d, d')
<1> DEFINE c == nreq + 1
           a1 == [d.view EXCEPT !.owed = @ \cup {c}]
           a2 == [a1 EXCEPT !.ctl = c]
<1>1. /\ d.view \in View /\ Names \subseteq DOMAIN d /\ nreq \in Nat /\ sc \in Scenarios
  BY DEF PeerThere, Idle, IInv, Wire, Sound, Plain
<1>2. sc \in ScenarioType
  BY <1>1, RedirAssumption
<1>3. \/ \E t \in AllReqs \ {"reset", "oversized", "cancel", "class"} : \E n \in Nat :
            Arrives(Ask(t, c, n)) /\ d' = [d EXCEPT !.view = a1]
      \/ d.view.ctl = 0 /\ Arrives(Ask("class", c, 0)) /\ d' = [d EXCEPT !.view = a2]
  <2>1. CASE \E t \in sc.reqs \cap {"config", "query", "start_intr", "stop_intr"} :
                Arrives(Ask(t, c, 0)) /\ d' = Owed(c)
    <3>1. PICK t \in {"config", "query", "start_intr", "stop_intr"} :
               Arrives(Ask(t, c, 0)) /\ d' = Owed(c)
      BY <2>1
    <3>2. t \in AllReqs \ {"reset", "oversized", "cancel", "class"} /\ 0 \in Nat
      BY DEF AllReqs
    <3> QED
      BY <3>1, <3>2 DEF Owed
  <2>2. CASE /\ d.view.ctl = 0 /\ Arrives(Ask("class", c, 0))
             /\ d' = [Owed(c) EXCEPT !.view.ctl = c]
    BY <1>1, <2>2 DEF Owed, Names
  <2>3. CASE \E t \in sc.reqs \cap {"bulk_out", "bulk_in"} : \E n \in sc.lens :
                Arrives(Ask(t, c, n)) /\ d' = Owed(c)
    <3>1. PICK t \in {"bulk_out", "bulk_in"}, n \in sc.lens :
               Arrives(Ask(t, c, n)) /\ d' = Owed(c)
      BY <2>3
    <3>2. t \in AllReqs \ {"reset", "oversized", "cancel", "class"}
      BY DEF AllReqs
    <3>3. n \in Nat
      BY <1>2 DEF ScenarioType
    <3> QED
      BY <3>1, <3>2, <3>3 DEF Owed
  <2> QED
    BY <2>1, <2>2, <2>3 DEF PeerAsks
<1>4. a1 \in View /\ a1.owed = d.view.owed \cup {c} /\ a1.stale = d.view.stale
      /\ Differ("asks", c, d.view, a1)
  BY <1>1 DEF View, Differ, Joins
<1> HIDE DEF a1
<1>5. a2 \in View /\ a2.owed = d.view.owed \cup {c} /\ a2.stale = d.view.stale
      /\ (d.view.ctl = 0 => Differ("class", c, d.view, a2))
  <2>1. a2 \in View
    BY <1>1, <1>4 DEF View
  <2>2. /\ a2.owed = a1.owed /\ a2.stale = a1.stale /\ a2.ctl = c
        /\ a2.greeted = a1.greeted /\ a2.hello = a1.hello /\ a2.offered = a1.offered
        /\ a2.intr = a1.intr /\ a2.bad = a1.bad
    BY <1>4 DEF View
  <2> HIDE DEF a2
  <2> QED
    BY <1>4, <2>1, <2>2 DEF Differ, Joins
<1> HIDE DEF a2
<1>6. CASE \E t \in AllReqs \ {"reset", "oversized", "cancel", "class"} : \E n \in Nat :
              Arrives(Ask(t, c, n)) /\ d' = [d EXCEPT !.view = a1]
  <2>1. PICK t \in AllReqs \ {"reset", "oversized", "cancel", "class"}, n \in Nat :
             Arrives(Ask(t, c, n)) /\ d' = [d EXCEPT !.view = a1]
    BY <1>6
  <2> DEFINE p == Ask(t, c, n)
             how == "asks"
  <2>2. p \in Pkt /\ p.id = c /\ p.t = t
    <3>1. t \in AllReqs \cup {"hello"} /\ c \in Nat /\ (c = 0 <=> t \in {"hello", "reset", "oversized"})
      BY <1>1 DEF AllReqs
    <3> QED
      BY <3>1, AskPkt DEF Ask
  <2>3. p.t # "cancel" /\ p.t # "class" /\ Arrives(p)
    BY <2>1, <2>2
  <2>4. /\ how = "asks" /\ how \in {"greets", "asks", "class", "resets"}
        /\ Differ(how, nreq + 1, d.view, a1)
    BY <1>4
  <2>5. Names \subseteq DOMAIN d' /\ d'.view = a1 /\ \A f \in Names \ {"view"} : d'[f] = d[f]
    BY <1>1, <2>1 DEF Names
  <2> HIDE DEF p, how
  <2> QED
    BY <1>4, <2>2, <2>3, <2>4, <2>5, ArrivesStep
<1>7. CASE d.view.ctl = 0 /\ Arrives(Ask("class", c, 0)) /\ d' = [d EXCEPT !.view = a2]
  <2> DEFINE p == Ask("class", c, 0)
             how == "class"
  <2>1. p \in Pkt /\ p.id = c /\ p.t = "class" /\ Arrives(p)
    <3>1. "class" \in AllReqs \cup {"hello"} /\ c \in Nat /\ c # 0 /\ 0 \in Nat
      BY <1>1 DEF AllReqs
    <3> QED
      BY <1>7, <3>1, AskPkt DEF Ask
  <2>2. /\ how = "class" /\ how \in {"greets", "asks", "class", "resets"}
        /\ Differ(how, nreq + 1, d.view, a2)
    BY <1>5, <1>7
  <2>3. Names \subseteq DOMAIN d' /\ d'.view = a2 /\ \A f \in Names \ {"view"} : d'[f] = d[f]
    BY <1>1, <1>7 DEF Names
  <2> HIDE DEF p, how
  <2> QED
    BY <1>5, <2>1, <2>2, <2>3, ArrivesStep
<1> QED
  BY <1>3, <1>6, <1>7

\* The peer resets the bus, cancels, or sends a packet that is too long.
LEMMA TellsStep ==
    ASSUME IInv, PeerThere, pc' = pc, sc' = sc, nreq' = nreq + 1, PeerTells
    PROVE  IInv' /\ Leaves(d, d')
<1> DEFINE v == d.view
           a == [v EXCEPT !.stale = @ \cup v.owed, !.owed = {}, !.ctl = 0]
<1>1. /\ v \in View /\ Names \subseteq DOMAIN d /\ nreq \in Nat /\ Up(d) /\ d.ch.new_peer = FALSE
      /\ Sound(d, toDev, nreq)
  BY DEF PeerThere, Idle, IInv, Wire, Sound, Plain, Up, ChGood, Channel
<1>2. v.owed \subseteq 1..nreq
  BY <1>1 DEF Sound, Agrees
<1>3. Differ("greets", nreq + 1, v, v)
  BY DEF Differ
<1>4. a \in View /\ Differ("resets", nreq + 1, v, a)
  BY <1>1 DEF View, Differ
<1> HIDE DEF a, v
<1>5. CASE Arrives(Packet0("reset")) /\ d' = [d EXCEPT !.view = a]
  <2> DEFINE p == Packet0("reset")
             how == "resets"
  <2>1. p \in Pkt /\ p.id = 0 /\ Arrives(p)
    BY <1>5, AskPkt DEF Packet0, Ask, AllReqs
  <2>2. /\ how = "resets" /\ how \in {"greets", "asks", "class", "resets"}
        /\ Differ(how, nreq + 1, d.view, a)
    BY <1>4 DEF v
  <2>3. Names \subseteq DOMAIN d' /\ d'.view = a /\ \A f \in Names \ {"view"} : d'[f] = d[f]
    BY <1>1, <1>5 DEF Names
  <2> HIDE DEF p, how
  <2> QED
    BY <1>4, <2>1, <2>2, <2>3, ArrivesStep
<1>6. ASSUME NEW p \in Pkt, p.t # "reset", p.t = "cancel" \/ p.id = 0, Arrives(p), d' = d
      PROVE  IInv' /\ Leaves(d, d')
  <2> DEFINE how == "greets"
  <2>1. /\ how = "greets" /\ how \in {"greets", "asks", "class", "resets"}
        /\ Differ(how, nreq + 1, d.view, v)
    BY <1>3 DEF v
  <2>2. Names \subseteq DOMAIN d' /\ d'.view = v /\ \A f \in Names \ {"view"} : d'[f] = d[f]
    BY <1>1, <1>6 DEF v
  <2> HIDE DEF how
  <2> QED
    BY <1>1, <1>6, <2>1, <2>2, ArrivesStep
<1>7. CASE (\E id \in d.view.owed : Arrives(Ask("cancel", id, 0))) /\ d' = d
  <2>1. PICK id \in v.owed : Arrives(Ask("cancel", id, 0))
    BY <1>7 DEF v
  <2>2. id \in Nat /\ id # 0
    BY <1>1, <1>2
  <2> DEFINE p == Ask("cancel", id, 0)
  <2>3. p \in Pkt /\ p.t = "cancel"
    BY <2>2, AskPkt DEF Ask, AllReqs
  <2>4. Arrives(p)
    BY <2>1
  <2> HIDE DEF p
  <2> QED
    BY <1>6, <1>7, <2>3, <2>4
<1>8. CASE Arrives(Packet0("oversized")) /\ d' = d
  <2> DEFINE p == Packet0("oversized")
  <2>1. p \in Pkt /\ p.id = 0 /\ p.t = "oversized"
    BY AskPkt DEF Packet0, Ask, AllReqs
  <2>2. Arrives(p)
    BY <1>8
  <2> HIDE DEF p
  <2> QED
    BY <1>6, <1>8, <2>1, <2>2
<1>9. [d EXCEPT !.view.stale = @ \cup d.view.owed, !.view.owed = {}, !.view.ctl = 0]
        = [d EXCEPT !.view = a]
  BY <1>1 DEF Names, a, v
<1> QED
  BY <1>5, <1>7, <1>8, <1>9 DEF PeerTells

\* The peer closes its end.
LEMMA LeavesStep ==
    ASSUME IInv, PeerLeaves
    PROVE  IInv' /\ Leaves(d, d')
<1>1. d' = d /\ pc' = pc /\ toDev' = toDev /\ nreq' = nreq /\ sc' = sc
  BY DEF PeerLeaves
<1>2. Leaves(d, d')
  BY <1>1 DEF Leaves
<1> QED
  BY <1>1, <1>2 DEF IInv, Wire

--------------------------------------------------------------------------------
(* The invariant and what follows from it.                                 *)

\* Every step keeps the invariant, and no transfer leaves unanswered.
LEMMA Step ==
    ASSUME Restricted, IInv, [Next]_vars
    PROVE  IInv' /\ Leaves(d, d')
<1>1. CASE Tick
  BY <1>1, PollStep, HelloStep, RxStep, HandlerStep DEF Tick
<1>2. CASE Shutdown
  BY <1>2, ShutdownStep
<1>3. CASE PeerGreets
  BY <1>3, GreetsStep
<1>4. CASE PeerRequests
  <2>1. PeerThere /\ pc' = pc /\ sc' = sc /\ nreq' = nreq + 1 /\ (PeerAsks \/ PeerTells)
    BY <1>4 DEF PeerRequests
  <2> QED
    BY <2>1, AsksStep, TellsStep
<1>5. CASE PeerLeaves
  BY <1>5, LeavesStep
<1>6. CASE GuestStep \/ GuestReadsOut \/ GuestReadsSetup \/ GuestAnswersSetup
  BY <1>6, GuestStepInv
<1>7. CASE SetPresent \/ TimePasses
  BY <1>7, WorldStep
<1>8. CASE UNCHANGED vars
  <2>1. d' = d /\ pc' = pc /\ toDev' = toDev /\ nreq' = nreq /\ sc' = sc
    BY <1>8 DEF vars
  <2>2. Leaves(d, d')
    BY <2>1 DEF Leaves
  <2> QED
    BY <2>1, <2>2 DEF IInv, Wire
<1> QED
  BY <1>1, <1>2, <1>3, <1>4, <1>5, <1>6, <1>7, <1>8 DEF Next

--------------------------------------------------------------------------------
(* What follows from it.                                                   *)

\* The invariant holds in every behaviour.
LEMMA InvHolds ==
    ASSUME Restricted
    PROVE  Spec => [](IInv) /\ [][Leaves(d, d')]_vars
<1>1. Init => IInv
  BY InitInv
<1>2. IInv /\ [Next]_vars => IInv' /\ Leaves(d, d')
  BY Step
<1>3. IInv /\ [Next]_vars => IInv' /\ [Leaves(d, d')]_vars
  BY <1>2
<1> QED
  BY <1>1, <1>3, PTL DEF Spec

(***************************************************************************)
(* For queues and FIFOs of any size, every kind of stream and any requests:*)
(* what the device tells a peer is a usbredir session, however the peer's  *)
(* packets, the guest's accesses, lost peers and short writes fall.  Every *)
(* answer of the handlers is to a request that had none, because what they *)
(* hold is what the peer has asked for and still may be told about.        *)
(***************************************************************************)
THEOREM ProtocolSpoken ==
    ASSUME Restricted
    PROVE  Spec => []PeerSeesProtocol
<1>1. IInv => PeerSeesProtocol
  BY DEF IInv, Sound, PeerSeesProtocol
<1> QED
  BY <1>1, InvHolds, PTL

(***************************************************************************)
(* Between ticks the controller is attached exactly while the device is    *)
(* connected (update_connection, device_disconnect, peer_lost), and once the*)
(* buffer is out the peer has been told so.                                *)
(***************************************************************************)
THEOREM ViewsAgree ==
    ASSUME Restricted
    PROVE  Spec => []ViewAgrees
<1>1. ASSUME IInv, Idle PROVE d.connected = d.u.attached /\ (d.connected => IsReady(d.ch))
  <2>1. Sound(d, Wire, nreq)
    BY <1>1 DEF IInv, Idle
  <2> QED
    BY <2>1 DEF Sound, Level, Gone, Up
<1>2. ASSUME IInv, Idle, Live, d.tx = <<>> PROVE d.view.offered = d.connected
  <2>1. Sound(d, Wire, nreq) /\ Up(d)
    BY <1>2 DEF IInv, Idle, Live, Up
  <2>2. d.view \in View /\ Final(d).offered = d.connected
    BY <2>1 DEF Sound, Plain, Agrees
  <2>3. Final(d) = d.view
    BY <1>2, <2>2, ReadsEmpty DEF Final
  <2> QED
    BY <2>2, <2>3
<1>3. IInv => ViewAgrees
  BY <1>1, <1>2 DEF ViewAgrees
<1> QED
  BY <1>3, InvHolds, PTL

(***************************************************************************)
(* A transfer leaves a bulk queue (queue_pop, queue_remove, drop_transfers)*)
(* only with an answer on its way, unless the device is disconnected or the*)
(* peer has given it up by a reset.                                        *)
(***************************************************************************)
THEOREM LeavingIsAnswered ==
    ASSUME Restricted
    PROVE  Spec => LeavesAnswered
<1>1. Leaves(d, d') => \A q \in {"bulk_in", "bulk_out"} :
                          \A id \in Ids(d[q]) \ Ids(d'[q]) : ~d'.connected \/ Answers(id)
  BY DEF Leaves, Answers, TxIds
<1>2. [Leaves(d, d')]_vars =>
        [\A q \in {"bulk_in", "bulk_out"} :
            \A id \in Ids(d[q]) \ Ids(d'[q]) : ~d'.connected \/ Answers(id)]_vars
  BY <1>1
<1> QED
  BY <1>2, InvHolds, PTL DEF LeavesAnswered

Lone(S) == \A x, y \in S : x = y

\* A set whose elements are all equal has one.
LEMMA LoneIs ==
    ASSUME NEW S, Lone(S), S # {}
    PROVE  \E x : S = {x}
<1>1. PICK x \in S : TRUE
  OBVIOUS
<1>2. \A y \in S : y = x
  BY DEF Lone
<1> QED
  BY <1>1, <1>2

\* The places where a request that is held once can be
LEMMA HeldOnce ==
    ASSUME IInv, Live, NEW id \in Nat \ {0}
    PROVE  /\ Cardinality(Holders(id)) <= 1
           /\ id \in d.view.owed => Holders(id) # {} \/ Withdrawing
<1> DEFINE w == Wire
           F == Final(d)
           W == Asks(toDev, id)
           R == Asks(d.rx, id)
           T == Asks(d.tx, id)
           I == {i \in DOMAIN d.bulk_in : d.bulk_in[i].id = id}
           O == {i \in DOMAIN d.bulk_out : d.bulk_out[i].id = id}
           P == {<<"ctrl", 0>> : c \in {x \in {TRUE} : d.ctrl_active /\ d.ctrl_id = id}}
<1>1. /\ Sound(d, w, nreq) /\ Up(d)
      /\ w \in Seq(Pkt)
      /\ (toDev = w /\ d.rx = <<>>) \/ (d.rx = w /\ toDev = <<>>)
  <2>1. Up(d) /\ pc # "off"
    BY DEF Live, Up, IInv
  <2>2. Sound(d, w, nreq) /\ toDev \in Seq(Pkt)
    BY <2>1 DEF IInv
  <2>3. d.rx \in Seq(Pkt)
    BY <2>2 DEF Sound, Plain
  <2> QED
    BY <2>1, <2>2, <2>3 DEF IInv, Wire
<1>2. /\ Fits(Kept(d), Class(d), d.view.owed, F, w) /\ ~F.bad
      /\ d.tx \in Seq(Msg) /\ Told(d.tx) /\ d.view \in View
      /\ Queue(d.bulk_in) /\ Queue(d.bulk_out) /\ Distinct(d)
  BY <1>1 DEF Sound, Agrees, Plain
<1>3. After(d.view, F, d.tx, Len(d.tx))
  BY <1>2, ReadsAfter DEF Final
<1>4. /\ DOMAIN d.tx = 1..Len(d.tx) /\ Len(d.tx) \in Nat
      /\ DOMAIN d.bulk_in = 1..Len(d.bulk_in) /\ DOMAIN d.bulk_out = 1..Len(d.bulk_out)
      /\ DOMAIN w = 1..Len(w) /\ Len(w) \in Nat
  BY <1>1, <1>2, QueueIs
<1> HIDE DEF w, F
<1> DEFINE E == Asks(w, id)
<1>5. E = {i \in AskAt(w) : w[i].id = id}
  BY <1>4 DEF Asks, AskAt
<1>6. \A q : q = <<>> => Asks(q, id) = {}
  BY DEF Asks
<1>7. (W = E /\ R = {}) \/ (R = E /\ W = {})
  BY <1>1, <1>6
<1>8. Lone(E) /\ (E # {} => id \notin Kept(d))
  <2>1. \A i, j \in E : ~(i < j)
    BY <1>2, <1>5 DEF Fits
  <2>2. E \subseteq Nat
    BY <1>5 DEF AskAt
  <2>3. ASSUME NEW i \in E PROVE id \notin Kept(d)
    BY <1>2, <1>5 DEF Fits
  <2> HIDE DEF E
  <2>4. Lone(E)
    BY <2>1, <2>2 DEF Lone
  <2> QED
    BY <2>3, <2>4
<1>9. T = {i \in 1..Len(d.tx) : d.tx[i].id = id /\ d.tx[i].t = "reply"}
  <2>1. \A i \in 1..Len(d.tx) : d.tx[i].t # "reply" => d.tx[i].id = 0
    BY <1>2 DEF Told
  <2> QED
    BY <1>4, <2>1 DEF Asks
<1>10. Lone(T) /\ (T # {} => id \notin Kept(d) /\ E = {})
  <2>1. \A i, j \in T : ~(i < j)
    BY <1>2, <1>3, <1>9 DEF After
  <2>2. T \subseteq Nat
    BY <1>9
  <2>3. ASSUME NEW i \in T PROVE id \notin F.owed \cup F.stale
    BY <1>3, <1>9 DEF After
  <2>4. ASSUME NEW i \in T PROVE id \notin Kept(d) /\ id \notin AskIds(w)
    BY <1>2, <2>3 DEF Fits
  <2>5. id \notin AskIds(w) => E = {}
    BY <1>5 DEF AskIds
  <2> HIDE DEF T, E
  <2>6. Lone(T)
    BY <2>1, <2>2 DEF Lone
  <2> QED
    BY <2>4, <2>5, <2>6
<1>11. /\ Lone(I) /\ Lone(O) /\ Lone(P)
       /\ I # {} <=> id \in Ids(d.bulk_in)
       /\ O # {} <=> id \in Ids(d.bulk_out)
       /\ P # {} <=> id \in Class(d)
  <2>1. Lone(I) /\ Lone(O)
    BY <1>2, <1>4 DEF Distinct, NoDup, Lone
  <2>2. (I # {} <=> id \in Ids(d.bulk_in)) /\ (O # {} <=> id \in Ids(d.bulk_out))
    BY DEF Ids
  <2>3. P = IF d.ctrl_active /\ d.ctrl_id = id THEN {<<"ctrl", 0>>} ELSE {}
    OBVIOUS
  <2>4. Lone(P) /\ (P # {} <=> id \in Class(d))
    BY <2>3 DEF Lone, Class
  <2> QED
    BY <2>1, <2>2, <2>4
<1>12. Holders(id) = ({"wire"} \X W) \cup ({"rx"} \X R) \cup ({"tx"} \X T)
                       \cup ({"in"} \X I) \cup ({"out"} \X O) \cup P
  BY DEF Holders
<1>13. /\ I # {} => id \in Kept(d) /\ O = {} /\ P = {}
       /\ O # {} => id \in Kept(d) /\ P = {}
       /\ P # {} => id \in Kept(d)
       /\ id \in Kept(d) => I # {} \/ O # {} \/ P # {}
  BY <1>2, <1>11 DEF Distinct, Kept
<1>14. ASSUME id \in d.view.owed PROVE Withdrawing \/ T # {} \/ E # {} \/ id \in Kept(d)
  <2>1. CASE id \in F.owed
    <3>1. id \in Kept(d) \cup AskIds(w)
      BY <1>2, <2>1 DEF Fits
    <3>2. id \in AskIds(w) => E # {}
      BY <1>5 DEF AskIds
    <3> QED
      BY <3>1, <3>2
  <2>2. CASE id \notin F.owed
    <3>1. PICK i \in 1..Len(d.tx) : d.tx[i].id = id \/ d.tx[i].t = "disconnect"
      BY <1>3, <1>14, <2>2 DEF After
    <3>2. d.tx[i].id = id => d.tx[i].t = "reply"
      BY <1>2 DEF Told
    <3> QED
      BY <1>4, <1>9, <3>1, <3>2 DEF Withdrawing
  <2> QED
    BY <2>1, <2>2
<1> HIDE DEF W, R, T, I, O, P, E
<1>15. Lone(W) /\ Lone(R)
  BY <1>7, <1>8 DEF Lone
<1>16. /\ W = {} \/ R = {}
       /\ W # {} \/ R # {} => T = {} /\ I = {} /\ O = {} /\ P = {}
       /\ T # {} => I = {} /\ O = {} /\ P = {}
       /\ I # {} => O = {} /\ P = {}
       /\ O # {} => P = {}
  BY <1>7, <1>8, <1>10, <1>13
<1>17. Cardinality(Holders(id)) <= 1
  <2> DEFINE H == Holders(id)
  <2>1. H = {} \/ \E x : H = {x}
    <3>1. CASE W # {}
      <4>1. PICK a : W = {a}
        BY <1>15, <3>1, LoneIs
      <4>2. R = {} /\ T = {} /\ I = {} /\ O = {} /\ P = {}
        BY <1>16, <3>1
      <4>3. H = {<<"wire", a>>}
        BY <1>12, <4>1, <4>2
      <4> QED
        BY <4>3
    <3>2. CASE W = {} /\ R # {}
      <4>1. PICK a : R = {a}
        BY <1>15, <3>2, LoneIs
      <4>2. T = {} /\ I = {} /\ O = {} /\ P = {}
        BY <1>16, <3>2
      <4>3. H = {<<"rx", a>>}
        BY <1>12, <3>2, <4>1, <4>2
      <4> QED
        BY <4>3
    <3>3. CASE W = {} /\ R = {} /\ T # {}
      <4>1. PICK a : T = {a}
        BY <1>10, <3>3, LoneIs
      <4>2. I = {} /\ O = {} /\ P = {}
        BY <1>16, <3>3
      <4>3. H = {<<"tx", a>>}
        BY <1>12, <3>3, <4>1, <4>2
      <4> QED
        BY <4>3
    <3>4. CASE W = {} /\ R = {} /\ T = {} /\ I # {}
      <4>1. PICK a : I = {a}
        BY <1>11, <3>4, LoneIs
      <4>2. O = {} /\ P = {}
        BY <1>16, <3>4
      <4>3. H = {<<"in", a>>}
        BY <1>12, <3>4, <4>1, <4>2
      <4> QED
        BY <4>3
    <3>5. CASE W = {} /\ R = {} /\ T = {} /\ I = {} /\ O # {}
      <4>1. PICK a : O = {a}
        BY <1>11, <3>5, LoneIs
      <4>2. P = {}
        BY <1>16, <3>5
      <4>3. H = {<<"out", a>>}
        BY <1>12, <3>5, <4>1, <4>2
      <4> QED
        BY <4>3
    <3>6. CASE W = {} /\ R = {} /\ T = {} /\ I = {} /\ O = {}
      <4>1. H = P
        BY <1>12, <3>6
      <4> QED
        BY <1>11, <4>1, LoneIs
    <3> QED
      BY <3>1, <3>2, <3>3, <3>4, <3>5, <3>6
  <2> HIDE DEF H
  <2>2. CASE H = {}
    BY <2>2, FS_EmptySet DEF H
  <2>3. CASE \E x : H = {x}
    <3>1. PICK x : H = {x}
      BY <2>3
    <3>2. Cardinality({x}) = 1
      BY FS_Singleton
    <3> QED
      BY <3>1, <3>2 DEF H
  <2> QED
    BY <2>1, <2>2, <2>3 DEF H
<1>18. ASSUME id \in d.view.owed PROVE Holders(id) # {} \/ Withdrawing
  <2>1. W # {} \/ R # {} \/ T # {} \/ I # {} \/ O # {} \/ P # {} \/ Withdrawing
    BY <1>7, <1>13, <1>14, <1>18
  <2>2. /\ {"wire"} \X W \subseteq Holders(id) /\ {"rx"} \X R \subseteq Holders(id)
        /\ {"tx"} \X T \subseteq Holders(id) /\ {"in"} \X I \subseteq Holders(id)
        /\ {"out"} \X O \subseteq Holders(id) /\ P \subseteq Holders(id)
    BY <1>12
  <2>3. ASSUME NEW c, NEW B, B # {}, {c} \X B \subseteq Holders(id) PROVE Holders(id) # {}
    <3>1. PICK b \in B : TRUE
      BY <2>3
    <3>2. <<c, b>> \in {c} \X B
      BY <3>1
    <3> QED
      BY <2>3, <3>2
  <2>4. P # {} /\ P \subseteq Holders(id) => Holders(id) # {}
    OBVIOUS
  <2> QED
    BY <2>1, <2>2, <2>3, <2>4
<1> QED
  BY <1>17, <1>18

(***************************************************************************)
(* A request the peer waits for is on the wire, in a bulk queue, with the  *)
(* guest or answered in the transmit buffer, and in one of these places only:*)
(* no path through the handlers loses it or answers it twice.              *)
(***************************************************************************)
THEOREM HeldInOnePlace ==
    ASSUME Restricted
    PROVE  Spec => []OneHolder
<1>1. IInv => OneHolder
  <2> SUFFICES ASSUME IInv, Live, NEW id \in 1..sc.maxreq
               PROVE  /\ Cardinality(Holders(id)) <= 1
                      /\ id \in d.view.owed => Holders(id) # {} \/ Withdrawing
    BY DEF OneHolder
  <2>1. id \in Nat \ {0}
    <3>1. sc.maxreq \in Nat
      BY RedirAssumption DEF IInv, ScenarioType
    <3> QED
      BY <3>1
  <2> QED
    BY <2>1, HeldOnce
<1> QED
  BY <1>1, InvHolds, PTL

================================================================================
