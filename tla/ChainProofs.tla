----------------------------- MODULE ChainProofs -----------------------------
(***************************************************************************)
(* Proofs about Chain, for any set of blocks and of inputs: whatever       *)
(* sequence of operations rewires the chain while its workers run, no      *)
(* stream ever has two readers, no worker reads a NULL stream, and between *)
(* operations the enabled blocks form one path in list order.              *)
(*                                                                         *)
(* The operations compute their calls from positions in the list and make  *)
(* them later, one by one.  The proof speaks of the order of the list      *)
(* instead of positions, and of the path an operation is working towards:  *)
(* at each of its calls all enabled blocks but the one that the next call  *)
(* rewires are already wired for that path.                                *)
(***************************************************************************)
EXTENDS Chain, SequenceTheorems, WellFoundedInduction, TLAPS

Elems(l)    == {l[i] : i \in 1..Len(l)}
Distinct(l) == \A i, j \in 1..Len(l) : l[i] = l[j] => i = j

\* a is in front of c in the list l.
Prec(l, a, c) == \E i, j \in 1..Len(l) : i < j /\ l[i] = a /\ l[j] = c

\* In the path that the blocks S form, in the order of the list l and fed from s:
\* c is to read x, ...
IsBefore(l, S, s, c, x) ==
  \/ x = s /\ \A a \in S : ~Prec(l, a, c)
  \/ x \in S /\ Prec(l, x, c) /\ \A a \in S : ~(Prec(l, x, a) /\ Prec(l, a, c))

\* ... a is the next block behind b (None: there is none), ...
IsAfter(l, S, b, a) ==
  \/ a = None /\ \A c \in S : ~Prec(l, b, c)
  \/ a \in S /\ Prec(l, b, a) /\ \A c \in S : ~(Prec(l, b, c) /\ Prec(l, c, a))

\* ... f is the first block (None: there is none), ...
IsFirst(l, S, f) ==
  \/ f = None /\ S = {}
  \/ f \in S /\ \A a \in S : ~Prec(l, a, f)

\* ... and x is the stream at its end.
IsEnd(l, S, s, x) ==
  \/ x = s /\ S = {}
  \/ x \in S /\ \A a \in S : ~Prec(l, x, a)

\* The blocks R are wired for the path S.
Wired(l, S, R, s, reads) == \A c \in R : IsBefore(l, S, s, c, reads[c])

-----------------------------------------------------------------------------
(* The invariant: what is wired at each call of each operation.             *)

ListOK ==
  /\ links \in Seq(Blocks) /\ Distinct(links)
  /\ states \subseteq Elems(links)
  /\ in \in Inputs /\ running \in BOOLEAN
  /\ input \in [Blocks -> Streams \cup {None}]
  /\ pending \in Seq({"enable", "disable"} \X Elems(links))

\* The blocks R and the consumer are wired for the path S, fed from s.
Path(S, R, s) == /\ Wired(links, S, R, s, input)
                 /\ IsEnd(links, S, s, out) /\ consumerIn = out

\* Of the blocks S all run, if the chain does.
Runs(S) == started = IF running THEN S ELSE {}

UnlinkCall(b)   == Call("unlink", b, None)
ConsumerCall(b) == Call("consumer", None, b)
RunningCall     == Call("running", None, None)

Settled == todo = <<>> /\ Path(states, states, in) /\ Runs(states)

Enabling(b) ==
  \E a \in Blocks \cup {None}, x \in Streams :
    /\ b \notin states /\ Runs(states)
    /\ IsAfter(links, states, b, a) /\ IsBefore(links, states, in, b, x)
    /\ \/ todo = <<Rewire(a, b), Rewire(b, x), StartIfRunning(b)>> /\ Path(states, states, in)
       \/ todo = <<Rewire(b, x), StartIfRunning(b)>> /\ Path(states \cup {b}, states, in)
       \/ todo = <<StartIfRunning(b)>> /\ Path(states \cup {b}, states \cup {b}, in)

Disabling(b) ==
  \E a \in Blocks \cup {None}, x \in Streams :
    /\ Runs(states)
    /\ IsAfter(links, states, b, a) /\ IsBefore(links, states, in, b, x)
    /\ \/ /\ b \in states /\ Path(states, states, in)
          /\ \/ todo = <<StopBlock(b), Rewire(a, x)>>
             \/ todo = <<StopBlock(b), Rewire(a, x), UnlinkCall(b)>> /\ pending = <<>>
       \/ /\ b \notin states /\ Path(states \cup {b}, states, in)
          /\ \/ todo = <<Rewire(a, x)>>
             \/ todo = <<Rewire(a, x), UnlinkCall(b)>> /\ pending = <<>>

Unlinking(b) ==
  /\ todo = <<UnlinkCall(b)>> /\ pending = <<>>
  /\ b \notin states /\ Path(states, states, in) /\ Runs(states)

\* The chain has a new input, which the first block of the path does not read yet.
Feeding(s) ==
  \E f \in Blocks \cup {None} :
    /\ IsFirst(links, states, f) /\ todo = <<Rewire(f, in)>>
    /\ Path(states, states, s) /\ Runs(states)

\* A block is added at the end of the path of a chain that is being set up.
Adding(b) ==
  /\ ~running /\ started = {} /\ out = b
  /\ \/ \E x \in Streams :
          /\ todo = <<Rewire(b, x), StartIfRunning(b), ConsumerCall(b)>>
          /\ b \notin states /\ IsBefore(links, states, in, b, x)
          /\ IsEnd(links, states \cup {b}, in, b)
          /\ Wired(links, states \cup {b}, states, in, input)
     \/ /\ todo = <<StartIfRunning(b), ConsumerCall(b)>>
        /\ b \notin states /\ IsEnd(links, states \cup {b}, in, b)
        /\ Wired(links, states \cup {b}, states \cup {b}, in, input)
     \/ /\ todo = <<ConsumerCall(b)>>
        /\ b \in states /\ IsEnd(links, states, in, b)
        /\ Wired(links, states, states, in, input)

\* The rest of a loop over the list.
Loop(name) ==
  /\ todo \in Seq([call : {name, "running"}, block : Blocks \cup {None}, to : {None}])
  /\ todo # <<>> /\ todo[Len(todo)] = RunningCall
  /\ \A k \in 1..(Len(todo) - 1) : todo[k].call = name

StillTo(b) == \E k \in 1..(Len(todo) - 1) : todo[k].block = b

Starting ==
  /\ Loop("start") /\ ~running /\ Path(states, states, in)
  /\ started \subseteq states
  /\ \A b \in states \ started : StillTo(b)

Stopping ==
  /\ Loop("stop") /\ running /\ Path(states, states, in)
  /\ started \subseteq states
  /\ \A b \in started : StillTo(b)

Stage ==
  \/ Settled \/ Starting \/ Stopping
  \/ \E b \in Elems(links) : Enabling(b) \/ Disabling(b) \/ Unlinking(b) \/ Adding(b)
  \/ \E s \in Inputs : Feeding(s)

\* The inductive invariant.
ChainInv == ListOK /\ Stage

-----------------------------------------------------------------------------
(* The order of a list.                                                     *)

\* A list without repetitions orders its elements.
LEMMA PrecOrder ==
  ASSUME NEW l \in Seq(Blocks), Distinct(l)
  PROVE  /\ \A a : ~Prec(l, a, a)
         /\ \A a, b, c : Prec(l, a, b) /\ Prec(l, b, c) => Prec(l, a, c)
         /\ \A a, b : Prec(l, a, b) => a \in Elems(l) /\ b \in Elems(l)
         /\ \A a, b \in Elems(l) : a = b \/ Prec(l, a, b) \/ Prec(l, b, a)
         /\ Elems(l) \subseteq Blocks
<1>0. Len(l) \in Nat
  OBVIOUS
<1>1. ASSUME NEW a PROVE ~Prec(l, a, a)
  BY <1>0 DEF Prec, Distinct
<1>2. ASSUME NEW a, NEW b, NEW c, Prec(l, a, b), Prec(l, b, c) PROVE Prec(l, a, c)
  <2>1. PICK i, j \in 1..Len(l) : i < j /\ l[i] = a /\ l[j] = b
    BY <1>2 DEF Prec
  <2>2. PICK k, m \in 1..Len(l) : k < m /\ l[k] = b /\ l[m] = c
    BY <1>2 DEF Prec
  <2>3. j = k
    BY <2>1, <2>2 DEF Distinct
  <2>4. i < m
    BY <1>0, <2>1, <2>2, <2>3
  <2>. QED BY <2>1, <2>2, <2>4 DEF Prec
<1>3. ASSUME NEW a, NEW b, Prec(l, a, b) PROVE a \in Elems(l) /\ b \in Elems(l)
  BY <1>3 DEF Prec, Elems
<1>4. ASSUME NEW a \in Elems(l), NEW b \in Elems(l)
      PROVE  a = b \/ Prec(l, a, b) \/ Prec(l, b, a)
  <2>1. PICK i \in 1..Len(l) : a = l[i]
    BY DEF Elems
  <2>2. PICK j \in 1..Len(l) : b = l[j]
    BY DEF Elems
  <2>3. i = j \/ i < j \/ j < i
    BY <1>0, <2>1, <2>2
  <2>. QED BY <2>1, <2>2, <2>3 DEF Prec
<1>5. Elems(l) \subseteq Blocks
  BY DEF Elems
<1>. QED BY <1>1, <1>2, <1>3, <1>4, <1>5

\* A block is to read one stream only.
LEMMA BeforeUnique ==
  ASSUME NEW l \in Seq(Blocks), Distinct(l), NEW S \in SUBSET Elems(l), NEW s \in Inputs, NEW c,
         NEW x, NEW y, IsBefore(l, S, s, c, x), IsBefore(l, S, s, c, y)
  PROVE  x = y
<1>1. CASE x \in S /\ Prec(l, x, c) /\ y \in S /\ Prec(l, y, c)
  <2>1. x = y \/ Prec(l, x, y) \/ Prec(l, y, x)
    BY <1>1, PrecOrder
  <2>. QED BY <1>1, <2>1, PrecOrder, DisjointAssumption DEF IsBefore
<1>. QED BY <1>1 DEF IsBefore

\* A path ends in one stream only.
LEMMA EndUnique ==
  ASSUME NEW l \in Seq(Blocks), Distinct(l), NEW S \in SUBSET Elems(l), NEW s \in Inputs,
         NEW x, NEW y, IsEnd(l, S, s, x), IsEnd(l, S, s, y)
  PROVE  x = y
BY PrecOrder DEF IsEnd

\* On a path no two blocks read the same stream, and none reads the one at its end.
LEMMA OneReaderOfPath ==
  ASSUME NEW l \in Seq(Blocks), Distinct(l), NEW S \in SUBSET Elems(l), NEW s \in Inputs,
         NEW c \in S, NEW x, IsBefore(l, S, s, c, x)
  PROVE  /\ x \in S \cup {s}
         /\ \A d \in S : IsBefore(l, S, s, d, x) => c = d
         /\ ~IsEnd(l, S, s, x)
<1>0. S \subseteq Blocks /\ s \notin S
  BY PrecOrder, DisjointAssumption
<1>1. x \in S \cup {s}
  BY DEF IsBefore
<1>2. ASSUME NEW d \in S, IsBefore(l, S, s, d, x) PROVE c = d
  <2>1. c = d \/ Prec(l, c, d) \/ Prec(l, d, c)
    BY PrecOrder
  <2>2. CASE x = s
    BY <1>0, <1>2, <2>1, <2>2 DEF IsBefore
  <2>3. CASE x \in S
    BY <1>0, <1>2, <2>1, <2>3 DEF IsBefore
  <2>. QED BY <1>1, <2>2, <2>3
<1>3. ~IsEnd(l, S, s, x)
  BY <1>0 DEF IsBefore, IsEnd
<1>. QED BY <1>1, <1>2, <1>3

\* enableBlock: what changes when the block b joins the path S.
LEMMA Join ==
  ASSUME NEW l \in Seq(Blocks), Distinct(l), NEW S \in SUBSET Elems(l), NEW s \in Inputs,
         NEW b \in Elems(l), b \notin S, NEW a, IsAfter(l, S, b, a)
  PROVE  /\ \A c \in S : \A x : c # a /\ IsBefore(l, S, s, c, x) => IsBefore(l, S \cup {b}, s, c, x)
         /\ a # None => IsBefore(l, S \cup {b}, s, a, b)
         /\ a = None => IsEnd(l, S \cup {b}, s, b)
         /\ \A x : a # None /\ IsEnd(l, S, s, x) => IsEnd(l, S \cup {b}, s, x)
         /\ \A x : IsBefore(l, S, s, b, x) => IsBefore(l, S \cup {b}, s, b, x)
<1>0. S \subseteq Blocks /\ s \notin S /\ b # s /\ None \notin S
  BY PrecOrder, DisjointAssumption
<1>1. ASSUME NEW c \in S, NEW x, c # a, IsBefore(l, S, s, c, x)
      PROVE  IsBefore(l, S \cup {b}, s, c, x)
  <2>1. Prec(l, b, c) => a \in S /\ Prec(l, b, a) /\ Prec(l, a, c)
    BY <1>0, <1>1, PrecOrder DEF IsAfter
  <2>2. CASE x = s
    BY <1>0, <1>1, <2>1, <2>2 DEF IsBefore
  <2>3. CASE x \in S
    <3>1. Prec(l, x, b) /\ Prec(l, b, c) => Prec(l, x, a) /\ Prec(l, a, c)
      BY <2>1, PrecOrder
    <3>. QED BY <1>0, <1>1, <2>1, <2>3, <3>1 DEF IsBefore
  <2>. QED BY <1>1, <2>2, <2>3 DEF IsBefore
<1>2. ASSUME a # None PROVE IsBefore(l, S \cup {b}, s, a, b)
  BY <1>2, PrecOrder DEF IsAfter, IsBefore
<1>3. ASSUME a = None PROVE IsEnd(l, S \cup {b}, s, b)
  BY <1>0, <1>3, PrecOrder DEF IsAfter, IsEnd
<1>4. ASSUME NEW x, a # None, IsEnd(l, S, s, x) PROVE IsEnd(l, S \cup {b}, s, x)
  <2>1. x \in S /\ a \in S /\ Prec(l, b, a)
    BY <1>4 DEF IsAfter, IsEnd
  <2>2. ~Prec(l, x, b)
    BY <1>4, <1>0, <2>1, PrecOrder DEF IsEnd
  <2>. QED BY <1>0, <1>4, <2>1, <2>2 DEF IsEnd
<1>5. ASSUME NEW x, IsBefore(l, S, s, b, x) PROVE IsBefore(l, S \cup {b}, s, b, x)
  BY <1>0, <1>5, PrecOrder DEF IsBefore
<1>. QED BY <1>1, <1>2, <1>3, <1>4, <1>5

\* disableBlock: what changes when the block b leaves the path.
LEMMA Leave ==
  ASSUME NEW l \in Seq(Blocks), Distinct(l), NEW S \in SUBSET Elems(l), NEW s \in Inputs,
         NEW b \in Elems(l), b \notin S, NEW a, IsAfter(l, S, b, a),
         NEW x, IsBefore(l, S, s, b, x)
  PROVE  /\ \A c \in S : \A y : c # a /\ IsBefore(l, S \cup {b}, s, c, y) => IsBefore(l, S, s, c, y)
         /\ a # None => IsBefore(l, S, s, a, x)
         /\ a = None => IsEnd(l, S, s, x)
         /\ \A y : a # None /\ IsEnd(l, S \cup {b}, s, y) => IsEnd(l, S, s, y)
<1>0. S \subseteq Blocks /\ s \notin S /\ b # s /\ None \notin S
  BY PrecOrder, DisjointAssumption
<1>1. ASSUME NEW c \in S, NEW y, c # a, IsBefore(l, S \cup {b}, s, c, y)
      PROVE  IsBefore(l, S, s, c, y)
  <2>1. Prec(l, b, c) => a \in S /\ Prec(l, b, a) /\ Prec(l, a, c)
    BY <1>0, <1>1, PrecOrder DEF IsAfter
  <2>2. y # b
    BY <1>0, <1>1, <2>1 DEF IsBefore
  <2>. QED BY <1>0, <1>1, <2>2 DEF IsBefore
<1>2. ASSUME a # None PROVE IsBefore(l, S, s, a, x)
  <2>1. a \in S /\ Prec(l, b, a) /\ \A c \in S : ~(Prec(l, b, c) /\ Prec(l, c, a))
    BY <1>2 DEF IsAfter
  <2>2. \A c \in S : Prec(l, c, a) => Prec(l, c, b)
    BY <2>1, PrecOrder
  <2>. QED BY <1>0, <2>1, <2>2, PrecOrder DEF IsBefore
<1>3. ASSUME a = None PROVE IsEnd(l, S, s, x)
  <2>1. \A c \in S : Prec(l, c, b)
    BY <1>0, <1>3, PrecOrder DEF IsAfter
  <2>2. CASE x = s
    BY <1>0, <2>1, <2>2 DEF IsBefore, IsEnd
  <2>3. CASE x \in S
    BY <1>0, <2>1, <2>3 DEF IsBefore, IsEnd
  <2>. QED BY <2>2, <2>3 DEF IsBefore
<1>4. ASSUME NEW y, a # None, IsEnd(l, S \cup {b}, s, y) PROVE IsEnd(l, S, s, y)
  <2>1. a \in S /\ Prec(l, b, a)
    BY <1>4 DEF IsAfter
  <2>. QED BY <1>4, <2>1 DEF IsEnd
<1>. QED BY <1>1, <1>2, <1>3, <1>4

\* chain::setInput: only the first block of the path, or the consumer, reads the input.
LEMMA Feed ==
  ASSUME NEW l \in Seq(Blocks), Distinct(l), NEW S \in SUBSET Elems(l),
         NEW s \in Inputs, NEW i \in Inputs, NEW f, IsFirst(l, S, f)
  PROVE  /\ \A c \in S : \A y : c # f /\ IsBefore(l, S, i, c, y) => IsBefore(l, S, s, c, y)
         /\ f # None => IsBefore(l, S, s, f, s)
         /\ f = None => IsEnd(l, S, s, s)
         /\ \A y : f # None /\ IsEnd(l, S, i, y) => IsEnd(l, S, s, y)
<1>0. S \subseteq Blocks /\ None \notin S
  BY PrecOrder, DisjointAssumption
<1>1. ASSUME NEW c \in S, NEW y, c # f, IsBefore(l, S, i, c, y) PROVE IsBefore(l, S, s, c, y)
  <2>1. f \in S /\ Prec(l, f, c)
    BY <1>1, PrecOrder DEF IsFirst
  <2>. QED BY <1>1, <2>1 DEF IsBefore
<1>2. f # None => IsBefore(l, S, s, f, s)
  BY DEF IsFirst, IsBefore
<1>3. f = None => IsEnd(l, S, s, s)
  BY <1>0 DEF IsFirst, IsEnd
<1>4. ASSUME NEW y, f # None, IsEnd(l, S, i, y) PROVE IsEnd(l, S, s, y)
  BY <1>4 DEF IsFirst, IsEnd
<1>. QED BY <1>1, <1>2, <1>3, <1>4

\* Wiring depends on the order only of the blocks of the path and the one that is wired.
LEMMA SameOrder ==
  ASSUME NEW l, NEW m, NEW E, \A a, b \in E : Prec(m, a, b) <=> Prec(l, a, b),
         NEW S \in SUBSET E, NEW s
  PROVE  /\ \A c \in E : \A x : IsBefore(l, S, s, c, x) => IsBefore(m, S, s, c, x)
         /\ \A x : IsEnd(l, S, s, x) => IsEnd(m, S, s, x)
BY DEF IsBefore, IsEnd

\* addBlock puts the new block behind all others.
LEMMA AppendOrder ==
  ASSUME NEW l \in Seq(Blocks), Distinct(l), NEW b \in Blocks, b \notin Elems(l),
         NEW m, m = Append(l, b)
  PROVE  /\ m \in Seq(Blocks) /\ Distinct(m) /\ Elems(m) = Elems(l) \cup {b}
         /\ \A a, c \in Elems(l) : Prec(m, a, c) <=> Prec(l, a, c)
         /\ \A a \in Elems(l) : Prec(m, a, b) /\ ~Prec(m, b, a)
<1> DEFINE n == Len(l)
<1>1. n \in Nat /\ m \in Seq(Blocks) /\ Len(m) = n + 1 /\ m[n + 1] = b
      /\ \A i \in 1..n : m[i] = l[i]
  OBVIOUS
<1>2. 1..Len(m) = (1..n) \cup {n + 1}
  BY <1>1
<1>3. \A i \in 1..n : l[i] \in Elems(l) /\ l[i] # b
  BY DEF Elems
<1> HIDE DEF n
<1>4. \A i \in 1..Len(m) : m[i] = b <=> i = n + 1
  BY <1>1, <1>2, <1>3
<1>5. Distinct(m)
  BY <1>1, <1>2, <1>3 DEF Distinct, n
<1>6. Elems(m) = Elems(l) \cup {b}
  <2>1. \A x : x \in Elems(m) <=> \E i \in 1..Len(m) : x = m[i]
    BY DEF Elems
  <2>2. \A x : x \in Elems(l) <=> \E i \in 1..n : x = l[i]
    BY DEF Elems, n
  <2>. QED BY <1>1, <1>2, <2>1, <2>2
<1>7. ASSUME NEW a \in Elems(l), NEW c \in Elems(l) PROVE Prec(m, a, c) <=> Prec(l, a, c)
  <2>1. \A i \in 1..Len(m) : m[i] \in {a, c} => i \in 1..n /\ l[i] = m[i]
    BY <1>1, <1>2
  <2>. QED BY <1>1, <1>2, <2>1 DEF Prec, n
<1>8. ASSUME NEW a \in Elems(l) PROVE Prec(m, a, b)
  <2>1. PICK i \in 1..n : l[i] = a
    BY DEF Elems, n
  <2>2. i \in 1..Len(m) /\ n + 1 \in 1..Len(m) /\ i < n + 1
    BY <1>1, <1>2
  <2>. QED BY <1>1, <2>1, <2>2 DEF Prec
<1>9. \A a \in Elems(l) : ~Prec(m, b, a)
  BY <1>1, <1>5, <1>8, PrecOrder
<1>. QED BY <1>1, <1>5, <1>6, <1>7, <1>8, <1>9

\* removeBlock leaves the order of the others.
LEMMA RemoveOrder ==
  ASSUME NEW l \in Seq(Blocks), Distinct(l), NEW k \in 1..Len(l), NEW m, m = RemoveAt(l, k)
  PROVE  /\ m \in Seq(Blocks) /\ Distinct(m) /\ Elems(m) = Elems(l) \ {l[k]}
         /\ \A a, c \in Elems(m) : Prec(m, a, c) <=> Prec(l, a, c)
<1> DEFINE n == Len(l)
           b == l[k]
<1>1. n \in Nat /\ k \in Nat /\ k >= 1 /\ k <= n
  OBVIOUS
<1>2. /\ m \in Seq(Blocks) /\ Len(m) = n - 1
      /\ \A i \in 1..(n - 1) : m[i] = IF i < k THEN l[i] ELSE l[i + 1]
  <2> DEFINE p == SubSeq(l, 1, k - 1)
             q == SubSeq(l, k + 1, n)
  <2>1. p \in Seq(Blocks) /\ Len(p) = k - 1 /\ \A i \in 1..(k - 1) : p[i] = l[i]
    BY <1>1
  <2>2. q \in Seq(Blocks) /\ Len(q) = n - k /\ \A i \in 1..(n - k) : q[i] = l[k + i]
    BY <1>1
  <2>3. m = p \o q
    BY DEF RemoveAt
  <2> HIDE DEF p, q
  <2>4. m \in Seq(Blocks) /\ Len(m) = n - 1
    <3>0. p \in Seq(Blocks) /\ q \in Seq(Blocks)
      BY <2>1, <2>2
    <3>1. p \o q \in Seq(Blocks) /\ Len(p \o q) = Len(p) + Len(q)
      BY <3>0
    <3>2. (k - 1) + (n - k) = n - 1
      BY <1>1
    <3>. QED BY <2>1, <2>2, <2>3, <3>1, <3>2
  <2>5. ASSUME NEW i \in 1..(n - 1) PROVE m[i] = IF i < k THEN l[i] ELSE l[i + 1]
    <3>1. CASE i < k
      BY <1>1, <2>1, <2>2, <2>3, <3>1
    <3>2. CASE ~(i < k)
      <4>1. m[i] = q[i - (k - 1)]
        BY <1>1, <2>1, <2>2, <2>3, <3>2
      <4>2. i - (k - 1) \in 1..(n - k) /\ k + (i - (k - 1)) = i + 1
        BY <1>1, <3>2
      <4>. QED BY <2>2, <3>2, <4>1, <4>2
    <3>. QED BY <3>1, <3>2
  <2>. QED BY <2>4, <2>5
<1>3. \A i \in 1..n : l[i] = b <=> i = k
  BY DEF Distinct
<1> HIDE DEF n, b
\* Where the elements of m are in l, and the other way round.
<1>4. \A i \in 1..(n - 1) : \E j \in 1..n : /\ j # k /\ m[i] = l[j]
                                             /\ j = IF i < k THEN i ELSE i + 1
  BY <1>1, <1>2
<1>5. \A j \in 1..n : j # k => \E i \in 1..(n - 1) : /\ m[i] = l[j]
                                                     /\ i = IF j < k THEN j ELSE j - 1
  BY <1>1, <1>2
<1>6. Distinct(m)
  <2>1. SUFFICES ASSUME NEW i \in 1..(n - 1), NEW j \in 1..(n - 1), m[i] = m[j] PROVE i = j
    BY <1>2 DEF Distinct
  <2>2. PICK p \in 1..n : m[i] = l[p] /\ p = IF i < k THEN i ELSE i + 1
    BY <1>4
  <2>3. PICK q \in 1..n : m[j] = l[q] /\ q = IF j < k THEN j ELSE j + 1
    BY <1>4
  <2>4. p = q
    BY <2>1, <2>2, <2>3 DEF Distinct, n
  <2>. QED BY <1>1, <2>2, <2>3, <2>4
<1>7. Elems(m) = Elems(l) \ {b}
  <2>1. \A x : x \in Elems(m) <=> \E i \in 1..(n - 1) : x = m[i]
    BY <1>2 DEF Elems
  <2>2. \A x : x \in Elems(l) <=> \E i \in 1..n : x = l[i]
    BY DEF Elems, n
  <2>3. ASSUME NEW x \in Elems(m) PROVE x \in Elems(l) /\ x # b
    <3>1. PICK i \in 1..(n - 1) : x = m[i]
      BY <2>1
    <3>. QED BY <1>3, <1>4, <2>2, <3>1
  <2>4. ASSUME NEW x \in Elems(l), x # b PROVE x \in Elems(m)
    <3>1. PICK j \in 1..n : x = l[j]
      BY <2>2
    <3>. QED BY <1>3, <1>5, <2>1, <2>4, <3>1
  <2>. QED BY <2>3, <2>4
<1>8. ASSUME NEW a \in Elems(m), NEW c \in Elems(m) PROVE Prec(m, a, c) <=> Prec(l, a, c)
  <2>1. ASSUME Prec(m, a, c) PROVE Prec(l, a, c)
    <3>1. PICK i, j \in 1..(n - 1) : i < j /\ m[i] = a /\ m[j] = c
      BY <1>2, <2>1 DEF Prec
    <3>2. PICK p \in 1..n : m[i] = l[p] /\ p = IF i < k THEN i ELSE i + 1
      BY <1>4
    <3>3. PICK q \in 1..n : m[j] = l[q] /\ q = IF j < k THEN j ELSE j + 1
      BY <1>4
    <3>4. p < q
      BY <1>1, <3>1, <3>2, <3>3
    <3>. QED BY <3>1, <3>2, <3>3, <3>4 DEF Prec, n
  <2>2. ASSUME Prec(l, a, c) PROVE Prec(m, a, c)
    <3>1. PICK i, j \in 1..n : i < j /\ l[i] = a /\ l[j] = c
      BY <2>2 DEF Prec, n
    <3>2. i # k /\ j # k
      BY <1>3, <1>7, <3>1
    <3>3. PICK p \in 1..(n - 1) : m[p] = l[i] /\ p = IF i < k THEN i ELSE i - 1
      BY <1>5, <3>2
    <3>4. PICK q \in 1..(n - 1) : m[q] = l[j] /\ q = IF j < k THEN j ELSE j - 1
      BY <1>5, <3>2
    <3>5. p < q
      BY <1>1, <3>1, <3>2, <3>3, <3>4
    <3>. QED BY <1>2, <3>1, <3>3, <3>4, <3>5 DEF Prec
  <2>. QED BY <2>1, <2>2
<1>. QED BY <1>2, <1>6, <1>7, <1>8 DEF b

-----------------------------------------------------------------------------
(* What the code looks for in the list.                                     *)

\* The least element of a set of natural numbers.
LEMMA LeastNat ==
  ASSUME NEW S \in SUBSET Nat, S # {}
  PROVE  \E x \in S : \A y \in S : x <= y
<1>1. PICK x \in S : \A y \in S : <<y, x>> \notin OpToRel(<, Nat)
  BY WFMin, NatLessThanWellFounded
<1>2. \A y \in S : ~(y < x)
  BY <1>1 DEF OpToRel
<1>. QED BY <1>2

\* The least and the greatest of some positions in a list.
LEMMA MinMax ==
  ASSUME NEW n \in Nat, NEW S \in SUBSET (1..n), S # {}
  PROVE  /\ Min(S) \in S /\ \A y \in S : Min(S) <= y
         /\ Max(S) \in S /\ \A y \in S : Max(S) >= y
<1>1. \E x \in S : \A y \in S : x <= y
  BY LeastNat
<1>2. \E x \in S : \A y \in S : x >= y
  <2> DEFINE T == {n - x : x \in S}
  <2>1. T \in SUBSET Nat /\ T # {}
    <3>1. \A x \in S : n - x \in Nat
      OBVIOUS
    <3>2. \E x \in S : n - x \in T
      OBVIOUS
    <3>. QED BY <3>1, <3>2
  <2>2. PICK z \in T : \A y \in T : z <= y
    BY <2>1, LeastNat
  <2>3. PICK x \in S : z = n - x
    OBVIOUS
  <2>4. ASSUME NEW y \in S PROVE x >= y
    <3>1. z <= n - y
      BY <2>2
    <3>. QED BY <2>3, <3>1
  <2>. QED BY <2>4
<1>. QED BY <1>1, <1>2 DEF Min, Max

\* Where a block is in the list.
LEMMA Position ==
  ASSUME ListOK, NEW b \in Elems(links)
  PROVE  /\ Pos(b) \in 1..Len(links) /\ links[Pos(b)] = b
         /\ \A i \in 1..Len(links) : /\ Prec(links, links[i], b) <=> i < Pos(b)
                                     /\ Prec(links, b, links[i]) <=> Pos(b) < i
<1>1. \E i \in DOMAIN links : links[i] = b
  BY DEF Elems, ListOK
<1>2. Pos(b) \in 1..Len(links) /\ links[Pos(b)] = b
  BY <1>1 DEF Pos, ListOK
<1>3. ASSUME NEW i \in 1..Len(links), NEW j \in 1..Len(links)
      PROVE  Prec(links, links[i], links[j]) <=> i < j
  BY DEF Prec, Distinct, ListOK
<1>. QED BY <1>2, <1>3

\* blockBefore() finds the stream the block is to read ...
LEMMA BlockBeforeFinds ==
  ASSUME ListOK, NEW b \in Elems(links)
  PROVE  IsBefore(links, states, in, b, BlockBefore(b)) /\ BlockBefore(b) \in Streams
<1>1. /\ Pos(b) \in 1..Len(links) /\ links[Pos(b)] = b
      /\ \A i \in 1..Len(links) : Prec(links, links[i], b) <=> i < Pos(b)
  BY Position
<1>2. \A c \in states : \E i \in 1..Len(links) : c = links[i]
  BY DEF ListOK, Elems
<1>3. Len(links) \in Nat /\ Ahead(b) \in SUBSET (1..Len(links))
  BY <1>1 DEF ListOK, Ahead
<1>4. CASE Ahead(b) = {}
  <2>1. \A c \in states : ~Prec(links, c, b)
    BY <1>1, <1>2, <1>3, <1>4 DEF Ahead
  <2>. QED BY <1>4, <2>1 DEF BlockBefore, IsBefore, Streams, ListOK
<1>5. CASE Ahead(b) # {}
  <2> DEFINE k == Max(Ahead(b))
  <2>1. k \in Ahead(b) /\ \A j \in Ahead(b) : k >= j
    BY <1>3, <1>5, MinMax
  <2>2. k \in 1..Len(links) /\ k < Pos(b) /\ links[k] \in states
    BY <1>1, <1>3, <2>1 DEF Ahead
  <2> HIDE DEF k
  <2>3. ASSUME NEW c \in states PROVE ~(Prec(links, links[k], c) /\ Prec(links, c, b))
    <3>1. PICK i \in 1..Len(links) : c = links[i]
      BY <1>2
    <3>2. SUFFICES ASSUME k < i, i < Pos(b) PROVE FALSE
      <4>1. Prec(links, links[k], links[i]) => k < i
        BY <2>2 DEF Prec, Distinct, ListOK
      <4>. QED BY <1>1, <3>1, <4>1
    <3>3. i \in Ahead(b)
      BY <1>1, <1>3, <3>1, <3>2 DEF Ahead
    <3>. QED BY <1>3, <2>1, <2>2, <3>2, <3>3
  <2>4. IsBefore(links, states, in, b, links[k])
    BY <1>1, <2>2, <2>3 DEF IsBefore
  <2>5. links[k] \in Streams
    BY <2>2 DEF ListOK, Streams
  <2>. QED BY <1>5, <2>4, <2>5 DEF BlockBefore, k
<1>. QED BY <1>4, <1>5

\* ... blockAfter() the next enabled block ...
LEMMA BlockAfterFinds ==
  ASSUME ListOK, NEW b \in Elems(links)
  PROVE  IsAfter(links, states, b, BlockAfter(b)) /\ BlockAfter(b) \in Blocks \cup {None}
<1>1. /\ Pos(b) \in 1..Len(links) /\ links[Pos(b)] = b
      /\ \A i \in 1..Len(links) : Prec(links, b, links[i]) <=> Pos(b) < i
  BY Position
<1>2. \A c \in states : \E i \in 1..Len(links) : c = links[i]
  BY DEF ListOK, Elems
<1>3. Len(links) \in Nat /\ Behind(b) \in SUBSET (1..Len(links))
  BY <1>1 DEF ListOK, Behind
<1>4. CASE Behind(b) = {}
  <2>1. \A c \in states : ~Prec(links, b, c)
    BY <1>1, <1>2, <1>3, <1>4 DEF Behind
  <2>. QED BY <1>4, <2>1 DEF BlockAfter, IsAfter
<1>5. CASE Behind(b) # {}
  <2> DEFINE k == Min(Behind(b))
  <2>1. k \in Behind(b) /\ \A j \in Behind(b) : k <= j
    BY <1>3, <1>5, MinMax
  <2>2. k \in 1..Len(links) /\ Pos(b) < k /\ links[k] \in states
    BY <1>1, <1>3, <2>1 DEF Behind
  <2> HIDE DEF k
  <2>3. ASSUME NEW c \in states PROVE ~(Prec(links, b, c) /\ Prec(links, c, links[k]))
    <3>1. PICK i \in 1..Len(links) : c = links[i]
      BY <1>2
    <3>2. SUFFICES ASSUME i < k, Pos(b) < i PROVE FALSE
      <4>1. Prec(links, links[i], links[k]) => i < k
        BY <2>2 DEF Prec, Distinct, ListOK
      <4>. QED BY <1>1, <3>1, <4>1
    <3>3. i \in Behind(b)
      BY <1>1, <1>3, <3>1, <3>2 DEF Behind
    <3>. QED BY <1>3, <2>1, <2>2, <3>2, <3>3
  <2>4. IsAfter(links, states, b, links[k])
    BY <1>1, <2>2, <2>3 DEF IsAfter
  <2>5. links[k] \in Blocks
    BY <2>2 DEF ListOK
  <2>. QED BY <1>5, <2>4, <2>5 DEF BlockAfter, k
<1>. QED BY <1>4, <1>5

\* ... and the loops of setInput() and addBlock() the two ends of the path.
LEMMA PathEndsFound ==
  ASSUME ListOK
  PROVE  /\ IsFirst(links, states, PathStart) /\ PathStart \in Blocks \cup {None}
         /\ IsEnd(links, states, in, PathEnd) /\ PathEnd \in Streams
<1>1. \A c \in states : \E i \in 1..Len(links) : c = links[i]
  BY DEF ListOK, Elems
<1>2. Len(links) \in Nat /\ Enabled \in SUBSET (1..Len(links))
  BY DEF ListOK, Enabled
<1>3. \A i, j \in 1..Len(links) : Prec(links, links[i], links[j]) => i < j
  BY DEF Prec, Distinct, ListOK
<1>4. CASE Enabled = {}
  <2>1. states = {}
    BY <1>1, <1>4 DEF Enabled, ListOK
  <2>. QED BY <1>4, <2>1 DEF PathStart, PathEnd, IsFirst, IsEnd, Streams, ListOK
<1>5. CASE Enabled # {}
  <2> DEFINE p == Min(Enabled)
             q == Max(Enabled)
  <2>1. /\ p \in Enabled /\ \A j \in Enabled : p <= j
        /\ q \in Enabled /\ \A j \in Enabled : q >= j
    BY <1>2, <1>5, MinMax
  <2>2. /\ p \in 1..Len(links) /\ links[p] \in states /\ links[p] \in Blocks
        /\ q \in 1..Len(links) /\ links[q] \in states /\ links[q] \in Blocks
    BY <1>2, <2>1 DEF Enabled, ListOK
  <2> HIDE DEF p, q
  <2>3. ASSUME NEW c \in states PROVE ~Prec(links, c, links[p]) /\ ~Prec(links, links[q], c)
    <3>1. PICK i \in 1..Len(links) : c = links[i]
      BY <1>1
    <3>2. i \in Enabled
      BY <3>1 DEF Enabled, ListOK
    <3>3. p <= i /\ i <= q
      BY <1>2, <2>1, <3>2
    <3>. QED BY <1>2, <1>3, <2>2, <3>1, <3>3
  <2>. QED BY <1>5, <2>2, <2>3 DEF PathStart, PathEnd, IsFirst, IsEnd, Streams, p, q
<1>. QED BY <1>4, <1>5

-----------------------------------------------------------------------------
(* The calls.                                                               *)

\* A block's setInput(), or the change of out with its callback.
LEMMA RewireCall ==
  ASSUME NEW a \in Blocks \cup {None}, NEW x, todo # <<>>, Head(todo) = Rewire(a, x), DoCall
  PROVE  /\ todo' = Tail(todo) /\ pending' = pending
         /\ links' = links /\ states' = states /\ in' = in
         /\ running' = running /\ started' = started
         /\ a = None => out' = x /\ consumerIn' = x /\ input' = input
         /\ a # None => /\ input' = [input EXCEPT ![a] = x]
                        /\ out' = out /\ consumerIn' = consumerIn
<1>1. CASE a = None
  <2>1. Head(todo).call = "output" /\ Head(todo).to = x
    BY <1>1 DEF Rewire, Call
  <2>. QED BY <1>1, <2>1 DEF DoCall, BlockSetInput, ChangeOutput, WireConsumer, Enable, Disable,
              BlockStart, BlockStop, SetRunning, Unlink, NextCall
<1>2. CASE a # None
  <2>1. Head(todo).call = "input" /\ Head(todo).to = x /\ Head(todo).block = a
    BY <1>2 DEF Rewire, Call
  <2>. QED BY <1>2, <2>1 DEF DoCall, BlockSetInput, ChangeOutput, WireConsumer, Enable, Disable,
              BlockStart, BlockStop, SetRunning, Unlink, NextCall, chainVars
<1>. QED BY <1>1, <1>2

\* What the other calls leave alone.
LEMMA OtherCall ==
  ASSUME todo # <<>>, DoCall, Head(todo).call \notin {"input", "output"}
  PROVE  /\ todo' = Tail(todo) /\ pending' = pending /\ in' = in
         /\ input' = input /\ out' = out
         /\ Head(todo).call # "consumer" => consumerIn' = consumerIn
         /\ Head(todo).call # "running" => running' = running
         /\ Head(todo).call # "unlink" => links' = links
         /\ Head(todo).call \notin {"enable", "disable"} => states' = states
         /\ Head(todo).call \in {"consumer", "running", "unlink"} => started' = started
         /\ Head(todo).call = "consumer" => consumerIn' = Head(todo).to
         /\ Head(todo).call = "running" => running' = ~running
         /\ Head(todo).call = "unlink" => links' = RemoveAt(links, Pos(Head(todo).block))
         /\ Head(todo).call = "enable" =>
              /\ states' = states \cup {Head(todo).block}
              /\ started' = IF running THEN started \cup {Head(todo).block} ELSE started
         /\ Head(todo).call = "disable" =>
              /\ states' = states \ {Head(todo).block}
              /\ started' = started \ {Head(todo).block}
         /\ Head(todo).call = "start" =>
              started' = started \cup ({Head(todo).block} \cap states)
         /\ Head(todo).call = "stop" =>
              started' = started \ ({Head(todo).block} \cap states)
BY DEF DoCall, BlockSetInput, ChangeOutput, WireConsumer, Enable, Disable, BlockStart, BlockStop,
       SetRunning, Unlink, NextCall, chainVars, wireVars

\* The list is sound after a rewiring.
LEMMA RewireList ==
  ASSUME ListOK, NEW a \in Blocks \cup {None}, NEW x \in Streams, todo # <<>>,
         Head(todo) = Rewire(a, x), DoCall
  PROVE  ListOK'
<1>1. /\ pending' = pending /\ links' = links /\ states' = states /\ in' = in
      /\ running' = running
      /\ a = None => input' = input
      /\ a # None => input' = [input EXCEPT ![a] = x]
  BY RewireCall
<1>2. input' \in [Blocks -> Streams \cup {None}]
  BY <1>1 DEF ListOK
<1>. QED BY <1>1, <1>2 DEF ListOK

\* A rewiring of the block behind b, when all else is wired for the path with b in it already.
LEMMA EnablePath ==
  ASSUME ListOK, NEW b \in Elems(links), b \notin states, NEW a \in Blocks \cup {None},
         IsAfter(links, states, b, a), Path(states, states, in),
         links' = links /\ in' = in,
         a = None => out' = b /\ consumerIn' = b /\ input' = input,
         a # None => /\ input' = [input EXCEPT ![a] = b]
                     /\ out' = out /\ consumerIn' = consumerIn
  PROVE  /\ Wired(links', states \cup {b}, states, in', input')
         /\ IsEnd(links', states \cup {b}, in', out') /\ consumerIn' = out'
<1>1. /\ links \in Seq(Blocks) /\ Distinct(links) /\ states \in SUBSET Elems(links)
      /\ in \in Inputs /\ states \subseteq Blocks /\ None \notin states
      /\ input \in [Blocks -> Streams \cup {None}]
  BY PrecOrder, DisjointAssumption DEF ListOK
<1>2. /\ \A c \in states : \A y : c # a /\ IsBefore(links, states, in, c, y)
                                => IsBefore(links, states \cup {b}, in, c, y)
      /\ a # None => IsBefore(links, states \cup {b}, in, a, b)
      /\ a = None => IsEnd(links, states \cup {b}, in, b)
      /\ \A y : a # None /\ IsEnd(links, states, in, y) => IsEnd(links, states \cup {b}, in, y)
  <2>1. links \in Seq(Blocks) /\ Distinct(links) /\ states \in SUBSET Elems(links) /\ in \in Inputs
    BY <1>1
  <2>. QED BY <2>1, Join
<1>3. ASSUME NEW c \in states
      PROVE  IsBefore(links, states \cup {b}, in, c, input'[c])
  <2>1. IsBefore(links, states, in, c, input[c])
    BY DEF Path, Wired
  <2>2. CASE c = a
    BY <1>1, <1>2, <2>2
  <2>3. CASE c # a
    <3>1. input'[c] = input[c]
      BY <1>1, <2>3
    <3>. QED BY <1>2, <2>1, <2>3, <3>1
  <2>. QED BY <2>2, <2>3
<1>4. IsEnd(links, states \cup {b}, in, out') /\ consumerIn' = out'
  BY <1>2 DEF Path
<1>. QED BY <1>3, <1>4 DEF Wired

\* A rewiring of the block behind b, which has left the path.
LEMMA DisablePath ==
  ASSUME ListOK, NEW b \in Elems(links), b \notin states, NEW a \in Blocks \cup {None},
         NEW x \in Streams, IsAfter(links, states, b, a), IsBefore(links, states, in, b, x),
         Path(states \cup {b}, states, in), links' = links /\ in' = in,
         a = None => out' = x /\ consumerIn' = x /\ input' = input,
         a # None => /\ input' = [input EXCEPT ![a] = x]
                     /\ out' = out /\ consumerIn' = consumerIn
  PROVE  /\ Wired(links', states, states, in', input')
         /\ IsEnd(links', states, in', out') /\ consumerIn' = out'
<1>1. /\ links \in Seq(Blocks) /\ Distinct(links) /\ states \in SUBSET Elems(links)
      /\ in \in Inputs /\ states \subseteq Blocks /\ None \notin states
      /\ input \in [Blocks -> Streams \cup {None}]
  BY PrecOrder, DisjointAssumption DEF ListOK
<1>2. /\ \A c \in states : \A y : c # a /\ IsBefore(links, states \cup {b}, in, c, y)
                                => IsBefore(links, states, in, c, y)
      /\ a # None => IsBefore(links, states, in, a, x)
      /\ a = None => IsEnd(links, states, in, x)
      /\ \A y : a # None /\ IsEnd(links, states \cup {b}, in, y) => IsEnd(links, states, in, y)
  BY <1>1, Leave
<1>3. ASSUME NEW c \in states
      PROVE  IsBefore(links, states, in, c, input'[c])
  <2>1. IsBefore(links, states \cup {b}, in, c, input[c])
    BY DEF Path, Wired
  <2>2. CASE c = a
    BY <1>1, <1>2, <2>2
  <2>3. CASE c # a
    <3>1. input'[c] = input[c]
      BY <1>1, <2>3
    <3>. QED BY <1>2, <2>1, <2>3, <3>1
  <2>. QED BY <2>2, <2>3
<1>4. IsEnd(links, states, in, out') /\ consumerIn' = out'
  BY <1>2 DEF Path
<1>. QED BY <1>3, <1>4 DEF Wired

-----------------------------------------------------------------------------
(* One lemma for each operation: its calls keep the invariant.              *)

\* enableBlock.
LEMMA EnablingKeeps ==
  ASSUME ListOK, NEW b \in Elems(links), Enabling(b), DoCall
  PROVE  ChainInv'
<1>0. PICK a \in Blocks \cup {None}, x \in Streams :
        /\ b \notin states /\ Runs(states)
        /\ IsAfter(links, states, b, a) /\ IsBefore(links, states, in, b, x)
        /\ \/ todo = <<Rewire(a, b), Rewire(b, x), StartIfRunning(b)>> /\ Path(states, states, in)
           \/ todo = <<Rewire(b, x), StartIfRunning(b)>> /\ Path(states \cup {b}, states, in)
           \/ todo = <<StartIfRunning(b)>> /\ Path(states \cup {b}, states \cup {b}, in)
  BY DEF Enabling
<1>1. /\ links \in Seq(Blocks) /\ Distinct(links) /\ states \in SUBSET Elems(links)
      /\ in \in Inputs /\ b \in Blocks /\ b # None /\ b \in Streams
      /\ states \subseteq Blocks /\ input \in [Blocks -> Streams \cup {None}]
  BY PrecOrder, DisjointAssumption DEF ListOK, Streams
<1>2. CASE todo = <<Rewire(a, b), Rewire(b, x), StartIfRunning(b)>> /\ Path(states, states, in)
  <2>1. Head(todo) = Rewire(a, b) /\ todo # <<>>
        /\ Tail(todo) = <<Rewire(b, x), StartIfRunning(b)>>
    BY <1>2
  <2>2. /\ todo' = <<Rewire(b, x), StartIfRunning(b)>> /\ pending' = pending
        /\ links' = links /\ states' = states /\ in' = in
        /\ running' = running /\ started' = started
        /\ a = None => out' = b /\ consumerIn' = b /\ input' = input
        /\ a # None => /\ input' = [input EXCEPT ![a] = b]
                       /\ out' = out /\ consumerIn' = consumerIn
    BY <2>1, RewireCall
  <2>3. ListOK'
    BY <1>1, <2>1, RewireList
  <2>4. Path(states \cup {b}, states, in)'
    BY <1>0, <1>2, <2>2, EnablePath DEF Path
  <2>5. Runs(states)'
    BY <1>0, <2>2 DEF Runs
  <2>6. Enabling(b)'
    BY <1>0, <2>2, <2>4, <2>5 DEF Enabling
  <2>. QED BY <2>2, <2>3, <2>6 DEF ChainInv, Stage
<1>3. CASE todo = <<Rewire(b, x), StartIfRunning(b)>> /\ Path(states \cup {b}, states, in)
  <2>1. Head(todo) = Rewire(b, x) /\ todo # <<>> /\ Tail(todo) = <<StartIfRunning(b)>>
    BY <1>3
  <2>2. /\ todo' = <<StartIfRunning(b)>> /\ pending' = pending
        /\ links' = links /\ states' = states /\ in' = in
        /\ running' = running /\ started' = started
        /\ input' = [input EXCEPT ![b] = x]
        /\ out' = out /\ consumerIn' = consumerIn
    <3>1. b \in Blocks \cup {None}
      BY <1>1
    <3>2. b # None => /\ input' = [input EXCEPT ![b] = x]
                      /\ out' = out /\ consumerIn' = consumerIn
      BY <2>1, <3>1, RewireCall
    <3>3. /\ todo' = Tail(todo) /\ pending' = pending
          /\ links' = links /\ states' = states /\ in' = in
          /\ running' = running /\ started' = started
      BY <2>1, <3>1, RewireCall
    <3>. QED BY <1>1, <2>1, <3>2, <3>3
  <2>3. ListOK'
    BY <1>1, <2>1, RewireList
  <2>4. IsBefore(links, states \cup {b}, in, b, x)
    BY <1>0, <1>1, Join
  <2>5. \A c \in states : input'[c] = input[c]
    BY <1>0, <1>1, <2>2
  <2>6. Wired(links, states \cup {b}, states \cup {b}, in, input')
    BY <1>1, <1>3, <2>2, <2>4, <2>5 DEF Path, Wired
  <2>7. Path(states \cup {b}, states \cup {b}, in)'
    BY <1>3, <2>2, <2>6 DEF Path
  <2>8. Runs(states)'
    BY <1>0, <2>2 DEF Runs
  <2>9. Enabling(b)'
    BY <1>0, <2>2, <2>7, <2>8 DEF Enabling
  <2>. QED BY <2>2, <2>3, <2>9 DEF ChainInv, Stage
<1>4. CASE todo = <<StartIfRunning(b)>> /\ Path(states \cup {b}, states \cup {b}, in)
  <2>1. /\ Head(todo).call = "enable" /\ Head(todo).block = b /\ todo # <<>>
        /\ Tail(todo) = <<>>
    BY <1>4 DEF StartIfRunning, Call
  <2>2. /\ todo' = <<>> /\ pending' = pending
        /\ links' = links /\ states' = states \cup {b} /\ in' = in
        /\ running' = running /\ input' = input /\ out' = out /\ consumerIn' = consumerIn
        /\ started' = IF running THEN started \cup {b} ELSE started
    BY <2>1, OtherCall
  <2>3. ListOK'
    BY <2>2 DEF ListOK
  <2>4. Path(states, states, in)'
    BY <1>4, <2>2 DEF Path
  <2>5. Runs(states)'
    BY <1>0, <2>2 DEF Runs
  <2>. QED BY <2>2, <2>3, <2>4, <2>5 DEF ChainInv, Stage, Settled
<1>. QED BY <1>0, <1>2, <1>3, <1>4

\* disableBlock, alone or as the first part of removeBlock.
LEMMA DisablingKeeps ==
  ASSUME ListOK, NEW b \in Elems(links), Disabling(b), DoCall
  PROVE  ChainInv'
<1>0. PICK a \in Blocks \cup {None}, x \in Streams :
        /\ Runs(states)
        /\ IsAfter(links, states, b, a) /\ IsBefore(links, states, in, b, x)
        /\ \/ /\ b \in states /\ Path(states, states, in)
              /\ \/ todo = <<StopBlock(b), Rewire(a, x)>>
                 \/ todo = <<StopBlock(b), Rewire(a, x), UnlinkCall(b)>> /\ pending = <<>>
           \/ /\ b \notin states /\ Path(states \cup {b}, states, in)
              /\ \/ todo = <<Rewire(a, x)>>
                 \/ todo = <<Rewire(a, x), UnlinkCall(b)>> /\ pending = <<>>
  BY DEF Disabling
<1>1. /\ links \in Seq(Blocks) /\ Distinct(links) /\ states \in SUBSET Elems(links)
      /\ in \in Inputs /\ b \in Blocks /\ b # None /\ b \in Streams
      /\ states \subseteq Blocks /\ input \in [Blocks -> Streams \cup {None}]
  BY PrecOrder, DisjointAssumption DEF ListOK, Streams
<1>2. CASE b \in states
  <2>1. /\ Head(todo).call = "disable" /\ Head(todo).block = b /\ todo # <<>>
        /\ \/ Tail(todo) = <<Rewire(a, x)>>
           \/ Tail(todo) = <<Rewire(a, x), UnlinkCall(b)>> /\ pending = <<>>
    <3>1. CASE todo = <<StopBlock(b), Rewire(a, x)>>
      <4>1. Head(todo) = StopBlock(b) /\ Tail(todo) = <<Rewire(a, x)>> /\ todo # <<>>
        BY <3>1
      <4>. QED BY <4>1 DEF StopBlock, Call
    <3>2. CASE todo = <<StopBlock(b), Rewire(a, x), UnlinkCall(b)>> /\ pending = <<>>
      <4>1. /\ Head(todo) = StopBlock(b) /\ todo # <<>>
            /\ Tail(todo) = <<Rewire(a, x), UnlinkCall(b)>>
        BY <3>2
      <4>. QED BY <3>2, <4>1 DEF StopBlock, Call
    <3>. QED BY <1>0, <1>2, <3>1, <3>2
  <2>2. /\ todo' = Tail(todo) /\ pending' = pending
        /\ links' = links /\ states' = states \ {b} /\ in' = in
        /\ running' = running /\ input' = input /\ out' = out /\ consumerIn' = consumerIn
        /\ started' = started \ {b}
    BY <2>1, OtherCall
  <2>3. ListOK'
    BY <2>2 DEF ListOK
  <2>4. Path(states \cup {b}, states, in)'
    <3>1. states' \cup {b} = states
      BY <1>2, <2>2
    <3>. QED BY <1>0, <1>2, <2>2, <3>1 DEF Path, Wired
  <2>5. Runs(states)'
    BY <1>0, <2>2 DEF Runs
  <2>6. IsAfter(links, states, b, a)' /\ IsBefore(links, states, in, b, x)'
    <3>1. ~Prec(links, b, b)
      BY <1>1, PrecOrder
    <3>. QED BY <1>0, <1>1, <2>2, <3>1 DEF IsAfter, IsBefore
  <2>7. Disabling(b)'
    BY <2>1, <2>2, <2>4, <2>5, <2>6 DEF Disabling
  <2>. QED BY <2>2, <2>3, <2>7 DEF ChainInv, Stage
<1>3. CASE b \notin states
  <2>1. /\ Head(todo) = Rewire(a, x) /\ todo # <<>>
        /\ \/ Tail(todo) = <<>>
           \/ Tail(todo) = <<UnlinkCall(b)>> /\ pending = <<>>
    <3>1. CASE todo = <<Rewire(a, x)>>
      BY <3>1
    <3>2. CASE todo = <<Rewire(a, x), UnlinkCall(b)>> /\ pending = <<>>
      BY <3>2
    <3>. QED BY <1>0, <1>3, <3>1, <3>2
  <2>2. /\ todo' = Tail(todo) /\ pending' = pending
        /\ links' = links /\ states' = states /\ in' = in
        /\ running' = running /\ started' = started
        /\ a = None => out' = x /\ consumerIn' = x /\ input' = input
        /\ a # None => /\ input' = [input EXCEPT ![a] = x]
                       /\ out' = out /\ consumerIn' = consumerIn
    BY <2>1, RewireCall
  <2>3. ListOK'
    BY <2>1, RewireList
  <2>4. Path(states, states, in)'
    BY <1>0, <1>3, <2>2, DisablePath DEF Path
  <2>5. Runs(states)'
    BY <1>0, <2>2 DEF Runs
  <2>6. CASE Tail(todo) = <<>>
    BY <2>2, <2>3, <2>4, <2>5, <2>6 DEF ChainInv, Stage, Settled
  <2>7. CASE Tail(todo) = <<UnlinkCall(b)>> /\ pending = <<>>
    <3>1. Unlinking(b)'
      BY <1>3, <2>2, <2>4, <2>5, <2>7 DEF Unlinking
    <3>. QED BY <2>2, <2>3, <3>1 DEF ChainInv, Stage
  <2>. QED BY <2>1, <2>6, <2>7
<1>. QED BY <1>2, <1>3

\* The end of removeBlock.
LEMMA UnlinkingKeeps ==
  ASSUME ListOK, NEW b \in Elems(links), Unlinking(b), DoCall
  PROVE  ChainInv'
<1>1. /\ links \in Seq(Blocks) /\ Distinct(links) /\ states \in SUBSET Elems(links)
      /\ in \in Inputs /\ b \notin states
  BY DEF ListOK, Unlinking
<1>2. /\ Head(todo).call = "unlink" /\ Head(todo).block = b /\ todo # <<>> /\ Tail(todo) = <<>>
  BY DEF Unlinking, UnlinkCall, Call
<1>3. /\ todo' = <<>> /\ pending' = <<>> /\ states' = states /\ in' = in /\ running' = running
      /\ input' = input /\ out' = out /\ consumerIn' = consumerIn /\ started' = started
      /\ links' = RemoveAt(links, Pos(b))
  BY <1>2, OtherCall DEF Unlinking
<1>4. Pos(b) \in 1..Len(links) /\ links[Pos(b)] = b
  BY Position
<1>5. /\ links' \in Seq(Blocks) /\ Distinct(links') /\ Elems(links') = Elems(links) \ {b}
      /\ \A a, c \in Elems(links') : Prec(links', a, c) <=> Prec(links, a, c)
  BY <1>1, <1>3, <1>4, RemoveOrder
<1>6. states \in SUBSET Elems(links')
  BY <1>1, <1>5
<1>7. ListOK'
  BY <1>3, <1>5, <1>6 DEF ListOK
<1>8. Path(states, states, in)'
  <2>1. \A c \in Elems(links') : \A x :
          IsBefore(links, states, in, c, x) => IsBefore(links', states, in, c, x)
    BY <1>5, <1>6, SameOrder
  <2>2. \A x : IsEnd(links, states, in, x) => IsEnd(links', states, in, x)
    BY <1>5, <1>6, SameOrder
  <2>. QED BY <1>3, <1>6, <2>1, <2>2 DEF Unlinking, Path, Wired
<1>9. Runs(states)'
  BY <1>3 DEF Unlinking, Runs
<1>. QED BY <1>3, <1>7, <1>8, <1>9 DEF ChainInv, Stage, Settled

\* chain::setInput.
LEMMA FeedingKeeps ==
  ASSUME ListOK, NEW s \in Inputs, Feeding(s), DoCall
  PROVE  ChainInv'
<1>0. PICK f \in Blocks \cup {None} :
        /\ IsFirst(links, states, f) /\ todo = <<Rewire(f, in)>>
        /\ Path(states, states, s) /\ Runs(states)
  BY DEF Feeding
<1>1. /\ links \in Seq(Blocks) /\ Distinct(links) /\ states \in SUBSET Elems(links)
      /\ in \in Inputs /\ in \in Streams /\ states \subseteq Blocks
      /\ None \notin states /\ input \in [Blocks -> Streams \cup {None}]
  BY PrecOrder, DisjointAssumption DEF ListOK, Streams
<1>2. Head(todo) = Rewire(f, in) /\ todo # <<>> /\ Tail(todo) = <<>>
  BY <1>0
<1>3. /\ todo' = <<>> /\ pending' = pending
      /\ links' = links /\ states' = states /\ in' = in
      /\ running' = running /\ started' = started
      /\ f = None => out' = in /\ consumerIn' = in /\ input' = input
      /\ f # None => /\ input' = [input EXCEPT ![f] = in]
                     /\ out' = out /\ consumerIn' = consumerIn
  BY <1>2, RewireCall
<1>4. ListOK'
  BY <1>1, <1>2, RewireList
<1>f. /\ \A c \in states : \A y : c # f /\ IsBefore(links, states, s, c, y)
                                => IsBefore(links, states, in, c, y)
      /\ f # None => IsBefore(links, states, in, f, in)
      /\ f = None => IsEnd(links, states, in, in)
      /\ \A y : f # None /\ IsEnd(links, states, s, y) => IsEnd(links, states, in, y)
  BY <1>0, <1>1, Feed
<1>5. ASSUME NEW c \in states
      PROVE  IsBefore(links, states, in, c, input'[c])
  <2>1. IsBefore(links, states, s, c, input[c])
    BY <1>0 DEF Path, Wired
  <2>2. CASE c = f
    BY <1>1, <1>3, <1>f, <2>2
  <2>3. CASE c # f
    <3>1. input'[c] = input[c]
      BY <1>1, <1>3, <2>3
    <3>. QED BY <1>f, <2>1, <2>3, <3>1
  <2>. QED BY <2>2, <2>3
<1>6. IsEnd(links, states, in, out') /\ consumerIn' = out'
  BY <1>0, <1>3, <1>f DEF Path
<1>7. Path(states, states, in)'
  BY <1>3, <1>5, <1>6 DEF Path, Wired
<1>8. Runs(states)'
  BY <1>0, <1>3 DEF Runs
<1>. QED BY <1>3, <1>4, <1>7, <1>8 DEF ChainInv, Stage, Settled

\* addBlock with enabled = true.
LEMMA AddingKeeps ==
  ASSUME ListOK, NEW b \in Elems(links), Adding(b), DoCall
  PROVE  ChainInv'
<1>1. /\ links \in Seq(Blocks) /\ Distinct(links) /\ states \in SUBSET Elems(links)
      /\ in \in Inputs /\ b \in Blocks /\ b # None
      /\ states \subseteq Blocks /\ input \in [Blocks -> Streams \cup {None}]
  BY PrecOrder, DisjointAssumption DEF ListOK
<1>2. ~running /\ started = {} /\ out = b
  BY DEF Adding
<1>3. ASSUME NEW x \in Streams,
             todo = <<Rewire(b, x), StartIfRunning(b), ConsumerCall(b)>>,
             b \notin states, IsBefore(links, states, in, b, x),
             IsEnd(links, states \cup {b}, in, b),
             Wired(links, states \cup {b}, states, in, input)
      PROVE  ChainInv'
  <2>1. /\ Head(todo) = Rewire(b, x) /\ todo # <<>>
        /\ Tail(todo) = <<StartIfRunning(b), ConsumerCall(b)>>
    BY <1>3
  <2>2. /\ todo' = <<StartIfRunning(b), ConsumerCall(b)>> /\ pending' = pending
        /\ links' = links /\ states' = states /\ in' = in
        /\ running' = running /\ started' = started
        /\ input' = [input EXCEPT ![b] = x]
        /\ out' = out /\ consumerIn' = consumerIn
    <3>1. b \in Blocks \cup {None}
      BY <1>1
    <3>2. b # None => /\ input' = [input EXCEPT ![b] = x]
                      /\ out' = out /\ consumerIn' = consumerIn
      BY <2>1, <3>1, RewireCall
    <3>3. /\ todo' = Tail(todo) /\ pending' = pending
          /\ links' = links /\ states' = states /\ in' = in
          /\ running' = running /\ started' = started
      BY <2>1, <3>1, RewireCall
    <3>. QED BY <1>1, <2>1, <3>2, <3>3
  <2>3. ListOK'
    BY <1>1, <2>1, RewireList
  <2>4. IsBefore(links, states \cup {b}, in, b, x)
    <3>1. ~Prec(links, b, b)
      BY <1>1, PrecOrder
    <3>. QED BY <1>3, <3>1 DEF IsBefore
  <2>5. \A c \in states : input'[c] = input[c]
    BY <1>1, <1>3, <2>2
  <2>6. Wired(links, states \cup {b}, states \cup {b}, in, input')
    BY <1>1, <1>3, <2>2, <2>4, <2>5 DEF Wired
  <2>7. Adding(b)'
    BY <1>2, <1>3, <2>2, <2>6 DEF Adding
  <2>. QED BY <2>2, <2>3, <2>7 DEF ChainInv, Stage
<1>4. CASE /\ todo = <<StartIfRunning(b), ConsumerCall(b)>>
           /\ b \notin states /\ IsEnd(links, states \cup {b}, in, b)
           /\ Wired(links, states \cup {b}, states \cup {b}, in, input)
  <2>1. /\ Head(todo).call = "enable" /\ Head(todo).block = b /\ todo # <<>>
        /\ Tail(todo) = <<ConsumerCall(b)>>
    BY <1>4 DEF StartIfRunning, Call
  <2>2. /\ todo' = <<ConsumerCall(b)>> /\ pending' = pending
        /\ links' = links /\ states' = states \cup {b} /\ in' = in
        /\ running' = running /\ input' = input /\ out' = out /\ consumerIn' = consumerIn
        /\ started' = IF running THEN started \cup {b} ELSE started
    BY <2>1, OtherCall
  <2>3. ListOK'
    BY <2>2 DEF ListOK
  <2>4. Adding(b)'
    BY <1>2, <1>4, <2>2 DEF Adding
  <2>. QED BY <2>2, <2>3, <2>4 DEF ChainInv, Stage
<1>5. CASE /\ todo = <<ConsumerCall(b)>>
           /\ b \in states /\ IsEnd(links, states, in, b)
           /\ Wired(links, states, states, in, input)
  <2>1. /\ Head(todo).call = "consumer" /\ Head(todo).to = b /\ todo # <<>> /\ Tail(todo) = <<>>
    BY <1>5 DEF ConsumerCall, Call
  <2>2. /\ todo' = <<>> /\ pending' = pending
        /\ links' = links /\ states' = states /\ in' = in
        /\ running' = running /\ input' = input /\ out' = out /\ consumerIn' = b
        /\ started' = started
    BY <2>1, OtherCall
  <2>3. ListOK'
    BY <2>2 DEF ListOK
  <2>4. Path(states, states, in)' /\ Runs(states)'
    BY <1>2, <1>5, <2>2 DEF Path, Runs
  <2>. QED BY <2>2, <2>3, <2>4 DEF ChainInv, Stage, Settled
<1>. QED BY <1>3, <1>4, <1>5 DEF Adding

\* The rest of a loop after one of its calls.
LEMMA LoopGoesOn ==
  ASSUME NEW name, Loop(name), Len(todo) # 1, todo' = Tail(todo)
  PROVE  /\ Loop(name)' /\ Head(todo).call = name
         /\ \A b : StillTo(b) /\ Head(todo).block # b => StillTo(b)'
<1> DEFINE n == Len(todo)
           C == [call : {name, "running"}, block : Blocks \cup {None}, to : {None}]
<1>1. todo \in Seq(C) /\ todo # <<>> /\ todo[n] = RunningCall
      /\ \A k \in 1..(n - 1) : todo[k].call = name
  BY DEF Loop
<1> HIDE DEF C
<1>2. n \in Nat /\ n > 1 /\ Head(todo) = todo[1]
  <2>1. n \in Nat /\ n # 0 /\ Head(todo) = todo[1]
    BY <1>1
  <2> HIDE DEF n
  <2>2. n # 1
    BY DEF n
  <2>. QED BY <2>1, <2>2
<1>3. todo' \in Seq(C) /\ Len(todo') = n - 1 /\ \A k \in 1..(n - 1) : todo'[k] = todo[k + 1]
  BY <1>1, <1>2
<1> HIDE DEF n
<1>4. todo' # <<>> /\ todo'[Len(todo')] = RunningCall
  BY <1>1, <1>2, <1>3
<1>5. \A k \in 1..(Len(todo') - 1) : todo'[k].call = name
  BY <1>1, <1>2, <1>3
<1>6. Loop(name)'
  BY <1>3, <1>4, <1>5 DEF Loop, RunningCall, C
<1>7. Head(todo).call = name
  BY <1>1, <1>2
<1>8. ASSUME NEW b, StillTo(b), Head(todo).block # b PROVE StillTo(b)'
  <2>1. PICK k \in 1..(n - 1) : todo[k].block = b
    BY <1>8 DEF StillTo, n
  <2>2. k # 1
    BY <1>2, <1>8, <2>1
  <2>3. k - 1 \in 1..(Len(todo') - 1) /\ todo'[k - 1] = todo[k]
    BY <1>2, <1>3, <2>2
  <2>. QED BY <2>1, <2>3 DEF StillTo
<1>. QED BY <1>6, <1>7, <1>8

\* The last call of a loop.
LEMMA LoopEnds ==
  ASSUME NEW name, Loop(name), Len(todo) = 1
  PROVE  Head(todo) = RunningCall /\ Tail(todo) = <<>> /\ \A b : ~StillTo(b)
<1> DEFINE C == [call : {name, "running"}, block : Blocks \cup {None}, to : {None}]
<1>1. todo \in Seq(C) /\ todo[1] = RunningCall
  BY DEF Loop
<1> HIDE DEF C
<1>2. Head(todo) = RunningCall /\ Len(Tail(todo)) = 0 /\ Tail(todo) \in Seq(C)
  BY <1>1
<1>3. Tail(todo) = <<>>
  BY <1>2, EmptySeq
<1>. QED BY <1>2, <1>3 DEF StillTo

\* start() and stop() begin with all the blocks before them.
LEMMA LoopBegins ==
  ASSUME NEW name, ListOK, todo' = OnAll(name)
  PROVE  Loop(name)' /\ \A b \in Elems(links) : StillTo(b)'
<1> DEFINE n == Len(links)
           C == [call : {name, "running"}, block : Blocks \cup {None}, to : {None}]
           f == [i \in DOMAIN links |-> Call(name, links[i], None)]
<1>1. n \in Nat /\ DOMAIN links = 1..n /\ \A i \in 1..n : links[i] \in Blocks
  BY DEF ListOK
<1>2. \A i \in 1..n : f[i] = Call(name, links[i], None)
  BY <1>1
<1>3. f \in [1..n -> C]
  BY <1>1 DEF Call
<1>4. f \in Seq(C) /\ Len(f) = n
  BY <1>1, <1>3, SeqDef
<1>5. RunningCall \in C
  BY DEF RunningCall, Call
<1>6. todo' = Append(f, RunningCall)
  BY DEF OnAll, RunningCall
<1> HIDE DEF f, n
<1>7. /\ todo' \in Seq(C) /\ Len(todo') = n + 1 /\ todo'[n + 1] = RunningCall
      /\ \A i \in 1..n : todo'[i] = f[i]
  BY <1>4, <1>5, <1>6
<1>8. todo' # <<>> /\ Len(todo') - 1 = n
  BY <1>1, <1>7
<1>9. \A i \in 1..n : todo'[i].call = name /\ todo'[i].block = links[i]
  <2>1. \A i \in 1..n : todo'[i] = Call(name, links[i], None)
    BY <1>2, <1>7
  <2>2. \A b : Call(name, b, None).call = name /\ Call(name, b, None).block = b
    BY DEF Call
  <2>. QED BY <2>1, <2>2
<1>10. Loop(name)'
  <2>1. \A k \in 1..(Len(todo') - 1) : todo'[k].call = name
    BY <1>8, <1>9
  <2>2. todo'[Len(todo')] = RunningCall
    BY <1>7
  <2>. QED BY <1>7, <1>8, <2>1, <2>2 DEF Loop, RunningCall
<1>11. ASSUME NEW b \in Elems(links) PROVE StillTo(b)'
  <2>1. PICK i \in 1..n : links[i] = b
    BY DEF Elems, n
  <2>. QED BY <1>8, <1>9, <2>1 DEF StillTo
<1>. QED BY <1>10, <1>11

\* chain::start.
LEMMA StartingKeeps ==
  ASSUME ListOK, Starting, DoCall
  PROVE  ChainInv'
<1>0. /\ Loop("start") /\ ~running /\ Path(states, states, in) /\ started \subseteq states
      /\ \A b \in states \ started : StillTo(b)
  BY DEF Starting
<1>1. todo # <<>>
  BY <1>0 DEF Loop
<1>2. CASE Len(todo) = 1
  <2>1. Head(todo).call = "running" /\ Tail(todo) = <<>> /\ \A b : ~StillTo(b)
    BY <1>0, <1>2, LoopEnds DEF RunningCall, Call
  <2>2. /\ todo' = <<>> /\ pending' = pending
        /\ links' = links /\ states' = states /\ in' = in /\ running' = TRUE
        /\ input' = input /\ out' = out /\ consumerIn' = consumerIn /\ started' = started
    BY <1>0, <1>1, <2>1, OtherCall
  <2>3. ListOK'
    BY <2>2 DEF ListOK
  <2>4. Path(states, states, in)' /\ Runs(states)'
    BY <1>0, <2>1, <2>2 DEF Path, Runs
  <2>. QED BY <2>2, <2>3, <2>4 DEF ChainInv, Stage, Settled
<1>3. CASE Len(todo) # 1
  <2>1. todo' = Tail(todo)
    BY <1>1, <1>0, <1>3, LoopGoesOn DEF DoCall, BlockSetInput, ChangeOutput, WireConsumer, Enable,
       Disable, BlockStart, BlockStop, SetRunning, Unlink, NextCall
  <2>2. /\ Loop("start")' /\ Head(todo).call = "start"
        /\ \A b : StillTo(b) /\ Head(todo).block # b => StillTo(b)'
    BY <1>0, <1>3, <2>1, LoopGoesOn
  <2>3. /\ pending' = pending /\ links' = links /\ states' = states /\ in' = in
        /\ running' = running /\ input' = input /\ out' = out /\ consumerIn' = consumerIn
        /\ started' = started \cup ({Head(todo).block} \cap states)
    BY <1>1, <2>2, OtherCall
  <2>4. ListOK'
    BY <2>3 DEF ListOK
  <2>5. Path(states, states, in)'
    BY <1>0, <2>3 DEF Path
  <2>6. ASSUME NEW b \in states' \ started' PROVE StillTo(b)'
    <3>1. b \in states \ started /\ Head(todo).block # b
      BY <2>3
    <3>. QED BY <1>0, <2>2, <3>1
  <2>7. Starting'
    BY <1>0, <2>2, <2>3, <2>5, <2>6 DEF Starting
  <2>. QED BY <2>4, <2>7 DEF ChainInv, Stage
<1>. QED BY <1>2, <1>3

\* chain::stop.
LEMMA StoppingKeeps ==
  ASSUME ListOK, Stopping, DoCall
  PROVE  ChainInv'
<1>0. /\ Loop("stop") /\ running /\ Path(states, states, in) /\ started \subseteq states
      /\ \A b \in started : StillTo(b)
  BY DEF Stopping
<1>1. todo # <<>>
  BY <1>0 DEF Loop
<1>2. CASE Len(todo) = 1
  <2>1. Head(todo).call = "running" /\ Tail(todo) = <<>> /\ \A b : ~StillTo(b)
    BY <1>0, <1>2, LoopEnds DEF RunningCall, Call
  <2>2. /\ todo' = <<>> /\ pending' = pending
        /\ links' = links /\ states' = states /\ in' = in /\ running' = FALSE
        /\ input' = input /\ out' = out /\ consumerIn' = consumerIn /\ started' = started
    BY <1>0, <1>1, <2>1, OtherCall DEF ListOK
  <2>3. ListOK'
    BY <2>2 DEF ListOK
  <2>4. Path(states, states, in)' /\ Runs(states)'
    BY <1>0, <2>1, <2>2 DEF Path, Runs
  <2>. QED BY <2>2, <2>3, <2>4 DEF ChainInv, Stage, Settled
<1>3. CASE Len(todo) # 1
  <2>1. todo' = Tail(todo)
    BY <1>1, <1>0, <1>3, LoopGoesOn DEF DoCall, BlockSetInput, ChangeOutput, WireConsumer, Enable,
       Disable, BlockStart, BlockStop, SetRunning, Unlink, NextCall
  <2>2. /\ Loop("stop")' /\ Head(todo).call = "stop"
        /\ \A b : StillTo(b) /\ Head(todo).block # b => StillTo(b)'
    BY <1>0, <1>3, <2>1, LoopGoesOn
  <2>3. /\ pending' = pending /\ links' = links /\ states' = states /\ in' = in
        /\ running' = running /\ input' = input /\ out' = out /\ consumerIn' = consumerIn
        /\ started' = started \ ({Head(todo).block} \cap states)
    BY <1>1, <2>2, OtherCall
  <2>4. ListOK'
    BY <2>3 DEF ListOK
  <2>5. Path(states, states, in)'
    BY <1>0, <2>3 DEF Path
  <2>6. ASSUME NEW b \in started' PROVE StillTo(b)'
    <3>1. b \in started /\ Head(todo).block # b
      BY <1>0, <2>3
    <3>. QED BY <1>0, <2>2, <3>1
  <2>7. Stopping'
    BY <1>0, <2>2, <2>3, <2>5, <2>6 DEF Stopping
  <2>. QED BY <2>4, <2>7 DEF ChainInv, Stage
<1>. QED BY <1>2, <1>3

-----------------------------------------------------------------------------
(* The operations begin.                                                    *)

\* Without a call to make the chain is settled.
LEMMA IdleSettled ==
  ASSUME ChainInv, todo = <<>>
  PROVE  /\ ListOK /\ Settled
         /\ Path(states, states, in) /\ Runs(states)
BY DEF ChainInv, Stage, Settled, Starting, Stopping, Loop, Enabling, Disabling, Unlinking, Feeding,
       Adding

\* enableBlock gathers its neighbours and begins.
LEMMA EnableBegins ==
  ASSUME ListOK, Settled, ListOK', NEW b \in Elems(links), todo' = EnableCalls(b),
         UNCHANGED <<chainVars, wireVars>>
  PROVE  ChainInv'
<1>1. /\ links' = links /\ states' = states /\ in' = in /\ running' = running
      /\ input' = input /\ out' = out /\ consumerIn' = consumerIn /\ started' = started
  BY DEF chainVars, wireVars
<1>2. Path(states, states, in)' /\ Runs(states)'
  BY <1>1 DEF Settled, Path, Runs
<1>3. CASE b \in states
  BY <1>2, <1>3 DEF EnableCalls, ChainInv, Stage, Settled
<1>4. CASE b \notin states
  <2>1. /\ IsAfter(links, states, b, BlockAfter(b)) /\ BlockAfter(b) \in Blocks \cup {None}
        /\ IsBefore(links, states, in, b, BlockBefore(b)) /\ BlockBefore(b) \in Streams
    BY BlockAfterFinds, BlockBeforeFinds
  <2>2. todo' = <<Rewire(BlockAfter(b), b), Rewire(b, BlockBefore(b)), StartIfRunning(b)>>
    BY <1>4 DEF EnableCalls
  <2> DEFINE a == BlockAfter(b)
             x == BlockBefore(b)
  <2>3. a \in Blocks \cup {None} /\ x \in Streams
    BY <2>1
  <2>4. /\ b \notin states' /\ Runs(states)'
        /\ IsAfter(links', states', b, a) /\ IsBefore(links', states', in', b, x)
        /\ todo' = <<Rewire(a, b), Rewire(b, x), StartIfRunning(b)>> /\ Path(states, states, in)'
    BY <1>1, <1>2, <1>4, <2>1, <2>2
  <2> HIDE DEF a, x
  <2>5. Enabling(b)'
    BY <2>3, <2>4 DEF Enabling
  <2>. QED BY <1>1, <2>5 DEF ChainInv, Stage
<1>. QED BY <1>3, <1>4

\* disableBlock likewise, with the removal to follow or without.
LEMMA DisableBegins ==
  ASSUME ListOK, Settled, ListOK', NEW b \in Elems(links),
         \/ todo' = DisableCalls(b)
         \/ todo' = Append(DisableCalls(b), UnlinkCall(b)) /\ pending' = <<>>,
         UNCHANGED <<chainVars, wireVars>>
  PROVE  ChainInv'
<1>1. /\ links' = links /\ states' = states /\ in' = in /\ running' = running
      /\ input' = input /\ out' = out /\ consumerIn' = consumerIn /\ started' = started
  BY DEF chainVars, wireVars
<1>2. Path(states, states, in)' /\ Runs(states)'
  BY <1>1 DEF Settled, Path, Runs
<1>3. CASE b \notin states
  <2>1. todo' = <<>> \/ (todo' = <<UnlinkCall(b)>> /\ pending' = <<>>)
    BY <1>3 DEF DisableCalls
  <2>2. CASE todo' = <<>>
    BY <1>2, <2>2 DEF ChainInv, Stage, Settled
  <2>3. CASE todo' = <<UnlinkCall(b)>> /\ pending' = <<>>
    <3>1. Unlinking(b)'
      BY <1>1, <1>2, <1>3, <2>3 DEF Unlinking
    <3>. QED BY <1>1, <3>1 DEF ChainInv, Stage
  <2>. QED BY <2>1, <2>2, <2>3
<1>4. CASE b \in states
  <2>1. /\ IsAfter(links, states, b, BlockAfter(b)) /\ BlockAfter(b) \in Blocks \cup {None}
        /\ IsBefore(links, states, in, b, BlockBefore(b)) /\ BlockBefore(b) \in Streams
    BY BlockAfterFinds, BlockBeforeFinds
  <2> DEFINE a == BlockAfter(b)
             x == BlockBefore(b)
  <2>2. \/ todo' = <<StopBlock(b), Rewire(a, x)>>
        \/ todo' = <<StopBlock(b), Rewire(a, x), UnlinkCall(b)>> /\ pending' = <<>>
    BY <1>4 DEF DisableCalls
  <2>3. a \in Blocks \cup {None} /\ x \in Streams
    BY <2>1
  <2>4. /\ b \in states' /\ Runs(states)'
        /\ IsAfter(links', states', b, a) /\ IsBefore(links', states', in', b, x)
        /\ Path(states, states, in)'
    BY <1>1, <1>2, <1>4, <2>1
  <2> HIDE DEF a, x
  <2>5. Disabling(b)'
    BY <2>2, <2>3, <2>4 DEF Disabling
  <2>. QED BY <1>1, <2>5 DEF ChainInv, Stage
<1>. QED BY <1>3, <1>4

\* enableAllBlocks, disableAllBlocks: what is still to come of the loop.
LEMMA PendingAll ==
  ASSUME ListOK, NEW kind \in {"enable", "disable"},
         NEW p, p = [i \in DOMAIN links |-> <<kind, links[i]>>]
  PROVE  p \in Seq({"enable", "disable"} \X Elems(links))
<1>1. Len(links) \in Nat /\ DOMAIN links = 1..Len(links)
  BY DEF ListOK
<1>2. p \in [1..Len(links) -> {"enable", "disable"} \X Elems(links)]
  BY <1>1 DEF Elems
<1>. QED BY <1>1, <1>2, SeqDef

\* A step of enableAllBlocks or disableAllBlocks.
LEMMA NextOfAllKeeps ==
  ASSUME ChainInv, NextOfAll
  PROVE  ChainInv'
<1>1. ListOK /\ Settled /\ pending # <<>> /\ pending' = Tail(pending)
  BY IdleSettled DEF NextOfAll
<1>2. pending[1] \in {"enable", "disable"} \X Elems(links)
      /\ pending' \in Seq({"enable", "disable"} \X Elems(links))
  BY <1>1 DEF ListOK
<1>3. ListOK'
  BY <1>1, <1>2 DEF ListOK, NextOfAll, chainVars, wireVars
<1>4. pending[1][2] \in Elems(links)
  BY <1>2
<1>5. todo' = EnableCalls(pending[1][2]) \/ todo' = DisableCalls(pending[1][2])
  BY DEF NextOfAll
<1>6. UNCHANGED <<chainVars, wireVars>>
  BY DEF NextOfAll
<1>. QED BY <1>1, <1>3, <1>4, <1>5, <1>6, EnableBegins, DisableBegins

\* addBlock.
LEMMA AddKeeps ==
  ASSUME ChainInv, NEW b \in Blocks, AddBlock(b) \/ AddBlockEnabled(b)
  PROVE  ChainInv'
<1>1. ListOK /\ Path(states, states, in) /\ Runs(states) /\ todo = <<>> /\ pending = <<>>
  BY IdleSettled DEF AddBlock, AddBlockEnabled, Idle
<1>2. b \notin Elems(links) /\ links' = Append(links, b)
  BY DEF AddBlock, AddBlockEnabled, InLinks, Contains, Elems
<1>3. /\ links \in Seq(Blocks) /\ Distinct(links) /\ states \in SUBSET Elems(links)
      /\ in \in Inputs
  BY <1>1 DEF ListOK
<1>4. /\ links' \in Seq(Blocks) /\ Distinct(links') /\ Elems(links') = Elems(links) \cup {b}
      /\ \A a, c \in Elems(links) : Prec(links', a, c) <=> Prec(links, a, c)
      /\ \A a \in Elems(links) : Prec(links', a, b) /\ ~Prec(links', b, a)
  BY <1>2, <1>3, AppendOrder
<1>5. /\ states' = states /\ in' = in /\ running' = running /\ input' = input
      /\ consumerIn' = consumerIn /\ started' = started /\ pending' = <<>>
  BY <1>1 DEF AddBlock, AddBlockEnabled, Begin, wireVars
<1>6. ListOK'
  BY <1>1, <1>4, <1>5 DEF ListOK
<1>7. /\ \A c \in Elems(links) : \A x :
           IsBefore(links, states, in, c, x) => IsBefore(links', states, in, c, x)
      /\ \A x : IsEnd(links, states, in, x) => IsEnd(links', states, in, x)
  BY <1>3, <1>4, SameOrder
<1>8. Wired(links', states, states, in, input)
  BY <1>1, <1>3, <1>7 DEF Path, Wired
<1>9. CASE AddBlock(b)
  <2>1. todo' = <<>> /\ out' = out
    BY <1>1, <1>9 DEF AddBlock
  <2>2. Path(states, states, in)' /\ Runs(states)'
    BY <1>1, <1>5, <1>7, <1>8, <2>1 DEF Path, Runs
  <2>. QED BY <1>6, <2>1, <2>2 DEF ChainInv, Stage, Settled
<1>10. CASE AddBlockEnabled(b)
  <2>1. /\ out' = b /\ ~running
        /\ todo' = <<Rewire(b, PathEnd), StartIfRunning(b), ConsumerCall(b)>>
    BY <1>10 DEF AddBlockEnabled, Begin, ConsumerCall
  <2>2. IsEnd(links, states, in, PathEnd) /\ PathEnd \in Streams
    BY <1>1, PathEndsFound
  <2>3. started = {}
    BY <1>1, <2>1 DEF Runs
  <2>4. IsBefore(links', states, in, b, PathEnd)
    BY <1>3, <1>4, <2>2 DEF IsEnd, IsBefore
  <2>5. IsEnd(links', states \cup {b}, in, b)
    <3>1. ~Prec(links', b, b)
      BY <1>4, PrecOrder
    <3>. QED BY <1>3, <1>4, <3>1 DEF IsEnd
  <2>6. Wired(links', states \cup {b}, states, in, input)
    <3>1. ASSUME NEW c \in states PROVE IsBefore(links', states \cup {b}, in, c, input[c])
      <4>1. IsBefore(links', states, in, c, input[c]) /\ ~Prec(links', b, c)
        BY <1>3, <1>4, <1>8 DEF Wired
      <4>. QED BY <4>1 DEF IsBefore
    <3>. QED BY <3>1 DEF Wired
  <2>7. Adding(b)'
    <3>1. /\ ~running' /\ started' = {} /\ out' = b /\ b \notin states'
      BY <1>2, <1>3, <1>5, <2>1, <2>3
    <3>. QED BY <1>5, <2>1, <2>2, <2>4, <2>5, <2>6, <3>1 DEF Adding
  <2>. QED BY <1>4, <1>6, <2>7 DEF ChainInv, Stage
<1>. QED BY <1>9, <1>10

\* chain::setInput takes the new input and looks for the first block of the path.
LEMMA SetInputBegins ==
  ASSUME ChainInv, NEW s \in Inputs, ChainSetInput(s)
  PROVE  ChainInv'
<1>1. ListOK /\ Path(states, states, in) /\ Runs(states)
  BY IdleSettled DEF ChainSetInput, Idle
<1>2. /\ links' = links /\ states' = states /\ in' = s /\ running' = running /\ input' = input
      /\ out' = out /\ consumerIn' = consumerIn /\ started' = started /\ pending' = pending
      /\ todo' = <<Rewire(PathStart, s)>>
  BY DEF ChainSetInput, Begin, wireVars
<1>3. IsFirst(links, states, PathStart) /\ PathStart \in Blocks \cup {None}
  BY <1>1, PathEndsFound
<1>4. ListOK'
  BY <1>1, <1>2 DEF ListOK
<1>5. PICK f \in Blocks \cup {None} : f = PathStart
  BY <1>3
<1>6. PICK t \in Inputs : t = in
  BY <1>1 DEF ListOK
<1>7. /\ IsFirst(links', states', f) /\ todo' = <<Rewire(f, in')>>
      /\ Path(states, states, t)' /\ Runs(states)'
  BY <1>1, <1>2, <1>3, <1>5, <1>6 DEF Path, Runs
<1>8. Feeding(t)'
  BY <1>7 DEF Feeding
<1>. QED BY <1>4, <1>8 DEF ChainInv, Stage

-----------------------------------------------------------------------------
(* The invariant.                                                           *)

\* An empty chain is settled: the consumer reads the chain's input.
LEMMA ChainInit == Init => ChainInv
<1> SUFFICES ASSUME Init PROVE ChainInv
  OBVIOUS
<1>1. /\ links = <<>> /\ states = {} /\ in \in Inputs /\ running = FALSE
      /\ out = in /\ consumerIn = in /\ input = [b \in Blocks |-> None] /\ started = {}
      /\ todo = <<>> /\ pending = <<>>
  BY DEF Init
<1>2. ListOK
  <2>1. links \in Seq(Blocks) /\ pending \in Seq({"enable", "disable"} \X Elems(links))
    BY <1>1
  <2>2. Distinct(links) /\ states \subseteq Elems(links)
    BY <1>1 DEF Distinct
  <2>3. in \in Inputs /\ running \in BOOLEAN /\ input \in [Blocks -> Streams \cup {None}]
    BY <1>1
  <2>. QED BY <2>1, <2>2, <2>3 DEF ListOK
<1>3. Settled
  BY <1>1 DEF Settled, Path, Wired, IsEnd, Runs
<1>. QED BY <1>2, <1>3 DEF ChainInv, Stage

\* A call of the current operation.
LEMMA CallKeeps ==
  ASSUME ChainInv, DoCall
  PROVE  ChainInv'
<1>1. todo # <<>>
  BY DEF DoCall, BlockSetInput, ChangeOutput, WireConsumer, Enable, Disable, BlockStart, BlockStop,
         SetRunning, Unlink, NextCall
<1>2. ~Settled
  BY <1>1 DEF Settled
<1>. QED BY <1>2, EnablingKeeps, DisablingKeeps, UnlinkingKeeps, FeedingKeeps, AddingKeeps,
           StartingKeeps, StoppingKeeps DEF ChainInv, Stage

\* The beginning of start() or stop().
LEMMA LoopBeginsKeeps ==
  ASSUME ChainInv, StartChain \/ StopChain
  PROVE  ChainInv'
<1>1. ListOK /\ Path(states, states, in) /\ Runs(states)
  BY IdleSettled DEF StartChain, StopChain, Idle
<1>2. /\ links' = links /\ states' = states /\ in' = in /\ running' = running /\ input' = input
      /\ out' = out /\ consumerIn' = consumerIn /\ started' = started /\ pending' = pending
  BY DEF StartChain, StopChain, Begin, chainVars, wireVars
<1>3. ListOK' /\ Path(states, states, in)' /\ states \subseteq Elems(links)
  BY <1>1, <1>2 DEF ListOK, Path
<1>4. CASE StartChain
  <2>1. Loop("start")' /\ \A b \in Elems(links) : StillTo(b)'
    BY <1>1, <1>4, LoopBegins DEF StartChain, Begin
  <2>2. ~running' /\ started' = {}
    BY <1>1, <1>2, <1>4 DEF StartChain, Runs
  <2>3. Starting'
    BY <1>2, <1>3, <2>1, <2>2 DEF Starting
  <2>. QED BY <1>3, <2>3 DEF ChainInv, Stage
<1>5. CASE StopChain
  <2>1. Loop("stop")' /\ \A b \in Elems(links) : StillTo(b)'
    BY <1>1, <1>5, LoopBegins DEF StopChain, Begin
  <2>2. running' /\ started' = states'
    BY <1>1, <1>2, <1>5 DEF StopChain, Runs
  <2>3. Stopping'
    BY <1>2, <1>3, <2>1, <2>2 DEF Stopping
  <2>. QED BY <1>3, <2>3 DEF ChainInv, Stage
<1>. QED BY <1>4, <1>5

\* enableAllBlocks and disableAllBlocks leave the chain settled until their first block.
LEMMA AllBegin ==
  ASSUME ChainInv, EnableAllBlocks \/ DisableAllBlocks
  PROVE  ChainInv'
<1>1. ListOK /\ Settled
  BY IdleSettled DEF EnableAllBlocks, DisableAllBlocks, Idle
<1>2. pending' \in Seq({"enable", "disable"} \X Elems(links))
  BY <1>1, PendingAll DEF EnableAllBlocks, DisableAllBlocks
<1>3. /\ links' = links /\ states' = states /\ in' = in /\ running' = running /\ input' = input
      /\ out' = out /\ consumerIn' = consumerIn /\ started' = started /\ todo' = todo
  BY DEF EnableAllBlocks, DisableAllBlocks, chainVars, wireVars
<1>. QED BY <1>1, <1>2, <1>3 DEF ChainInv, Stage, ListOK, Settled, Path, Runs

\* Every step keeps the invariant.
LEMMA ChainStep == ChainInv /\ [Next]_vars => ChainInv'
<1> SUFFICES ASSUME ChainInv, [Next]_vars PROVE ChainInv'
  OBVIOUS
<1>1. CASE DoCall
  BY <1>1, CallKeeps
<1>2. CASE NextOfAll
  BY <1>2, NextOfAllKeeps
<1>3. CASE \E s \in Inputs : ChainSetInput(s)
  BY <1>3, SetInputBegins
<1>4. CASE \E b \in Blocks : AddBlock(b) \/ AddBlockEnabled(b)
  BY <1>4, AddKeeps
<1>5. ASSUME NEW b \in Blocks, RemoveBlock(b) \/ EnableBlock(b) \/ DisableBlock(b)
      PROVE  ChainInv'
  <2>1. /\ ListOK /\ Settled /\ pending = <<>> /\ pending' = pending
        /\ UNCHANGED <<chainVars, wireVars>>
    BY <1>5, IdleSettled DEF RemoveBlock, EnableBlock, DisableBlock, Idle, Begin
  <2>2. b \in Elems(links)
    BY <1>5 DEF RemoveBlock, EnableBlock, DisableBlock, InLinks, Contains, Elems
  <2>3. \/ todo' = EnableCalls(b) \/ todo' = DisableCalls(b)
        \/ todo' = Append(DisableCalls(b), UnlinkCall(b))
    BY <1>5 DEF RemoveBlock, EnableBlock, DisableBlock, Begin, UnlinkCall
  <2>4. ListOK'
    BY <2>1 DEF ListOK, chainVars, wireVars
  <2>. QED BY <2>1, <2>2, <2>3, <2>4, EnableBegins, DisableBegins
<1>6. CASE EnableAllBlocks \/ DisableAllBlocks
  BY <1>6, AllBegin
<1>7. CASE StartChain \/ StopChain
  BY <1>7, LoopBeginsKeeps
<1>8. CASE UNCHANGED vars
  <2>1. /\ links' = links /\ states' = states /\ in' = in /\ running' = running
        /\ input' = input /\ out' = out /\ consumerIn' = consumerIn /\ started' = started
        /\ todo' = todo /\ pending' = pending
    BY <1>8 DEF vars, chainVars, wireVars
  <2>2. ListOK' <=> ListOK
    BY <2>1 DEF ListOK
  <2>4. /\ Path(states, states, in)' <=> Path(states, states, in)
        /\ \A b : /\ Path(states \cup {b}, states, in)' <=> Path(states \cup {b}, states, in)
                  /\ Path(states \cup {b}, states \cup {b}, in)'
                       <=> Path(states \cup {b}, states \cup {b}, in)
        /\ \A s : Path(states, states, s)' <=> Path(states, states, s)
    BY <2>1 DEF Path
  <2>5. Runs(states)' <=> Runs(states)
    BY <2>1 DEF Runs
  <2>6. /\ Settled => Settled'
        /\ Starting => Starting'
        /\ Stopping => Stopping'
    BY <2>1, <2>4, <2>5 DEF Settled, Starting, Stopping, Loop, StillTo
  <2>7. ASSUME NEW b
        PROVE  /\ Enabling(b) => Enabling(b)'
               /\ Disabling(b) => Disabling(b)'
               /\ Unlinking(b) => Unlinking(b)'
               /\ Adding(b) => Adding(b)'
    <3>1. Enabling(b) => Enabling(b)'
      BY <2>1, <2>4, <2>5 DEF Enabling
    <3>2. Disabling(b) => Disabling(b)'
      BY <2>1, <2>4, <2>5 DEF Disabling
    <3>3. Unlinking(b) => Unlinking(b)'
      BY <2>1, <2>4, <2>5 DEF Unlinking
    <3>4. Adding(b) => Adding(b)'
      BY <2>1 DEF Adding
    <3>. QED BY <3>1, <3>2, <3>3, <3>4
  <2>8. \A s : Feeding(s) => Feeding(s)'
    BY <2>1, <2>4, <2>5 DEF Feeding
  <2>. QED BY <2>1, <2>2, <2>6, <2>7, <2>8 DEF ChainInv, Stage
<1>. QED BY <1>1, <1>2, <1>3, <1>4, <1>5, <1>6, <1>7, <1>8 DEF Next

\* Whatever operations rewire the chain, the wiring is the one its current operation has
\* reached: ListOK and Stage hold in every state.
THEOREM ChainHolds == Spec => []ChainInv
<1>. QED BY ChainInit, ChainStep, PTL DEF Spec

-----------------------------------------------------------------------------
(* What follows from it.                                                    *)

\* The blocks that run are wired for one path, at whose end the consumer reads if any runs.
LEMMA Flow ==
  ASSUME ChainInv
  PROVE  \E S \in SUBSET Elems(links), i \in Inputs :
           /\ started \subseteq S /\ Wired(links, S, started, i, input)
           /\ started = {} \/ IsEnd(links, S, i, consumerIn)
<1>1. states \subseteq Elems(links) /\ in \in Inputs
  BY DEF ChainInv, ListOK
<1>2. ASSUME NEW S \in SUBSET Elems(links), NEW R \in SUBSET S, NEW i \in Inputs,
             Path(S, R, i), started \subseteq R
      PROVE  /\ started \subseteq S /\ Wired(links, S, started, i, input)
             /\ IsEnd(links, S, i, consumerIn)
  BY <1>2 DEF Path, Wired
<1>3. CASE Settled \/ Starting \/ Stopping
  <2>1. Path(states, states, in) /\ started \subseteq states
    BY <1>3 DEF Settled, Starting, Stopping, Runs
  <2>. QED BY <1>1, <1>2, <2>1
<1>4. ASSUME NEW b \in Elems(links), Enabling(b) \/ Disabling(b) \/ Unlinking(b)
      PROVE  \E S \in SUBSET Elems(links), i \in Inputs :
               /\ started \subseteq S /\ Wired(links, S, started, i, input)
               /\ IsEnd(links, S, i, consumerIn)
  <2>1. /\ started \subseteq states
        /\ \/ Path(states, states, in) \/ Path(states \cup {b}, states, in)
           \/ Path(states \cup {b}, states \cup {b}, in)
    BY <1>4 DEF Enabling, Disabling, Unlinking, Runs
  <2>2. states \cup {b} \in SUBSET Elems(links)
    BY <1>1
  <2>. QED BY <1>1, <1>2, <2>1, <2>2
<1>5. CASE \E b \in Elems(links) : Adding(b)
  <2>1. started = {}
    BY <1>5 DEF Adding
  <2>. QED BY <1>1, <2>1 DEF Wired
<1>6. CASE \E s \in Inputs : Feeding(s)
  <2>1. PICK s \in Inputs : Path(states, states, s) /\ started \subseteq states
    BY <1>6 DEF Feeding, Runs
  <2>. QED BY <1>1, <1>2, <2>1
<1>. QED BY <1>3, <1>4, <1>5, <1>6 DEF ChainInv, Stage

\* At every step of every rewiring of dsp::chain at most one running block, or the consumer,
\* reads a stream, for any set of blocks: see OneReader.
THEOREM OneReaderHolds == Spec => []OneReader
<1>1. ChainInv => OneReader
  <2> SUFFICES ASSUME ChainInv PROVE OneReader
    OBVIOUS
  <2>1. PICK S \in SUBSET Elems(links), i \in Inputs :
          /\ started \subseteq S /\ Wired(links, S, started, i, input)
          /\ started = {} \/ IsEnd(links, S, i, consumerIn)
    BY Flow
  <2>2. links \in Seq(Blocks) /\ Distinct(links)
    BY DEF ChainInv, ListOK
  <2>3. ASSUME NEW b \in started
        PROVE  /\ \A c \in started : input[b] = input[c] => b = c
               /\ consumerIn # input[b]
    <3>1. \A c \in started : c \in S /\ IsBefore(links, S, i, c, input[c])
      BY <2>1 DEF Wired
    <3>2. \A d \in S : IsBefore(links, S, i, d, input[b]) => b = d
      BY <2>2, <3>1, OneReaderOfPath
    <3>3. ~IsEnd(links, S, i, input[b])
      BY <2>2, <3>1, OneReaderOfPath
    <3>4. started # {}
      OBVIOUS
    <3>. QED BY <2>1, <3>1, <3>2, <3>3, <3>4
  <2>. QED BY <2>3 DEF OneReader
<1>. QED BY <1>1, ChainHolds, PTL

\* A running block always has a stream to read: see NoNullInput.
THEOREM NoNullInputHolds == Spec => []NoNullInput
<1>1. ChainInv => NoNullInput
  <2> SUFFICES ASSUME ChainInv, NEW b \in started PROVE input[b] # None
    BY DEF NoNullInput
  <2>1. PICK S \in SUBSET Elems(links), i \in Inputs :
          started \subseteq S /\ Wired(links, S, started, i, input)
    BY Flow
  <2>2. links \in Seq(Blocks) /\ Distinct(links)
    BY DEF ChainInv, ListOK
  <2>3. b \in S /\ IsBefore(links, S, i, b, input[b])
    BY <2>1 DEF Wired
  <2>4. input[b] \in S \cup {i}
    BY <2>2, <2>3, OneReaderOfPath
  <2>5. S \subseteq Blocks
    BY <2>2, PrecOrder
  <2>. QED BY <2>4, <2>5, DisjointAssumption
<1>. QED BY <1>1, ChainHolds, PTL

\* Between operations the enabled blocks form one path in list order, and exactly they run,
\* if the chain does: see WiredInOrder.
THEOREM WiredInOrderHolds == Spec => []WiredInOrder
<1>1. ChainInv => WiredInOrder
  <2> SUFFICES ASSUME ChainInv, Idle
               PROVE  /\ \A b \in states : input[b] = BlockBefore(b)
                      /\ out = PathEnd /\ consumerIn = out
                      /\ started = IF running THEN states ELSE {}
    BY DEF WiredInOrder
  <2>1. ListOK /\ Path(states, states, in) /\ Runs(states)
    BY IdleSettled DEF Idle
  <2>2. /\ links \in Seq(Blocks) /\ Distinct(links) /\ states \in SUBSET Elems(links)
        /\ in \in Inputs
    BY <2>1 DEF ListOK
  <2>3. ASSUME NEW b \in states PROVE input[b] = BlockBefore(b)
    <3>1. IsBefore(links, states, in, b, input[b])
      BY <2>1 DEF Path, Wired
    <3>2. IsBefore(links, states, in, b, BlockBefore(b))
      BY <2>1, <2>2, BlockBeforeFinds
    <3>. QED BY <2>2, <3>1, <3>2, BeforeUnique
  <2>4. IsEnd(links, states, in, PathEnd)
    BY <2>1, PathEndsFound
  <2>5. out = PathEnd
    BY <2>1, <2>2, <2>4, EndUnique DEF Path
  <2>. QED BY <2>1, <2>3, <2>5 DEF Path, Runs
<1>. QED BY <1>1, ChainHolds, PTL

=============================================================================
