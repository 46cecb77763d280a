--------------------------- MODULE ReshaperProofs ---------------------------
(***************************************************************************)
(* Proofs about Reshaper and its RingBuffer for every size of the ring,    *)
(* every keep and skip and any number of restarts: nobody sleeps through a *)
(* notification, the two copies never meet, the frames lie where they      *)
(* should, and the ring implements SampleQueue.                            *)
(***************************************************************************)
EXTENDS Reshaper, SequenceTheorems, TLAPS

USE SizeAssumption

-----------------------------------------------------------------------------
(* The inductive invariant.                                                 *)

Steps == CallSteps \cup {"off", "await", "begin", "swap", "exited"}
Places == 0 .. Size - 1

Types == /\ cells \in [Places -> Nat] /\ cursor \in [Ends -> Places] /\ count \in [Ends -> Nat]
         /\ maxLatency \in Nat
         /\ pc \in [Ends -> Steps] /\ left \in [Ends -> Nat] /\ n \in [Ends -> Nat]
         /\ skip \in Nat /\ skipping \in BOOLEAN
         /\ data \in Seq(Nat) /\ last \in Seq(Nat) /\ made \in Nat
         /\ keep \in Nat \ {0} /\ skipBy \in Int

\* The two threads come and go together, and meanwhile keep and skip are left alone.
Running == /\ pc["read"] # "await" /\ pc["write"] \notin {"begin", "swap"}
           /\ pc["read"] = "off" <=> pc["write"] = "off"
           /\ pc["read"] # "off" => keep + skipBy > 0
           /\ pc["read"] = "off" => last = <<>>

Moving == {"copy", "readable", "writable", "notify"}

\* What an end was granted, or is about to be, is there until it has taken it.
Granting == /\ \A e \in Ends : pc[e] \in CallSteps => left[e] > 0
            /\ \A e \in Ends : pc[e] \in Moving => n[e] \in 1 .. left[e] /\ n[e] <= Size
            /\ \A e \in Ends : pc[e] = "try" => n[e] <= count[e]
            /\ pc["read"] \in {"copy", "readable"} => n["read"] <= count["read"]
            /\ pc["write"] \in {"copy", "readable", "writable"} => n["write"] <= count["write"]
            /\ pc["write"] \in {"copy", "readable"} => count["read"] + n["write"] <= maxLatency

\* What an end has added to or taken from `readable`, but not yet from or to `writable`.
Halfway(e) == IF pc[e] = "writable" THEN n[e] ELSE 0

\* The samples from the reader's cursor up to the last one that was counted.
Inside == count["read"] + Halfway("read")

Balance == Inside + count["write"] = Size + Halfway("write")

\* The i-th place from the reader's cursor on.
Place(i) == (cursor["read"] + i - 1) % Size

\* The writer's cursor, moved past what was counted already, is behind the last sample.
Cursors == (cursor["write"] + Halfway("write")) % Size = (cursor["read"] + Inside) % Size

\* The ring holds the samples that came in last, and behind them those just copied.
Contents == /\ Inside <= made
            /\ \A i \in 1 .. Inside : cells[Place(i)] = made - Inside + i
            /\ pc["write"] = "readable" =>
                 \A j \in 1 .. n["write"] : cells[Cell("write", j)] = made + j

Lap == IF skipBy < 0 THEN -skipBy ELSE 0
Gap == IF skipBy > 0 THEN skipBy ELSE 0

\* The last sample that was taken before the frame the reader is at work on.
Before == (made - Inside) + left["read"] - (IF pc["read"] = "notify" THEN n["read"] ELSE 0)
          - (keep - Lap) - (IF skipping THEN skip ELSE 0)

\* How much of the frame is there.
Filled == IF skipping \/ pc["read"] = "swap" THEN keep
          ELSE keep - left["read"] + (IF pc["read"] \in {"readable", "writable", "notify"}
                                      THEN n["read"] ELSE 0)

\* Between two frames: the frame before is still in the array, and the gap was skipped.
Between == pc["read"] = "begin" =>
             /\ Len(data) = keep
             /\ last # <<>> => last = data /\ last[keep] + Gap = made - Inside

\* Within a frame: the overlap, then the samples that followed Before.
Framing == pc["read"] \in CallSteps \cup {"swap"} =>
             /\ skip = Gap
             /\ pc["read"] = "swap" => left["read"] = 0 /\ (skipping \/ skip = 0)
             /\ Len(data) = Filled /\ Lap <= Filled /\ Filled <= keep
             /\ \A i \in Lap + 1 .. Len(data) : data[i] = Before + i - Lap
             /\ last # <<>> => /\ Len(last) = keep /\ last[keep] + Gap = Before
                               /\ \A i \in 1 .. Lap : data[i] = last[keep - Lap + i]

RingInv == Types /\ Running /\ Granting /\ Balance /\ Cursors /\ Contents
Inv == RingInv /\ Between /\ Framing

\* A reader about to sleep has seen an empty ring under the mutex of `readable`; a writer's
\* mutex does not keep the reader from counting `readable` down.
Awake == /\ pc["read"] = "hold" => count["read"] = 0
         /\ pc["read"] = "sleep" /\ count["read"] > 0 => pc["write"] \in {"writable", "notify"}
         /\ pc["write"] = "hold" /\ Available("write", count["write"]) > 0 => pc["read"] = "writable"
         /\ pc["write"] = "sleep" /\ Available("write", count["write"]) > 0
              => pc["read"] \in {"writable", "notify"}

\* A stop that was notified while its end was about to sleep is in `missed`.
Told == /\ stop \in [Ends -> BOOLEAN]
        /\ \A e \in Ends :
             pc[e] \in {"hold", "sleep"} /\ stop[e]
               => e \in missed \/ ctl = IF e = "read" THEN "readNotify" ELSE "writeNotify"

-----------------------------------------------------------------------------
(* Places in the ring.                                                      *)

LEMMA TwoEnds == /\ Ends = {"read", "write"}
                 /\ Other("read") = "write" /\ Other("write") = "read"
BY DEF Ends, Other

LEMMA ModSmall ==
  ASSUME NEW a \in 0 .. 2 * Size - 1
  PROVE  a % Size = IF a < Size THEN a ELSE a - Size
BY SMT

\* The i-th place of a ring from place r on.
From(r, i) == (r + i - 1) % Size

LEMMA FromIs ==
  ASSUME NEW r \in Places, NEW i \in 1 .. Size
  PROVE  /\ From(r, i) \in Places
         /\ From(r, i) = IF r + i - 1 < Size THEN r + i - 1 ELSE r + i - 1 - Size
<1>1. r + i - 1 \in 0 .. 2 * Size - 1
  BY DEF Places
<1> QED BY <1>1, ModSmall DEF From, Places

\* A ring has its places once.
LEMMA FromInjective ==
  ASSUME NEW r \in Places, NEW i \in 1 .. Size, NEW j \in 1 .. Size, From(r, i) = From(r, j)
  PROVE  i = j
<1>1. PICK p \in Places : p = From(r, i) /\ p = IF r + i - 1 < Size THEN r + i - 1 ELSE r + i - 1 - Size
  BY FromIs
<1>2. p = IF r + j - 1 < Size THEN r + j - 1 ELSE r + j - 1 - Size
  BY <1>1, FromIs
<1> QED BY <1>1, <1>2 DEF Places

LEMMA Advance ==
  ASSUME NEW r \in Places, NEW a \in 0 .. Size
  PROVE  /\ (r + a) % Size \in Places
         /\ (r + a) % Size = IF r + a < Size THEN r + a ELSE r + a - Size
<1>1. r + a \in 0 .. 2 * Size - 1
  BY DEF Places
<1> QED BY <1>1, ModSmall DEF Places

LEMMA AdvanceTwice ==
  ASSUME NEW r \in Places, NEW a \in 0 .. Size, NEW b \in 0 .. Size, a + b <= Size
  PROVE  (((r + a) % Size) + b) % Size = (r + (a + b)) % Size
<1>1. PICK q \in Places : q = (r + a) % Size /\ q = IF r + a < Size THEN r + a ELSE r + a - Size
  BY Advance
<1>2. PICK p \in Places : p = (q + b) % Size /\ p = IF q + b < Size THEN q + b ELSE q + b - Size
  BY Advance
<1>3. PICK c \in 0 .. Size : c = a + b
  OBVIOUS
<1>4. (r + c) % Size = IF r + c < Size THEN r + c ELSE r + c - Size
  BY Advance
<1>5. p = (r + c) % Size
  BY <1>1, <1>2, <1>3, <1>4 DEF Places
<1> QED BY <1>1, <1>2, <1>3, <1>5

\* Counted from a places further on.
LEMMA FromAdvanced ==
  ASSUME NEW r \in Places, NEW a \in 0 .. Size, NEW i \in 1 .. Size, a + i <= Size
  PROVE  From((r + a) % Size, i) = From(r, a + i)
<1>1. PICK q \in Places : q = (r + a) % Size /\ q = IF r + a < Size THEN r + a ELSE r + a - Size
  BY Advance
<1>2. PICK p \in Places : p = From(q, i) /\ p = IF q + i - 1 < Size THEN q + i - 1 ELSE q + i - 1 - Size
  BY FromIs
<1>3. p = From(r, a + i)
  <2>1. a + i \in 1 .. Size
    OBVIOUS
  <2>2. From(r, a + i) = IF r + (a + i) - 1 < Size THEN r + (a + i) - 1 ELSE r + (a + i) - 1 - Size
    BY <2>1, FromIs
  <2> QED BY <1>1, <1>2, <2>2 DEF Places
<1> QED BY <1>1, <1>2, <1>3

-----------------------------------------------------------------------------
(* What a step leaves alone.                                                *)

\* The cursors and the contents, when neither cells nor counts change.
LEMMA RingStays ==
  ASSUME Balance, Cursors, Contents, UNCHANGED <<cells, cursor, count, made>>,
         Halfway("read")' = Halfway("read"), Halfway("write")' = Halfway("write"),
         pc'["write"] = "readable" => pc["write"] = "readable" /\ n'["write"] = n["write"]
  PROVE  Balance' /\ Cursors' /\ Contents' /\ Inside' = Inside
<1>1. Inside' = Inside
  BY DEF Inside
<1>2. Balance' /\ Cursors'
  BY <1>1 DEF Balance, Cursors
<1>3. \A i : Place(i)' = Place(i)
  BY DEF Place
<1>4. \A j : Cell("write", j)' = Cell("write", j)
  BY DEF Cell
<1>5. Contents'
  BY <1>1, <1>3, <1>4 DEF Contents
<1> QED BY <1>1, <1>2, <1>5

Early == {"look", "try", "check", "hold", "sleep", "copy"}

\* The frame, when the reader does not get further than to its copy.
LEMMA FrameStays ==
  ASSUME Between, Framing,
         \/ pc'["read"] = pc["read"] /\ n'["read"] = n["read"]
         \/ pc["read"] \in Early /\ pc'["read"] \in Early
         \/ pc["read"] = "begin" /\ pc'["read"] = "begin"
         \/ pc'["read"] \notin CallSteps \cup {"begin", "swap"},
         left'["read"] = left["read"], UNCHANGED <<skip, skipping, data, keep, skipBy, last>>,
         made' - Inside' = made - Inside
  PROVE  Between' /\ Framing'
<1>1. Lap' = Lap /\ Gap' = Gap
  BY DEF Lap, Gap
<1>2. Between'
  BY <1>1 DEF Between, Early
<1>3. CASE pc'["read"] \in CallSteps \cup {"swap"}
  <2>1. pc["read"] \in CallSteps \cup {"swap"}
    BY <1>3 DEF Early, CallSteps
  <2>2. (pc'["read"] = "swap") <=> (pc["read"] = "swap")
    BY <1>3 DEF Early, CallSteps
  <2>3. Filled' = Filled
    BY <1>3, <2>1, <2>2 DEF Filled, Early
  <2>4. Before' = Before
    BY <1>1, <1>3, <2>1 DEF Before, Early
  <2> QED BY <1>1, <1>2, <2>1, <2>2, <2>3, <2>4 DEF Framing, CallSteps
<1>4. CASE pc'["read"] \notin CallSteps \cup {"swap"}
  BY <1>2, <1>4 DEF Framing, CallSteps
<1> QED BY <1>2, <1>3, <1>4

\* What the threads inside a call leave alone.
Outside == <<shape, inStop, outStop, ctl, last, missed>>

LEMMA AvailableBounds ==
  ASSUME Types, NEW e \in Ends, NEW c \in Nat
  PROVE  /\ Available(e, c) \in Nat /\ Available(e, c) <= c
         /\ e = "write" /\ Available(e, c) > 0 => Available(e, c) <= maxLatency - count["read"]
         /\ e = "read" => Available(e, c) = c
<1>1. count["read"] \in Nat /\ maxLatency \in Nat
  BY TwoEnds DEF Types
<1> QED BY <1>1, TwoEnds DEF Available, LeastOf

-----------------------------------------------------------------------------
(* Looking for samples, or room, and waiting for them.                      *)

Waiting(e) == Look(e) \/ Try(e) \/ Check(e) \/ Sleep(e) \/ SpuriousWake(e)

LEMMA CountBounds ==
  ASSUME RingInv
  PROVE  /\ Inside \in 0 .. Size /\ count["read"] <= Inside
         /\ \A e \in Ends : pc[e] # "writable" => count[e] <= Size
<1> USE DEF RingInv
<1>0. count["read"] \in Nat /\ count["write"] \in Nat /\ n["read"] \in Nat /\ n["write"] \in Nat
  BY TwoEnds DEF Types
<1>1. CASE pc["write"] = "writable"
  BY <1>0, <1>1, TwoEnds DEF Balance, Inside, Halfway, Granting
<1>2. CASE pc["write"] # "writable"
  BY <1>0, <1>2, TwoEnds DEF Balance, Inside, Halfway
<1> QED BY <1>1, <1>2

LEMMA GrantedIsThere ==
  ASSUME Types, Granting, NEW e \in Ends, NEW c \in Nat, c <= count[e], left[e] > 0,
         Available(e, c) # 0, Granted(e, Available(e, c))
  PROVE  /\ n' = [n EXCEPT ![e] = n'[e]] /\ pc' = [pc EXCEPT ![e] = "copy"]
         /\ n'[e] \in 1 .. left[e] /\ n'[e] <= count[e]
         /\ e = "write" => count["read"] + n'[e] <= maxLatency
<1>1. /\ Available(e, c) \in Nat /\ Available(e, c) <= c
      /\ e = "write" /\ Available(e, c) > 0 => Available(e, c) <= maxLatency - count["read"]
  BY AvailableBounds
<1>2. PICK a \in Nat : a = Available(e, c)
  BY <1>1
<1>3. n' = [n EXCEPT ![e] = LeastOf(a, left[e])] /\ pc' = [pc EXCEPT ![e] = "copy"]
  BY <1>2 DEF Granted, Goto
<1>4. n'[e] = LeastOf(a, left[e]) /\ n' = [n EXCEPT ![e] = n'[e]]
  BY <1>3 DEF Types
<1>5. left[e] \in Nat /\ count[e] \in Nat /\ count["read"] \in Nat /\ maxLatency \in Nat
  BY TwoEnds DEF Types
<1> QED BY <1>1, <1>2, <1>3, <1>4, <1>5 DEF LeastOf

LEMMA WaitingMoves ==
  ASSUME Inv, NEW e \in Ends, Waiting(e), UNCHANGED Outside
  PROVE  /\ UNCHANGED <<cells, cursor, count, maxLatency, stop, left, skip, skipping, data, made>>
         /\ n' = [n EXCEPT ![e] = n'[e]] /\ pc' = [pc EXCEPT ![e] = pc'[e]]
         /\ pc[e] \in Early \ {"copy"} /\ pc'[e] \in Early \ {"look"}
         /\ pc'[e] = "copy" => /\ n'[e] \in 1 .. left[e] /\ n'[e] <= count[e]
                               /\ e = "write" => count["read"] + n'[e] <= maxLatency
         /\ pc'[e] = "try" => n'[e] <= count[e]
         /\ n'[e] \in Nat
<1> USE DEF Inv, RingInv
<1>0. n \in [Ends -> Nat] /\ pc \in [Ends -> Steps] /\ count[e] \in Nat /\ left[e] \in Nat
  BY DEF Types
<1>1. CASE Look(e)
  BY <1>0, <1>1 DEF Look, Goto, Early
<1>2. CASE Try(e)
  <2>1. n[e] \in Nat /\ n[e] <= count[e] /\ left[e] > 0
    BY <1>0, <1>2 DEF Try, Granting, CallSteps
  <2>2. CASE Available(e, n[e]) # 0
    <3>1. Granted(e, Available(e, n[e]))
      BY <1>2, <2>2 DEF Try
    <3>2. /\ n' = [n EXCEPT ![e] = n'[e]] /\ pc' = [pc EXCEPT ![e] = "copy"]
          /\ n'[e] \in 1 .. left[e] /\ n'[e] <= count[e]
          /\ e = "write" => count["read"] + n'[e] <= maxLatency
      BY <2>1, <2>2, <3>1, GrantedIsThere
    <3> QED BY <1>0, <1>2, <3>2 DEF Try, Early
  <2>3. CASE Available(e, n[e]) = 0
    BY <1>0, <1>2, <2>3 DEF Try, Goto, Early
  <2> QED BY <2>2, <2>3
<1>3. CASE Check(e)
  <2>1. left[e] > 0
    BY <1>3 DEF Check, Granting, CallSteps
  <2>2. CASE Available(e, count[e]) > 0
    <3>1. Granted(e, Available(e, count[e]))
      BY <1>3, <2>2 DEF Check
    <3>2. Available(e, count[e]) # 0
      BY <2>2
    <3>3. /\ n' = [n EXCEPT ![e] = n'[e]] /\ pc' = [pc EXCEPT ![e] = "copy"]
          /\ n'[e] \in 1 .. left[e] /\ n'[e] <= count[e]
          /\ e = "write" => count["read"] + n'[e] <= maxLatency
      BY <1>0, <2>1, <3>1, <3>2, GrantedIsThere
    <3> QED BY <1>0, <1>3, <3>3 DEF Check, Early
  <2>3. CASE ~(Available(e, count[e]) > 0)
    BY <1>0, <1>3, <2>3 DEF Check, Goto, Early
  <2> QED BY <2>2, <2>3
<1>4. CASE Sleep(e) \/ SpuriousWake(e)
  BY <1>0, <1>4 DEF Sleep, SpuriousWake, Goto, Early, quiet
<1> QED BY <1>1, <1>2, <1>3, <1>4 DEF Waiting

LEMMA WaitingKeeps ==
  ASSUME Inv, NEW e \in Ends, Waiting(e), UNCHANGED Outside
  PROVE  Inv'
<1> USE DEF Inv, RingInv
<1>1. /\ UNCHANGED <<cells, cursor, count, maxLatency, stop, left, skip, skipping, data, made>>
      /\ n' = [n EXCEPT ![e] = n'[e]] /\ pc' = [pc EXCEPT ![e] = pc'[e]]
      /\ pc[e] \in Early \ {"copy"} /\ pc'[e] \in Early \ {"look"}
      /\ pc'[e] = "copy" => /\ n'[e] \in 1 .. left[e] /\ n'[e] <= count[e]
                            /\ e = "write" => count["read"] + n'[e] <= maxLatency
      /\ pc'[e] = "try" => n'[e] <= count[e]
      /\ n'[e] \in Nat
  BY WaitingMoves
<1>2. UNCHANGED <<keep, skipBy, last>>
  BY DEF Outside, shape
<1>3. \A d \in Ends : d # e => pc'[d] = pc[d] /\ n'[d] = n[d]
  BY <1>1 DEF Types
<1>4. Types'
  <2>1. pc' \in [Ends -> Steps] /\ n' \in [Ends -> Nat]
    BY <1>1 DEF Types, Steps, Early, CallSteps
  <2> QED BY <1>1, <1>2, <2>1 DEF Types
<1>5. Running'
  BY <1>1, <1>2, <1>3, TwoEnds DEF Running, Early
<1>6. Granting'
  <2>1. pc'[e] = "copy" => n'[e] <= Size
    <3>1. pc[e] # "writable" /\ count[e] \in Nat
      BY <1>1 DEF Early, Types
    <3>2. count[e] <= Size
      BY <3>1, CountBounds
    <3> QED BY <1>1, <3>1, <3>2
  <2> QED BY <1>1, <1>3, <2>1, TwoEnds DEF Granting, Early, CallSteps, Moving
<1>7. Halfway("read")' = Halfway("read") /\ Halfway("write")' = Halfway("write")
  BY <1>1, <1>3, TwoEnds DEF Halfway, Early
<1>8. pc'["write"] = "readable" => pc["write"] = "readable" /\ n'["write"] = n["write"]
  BY <1>1, <1>3, TwoEnds DEF Early
<1>9. Balance' /\ Cursors' /\ Contents' /\ Inside' = Inside
  BY <1>1, <1>7, <1>8, RingStays
<1>10. Between' /\ Framing'
  <2>1. \/ pc'["read"] = pc["read"] /\ n'["read"] = n["read"]
        \/ pc["read"] \in Early /\ pc'["read"] \in Early
    BY <1>1, <1>3, TwoEnds
  <2> QED BY <1>1, <1>2, <1>9, <2>1, TwoEnds, FrameStays
<1> QED BY <1>4, <1>5, <1>6, <1>9, <1>10

-----------------------------------------------------------------------------
(* The copies.                                                              *)

\* The cells an end is at work on, as places from the reader's cursor on.
LEMMA CellIs ==
  ASSUME RingInv
  PROVE  /\ Inside \in 0 .. Size
         /\ \A i \in 1 .. Size : Cell("read", i) = Place(i) /\ Place(i) = From(cursor["read"], i)
         /\ pc["write"] \in {"copy", "readable"} =>
              /\ Inside + n["write"] <= Size
              /\ cursor["write"] = (cursor["read"] + Inside) % Size
              /\ \A j \in 1 .. n["write"] : Cell("write", j) = From(cursor["read"], Inside + j)
<1> USE DEF RingInv
<1>0. count["read"] \in Nat /\ count["write"] \in Nat /\ n["read"] \in Nat /\ n["write"] \in Nat
      /\ cursor["read"] \in Places /\ cursor["write"] \in Places
  BY TwoEnds DEF Types
<1>1. Inside \in 0 .. Size
  BY CountBounds
<1>2. ASSUME NEW i \in 1 .. Size
      PROVE  Cell("read", i) = Place(i) /\ Place(i) = From(cursor["read"], i)
  BY DEF Cell, Place, From
<1>3. ASSUME pc["write"] \in {"copy", "readable"}
      PROVE  /\ Inside + n["write"] <= Size
             /\ cursor["write"] = (cursor["read"] + Inside) % Size
             /\ \A j \in 1 .. n["write"] : Cell("write", j) = From(cursor["read"], Inside + j)
  <2>1. Inside + n["write"] <= Size /\ n["write"] <= Size
    BY <1>0, <1>1, <1>3 DEF Balance, Halfway, Granting
  <2>2. Halfway("write") = 0 /\ 0 \in 0 .. Size
    BY <1>3 DEF Halfway
  <2>3. (cursor["write"] + 0) % Size = cursor["write"]
    <3>1. (cursor["write"] + 0) % Size = IF cursor["write"] + 0 < Size THEN cursor["write"] + 0
                                                                     ELSE cursor["write"] + 0 - Size
      BY <1>0, <2>2, Advance
    <3> QED BY <1>0, <3>1 DEF Places
  <2>4. cursor["write"] = (cursor["read"] + Inside) % Size
    BY <2>2, <2>3 DEF Cursors
  <2>5. ASSUME NEW j \in 1 .. n["write"]
        PROVE  Cell("write", j) = From(cursor["read"], Inside + j)
    <3>1. j \in 1 .. Size /\ Inside + j <= Size
      BY <1>0, <1>1, <2>1
    <3>2. From((cursor["read"] + Inside) % Size, j) = From(cursor["read"], Inside + j)
      BY <1>0, <1>1, <3>1, FromAdvanced
    <3>3. Cell("write", j) = From((cursor["read"] + Inside) % Size, j)
      BY <2>4 DEF Cell, From
    <3> QED BY <3>2, <3>3
  <2> QED BY <2>1, <2>4, <2>5
<1> QED BY <1>1, <1>2, <1>3

\* The two memcpys run on different cells, whatever else the other thread is doing.
LEMMA SlicesApart ==
  ASSUME RingInv, pc["write"] \in {"copy", "readable"}
  PROVE  /\ \A i \in 1 .. Inside, j \in 1 .. n["write"] : Place(i) # Cell("write", j)
         /\ \A i, j \in 1 .. n["write"] : Cell("write", i) = Cell("write", j) => i = j
         /\ \A j \in 1 .. n["write"] : Cell("write", j) \in Places
<1> USE DEF RingInv
<1>0. count["read"] \in Nat /\ count["write"] \in Nat /\ n["write"] \in Nat
      /\ cursor["read"] \in Places /\ n["write"] <= count["write"]
  BY TwoEnds DEF Types, Granting
<1>1. /\ Inside \in 0 .. Size /\ Inside + n["write"] <= Size
      /\ \A i \in 1 .. Size : Place(i) = From(cursor["read"], i)
      /\ \A j \in 1 .. n["write"] : Cell("write", j) = From(cursor["read"], Inside + j)
  BY CellIs
<1>2. \A j \in 1 .. n["write"] : Inside + j \in 1 .. Size
  BY <1>0, <1>1
<1>3. ASSUME NEW i \in 1 .. Inside, NEW j \in 1 .. n["write"] PROVE Place(i) # Cell("write", j)
  <2>1. i \in 1 .. Size /\ Inside + j \in 1 .. Size /\ i # Inside + j
    BY <1>0, <1>1, <1>2
  <2>2. Place(i) = From(cursor["read"], i) /\ Cell("write", j) = From(cursor["read"], Inside + j)
    BY <1>1, <2>1
  <2> QED BY <1>0, <2>1, <2>2, FromInjective
<1>4. ASSUME NEW i \in 1 .. n["write"], NEW j \in 1 .. n["write"],
             Cell("write", i) = Cell("write", j)
      PROVE  i = j
  <2>1. Inside + i \in 1 .. Size /\ Inside + j \in 1 .. Size
    BY <1>2
  <2>2. From(cursor["read"], Inside + i) = From(cursor["read"], Inside + j)
    BY <1>1, <1>4
  <2>3. Inside + i = Inside + j
    BY <1>0, <2>1, <2>2, FromInjective
  <2> QED BY <1>0, <1>1, <2>3
<1>5. ASSUME NEW j \in 1 .. n["write"] PROVE Cell("write", j) \in Places
  <2>1. Inside + j \in 1 .. Size /\ Cell("write", j) = From(cursor["read"], Inside + j)
    BY <1>1, <1>2
  <2> QED BY <1>0, <2>1, FromIs
<1> QED BY <1>3, <1>4, <1>5

LEMMA CopyInKeeps ==
  ASSUME Inv, CopyIn, UNCHANGED Outside
  PROVE  Inv'
<1> USE DEF Inv, RingInv
<1>0. /\ pc["write"] = "copy" /\ pc' = [pc EXCEPT !["write"] = "readable"]
      /\ UNCHANGED <<cursor, count, maxLatency, stop, left, n, skip, skipping, data, made>>
      /\ UNCHANGED <<keep, skipBy, last>>
      /\ pc \in [Ends -> Steps] /\ pc'["write"] = "readable" /\ pc'["read"] = pc["read"]
      /\ n["write"] \in Nat /\ made \in Nat /\ cells \in [Places -> Nat]
  BY TwoEnds DEF CopyIn, Goto, Outside, shape, Types
<1>1. /\ \A i \in 1 .. Inside, j \in 1 .. n["write"] : Place(i) # Cell("write", j)
      /\ \A i, j \in 1 .. n["write"] : Cell("write", i) = Cell("write", j) => i = j
      /\ \A j \in 1 .. n["write"] : Cell("write", j) \in Places
  BY <1>0, SlicesApart
<1>2. cells' = [c \in Places |->
                  IF c \in Slice("write")
                  THEN made + (CHOOSE i \in 1 .. n["write"] : Cell("write", i) = c)
                  ELSE cells[c]]
  BY DEF CopyIn, Places
<1>3. \A j \in 1 .. n["write"] : cells'[Cell("write", j)] = made + j
  <2> TAKE j \in 1 .. n["write"]
  <2>1. Cell("write", j) \in Slice("write") /\ Cell("write", j) \in Places
    BY <1>1 DEF Slice
  <2>2. (CHOOSE i \in 1 .. n["write"] : Cell("write", i) = Cell("write", j)) = j
    BY <1>1
  <2> QED BY <1>2, <2>1, <2>2
<1>4. \A i \in 1 .. Inside : cells'[Place(i)] = cells[Place(i)]
  <2> TAKE i \in 1 .. Inside
  <2>1. Place(i) \notin Slice("write")
    BY <1>1 DEF Slice
  <2>2. /\ Inside \in 0 .. Size /\ cursor["read"] \in Places
        /\ \A k \in 1 .. Size : Place(k) = From(cursor["read"], k)
    BY CellIs, TwoEnds DEF Types
  <2>3. i \in 1 .. Size
    BY <2>2
  <2>4. Place(i) \in Places
    BY <2>2, <2>3, FromIs
  <2> QED BY <1>2, <2>1, <2>4
<1>5. Types'
  <2>1. cells' \in [Places -> Nat]
    <3>1. ASSUME NEW c \in Slice("write")
          PROVE  (CHOOSE i \in 1 .. n["write"] : Cell("write", i) = c) \in Nat
      <4>1. \E i \in 1 .. n["write"] : Cell("write", i) = c
        BY <3>1 DEF Slice
      <4>2. (CHOOSE i \in 1 .. n["write"] : Cell("write", i) = c) \in 1 .. n["write"]
        BY <4>1
      <4> QED BY <4>2
    <3>2. \A c \in Slice("write") :
             made + (CHOOSE i \in 1 .. n["write"] : Cell("write", i) = c) \in Nat
      BY <1>0, <3>1
    <3> QED BY <1>0, <1>2, <3>2
  <2>2. pc' \in [Ends -> Steps]
    BY <1>0 DEF Steps, CallSteps
  <2> QED BY <1>0, <2>1, <2>2 DEF Types
<1>6. Running' /\ Granting'
  BY <1>0, TwoEnds DEF Running, Granting, Moving, CallSteps
<1>7. Inside' = Inside /\ Halfway("write")' = Halfway("write")
  BY <1>0 DEF Inside, Halfway
<1>8. Balance' /\ Cursors'
  BY <1>0, <1>7 DEF Balance, Cursors
<1>9. Contents'
  <2>1. \A i : Place(i)' = Place(i)
    BY <1>0 DEF Place
  <2>2. \A j : Cell("write", j)' = Cell("write", j)
    BY <1>0 DEF Cell
  <2>3. \A j \in 1 .. n'["write"] : cells'[Cell("write", j)'] = made' + j
    BY <1>0, <1>3, <2>2
  <2>4. \A i \in 1 .. Inside' : cells'[Place(i)'] = made' - Inside' + i
    BY <1>0, <1>4, <1>7, <2>1 DEF Contents
  <2> QED BY <1>0, <1>7, <2>3, <2>4 DEF Contents
<1>10. Between' /\ Framing'
  <2>1. pc'["read"] = pc["read"] /\ n'["read"] = n["read"]
    BY <1>0
  <2> QED BY <1>0, <1>7, <2>1, FrameStays
<1> QED BY <1>5, <1>6, <1>8, <1>9, <1>10

LEMMA FunctionIsSequence ==
  ASSUME NEW k \in Nat, NEW f \in [1 .. k -> Nat]
  PROVE  f \in Seq(Nat) /\ Len(f) = k
OBVIOUS

LEMMA CopyOutKeeps ==
  ASSUME Inv, CopyOut, UNCHANGED Outside
  PROVE  Inv'
<1> USE DEF Inv, RingInv
<1>0. /\ pc["read"] = "copy" /\ pc' = [pc EXCEPT !["read"] = "readable"]
      /\ UNCHANGED <<cells, cursor, count, maxLatency, stop, left, n, skip, skipping, made>>
      /\ UNCHANGED <<keep, skipBy, last>>
      /\ pc \in [Ends -> Steps] /\ pc'["read"] = "readable" /\ pc'["write"] = pc["write"]
      /\ n["read"] \in Nat /\ made \in Nat /\ cells \in [Places -> Nat] /\ data \in Seq(Nat)
      /\ left["read"] \in Nat /\ count["read"] \in Nat /\ skip \in Nat /\ skipping \in BOOLEAN
      /\ keep \in Nat /\ skipBy \in Int
  BY TwoEnds DEF CopyOut, Goto, Outside, shape, Types
<1>1. /\ Inside \in 0 .. Size /\ n["read"] <= count["read"] /\ count["read"] = Inside
      /\ n["read"] \in 1 .. left["read"]
  BY <1>0, CountBounds, TwoEnds DEF Inside, Halfway, Granting, Moving
<1>2. \A i \in 1 .. n["read"] : /\ cells[Cell("read", i)] = made - Inside + i
                                /\ cells[Cell("read", i)] \in Nat
  <2> TAKE i \in 1 .. n["read"]
  <2>1. i \in 1 .. Inside /\ i \in 1 .. Size
    BY <1>0, <1>1
  <2>2. Cell("read", i) = Place(i)
    BY <2>1, CellIs
  <2> QED BY <1>0, <1>1, <2>1, <2>2 DEF Contents
<1> DEFINE copied == [i \in 1 .. n["read"] |-> cells[Cell("read", i)]]
<1>3. /\ copied \in Seq(Nat) /\ Len(copied) = n["read"]
      /\ \A i \in 1 .. n["read"] : copied[i] = made - Inside + i
  <2>1. copied \in [1 .. n["read"] -> Nat] /\ \A i \in 1 .. n["read"] : copied[i] = made - Inside + i
    BY <1>2
  <2> HIDE DEF copied
  <2> QED BY <1>0, <2>1, FunctionIsSequence
<1>4. data' = IF skipping THEN data ELSE data \o copied
  BY DEF CopyOut
<1> HIDE DEF copied
<1>5. Types'
  <2>1. data' \in Seq(Nat)
    BY <1>0, <1>3, <1>4
  <2>2. pc' \in [Ends -> Steps]
    BY <1>0 DEF Steps, CallSteps
  <2> QED BY <1>0, <2>1, <2>2 DEF Types
<1>6. Running' /\ Granting'
  BY <1>0, TwoEnds DEF Running, Granting, Moving, CallSteps
<1>7. Balance' /\ Cursors' /\ Contents' /\ Inside' = Inside
  <2>1. Halfway("read")' = Halfway("read") /\ Halfway("write")' = Halfway("write")
    BY <1>0 DEF Halfway
  <2>2. pc'["write"] = "readable" => pc["write"] = "readable" /\ n'["write"] = n["write"]
    BY <1>0
  <2> QED BY <1>0, <2>1, <2>2, RingStays
<1>8. Between'
  BY <1>0 DEF Between
<1>9. Framing'
  <2>1. Lap' = Lap /\ Gap' = Gap /\ Lap \in Nat
    BY <1>0 DEF Lap, Gap
  <2>2. Before' = Before
    BY <1>0, <1>7, <2>1 DEF Before
  <2>3. /\ skip = Gap /\ Len(data) = Filled /\ Lap <= Filled /\ Filled <= keep
        /\ \A i \in Lap + 1 .. Len(data) : data[i] = Before + i - Lap
        /\ last # <<>> => /\ Len(last) = keep /\ last[keep] + Gap = Before
                          /\ \A i \in 1 .. Lap : data[i] = last[keep - Lap + i]
    BY <1>0 DEF Framing, CallSteps
  <2>4. CASE skipping
    <3>1. data' = data /\ Filled' = Filled
      BY <1>0, <1>4, <2>4 DEF Filled
    <3> QED BY <1>0, <2>1, <2>2, <2>3, <3>1 DEF Framing
  <2>5. CASE ~skipping
    <3>1. Filled = keep - left["read"] /\ Filled' = Filled + n["read"]
      BY <1>0, <2>5 DEF Filled
    <3>2. Before = made - Inside + left["read"] - (keep - Lap)
      BY <1>0, <1>1, <2>1, <2>5 DEF Before
    <3>3. /\ Len(data') = Len(data) + n["read"]
          /\ \A i \in 1 .. Len(data) : data'[i] = data[i]
          /\ \A i \in 1 .. n["read"] : data'[Len(data) + i] = copied[i]
      <4>1. data' = data \o copied /\ Len(data) \in Nat
        BY <1>0, <1>4, <2>5
      <4>2. /\ Len(data \o copied) = Len(data) + Len(copied)
            /\ \A i \in 1 .. Len(data) + Len(copied) :
                 (data \o copied)[i] = IF i <= Len(data) THEN data[i] ELSE copied[i - Len(data)]
        <5>1. data \in Seq(Nat) /\ copied \in Seq(Nat)
          BY <1>0, <1>3
        <5> QED BY <5>1, ConcatProperties, Zenon
      <4>3. ASSUME NEW i \in 1 .. n["read"] PROVE data'[Len(data) + i] = copied[i]
        <5>1. Len(data) + i \in 1 .. Len(data) + Len(copied) /\ ~(Len(data) + i <= Len(data))
              /\ (Len(data) + i) - Len(data) = i
          BY <1>0, <1>3, <4>1
        <5> QED BY <4>1, <4>2, <5>1
      <4>4. ASSUME NEW i \in 1 .. Len(data) PROVE data'[i] = data[i]
        BY <1>0, <1>3, <4>1, <4>2
      <4> QED BY <1>3, <4>1, <4>2, <4>3, <4>4
    <3>4. Filled \in Nat /\ Len(data') = Filled' /\ Lap <= Filled' /\ Filled' <= keep
      <4>1. /\ Len(data) = Filled /\ Lap <= Filled /\ Len(data') = Len(data) + n["read"]
            /\ left["read"] - n["read"] \in Nat
        BY <1>0, <1>1, <2>3, <3>3
      <4>2. keep \in Nat /\ left["read"] \in Nat /\ n["read"] \in Nat /\ Lap \in Nat
        BY <1>0, <2>1
      <4> QED BY <3>1, <4>1, <4>2
    <3>5. \A i \in Lap + 1 .. Len(data') : data'[i] = Before + i - Lap
      <4> TAKE i \in Lap + 1 .. Len(data')
      <4>1. CASE i <= Len(data)
        BY <1>0, <2>1, <2>3, <3>3, <4>1
      <4>2. CASE i > Len(data)
        <5>1. PICK j \in 1 .. n["read"] : i = Len(data) + j
          <6>1. i - Len(data) \in 1 .. n["read"]
            BY <1>0, <2>1, <3>3, <4>2
          <6> QED BY <1>0, <2>1, <6>1
        <5>2. data'[i] = made - Inside + j
          BY <1>3, <3>3, <5>1
        <5>3. Len(data) = keep - left["read"]
          BY <2>3, <3>1
        <5>4. /\ Inside \in Nat /\ keep \in Nat /\ left["read"] \in Nat /\ Lap \in Nat
              /\ made \in Nat /\ j \in Nat
          BY <1>0, <1>1, <2>1
        <5>5. i = keep - left["read"] + j
          BY <5>1, <5>3
        <5>6. Before + i - Lap = made - Inside + j
          <6>1. /\ Inside \in Int /\ keep \in Int /\ left["read"] \in Int /\ Lap \in Int
                /\ made \in Int /\ j \in Int
            BY <5>4
          <6>2. PICK m \in Int, s \in Int, l \in Int, k \in Int, p \in Int, h \in Int :
                  m = made /\ s = Inside /\ l = left["read"] /\ k = keep /\ p = Lap /\ h = j
            BY <6>1, Zenon
          <6>3. (m - s + l - (k - p)) + (k - l + h) - p = m - s + h
            OBVIOUS
          <6> QED BY <3>2, <5>5, <6>2, <6>3, Zenon
        <5> QED BY <5>2, <5>6
      <4> QED BY <1>0, <2>1, <3>3, <4>1, <4>2
    <3>6. \A i \in 1 .. Lap : data'[i] = data[i]
      BY <1>0, <2>1, <2>3, <3>3, <3>4
    <3> QED BY <1>0, <2>1, <2>2, <2>3, <3>4, <3>5, <3>6 DEF Framing
  <2> QED BY <1>0, <2>4, <2>5
<1> QED BY <1>5, <1>6, <1>7, <1>8, <1>9

-----------------------------------------------------------------------------
(* The two counts.                                                          *)

\* The frame, when the reader goes on inside a call, or is at its end.
LEMMA FrameMoves ==
  ASSUME Framing, pc["read"] \in CallSteps, pc'["read"] \in CallSteps \cup {"swap"},
         pc'["read"] = "swap" => left'["read"] = 0 /\ (skipping' \/ skip' = 0),
         UNCHANGED <<skip, data, keep, skipBy, last>>, Before' = Before, Filled' = Filled
  PROVE  Between' /\ Framing'
<1>1. Lap' = Lap /\ Gap' = Gap
  BY DEF Lap, Gap
<1>2. Between'
  BY DEF Between, CallSteps
<1>3. Framing'
  BY <1>1 DEF Framing, CallSteps
<1> QED BY <1>2, <1>3

LEMMA CountReadableByReader ==
  ASSUME Inv, CountReadable("read"), UNCHANGED Outside
  PROVE  Inv'
<1> USE DEF Inv, RingInv
<1>0. /\ pc["read"] = "readable" /\ pc' = [pc EXCEPT !["read"] = "writable"]
      /\ count' = [count EXCEPT !["read"] = @ - n["read"]]
      /\ UNCHANGED <<cells, cursor, maxLatency, stop, left, n, skip, skipping, data, made>>
      /\ UNCHANGED <<keep, skipBy, last>>
      /\ pc \in [Ends -> Steps] /\ count \in [Ends -> Nat]
      /\ n["read"] \in Nat /\ count["read"] \in Nat /\ count["write"] \in Nat
  <2>1. \A x \in Nat : x + -n["read"] = x - n["read"]
    BY TwoEnds DEF Types
  <2> QED BY <2>1, TwoEnds DEF CountReadable, Change, Goto, Outside, shape, Types
<1>1. /\ pc'["read"] = "writable" /\ pc'["write"] = pc["write"]
      /\ count'["read"] = count["read"] - n["read"] /\ count'["write"] = count["write"]
  BY <1>0, TwoEnds
<1>2. n["read"] \in 1 .. left["read"] /\ n["read"] <= count["read"] /\ n["read"] <= Size
  BY <1>0, TwoEnds DEF Granting, Moving
<1>3. Types'
  <2>1. count["read"] - n["read"] \in Nat
    BY <1>0, <1>2
  <2>2. count' \in [Ends -> Nat] /\ pc' \in [Ends -> Steps]
    BY <1>0, <2>1 DEF Steps, CallSteps
  <2> QED BY <1>0, <2>2 DEF Types
<1>4. Running'
  BY <1>0, <1>1 DEF Running
<1>5. Granting'
  <2>1. count'["read"] <= count["read"] /\ count'["read"] + n["write"] <= count["read"] + n["write"]
    BY <1>0, <1>1, TwoEnds DEF Types
  <2>2. maxLatency \in Nat /\ n["write"] \in Nat /\ count'["read"] \in Int
    BY <1>0, <1>1, TwoEnds DEF Types
  <2> QED BY <1>0, <1>1, <1>2, <2>1, <2>2, TwoEnds DEF Granting, Moving, CallSteps
<1>6. Inside' = Inside /\ Halfway("write")' = Halfway("write")
  BY <1>0, <1>1, <1>2 DEF Inside, Halfway
<1>7. Balance' /\ Cursors'
  BY <1>0, <1>1, <1>6 DEF Balance, Cursors
<1>8. Contents'
  <2>1. \A i : Place(i)' = Place(i)
    BY <1>0 DEF Place
  <2>2. \A j : Cell("write", j)' = Cell("write", j)
    BY <1>0 DEF Cell
  <2> QED BY <1>0, <1>1, <1>6, <2>1, <2>2 DEF Contents
<1>9. Between' /\ Framing'
  <2>1. pc["read"] \in CallSteps /\ pc'["read"] \in CallSteps /\ pc'["read"] # "swap"
    BY <1>0, <1>1 DEF CallSteps
  <2>2. Before' = Before
    BY <1>0, <1>1, <1>6 DEF Before, Lap
  <2>3. Filled' = Filled
    BY <1>0, <1>1 DEF Filled
  <2> QED BY <1>0, <1>1, <2>1, <2>2, <2>3, FrameMoves
<1> QED BY <1>3, <1>4, <1>5, <1>7, <1>8, <1>9

LEMMA CountReadableByWriter ==
  ASSUME Inv, CountReadable("write"), UNCHANGED Outside
  PROVE  Inv'
<1> USE DEF Inv, RingInv
<1>0. /\ pc["write"] = "readable" /\ pc' = [pc EXCEPT !["write"] = "writable"]
      /\ count' = [count EXCEPT !["read"] = @ + n["write"]] /\ made' = made + n["write"]
      /\ UNCHANGED <<cells, cursor, maxLatency, stop, left, n, skip, skipping, data>>
      /\ UNCHANGED <<keep, skipBy, last>>
      /\ pc \in [Ends -> Steps] /\ count \in [Ends -> Nat] /\ made \in Nat
      /\ n["write"] \in Nat /\ count["read"] \in Nat /\ count["write"] \in Nat
      /\ cursor["read"] \in Places /\ cursor["write"] \in Places /\ n["read"] \in Nat
  BY TwoEnds DEF CountReadable, Change, Goto, Outside, shape, Types
<1>1. /\ pc'["write"] = "writable" /\ pc'["read"] = pc["read"]
      /\ count'["read"] = count["read"] + n["write"] /\ count'["write"] = count["write"]
  BY <1>0, TwoEnds
<1>2. n["write"] \in 1 .. left["write"] /\ n["write"] <= count["write"] /\ n["write"] <= Size
  BY <1>0, TwoEnds DEF Granting, Moving
<1>3. Types'
  <2>1. count["read"] + n["write"] \in Nat /\ made' \in Nat
    BY <1>0
  <2>2. count' \in [Ends -> Nat] /\ pc' \in [Ends -> Steps]
    BY <1>0, <2>1 DEF Steps, CallSteps
  <2> QED BY <1>0, <2>1, <2>2 DEF Types
<1>4. Running'
  BY <1>0, <1>1 DEF Running
<1>5. Granting'
  <2>1. n["read"] <= count["read"] => n["read"] <= count'["read"]
    BY <1>0, <1>1
  <2> QED BY <1>0, <1>1, <1>2, <2>1, TwoEnds DEF Granting, Moving, CallSteps
<1>6. /\ Inside \in 0 .. Size /\ Inside + n["write"] <= Size
      /\ \A i \in 1 .. Size : Place(i) = From(cursor["read"], i)
      /\ cursor["write"] = (cursor["read"] + Inside) % Size
      /\ \A j \in 1 .. n["write"] : Cell("write", j) = From(cursor["read"], Inside + j)
  BY <1>0, CellIs
<1>7. /\ Inside' = Inside + n["write"]
      /\ Halfway("write") = 0 /\ Halfway("write")' = n["write"]
  BY <1>0, <1>1 DEF Inside, Halfway
<1>8. Balance'
  BY <1>0, <1>1, <1>6, <1>7 DEF Balance
<1>9. Cursors'
  <2>1. n["write"] \in 0 .. Size
    BY <1>0, <1>2
  <2>2. (((cursor["read"] + Inside) % Size) + n["write"]) % Size
          = (cursor["read"] + (Inside + n["write"])) % Size
    BY <1>0, <1>6, <2>1, AdvanceTwice
  <2> QED BY <1>0, <1>6, <1>7, <2>2 DEF Cursors
<1>10. Contents'
  <2>1. made' - Inside' = made - Inside /\ Inside' <= made'
    BY <1>0, <1>6, <1>7 DEF Contents
  <2>2. ASSUME NEW i \in 1 .. Inside'
        PROVE  cells'[Place(i)'] = made' - Inside' + i
    <3>1. Place(i)' = Place(i) /\ i \in 1 .. Size
      BY <1>0, <1>6, <1>7 DEF Place
    <3>2. CASE i <= Inside
      <4>1. cells[Place(i)] = made - Inside + i
        BY <1>6, <3>2 DEF Contents
      <4> QED BY <1>0, <2>1, <3>1, <4>1
    <3>3. CASE i > Inside
      <4>1. PICK j \in 1 .. n["write"] : i = Inside + j
        <5>1. i - Inside \in 1 .. n["write"]
          BY <1>0, <1>6, <1>7, <3>3
        <5> QED BY <1>0, <1>6, <5>1
      <4>2. cells[Cell("write", j)] = made + j
        BY <1>0 DEF Contents
      <4>3. Place(i) = Cell("write", j)
        BY <1>6, <3>1, <4>1
      <4>4. made - Inside + i = made + j
        BY <1>0, <1>6, <4>1
      <4> QED BY <1>0, <2>1, <3>1, <4>2, <4>3, <4>4
    <3> QED BY <1>6, <3>2, <3>3
  <2> QED BY <1>1, <2>1, <2>2 DEF Contents
<1>11. Between' /\ Framing'
  <2>1. made' - Inside' = made - Inside /\ pc'["read"] = pc["read"] /\ n'["read"] = n["read"]
    BY <1>0, <1>1, <1>6, <1>7
  <2> QED BY <1>0, <2>1, FrameStays
<1> QED BY <1>3, <1>4, <1>5, <1>8, <1>9, <1>10, <1>11

LEMMA CountWritableByReader ==
  ASSUME Inv, CountWritable("read"), UNCHANGED Outside
  PROVE  Inv'
<1> USE DEF Inv, RingInv
<1>0. /\ pc["read"] = "writable" /\ pc' = [pc EXCEPT !["read"] = "notify"]
      /\ count' = [count EXCEPT !["write"] = @ + n["read"]]
      /\ cursor' = [cursor EXCEPT !["read"] = (@ + n["read"]) % Size]
      /\ UNCHANGED <<cells, maxLatency, stop, left, n, skip, skipping, data, made>>
      /\ UNCHANGED <<keep, skipBy, last>>
      /\ pc \in [Ends -> Steps] /\ count \in [Ends -> Nat] /\ cursor \in [Ends -> Places]
      /\ n["read"] \in Nat /\ count["read"] \in Nat /\ count["write"] \in Nat
      /\ cursor["read"] \in Places /\ made \in Nat /\ n["write"] \in Nat
  BY TwoEnds DEF CountWritable, Change, Goto, Outside, shape, Types
<1>1. /\ pc'["read"] = "notify" /\ pc'["write"] = pc["write"]
      /\ count'["read"] = count["read"] /\ count'["write"] = count["write"] + n["read"]
      /\ cursor'["read"] = (cursor["read"] + n["read"]) % Size /\ cursor'["write"] = cursor["write"]
  BY <1>0, TwoEnds
<1>2. n["read"] \in 1 .. left["read"] /\ n["read"] <= Size /\ n["read"] \in 0 .. Size
  BY <1>0, TwoEnds DEF Granting, Moving
<1>3. Types'
  <2>1. count["write"] + n["read"] \in Nat /\ (cursor["read"] + n["read"]) % Size \in Places
    BY <1>0, <1>2, Advance
  <2>2. /\ count' \in [Ends -> Nat] /\ pc' \in [Ends -> Steps] /\ cursor' \in [Ends -> Places]
    BY <1>0, <2>1 DEF Steps, CallSteps
  <2> QED BY <1>0, <2>2 DEF Types, Places
<1>4. Running'
  BY <1>0, <1>1 DEF Running
<1>5. Granting'
  <2>1. n["write"] <= count["write"] => n["write"] <= count'["write"]
    BY <1>0, <1>1
  <2> QED BY <1>0, <1>1, <1>2, <2>1, TwoEnds DEF Granting, Moving, CallSteps
<1>6. /\ Inside \in 0 .. Size /\ \A i \in 1 .. Size : Place(i) = From(cursor["read"], i)
  BY CellIs
<1>7. /\ Inside' \in 0 .. Size /\ Inside = n["read"] + Inside' /\ Halfway("write")' = Halfway("write")
  BY <1>0, <1>1, <1>6 DEF Inside, Halfway
<1>8. Balance'
  <2>1. Halfway("write") \in Nat
    BY <1>0 DEF Halfway
  <2> QED BY <1>0, <1>1, <1>6, <1>7, <2>1 DEF Balance
<1>9. Cursors'
  <2>1. (((cursor["read"] + n["read"]) % Size) + Inside') % Size
          = (cursor["read"] + (n["read"] + Inside')) % Size
    BY <1>0, <1>2, <1>6, <1>7, AdvanceTwice
  <2> QED BY <1>1, <1>7, <2>1 DEF Cursors
<1>10. Contents'
  <2>1. Inside' <= made'
    BY <1>0, <1>6, <1>7 DEF Contents
  <2>2. ASSUME NEW i \in 1 .. Inside'
        PROVE  cells'[Place(i)'] = made' - Inside' + i
    <3>1. i \in 1 .. Size /\ n["read"] + i \in 1 .. Inside /\ n["read"] + i \in 1 .. Size
      BY <1>0, <1>6, <1>7
    <3>2. From((cursor["read"] + n["read"]) % Size, i) = From(cursor["read"], n["read"] + i)
      BY <1>0, <1>2, <3>1, FromAdvanced
    <3>3. Place(i)' = Place(n["read"] + i)
      <4>1. Place(i)' = From((cursor["read"] + n["read"]) % Size, i)
        BY <1>1 DEF Place, From
      <4> QED BY <1>6, <3>1, <3>2, <4>1
    <3>4. cells[Place(n["read"] + i)] = made - Inside + (n["read"] + i)
      BY <3>1 DEF Contents
    <3>5. made - Inside + (n["read"] + i) = made - Inside' + i
      BY <1>0, <1>6, <1>7
    <3> QED BY <1>0, <3>3, <3>4, <3>5
  <2>3. \A j : Cell("write", j)' = Cell("write", j)
    BY <1>1 DEF Cell
  <2> QED BY <1>0, <1>1, <2>1, <2>2, <2>3 DEF Contents
<1>11. Between' /\ Framing'
  <2>1. pc["read"] \in CallSteps /\ pc'["read"] \in CallSteps /\ pc'["read"] # "swap"
    BY <1>0, <1>1 DEF CallSteps
  <2>2. Before' = Before
    <3>1. Lap' = Lap /\ left["read"] \in Nat
      BY <1>0, TwoEnds DEF Lap, Types
    <3>2. PICK x \in Int : x = (keep - Lap) + (IF skipping THEN skip ELSE 0)
      <4>1. keep - Lap \in Int /\ (IF skipping THEN skip ELSE 0) \in Int
        BY DEF Lap, Types
      <4> QED BY <4>1
    <3>3. Before = made - Inside + left["read"] - x
      <4>1. made - Inside \in Int /\ keep - Lap \in Int /\ (IF skipping THEN skip ELSE 0) \in Int
        BY <1>0, <1>6, TwoEnds DEF Lap, Types
      <4> QED BY <1>0, <3>1, <3>2, <4>1 DEF Before
    <3>4. Before' = made' - Inside' + left["read"] - n["read"] - x
      <4>1. /\ made' - Inside' \in Int /\ keep - Lap \in Int
            /\ (IF skipping THEN skip ELSE 0) \in Int
        BY <1>0, <1>7, TwoEnds DEF Lap, Types
      <4>2. Before' = (made' - Inside') + (left["read"] - n["read"] - (keep - Lap)
                                           - (IF skipping THEN skip ELSE 0))
        BY <1>0, <1>1, <3>1 DEF Before
      <4> QED BY <1>0, <3>1, <3>2, <4>1, <4>2
    <3> QED BY <1>0, <1>6, <1>7, <3>1, <3>2, <3>3, <3>4
  <2>3. Filled' = Filled
    BY <1>0, <1>1 DEF Filled
  <2> QED BY <1>0, <1>1, <2>1, <2>2, <2>3, FrameMoves
<1> QED BY <1>3, <1>4, <1>5, <1>8, <1>9, <1>10, <1>11

LEMMA CountWritableByWriter ==
  ASSUME Inv, CountWritable("write"), UNCHANGED Outside
  PROVE  Inv'
<1> USE DEF Inv, RingInv
<1>0. /\ pc["write"] = "writable" /\ pc' = [pc EXCEPT !["write"] = "notify"]
      /\ count' = [count EXCEPT !["write"] = @ - n["write"]]
      /\ cursor' = [cursor EXCEPT !["write"] = (@ + n["write"]) % Size]
      /\ UNCHANGED <<cells, maxLatency, stop, left, n, skip, skipping, data, made>>
      /\ UNCHANGED <<keep, skipBy, last>>
      /\ pc \in [Ends -> Steps] /\ count \in [Ends -> Nat] /\ cursor \in [Ends -> Places]
      /\ n["write"] \in Nat /\ count["write"] \in Nat /\ cursor["write"] \in Places
  <2>1. \A x \in Nat : x + -n["write"] = x - n["write"]
    BY TwoEnds DEF Types
  <2> QED BY <2>1, TwoEnds DEF CountWritable, Change, Goto, Outside, shape, Types
<1>1. /\ pc'["write"] = "notify" /\ pc'["read"] = pc["read"]
      /\ count'["write"] = count["write"] - n["write"] /\ count'["read"] = count["read"]
      /\ cursor'["write"] = (cursor["write"] + n["write"]) % Size /\ cursor'["read"] = cursor["read"]
  BY <1>0, TwoEnds
<1>2. n["write"] \in 1 .. left["write"] /\ n["write"] <= count["write"] /\ n["write"] \in 0 .. Size
  BY <1>0, TwoEnds DEF Granting, Moving
<1>3. Types'
  <2>1. count["write"] - n["write"] \in Nat /\ (cursor["write"] + n["write"]) % Size \in Places
    BY <1>0, <1>2, Advance
  <2>2. /\ count' \in [Ends -> Nat] /\ pc' \in [Ends -> Steps] /\ cursor' \in [Ends -> Places]
    BY <1>0, <2>1 DEF Steps, CallSteps
  <2> QED BY <1>0, <2>2 DEF Types, Places
<1>4. Running'
  BY <1>0, <1>1 DEF Running
<1>5. Granting'
  BY <1>0, <1>1, <1>2, TwoEnds DEF Granting, Moving, CallSteps
<1>6. /\ Inside' = Inside /\ Inside \in 0 .. Size
      /\ Halfway("write") = n["write"] /\ Halfway("write")' = 0
  BY <1>0, <1>1, CountBounds DEF Inside, Halfway
<1>7. Balance'
  BY <1>0, <1>1, <1>6 DEF Balance
<1>8. Cursors'
  <2>1. PICK w \in Places : w = (cursor["write"] + n["write"]) % Size
    BY <1>0, <1>2, Advance
  <2>2. (w + 0) % Size = w
    <3>1. 0 \in 0 .. Size
      OBVIOUS
    <3>2. (w + 0) % Size = IF w + 0 < Size THEN w + 0 ELSE w + 0 - Size
      BY <3>1, Advance
    <3> QED BY <3>2 DEF Places
  <2> QED BY <1>1, <1>6, <2>1, <2>2 DEF Cursors
<1>9. Contents'
  <2>1. \A i : Place(i)' = Place(i)
    BY <1>1 DEF Place
  <2> QED BY <1>0, <1>1, <1>6, <2>1 DEF Contents
<1>10. Between' /\ Framing'
  <2>1. made' - Inside' = made - Inside /\ pc'["read"] = pc["read"] /\ n'["read"] = n["read"]
    BY <1>0, <1>1, <1>6
  <2> QED BY <1>0, <2>1, FrameStays
<1> QED BY <1>3, <1>4, <1>5, <1>7, <1>8, <1>9, <1>10

-----------------------------------------------------------------------------
(* The end of a round, and the threads outside the ring.                    *)

\* What a notification does to the other end.
LEMMA WakeIs ==
  ASSUME Types, NEW e \in Ends
  PROVE  /\ Wake(e, "check") \in Steps
         /\ pc[e] = "sleep" => Wake(e, "check") = "check"
         /\ pc[e] # "sleep" => Wake(e, "check") = pc[e]
BY DEF Wake, Types, Steps, CallSteps

LEMMA NotifyByWriter ==
  ASSUME Inv, Notify("write", "await"), UNCHANGED Outside
  PROVE  Inv'
<1> USE DEF Inv, RingInv
<1>0. /\ pc["write"] = "notify"
      /\ left' = [left EXCEPT !["write"] = left["write"] - n["write"]]
      /\ pc' = [pc EXCEPT !["read"] = Wake("read", "check"),
                          !["write"] = IF left["write"] - n["write"] = 0 THEN "await" ELSE "look"]
      /\ UNCHANGED <<cells, cursor, count, maxLatency, stop, n, skip, skipping, data, made>>
      /\ UNCHANGED <<keep, skipBy, last>>
      /\ pc \in [Ends -> Steps] /\ left \in [Ends -> Nat]
      /\ n["write"] \in Nat /\ left["write"] \in Nat
  BY TwoEnds DEF Notify, Outside, shape, Types
<1>1. /\ pc'["read"] = Wake("read", "check") /\ left'["read"] = left["read"]
      /\ left'["write"] = left["write"] - n["write"]
      /\ pc'["write"] = IF left["write"] - n["write"] = 0 THEN "await" ELSE "look"
  BY <1>0, TwoEnds
<1>2. /\ Wake("read", "check") \in Steps
      /\ pc["read"] = "sleep" => pc'["read"] = "check"
      /\ pc["read"] # "sleep" => pc'["read"] = pc["read"]
  BY <1>1, WakeIs, TwoEnds
<1>3. n["write"] \in 1 .. left["write"] /\ left["write"] - n["write"] \in Nat
  BY <1>0, TwoEnds DEF Granting, Moving
<1>4. Types'
  <2>1. pc' \in [Ends -> Steps] /\ left' \in [Ends -> Nat]
    BY <1>0, <1>2, <1>3 DEF Steps, CallSteps
  <2> QED BY <1>0, <2>1 DEF Types
<1>5. Running'
  BY <1>0, <1>1, <1>2 DEF Running
<1>6. Granting'
  BY <1>0, <1>1, <1>2, <1>3, TwoEnds DEF Granting, Moving, CallSteps
<1>7. Balance' /\ Cursors' /\ Contents' /\ Inside' = Inside
  <2>1. Halfway("read")' = Halfway("read") /\ Halfway("write")' = Halfway("write")
    BY <1>0, <1>1, <1>2 DEF Halfway
  <2>2. pc'["write"] = "readable" => pc["write"] = "readable" /\ n'["write"] = n["write"]
    BY <1>0, <1>1
  <2> QED BY <1>0, <2>1, <2>2, RingStays
<1>8. Between' /\ Framing'
  <2>1. \/ pc'["read"] = pc["read"] /\ n'["read"] = n["read"]
        \/ pc["read"] \in Early /\ pc'["read"] \in Early
    BY <1>0, <1>2 DEF Early
  <2> QED BY <1>0, <1>1, <1>7, <2>1, FrameStays
<1> QED BY <1>4, <1>5, <1>6, <1>7, <1>8

LEMMA NotifyByReader ==
  ASSUME Inv, Notify("read", "swap"), UNCHANGED Outside
  PROVE  Inv'
<1> USE DEF Inv, RingInv
<1> DEFINE rest == left["read"] - n["read"]
           second == rest = 0 /\ ~skipping /\ skip > 0
<1>0. /\ pc["read"] = "notify"
      /\ left' = [left EXCEPT !["read"] = IF second THEN skip ELSE rest]
      /\ skipping' = (skipping \/ second)
      /\ pc' = [pc EXCEPT !["write"] = Wake("write", "check"),
                          !["read"] = IF rest = 0 /\ ~second THEN "swap" ELSE "look"]
      /\ UNCHANGED <<cells, cursor, count, maxLatency, stop, n, skip, data, made>>
      /\ UNCHANGED <<keep, skipBy, last>>
  BY TwoEnds DEF Notify, Outside, shape
<1>a. /\ pc \in [Ends -> Steps] /\ left \in [Ends -> Nat] /\ skip \in Nat /\ skipping \in BOOLEAN
      /\ n["read"] \in Nat /\ left["read"] \in Nat /\ keep \in Nat /\ made \in Nat
      /\ keep - Lap \in Int
  BY TwoEnds DEF Types, Lap
<1>b. n["read"] \in 1 .. left["read"] /\ rest \in Nat
  BY <1>0, <1>a, TwoEnds DEF Granting, Moving
<1> HIDE DEF second
<1>c. second => rest = 0 /\ ~skipping /\ skip > 0
  BY DEF second
<1>d. rest = 0 /\ ~second => skipping \/ skip = 0
  BY <1>a DEF second
<1>1. /\ pc'["write"] = Wake("write", "check") /\ left'["write"] = left["write"]
      /\ left'["read"] = IF second THEN skip ELSE rest
      /\ pc'["read"] = IF rest = 0 /\ ~second THEN "swap" ELSE "look"
  BY <1>0, <1>a, TwoEnds
<1>2. /\ Wake("write", "check") \in Steps
      /\ pc["write"] = "sleep" => pc'["write"] = "check"
      /\ pc["write"] # "sleep" => pc'["write"] = pc["write"]
  BY <1>1, WakeIs, TwoEnds
<1>3. Types'
  <2>1. /\ (IF second THEN skip ELSE rest) \in Nat
        /\ (IF rest = 0 /\ ~second THEN "swap" ELSE "look") \in Steps
    BY <1>a, <1>b DEF Steps, CallSteps
  <2>2. pc' \in [Ends -> Steps] /\ left' \in [Ends -> Nat]
    BY <1>0, <1>a, <1>2, <2>1
  <2>3. skipping' \in BOOLEAN
    BY <1>0, <1>a DEF second
  <2> QED BY <1>0, <2>2, <2>3 DEF Types
<1>4. Running'
  BY <1>0, <1>1, <1>2 DEF Running
<1>5. Granting'
  <2>1. pc'["read"] \in CallSteps => left'["read"] > 0
    BY <1>a, <1>b, <1>c, <1>1 DEF CallSteps
  <2>2. pc'["read"] \notin Moving \cup {"try"}
    BY <1>1 DEF Moving
  <2> QED BY <1>0, <1>1, <1>2, <2>1, <2>2, TwoEnds DEF Granting, Moving, CallSteps
<1>6. Balance' /\ Cursors' /\ Contents' /\ Inside' = Inside
  <2>1. Halfway("read")' = Halfway("read") /\ Halfway("write")' = Halfway("write")
    BY <1>0, <1>1, <1>2 DEF Halfway
  <2>2. pc'["write"] = "readable" => pc["write"] = "readable" /\ n'["write"] = n["write"]
    BY <1>0, <1>1, <1>2
  <2> QED BY <1>0, <2>1, <2>2, RingStays
<1>7. Inside \in Int
  BY CountBounds
<1>8. Between' /\ Framing'
  <2>1. /\ pc["read"] \in CallSteps /\ pc'["read"] \in CallSteps \cup {"swap"}
        /\ pc'["read"] = "swap" => rest = 0 /\ ~second
    BY <1>0, <1>1 DEF CallSteps
  <2>2. pc'["read"] = "swap" => left'["read"] = 0 /\ (skipping' \/ skip' = 0)
    BY <1>0, <1>d, <1>1, <2>1
  <2>3. Before = (made - Inside) + (left["read"] - n["read"] - (keep - Lap)
                                    - (IF skipping THEN skip ELSE 0))
    BY <1>0 DEF Before
  <2>4. Before' = (made - Inside) + (left'["read"] - 0 - (keep - Lap)
                                     - (IF skipping' THEN skip ELSE 0))
    <3>1. Lap' = Lap
      BY <1>0 DEF Lap
    <3>2. pc'["read"] # "notify"
      BY <1>1
    <3> QED BY <1>0, <1>6, <3>1, <3>2 DEF Before
  <2>5. Filled = IF skipping THEN keep ELSE keep - left["read"] + n["read"]
    BY <1>0 DEF Filled
  <2>6. Filled' = IF skipping' \/ pc'["read"] = "swap" THEN keep ELSE keep - left'["read"] + 0
    BY <1>0, <1>1 DEF Filled
  <2>7. Before' = Before /\ Filled' = Filled
    <3>1. CASE second
      <4>1. ~skipping /\ skipping' /\ rest = 0 /\ left'["read"] = skip
        BY <1>0, <1>c, <1>1, <3>1
      <4>2. Before = (made - Inside) + (left["read"] - n["read"] - (keep - Lap) - 0)
        BY <2>3, <4>1
      <4>3. Before' = (made - Inside) + (skip - 0 - (keep - Lap) - skip)
        BY <2>4, <4>1
      <4>4. Filled = keep - left["read"] + n["read"] /\ Filled' = keep
        BY <2>5, <2>6, <4>1
      <4>5. left["read"] = n["read"]
        BY <1>a, <4>1
      <4>6. PICK x \in Int, y \in Int : x = keep - Lap /\ y = made - Inside
        BY <1>a, <1>7
      <4>7. Before' = Before
        BY <1>a, <4>2, <4>3, <4>5, <4>6
      <4>8. Filled' = Filled
        BY <1>a, <4>4, <4>5
      <4> QED BY <4>7, <4>8
    <3>2. CASE ~second
      <4>1. skipping' = skipping /\ left'["read"] = left["read"] - n["read"]
            /\ (pc'["read"] = "swap" => left["read"] - n["read"] = 0)
        BY <1>0, <1>a, <1>1, <3>2
      <4>2. Before' = (made - Inside) + ((left["read"] - n["read"]) - 0 - (keep - Lap)
                                         - (IF skipping THEN skip ELSE 0))
        BY <2>4, <4>1
      <4>3. (IF skipping THEN skip ELSE 0) \in Int
        BY <1>a
      <4>4. Before' = Before
        <5>1. PICK x \in Int : x = IF skipping THEN skip ELSE 0
          BY <4>3
        <5>2. Before = (made - Inside) + (left["read"] - n["read"] - (keep - Lap) - x)
          BY <2>3, <5>1
        <5>3. Before' = (made - Inside) + ((left["read"] - n["read"]) - 0 - (keep - Lap) - x)
          BY <4>2, <5>1
        <5> QED BY <1>a, <1>7, <5>1, <5>2, <5>3
      <4>5. Filled' = Filled
        BY <1>a, <2>5, <2>6, <4>1
      <4> QED BY <4>4, <4>5
    <3> QED BY <3>1, <3>2
  <2> QED BY <1>0, <2>1, <2>2, <2>7, FrameMoves
<1> QED BY <1>3, <1>4, <1>5, <1>6, <1>8

LEMMA BeginFrameKeeps ==
  ASSUME Inv, BeginFrame
  PROVE  Inv'
<1> USE DEF Inv, RingInv
<1>0. /\ pc["read"] = "begin" /\ pc' = [pc EXCEPT !["read"] = "look"]
      /\ data' = Overlap /\ skipping' = FALSE
      /\ skip' = IF skipBy < 0 THEN 0 ELSE skipBy
      /\ left' = [left EXCEPT !["read"] = IF skipBy < 0 THEN keep + skipBy ELSE keep]
      /\ UNCHANGED <<cells, cursor, count, maxLatency, n, made, keep, skipBy, last>>
  BY DEF BeginFrame, Goto, shape
<1>a. /\ pc \in [Ends -> Steps] /\ left \in [Ends -> Nat] /\ keep \in Nat \ {0} /\ skipBy \in Int
      /\ made \in Nat /\ data \in Seq(Nat) /\ keep + skipBy > 0
      /\ Lap \in Nat /\ Gap \in Nat /\ Lap < keep
  BY <1>0 DEF Types, Running, Lap, Gap
<1>1. /\ pc'["read"] = "look" /\ pc'["write"] = pc["write"] /\ left'["write"] = left["write"]
      /\ left'["read"] = keep - Lap /\ left'["read"] \in Nat \ {0} /\ skip' = Gap
  BY <1>0, <1>a, TwoEnds DEF Lap, Gap
<1>2. Len(data) = keep /\ (last # <<>> => last = data /\ last[keep] + Gap = made - Inside)
  BY <1>0 DEF Between
<1>3. /\ data' \in Seq(Nat) /\ Len(data') = Lap
      /\ \A i \in 1 .. Lap : data'[i] = data[keep - Lap + i]
  <2>1. CASE skipBy < 0
    <3>1. data' = SubSeq(data, keep - Lap + 1, keep)
      BY <1>0, <1>a, <2>1 DEF Overlap, Lap
    <3>2. PICK p \in Int : p = keep - Lap + 1
      BY <1>a
    <3>3. keep \in Int /\ \A i \in p .. keep : data[i] \in Nat
      BY <1>a, <1>2, <3>2
    <3>4. /\ SubSeq(data, p, keep) \in Seq(Nat)
          /\ Len(SubSeq(data, p, keep)) = IF p <= keep THEN keep - p + 1 ELSE 0
          /\ \A i \in 1 .. keep - p + 1 : SubSeq(data, p, keep)[i] = data[p + i - 1]
      BY <3>3, SubSeqProperties
    <3>5. keep - p + 1 = Lap /\ p <= keep
      BY <1>a, <2>1, <3>2 DEF Lap
    <3>6. \A i \in 1 .. Lap : p + i - 1 = keep - Lap + i
      BY <1>a, <3>2
    <3> QED BY <3>1, <3>2, <3>4, <3>5, <3>6
  <2>2. CASE ~(skipBy < 0)
    BY <1>0, <2>2 DEF Overlap, Lap
  <2> QED BY <2>1, <2>2
<1>4. Types'
  <2>1. /\ (IF skipBy < 0 THEN keep + skipBy ELSE keep) \in Nat /\ skip' \in Nat
    BY <1>0, <1>a
  <2>2. pc' \in [Ends -> Steps] /\ left' \in [Ends -> Nat]
    BY <1>0, <1>a, <2>1 DEF Steps, CallSteps
  <2>3. skipping' \in BOOLEAN
    BY <1>0
  <2> QED BY <1>0, <1>3, <2>1, <2>2, <2>3 DEF Types
<1>5. Running'
  BY <1>0, <1>1 DEF Running
<1>6. Granting'
  BY <1>0, <1>1, TwoEnds DEF Granting, Moving, CallSteps
<1>7. Balance' /\ Cursors' /\ Contents' /\ Inside' = Inside
  <2>1. Halfway("read")' = Halfway("read") /\ Halfway("write")' = Halfway("write")
    BY <1>0, <1>1 DEF Halfway
  <2>2. pc'["write"] = "readable" => pc["write"] = "readable" /\ n'["write"] = n["write"]
    BY <1>0, <1>1
  <2> QED BY <1>0, <2>1, <2>2, RingStays
<1>8. Between'
  BY <1>1 DEF Between
<1>9. Framing'
  <2>1. Lap' = Lap /\ Gap' = Gap
    BY <1>0 DEF Lap, Gap
  <2>2. Before' = made - Inside
    <3>1. Inside \in Int
      BY CountBounds
    <3>2. pc'["read"] # "notify" /\ ~skipping'
      BY <1>0, <1>1
    <3>3. Before' = (made - Inside) + ((keep - Lap) - 0 - (keep - Lap) - 0)
      BY <1>0, <1>1, <1>7, <2>1, <3>2 DEF Before
    <3> QED BY <1>a, <3>1, <3>3
  <2>3. Filled' = Lap
    <3>1. Filled' = keep - (keep - Lap) + 0
      BY <1>0, <1>1 DEF Filled
    <3> QED BY <1>a, <3>1
  <2>4. \A i \in Lap + 1 .. Len(data') : FALSE
    BY <1>a, <1>3
  <2>5. last # <<>> => Len(last) = keep /\ last[keep] + Gap = Before'
                       /\ \A i \in 1 .. Lap : data'[i] = last[keep - Lap + i]
    BY <1>2, <1>3, <2>2
  <2>6. pc'["read"] # "swap"
    BY <1>1
  <2> QED BY <1>0, <1>a, <1>1, <1>3, <2>1, <2>3, <2>4, <2>5, <2>6 DEF Framing
<1> QED BY <1>4, <1>5, <1>6, <1>7, <1>8, <1>9

LEMMA SwapOutKeeps ==
  ASSUME Inv, SwapOut
  PROVE  Inv'
<1> USE DEF Inv, RingInv
<1>0. /\ pc["read"] = "swap" /\ pc' = [pc EXCEPT !["read"] = "begin"] /\ last' = data
      /\ UNCHANGED <<cells, cursor, count, maxLatency, left, n, skip, skipping, data, made>>
      /\ UNCHANGED <<keep, skipBy>>
  BY DEF SwapOut, Goto, quiet, shape
<1>a. /\ pc \in [Ends -> Steps] /\ keep \in Nat \ {0} /\ skipBy \in Int /\ skip \in Nat
      /\ made \in Nat /\ data \in Seq(Nat) /\ keep + skipBy > 0
      /\ Lap \in Nat /\ Gap \in Nat /\ Lap < keep /\ skipping \in BOOLEAN
  BY <1>0 DEF Types, Running, Lap, Gap
<1>1. pc'["read"] = "begin" /\ pc'["write"] = pc["write"]
  BY <1>0, <1>a, TwoEnds
<1>2. Types'
  <2>1. pc' \in [Ends -> Steps]
    BY <1>0, <1>a DEF Steps, CallSteps
  <2> QED BY <1>0, <2>1 DEF Types
<1>3. Running'
  BY <1>0, <1>1 DEF Running
<1>4. Granting'
  BY <1>0, <1>1, TwoEnds DEF Granting, Moving, CallSteps
<1>5. Balance' /\ Cursors' /\ Contents' /\ Inside' = Inside
  <2>1. Halfway("read")' = Halfway("read") /\ Halfway("write")' = Halfway("write")
    BY <1>0, <1>1 DEF Halfway
  <2>2. pc'["write"] = "readable" => pc["write"] = "readable" /\ n'["write"] = n["write"]
    BY <1>0, <1>1
  <2> QED BY <1>0, <2>1, <2>2, RingStays
<1>6. Between'
  <2>1. /\ skip = Gap /\ left["read"] = 0 /\ (skipping \/ skip = 0) /\ Len(data) = Filled
        /\ \A i \in Lap + 1 .. Len(data) : data[i] = Before + i - Lap
    BY <1>0 DEF Framing
  <2>2. Filled = keep
    BY <1>0 DEF Filled
  <2>3. data[keep] = Before + keep - Lap
    <3>1. keep \in Lap + 1 .. Len(data)
      BY <1>a, <2>1, <2>2
    <3> QED BY <2>1, <3>1
  <2>4. Before = (made - Inside) + (0 - 0 - (keep - Lap) - (IF skipping THEN skip ELSE 0))
    BY <1>0, <2>1 DEF Before
  <2>5. (IF skipping THEN skip ELSE 0) = Gap
    BY <2>1
  <2>6. data[keep] + Gap = made - Inside
    <3>1. PICK b \in Int : b = made - Inside
      BY <1>a, CountBounds
    <3>2. Before = b + (0 - 0 - (keep - Lap) - Gap)
      BY <2>4, <2>5, <3>1
    <3>3. PICK c \in Int : c = Before
      BY <1>a, <3>2
    <3> QED BY <1>a, <2>3, <3>1, <3>2, <3>3
  <2>7. Gap' = Gap
    BY <1>0 DEF Gap
  <2> QED BY <1>0, <1>5, <2>1, <2>2, <2>6, <2>7 DEF Between
<1>7. Framing'
  BY <1>1 DEF Framing, CallSteps
<1> QED BY <1>2, <1>3, <1>4, <1>5, <1>6, <1>7

LEMMA ReadInKeeps ==
  ASSUME Inv, NEW len \in Lens, ReadIn(len)
  PROVE  Inv'
<1> USE DEF Inv, RingInv
<1>0. /\ pc["write"] = "await" /\ pc' = [pc EXCEPT !["write"] = "look"]
      /\ left' = [left EXCEPT !["write"] = len]
      /\ UNCHANGED <<cells, cursor, count, maxLatency, n, skip, skipping, data, made,
                     keep, skipBy, last>>
      /\ pc \in [Ends -> Steps] /\ left \in [Ends -> Nat] /\ len \in Nat \ {0}
  BY LensAssumption DEF ReadIn, Goto, shape, Types
<1>1. /\ pc'["write"] = "look" /\ pc'["read"] = pc["read"]
      /\ left'["write"] = len /\ left'["read"] = left["read"]
  BY <1>0, TwoEnds
<1>2. Types'
  <2>1. pc' \in [Ends -> Steps] /\ left' \in [Ends -> Nat]
    BY <1>0 DEF Steps, CallSteps
  <2> QED BY <1>0, <2>1 DEF Types
<1>3. Running' /\ Granting'
  BY <1>0, <1>1, TwoEnds DEF Running, Granting, Moving, CallSteps
<1>4. Balance' /\ Cursors' /\ Contents' /\ Inside' = Inside
  <2>1. Halfway("read")' = Halfway("read") /\ Halfway("write")' = Halfway("write")
    BY <1>0, <1>1 DEF Halfway
  <2>2. pc'["write"] = "readable" => pc["write"] = "readable" /\ n'["write"] = n["write"]
    BY <1>1
  <2> QED BY <1>0, <2>1, <2>2, RingStays
<1>5. Between' /\ Framing'
  <2>1. pc'["read"] = pc["read"] /\ n'["read"] = n["read"]
    BY <1>0, <1>1
  <2> QED BY <1>0, <1>1, <1>4, <2>1, FrameStays
<1> QED BY <1>2, <1>3, <1>4, <1>5

\* A call that a stop ended, and the threads' ways out.
LEMMA StoppedKeeps ==
  ASSUME Inv, WriteStopped \/ ReadInStopped \/ FrameStopped
  PROVE  Inv'
<1> USE DEF Inv, RingInv
<1>0. /\ UNCHANGED <<cells, cursor, count, maxLatency, left, n, skip, skipping, data, made,
                     keep, skipBy, last>>
      /\ pc \in [Ends -> Steps]
  BY DEF WriteStopped, ReadInStopped, FrameStopped, quiet, shape, Types
<1>1. \/ /\ pc["write"] \in {"look", "check", "await"} /\ pc'["write"] \in {"await", "exited"}
         /\ pc'["read"] = pc["read"]
      \/ /\ pc["read"] \in {"look", "check", "swap"} /\ pc'["read"] = "exited"
         /\ pc'["write"] = pc["write"]
  BY <1>0, TwoEnds DEF WriteStopped, ReadInStopped, FrameStopped, Stopped, Goto
<1>2. pc' \in [Ends -> Steps]
  BY <1>0 DEF WriteStopped, ReadInStopped, FrameStopped, Goto, Steps
<1>3. Types'
  BY <1>0, <1>2 DEF Types
<1>4. Running' /\ Granting'
  BY <1>0, <1>1, TwoEnds DEF Running, Granting, Moving, CallSteps
<1>5. Balance' /\ Cursors' /\ Contents' /\ Inside' = Inside
  <2>1. Halfway("read")' = Halfway("read") /\ Halfway("write")' = Halfway("write")
    BY <1>0, <1>1 DEF Halfway
  <2>2. pc'["write"] = "readable" => pc["write"] = "readable" /\ n'["write"] = n["write"]
    BY <1>0, <1>1
  <2> QED BY <1>0, <2>1, <2>2, RingStays
<1>6. Between' /\ Framing'
  <2>1. \/ pc'["read"] = pc["read"] /\ n'["read"] = n["read"]
        \/ pc'["read"] \notin CallSteps \cup {"begin", "swap"}
    BY <1>0, <1>1 DEF CallSteps
  <2> QED BY <1>0, <1>5, <2>1, FrameStays
<1> QED BY <1>3, <1>4, <1>5, <1>6

-----------------------------------------------------------------------------
(* The controlling thread.                                                  *)

LEMMA SetShapeKeeps ==
  ASSUME Inv, (\E k \in Keeps : SetKeep(k)) \/ (\E s \in Skips : SetSkip(s))
  PROVE  Inv'
<1> USE DEF Inv, RingInv
<1>0. /\ pc = [e \in Ends |-> "off"] /\ maxLatency' \in Nat
      /\ keep' \in Nat \ {0} /\ skipBy' \in Int
      /\ UNCHANGED <<cells, cursor, count, pc, left, n, skip, skipping, data, made, last>>
  BY ShapeAssumption DEF SetKeep, SetSkip, Off, ring, Types
<1>1. pc["read"] = "off" /\ pc["write"] = "off"
  BY <1>0, TwoEnds
<1>2. Types'
  BY <1>0 DEF Types
<1>3. Running'
  BY <1>0, <1>1 DEF Running
<1>4. Granting'
  BY <1>0, TwoEnds DEF Granting, Moving, CallSteps
<1>5. Balance' /\ Cursors' /\ Contents' /\ Inside' = Inside
  <2>1. Halfway("read")' = Halfway("read") /\ Halfway("write")' = Halfway("write")
    BY <1>0 DEF Halfway
  <2>2. pc'["write"] = "readable" => pc["write"] = "readable" /\ n'["write"] = n["write"]
    BY <1>0
  <2> QED BY <1>0, <2>1, <2>2, RingStays
<1>6. Between' /\ Framing'
  BY <1>0, <1>1 DEF Between, Framing, CallSteps
<1> QED BY <1>2, <1>3, <1>4, <1>5, <1>6

LEMMA StartKeeps ==
  ASSUME Inv, Start
  PROVE  Inv'
<1> USE DEF Inv, RingInv
<1>0. /\ pc = [e \in Ends |-> "off"] /\ keep + skipBy > 0
      /\ pc' = [e \in Ends |-> IF e = "read" THEN "begin" ELSE "await"]
      /\ data' = [i \in 1 .. keep |-> 0]
      /\ UNCHANGED <<cells, cursor, count, maxLatency, left, n, skip, skipping, made,
                     keep, skipBy, last>>
  BY DEF Start, Off, shape
<1>1. /\ pc["read"] = "off" /\ pc["write"] = "off" /\ pc'["read"] = "begin" /\ pc'["write"] = "await"
      /\ keep \in Nat
  BY <1>0, TwoEnds DEF Types
<1>2. data' \in Seq(Nat) /\ Len(data') = keep
  <2>1. data' \in [1 .. keep -> Nat]
    BY <1>0
  <2> QED BY <1>1, <2>1, FunctionIsSequence
<1>3. Types'
  <2>1. pc' \in [Ends -> Steps]
    BY <1>0 DEF Steps
  <2> QED BY <1>0, <1>2, <2>1 DEF Types
<1>4. Running' /\ Granting'
  BY <1>0, <1>1, TwoEnds DEF Running, Granting, Moving, CallSteps
<1>5. Balance' /\ Cursors' /\ Contents' /\ Inside' = Inside
  <2>1. Halfway("read")' = Halfway("read") /\ Halfway("write")' = Halfway("write")
    BY <1>1 DEF Halfway
  <2>2. pc'["write"] = "readable" => pc["write"] = "readable" /\ n'["write"] = n["write"]
    BY <1>1
  <2> QED BY <1>0, <2>1, <2>2, RingStays
<1>6. Between'
  BY <1>0, <1>1, <1>2 DEF Between, Running
<1>7. Framing'
  BY <1>1 DEF Framing, CallSteps
<1> QED BY <1>3, <1>4, <1>5, <1>6, <1>7

LEMMA NotifyStopKeeps ==
  ASSUME Inv, NEW e \in Ends, NotifyStop(e)
  PROVE  Inv'
<1> USE DEF Inv, RingInv
<1>0. /\ pc' = [pc EXCEPT ![e] = Wake(e, "check")] /\ pc \in [Ends -> Steps]
      /\ UNCHANGED <<cells, cursor, count, maxLatency, left, n, skip, skipping, data, made,
                     keep, skipBy, last>>
  BY DEF NotifyStop, quiet, shape, Types
<1>1. /\ Wake(e, "check") \in Steps
      /\ \A d \in Ends : pc'[d] = pc[d] \/ (pc[d] = "sleep" /\ pc'[d] = "check")
  BY <1>0, WakeIs
<1>2. Types'
  <2>1. pc' \in [Ends -> Steps]
    BY <1>0, <1>1
  <2> QED BY <1>0, <2>1 DEF Types
<1>3. Running' /\ Granting'
  BY <1>0, <1>1, TwoEnds DEF Running, Granting, Moving, CallSteps
<1>4. Balance' /\ Cursors' /\ Contents' /\ Inside' = Inside
  <2>1. Halfway("read")' = Halfway("read") /\ Halfway("write")' = Halfway("write")
    BY <1>0, <1>1, TwoEnds DEF Halfway
  <2>2. pc'["write"] = "readable" => pc["write"] = "readable" /\ n'["write"] = n["write"]
    BY <1>0, <1>1, TwoEnds
  <2> QED BY <1>0, <2>1, <2>2, RingStays
<1>5. Between' /\ Framing'
  <2>1. \/ pc'["read"] = pc["read"] /\ n'["read"] = n["read"]
        \/ pc["read"] \in Early /\ pc'["read"] \in Early
    BY <1>0, <1>1, TwoEnds DEF Early
  <2> QED BY <1>0, <1>4, <2>1, FrameStays
<1> QED BY <1>2, <1>3, <1>4, <1>5

LEMMA JoinKeeps ==
  ASSUME Inv, Join
  PROVE  Inv'
<1> USE DEF Inv, RingInv
<1>0. /\ pc = [e \in Ends |-> "exited"] /\ pc' = [e \in Ends |-> "off"]
      /\ data' = <<>> /\ last' = <<>> /\ left' = [e \in Ends |-> 0] /\ n' = [e \in Ends |-> 0]
      /\ skip' = 0 /\ skipping' = FALSE
      /\ UNCHANGED <<cells, cursor, count, maxLatency, made, keep, skipBy>>
  BY DEF Join, shape
<1>1. /\ pc["read"] = "exited" /\ pc["write"] = "exited"
      /\ pc'["read"] = "off" /\ pc'["write"] = "off"
  BY <1>0, TwoEnds
<1>2. Types'
  <2>1. pc' \in [Ends -> Steps] /\ left' \in [Ends -> Nat] /\ n' \in [Ends -> Nat]
    BY <1>0 DEF Steps
  <2>2. data' \in Seq(Nat) /\ last' \in Seq(Nat)
    BY <1>0
  <2>3. skipping' \in BOOLEAN /\ skip' \in Nat
    BY <1>0
  <2> QED BY <1>0, <2>1, <2>2, <2>3 DEF Types
<1>3. Running' /\ Granting'
  BY <1>0, <1>1, TwoEnds DEF Running, Granting, Moving, CallSteps
<1>4. Balance' /\ Cursors' /\ Contents' /\ Inside' = Inside
  <2>1. Halfway("read")' = Halfway("read") /\ Halfway("write")' = Halfway("write")
    BY <1>1 DEF Halfway
  <2>2. pc'["write"] = "readable" => pc["write"] = "readable" /\ n'["write"] = n["write"]
    BY <1>1
  <2> QED BY <1>0, <2>1, <2>2, RingStays
<1>5. Between' /\ Framing'
  BY <1>1 DEF Between, Framing, CallSteps
<1> QED BY <1>2, <1>3, <1>4, <1>5

\* The flags of the four stops are no part of the invariant.
LEMMA FlagsKeep ==
  ASSUME Inv, UNCHANGED <<cells, cursor, count, maxLatency, pc, left, n, skip, skipping, data,
                          made, keep, skipBy, last>>
  PROVE  Inv'
<1> USE DEF Inv, RingInv
<1>1. Types' /\ Running' /\ Granting'
  BY DEF Types, Running, Granting
<1>2. Balance' /\ Cursors' /\ Contents' /\ Inside' = Inside
  <2>1. Halfway("read")' = Halfway("read") /\ Halfway("write")' = Halfway("write")
    BY DEF Halfway
  <2> QED BY <2>1, RingStays
<1>3. Between' /\ Framing'
  BY <1>2, FrameStays
<1> QED BY <1>1, <1>2, <1>3

-----------------------------------------------------------------------------
(* The invariant holds.                                                     *)

LEMMA InitInv == Init => Inv
<1> SUFFICES ASSUME Init PROVE Inv
  OBVIOUS
<1>0. /\ keep \in Nat \ {0} /\ skipBy \in Int /\ maxLatency = keep * 2
      /\ pc = [e \in Ends |-> "off"] /\ last = <<>>
      /\ cells = [i \in Places |-> 0] /\ cursor = [e \in Ends |-> 0]
      /\ count = [e \in Ends |-> IF e = "read" THEN 0 ELSE Size]
      /\ left = [e \in Ends |-> 0] /\ n = [e \in Ends |-> 0]
      /\ skip = 0 /\ skipping = FALSE /\ data = <<>> /\ made = 0
  BY ShapeAssumption DEF Init, RingInit, Places
<1>1. /\ pc["read"] = "off" /\ pc["write"] = "off" /\ count["read"] = 0 /\ count["write"] = Size
      /\ cursor["read"] = 0 /\ cursor["write"] = 0
  BY <1>0, TwoEnds
<1>2. Types
  <2>1. 0 \in Places /\ maxLatency \in Nat
    BY <1>0 DEF Places
  <2>2. pc \in [Ends -> Steps] /\ left \in [Ends -> Nat] /\ n \in [Ends -> Nat]
        /\ count \in [Ends -> Nat] /\ cursor \in [Ends -> Places] /\ cells \in [Places -> Nat]
    BY <1>0, <2>1 DEF Steps
  <2>3. data \in Seq(Nat) /\ last \in Seq(Nat)
    BY <1>0
  <2>4. skipping \in BOOLEAN
    BY <1>0
  <2> QED BY <1>0, <2>1, <2>2, <2>3, <2>4 DEF Types
<1>3. Running /\ Granting
  BY <1>0, <1>1, TwoEnds DEF Running, Granting, Moving, CallSteps
<1>4. Inside = 0 /\ Halfway("write") = 0
  BY <1>1 DEF Inside, Halfway
<1>5. Balance /\ Cursors
  BY <1>1, <1>4 DEF Balance, Cursors
<1>6. Contents
  BY <1>0, <1>1, <1>4 DEF Contents
<1>7. Between /\ Framing
  BY <1>1 DEF Between, Framing, CallSteps
<1> QED BY <1>2, <1>3, <1>5, <1>6, <1>7 DEF Inv, RingInv

LEMMA StepInv == Inv /\ [Next]_vars => Inv'
<1> SUFFICES ASSUME Inv, [Next]_vars PROVE Inv'
  OBVIOUS
<1>1. ASSUME NEW e \in Ends, Waiting(e), UNCHANGED Outside PROVE Inv'
  BY <1>1, WaitingKeeps
<1>2. CASE WorkThread
  <2>1. ASSUME CallStep("write", "await"), UNCHANGED Outside PROVE Inv'
    <3>1. Waiting("write") \/ CountReadable("write") \/ CountWritable("write")
          \/ Notify("write", "await") \/ CopyIn
      BY <2>1 DEF CallStep, Waiting
    <3> QED BY <1>1, <2>1, <3>1, TwoEnds, CountReadableByWriter, CountWritableByWriter,
               NotifyByWriter, CopyInKeeps
  <2> QED BY <1>2, <2>1, ReadInKeeps, StoppedKeeps DEF WorkThread, Outside
<1>3. CASE BufferWorker
  <2>1. ASSUME CallStep("read", "swap"), UNCHANGED Outside PROVE Inv'
    <3>1. Waiting("read") \/ CountReadable("read") \/ CountWritable("read")
          \/ Notify("read", "swap") \/ CopyOut
      BY <2>1 DEF CallStep, Waiting
    <3> QED BY <1>1, <2>1, <3>1, TwoEnds, CountReadableByReader, CountWritableByReader,
               NotifyByReader, CopyOutKeeps
  <2> QED BY <1>3, <2>1, BeginFrameKeeps, StoppedKeeps DEF BufferWorker, Outside
<1>4. CASE SwapOut
  BY <1>4, SwapOutKeeps
<1>5. CASE (\E k \in Keeps : SetKeep(k)) \/ (\E s \in Skips : SetSkip(s))
  BY <1>5, SetShapeKeeps
<1>6. CASE Start
  BY <1>6, StartKeeps
<1>7. CASE StopIn
  BY <1>7, FlagsKeep DEF StopIn, ring, shape
<1>8. CASE StopStep
  <2>1. CASE StopOut
    BY <2>1, FlagsKeep DEF StopOut, ring, shape
  <2>2. CASE Join
    BY <2>2, JoinKeeps
  <2>3. ASSUME NEW e \in Ends, SetStop(e) PROVE Inv'
    BY <2>3, FlagsKeep DEF SetStop, shape
  <2>4. ASSUME NEW e \in Ends, NotifyStop(e) PROVE Inv'
    BY <2>4, NotifyStopKeeps
  <2> QED BY <1>8, <2>1, <2>2, <2>3, <2>4 DEF StopStep
<1>9. ASSUME NEW e \in Ends, WakeUp(e) PROVE Inv'
  BY <1>1, <1>9 DEF WakeUp, Waiting, Outside
<1>10. CASE UNCHANGED vars
  BY <1>10, FlagsKeep DEF vars, ring, shape
<1> QED BY <1>2, <1>3, <1>4, <1>5, <1>6, <1>7, <1>8, <1>9, <1>10 DEF Next

\* Who may copy what, where the samples lie and how far a frame is: for every size of the
\* ring, every keep and skip, and any number of restarts.
THEOREM Holds == Spec => []Inv
BY InitInv, StepInv, PTL DEF Spec

\* The two memcpys never touch the same cell at the same time.
THEOREM CopiesApartHolds == Spec => []CopiesApart
<1>1. Inv => CopiesApart
  <2> SUFFICES ASSUME Inv, \A e \in Ends : pc[e] \in {"copy", "readable"},
                      NEW i \in 1 .. n["read"], NEW j \in 1 .. n["write"],
                      Cell("read", i) = Cell("write", j)
               PROVE  FALSE
    BY DEF CopiesApart, Slice
  <2> USE DEF Inv, RingInv
  <2>1. /\ pc["read"] \in {"copy", "readable"} /\ pc["write"] \in {"copy", "readable"}
        /\ n["read"] \in Nat /\ count["read"] \in Nat
    BY TwoEnds DEF Types
  <2>2. n["read"] <= count["read"]
    BY <2>1 DEF Granting
  <2>3. i \in 1 .. Inside /\ i \in 1 .. Size
    BY <2>1, <2>2, CountBounds
  <2>4. Cell("read", i) = Place(i)
    BY <2>3, CellIs
  <2>5. Place(i) # Cell("write", j)
    BY <2>1, <2>3, SlicesApart
  <2> QED BY <2>4, <2>5
<1> QED BY <1>1, Holds, PTL

\* Every frame is keep samples as they came in, keep + skip samples after the one before.
THEOREM FramesSlideHolds == Spec => []FramesSlide
<1>1. Inv => FramesSlide
  <2> SUFFICES ASSUME Inv, pc["read"] = "swap"
               PROVE  /\ Len(data) = keep
                      /\ \A i \in Lap + 1 .. keep - 1 : data[i + 1] = data[i] + 1
                      /\ last # <<>> => /\ data[keep] = last[keep] + keep + skipBy
                                        /\ \A i \in 1 .. Lap : data[i] = last[keep - Lap + i]
    BY DEF FramesSlide, Lap
  <2> USE DEF Inv, RingInv
  <2>0. /\ keep \in Nat \ {0} /\ skipBy \in Int /\ keep + skipBy > 0 /\ Lap \in Nat /\ Gap \in Nat
        /\ Lap < keep /\ skipBy = Gap - Lap /\ made \in Nat /\ skip \in Nat /\ skipping \in BOOLEAN
        /\ Inside \in Int
    BY CountBounds DEF Types, Running, Lap, Gap
  <2>1. /\ left["read"] = 0 /\ Len(data) = Filled
        /\ \A i \in Lap + 1 .. Len(data) : data[i] = Before + i - Lap
        /\ last # <<>> => /\ last[keep] + Gap = Before
                          /\ \A i \in 1 .. Lap : data[i] = last[keep - Lap + i]
    BY DEF Framing
  <2>2. Len(data) = keep
    BY <2>1 DEF Filled
  <2>3. PICK b \in Int : b = Before
    <3>1. (IF skipping THEN skip ELSE 0) \in Int
      BY <2>0
    <3>2. Before = (made - Inside) + (0 - 0 - (keep - Lap) - (IF skipping THEN skip ELSE 0))
      BY <2>1 DEF Before
    <3> QED BY <2>0, <3>1, <3>2
  <2>4. ASSUME NEW i \in Lap + 1 .. keep - 1 PROVE data[i + 1] = data[i] + 1
    <3>1. i \in Lap + 1 .. Len(data) /\ i + 1 \in Lap + 1 .. Len(data)
      BY <2>0, <2>2
    <3>2. data[i] = b + i - Lap /\ data[i + 1] = b + (i + 1) - Lap
      BY <2>1, <2>3, <3>1
    <3> QED BY <2>0, <2>3, <3>2
  <2>5. ASSUME last # <<>> PROVE data[keep] = last[keep] + keep + skipBy
    <3>1. keep \in Lap + 1 .. Len(data)
      BY <2>0, <2>2
    <3>2. data[keep] = b + keep - Lap
      BY <2>1, <2>3, <3>1
    <3>3. last[keep] + Gap = b /\ last \in Seq(Nat) /\ Len(last) = keep
      BY <2>1, <2>3, <2>5 DEF Framing, Types
    <3>4. PICK x \in Nat : x = last[keep]
      BY <2>0, <3>3
    <3>5. b + keep - Lap = x + keep + skipBy
      <4>1. /\ b = x + Gap /\ skipBy = Gap - Lap
            /\ Gap \in Int /\ Lap \in Int /\ keep \in Int /\ skipBy \in Int
        BY <2>0, <3>3, <3>4
      <4> QED BY <4>1
    <3> QED BY <3>2, <3>4, <3>5, Zenon
  <2> QED BY <2>1, <2>2, <2>4, <2>5
<1> QED BY <1>1, Holds, PTL

-----------------------------------------------------------------------------
(* Nobody sleeps through a notification.                                    *)

LEMMA AwakeStays ==
  ASSUME Awake, UNCHANGED <<count, maxLatency>>,
         \A e \in Ends : \/ pc'[e] = pc[e]
                         \/ pc'[e] \notin {"hold", "sleep"} /\ pc[e] \notin {"writable", "notify"}
  PROVE  Awake'
<1>1. Available("write", count["write"])' = Available("write", count["write"])
  BY DEF Available
<1> QED BY <1>1, TwoEnds DEF Awake

LEMMA AwakeVacuous ==
  ASSUME \A e \in Ends : pc'[e] \notin {"hold", "sleep"}
  PROVE  Awake'
BY TwoEnds DEF Awake

LEMMA WaitingAwake ==
  ASSUME Inv, Awake, NEW e \in Ends, Waiting(e), UNCHANGED Outside
  PROVE  Awake'
<1>0. /\ UNCHANGED <<cells, cursor, count, maxLatency, stop, left, skip, skipping, data, made>>
      /\ pc' = [pc EXCEPT ![e] = pc'[e]] /\ pc[e] \in Early \ {"copy"}
      /\ pc \in [Ends -> Steps] /\ count["read"] \in Nat /\ count["write"] \in Nat
  BY WaitingMoves, TwoEnds DEF Inv, RingInv, Types
<1>1. /\ \A d \in Ends : d # e => pc'[d] = pc[d]
      /\ pc[e] \notin {"writable", "notify"}
      /\ Available("write", count["write"])' = Available("write", count["write"])
  BY <1>0 DEF Early, Available
<1>2. CASE pc'[e] \notin {"hold", "sleep"}
  BY <1>0, <1>1, <1>2, AwakeStays
<1>3. CASE pc'[e] = "hold"
  <2>1. Check(e) /\ ~(Available(e, count[e]) > 0)
    BY <1>0, <1>3 DEF Waiting, Look, Try, Check, Sleep, SpuriousWake, Granted, Goto
  <2>2. CASE e = "read"
    <3>1. count["read"] = 0
      BY <1>0, <2>1, <2>2 DEF Available
    <3> QED BY <1>0, <1>1, <1>3, <2>2, <3>1, TwoEnds DEF Awake
  <2>3. CASE e = "write"
    BY <1>0, <1>1, <1>3, <2>1, <2>3, TwoEnds DEF Awake
  <2> QED BY <2>2, <2>3, TwoEnds
<1>4. CASE pc'[e] = "sleep"
  <2>1. pc[e] = "hold"
    BY <1>0, <1>4 DEF Waiting, Look, Try, Check, Sleep, SpuriousWake, Granted, Goto
  <2> QED BY <1>0, <1>1, <1>4, <2>1, TwoEnds DEF Awake
<1> QED BY <1>2, <1>3, <1>4

LEMMA CallAwake ==
  ASSUME Inv, Awake, NEW e \in Ends, NEW done \in {"swap", "await"},
         CallStep(e, done), UNCHANGED Outside
  PROVE  Awake'
<1>0. pc \in [Ends -> Steps]
  BY DEF Inv, RingInv, Types
<1>1. CASE Waiting(e)
  BY <1>1, WaitingAwake
<1>2. CASE CopyIn \/ CopyOut
  <2>1. /\ UNCHANGED <<count, maxLatency>>
        /\ \A d \in Ends : pc'[d] = pc[d] \/ (pc[d] = "copy" /\ pc'[d] = "readable")
    BY <1>0, <1>2, TwoEnds DEF CopyIn, CopyOut, Goto
  <2> QED BY <2>1, AwakeStays
<1>3. CASE CountReadable(e)
  <2>1. /\ pc[e] = "readable" /\ (pc[Other(e)] # "hold" \/ e = "read")
        /\ pc'[e] = "writable" /\ \A d \in Ends : d # e => pc'[d] = pc[d]
    BY <1>0, <1>3, TwoEnds DEF CountReadable, Unlocked, Goto
  <2> QED BY <2>1, TwoEnds DEF Awake
<1>4. CASE CountWritable(e)
  <2>1. /\ pc[e] = "writable" /\ (pc[Other(e)] # "hold" \/ e = "write")
        /\ pc'[e] = "notify" /\ \A d \in Ends : d # e => pc'[d] = pc[d]
        /\ count' = [count EXCEPT !["write"] = @ + Change(e, "write")]
    BY <1>0, <1>4, TwoEnds DEF CountWritable, Unlocked, Goto
  <2>2. count'["read"] = count["read"]
    BY <2>1, TwoEnds DEF Inv, RingInv, Types
  <2> QED BY <2>1, <2>2, TwoEnds DEF Awake
<1>5. CASE Notify(e, done)
  <2>1. /\ pc[e] = "notify" /\ pc'[e] \in {"look", done}
        /\ pc'[Other(e)] = Wake(Other(e), "check") /\ UNCHANGED <<count, maxLatency>>
    BY <1>0, <1>5, TwoEnds DEF Notify
  <2>2. pc'[e] \notin {"hold", "sleep"} /\ pc'[Other(e)] # "sleep"
    BY <2>1 DEF Wake
  <2>3. pc'[Other(e)] = "hold" => pc[Other(e)] = "hold"
    BY <2>1 DEF Wake
  <2>4. Available("write", count["write"])' = Available("write", count["write"])
    BY <2>1 DEF Available
  <2> QED BY <2>1, <2>2, <2>3, <2>4, TwoEnds DEF Awake
<1> QED BY <1>1, <1>2, <1>3, <1>4, <1>5, TwoEnds DEF CallStep, Waiting

LEMMA StepAwake == Inv /\ Awake /\ [Next]_vars => Awake'
<1> SUFFICES ASSUME Inv, Awake, [Next]_vars PROVE Awake'
  OBVIOUS
<1>0. pc \in [Ends -> Steps]
  BY DEF Inv, RingInv, Types
<1>1. CASE WorkThread
  <2>1. ASSUME NEW len \in Lens, ReadIn(len) PROVE Awake'
    <3>1. /\ UNCHANGED <<count, maxLatency>>
          /\ \A d \in Ends : pc'[d] = pc[d] \/ (pc[d] = "await" /\ pc'[d] = "look")
      BY <1>0, <2>1 DEF ReadIn, Goto
    <3> QED BY <3>1, AwakeStays
  <2>2. CASE WriteStopped \/ ReadInStopped
    <3>1. /\ UNCHANGED <<count, maxLatency>>
          /\ \A d \in Ends : \/ pc'[d] = pc[d]
                             \/ pc[d] \in {"look", "check", "await"} /\ pc'[d] \in {"await", "exited"}
      BY <1>0, <2>2 DEF WriteStopped, ReadInStopped, Stopped, Goto, quiet
    <3> QED BY <3>1, AwakeStays
  <2>3. ASSUME CallStep("write", "await"), UNCHANGED Outside PROVE Awake'
    BY <2>3, CallAwake, TwoEnds
  <2> QED BY <1>1, <2>1, <2>2, <2>3 DEF WorkThread, Outside
<1>2. CASE BufferWorker \/ SwapOut
  <2>1. CASE BeginFrame \/ FrameStopped \/ SwapOut
    <3>1. /\ UNCHANGED <<count, maxLatency>>
          /\ \A d \in Ends : \/ pc'[d] = pc[d]
                             \/ /\ pc[d] \in {"begin", "look", "check", "swap"}
                                /\ pc'[d] \in {"look", "begin", "exited"}
      BY <1>0, <2>1 DEF BeginFrame, FrameStopped, SwapOut, Stopped, Goto, quiet
    <3> QED BY <3>1, AwakeStays
  <2>2. ASSUME CallStep("read", "swap"), UNCHANGED Outside PROVE Awake'
    BY <2>2, CallAwake, TwoEnds
  <2> QED BY <1>2, <2>1, <2>2 DEF BufferWorker, Outside
<1>3. CASE (\E k \in Keeps : SetKeep(k)) \/ (\E s \in Skips : SetSkip(s)) \/ Start \/ Join
  <2>1. \A e \in Ends : pc'[e] \in {"off", "begin", "await"}
    BY <1>3 DEF SetKeep, SetSkip, Start, Join, Off, ring
  <2> QED BY <2>1, AwakeVacuous
<1>4. CASE StopIn \/ StopOut \/ (\E e \in Ends : SetStop(e)) \/ UNCHANGED vars
  <2>1. UNCHANGED <<count, maxLatency, pc>>
    BY <1>4 DEF StopIn, StopOut, SetStop, ring, vars
  <2> QED BY <2>1, AwakeStays
<1>5. ASSUME NEW e \in Ends, NotifyStop(e) PROVE Awake'
  <2>1. /\ UNCHANGED <<count, maxLatency>>
        /\ \A d \in Ends : pc'[d] = pc[d] \/ (pc[d] = "sleep" /\ pc'[d] = "check")
    BY <1>0, <1>5 DEF NotifyStop, Wake, quiet
  <2> QED BY <2>1, AwakeStays
<1>6. ASSUME NEW e \in Ends, WakeUp(e) PROVE Awake'
  BY <1>6, WaitingAwake DEF WakeUp, Waiting, Outside
<1> QED BY <1>1, <1>2, <1>3, <1>4, <1>5, <1>6 DEF Next, StopStep

Telling(e) == IF e = "read" THEN "readNotify" ELSE "writeNotify"

LEMMA ToldStays ==
  ASSUME Told, UNCHANGED <<stop, ctl, missed>>,
         \A e \in Ends : pc'[e] \in {"hold", "sleep"} /\ stop[e] => pc[e] \in {"hold", "sleep"}
  PROVE  Told'
BY DEF Told

LEMMA CallTold ==
  ASSUME Inv, Told, NEW e \in Ends, NEW done \in {"swap", "await"},
         Waiting(e) \/ CallStep(e, done), UNCHANGED Outside
  PROVE  Told'
<1>0. pc \in [Ends -> Steps]
  BY DEF Inv, RingInv, Types
<1>1. UNCHANGED <<stop, ctl, missed>>
  BY DEF Waiting, CallStep, Look, Try, Check, Sleep, SpuriousWake, CopyIn, CopyOut,
         CountReadable, CountWritable, Notify, Outside, quiet
<1>2. ASSUME NEW d \in Ends, pc'[d] \in {"hold", "sleep"}, stop[d]
      PROVE  pc[d] \in {"hold", "sleep"}
  <2>1. CASE Waiting(e)
    BY <1>0, <1>2, <2>1 DEF Waiting, Look, Try, Check, Sleep, SpuriousWake, Granted, Goto
  <2>2. CASE CountReadable(e) \/ CountWritable(e) \/ CopyIn \/ CopyOut
    BY <1>0, <1>2, <2>2, TwoEnds DEF CountReadable, CountWritable, CopyIn, CopyOut, Goto
  <2>3. CASE Notify(e, done)
    <3>1. /\ pc'[e] \in {"look", done} /\ pc'[Other(e)] = Wake(Other(e), "check")
          /\ d = e \/ d = Other(e)
      BY <1>0, <2>3, TwoEnds DEF Notify
    <3> QED BY <1>2, <3>1 DEF Wake
  <2> QED BY <2>1, <2>2, <2>3, TwoEnds DEF CallStep, Waiting
<1> QED BY <1>1, <1>2, ToldStays

LEMMA StepTold == Inv /\ Told /\ [Next]_vars => Told'
<1> SUFFICES ASSUME Inv, Told, [Next]_vars PROVE Told'
  OBVIOUS
<1>0. pc \in [Ends -> Steps]
  BY DEF Inv, RingInv, Types
<1>1. ASSUME UNCHANGED <<stop, ctl, missed>>,
             \A d \in Ends : pc'[d] = pc[d] \/ pc'[d] \notin {"hold", "sleep"}
      PROVE  Told'
  BY <1>1, ToldStays
<1>2. CASE WorkThread
  <2>1. CASE (\E len \in Lens : ReadIn(len)) \/ WriteStopped \/ ReadInStopped
    <3>1. /\ UNCHANGED <<stop, ctl, missed>>
          /\ \A d \in Ends : pc'[d] = pc[d] \/ pc'[d] \in {"look", "await", "exited"}
      BY <1>0, <2>1 DEF ReadIn, WriteStopped, ReadInStopped, Goto, quiet
    <3> QED BY <1>1, <3>1
  <2>2. ASSUME CallStep("write", "await"), UNCHANGED Outside PROVE Told'
    BY <2>2, CallTold, TwoEnds
  <2> QED BY <1>2, <2>1, <2>2 DEF WorkThread, Outside
<1>3. CASE BufferWorker \/ SwapOut
  <2>1. CASE BeginFrame \/ FrameStopped \/ SwapOut
    <3>1. /\ UNCHANGED <<stop, ctl, missed>>
          /\ \A d \in Ends : pc'[d] = pc[d] \/ pc'[d] \in {"look", "begin", "exited"}
      BY <1>0, <2>1 DEF BeginFrame, FrameStopped, SwapOut, Goto, quiet
    <3> QED BY <1>1, <3>1
  <2>2. ASSUME CallStep("read", "swap"), UNCHANGED Outside PROVE Told'
    BY <2>2, CallTold, TwoEnds
  <2> QED BY <1>3, <2>1, <2>2 DEF BufferWorker, Outside
<1>4. CASE (\E k \in Keeps : SetKeep(k)) \/ (\E s \in Skips : SetSkip(s)) \/ Start \/ Join
  <2>1. \A e \in Ends : pc'[e] \in {"off", "begin", "await"}
    BY <1>4 DEF SetKeep, SetSkip, Start, Join, Off, ring
  <2>2. stop' \in [Ends -> BOOLEAN]
    BY <1>4 DEF SetKeep, SetSkip, Start, Join, ring, Told
  <2> QED BY <2>1, <2>2 DEF Told
<1>5. CASE StopIn \/ StopOut
  <2>1. /\ UNCHANGED <<pc, stop, missed>>
        /\ ctl \notin {"readNotify", "writeNotify"}
    BY <1>5 DEF StopIn, StopOut, ring
  <2> QED BY <2>1 DEF Told
<1>6. ASSUME NEW e \in Ends, SetStop(e) PROVE Told'
  <2>1. /\ UNCHANGED <<pc, missed>> /\ ctl \notin {"readNotify", "writeNotify"}
        /\ ctl' = Telling(e) /\ \A d \in Ends : d # e => stop'[d] = stop[d]
        /\ stop' \in [Ends -> BOOLEAN]
    BY <1>6, TwoEnds DEF SetStop, Telling, Told
  <2> QED BY <2>1, TwoEnds DEF Told, Telling
<1>7. ASSUME NEW e \in Ends, NotifyStop(e) PROVE Told'
  <2>1. /\ pc' = [pc EXCEPT ![e] = Wake(e, "check")] /\ UNCHANGED stop
        /\ missed' = IF pc[e] = "hold" THEN missed \cup {e} ELSE missed
    BY <1>7 DEF NotifyStop, quiet
  <2>2. ctl = Telling(e)
    BY <1>7 DEF NotifyStop, Telling
  <2>3. ASSUME NEW d \in Ends, pc'[d] \in {"hold", "sleep"}, stop'[d] PROVE d \in missed'
    <3>1. CASE d = e
      <4>1. pc[e] = "hold"
        BY <1>0, <2>1, <2>3, <3>1 DEF Wake
      <4> QED BY <2>1, <3>1, <4>1
    <3>2. CASE d # e
      <4>1. pc[d] \in {"hold", "sleep"} /\ stop[d] /\ ctl # Telling(d)
        BY <1>0, <2>1, <2>2, <2>3, <3>2, TwoEnds DEF Telling
      <4>2. d \in missed
        BY <4>1 DEF Told, Telling
      <4> QED BY <2>1, <4>2
    <3> QED BY <3>1, <3>2
  <2> QED BY <2>1, <2>3 DEF Told
<1>8. ASSUME NEW e \in Ends, WakeUp(e) PROVE Told'
  BY <1>8, CallTold DEF WakeUp, Waiting, Outside
<1>9. CASE UNCHANGED vars
  BY <1>1, <1>9 DEF vars, ring
<1> QED BY <1>2, <1>3, <1>4, <1>5, <1>6, <1>7, <1>8, <1>9 DEF Next, StopStep

\* Whoever sleeps in the ring has nothing to wake up for, or is about to be notified - unless
\* a stop was notified between its last look and its sleep.
THEOREM NoLostWakeupHolds == Spec => []NoLostWakeup
<1>1. Init => Awake /\ Told
  BY TwoEnds DEF Init, RingInit, Awake, Told
<1>2. Inv /\ Awake /\ Told => NoLostWakeup
  <2> SUFFICES ASSUME Inv, Awake, Told PROVE NoLostWakeup
    OBVIOUS
  <2>1. count["read"] \in Nat /\ count["write"] \in Nat
    BY TwoEnds DEF Inv, RingInv, Types
  <2>2. Available("read", count["read"]) > 0 => count["read"] > 0
    BY DEF Available
  <2>3. ASSUME NEW e \in Ends, pc[e] \in {"hold", "sleep"}, Available(e, count[e]) > 0
        PROVE  pc[Other(e)] \in {"readable", "writable", "notify"}
    BY <2>1, <2>2, <2>3, TwoEnds DEF Awake
  <2> QED BY <2>3 DEF NoLostWakeup, Told
<1>3. Spec => []Awake
  BY <1>1, StepAwake, Holds, PTL DEF Spec
<1>4. Spec => []Told
  BY <1>1, StepTold, Holds, PTL DEF Spec
<1> QED BY <1>2, <1>3, <1>4, Holds, PTL

-----------------------------------------------------------------------------
(* Refinement.                                                              *)

\* The last c of m samples.
LastOf(c, m) == [i \in 1 .. c |-> m - c + i]

LEMMA LastOfIs ==
  ASSUME NEW c \in Nat, NEW m \in Nat, c <= m
  PROVE  /\ LastOf(c, m) \in Seq(Nat) /\ Len(LastOf(c, m)) = c
         /\ \A i \in 1 .. c : LastOf(c, m)[i] = m - c + i
<1>1. LastOf(c, m) \in [1 .. c -> Nat] /\ \A i \in 1 .. c : LastOf(c, m)[i] = m - c + i
  BY DEF LastOf
<1> QED BY <1>1, FunctionIsSequence

LEMMA LastOfPut ==
  ASSUME NEW c \in Nat, NEW m \in Nat, c <= m, NEW k \in Nat
  PROVE  LastOf(c + k, m + k) = LastOf(c, m) \o [i \in 1 .. k |-> m + i]
<1> DEFINE new == [i \in 1 .. k |-> m + i]
           old == LastOf(c, m)
           both == LastOf(c + k, m + k)
<1>1. old \in Seq(Nat) /\ Len(old) = c /\ \A i \in 1 .. c : old[i] = m - c + i
  BY LastOfIs
<1>2. new \in Seq(Nat) /\ Len(new) = k /\ \A i \in 1 .. k : new[i] = m + i
  <2>1. new \in [1 .. k -> Nat] /\ \A i \in 1 .. k : new[i] = m + i
    OBVIOUS
  <2> HIDE DEF new
  <2> QED BY <2>1, FunctionIsSequence
<1>3. both \in Seq(Nat) /\ Len(both) = c + k /\ \A i \in 1 .. c + k : both[i] = (m + k) - (c + k) + i
  BY LastOfIs
<1> HIDE DEF new, old, both
<1>4. /\ old \o new \in Seq(Nat) /\ Len(old \o new) = Len(old) + Len(new)
      /\ \A i \in 1 .. Len(old) + Len(new) :
            (old \o new)[i] = IF i <= Len(old) THEN old[i] ELSE new[i - Len(old)]
  BY <1>1, <1>2, ConcatProperties, Zenon
<1>5. ASSUME NEW i \in 1 .. Len(both) PROVE both[i] = (old \o new)[i]
  <2>1. i \in 1 .. c + k /\ both[i] = (m + k) - (c + k) + i
    BY <1>3
  <2>2. (old \o new)[i] = IF i <= c THEN old[i] ELSE new[i - c]
    BY <1>1, <1>2, <1>4, <2>1
  <2>3. CASE i <= c
    BY <1>1, <2>1, <2>2, <2>3
  <2>4. CASE i > c
    <3>1. PICK j \in 1 .. k : j = i - c
      <4>1. i - c \in 1 .. k
        BY <2>1, <2>4
      <4> QED BY <4>1
    <3>2. (old \o new)[i] = m + j
      <4>1. (old \o new)[i] = new[i - c]
        <5>1. i \in Int /\ ~(i <= c)
          BY <2>1, <2>4
        <5> QED BY <2>2, <5>1, Zenon
      <4>2. new[i - c] = new[j]
        BY <3>1, Zenon
      <4>3. new[j] = m + j
        BY <1>2, Zenon
      <4> QED BY <4>1, <4>2, <4>3, Zenon
    <3>3. (m + k) - (c + k) + i = m + j
      BY <2>1, <3>1
    <3> QED BY <2>1, <3>2, <3>3
  <2>5. i <= c \/ i > c
    <3>1. i \in Int
      BY <2>1
    <3> QED BY <3>1
  <2> QED BY <2>3, <2>4, <2>5, Zenon
<1>6. Len(both) = Len(old \o new)
  BY <1>1, <1>2, <1>3, <1>4
<1>7. both = old \o new
  BY <1>3, <1>4, <1>5, <1>6, SeqEqual, Zenon
<1> QED BY <1>7 DEF new, old, both

LEMMA LastOfRelease ==
  ASSUME NEW c \in Nat, NEW m \in Nat, c <= m, NEW k \in 1 .. c
  PROVE  LastOf(c - k, m) = SubSeq(LastOf(c, m), k + 1, Len(LastOf(c, m)))
<1> DEFINE old == LastOf(c, m)
           rest == LastOf(c - k, m)
<1>1. old \in Seq(Nat) /\ Len(old) = c /\ \A i \in 1 .. c : old[i] = m - c + i
  BY LastOfIs
<1>2. rest \in Seq(Nat) /\ Len(rest) = c - k /\ \A i \in 1 .. c - k : rest[i] = m - (c - k) + i
  <2>1. c - k \in Nat /\ c - k <= m
    OBVIOUS
  <2> QED BY <2>1, LastOfIs
<1> HIDE DEF old, rest
<1>3. PICK p \in Int : p = k + 1
  OBVIOUS
<1>4. /\ SubSeq(old, p, c) \in Seq(Nat) /\ Len(SubSeq(old, p, c)) = IF p <= c THEN c - p + 1 ELSE 0
      /\ \A i \in 1 .. c - p + 1 : SubSeq(old, p, c)[i] = old[p + i - 1]
  <2>1. \A i \in p .. c : old[i] \in Nat
    BY <1>1, <1>3
  <2> QED BY <2>1, SubSeqProperties
<1>5. Len(rest) = Len(SubSeq(old, p, c))
  BY <1>2, <1>3, <1>4
<1>6. ASSUME NEW i \in 1 .. Len(rest) PROVE rest[i] = SubSeq(old, p, c)[i]
  <2>1. i \in 1 .. c - k /\ i \in 1 .. c - p + 1 /\ k + i \in 1 .. c /\ p + i - 1 = k + i
    BY <1>2, <1>3
  <2>2. SubSeq(old, p, c)[i] = m - c + (k + i)
    BY <1>1, <1>4, <2>1
  <2> QED BY <1>2, <2>1, <2>2
<1>7. rest = SubSeq(old, p, c)
  BY <1>2, <1>4, <1>5, <1>6, SeqEqual, Zenon
<1> QED BY <1>1, <1>3, <1>7 DEF old, rest

\* What is in the ring are the samples that came in last.
LEMMA QueuedIs == Inv => /\ Queued = LastOf(count["read"], made)
                         /\ count["read"] \in Nat /\ made \in Nat /\ count["read"] <= made
<1> SUFFICES ASSUME Inv
             PROVE  /\ Queued = LastOf(count["read"], made)
                    /\ count["read"] \in Nat /\ made \in Nat /\ count["read"] <= made
  OBVIOUS
<1> USE DEF Inv, RingInv
<1>1. /\ count["read"] \in Nat /\ made \in Nat /\ n["read"] \in Nat /\ cursor["read"] \in Places
      /\ Inside \in 0 .. Size /\ Inside <= made /\ Inside = count["read"] + Halfway("read")
      /\ Halfway("read") \in Nat
  BY CountBounds, TwoEnds DEF Types, Contents, Inside, Halfway
<1>2. ASSUME NEW i \in 1 .. count["read"]
      PROVE  cells[(cursor["read"] + i - 1 + Halfway("read")) % Size] = made - count["read"] + i
  <2>1. PICK j \in 1 .. Inside : j = Halfway("read") + i
    BY <1>1
  <2>2. cells[Place(j)] = made - Inside + j
    BY DEF Contents
  <2>3. cursor["read"] + i - 1 + Halfway("read") = cursor["read"] + j - 1
    BY <1>1, <2>1 DEF Places
  <2>4. made - Inside + j = made - count["read"] + i
    BY <1>1, <2>1
  <2> QED BY <2>2, <2>3, <2>4 DEF Place
<1>3. Queued = [i \in 1 .. count["read"] |->
                  cells[(cursor["read"] + i - 1 + Halfway("read")) % Size]]
  BY DEF Queued, Halfway
<1> QED BY <1>1, <1>2, <1>3 DEF LastOf

LEMMA QueuedNext == Inv' => Queued' = LastOf(count'["read"], made')
<1>1. Inv => Queued = LastOf(count["read"], made)
  BY QueuedIs
<1>2. (Inv => Queued = LastOf(count["read"], made))'
  BY <1>1, PTL
<1> QED BY <1>2 DEF LastOf

\* A step that neither counts samples nor moves the reader into or out of its copy.
LEMMA OtherStutters ==
  ASSUME Inv, Inv', UNCHANGED <<count, made, maxLatency>>,
         \/ pc'["read"] = pc["read"] /\ n'["read"] = n["read"]
         \/ pc["read"] # "readable" /\ pc'["read"] # "readable"
  PROVE  UNCHANGED <<Queued, Held, made, maxLatency>>
BY QueuedIs, QueuedNext DEF Held

LEMMA PutRefines ==
  ASSUME Inv, Inv', CountReadable("write"), UNCHANGED Outside
  PROVE  Queue!Put
<1> DEFINE k == n["write"]
<1>1. /\ pc["write"] = "readable" /\ made' = made + k /\ count' = [count EXCEPT !["read"] = @ + k]
      /\ pc' = [pc EXCEPT !["write"] = "writable"] /\ n' = n /\ maxLatency' = maxLatency
      /\ pc \in [Ends -> Steps] /\ count \in [Ends -> Nat] /\ k \in Nat /\ left["write"] \in Nat
  BY TwoEnds DEF CountReadable, Change, Goto, Inv, RingInv, Types
<1>2. k \in 1 .. left["write"] /\ count["read"] + k <= maxLatency
  BY <1>1, TwoEnds DEF Inv, RingInv, Granting, Moving
<1>3. count'["read"] = count["read"] + k /\ pc'["read"] = pc["read"]
  BY <1>1, TwoEnds
<1>4. /\ Queued = LastOf(count["read"], made) /\ Queued' = LastOf(count["read"] + k, made + k)
      /\ count["read"] \in Nat /\ made \in Nat /\ count["read"] <= made
  BY <1>1, <1>3, QueuedIs, QueuedNext
<1>5. Queued' = Queued \o [i \in 1 .. k |-> made + i]
  <2>1. k \in Nat
    BY <1>1
  <2> HIDE DEF k
  <2>2. PICK c \in Nat, m \in Nat : c = count["read"] /\ m = made
    BY <1>4
  <2>3. c <= m
    BY <1>4, <2>2
  <2>4. LastOf(c + k, m + k) = LastOf(c, m) \o [i \in 1 .. k |-> m + i]
    BY <2>1, <2>3, LastOfPut
  <2> QED BY <1>4, <2>2, <2>4
<1>6. made' > made /\ made' - made = k
  BY <1>1, <1>2, <1>4
<1>7. Len(Queued') <= maxLatency
  <2>1. count["read"] + k \in Nat /\ made + k \in Nat /\ count["read"] + k <= made + k
    BY <1>1, <1>4
  <2>2. Len(Queued') = count["read"] + k
    BY <1>4, <2>1, LastOfIs
  <2> QED BY <1>2, <2>2
<1>8. Held' = Held
  BY <1>1, <1>3 DEF Held
<1> QED BY <1>1, <1>5, <1>6, <1>7, <1>8 DEF Queue!Put

LEMMA TakeRefines ==
  ASSUME Inv, Inv', CopyOut, UNCHANGED Outside
  PROVE  Queue!Take
<1>1. /\ pc["read"] = "copy" /\ pc' = [pc EXCEPT !["read"] = "readable"] /\ pc \in [Ends -> Steps]
      /\ UNCHANGED <<count, made, maxLatency, n>> /\ n["read"] \in Nat /\ left["read"] \in Nat
  BY TwoEnds DEF CopyOut, Goto, Inv, RingInv, Types
<1>2. n["read"] \in 1 .. left["read"] /\ n["read"] <= count["read"]
  BY <1>1, TwoEnds DEF Inv, RingInv, Granting, Moving
<1>3. /\ Queued = LastOf(count["read"], made) /\ Queued' = Queued
      /\ count["read"] \in Nat /\ made \in Nat /\ count["read"] <= made
  BY <1>1, QueuedIs, QueuedNext
<1>4. Len(Queued) = count["read"]
  BY <1>3, LastOfIs
<1>5. Held = 0 /\ Held' = n["read"]
  BY <1>1, TwoEnds DEF Held
<1>6. n["read"] \in 1 .. Len(Queued)
  BY <1>1, <1>2, <1>3, <1>4
<1> QED BY <1>1, <1>3, <1>5, <1>6 DEF Queue!Take

LEMMA ReleaseRefines ==
  ASSUME Inv, Inv', CountReadable("read"), UNCHANGED Outside
  PROVE  Queue!Release
<1> DEFINE k == n["read"]
<1>1. /\ pc["read"] = "readable" /\ pc' = [pc EXCEPT !["read"] = "writable"]
      /\ count' = [count EXCEPT !["read"] = @ + -k] /\ UNCHANGED <<made, maxLatency, n>>
      /\ pc \in [Ends -> Steps] /\ count \in [Ends -> Nat] /\ k \in Nat /\ left["read"] \in Nat
  BY TwoEnds DEF CountReadable, Change, Goto, Inv, RingInv, Types
<1>2. k \in 1 .. left["read"] /\ k <= count["read"]
  BY <1>1, TwoEnds DEF Inv, RingInv, Granting, Moving
<1>3. count'["read"] = count["read"] - k
  <2>1. count'["read"] = count["read"] + -k /\ count["read"] \in Nat
    BY <1>1, TwoEnds
  <2> QED BY <1>1, <2>1
<1>4. /\ Queued = LastOf(count["read"], made) /\ Queued' = LastOf(count["read"] - k, made)
      /\ count["read"] \in Nat /\ made \in Nat /\ count["read"] <= made
  BY <1>1, <1>3, QueuedIs, QueuedNext
<1>5. k \in 1 .. count["read"]
  BY <1>1, <1>2, <1>4
<1>6. Queued' = SubSeq(Queued, k + 1, Len(Queued))
  BY <1>4, <1>5, LastOfRelease
<1>7. Held = k /\ Held' = 0 /\ Held > 0
  BY <1>1, <1>5, TwoEnds DEF Held
<1> QED BY <1>1, <1>6, <1>7 DEF Queue!Release

LEMMA CallRefines ==
  ASSUME Inv, Inv', NEW e \in Ends, NEW done \in {"swap", "await"},
         Waiting(e) \/ CallStep(e, done), UNCHANGED Outside
  PROVE  \/ Queue!Put \/ Queue!Take \/ Queue!Release
         \/ UNCHANGED <<Queued, Held, made, maxLatency>>
<1>0. /\ pc \in [Ends -> Steps] /\ n \in [Ends -> Nat] /\ count \in [Ends -> Nat]
      /\ Queued = LastOf(count["read"], made) /\ Queued' = LastOf(count'["read"], made')
  BY QueuedIs, QueuedNext DEF Inv, RingInv, Types
<1>1. CASE Waiting(e)
  <2>1. /\ UNCHANGED <<count, made, maxLatency>>
        /\ n' = [n EXCEPT ![e] = n'[e]] /\ pc' = [pc EXCEPT ![e] = pc'[e]]
        /\ pc[e] \in Early \ {"copy"} /\ pc'[e] \in Early \ {"look"}
    BY <1>1, WaitingMoves
  <2>2. \/ pc'["read"] = pc["read"] /\ n'["read"] = n["read"]
        \/ pc["read"] # "readable" /\ pc'["read"] # "readable"
    BY <1>0, <2>1, TwoEnds DEF Early
  <2> QED BY <2>1, <2>2, OtherStutters
<1>2. CASE CountReadable(e)
  BY <1>2, TwoEnds, PutRefines, ReleaseRefines
<1>3. CASE CountWritable(e)
  <2>1. /\ UNCHANGED <<made, maxLatency, n>> /\ pc[e] = "writable"
        /\ pc' = [pc EXCEPT ![e] = "notify"] /\ count'["read"] = count["read"]
    BY <1>0, <1>3, TwoEnds DEF CountWritable, Goto
  <2>2. Queued' = Queued
    BY <1>0, <2>1
  <2>3. Held' = Held
    BY <1>0, <2>1, TwoEnds DEF Held
  <2> QED BY <2>1, <2>2, <2>3
<1>4. CASE Notify(e, done)
  <2>1. /\ UNCHANGED <<count, made, maxLatency, n>>
        /\ pc[e] = "notify" /\ pc'[e] \in {"look", done}
        /\ pc'[Other(e)] = Wake(Other(e), "check")
    BY <1>0, <1>4, TwoEnds DEF Notify
  <2>2. \/ pc'["read"] = pc["read"] /\ n'["read"] = n["read"]
        \/ pc["read"] # "readable" /\ pc'["read"] # "readable"
    BY <2>1, TwoEnds DEF Wake
  <2> QED BY <2>1, <2>2, OtherStutters
<1>5. CASE CopyIn
  <2>1. UNCHANGED <<count, made, maxLatency, n>> /\ pc'["read"] = pc["read"]
    BY <1>0, <1>5, TwoEnds DEF CopyIn, Goto
  <2> QED BY <2>1, OtherStutters
<1>6. CASE CopyOut
  BY <1>6, TakeRefines
<1> QED BY <1>1, <1>2, <1>3, <1>4, <1>5, <1>6, TwoEnds DEF CallStep, Waiting

LEMMA StepRefines ==
  ASSUME Inv, Inv', [Next]_vars
  PROVE  [Queue!Put \/ Queue!Take \/ Queue!Release \/ Queue!SetLimit]_(Queue!queueVars)
<1> USE DEF Queue!queueVars
<1>0. pc \in [Ends -> Steps]
  BY DEF Inv, RingInv, Types
<1>1. ASSUME UNCHANGED <<count, made, maxLatency, n>>,
             pc'["read"] = pc["read"] \/ (pc["read"] # "readable" /\ pc'["read"] # "readable")
      PROVE  UNCHANGED <<Queued, Held, made, maxLatency>>
  BY <1>1, OtherStutters
<1>2. CASE WorkThread
  <2>1. CASE (\E len \in Lens : ReadIn(len)) \/ WriteStopped \/ ReadInStopped
    <3>1. UNCHANGED <<count, made, maxLatency, n>> /\ pc'["read"] = pc["read"]
      BY <1>0, <2>1, TwoEnds DEF ReadIn, WriteStopped, ReadInStopped, Goto, quiet
    <3> QED BY <1>1, <3>1
  <2>2. ASSUME CallStep("write", "await"), UNCHANGED Outside
        PROVE  [Queue!Put \/ Queue!Take \/ Queue!Release \/ Queue!SetLimit]_(Queue!queueVars)
    BY <2>2, CallRefines, TwoEnds
  <2> QED BY <1>2, <2>1, <2>2 DEF WorkThread, Outside
<1>3. CASE BufferWorker \/ SwapOut
  <2>1. CASE BeginFrame \/ FrameStopped \/ SwapOut
    <3>1. /\ UNCHANGED <<count, made, maxLatency, n>>
          /\ pc["read"] # "readable" /\ pc'["read"] # "readable"
      BY <1>0, <2>1, TwoEnds DEF BeginFrame, FrameStopped, SwapOut, Stopped, Goto, quiet
    <3> QED BY <1>1, <3>1
  <2>2. ASSUME CallStep("read", "swap"), UNCHANGED Outside
        PROVE  [Queue!Put \/ Queue!Take \/ Queue!Release \/ Queue!SetLimit]_(Queue!queueVars)
    BY <2>2, CallRefines, TwoEnds
  <2> QED BY <1>3, <2>1, <2>2 DEF BufferWorker, Outside
<1>4. CASE (\E k \in Keeps : SetKeep(k)) \/ (\E s \in Skips : SetSkip(s))
  <2>1. UNCHANGED <<count, made, pc, n>> /\ maxLatency' \in Nat
    BY <1>4, ShapeAssumption DEF SetKeep, SetSkip, ring, Inv, RingInv, Types
  <2>2. Queued' = Queued
    BY <2>1, QueuedIs, QueuedNext
  <2>3. Held' = Held
    BY <2>1 DEF Held
  <2> QED BY <2>1, <2>2, <2>3 DEF Queue!SetLimit
<1>5. CASE Start
  <2>1. /\ UNCHANGED <<count, made, maxLatency, n>>
        /\ pc["read"] # "readable" /\ pc'["read"] # "readable"
    BY <1>5, TwoEnds DEF Start, Off
  <2> QED BY <1>1, <2>1
<1>6. CASE StopIn \/ StopOut \/ (\E e \in Ends : SetStop(e)) \/ UNCHANGED vars
  <2>1. UNCHANGED <<count, made, maxLatency, n, pc>>
    BY <1>6 DEF StopIn, StopOut, SetStop, ring, vars
  <2> QED BY <1>1, <2>1
<1>7. ASSUME NEW e \in Ends, NotifyStop(e)
      PROVE  [Queue!Put \/ Queue!Take \/ Queue!Release \/ Queue!SetLimit]_(Queue!queueVars)
  <2>1. /\ UNCHANGED <<count, made, maxLatency, n>>
        /\ pc'["read"] = pc["read"] \/ (pc["read"] = "sleep" /\ pc'["read"] = "check")
    BY <1>0, <1>7, TwoEnds DEF NotifyStop, Wake, quiet
  <2> QED BY <1>1, <2>1
<1>8. CASE Join
  <2>1. /\ UNCHANGED <<count, made, maxLatency>>
        /\ pc["read"] # "readable" /\ pc'["read"] # "readable"
    BY <1>8, TwoEnds DEF Join
  <2> QED BY <2>1, OtherStutters
<1>9. ASSUME NEW e \in Ends, WakeUp(e)
      PROVE  [Queue!Put \/ Queue!Take \/ Queue!Release \/ Queue!SetLimit]_(Queue!queueVars)
  BY <1>9, CallRefines DEF WakeUp, Waiting, Outside
<1> QED BY <1>2, <1>3, <1>4, <1>5, <1>6, <1>7, <1>8, <1>9 DEF Next, StopStep

\* Two counts, two mutexes and two cursors implement one queue that keeps the latency limit:
\* no sample is lost, repeated or overtaken, over any number of wrap-arounds and restarts.
THEOREM Refinement == Spec => ImplementsQueue
<1>1. Init => Queue!QueueInit
  <2> SUFFICES ASSUME Init PROVE Queue!QueueInit
    OBVIOUS
  <2>1. Queued = LastOf(count["read"], made) /\ count["read"] \in Nat
    BY InitInv, QueuedIs
  <2>2. count["read"] = 0 /\ made = 0 /\ pc["read"] = "off"
    BY TwoEnds DEF Init, RingInit
  <2>3. Queued = <<>>
    <3>1. 0 \in Nat /\ 0 <= 0
      OBVIOUS
    <3>2. LastOf(0, 0) \in Seq(Nat) /\ Len(LastOf(0, 0)) = 0
      BY <3>1, LastOfIs
    <3> QED BY <2>1, <2>2, <3>2, EmptySeq
  <2>4. maxLatency \in Nat
    BY InitInv DEF Inv, RingInv, Types
  <2> QED BY <2>2, <2>3, <2>4 DEF Queue!QueueInit, Held
<1>2. Inv /\ Inv' /\ [Next]_vars
        => [Queue!Put \/ Queue!Take \/ Queue!Release \/ Queue!SetLimit]_(Queue!queueVars)
  BY StepRefines
<1> QED BY <1>1, <1>2, Holds, PTL DEF Spec, ImplementsQueue, Queue!QueueSpec

=============================================================================
