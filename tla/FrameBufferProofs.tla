------------------------- MODULE FrameBufferProofs --------------------------
(***************************************************************************)
(* Proofs about FrameBuffer for every size of the ring: it implements the  *)
(* LossyQueue, and readWorkerThread misses no notification but one.        *)
(***************************************************************************)
EXTENDS FrameBuffer, TLAPS

USE SizeAssumption

-----------------------------------------------------------------------------
(* Places in the ring.                                                      *)

LEMMA ModSmall ==
  ASSUME NEW a \in 0 .. 2 * Size - 1
  PROVE  a % Size = IF a < Size THEN a ELSE a - Size
BY SMT

Cursor == 0 .. Size - 1

\* How many frames lie from place r up to place w.
Between(r, w) == (w - r + Size) % Size

LEMMA BetweenIs ==
  ASSUME NEW r \in Cursor, NEW w \in Cursor
  PROVE  Between(r, w) = IF r <= w THEN w - r ELSE w - r + Size
<1>1. w - r + Size \in 0 .. 2 * Size - 1
  BY DEF Cursor
<1> QED BY <1>1, ModSmall DEF Between, Cursor

LEMMA BetweenBounds ==
  ASSUME NEW r \in Cursor, NEW w \in Cursor
  PROVE  Between(r, w) \in Cursor /\ (Between(r, w) = 0 <=> r = w)
BY BetweenIs DEF Cursor

LEMMA FollowingIs ==
  ASSUME NEW i \in Cursor
  PROVE  Following(i) \in Cursor /\ Following(i) = IF i = Size - 1 THEN 0 ELSE i + 1
<1>1. i + 1 \in 0 .. 2 * Size - 1
  BY DEF Cursor
<1> QED BY <1>1, ModSmall DEF Following, Cursor

LEMMA BetweenPut ==
  ASSUME NEW r \in Cursor, NEW w \in Cursor
  PROVE  Between(r, Following(w)) = IF Between(r, w) < Size - 1 THEN Between(r, w) + 1 ELSE 0
<1>1. Following(w) \in Cursor /\ Following(w) = IF w = Size - 1 THEN 0 ELSE w + 1
  BY FollowingIs
<1>2. Between(r, w) = IF r <= w THEN w - r ELSE w - r + Size
  BY BetweenIs
<1>3. Between(r, Following(w)) = IF r <= Following(w) THEN Following(w) - r ELSE Following(w) - r + Size
  BY <1>1, BetweenIs
<1> QED BY <1>1, <1>2, <1>3 DEF Cursor

LEMMA BetweenTake ==
  ASSUME NEW r \in Cursor, NEW w \in Cursor, Between(r, w) > 0
  PROVE  Between(Following(r), w) = Between(r, w) - 1
<1>1. Following(r) \in Cursor /\ Following(r) = IF r = Size - 1 THEN 0 ELSE r + 1
  BY FollowingIs
<1>2. Between(r, w) = IF r <= w THEN w - r ELSE w - r + Size
  BY BetweenIs
<1>3. Between(Following(r), w) = IF Following(r) <= w THEN w - Following(r) ELSE w - Following(r) + Size
  BY <1>1, BetweenIs
<1> QED BY <1>1, <1>2, <1>3 DEF Cursor

\* The place of the i-th frame from place r on.
Place(r, i) == (r + i - 1) % Size

LEMMA PlaceIs ==
  ASSUME NEW r \in Cursor, NEW i \in 1 .. Size
  PROVE  /\ Place(r, i) \in Cursor
         /\ Place(r, i) = IF r + i - 1 < Size THEN r + i - 1 ELSE r + i - 1 - Size
<1>1. r + i - 1 \in 0 .. 2 * Size - 1
  BY DEF Cursor
<1> QED BY <1>1, ModSmall DEF Place, Cursor

\* Behind the last frame is the place the next one is put in, and no frame before it is there.
LEMMA PlaceOfNext ==
  ASSUME NEW r \in Cursor, NEW w \in Cursor
  PROVE  /\ Place(r, Between(r, w) + 1) = w
         /\ \A i \in 1 .. Between(r, w) : Place(r, i) # w /\ Place(r, i) \in Cursor
<1>1. Between(r, w) \in Cursor /\ Between(r, w) = IF r <= w THEN w - r ELSE w - r + Size
  BY BetweenBounds, BetweenIs
<1>2. Place(r, Between(r, w) + 1) = w
  <2>1. Between(r, w) + 1 \in 1 .. Size
    BY <1>1 DEF Cursor
  <2> QED BY <2>1, <1>1, PlaceIs DEF Cursor
<1>3. ASSUME NEW i \in 1 .. Between(r, w) PROVE Place(r, i) # w /\ Place(r, i) \in Cursor
  <2>1. i \in 1 .. Size
    BY <1>1 DEF Cursor
  <2> QED BY <2>1, <1>1, PlaceIs DEF Cursor
<1> QED BY <1>2, <1>3

LEMMA PlaceOfFollowing ==
  ASSUME NEW r \in Cursor, NEW i \in 1 .. Size - 1
  PROVE  Place(Following(r), i) = Place(r, i + 1)
<1>1. Following(r) \in Cursor /\ Following(r) = IF r = Size - 1 THEN 0 ELSE r + 1
  BY FollowingIs
<1>2. i \in 1 .. Size /\ i + 1 \in 1 .. Size
  OBVIOUS
<1> QED BY <1>1, <1>2, PlaceIs DEF Cursor

-----------------------------------------------------------------------------
(* The inductive invariant.                                                 *)

Types == /\ buffers \in [Cursor -> Nat]
         /\ writeCur \in Cursor /\ readCur \in Cursor
         /\ made \in Nat /\ latest \in Nat
         /\ bypass \in BOOLEAN /\ stopWorker \in BOOLEAN /\ missed \in BOOLEAN

\* A waiter found the ring empty under bufMtx, and a frame put in since is still to be notified.
Awake == /\ reader = "hold" => writeCur = readCur
         /\ reader = "sleep" => writeCur = readCur \/ run = "notify"

\* Both threads are there or neither is, and bufMtx is held by a waiter about to sleep only.
Stops == /\ stopWorker <=> ctl \in {"notify", "join"}
         /\ reader = "sleep" /\ stopWorker => missed \/ ctl = "notify"
         /\ reader = "hold" /\ ctl = "join" => missed

Inv == Types /\ Awake /\ Stops

LEMMA InitInv == Init => Inv
<1> SUFFICES ASSUME Init PROVE Inv
  OBVIOUS
<1>1. Types
  <2>1. buffers \in [Cursor -> Nat] /\ 0 \in Cursor
    BY DEF Init, Cursor
  <2>2. bypass \in BOOLEAN /\ stopWorker \in BOOLEAN /\ missed \in BOOLEAN
    BY DEF Init
  <2> QED BY <2>1, <2>2 DEF Init, Types
<1>2. Awake
  BY DEF Init, Awake
<1>3. Stops
  BY DEF Init, Stops
<1> QED BY <1>1, <1>2, <1>3 DEF Inv

LEMMA StepInv == Inv /\ [Next]_vars => Inv'
<1> SUFFICES ASSUME Inv, [Next]_vars PROVE Inv'
  OBVIOUS
<1> USE DEF Inv, Types, Awake, Stops, ringVars, stops, history
<1>1. CASE Push
  <2>1. Following(writeCur) \in Cursor
    BY FollowingIs
  <2> QED BY <1>1, <2>1 DEF Push, Unlocked
<1>2. CASE Take
  <2>1. Following(readCur) \in Cursor
    BY FollowingIs
  <2>2. writeCur # readCur
    BY <1>2, BetweenBounds DEF Take, Waiting, Between
  <2> QED BY <1>2, <2>1, <2>2 DEF Take
<1>3. CASE Hold
  <2>1. writeCur = readCur
    BY <1>3, BetweenBounds DEF Hold, Waiting, Between
  <2> QED BY <1>3, <2>1 DEF Hold
<1>4. CASE ReadIn
  BY <1>4 DEF ReadIn
<1>10. CASE NotifyPushed
  BY <1>10 DEF NotifyPushed, Woken
<1>11. CASE Pass \/ Passed \/ RunStopped
  BY <1>11 DEF Pass, Passed, RunStopped
<1>5. CASE Sleep \/ ReaderStopped \/ Swap \/ SpuriousWake
  BY <1>5 DEF Sleep, ReaderStopped, Swap, SpuriousWake
<1>6. CASE Flush \/ Start \/ StopIn
  BY <1>6 DEF Flush, Start, StopIn, Off
<1>7. CASE StopStep
  <2>1. CASE StopOut
    BY <2>1 DEF StopOut
  <2>3. CASE StopWorker
    BY <2>3 DEF StopWorker
  <2>4. CASE Join
    BY <2>4 DEF Join
  <2>2. CASE NotifyStop
    <3>1. Types' /\ Awake'
      BY <2>2 DEF NotifyStop, Woken
    <3>2. Stops'
      BY <2>2 DEF NotifyStop, Woken
    <3> QED BY <3>1, <3>2
  <2> QED BY <1>7, <2>1, <2>2, <2>3, <2>4 DEF StopStep
<1>8. CASE UNCHANGED vars
  BY <1>8 DEF vars
<1>9. ASSUME NEW enabled \in BOOLEAN, SetBuffering(enabled) PROVE Inv'
  BY <1>9 DEF SetBuffering
<1> QED BY <1>1, <1>2, <1>3, <1>4, <1>5, <1>6, <1>7, <1>8, <1>9, <1>10, <1>11 DEF Next, RunStep, ReaderStep

-----------------------------------------------------------------------------
(* What is in the ring, as a sequence.                                      *)

QueueOf(b, r, w) == [i \in 1 .. Between(r, w) |-> b[Place(r, i)]]

LEMMA QueueIs ==
  ASSUME NEW b \in [Cursor -> Nat], NEW r \in Cursor, NEW w \in Cursor
  PROVE  /\ QueueOf(b, r, w) \in Seq(Nat) /\ Len(QueueOf(b, r, w)) = Between(r, w)
         /\ Between(r, w) \in Cursor
         /\ \A i \in 1 .. Between(r, w) : QueueOf(b, r, w)[i] = b[Place(r, i)]
<1>1. Between(r, w) \in Cursor /\ Between(r, w) \in Nat
  <2>1. Between(r, w) \in Cursor
    BY BetweenBounds
  <2> QED BY <2>1 DEF Cursor
<1>2. \A i \in 1 .. Between(r, w) : b[Place(r, i)] \in Nat
  BY PlaceOfNext
<1>3. QueueOf(b, r, w) \in [1 .. Between(r, w) -> Nat]
  BY <1>2 DEF QueueOf
<1> QED BY <1>1, <1>3 DEF QueueOf

LEMMA QueueEmpty ==
  ASSUME NEW b \in [Cursor -> Nat], NEW r \in Cursor
  PROVE  QueueOf(b, r, r) = <<>>
<1>1. Len(QueueOf(b, r, r)) = 0 /\ QueueOf(b, r, r) \in Seq(Nat)
  BY QueueIs, BetweenBounds
<1> QED BY <1>1

LEMMA QueuePut ==
  ASSUME NEW b \in [Cursor -> Nat], NEW r \in Cursor, NEW w \in Cursor, NEW f \in Nat
  PROVE  QueueOf([b EXCEPT ![w] = f], r, Following(w))
           = IF Between(r, w) < Size - 1 THEN Append(QueueOf(b, r, w), f) ELSE <<>>
<1> DEFINE c == [b EXCEPT ![w] = f]
           q == QueueOf(b, r, w)
           p == QueueOf(c, r, Following(w))
<1>1. c \in [Cursor -> Nat] /\ Following(w) \in Cursor
  BY FollowingIs
<1> HIDE DEF c
<1>2. Between(r, Following(w)) = IF Between(r, w) < Size - 1 THEN Between(r, w) + 1 ELSE 0
  BY BetweenPut
<1>3. q \in Seq(Nat) /\ Len(q) = Between(r, w) /\ Between(r, w) \in Cursor
  BY QueueIs
<1>4. p \in Seq(Nat) /\ Len(p) = Between(r, Following(w))
  BY <1>1, QueueIs DEF p
<1>5. CASE Between(r, w) < Size - 1
  <2>1. \A i \in 1 .. Between(r, w) + 1 : p[i] = c[Place(r, i)]
    <3>1. \A i \in 1 .. Between(r, Following(w)) : p[i] = c[Place(r, i)]
      BY <1>1, QueueIs
    <3> QED BY <3>1, <1>2, <1>5
  <2>2. \A i \in 1 .. Between(r, w) : q[i] = b[Place(r, i)]
    BY QueueIs
  <2>3. \A i \in 1 .. Between(r, w) : p[i] = q[i]
    <3> SUFFICES ASSUME NEW i \in 1 .. Between(r, w) PROVE p[i] = q[i]
      OBVIOUS
    <3>1. Place(r, i) # w /\ Place(r, i) \in Cursor
      BY PlaceOfNext
    <3>2. i \in 1 .. Between(r, w) + 1
      BY <1>3 DEF Cursor
    <3>3. p[i] = c[Place(r, i)]
      BY <2>1, <3>2
    <3>4. q[i] = b[Place(r, i)]
      BY <2>2
    <3>5. c[Place(r, i)] = b[Place(r, i)]
      BY <3>1 DEF c
    <3> HIDE DEF p, q
    <3> QED BY <3>3, <3>4, <3>5
  <2>4. p[Between(r, w) + 1] = f
    <3>1. Place(r, Between(r, w) + 1) = w
      BY PlaceOfNext
    <3>2. p[Between(r, w) + 1] = c[Place(r, Between(r, w) + 1)]
      <4>1. Between(r, w) + 1 \in 1 .. Between(r, w) + 1
        BY <1>3 DEF Cursor
      <4> QED BY <2>1, <4>1
    <3> HIDE DEF p
    <3> QED BY <3>1, <3>2 DEF c
  <2> HIDE DEF p, q, c
  <2>5. p = Append(q, f)
    <3>1. PICK l \in Nat : l = Between(r, w)
      BY <1>3 DEF Cursor
    <3>2. Len(p) = l + 1 /\ Len(q) = l
      BY <1>2, <1>3, <1>4, <1>5, <3>1
    <3>3. \A i \in 1 .. l + 1 : p[i] = IF i <= l THEN q[i] ELSE f
      BY <2>3, <2>4, <3>1
    <3> QED BY <1>3, <1>4, <3>2, <3>3
  <2> QED BY <2>5, <1>5 DEF p, q, c
<1>6. CASE ~(Between(r, w) < Size - 1)
  <2>1. Len(p) = 0
    BY <1>2, <1>4, <1>6
  <2> HIDE DEF p
  <2>2. p = <<>>
    BY <2>1, <1>4
  <2> QED BY <2>2, <1>6 DEF p, c
<1> QED BY <1>5, <1>6

LEMMA QueueTake ==
  ASSUME NEW b \in [Cursor -> Nat], NEW r \in Cursor, NEW w \in Cursor, Between(r, w) > 0
  PROVE  /\ QueueOf(b, r, w) # <<>>
         /\ Head(QueueOf(b, r, w)) = b[r]
         /\ QueueOf(b, Following(r), w) = Tail(QueueOf(b, r, w))
<1> DEFINE q == QueueOf(b, r, w)
           p == QueueOf(b, Following(r), w)
<1>1. Following(r) \in Cursor
  BY FollowingIs
<1>2. Between(Following(r), w) = Between(r, w) - 1
  BY BetweenTake
<1>3. q \in Seq(Nat) /\ Len(q) = Between(r, w) /\ Between(r, w) \in 1 .. Size - 1
  <2>1. q \in Seq(Nat) /\ Len(q) = Between(r, w) /\ Between(r, w) \in Cursor
    BY QueueIs
  <2> HIDE DEF q
  <2> QED BY <2>1 DEF Cursor
<1>4. p \in Seq(Nat) /\ Len(p) = Between(r, w) - 1
  BY <1>1, <1>2, QueueIs
<1>5. q[1] = b[r]
  <2>1. q[1] = b[Place(r, 1)]
    BY <1>3, QueueIs
  <2>2. Place(r, 1) = r
    BY PlaceIs DEF Cursor
  <2> HIDE DEF q
  <2> QED BY <2>1, <2>2
<1>6. \A i \in 1 .. Between(r, w) - 1 : p[i] = q[i + 1]
  <2> SUFFICES ASSUME NEW i \in 1 .. Between(r, w) - 1 PROVE p[i] = q[i + 1]
    OBVIOUS
  <2>1. i \in 1 .. Size - 1 /\ i + 1 \in 1 .. Between(r, w) /\ i \in 1 .. Between(Following(r), w)
    BY <1>2, <1>3
  <2>2. p[i] = b[Place(Following(r), i)]
    <3>1. \A j \in 1 .. Between(Following(r), w) : p[j] = b[Place(Following(r), j)]
      BY <1>1, QueueIs
    <3> QED BY <2>1, <3>1
  <2>3. q[i + 1] = b[Place(r, i + 1)]
    BY <2>1, QueueIs
  <2>4. Place(Following(r), i) = Place(r, i + 1)
    BY <2>1, PlaceOfFollowing
  <2> HIDE DEF p, q
  <2> QED BY <2>2, <2>3, <2>4
<1> HIDE DEF p, q
<1>7. q # <<>> /\ Head(q) = b[r] /\ p = Tail(q)
  <2>1. PICK l \in Nat : l + 1 = Between(r, w)
    <3>1. Between(r, w) - 1 \in Nat /\ (Between(r, w) - 1) + 1 = Between(r, w)
      BY <1>3
    <3> QED BY <3>1, Zenon
  <2>2. Len(q) = l + 1 /\ Len(p) = l /\ \A i \in 1 .. l : p[i] = q[i + 1]
    BY <1>3, <1>4, <1>6, <2>1
  <2>3. q # <<>> /\ Head(q) = b[r]
    BY <1>3, <1>5, <2>2
  <2>4. p = Tail(q)
    BY <1>3, <1>4, <2>2
  <2> QED BY <2>3, <2>4
<1> QED BY <1>7 DEF p, q

-----------------------------------------------------------------------------
(* Refinement.                                                              *)

LEMMA QueueUnfolds ==
  /\ Queue = QueueOf(buffers, readCur, writeCur)
  /\ Queue' = QueueOf(buffers', readCur', writeCur')
  /\ Waiting = Between(readCur, writeCur)
BY DEF Queue, QueueOf, Waiting, Between, Place

LEMMA QueueKept == UNCHANGED ringVars => UNCHANGED Queue /\ UNCHANGED Waiting
BY DEF ringVars, Queue, Waiting

LEMMA QueueIsEmpty ==
  ASSUME Inv
  PROVE  Queue = <<>> <=> ~(Waiting > 0)
<1>1. Queue \in Seq(Nat) /\ Len(Queue) = Waiting /\ Waiting \in Cursor
  BY QueueUnfolds, QueueIs DEF Inv, Types
<1>2. Waiting \in Nat
  BY <1>1 DEF Cursor
<1> QED BY <1>1, <1>2

\* A frame put in comes last, or empties a full ring; one taken is the first.
LEMMA PutAndTakeRefine ==
  ASSUME Inv
  PROVE  (Push => Lossy!Put) /\ (Take => Lossy!Take)
<1>1. buffers \in [Cursor -> Nat] /\ writeCur \in Cursor /\ readCur \in Cursor /\ made + 1 \in Nat
  BY DEF Inv, Types
<1>2. ASSUME Push PROVE Lossy!Put
  <2>1. Queue' = QueueOf([buffers EXCEPT ![writeCur] = made + 1], readCur, Following(writeCur))
    BY <1>2, QueueUnfolds DEF Push
  <2>2. Len(Queue) = Between(readCur, writeCur)
    BY <1>1, QueueUnfolds, QueueIs
  <2>3. Queue' = IF Len(Queue) < Size - 1 THEN Append(Queue, made + 1) ELSE <<>>
    BY <1>1, <2>1, <2>2, QueueUnfolds, QueuePut
  <2>4. Mixed' => Mixed
    BY <1>2 DEF Mixed, Push
  <2>5. UNCHANGED Leaving
    BY <1>2 DEF Leaving, Push
  <2> QED BY <1>2, <2>3, <2>4, <2>5 DEF Push, Lossy!Put, Lossy!MixedNoMore
<1>3. ASSUME Take PROVE Lossy!Take
  <2>1. Queue' = QueueOf(buffers, Following(readCur), writeCur) /\ Between(readCur, writeCur) > 0
    BY <1>3, QueueUnfolds DEF Take
  <2>2. Queue # <<>> /\ Head(Queue) = buffers[readCur] /\ Queue' = Tail(Queue)
    BY <1>1, <2>1, QueueUnfolds, QueueTake
  <2>3. (Mixed \/ ~Leaving) /\ Leaving' /\ (Mixed' => Mixed)
    BY <1>3 DEF Mixed, Leaving, Take
  <2>4. Leaving' = TRUE
    BY <2>3 DEF Leaving
  <2> QED BY <1>3, <2>2, <2>3, <2>4 DEF Take, Lossy!Take, Lossy!MixedNoMore
<1> QED BY <1>2, <1>3

\* A frame that passes is alone, unless the bypass was switched on over others.
LEMMA PassRefines ==
  ASSUME Inv, Pass
  PROVE  Lossy!Pass
<1>1. UNCHANGED Queue /\ UNCHANGED Waiting
  BY QueueKept DEF Pass
<1>2. Mixed \/ (Queue = <<>> /\ ~Leaving)
  BY QueueIsEmpty DEF Mixed, Leaving, Pass
<1>3. Leaving' = TRUE /\ (Mixed' => Mixed)
  BY <1>1 DEF Leaving, Mixed, Pass
<1> QED BY <1>1, <1>2, <1>3 DEF Pass, Lossy!Pass, Lossy!MixedNoMore

\* A thread that swaps or is stopped in its swap lets its frame go.
LEMMA LeaveRefines ==
  ASSUME Inv, \/ Passed \/ Swap \/ (RunStopped /\ run = "passed")
              \/ (ReaderStopped /\ reader = "swap")
  PROVE  Lossy!Leave
<1> USE DEF Passed, Swap, RunStopped, ReaderStopped
<1>1. UNCHANGED Queue /\ UNCHANGED Waiting /\ UNCHANGED <<bypass, made, latest>>
  BY QueueKept DEF history
<1>2. Leaving
  BY DEF Leaving
<1>3. Leaving' => Mixed
  BY DEF Leaving, Mixed
<1>4. Mixed' => Mixed
  BY <1>1 DEF Mixed
<1> QED BY <1>1, <1>2, <1>3, <1>4 DEF Lossy!Leave, Lossy!MixedNoMore

LEMMA SwitchRefines ==
  ASSUME Inv, NEW enabled \in BOOLEAN, SetBuffering(enabled)
  PROVE  Lossy!Switch
<1>1. UNCHANGED Queue /\ UNCHANGED Waiting
  BY QueueKept DEF SetBuffering
<1>2. UNCHANGED Leaving
  BY DEF SetBuffering, Leaving
<1>3. Mixed' => Mixed \/ bypass'
  BY <1>1 DEF SetBuffering, Mixed
<1> QED BY <1>1, <1>2, <1>3 DEF SetBuffering, Lossy!Switch, history

\* What the abstract queue sees nothing of.
LEMMA StutterRefines ==
  ASSUME UNCHANGED <<ringVars, bypass, made, latest>>,
         UNCHANGED Leaving, UNCHANGED Mixed
  PROVE  UNCHANGED Lossy!lossyVars
BY QueueKept DEF Lossy!lossyVars

LEMMA StepRefines ==
  ASSUME Inv, [Next]_vars
  PROVE  [Lossy!LossyNext]_(Lossy!lossyVars)
<1> USE DEF Lossy!LossyNext
<1>1. CASE Push \/ Take
  BY <1>1, PutAndTakeRefine
<1>2. CASE Pass
  BY <1>2, PassRefines
<1>3. CASE Passed \/ Swap \/ (RunStopped /\ run = "passed") \/ (ReaderStopped /\ reader = "swap")
  BY <1>3, LeaveRefines
<1>4. CASE \E enabled \in BOOLEAN : SetBuffering(enabled)
  BY <1>4, SwitchRefines
<1>5. CASE Flush
  <2>1. Queue' = <<>>
    <3>1. Queue' = QueueOf(buffers, writeCur, writeCur)
      BY <1>5, QueueUnfolds DEF Flush
    <3> QED BY <3>1, QueueEmpty DEF Inv, Types
  <2>2. UNCHANGED Leaving
    BY <1>5 DEF Flush, Leaving
  <2>3. Mixed' => Mixed
    <3>1. ~(Waiting' > 0)
      <4>1. Waiting' = Between(writeCur, writeCur)
        BY <1>5 DEF Flush, Waiting, Between
      <4> QED BY <4>1, BetweenBounds DEF Inv, Types
    <3> QED BY <1>5, <3>1 DEF Flush, Mixed
  <2> QED BY <1>5, <2>1, <2>2, <2>3 DEF Flush, Lossy!Flush, Lossy!MixedNoMore, history
<1>6. CASE ReadIn \/ NotifyPushed \/ (RunStopped /\ run = "read")
  <2> USE DEF ReadIn, NotifyPushed, RunStopped, Woken
  <2>1. UNCHANGED Waiting
    BY <1>6, QueueKept
  <2>2. UNCHANGED Leaving
    BY <1>6 DEF Leaving
  <2>3. UNCHANGED Mixed
    BY <1>6, <2>1 DEF Mixed
  <2> QED BY <1>6, <2>2, <2>3, StutterRefines DEF history
<1>7. CASE Hold \/ Sleep \/ SpuriousWake \/ (ReaderStopped /\ reader = "check")
  <2> USE DEF Hold, Sleep, SpuriousWake, ReaderStopped
  <2>1. UNCHANGED Waiting
    BY <1>7, QueueKept
  <2>2. UNCHANGED Leaving
    BY <1>7 DEF Leaving
  <2>3. UNCHANGED Mixed
    BY <1>7, <2>1 DEF Mixed
  <2> QED BY <1>7, <2>2, <2>3, StutterRefines DEF history
<1>8. CASE Start \/ StopIn \/ StopStep \/ UNCHANGED vars
  <2> USE DEF Start, StopIn, StopStep, StopOut, StopWorker, NotifyStop, Join, vars, Woken, Off
  <2>1. UNCHANGED Waiting
    BY <1>8, QueueKept
  <2>2. UNCHANGED Leaving
    BY <1>8 DEF Leaving
  <2>3. UNCHANGED Mixed
    BY <1>8, <2>1 DEF Mixed
  <2> QED BY <1>8, <2>2, <2>3, StutterRefines DEF history
<1>9. RunStopped => run \in {"read", "passed"}
  BY DEF RunStopped
<1>10. ReaderStopped => reader \in {"check", "swap"}
  BY DEF ReaderStopped
<1> QED BY <1>1, <1>2, <1>3, <1>4, <1>5, <1>6, <1>7, <1>8, <1>9, <1>10 DEF Next, RunStep, ReaderStep

-----------------------------------------------------------------------------
(* The theorems.                                                            *)

\* The invariant holds in every state of every behaviour.
THEOREM Holds == Spec => []Inv
<1> QED BY InitInv, StepInv, PTL DEF Spec

\* readWorkerThread never sleeps over a frame nobody will notify it of, nor over a stop but
\* the one notified between its check and its sleep, for every size of the ring.
THEOREM NoLostWakeupHolds == Spec => []NoLostWakeup
<1>1. Inv => NoLostWakeup
  BY BetweenBounds DEF Inv, Types, Awake, Stops, NoLostWakeup, Waiting, Between
<1> QED BY <1>1, Holds, PTL

\* The ring, its two cursors, its one mutex and its bypass implement a queue that drops
\* everything when one frame too many comes in and that is passed only while it is empty,
\* unless the bypass was switched on over waiting frames, for every size of the ring.
THEOREM Refinement == Spec => ImplementsLossyQueue
<1>1. Init => Lossy!LossyInit
  <2> SUFFICES ASSUME Init PROVE Lossy!LossyInit
    OBVIOUS
  <2>1. buffers \in [Cursor -> Nat] /\ readCur \in Cursor /\ Queue = QueueOf(buffers, readCur, readCur)
    BY InitInv, QueueUnfolds DEF Inv, Types, Init
  <2> QED BY <2>1, QueueEmpty DEF Init, Lossy!LossyInit, Leaving, Mixed
<1>2. Inv /\ [Next]_vars => [Lossy!LossyNext]_(Lossy!lossyVars)
  BY StepRefines
<1> QED BY <1>1, <1>2, Holds, PTL DEF Spec, ImplementsLossyQueue, Lossy!LossySpec
=============================================================================
