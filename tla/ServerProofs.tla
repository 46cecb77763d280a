---------------------------- MODULE ServerProofs ----------------------------
(***************************************************************************)
(* Proofs about Server, for any number of connections: whatever its three  *)
(* kinds of threads do to the global `client`, no living connection is     *)
(* lost and the client is listened to.                                     *)
(***************************************************************************)
EXTENDS Server, TLAPS

USE NoneAssumption

-----------------------------------------------------------------------------
(* The inductive invariant.                                                 *)

\* A read worker inside a handler, or waiting for data.
Busy  == {"recv", "body", "bodyRecv", "start", "stop", "mark", "unmark", "reply", "again"}
Steps == Busy \cup {"none", "wait", "exited"}
Somebody == Conns \cup {None}

Types ==
  /\ reader \in [Conns -> Steps] /\ requests \in [Conns -> Nat]
  /\ from \in [Conns -> Somebody]
  /\ open \subseteq Conns /\ stopWorkers \subseteq Conns
  /\ client \in Somebody /\ guest \in Somebody /\ old \in Somebody /\ victim \in Somebody

\* The listener has a guest from accept() to its place or its rejection, and a connection
\* to join only while it does so; the sink likewise.
WithGuest    == {"look", "reject", "sendAway", "sentAway", "adopt"}
WithOld      == {"rejected", "sentAway"}
ListenerTurn ==
  /\ listener \in WithGuest \cup WithOld \cup {"accept", "adopted", "reset", "greet"}
  /\ guest # None <=> listener \in WithGuest
  /\ listener \in WithOld => old # None
  /\ old # None => listener \in WithOld \cup {"adopted"}
  /\ listener = "sentAway" => client \in {old, None} /\ old \in stopWorkers
SinkTurn == victim # None <=> sink = "join"

\* A connection that does not exist yet is in nobody's hands ...
Fresh == \A c \in Conns : reader[c] = "none" =>
           c \notin stopWorkers \cup {client, guest, old, victim} /\ requests[c] = 0

\* ... a guest is in the listener's only, and not read ...
GuestWaits == guest # None =>
  /\ reader[guest] = "wait" /\ requests[guest] = 0
  /\ guest \notin stopWorkers \cup {client, old, victim}

\* ... and one that was a client, or a guest, has been told to end.
LeftIsTold == \A c \in Conns : reader[c] # "none" /\ c \notin {client, guest} => c \in stopWorkers

\* A worker reads from another's connection only when it has been told to end.
OwnBody == \A c \in Conns : reader[c] = "bodyRecv" => from[c] = c \/ c \in stopWorkers

\* The client is attended to, from the listener's first readAsync() on.
IsRead == client \in open /\ listener # "adopted" => Attended(client)

Inv == Types /\ ListenerTurn /\ SinkTurn /\ Fresh /\ GuestWaits
       /\ LeftIsTold /\ OwnBody /\ NoneIsLost /\ IsRead

LEMMA InitInv == Init => Inv
BY DEF Init, ConnInit, Inv, Types, ListenerTurn, SinkTurn, Fresh, GuestWaits, LeftIsTold,
       OwnBody, NoneIsLost, IsRead, Steps, Busy, Somebody, WithGuest, WithOld

-----------------------------------------------------------------------------
(* The steps of a read worker.                                              *)

\* The invariant does not speak of the source, the samples or a crash.
LEMMA Unchanged ==
  ASSUME Inv, UNCHANGED <<reader, requests, open, stopWorkers, from, listener, guest, old, sink, victim, client>>
  PROVE  Inv'
BY DEF Inv, Types, ListenerTurn, SinkTurn, Fresh, GuestWaits, LeftIsTold, OwnBody, NoneIsLost, IsRead, Attended

\* A handler that moves on keeps everything, for it is in somebody's hands and goes on, or
\* goes to wait for a request that is queued if it is the client's.
LEMMA WorkerKeeps ==
  ASSUME Inv, NEW c \in Conns, NEW step \in Busy \cup {"wait", "exited"},
         reader[c] \in Busy \cup {"wait"},
         reader' = [reader EXCEPT ![c] = step],
         requests' \in [Conns -> Nat], open' \subseteq open,
         from' \in [Conns -> Somebody],
         \A d \in Conns \ {c} : from'[d] = from[d] /\ requests'[d] >= requests[d],
         \A d \in Conns \ {c, client} : requests'[d] = requests[d],
         c # guest,
         step = "bodyRecv" => from'[c] = c \/ c \in stopWorkers,
         c = client /\ c \in open' => step \in Busy \/ requests'[c] > 0 \/ c \in stopWorkers
                                      \/ listener = "adopted",
         UNCHANGED <<stopWorkers, listener, guest, old, sink, victim, client>>
  PROVE  Inv'
<1>1. Types'
  <2>1. reader' \in [Conns -> Steps]
    BY DEF Inv, Types, Steps
  <2> QED BY <2>1 DEF Inv, Types
<1>2. \A d \in Conns : reader'[d] = IF d = c THEN step ELSE reader[d]
  BY DEF Inv, Types
<1>3. ListenerTurn' /\ SinkTurn'
  BY DEF Inv, ListenerTurn, SinkTurn
<1>4. Fresh'
  <2> SUFFICES ASSUME NEW d \in Conns, reader'[d] = "none"
               PROVE  (d \notin stopWorkers \cup {client, guest, old, victim} /\ requests[d] = 0)'
    BY DEF Fresh
  <2>1. d # c /\ reader[d] = "none"
    BY <1>2 DEF Busy
  <2>2. d \notin stopWorkers \cup {client, guest, old, victim} /\ requests[d] = 0
    BY <2>1 DEF Inv, Fresh
  <2> QED BY <2>1, <2>2
<1>5. GuestWaits'
  <2> SUFFICES ASSUME guest # None
               PROVE  /\ reader'[guest] = "wait" /\ requests'[guest] = 0
                      /\ guest \notin stopWorkers \cup {client, old, victim}
    BY DEF GuestWaits
  <2>1. guest \in Conns \ {c} /\ reader[guest] = "wait" /\ requests[guest] = 0
        /\ guest \notin stopWorkers \cup {client, old, victim}
    BY DEF Inv, GuestWaits, Types, Somebody
  <2> QED BY <2>1, <1>2
<1>6. LeftIsTold'
  <2>1. reader[c] # "none"
    BY DEF Busy
  <2> QED BY <2>1, <1>2 DEF Inv, LeftIsTold
<1>7. OwnBody'
  <2> SUFFICES ASSUME NEW d \in Conns, reader'[d] = "bodyRecv" PROVE from'[d] = d \/ d \in stopWorkers
    BY DEF OwnBody
  <2>1. CASE d = c
    BY <2>1, <1>2
  <2>2. CASE d # c
    BY <2>2, <1>2 DEF Inv, OwnBody
  <2> QED BY <2>1, <2>2
<1>8. NoneIsLost'
  BY <1>2 DEF Inv, NoneIsLost, Busy
<1>9. IsRead'
  <2> SUFFICES ASSUME client \in open', listener # "adopted" PROVE Attended(client)'
    BY DEF IsRead
  <2>1. CASE client = c
    BY <2>1, <1>2 DEF Attended, Busy
  <2>2. CASE client # c
    <3>1. client \in Conns /\ Attended(client)
      BY DEF Inv, IsRead, Types
    <3>2. requests[client] \in Nat /\ requests'[client] \in Nat /\ requests'[client] >= requests[client]
      BY <3>1, <2>2 DEF Inv, Types
    <3>3. reader'[client] = reader[client]
      BY <3>1, <2>2, <1>2
    <3> QED BY <3>1, <3>2, <3>3 DEF Attended
  <2> QED BY <2>1, <2>2
<1> QED BY <1>1, <1>3, <1>4, <1>5, <1>6, <1>7, <1>8, <1>9 DEF Inv

LEMMA ReaderStepKeeps ==
  ASSUME Inv, NEW c \in Conns, ReaderStep(c)
  PROVE  Inv'
<1>1. reader \in [Conns -> Steps] /\ requests \in [Conns -> Nat] /\ from \in [Conns -> Somebody]
      /\ open \subseteq Conns /\ client \in Somebody
  BY DEF Inv, Types
<1>2. ASSUME reader[c] \in Busy PROVE c # guest
  BY <1>2 DEF Inv, GuestWaits, Busy
<1>3. CASE BeginBody(c)
  <2>1. CASE client = None
    BY <1>3, <2>1, Unchanged DEF BeginBody, Crash, conns, server
  <2>2. CASE client # None
    <3>1. reader[c] = "body" /\ reader' = [reader EXCEPT ![c] = "bodyRecv"]
          /\ from' = [from EXCEPT ![c] = client]
          /\ UNCHANGED <<requests, open, stopWorkers, client, listener, guest, old, sink, victim>>
      BY <1>3, <2>2 DEF BeginBody, ReaderAt, server, threads
    <3>2. client = c \/ c \in stopWorkers
      BY <3>1, <1>2 DEF Inv, LeftIsTold, Busy
    <3>3. c # guest /\ "bodyRecv" \in Busy \cup {"wait", "exited"} /\ reader[c] \in Busy \cup {"wait"}
      BY <3>1, <1>2 DEF Busy
    <3>4. /\ requests' \in [Conns -> Nat] /\ open' \subseteq open /\ from' \in [Conns -> Somebody]
          /\ \A d \in Conns \ {c} : from'[d] = from[d]
          /\ from'[c] = client
      BY <1>1, <3>1
    <3>5. \A d \in Conns \ {c} : requests'[d] >= requests[d] /\ requests'[d] = requests[d]
      BY <1>1, <3>1
    <3>6. "bodyRecv" \in Busy
      BY DEF Busy
    <3> QED BY <3>1, <3>2, <3>3, <3>4, <3>5, <3>6, WorkerKeeps
  <2> QED BY <2>1, <2>2
<1>4. CASE BodyFails(c)
  <2>1. reader[c] = "bodyRecv" /\ reader' = [reader EXCEPT ![c] = "wait"]
        /\ from' = [from EXCEPT ![c] = None] /\ open' = open \ {from[c]}
        /\ UNCHANGED <<requests, stopWorkers, client, listener, guest, old, sink, victim>>
    BY <1>4 DEF BodyFails, EndBody, ReaderAt, server, threads
  <2>2. from[c] = c \/ c \in stopWorkers
    BY <2>1 DEF Inv, OwnBody
  <2>3. c # guest /\ "wait" \in Busy \cup {"wait", "exited"} /\ reader[c] \in Busy \cup {"wait"}
    BY <2>1, <1>2 DEF Busy
  <2>4. requests' \in [Conns -> Nat] /\ open' \subseteq open /\ from' \in [Conns -> Somebody]
    BY <1>1, <2>1 DEF Somebody
  <2>5. /\ \A d \in Conns \ {c} : from'[d] = from[d] /\ requests'[d] >= requests[d]
        /\ \A d \in Conns \ {c, client} : requests'[d] = requests[d]
    BY <1>1, <2>1
  <2>6. c \in open' => c \in stopWorkers
    BY <2>1, <2>2
  <2> QED BY <2>1, <2>3, <2>4, <2>5, <2>6, WorkerKeeps
<1>5. ASSUME NEW here \in Busy, NEW next \in Busy \ {"bodyRecv"}, HandlerGoes(c, here, next),
             UNCHANGED <<requests, stopWorkers, client>>, open' \subseteq open
      PROVE  Inv'
  <2>1. reader[c] = here /\ reader' = [reader EXCEPT ![c] = next]
        /\ UNCHANGED <<from, requests, stopWorkers, client, listener, guest, old, sink, victim>>
    BY <1>5 DEF HandlerGoes, ReaderAt, threads
  <2>2. c # guest /\ next \in Busy \cup {"wait", "exited"} /\ reader[c] \in Busy \cup {"wait"}
    BY <2>1, <1>2
  <2>3. \A d \in Conns : from'[d] = from[d] /\ requests'[d] >= requests[d] /\ requests'[d] = requests[d]
    BY <1>1, <2>1, <1>5
  <2>4. requests' \in [Conns -> Nat] /\ from' \in [Conns -> Somebody]
    BY <1>1, <2>1
  <2>5. next # "bodyRecv"
    BY <1>5
  <2> QED BY <1>5, <2>1, <2>2, <2>3, <2>4, <2>5, WorkerKeeps
<1>6. CASE StartSource(c)
  BY <1>6, <1>5 DEF StartSource, Busy
<1>7. CASE MarkRunning(c)
  BY <1>7, <1>5 DEF MarkRunning, Busy
<1>8. CASE StopSource(c)
  BY <1>8, <1>5 DEF StopSource, Busy
<1>9. CASE UnmarkRunning(c)
  BY <1>9, <1>5 DEF UnmarkRunning, Busy
<1>10. CASE Reply(c)
  <2>1. CASE client = None
    BY <1>10, <2>1, Unchanged DEF Reply, Crash, conns, server
  <2>2. CASE client # None
    BY <1>10, <2>2, <1>5 DEF Reply, Busy, Write, server
  <2> QED BY <2>1, <2>2
<1>11. CASE ReadAgain(c)
  <2>1. CASE client = None
    BY <1>11, <2>1, Unchanged DEF ReadAgain, Crash, conns, server
  <2>2. CASE client # None
    <3>1. reader[c] = "again" /\ reader' = [reader EXCEPT ![c] = "wait"]
          /\ Queue(client)
          /\ UNCHANGED <<from, open, stopWorkers, client, listener, guest, old, sink, victim>>
      BY <1>11, <2>2 DEF ReadAgain, HandlerGoes, ReaderAt, server, threads
    <3>2. client \in Conns
      BY <1>1, <2>2 DEF Somebody
    <3>3. /\ requests' \in [Conns -> Nat]
          /\ client \in open => requests'[client] > 0
          /\ \A d \in Conns : requests'[d] >= requests[d]
          /\ \A d \in Conns \ {client} : requests'[d] = requests[d]
      BY <1>1, <3>1, <3>2 DEF Queue
    <3>4. c # guest /\ "wait" \in Busy \cup {"wait", "exited"} /\ reader[c] \in Busy \cup {"wait"}
      BY <3>1, <1>2 DEF Busy
    <3>5. from' \in [Conns -> Somebody] /\ \A d \in Conns \ {c} : from'[d] = from[d]
      BY <1>1, <3>1
    <3> QED BY <3>1, <3>3, <3>4, <3>5, WorkerKeeps
  <2> QED BY <2>1, <2>2
<1>12. CASE WorkerEnds(c)
  <2>1. UNCHANGED <<from, stopWorkers, client, listener, guest, old, sink, victim>>
    BY <1>12 DEF WorkerEnds, TakeRequest, ReadFails, server, threads
  <2>2. CASE TakeRequest(c) /\ (c \in stopWorkers \/ c \notin open)
    <3>1. reader[c] = "wait" /\ reader' = [reader EXCEPT ![c] = "exited"] /\ UNCHANGED <<requests, open>>
      BY <2>2 DEF TakeRequest, ReaderAt
    <3>2. c # guest
      BY <2>2 DEF TakeRequest, Inv, GuestWaits
    <3>3. "exited" \in Busy \cup {"wait", "exited"} /\ reader[c] \in Busy \cup {"wait"}
      BY <3>1 DEF Busy
    <3>4. /\ from' \in [Conns -> Somebody] /\ requests' \in [Conns -> Nat]
          /\ \A d \in Conns : from'[d] = from[d] /\ requests'[d] >= requests[d] /\ requests'[d] = requests[d]
      BY <1>1, <2>1, <3>1
    <3> QED BY <2>1, <2>2, <3>1, <3>2, <3>3, <3>4, WorkerKeeps
  <2>3. CASE TakeRequest(c) /\ ~(c \in stopWorkers \/ c \notin open)
    <3>1. reader[c] = "wait" /\ reader' = [reader EXCEPT ![c] = "recv"] /\ requests[c] > 0
          /\ requests' = [requests EXCEPT ![c] = @ - 1] /\ UNCHANGED open
      BY <2>3 DEF TakeRequest, ReaderAt
    <3>2. c # guest
      BY <3>1 DEF Inv, GuestWaits
    <3>3. /\ requests' \in [Conns -> Nat]
          /\ \A d \in Conns \ {c} : requests'[d] = requests[d]
      BY <1>1, <3>1
    <3>4. \A d \in Conns \ {c} : requests'[d] >= requests[d]
      BY <1>1, <3>3
    <3> QED BY <1>1, <2>1, <3>1, <3>2, <3>3, <3>4, WorkerKeeps DEF Busy
  <2>4. CASE ReadFails(c)
    <3>1. reader[c] = "recv" /\ reader' = [reader EXCEPT ![c] = "exited"] /\ open' = open \ {c} /\ UNCHANGED requests
      BY <2>4 DEF ReadFails, ReaderAt
    <3>2. c # guest /\ "exited" \in Busy \cup {"wait", "exited"} /\ reader[c] \in Busy \cup {"wait"}
      BY <3>1, <1>2 DEF Busy
    <3>3. /\ from' \in [Conns -> Somebody] /\ requests' \in [Conns -> Nat] /\ open' \subseteq open /\ c \notin open'
          /\ \A d \in Conns : from'[d] = from[d] /\ requests'[d] >= requests[d] /\ requests'[d] = requests[d]
      BY <1>1, <2>1, <3>1
    <3> QED BY <2>1, <3>1, <3>2, <3>3, WorkerKeeps
  <2> QED BY <1>12, <2>2, <2>3, <2>4 DEF WorkerEnds
<1> QED BY <1>3, <1>4, <1>6, <1>7, <1>8, <1>9, <1>10, <1>11, <1>12 DEF ReaderStep

LEMMA ClientStepKeeps ==
  ASSUME Inv, NEW c \in Conns,
         Receive(c) \/ ReceiveBody(c) \/ (PeerCloses(c) /\ UNCHANGED <<server, threads, from, crashed>>)
  PROVE  Inv'
<1>1. reader \in [Conns -> Steps] /\ requests \in [Conns -> Nat] /\ from \in [Conns -> Somebody]
      /\ open \subseteq Conns
  BY DEF Inv, Types
<1>2. ASSUME NEW here \in Busy, NEW next \in Busy \ {"bodyRecv"}, reader[c] = here,
             reader' = [reader EXCEPT ![c] = next],
             from' = from \/ from' = [from EXCEPT ![c] = None],
             UNCHANGED <<requests, open, stopWorkers, client, listener, guest, old, sink, victim>>
      PROVE  Inv'
  <2>1. c # guest /\ next \in Busy \cup {"wait", "exited"} /\ reader[c] \in Busy \cup {"wait"}
    BY <1>2 DEF Inv, GuestWaits, Busy
  <2>2. from' \in [Conns -> Somebody] /\ \A d \in Conns \ {c} : from'[d] = from[d]
    BY <1>1, <1>2 DEF Somebody
  <2>3. requests' \in [Conns -> Nat] /\ \A d \in Conns : requests'[d] >= requests[d] /\ requests'[d] = requests[d]
    BY <1>1, <1>2
  <2> QED BY <1>2, <2>1, <2>2, <2>3, WorkerKeeps
<1>3. CASE Receive(c)
  <2>1. PICK step \in {"body", "reply"} : Received(c, step)
    BY <1>3 DEF Receive
  <2>2. reader[c] = "recv" /\ reader' = [reader EXCEPT ![c] = step]
        /\ UNCHANGED <<from, requests, open, stopWorkers, client, listener, guest, old, sink, victim>>
    BY <1>3, <2>1 DEF Receive, Received, ReaderAt, server, threads
  <2> QED BY <1>2, <2>2 DEF Busy
<1>4. CASE ReceiveBody(c)
  <2>1. PICK step \in {"start", "stop", "reply", "again"} : EndBody(c, step)
    BY <1>4 DEF ReceiveBody
  <2>2. reader[c] = "bodyRecv" /\ reader' = [reader EXCEPT ![c] = step]
        /\ from' = [from EXCEPT ![c] = None]
        /\ UNCHANGED <<requests, open, stopWorkers, client, listener, guest, old, sink, victim>>
    BY <1>4, <2>1 DEF ReceiveBody, EndBody, ReaderAt, server, threads
  <2> QED BY <1>2, <2>2 DEF Busy
<1>5. CASE PeerCloses(c) /\ UNCHANGED <<server, threads, from, crashed>>
  BY <1>5, Unchanged DEF PeerCloses, server, threads
<1> QED BY <1>3, <1>4, <1>5

-----------------------------------------------------------------------------
(* The steps of the sink's worker.                                          *)

LEMMA SinkStepKeeps ==
  ASSUME Inv, SinkStep
  PROVE  Inv'
<1>1. client \in Somebody /\ victim \in Somebody /\ open \subseteq Conns
  BY DEF Inv, Types
<1>2. ASSUME sink # "join", sink' # "join", open' \subseteq open,
             UNCHANGED <<reader, requests, stopWorkers, from, listener, guest, old, victim, client>>
      PROVE  Inv'
  <2>1. Types' /\ IsRead'
    BY <1>2 DEF Inv, Types, IsRead, Attended
  <2>2. (ListenerTurn /\ SinkTurn /\ Fresh /\ GuestWaits /\ LeftIsTold /\ OwnBody /\ NoneIsLost)'
    BY <1>2 DEF Inv, ListenerTurn, SinkTurn, Fresh, GuestWaits, LeftIsTold, OwnBody, NoneIsLost
  <2> QED BY <2>1, <2>2 DEF Inv
<1>3. CASE Handle
  BY <1>3, <1>2 DEF Handle, Sink, NextAfter, conns
<1>4. CASE SendSamples
  <2>1. CASE client = None
    BY <1>4, <2>1, Unchanged DEF SendSamples, Crash, conns, server
  <2>2. CASE client # None
    BY <1>4, <2>2, <1>2 DEF SendSamples, Sink, Write, server
  <2> QED BY <2>1, <2>2
<1>5. CASE StopForGone
  BY <1>5, <1>2 DEF StopForGone, Sink, conns
<1>6. CASE UnmarkForGone
  BY <1>6, <1>2 DEF UnmarkForGone, Sink, conns
<1>7. CASE ResetClient
  <2>1. sink = "reset" /\ victim = None
    BY <1>7 DEF ResetClient, Inv, SinkTurn
  <2>2. CASE client = None
    BY <1>7, <2>1, <2>2, <1>2 DEF ResetClient, Sink, conns
  <2>3. CASE client # None
    <3>1. client \in Conns /\ client # guest /\ reader[client] # "none"
      BY <1>1, <2>3 DEF Somebody, Inv, GuestWaits, Fresh
    <3>2. /\ client' = None /\ victim' = client /\ sink' = "join" /\ stopWorkers' = stopWorkers \cup {client}
          /\ UNCHANGED <<reader, requests, open, from, listener, guest, old>>
      BY <1>7, <2>3 DEF ResetClient, Sink, Close
    <3>3. Types'
      BY <3>1, <3>2 DEF Inv, Types, Somebody
    <3>4. ListenerTurn' /\ SinkTurn' /\ IsRead'
      BY <1>1, <2>3, <3>2 DEF Inv, ListenerTurn, SinkTurn, IsRead
    <3>5. Fresh' /\ GuestWaits' /\ LeftIsTold' /\ OwnBody'
      BY <3>1, <3>2 DEF Inv, Fresh, GuestWaits, LeftIsTold, OwnBody
    <3>6. NoneIsLost'
      BY <2>1, <3>2 DEF Inv, NoneIsLost
    <3> QED BY <3>3, <3>4, <3>5, <3>6 DEF Inv
  <2> QED BY <2>2, <2>3
<1>8. CASE JoinClient
  <2>1. victim \in Conns /\ reader[victim] = "exited"
    BY <1>1, <1>8 DEF JoinClient, Joined, Inv, SinkTurn, Somebody
  <2>2. /\ sink' = "idle" /\ victim' = None /\ open' \subseteq open
        /\ UNCHANGED <<reader, requests, stopWorkers, from, listener, guest, old, client>>
    BY <1>8 DEF JoinClient, Sink, server
  <2>3. Types' /\ ListenerTurn' /\ SinkTurn' /\ IsRead'
    BY <2>2 DEF Inv, Types, ListenerTurn, SinkTurn, IsRead, Attended, Somebody
  <2>4. Fresh' /\ GuestWaits' /\ LeftIsTold' /\ OwnBody'
    BY <2>2 DEF Inv, Fresh, GuestWaits, LeftIsTold, OwnBody, Types, Somebody
  <2>5. NoneIsLost'
    BY <2>1, <2>2 DEF Inv, NoneIsLost
  <2> QED BY <2>3, <2>4, <2>5 DEF Inv
<1> QED BY <1>3, <1>4, <1>5, <1>6, <1>7, <1>8 DEF SinkStep

-----------------------------------------------------------------------------
(* The steps of the listener's worker.                                      *)

LEMMA AcceptKeeps ==
  ASSUME Inv, NEW c \in Conns, Accept(c)
  PROVE  Inv'
<1>1. /\ reader[c] = "none" /\ reader' = [reader EXCEPT ![c] = "wait"] /\ open' = open \cup {c}
      /\ listener = "accept" /\ listener' = "look" /\ guest' = c
      /\ UNCHANGED <<requests, stopWorkers, from, old, sink, victim, client>>
  BY DEF Accept, Construct, ReaderAt, Listener, server
<1>2. reader \in [Conns -> Steps] /\ \A d \in Conns : reader'[d] = IF d = c THEN "wait" ELSE reader[d]
  BY <1>1 DEF Inv, Types
<1>3. guest = None /\ old = None /\ c # None
  BY <1>1 DEF Inv, ListenerTurn, WithGuest, WithOld
<1>4. c \notin stopWorkers \cup {client, guest, old, victim} /\ requests[c] = 0
  BY <1>1 DEF Inv, Fresh
<1>5. Types'
  <2>1. reader' \in [Conns -> Steps]
    BY <1>1, <1>2 DEF Steps
  <2> QED BY <1>1, <2>1 DEF Inv, Types, Somebody
<1>6. ListenerTurn' /\ SinkTurn'
  BY <1>1, <1>3 DEF Inv, ListenerTurn, SinkTurn, WithGuest, WithOld
<1>7. Fresh' /\ GuestWaits'
  BY <1>1, <1>2, <1>3, <1>4 DEF Inv, Fresh, GuestWaits
<1>8. LeftIsTold' /\ OwnBody'
  BY <1>1, <1>2, <1>3 DEF Inv, LeftIsTold, OwnBody
<1>9. NoneIsLost'
  BY <1>1, <1>2, <1>3 DEF Inv, NoneIsLost
<1>10. IsRead'
  BY <1>1, <1>2, <1>4 DEF Inv, IsRead, Attended, Types, Somebody
<1> QED BY <1>5, <1>6, <1>7, <1>8, <1>9, <1>10 DEF Inv

LEMMA ListenerStepKeeps ==
  ASSUME Inv, ListenerStep
  PROVE  Inv'
<1>1. client \in Somebody /\ guest \in Somebody /\ old \in Somebody /\ open \subseteq Conns
  BY DEF Inv, Types
<1>2. CASE Look
  <2>1. listener = "look" /\ listener' \in {"adopt", "reject", "sendAway"}
        /\ UNCHANGED <<reader, requests, open, stopWorkers, from, guest, old, sink, victim, client>>
    BY <1>2 DEF Look, Listener, conns, server
  <2>2. Types' /\ SinkTurn' /\ Fresh' /\ GuestWaits' /\ LeftIsTold' /\ OwnBody' /\ NoneIsLost'
    BY <2>1 DEF Inv, Types, SinkTurn, Fresh, GuestWaits, LeftIsTold, OwnBody, NoneIsLost
  <2>3. ListenerTurn' /\ IsRead'
    BY <2>1 DEF Inv, ListenerTurn, IsRead, WithGuest, WithOld, Attended
  <2> QED BY <2>2, <2>3 DEF Inv
<1>3. CASE Reject
  <2>1. /\ listener = "reject" /\ listener' = "rejected" /\ old' = guest /\ guest' = None
        /\ stopWorkers' = stopWorkers \cup {guest}
        /\ UNCHANGED <<reader, requests, open, from, sink, victim, client>>
    BY <1>3 DEF Reject, Listener, Close, server
  <2>2. old = None /\ guest \in Conns
    BY <1>1, <2>1 DEF Inv, ListenerTurn, WithGuest, WithOld, Somebody
  <2>3. reader[guest] = "wait" /\ guest \notin {client, victim}
    BY <2>2 DEF Inv, GuestWaits
  <2>4. Types' /\ SinkTurn' /\ ListenerTurn' /\ IsRead'
    BY <2>1, <2>2 DEF Inv, Types, SinkTurn, ListenerTurn, IsRead, WithGuest, WithOld, Attended, Somebody
  <2>5. Fresh' /\ GuestWaits' /\ LeftIsTold' /\ OwnBody' /\ NoneIsLost'
    BY <2>1, <2>2, <2>3 DEF Inv, Fresh, GuestWaits, LeftIsTold, OwnBody, NoneIsLost
  <2> QED BY <2>4, <2>5 DEF Inv
<1>4. ASSUME old # None => reader[old] = "exited", old' = None,
             listener \in {"rejected", "sentAway", "adopted"}, guest' = guest, open' \subseteq open,
             UNCHANGED <<reader, stopWorkers, from, sink, victim>>,
             \/ listener = "rejected" /\ listener' = "accept" /\ UNCHANGED <<client, requests>>
             \/ listener = "sentAway" /\ listener' = "adopt" /\ client' = None /\ UNCHANGED requests
             \/ /\ listener = "adopted" /\ listener' = "reset" /\ UNCHANGED client
                /\ client \in Conns /\ Queue(client)
      PROVE  Inv'
  <2>1. /\ requests' \in [Conns -> Nat] /\ \A d \in Conns \ {client} : requests'[d] = requests[d]
        /\ client \in open /\ listener = "adopted" => requests'[client] > 0
        /\ listener # "adopted" => requests' = requests
    BY <1>4 DEF Inv, Types, Queue
  <2>2. Types' /\ SinkTurn'
    BY <1>4, <2>1 DEF Inv, Types, SinkTurn, Somebody
  <2>3. ListenerTurn'
    BY <1>4 DEF Inv, ListenerTurn, WithGuest, WithOld
  <2>4. Fresh' /\ GuestWaits'
    BY <1>1, <1>4, <2>1 DEF Inv, Fresh, GuestWaits, Somebody
  <2>5. listener = "sentAway" => client \in {old, None} /\ old \in stopWorkers
    BY DEF Inv, ListenerTurn
  <2>6. LeftIsTold' /\ OwnBody'
    BY <1>4, <2>5 DEF Inv, LeftIsTold, OwnBody
  <2>7. NoneIsLost'
    BY <1>4, <2>5 DEF Inv, NoneIsLost
  <2>8. IsRead'
    BY <1>1, <1>4, <2>1 DEF Inv, IsRead, Attended, Somebody, Types
  <2> QED BY <2>2, <2>3, <2>4, <2>6, <2>7, <2>8 DEF Inv
<1>5. CASE Rejected
  BY <1>5, <1>4 DEF Rejected, Joined, Listener, server
<1>6. CASE SendAway
  <2>1. CASE client = None
    BY <1>6, <2>1, Unchanged DEF SendAway, Crash, conns, server
  <2>2. CASE client # None
    <3>1. /\ listener = "sendAway" /\ listener' = "sentAway" /\ old' = client
          /\ stopWorkers' = stopWorkers \cup {client}
          /\ UNCHANGED <<reader, requests, open, from, guest, sink, victim, client>>
      BY <1>6, <2>2 DEF SendAway, Listener, Close, server
    <3>2. old = None /\ client \in Conns /\ reader[client] # "none" /\ client # guest
      BY <1>1, <2>2, <3>1 DEF Inv, ListenerTurn, WithGuest, WithOld, Somebody, Fresh, GuestWaits
    <3>3. Types' /\ SinkTurn' /\ ListenerTurn' /\ IsRead'
      BY <3>1, <3>2 DEF Inv, Types, SinkTurn, ListenerTurn, IsRead, WithGuest, WithOld, Attended, Somebody
    <3>4. Fresh' /\ GuestWaits' /\ LeftIsTold' /\ OwnBody' /\ NoneIsLost'
      BY <3>1, <3>2 DEF Inv, Fresh, GuestWaits, LeftIsTold, OwnBody, NoneIsLost
    <3> QED BY <3>3, <3>4 DEF Inv
  <2> QED BY <2>1, <2>2
<1>7. CASE SentAway
  BY <1>7, <1>4 DEF SentAway, Joined, Listener
<1>8. CASE Adopt
  <2>1. /\ listener = "adopt" /\ listener' = "adopted" /\ client' = guest /\ guest' = None
        /\ stopWorkers' = stopWorkers \cup ({client} \ {None}) /\ old' = IF client = None THEN old ELSE client
        /\ UNCHANGED <<reader, requests, open, from, sink, victim>>
    BY <1>8 DEF Adopt, Listener, Close, conns
  <2>2. old = None /\ guest \in Conns
    BY <1>1, <2>1 DEF Inv, ListenerTurn, WithGuest, WithOld, Somebody
  <2>3. client # None => client \in Conns /\ reader[client] # "none"
    BY <1>1 DEF Inv, Somebody, Fresh
  <2>4. reader[guest] = "wait" /\ guest \notin stopWorkers \cup {client, victim}
    BY <2>2 DEF Inv, GuestWaits
  <2>5. Types' /\ SinkTurn' /\ ListenerTurn' /\ IsRead'
    BY <2>1, <2>2, <2>3 DEF Inv, Types, SinkTurn, ListenerTurn, IsRead, WithGuest, WithOld, Somebody
  <2>6. Fresh' /\ GuestWaits' /\ OwnBody'
    BY <2>1, <2>2, <2>3, <2>4 DEF Inv, Fresh, GuestWaits, OwnBody
  <2>7. LeftIsTold' /\ NoneIsLost'
    BY <2>1, <2>2, <2>3, <2>4 DEF Inv, LeftIsTold, NoneIsLost
  <2> QED BY <2>5, <2>6, <2>7 DEF Inv
<1>9. CASE Adopted
  <2>1. CASE client = None
    BY <1>9, <2>1, Unchanged DEF Adopted, Crash, conns, server
  <2>2. CASE client # None
    BY <1>1, <1>9, <2>2, <1>4 DEF Adopted, Joined, Listener, server, Somebody
  <2> QED BY <2>1, <2>2
<1>10. ASSUME listener \in {"reset", "greet"}, listener' \in {"greet", "accept"}, open' \subseteq open,
              UNCHANGED <<reader, requests, stopWorkers, from, guest, old, sink, victim, client>>
       PROVE  Inv'
  <2>1. Types' /\ SinkTurn' /\ ListenerTurn' /\ IsRead'
    BY <1>10 DEF Inv, Types, SinkTurn, ListenerTurn, IsRead, WithGuest, WithOld, Attended
  <2>2. Fresh' /\ GuestWaits' /\ LeftIsTold' /\ OwnBody' /\ NoneIsLost'
    BY <1>10 DEF Inv, Fresh, GuestWaits, LeftIsTold, OwnBody, NoneIsLost
  <2> QED BY <2>1, <2>2 DEF Inv
<1>11. CASE Reset
  BY <1>11, <1>10 DEF Reset, Listener, conns
<1>12. CASE Greet
  <2>1. CASE client = None
    BY <1>12, <2>1, Unchanged DEF Greet, Crash, conns, server
  <2>2. CASE client # None
    BY <1>12, <2>2, <1>10 DEF Greet, Listener, Write, server
  <2> QED BY <2>1, <2>2
<1> QED BY <1>2, <1>3, <1>5, <1>6, <1>7, <1>8, <1>9, <1>11, <1>12 DEF ListenerStep

-----------------------------------------------------------------------------
(* The theorems.                                                            *)

LEMMA NextKeeps ==
  ASSUME Inv, [Next]_vars
  PROVE  Inv'
<1>1. CASE ListenerStep
  BY <1>1, ListenerStepKeeps
<1>2. CASE SinkStep
  BY <1>2, SinkStepKeeps
<1>3. CASE Produce
  BY <1>3, Unchanged DEF Produce, conns, threads
<1>4. ASSUME NEW c \in Conns, Accept(c) PROVE Inv'
  BY <1>4, AcceptKeeps
<1>5. ASSUME NEW c \in Conns, ReaderStep(c) PROVE Inv'
  BY <1>5, ReaderStepKeeps
<1>6. ASSUME NEW c \in Conns,
             Receive(c) \/ ReceiveBody(c) \/ (PeerCloses(c) /\ UNCHANGED <<server, threads, from, crashed>>)
      PROVE  Inv'
  BY <1>6, ClientStepKeeps
<1>7. CASE UNCHANGED vars
  BY <1>7, Unchanged DEF vars, conns, server
<1> QED BY <1>1, <1>2, <1>3, <1>4, <1>5, <1>6, <1>7 DEF Next, Step

\* The invariant, for any number of connections.
THEOREM Holds == Spec => []Inv
<1> QED BY InitInv, NextKeeps, PTL DEF Spec

\* Every living read worker belongs to a connection that is in somebody's hands, so no
\* worker outlives its connection and none stays open for good.
THEOREM NoneIsLostHolds == Spec => []NoneIsLost
<1>1. Inv => NoneIsLost
  BY DEF Inv
<1> QED BY <1>1, Holds, PTL

\* The server is never deaf to the client it has, though read requests go through the global.
THEOREM ClientIsReadHolds == Spec => []ClientIsRead
<1>1. Inv => ClientIsRead
  BY DEF Inv, IsRead, ClientIsRead
<1> QED BY <1>1, Holds, PTL
=============================================================================
