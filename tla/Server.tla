------------------------------- MODULE Server -------------------------------
(***************************************************************************)
(* The session of the headless server (core/src/server.cpp): one global    *)
(* `client` that three kinds of threads use without a lock.  The listener's *)
(* worker runs _clientHandler(), which turns a newcomer away or puts it in  *)
(* the place of the last client; the read worker of each connection runs    *)
(* _packetHandler() and its commands; and the worker of the sample sink runs *)
(* _testServerHandler(), which sends the samples, and cleans up after a      *)
(* client that is gone.                                                      *)
(*                                                                         *)
(* Each access to the global is a step.  Through a client that has been    *)
(* reset meanwhile the access is through a null pointer: the server        *)
(* crashes, and the behaviour ends there.  (reset() and the assignment of  *)
(* a unique_ptr change the pointer before they destroy the old object.)    *)
(***************************************************************************)
EXTENDS Connection

CONSTANT None        \* no client
ASSUME NoneAssumption == None \notin Conns

VARIABLES
  client, running,   \* of server.cpp
  started,           \* the source streams
  samples,           \* a frame of samples is on its way to the sink
  listener, guest,   \* the step of the listener's worker and the connection it accepted
  sink, victim,      \* the step of the sink's worker and the connection it destroys
  old,               \* the connection the listener's worker closes or destroys
  from,              \* the connection each handler reads the rest of its packet from
  begun,             \* history: the connections whose START was carried out
  crashed

server == <<client, running, started, samples, begun>>
vars   == <<conns, server, listener, guest, old, sink, victim, from, crashed>>

Init ==
  /\ ConnInit
  /\ client = None /\ running = FALSE /\ started = FALSE /\ samples = FALSE /\ begun = {}
  /\ listener = "accept" /\ guest = None /\ old = None
  /\ sink = "idle" /\ victim = None /\ from = [c \in Conns |-> None]
  /\ crashed = FALSE

\* What goes through the null pointer.
Crash == crashed' = TRUE /\ UNCHANGED <<conns, server, listener, guest, old, sink, victim, from>>

-----------------------------------------------------------------------------
(* The listener's worker: _clientHandler().                                 *)

Listener(step) == listener' = step /\ UNCHANGED <<sink, victim, from, crashed>>

Accept(c) ==
  /\ listener = "accept"
  /\ Construct(c) /\ guest' = c
  /\ Listener("look")
  /\ UNCHANGED <<server, old>>

Look ==
  /\ listener = "look"
  /\ Listener(CASE client = None \/ client \notin open -> "adopt"
                [] client \in open /\ running          -> "reject"
                [] OTHER                               -> "sendAway")
  /\ UNCHANGED <<conns, server, guest, old>>

\* The newcomer is told, closed and destroyed; its reader has nothing to read.
Reject ==
  /\ listener = "reject"
  /\ Close(guest) /\ old' = guest /\ guest' = None
  /\ Listener("rejected")
  /\ UNCHANGED server

Rejected ==
  /\ listener = "rejected" /\ Joined(old)
  /\ open' = open \ {old} /\ old' = None
  /\ Listener("accept")
  /\ UNCHANGED <<reader, requests, stopWorkers, shut, gone, server, guest>>

SendAway ==
  /\ listener = "sendAway"
  /\ IF client = None THEN Crash
     ELSE /\ Close(client) /\ old' = client
          /\ Listener("sentAway")
          /\ UNCHANGED <<server, guest>>

\* close() has returned, and client.reset() resets whatever is client by now.
SentAway ==
  /\ listener = "sentAway" /\ Joined(old)
  /\ open' = open \ {old}
  /\ old' = None /\ client' = None
  /\ Listener("adopt")
  /\ UNCHANGED <<reader, requests, stopWorkers, shut, gone, running, started, samples, begun, guest>>

\* client = std::move(conn): then the old client is destroyed, which closes it.
Adopt ==
  /\ listener = "adopt"
  /\ client' = guest /\ guest' = None
  /\ IF client = None THEN UNCHANGED <<conns, old>> ELSE Close(client) /\ old' = client
  /\ Listener("adopted")
  /\ UNCHANGED <<running, started, samples, begun>>

Adopted ==
  /\ listener = "adopted" /\ (old # None => Joined(old))
  /\ IF client = None THEN Crash
     ELSE /\ open' = open \ {old} /\ old' = None
          /\ Queue(client)
          /\ Listener("reset")
          /\ UNCHANGED <<reader, stopWorkers, shut, gone, server, guest>>

\* The settings of the session are reset: the source stops, but running stays.
Reset ==
  /\ listener = "reset"
  /\ started' = FALSE
  /\ Listener("greet")
  /\ UNCHANGED <<conns, client, running, samples, begun, guest, old>>

Greet ==
  /\ listener = "greet"
  /\ IF client = None THEN Crash
     ELSE /\ Write(client)
          /\ Listener("accept")
          /\ UNCHANGED <<reader, requests, stopWorkers, shut, gone, server, guest, old>>

ListenerStep == Look \/ Reject \/ Rejected \/ SendAway \/ SentAway
                \/ Adopt \/ Adopted \/ Reset \/ Greet

-----------------------------------------------------------------------------
(* The read worker of connection c: _packetHandler() and commandHandler().  *)

threads == <<listener, guest, old, sink, victim>>

HandlerGoes(c, step, next) ==
  /\ reader[c] = step /\ ReaderAt(c, next)
  /\ UNCHANGED <<threads, from, crashed>>

\* A packet's header came in; the rest is read through the global, ...
Receive(c) ==
  /\ \E step \in {"body", "reply"} : Received(c, step)
  /\ UNCHANGED <<server, threads, from, crashed>>

BeginBody(c) ==
  /\ reader[c] = "body"
  /\ IF client = None THEN Crash
     ELSE /\ ReaderAt(c, "bodyRecv") /\ from' = [from EXCEPT ![c] = client]
          /\ UNCHANGED <<requests, open, stopWorkers, shut, gone, server, threads, crashed>>

EndBody(c, step) ==
  /\ reader[c] = "bodyRecv" /\ ReaderAt(c, step) /\ from' = [from EXCEPT ![c] = None]
  /\ UNCHANGED <<requests, stopWorkers, shut, gone, server, threads, crashed>>

\* ... and it is START, STOP, another command that is answered, or one that is not.
ReceiveBody(c) ==
  /\ from[c] \in open \ shut
  /\ \E step \in {"start", "stop", "reply", "again"} : EndBody(c, step)
  /\ UNCHANGED open

\* The handler returns without asking for more.
BodyFails(c) ==
  /\ from[c] \notin open \/ from[c] \in shut \cup gone
  /\ EndBody(c, "wait")
  /\ open' = open \ {from[c]}

\* START: a source whose device does not open leaves running as it was.
StartSource(c) ==
  /\ \/ HandlerGoes(c, "start", "mark") /\ started' = TRUE
     \/ HandlerGoes(c, "start", "reply") /\ UNCHANGED started
  /\ UNCHANGED <<requests, open, stopWorkers, shut, gone, client, running, samples, begun>>

MarkRunning(c) ==
  /\ HandlerGoes(c, "mark", "reply")
  /\ running' = TRUE /\ begun' = begun \cup {c}
  /\ UNCHANGED <<requests, open, stopWorkers, shut, gone, client, started, samples>>

StopSource(c) ==
  /\ HandlerGoes(c, "stop", "unmark")
  /\ started' = FALSE
  /\ UNCHANGED <<requests, open, stopWorkers, shut, gone, client, running, samples, begun>>

UnmarkRunning(c) ==
  /\ HandlerGoes(c, "unmark", "reply")
  /\ running' = FALSE
  /\ UNCHANGED <<requests, open, stopWorkers, shut, gone, client, started, samples, begun>>

\* The reply goes to whoever is client now.
Reply(c) ==
  /\ reader[c] = "reply"
  /\ IF client = None THEN Crash
     ELSE /\ HandlerGoes(c, "reply", "again")
          /\ Write(client)
          /\ UNCHANGED <<requests, stopWorkers, shut, gone, server>>

\* Mutant: an answered packet is the last one read.
ReadAgain_Not(c) ==
  /\ HandlerGoes(c, "again", "wait")
  /\ UNCHANGED <<requests, open, stopWorkers, shut, gone, server>>

\* So does the next read request.
ReadAgain(c) ==
  /\ reader[c] = "again"
  /\ IF client = None THEN Crash
     ELSE /\ HandlerGoes(c, "again", "wait")
          /\ Queue(client)
          /\ UNCHANGED <<open, stopWorkers, shut, gone, server>>

WorkerEnds(c) == (TakeRequest(c) \/ ReadFails(c)) /\ UNCHANGED <<server, threads, from, crashed>>

ReaderStep(c) == \/ BeginBody(c) \/ BodyFails(c) \/ StartSource(c) \/ MarkRunning(c) \/ StopSource(c) \/ UnmarkRunning(c)
                 \/ Reply(c) \/ ReadAgain(c) \/ WorkerEnds(c)

-----------------------------------------------------------------------------
(* The sample sink's worker: _testServerHandler().                          *)

Sink(step) == sink' = step /\ UNCHANGED <<listener, guest, old, from, crashed>>

\* Mutant: a client that is gone is written to like any other.
NextAfter_Write(c) == "write"

NextAfter(c) == IF c \in open THEN "write" ELSE "stopSource"

Handle ==
  /\ sink = "idle" /\ samples
  /\ samples' = FALSE
  /\ Sink(IF client = None THEN "idle" ELSE NextAfter(client))
  /\ UNCHANGED <<conns, client, running, started, begun, victim>>

SendSamples ==
  /\ sink = "write"
  /\ IF client = None THEN Crash
     ELSE /\ Write(client)
          /\ Sink("idle")
          /\ UNCHANGED <<reader, requests, stopWorkers, shut, gone, server, victim>>

\* "Client is gone, stopping SDR."
StopForGone ==
  /\ sink = "stopSource"
  /\ started' = FALSE
  /\ Sink("unmark")
  /\ UNCHANGED <<conns, client, running, samples, begun, victim>>

UnmarkForGone ==
  /\ sink = "unmark"
  /\ running' = FALSE
  /\ Sink("reset")
  /\ UNCHANGED <<conns, client, started, samples, begun, victim>>

\* client.reset() destroys whoever is client by now.
ResetClient ==
  /\ sink = "reset"
  /\ client' = None /\ victim' = client
  /\ IF client = None THEN Sink("idle") /\ UNCHANGED conns
                      ELSE Sink("join") /\ Close(client)
  /\ UNCHANGED <<running, started, samples, begun>>

JoinClient ==
  /\ sink = "join" /\ Joined(victim)
  /\ open' = open \ {victim} /\ victim' = None
  /\ Sink("idle")
  /\ UNCHANGED <<reader, requests, stopWorkers, shut, gone, server>>

SinkStep == Handle \/ SendSamples \/ StopForGone \/ UnmarkForGone \/ ResetClient \/ JoinClient

\* The source produces a frame; one that is on its way when it stops still arrives.
Produce ==
  /\ started /\ ~samples /\ samples' = TRUE
  /\ UNCHANGED <<conns, client, running, started, begun, threads, from, crashed>>

-----------------------------------------------------------------------------
Step == \/ ListenerStep \/ SinkStep \/ Produce
        \/ \E c \in Conns : \/ Accept(c) \/ ReaderStep(c) \/ Receive(c) \/ ReceiveBody(c)
                            \/ PeerCloses(c) /\ UNCHANGED <<server, threads, from, crashed>>

Next == ~crashed /\ Step

Spec == Init /\ [][Next]_vars

\* The server's threads run and a started source produces; clients do as they like.
LiveSpec == /\ Spec
            /\ WF_vars(~crashed /\ ListenerStep) /\ WF_vars(~crashed /\ SinkStep)
            /\ WF_vars(~crashed /\ Produce)
            /\ \A c \in Conns : WF_vars(~crashed /\ ReaderStep(c))

-----------------------------------------------------------------------------
(* Properties.                                                              *)

\* The worker of c has something to do, or will be told to end.
Attended(c) == requests[c] > 0 \/ reader[c] \notin {"none", "wait", "exited"} \/ c \in stopWorkers

\* The server never stops listening to a client it has: whatever the listener, the last
\* client's handler and the sink did to `client` in between, a read of it is pending or
\* on its way.
ClientIsRead ==
  ~crashed /\ client \in open /\ listener # "adopted" => Attended(client)

\* A read worker that lives belongs to a connection in somebody's hands: it is the client's,
\* or that of one the listener or the sink is about to close.  A worker that outlived its
\* connection would use freed memory, and a lost connection would stay open for good.
NoneIsLost ==
  \A c \in Conns : reader[c] \notin {"none", "exited"} => c \in {client, guest, old, victim}

\* Every newcomer is adopted or turned away, and the listener accepts again, although it
\* joins the worker of the connection it closes - unless that worker came to read the rest
\* of its packet when the newcomer was client already: it waits for what that one sends.
Misreads(c) == reader[c] = "bodyRecv" /\ from[c] # c
AcceptsAgain == listener # "accept" ~> listener = "accept" \/ crashed \/ \E c \in Conns : Misreads(c)

\* A client that is gone is noticed while the source streams: the source is stopped or the
\* client given up, whoever of the three threads gets there first.
GoneIsNoticed ==
  \A c \in Conns : (started /\ client = c /\ c \in gone) ~> (~started \/ client # c \/ crashed)

\* "idle existing client is sent away" (server.cpp:308): a newcomer is rejected only for
\* the sake of a client that has started the source at some time.
IdleIsSentAway == listener = "reject" /\ client # None => client \in begun
=============================================================================
