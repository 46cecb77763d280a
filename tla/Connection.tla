----------------------------- MODULE Connection -----------------------------
(***************************************************************************)
(* net::ConnClass (core/src/utils/networking.cpp) as the server uses it:   *)
(* read requests wait in a queue for the read worker, which calls a        *)
(* handler with what came in; close() shuts the socket and joins it.  The  *)
(* handler's steps are the user's, Server's.  The write worker never has   *)
(* anything to write here.  Each connection object is used once.           *)
(***************************************************************************)
EXTENDS Naturals, FiniteSets

CONSTANT Conns

VARIABLES
  reader,            \* the step of readWorkerThread; "none" before it exists
  requests,          \* the length of readQueue
  open,              \* connectionOpen
  stopWorkers,
  shut, gone         \* the socket: shut down from here, closed by the other end

conns == <<reader, requests, open, stopWorkers, shut, gone>>

ConnInit ==
  /\ reader = [c \in Conns |-> "none"] /\ requests = [c \in Conns |-> 0]
  /\ open = {} /\ stopWorkers = {} /\ shut = {} /\ gone = {}

ReaderAt(c, step) == reader' = [reader EXCEPT ![c] = step]

\* The constructor, called by accept().
Construct(c) ==
  /\ reader[c] = "none"
  /\ ReaderAt(c, "wait") /\ open' = open \cup {c}
  /\ UNCHANGED <<requests, stopWorkers, shut, gone>>

\* readAsync() of an open connection queues a request, of another it does nothing.
Queue(c) == requests' = [requests EXCEPT ![c] = IF c \in open THEN @ + 1 ELSE @]

\* send() fails, and closes the connection, once either end has.
Write(c) == open' = IF c \in shut \cup gone THEN open \ {c} ELSE open

\* Mutant: the socket is left open.
Close_NotShut(c) == stopWorkers' = stopWorkers \cup {c} /\ UNCHANGED <<reader, requests, open, shut, gone>>

\* close() up to its joins ...
Close(c) ==
  /\ stopWorkers' = stopWorkers \cup {c}
  /\ shut' = IF c \in open THEN shut \cup {c} ELSE shut
  /\ UNCHANGED <<reader, requests, open, gone>>

\* Mutant: the worker is detached.
Joined_Detached(c) == TRUE

\* ... which it returns from when the worker has ended.
Joined(c) == reader[c] = "exited"

-----------------------------------------------------------------------------
(* The read worker.                                                         *)

\* It wakes for a request or to end; a connection that is closed ends it, too.
TakeRequest(c) ==
  /\ reader[c] = "wait" /\ (requests[c] > 0 \/ c \in stopWorkers)
  /\ IF c \in stopWorkers \/ c \notin open
     THEN ReaderAt(c, "exited") /\ UNCHANGED requests
     ELSE ReaderAt(c, "recv") /\ requests' = [requests EXCEPT ![c] = @ - 1]
  /\ UNCHANGED <<open, stopWorkers, shut, gone>>

\* recv() returns an error or the end of the stream.
ReadFails(c) ==
  /\ reader[c] = "recv" /\ c \in shut \cup gone
  /\ ReaderAt(c, "exited") /\ open' = open \ {c}
  /\ UNCHANGED <<requests, stopWorkers, shut, gone>>

\* A packet came in, also one sent before the other end closed: the handler is called.
Received(c, handlerStep) ==
  /\ reader[c] = "recv" /\ c \notin shut
  /\ ReaderAt(c, handlerStep)
  /\ UNCHANGED <<requests, open, stopWorkers, shut, gone>>

\* The other end closes the connection, or is lost.
PeerCloses(c) ==
  /\ reader[c] # "none" /\ c \notin gone
  /\ gone' = gone \cup {c}
  /\ UNCHANGED <<reader, requests, open, stopWorkers, shut>>
=============================================================================
