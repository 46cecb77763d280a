------------------------------- MODULE Chain -------------------------------
(***************************************************************************)
(* dsp::chain<T> (core/src/dsp/chain.h): an ordered list of processors,    *)
(* each of which can be switched in or out of the signal path while the    *)
(* samples are flowing.  The chain belongs to one thread (the user         *)
(* interface), but the processors' workers and the consumer of the chain's *)
(* output - the block the onOutputChange callbacks rewire, the splitter in *)
(* IQFrontEnd - run throughout, so each setInput(), start() and stop() an  *)
(* operation makes is a step of its own: todo holds the ones still to come.*)
(*                                                                         *)
(* A processor stands for its output stream: the stream that block b       *)
(* writes is b.  (A mode change that comes in over rigctl runs the same    *)
(* operations on the radio's chains from a network thread; two threads in  *)
(* one chain are not modelled.)                                            *)
(***************************************************************************)
EXTENDS Naturals, Sequences, SequencesExt

CONSTANTS Blocks,   \* the processors that exist
          Inputs,   \* the streams the chain can be given to read
          None      \* the NULL input of a processor that was never wired

ASSUME DisjointAssumption == Blocks \cap Inputs = {} /\ None \notin Blocks \cup Inputs

VARIABLES
  links, states, in, out, running,   \* the members of chain; states is the set of enabled blocks
  input, started,                    \* of each processor: its _in, and whether it runs
  consumerIn,                        \* what the consumer reads
  todo,                              \* the calls the current operation has still to make
  pending                            \* the blocks a loop over the list has still to come to

chainVars == <<links, states, in, out, running>>
wireVars  == <<input, started, consumerIn>>
vars == <<chainVars, wireVars, todo, pending>>

Streams == Blocks \cup Inputs
InLinks(b) == Contains(links, b)
Idle == todo = <<>> /\ pending = <<>>

Init ==
  /\ links = <<>> /\ states = {} /\ running = FALSE
  /\ in \in Inputs /\ out = in /\ consumerIn = in
  /\ input = [b \in Blocks |-> None]
  /\ started = {}
  /\ todo = <<>> /\ pending = <<>>

-----------------------------------------------------------------------------
(* Neighbours.                                                              *)

Pos(b) == CHOOSE i \in DOMAIN links : links[i] = b

\* The positions of the enabled blocks in front of b, and behind it.
Ahead(b)  == {i \in 1..(Pos(b) - 1) : links[i] \in states}
Behind(b) == {i \in (Pos(b) + 1)..Len(links) : links[i] \in states}

\* Mutant: the first enabled block of the chain, as the code once had it.
BlockBefore_First(b) == IF Ahead(b) = {} THEN in ELSE links[Min(Ahead(b))]

\* What b is to read: the nearest enabled block in front of it, or the chain's input.
BlockBefore(b) == IF Ahead(b) = {} THEN in ELSE links[Max(Ahead(b))]

\* The nearest enabled block behind b; None stands for NULL.
BlockAfter(b) == IF Behind(b) = {} THEN None ELSE links[Min(Behind(b))]

\* The positions of the enabled blocks, and where the path they form begins and ends.
Enabled   == {i \in DOMAIN links : links[i] \in states}
PathStart == IF Enabled = {} THEN None ELSE links[Min(Enabled)]
PathEnd   == IF Enabled = {} THEN in ELSE links[Max(Enabled)]

-----------------------------------------------------------------------------
(* The calls an operation makes.  Rewire(b, s) lets b read s; with None for *)
(* b it is the assignment of out and the onOutputChange callback, which     *)
(* rewires the consumer.                                                    *)

Call(name, b, s)  == [call |-> name, block |-> b, to |-> s]
Rewire(b, s)      == Call(IF b = None THEN "output" ELSE "input", b, s)
StartIfRunning(b) == Call("enable", b, None)
StopBlock(b)      == Call("disable", b, None)

\* Mutants: b is started before the reader behind gives its stream up, or before it has an input.
EnableCalls_ReaderLast(b) ==
  IF b \in states THEN <<>>
  ELSE <<Rewire(b, BlockBefore(b)), StartIfRunning(b), Rewire(BlockAfter(b), b)>>

EnableCalls_StartFirst(b) ==
  IF b \in states THEN <<>>
  ELSE <<StartIfRunning(b), Rewire(BlockAfter(b), b), Rewire(b, BlockBefore(b))>>

\* enableBlock: the reader behind first gives up the stream that b is about to read.
EnableCalls(b) ==
  IF b \in states THEN <<>>
  ELSE <<Rewire(BlockAfter(b), b), Rewire(b, BlockBefore(b)), StartIfRunning(b)>>

\* disableBlock: b stops reading before the reader behind takes its stream over.
DisableCalls(b) ==
  IF b \notin states THEN <<>>
  ELSE <<StopBlock(b), Rewire(BlockAfter(b), BlockBefore(b))>>

\* The next call of the current operation.
NextCall(name) ==
  /\ todo # <<>> /\ Head(todo).call = name
  /\ todo' = Tail(todo)
  /\ UNCHANGED pending

BlockSetInput ==
  /\ NextCall("input")
  /\ input' = [input EXCEPT ![Head(todo).block] = Head(todo).to]
  /\ UNCHANGED <<chainVars, started, consumerIn>>

ChangeOutput ==
  /\ NextCall("output")
  /\ out' = Head(todo).to /\ consumerIn' = Head(todo).to
  /\ UNCHANGED <<links, states, in, running, input, started>>

\* The caller of addBlock(b, true) wires the consumer when addBlock has returned.
WireConsumer ==
  /\ NextCall("consumer")
  /\ consumerIn' = Head(todo).to
  /\ UNCHANGED <<chainVars, input, started>>

Enable ==
  /\ NextCall("enable")
  /\ states' = states \cup {Head(todo).block}
  /\ started' = IF running THEN started \cup {Head(todo).block} ELSE started
  /\ UNCHANGED <<links, in, out, running, input, consumerIn>>

Disable ==
  /\ NextCall("disable")
  /\ states' = states \ {Head(todo).block}
  /\ started' = started \ {Head(todo).block}
  /\ UNCHANGED <<links, in, out, running, input, consumerIn>>

\* The loops of start() and stop() pass over the blocks that are not enabled.
BlockStart ==
  /\ NextCall("start")
  /\ started' = started \cup ({Head(todo).block} \cap states)
  /\ UNCHANGED <<chainVars, input, consumerIn>>

BlockStop ==
  /\ NextCall("stop")
  /\ started' = started \ ({Head(todo).block} \cap states)
  /\ UNCHANGED <<chainVars, input, consumerIn>>

\* The last statement of start() and of stop().
SetRunning ==
  /\ NextCall("running")
  /\ running' = ~running
  /\ UNCHANGED <<links, states, in, out, wireVars>>

Unlink ==
  /\ NextCall("unlink")
  /\ links' = RemoveAt(links, Pos(Head(todo).block))
  /\ UNCHANGED <<states, in, out, running, wireVars>>

DoCall == \/ BlockSetInput \/ ChangeOutput \/ WireConsumer \/ Enable \/ Disable
          \/ BlockStart \/ BlockStop \/ SetRunning \/ Unlink

-----------------------------------------------------------------------------
(* The operations.                                                          *)

Begin(calls) == todo' = calls /\ UNCHANGED <<wireVars, pending>>

\* chain::setInput: the first enabled block reads the new stream, or the consumer does.
ChainSetInput(s) ==
  /\ Idle
  /\ in' = s
  /\ Begin(<<Rewire(PathStart, s)>>)
  /\ UNCHANGED <<links, states, out, running>>

\* addBlock with enabled = false, the only way the callers use it on a chain that may run.
AddBlock(b) ==
  /\ Idle /\ ~InLinks(b)
  /\ links' = Append(links, b)
  /\ UNCHANGED <<states, in, out, running, wireVars, todo, pending>>

\* addBlock with enabled = true, on a chain that is being set up: out changes without a
\* callback.
AddBlockEnabled(b) ==
  /\ Idle /\ ~InLinks(b) /\ ~running
  /\ links' = Append(links, b)
  /\ out' = b
  /\ Begin(<<Rewire(b, PathEnd), StartIfRunning(b), Call("consumer", None, b)>>)
  /\ UNCHANGED <<states, in, running>>

RemoveBlock(b) ==
  /\ Idle /\ InLinks(b)
  /\ Begin(Append(DisableCalls(b), Call("unlink", b, None)))
  /\ UNCHANGED chainVars

EnableBlock(b) ==
  /\ Idle /\ InLinks(b) /\ b \notin states
  /\ Begin(EnableCalls(b))
  /\ UNCHANGED chainVars

DisableBlock(b) ==
  /\ Idle /\ InLinks(b) /\ b \in states
  /\ Begin(DisableCalls(b))
  /\ UNCHANGED chainVars

\* enableAllBlocks, disableAllBlocks: the same, one block of the list after the other.
EnableAllBlocks ==
  /\ Idle /\ links # <<>>
  /\ pending' = [i \in DOMAIN links |-> <<"enable", links[i]>>]
  /\ UNCHANGED <<chainVars, wireVars, todo>>

DisableAllBlocks ==
  /\ Idle /\ links # <<>>
  /\ pending' = [i \in DOMAIN links |-> <<"disable", links[i]>>]
  /\ UNCHANGED <<chainVars, wireVars, todo>>

NextOfAll ==
  /\ todo = <<>> /\ pending # <<>>
  /\ pending' = Tail(pending)
  /\ todo' = IF pending[1][1] = "enable" THEN EnableCalls(pending[1][2])
                                         ELSE DisableCalls(pending[1][2])
  /\ UNCHANGED <<chainVars, wireVars>>

\* start() and stop(): one call for every block of the list, then running.
OnAll(name) == Append([i \in DOMAIN links |-> Call(name, links[i], None)],
                      Call("running", None, None))

StartChain ==
  /\ Idle /\ ~running
  /\ Begin(OnAll("start"))
  /\ UNCHANGED chainVars

StopChain ==
  /\ Idle /\ running
  /\ Begin(OnAll("stop"))
  /\ UNCHANGED chainVars

Next ==
  \/ DoCall \/ NextOfAll
  \/ \E s \in Inputs : ChainSetInput(s)
  \/ \E b \in Blocks : \/ AddBlock(b) \/ AddBlockEnabled(b) \/ RemoveBlock(b)
                       \/ EnableBlock(b) \/ DisableBlock(b)
  \/ EnableAllBlocks \/ DisableAllBlocks \/ StartChain \/ StopChain

Spec == Init /\ [][Next]_vars

-----------------------------------------------------------------------------
(* Properties.                                                              *)

TypeOK ==
  /\ links \in Seq(Blocks) /\ \A i, j \in DOMAIN links : links[i] = links[j] => i = j
  /\ states \subseteq {links[i] : i \in DOMAIN links}
  /\ in \in Inputs /\ out \in Streams /\ consumerIn \in Streams /\ running \in BOOLEAN
  /\ input \in [Blocks -> Streams \cup {None}]
  /\ started \subseteq Blocks

\* A stream has one read buffer and one dataReady flag: two workers reading it would tear
\* its frames apart.  At every step of every rewiring, at most one running worker reads a
\* stream; the consumer, which is never stopped here, counts as one.
OneReader ==
  \A s \in Streams :
    /\ \A b, c \in started : input[b] = s /\ input[c] = s => b = c
    /\ consumerIn = s => \A b \in started : input[b] # s

\* A running worker always has a stream to read.
NoNullInput == \A b \in started : input[b] # None

\* Between operations the enabled blocks form one path in list order, from the chain's input
\* to the consumer, and the blocks that run are those on it: nothing flagged enabled is left
\* out of the path, whatever the order in which blocks were switched on.
WiredInOrder ==
  Idle =>
    /\ \A b \in states : input[b] = BlockBefore(b)
    /\ out = PathEnd
    /\ consumerIn = out
    /\ started = IF running THEN states ELSE {}
=============================================================================
