---------------------------- MODULE CompilePool -----------------------------
(***************************************************************************)
(* "holos show buildplans" compiles all components in a pool of child      *)
(* processes: Compile and compiler of src/internal/compile/compile.go in   *)
(* the parent, Compiler.Run of the same file in each child.                *)
(*                                                                         *)
(* A producer hands requests over an unbuffered channel to the compilers.  *)
(* Each compiler goroutine owns one child and talks to it over two pipes,  *)
(* one request at a time, and writes the response to its own element of    *)
(* the shared slice.  All of them are in one errgroup.                     *)
(***************************************************************************)
EXTENDS Integers, Sequences, FiniteSets

CONSTANTS
    Requests,     \* len(reqs); a request is its index, and its response too
    Concurrency,  \* the concurrency argument of Compile
    NoErr         \* stands for a nil error

ASSUME PoolAssumption ==
    /\ Requests \in Nat /\ Concurrency \in Int
    /\ NoErr \notin {"compiler", "canceled"}

VARIABLES
    next,      \* the request the producer offers next
    producer,  \* "offer", "recording" or "exited"
    closed,    \* close(tasks)
    at,        \* where each compiler goroutine stands
    seq,       \* the request each compiler works on
    child,     \* each child process: "none", "reading", "compiling" or "exited"
    inbox,     \* the requests in each child's standard input
    stdinOpen, \* the parent's end of it is open
    outbox,    \* the responses in each child's standard output
    resp,      \* the responses; 0 is the zero value
    err        \* the error the errgroup recorded

parent == <<next, producer, closed, at, seq, resp, err>>
pipes == <<inbox, stdinOpen, outbox>>
vars == <<parent, child, pipes>>

\* min(len(reqs), max(1, concurrency))
Size ==
    LET wanted == IF Concurrency > 1 THEN Concurrency ELSE 1
    IN  IF Requests < wanted THEN Requests ELSE wanted

Compilers == 1 .. Size

\* The errgroup's context.
Cancelled == err # NoErr

\* The errgroup keeps the first error.
FirstOf(e) == err' = IF Cancelled THEN err ELSE e

-----------------------------------------------------------------------------

Init ==
    /\ next = 1
    /\ producer = "offer"
    /\ closed = FALSE
    /\ at = [c \in Compilers |-> "start"]
    /\ seq = [c \in Compilers |-> 0]
    /\ child = [c \in Compilers |-> "none"]
    /\ inbox = [c \in Compilers |-> <<>>]
    /\ stdinOpen = [c \in Compilers |-> TRUE]
    /\ outbox = [c \in Compilers |-> <<>>]
    /\ resp = [i \in 1 .. Requests |-> 0]
    /\ err = NoErr

Goto(c, from, to) == at[c] = from /\ at' = [at EXCEPT ![c] = to]

\* tasks <- tsk meets task, ok := <-tasks; even when the context is done.
Hand(c) ==
    /\ producer = "offer" /\ next <= Requests
    /\ Goto(c, "idle", "encode")
    /\ seq' = [seq EXCEPT ![c] = next]
    /\ next' = next + 1
    /\ UNCHANGED <<producer, closed, resp, err, child, pipes>>

\* BUG: the loop ends one request early.
CloseEarly ==
    /\ producer = "offer" /\ next >= Requests
    /\ closed' = TRUE
    /\ producer' = "exited"
    /\ UNCHANGED <<next, at, seq, resp, err, child, pipes>>

\* BUG: nobody closes the channel.
CloseNot ==
    /\ producer = "offer" /\ next > Requests
    /\ producer' = "exited"
    /\ UNCHANGED <<next, closed, at, seq, resp, err, child, pipes>>

\* All requests are handed over: the producer closes the channel.
Close ==
    /\ producer = "offer" /\ next > Requests
    /\ closed' = TRUE
    /\ producer' = "exited"
    /\ UNCHANGED <<next, at, seq, resp, err, child, pipes>>

\* case <-ctx.Done() of the producer: it returns ctx.Err(), the channel stays open.
GiveUp ==
    /\ producer = "offer" /\ next <= Requests
    /\ Cancelled
    /\ producer' = "recording"
    /\ UNCHANGED <<next, closed, at, seq, resp, err, child, pipes>>

RecordProducer ==
    /\ producer = "recording"
    /\ FirstOf("canceled")
    /\ producer' = "exited"
    /\ UNCHANGED <<next, closed, at, seq, resp, child, pipes>>

-----------------------------------------------------------------------------
(***************************************************************************)
(* A compiler goroutine.  Its deferred function closes the child's input   *)
(* and waits for the child; then the errgroup learns of the result.        *)
(***************************************************************************)

\* cmd.Start()
Start(c) ==
    /\ Goto(c, "start", "idle")
    /\ child' = [child EXCEPT ![c] = "reading"]
    /\ UNCHANGED <<next, producer, closed, seq, resp, err, pipes>>

\* A pipe or the child could not be made: there is no child to wait for.
StartFails(c) ==
    /\ Goto(c, "start", "failed")
    /\ UNCHANGED <<next, producer, closed, seq, resp, err, child, pipes>>

\* encoder.Encode(tsk.req)
Encode(c) ==
    /\ child[c] # "exited"
    /\ Goto(c, "encode", "decode")
    /\ inbox' = [inbox EXCEPT ![c] = Append(@, seq[c])]
    /\ UNCHANGED <<next, producer, closed, seq, resp, err, child, stdinOpen, outbox>>

\* BUG: the response goes where the next request will come from.
DecodeToNext(c) ==
    /\ outbox[c] # <<>>
    /\ Goto(c, "decode", "idle")
    /\ resp' = [resp EXCEPT ![IF next <= Requests THEN next ELSE seq[c]] = Head(outbox[c])]
    /\ outbox' = [outbox EXCEPT ![c] = Tail(@)]
    /\ UNCHANGED <<next, producer, closed, seq, err, child, inbox, stdinOpen>>

\* decoder.Decode(&resp[tsk.idx].RawMessage)
Decode(c) ==
    /\ outbox[c] # <<>>
    /\ Goto(c, "decode", "idle")
    /\ resp' = [resp EXCEPT ![seq[c]] = Head(outbox[c])]
    /\ outbox' = [outbox EXCEPT ![c] = Tail(@)]
    /\ UNCHANGED <<next, producer, closed, seq, err, child, inbox, stdinOpen>>

\* The function returns: the deferred stdinPipe.Close().
Leave(c, from, to) ==
    /\ Goto(c, from, to)
    /\ stdinOpen' = [stdinOpen EXCEPT ![c] = FALSE]
    /\ UNCHANGED <<next, producer, closed, seq, resp, err, child, inbox, outbox>>

\* The child has exited: a broken pipe while encoding, EOF while decoding.
Lost(c) ==
    /\ child[c] = "exited"
    /\ Leave(c, "encode", "reapError") \/ (outbox[c] = <<>> /\ Leave(c, "decode", "reapError"))

\* case <-ctx.Done() of the compiler.
Quit(c) == Cancelled /\ Leave(c, "idle", "reapCanceled")

\* The channel is closed: the compiler returns nil.
Drained(c) == closed /\ Leave(c, "idle", "reapNil")

\* BUG: the deferred function does not wait for the child.
ReapNot(c) ==
    /\ \/ Goto(c, "reapError", "failed")
       \/ Goto(c, "reapCanceled", "canceled")
       \/ Goto(c, "reapNil", "exited")
    /\ UNCHANGED <<next, producer, closed, seq, resp, err, child, pipes>>

\* cmd.Wait()
Reap(c) ==
    /\ child[c] = "exited"
    /\ \/ Goto(c, "reapError", "failed")
       \/ Goto(c, "reapCanceled", "canceled")
       \/ Goto(c, "reapNil", "exited")
    /\ UNCHANGED <<next, producer, closed, seq, resp, err, child, pipes>>

Record(c) ==
    /\ \/ Goto(c, "failed", "exited") /\ FirstOf("compiler")
       \/ Goto(c, "canceled", "exited") /\ FirstOf("canceled")
    /\ UNCHANGED <<next, producer, closed, seq, resp, child, pipes>>

-----------------------------------------------------------------------------
(***************************************************************************)
(* A child process.                                                        *)
(***************************************************************************)

\* decoder.Decode(&raw)
ChildReads(c) ==
    /\ child[c] = "reading" /\ inbox[c] # <<>>
    /\ child' = [child EXCEPT ![c] = "compiling"]
    /\ UNCHANGED <<parent, pipes>>

\* component.BuildPlan, then bp.Export(idx, encoder): one response per request.
ChildAnswers(c) ==
    /\ child[c] = "compiling"
    /\ outbox' = [outbox EXCEPT ![c] = Append(@, Head(inbox[c]))]
    /\ inbox' = [inbox EXCEPT ![c] = Tail(@)]
    /\ child' = [child EXCEPT ![c] = "reading"]
    /\ UNCHANGED <<parent, stdinOpen>>

\* The request cannot be read or compiled and Run returns an error, or the
\* process dies of itself, whatever it does.
ChildFails(c) ==
    /\ child[c] \in {"reading", "compiling"}
    /\ child' = [child EXCEPT ![c] = "exited"]
    /\ UNCHANGED <<parent, pipes>>

\* io.EOF
ChildEnds(c) ==
    /\ child[c] = "reading" /\ inbox[c] = <<>> /\ ~stdinOpen[c]
    /\ child' = [child EXCEPT ![c] = "exited"]
    /\ UNCHANGED <<parent, pipes>>

\* exec.CommandContext kills the child when the context is done.
ChildKilled(c) ==
    /\ child[c] \in {"reading", "compiling"} /\ Cancelled
    /\ child' = [child EXCEPT ![c] = "exited"]
    /\ UNCHANGED <<parent, pipes>>

-----------------------------------------------------------------------------

\* g.Wait() returns: Compile returns resp and err.
Returned == producer = "exited" /\ \A c \in Compilers : at[c] = "exited"

Produce == (\E c \in Compilers : Hand(c)) \/ Close \/ GiveUp \/ RecordProducer

Compiler(c) ==
    \/ Start(c) \/ StartFails(c) \/ Encode(c) \/ Decode(c) \/ Lost(c)
    \/ Quit(c) \/ Drained(c) \/ Reap(c) \/ Record(c)

Child(c) ==
    ChildReads(c) \/ ChildAnswers(c) \/ ChildFails(c) \/ ChildEnds(c) \/ ChildKilled(c)

Terminated == Returned /\ UNCHANGED vars

Next == Produce \/ (\E c \in Compilers : Compiler(c) \/ Child(c)) \/ Terminated

\* Goroutines and children go on; a compilation ends.
Spec ==
    /\ Init /\ [][Next]_vars
    /\ WF_vars(Produce)
    /\ \A c \in Compilers : WF_vars(Compiler(c)) /\ WF_vars(Child(c))

-----------------------------------------------------------------------------

\* Every variable keeps its type.
TypeOK ==
    /\ next \in 1 .. (Requests + 1)
    /\ producer \in {"offer", "recording", "exited"}
    /\ closed \in BOOLEAN
    /\ at \in [Compilers -> {"start", "idle", "encode", "decode", "failed", "canceled", "exited",
                            "reapError", "reapCanceled", "reapNil"}]
    /\ seq \in [Compilers -> 0 .. Requests]
    /\ child \in [Compilers -> {"none", "reading", "compiling", "exited"}]
    /\ inbox \in [Compilers -> Seq(0 .. Requests)]
    /\ outbox \in [Compilers -> Seq(0 .. Requests)]
    /\ stdinOpen \in [Compilers -> BOOLEAN]
    /\ resp \in [1 .. Requests -> 0 .. Requests]
    /\ err \in {NoErr, "compiler", "canceled"}

\* "Each input component maps to one output json object in the stream": the
\* pipes carry no index, so that the i-th response answers the i-th request
\* rests on one request being under way per child.
ResponsesMatch == \A i \in 1 .. Requests : resp[i] \in {0, i}

\* A nil error means that every component was compiled: show encodes all
\* responses without looking whether one is missing.
NilMeansAllCompiled ==
    Returned /\ err = NoErr => \A i \in 1 .. Requests : resp[i] = i

\* No child process outlives Compile.
NoOrphans == Returned => \A c \in Compilers : child[c] \in {"none", "exited"}
=============================================================================
