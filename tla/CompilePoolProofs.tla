-------------------------- MODULE CompilePoolProofs --------------------------
(***************************************************************************)
(* Proofs about the compile pool of src/internal/compile/compile.go for    *)
(* any number of requests and any concurrency, and that "show buildplans"  *)
(* around it (Show) keeps them.                                            *)
(***************************************************************************)
EXTENDS Show, FiniteSetTheorems, WellFoundedInduction, TLAPS

\* At most one message is under way between a compiler and its child, and it is
\* about the request the compiler works on.
PipeInv ==
    \A c \in Compilers :
        /\ inbox[c] \in {<<>>, <<seq[c]>>}
        /\ outbox[c] \in {<<>>, <<seq[c]>>}
        /\ inbox[c] = <<>> \/ outbox[c] = <<>>
        /\ at[c] \in {"start", "idle", "encode"} => inbox[c] = <<>> /\ outbox[c] = <<>>
        /\ child[c] = "compiling" => inbox[c] = <<seq[c]>>

\* A request that was handed over is answered, being worked on, or lost with a
\* compiler whose error is recorded or about to be.
RequestInv ==
    /\ \A c \in Compilers : at[c] \in {"encode", "decode"} => seq[c] \in 1 .. (next - 1)
    /\ \A i \in 1 .. (next - 1) :
          \/ resp[i] = i
          \/ Cancelled
          \/ \E c \in Compilers : seq[c] = i /\ at[c] \in {"encode", "decode", "reapError", "failed"}

\* Nobody leaves before the end unless the context is done.
EndInv ==
    /\ closed => next > Requests
    /\ producer = "recording" => Cancelled
    /\ producer = "exited" => next > Requests \/ Cancelled
    /\ \A c \in Compilers : at[c] \in {"reapCanceled", "canceled"} => Cancelled

\* A compiler starts its child and waits for it.
ChildInv ==
    \A c \in Compilers :
        /\ at[c] = "start" => child[c] = "none"
        /\ at[c] \in {"failed", "canceled", "exited"} => child[c] \in {"none", "exited"}

\* The inductive invariant.
IInv == TypeOK /\ PipeInv /\ RequestInv /\ EndInv /\ ChildInv /\ ResponsesMatch

-----------------------------------------------------------------------------

LEMMA SizeType == Size \in Nat /\ Requests \in Nat
BY PoolAssumption DEF Size

LEMMA InitIInv == Init => IInv
<1> SUFFICES ASSUME Init PROVE IInv
  OBVIOUS
<1> USE DEF Init
<1>0. <<>> \in Seq(0 .. Requests)
  OBVIOUS
<1>1. TypeOK
  <2>1. next \in 1 .. (Requests + 1) /\ 0 \in 0 .. Requests
    BY SizeType
  <2> QED
    BY <1>0, <2>1 DEF TypeOK
<1>2. PipeInv /\ EndInv /\ ChildInv
  BY DEF PipeInv, EndInv, ChildInv
<1>3. RequestInv /\ ResponsesMatch
  BY SizeType DEF RequestInv, ResponsesMatch
<1> QED
  BY <1>1, <1>2, <1>3 DEF IInv

\* The producer hands request next to an idle compiler, whose pipes are empty.
LEMMA HandIInv == ASSUME IInv, NEW c \in Compilers, Hand(c) PROVE IInv'
<1>0. /\ at[c] = "idle" /\ next \in 1 .. Requests /\ Requests \in Nat
      /\ at' = [at EXCEPT ![c] = "encode"] /\ seq' = [seq EXCEPT ![c] = next]
      /\ next' = next + 1
      /\ UNCHANGED <<producer, closed, resp, err, child, inbox, stdinOpen, outbox>>
  BY SizeType DEF IInv, TypeOK, Hand, Goto, pipes
<1>1. TypeOK'
  BY <1>0 DEF IInv, TypeOK
<1>2. PipeInv'
  <2>1. inbox[c] = <<>> /\ outbox[c] = <<>> /\ child[c] # "compiling"
    BY <1>0 DEF IInv, PipeInv
  <2> QED
    BY <1>0, <2>1 DEF IInv, TypeOK, PipeInv
<1>3. RequestInv'
  <2>1. \A d \in Compilers : at'[d] \in {"encode", "decode"} => seq'[d] \in 1 .. (next' - 1)
    BY <1>0 DEF IInv, TypeOK, RequestInv
  <2>2. ASSUME NEW i \in 1 .. (next - 1), resp[i] # i, ~Cancelled
        PROVE  \E d \in Compilers :
                  seq'[d] = i /\ at'[d] \in {"encode", "decode", "reapError", "failed"}
    <3>1. PICK d \in Compilers :
             seq[d] = i /\ at[d] \in {"encode", "decode", "reapError", "failed"}
      BY <2>2 DEF IInv, RequestInv
    <3>2. d # c
      BY <1>0, <3>1
    <3> QED
      BY <1>0, <3>1, <3>2 DEF IInv, TypeOK
  <2>3. seq'[c] = next /\ at'[c] = "encode"
    BY <1>0 DEF IInv, TypeOK
  <2>4. \A i \in 1 .. (next' - 1) : i = next \/ i \in 1 .. (next - 1)
    BY <1>0
  <2>5. Cancelled' = Cancelled
    BY <1>0 DEF Cancelled
  <2> QED
    BY <1>0, <2>1, <2>2, <2>3, <2>4, <2>5 DEF RequestInv
<1>4. EndInv' /\ ChildInv' /\ ResponsesMatch'
  BY <1>0 DEF IInv, TypeOK, EndInv, ChildInv, ResponsesMatch, Cancelled, Hand
<1> QED
  BY <1>1, <1>2, <1>3, <1>4 DEF IInv

\* The producer ends.
LEMMA ProducerIInv == ASSUME IInv, Close \/ GiveUp \/ RecordProducer PROVE IInv'
<1>0. /\ UNCHANGED <<next, at, seq, resp, child, inbox, stdinOpen, outbox>>
      /\ Cancelled => Cancelled'
      /\ closed' => closed \/ next > Requests
      /\ producer' = "recording" => Cancelled'
      /\ producer' = "exited" => next > Requests \/ Cancelled'
  BY PoolAssumption DEF IInv, EndInv, Close, GiveUp, RecordProducer, FirstOf, Cancelled, pipes
<1>1. TypeOK'
  BY <1>0 DEF IInv, TypeOK, Close, GiveUp, RecordProducer, FirstOf
<1>2. RequestInv'
  BY <1>0 DEF IInv, RequestInv
<1>3. PipeInv' /\ EndInv' /\ ChildInv' /\ ResponsesMatch'
  BY <1>0 DEF IInv, PipeInv, EndInv, ChildInv, ResponsesMatch
<1> QED
  BY <1>1, <1>2, <1>3 DEF IInv

\* The compiler sends its request to the child.
LEMMA EncodeIInv == ASSUME IInv, NEW c \in Compilers, Encode(c) PROVE IInv'
<1>0. /\ at[c] = "encode" /\ at' = [at EXCEPT ![c] = "decode"]
      /\ inbox' = [inbox EXCEPT ![c] = Append(@, seq[c])]
      /\ UNCHANGED <<next, producer, closed, seq, resp, err, child, stdinOpen, outbox>>
  BY DEF Encode, Goto
<1>1. inbox[c] = <<>> /\ outbox[c] = <<>> /\ inbox'[c] = <<seq[c]>>
  <2>1. inbox[c] = <<>> /\ outbox[c] = <<>>
    BY <1>0 DEF IInv, PipeInv
  <2>2. inbox'[c] = Append(<<>>, seq[c])
    BY <1>0, <2>1 DEF IInv, TypeOK
  <2> QED
    BY <2>1, <2>2
<1>2. TypeOK'
  BY <1>0 DEF IInv, TypeOK
<1>3. PipeInv'
  BY <1>0, <1>1 DEF IInv, TypeOK, PipeInv
<1>4. RequestInv'
  BY <1>0 DEF IInv, TypeOK, RequestInv, Cancelled
<1>5. EndInv' /\ ChildInv' /\ ResponsesMatch'
  BY <1>0 DEF IInv, TypeOK, EndInv, ChildInv, ResponsesMatch, Cancelled
<1> QED
  BY <1>2, <1>3, <1>4, <1>5 DEF IInv

\* The response that is there answers the request the compiler works on.
LEMMA DecodeIInv == ASSUME IInv, NEW c \in Compilers, Decode(c) PROVE IInv'
<1>0. /\ at[c] = "decode" /\ at' = [at EXCEPT ![c] = "idle"]
      /\ resp' = [resp EXCEPT ![seq[c]] = Head(outbox[c])]
      /\ outbox' = [outbox EXCEPT ![c] = Tail(@)]
      /\ outbox[c] # <<>>
      /\ UNCHANGED <<next, producer, closed, seq, err, child, inbox, stdinOpen>>
  BY DEF Decode, Goto
<1>1. outbox[c] = <<seq[c]>> /\ inbox[c] = <<>>
  BY <1>0 DEF IInv, PipeInv
<1>2. Head(outbox[c]) = seq[c] /\ Tail(outbox[c]) = <<>>
  BY <1>1
<1>3. seq[c] \in 1 .. (next - 1) /\ next \in 1 .. (Requests + 1) /\ Requests \in Nat
  BY <1>0, SizeType DEF IInv, RequestInv, TypeOK
<1>4. TypeOK'
  <2>1. resp' \in [1 .. Requests -> 0 .. Requests]
    <3>1. Head(outbox[c]) \in 0 .. Requests
      BY <1>2, <1>3
    <3>2. resp \in [1 .. Requests -> 0 .. Requests]
      BY DEF IInv, TypeOK
    <3> QED
      BY <1>0, <3>1, <3>2
  <2>2. outbox' \in [Compilers -> Seq(0 .. Requests)]
    <3>0. <<>> \in Seq(0 .. Requests)
      OBVIOUS
    <3>1. Tail(outbox[c]) \in Seq(0 .. Requests)
      BY <1>2, <3>0, Zenon
    <3>2. outbox \in [Compilers -> Seq(0 .. Requests)]
      BY DEF IInv, TypeOK
    <3> QED
      BY <1>0, <3>1, <3>2
  <2>3. at' \in [Compilers -> {"start", "idle", "encode", "decode", "failed", "canceled", "exited",
                               "reapError", "reapCanceled", "reapNil"}]
    BY <1>0 DEF IInv, TypeOK
  <2> QED
    BY <1>0, <2>1, <2>2, <2>3 DEF IInv, TypeOK
<1>5. PipeInv'
  <2>1. at'[c] = "idle" /\ outbox'[c] = <<>> /\ inbox'[c] = <<>>
    BY <1>0, <1>1, <1>2 DEF IInv, TypeOK
  <2>2. \A d \in Compilers \ {c} : at'[d] = at[d] /\ outbox'[d] = outbox[d]
    BY <1>0 DEF IInv, TypeOK
  <2> QED
    BY <1>0, <2>1, <2>2 DEF IInv, PipeInv
<1>6. RequestInv'
  <2>1. \A d \in Compilers : at'[d] \in {"encode", "decode"} => seq'[d] \in 1 .. (next' - 1)
    BY <1>0 DEF IInv, TypeOK, RequestInv
  <2>2. ASSUME NEW i \in 1 .. (next - 1), resp'[i] # i, ~Cancelled
        PROVE  \E d \in Compilers :
                  seq'[d] = i /\ at'[d] \in {"encode", "decode", "reapError", "failed"}
    <3>1. i # seq[c] /\ resp[i] # i
      BY <1>0, <1>2, <1>3, <2>2 DEF IInv, TypeOK
    <3>2. PICK d \in Compilers :
             seq[d] = i /\ at[d] \in {"encode", "decode", "reapError", "failed"}
      BY <2>2, <3>1 DEF IInv, RequestInv
    <3> QED
      BY <1>0, <3>1, <3>2 DEF IInv, TypeOK
  <2>3. Cancelled' = Cancelled
    BY <1>0 DEF Cancelled
  <2> QED
    BY <1>0, <2>1, <2>2, <2>3 DEF RequestInv
<1>7. ResponsesMatch'
  BY <1>0, <1>2, <1>3 DEF IInv, TypeOK, ResponsesMatch
<1>8. EndInv' /\ ChildInv'
  BY <1>0 DEF IInv, TypeOK, EndInv, ChildInv, Cancelled
<1> QED
  BY <1>4, <1>5, <1>6, <1>7, <1>8 DEF IInv

\* A compiler starts, leaves its loop, waits for its child, or ends; its pipes
\* and the responses stay as they are.
LEMMA CompilerIInv ==
    ASSUME IInv, NEW c \in Compilers,
           Start(c) \/ StartFails(c) \/ Lost(c) \/ Quit(c) \/ Drained(c) \/ Reap(c) \/ Record(c)
    PROVE  IInv'
<1>0. PICK to \in {"idle", "failed", "canceled", "exited",
                   "reapError", "reapCanceled", "reapNil"} :
        /\ at' = [at EXCEPT ![c] = to]
        /\ at[c] \notin {"exited"}
        /\ to = "idle" => at[c] = "start"
        /\ at[c] \in {"encode", "decode"} => to = "reapError"
        /\ at[c] = "reapError" => to = "failed"
        /\ at[c] = "failed" => Cancelled'
        /\ to \in {"reapCanceled", "canceled"} => Cancelled'
        /\ to \in {"failed", "canceled", "exited"} => child'[c] \in {"none", "exited"}
        /\ UNCHANGED <<next, producer, closed, seq, resp, inbox, outbox>>
        /\ child' = child \/ (child' = [child EXCEPT ![c] = "reading"] /\ to = "idle")
        /\ Cancelled => Cancelled'
        /\ err' \in {err, "compiler", "canceled"}
        /\ stdinOpen' \in [Compilers -> BOOLEAN]
  <2> USE DEF IInv, TypeOK, Goto
  <2>1. CASE Start(c)
    BY <2>1 DEF Start, pipes, Cancelled
  <2>2. CASE StartFails(c)
    BY <2>2 DEF ChildInv, StartFails, pipes, Cancelled
  <2>3. CASE Lost(c)
    BY <2>3 DEF Lost, Leave, Cancelled
  <2>4. CASE Quit(c)
    BY <2>4 DEF Quit, Leave, Cancelled
  <2>5. CASE Drained(c)
    BY <2>5 DEF Drained, Leave, Cancelled
  <2>6. CASE Reap(c)
    BY <2>6 DEF Reap, EndInv, pipes, Cancelled
  <2>7. CASE Record(c)
    BY <2>7, PoolAssumption DEF Record, FirstOf, ChildInv, pipes, Cancelled
  <2> QED
    BY <2>1, <2>2, <2>3, <2>4, <2>5, <2>6, <2>7
<1>1. TypeOK'
  BY <1>0 DEF IInv, TypeOK
<1>2. PipeInv'
  BY <1>0 DEF IInv, TypeOK, PipeInv
<1>3. RequestInv'
  BY <1>0 DEF IInv, TypeOK, RequestInv
<1>4. EndInv'
  BY <1>0 DEF IInv, TypeOK, EndInv
<1>5. ChildInv' /\ ResponsesMatch'
  BY <1>0 DEF IInv, TypeOK, ChildInv, ResponsesMatch
<1> QED
  BY <1>1, <1>2, <1>3, <1>4, <1>5 DEF IInv

\* The child reads, answers, or exits.
LEMMA ChildIInv == ASSUME IInv, NEW c \in Compilers, Child(c) PROVE IInv'
<1>0. /\ UNCHANGED <<next, producer, closed, at, seq, resp, err, stdinOpen>>
      /\ child[c] \in {"reading", "compiling"}
      /\ child' \in [Compilers -> {"none", "reading", "compiling", "exited"}]
      /\ \A d \in Compilers \ {c} : child'[d] = child[d]
  BY DEF IInv, TypeOK, Child, ChildReads, ChildAnswers, ChildFails, ChildEnds, ChildKilled,
         parent, pipes
<1>1. TypeOK' /\ PipeInv'
  <2>1. CASE ChildAnswers(c)
    <3>1. inbox[c] = <<seq[c]>> /\ outbox[c] = <<>>
      BY <2>1 DEF IInv, PipeInv, ChildAnswers
    <3>2. Head(inbox[c]) = seq[c] /\ Tail(inbox[c]) = <<>>
      BY <3>1
    <3>3. /\ outbox' = [outbox EXCEPT ![c] = <<seq[c]>>]
          /\ inbox' = [inbox EXCEPT ![c] = <<>>]
          /\ child' = [child EXCEPT ![c] = "reading"]
      BY <2>1, <3>1, <3>2 DEF IInv, TypeOK, ChildAnswers
    <3>4. TypeOK'
      BY <1>0, <3>3 DEF IInv, TypeOK
    <3>5. at[c] \notin {"start", "idle", "encode"}
      BY <3>1 DEF IInv, PipeInv
    <3>6. PipeInv'
      BY <1>0, <3>3, <3>5 DEF IInv, TypeOK, PipeInv
    <3> QED
      BY <3>4, <3>6
  <2>2. CASE ChildReads(c) \/ ChildFails(c) \/ ChildEnds(c) \/ ChildKilled(c)
    <3>1. UNCHANGED <<inbox, outbox>>
      BY <2>2 DEF ChildReads, ChildFails, ChildEnds, ChildKilled, pipes
    <3>2. child'[c] = "compiling" => inbox[c] = <<seq[c]>>
      BY <2>2 DEF IInv, TypeOK, PipeInv, ChildReads, ChildFails, ChildEnds, ChildKilled
    <3>3. TypeOK'
      BY <1>0, <3>1 DEF IInv, TypeOK
    <3>4. PipeInv'
      BY <1>0, <3>1, <3>2 DEF IInv, PipeInv
    <3> QED
      BY <3>3, <3>4
  <2> QED
    BY <2>1, <2>2 DEF Child
<1>2. RequestInv' /\ EndInv' /\ ResponsesMatch'
  BY <1>0 DEF IInv, RequestInv, EndInv, ResponsesMatch, Cancelled
<1>3. ChildInv'
  BY <1>0 DEF IInv, ChildInv
<1> QED
  BY <1>1, <1>2, <1>3 DEF IInv

THEOREM Inductive == Init /\ [][Next]_vars => []IInv
<1>1. IInv /\ [Next]_vars => IInv'
  <2> SUFFICES ASSUME IInv, [Next]_vars PROVE IInv'
    OBVIOUS
  <2>1. CASE UNCHANGED vars
    BY <2>1 DEF vars, parent, pipes, IInv, TypeOK, PipeInv, RequestInv, EndInv, ChildInv,
                ResponsesMatch, Cancelled
  <2>2. CASE Produce
    BY <2>2, HandIInv, ProducerIInv DEF Produce
  <2>3. ASSUME NEW c \in Compilers, Compiler(c) PROVE IInv'
    BY <2>3, EncodeIInv, DecodeIInv, CompilerIInv DEF Compiler
  <2>4. ASSUME NEW c \in Compilers, Child(c) PROVE IInv'
    BY <2>4, ChildIInv
  <2> QED
    BY <2>1, <2>2, <2>3, <2>4 DEF Next, Terminated
<1> QED
  BY <1>1, InitIInv, PTL

\* The i-th response answers the i-th request, though the pipes carry no index.
THEOREM ResponsesMatchHolds == Spec => []ResponsesMatch
<1>1. IInv => ResponsesMatch
  BY DEF IInv
<1> QED
  BY <1>1, Inductive, PTL DEF Spec

\* With a nil error the producer came to the end and nobody has lost a request.
LEMMA NilMeansAllCompiledStep == IInv => NilMeansAllCompiled
<1>1. ASSUME IInv, Returned, err = NoErr, NEW i \in 1 .. Requests PROVE resp[i] = i
  <2>1. ~Cancelled /\ next > Requests
    BY <1>1 DEF IInv, EndInv, Returned, Cancelled
  <2>2. i \in 1 .. (next - 1)
    BY <1>1, <2>1, SizeType DEF IInv, TypeOK
  <2>3. \A c \in Compilers : at[c] = "exited"
    BY <1>1 DEF Returned
  <2> QED
    BY <1>1, <2>1, <2>2, <2>3 DEF IInv, RequestInv
<1> QED
  BY <1>1 DEF NilMeansAllCompiled

\* Compile returns nil only with a response for every request.
THEOREM NilMeansAllCompiledHolds == Spec => []NilMeansAllCompiled
  BY NilMeansAllCompiledStep, Inductive, PTL DEF Spec

\* Compile returns after all its children.
THEOREM NoOrphansHolds == Spec => []NoOrphans
<1>1. IInv => NoOrphans
  BY DEF IInv, ChildInv, NoOrphans, Returned
<1> QED
  BY <1>1, Inductive, PTL DEF Spec
-----------------------------------------------------------------------------

LEMMA ShowStep == [ShowNext]_showVars => [Next]_vars
<1> SUFFICES ASSUME [ShowNext]_showVars PROVE [Next]_vars
  OBVIOUS
<1>1. CASE Pool
  <2>1. ASSUME NEW c \in Compilers, ShowChild(c) PROVE Child(c)
    BY <2>1, Zenon DEF ShowChild, Answer, Child
  <2> QED
    BY <1>1, <2>1, Zenon DEF Pool, Next
<1>2. CASE Command \/ ShowTerminated \/ UNCHANGED showVars
  BY <1>2, Zenon DEF Command, BadFlag, Request, Compiled, ShowOne, ShowFails, ShowEnds, To,
                     ShowTerminated, showVars
<1> QED
  BY <1>1, <1>2, Zenon DEF ShowNext

\* Around the pool, "show buildplans" takes only steps of CompilePool.
THEOREM ShowImplementsPool == ShowSpec => Init /\ [][Next]_vars
<1>1. ShowInit => Init
  BY DEF ShowInit
<1> QED
  BY <1>1, ShowStep, PTL DEF ShowSpec

\* What show prints are the responses of a pool that answered every request
\* with its own response, or none are printed, and no child is left.
THEOREM ShowSafety == ShowSpec => [](ResponsesMatch /\ NilMeansAllCompiled /\ NoOrphans)
<1>1. IInv => ResponsesMatch /\ NoOrphans
  BY DEF IInv, ChildInv, NoOrphans, Returned
<1>2. IInv => NilMeansAllCompiled
  BY NilMeansAllCompiledStep
<1> QED
  BY <1>1, <1>2, Inductive, ShowImplementsPool, PTL
-----------------------------------------------------------------------------
(***************************************************************************)
(* What "show buildplans" prints.  The positions Select gives are those of *)
(* the selected components in increasing order, and a flag with distinct   *)
(* keys selects what its terms say.                                        *)
(***************************************************************************)

\* A finite set of numbers has a greatest one.
LEMMA GreatestExists ==
    ASSUME NEW n \in Nat, NEW S \in SUBSET (1 .. n), S # {}
    PROVE  Max(S) \in S
<1> DEFINE Below == {n - x : x \in S}
<1>1. Below \subseteq Nat /\ Below # {}
  <2>1. \A x \in S : x \in Int /\ x <= n
    OBVIOUS
  <2>2. \A x \in S : n - x \in Nat
    BY <2>1
  <2> QED
    BY <2>2
<1>2. \E d \in Below : \A e \in Below : ~(<<e, d>> \in OpToRel(<, Nat))
  BY <1>1, WFMin, NatLessThanWellFounded
<1>3. PICK d \in Below : \A e \in Below : ~(<<e, d>> \in OpToRel(<, Nat))
  BY <1>2
<1>4. \A e \in Below : ~(e < d)
  BY <1>1, <1>3 DEF OpToRel
<1>5. PICK x \in S : d = n - x
  OBVIOUS
<1>6. ASSUME NEW y \in S PROVE x >= y
  <2>1. n - y \in Below /\ ~(n - y < n - x)
    BY <1>4, <1>5
  <2> QED
    BY <2>1
<1> QED
  BY <1>6 DEF Max

\* Selector.Set and IsSelected agree with the terms of the flag.
LEMMA SelectorMeans ==
    ASSUME NEW terms, terms \in Seq(Range(terms)), SetSelector(terms).ok, NEW labels,
           \A t, u \in Range(terms) : t.op = u.op /\ t.key = u.key => t.value = u.value
    PROVE  SelectorSelects(SetSelector(terms), labels) <=> Meant(terms, labels)
<1> DEFINE Keys(op) == {t.key : t \in {u \in Range(terms) : u.op = op}}
           s == SetSelector(terms)
<1>1. /\ s.positive = [key \in Keys("=") |-> LastValue(terms, "=", key)]
      /\ s.negative = [key \in Keys("!=") |-> LastValue(terms, "!=", key)]
      /\ \A t \in Range(terms) : t.op \in {"=", "!="}
  BY Zenon DEF SetSelector
<1>2. ASSUME NEW t \in Range(terms) PROVE LastValue(terms, t.op, t.key) = t.value
  <2>1. Len(terms) \in Nat /\ DOMAIN terms = 1 .. Len(terms)
    OBVIOUS
  <2> DEFINE places == {i \in DOMAIN terms : terms[i].op = t.op /\ terms[i].key = t.key}
  <2>2. places # {} /\ places \in SUBSET (1 .. Len(terms))
    BY <2>1 DEF Range
  <2>3. Max(places) \in places
    BY <2>1, <2>2, GreatestExists
  <2>4. terms[Max(places)] \in Range(terms) /\ terms[Max(places)].op = t.op /\ terms[Max(places)].key = t.key
    BY <2>3 DEF Range
  <2>5. terms[Max(places)].value = t.value
    BY <2>4
  <2> QED
    BY <2>5 DEF LastValue
<1>3. ASSUME NEW op, NEW f, f = [key \in Keys(op) |-> LastValue(terms, op, key)]
      PROVE  /\ (\A k \in DOMAIN f : Has(labels, k, f[k]))
                 <=> \A t \in Range(terms) : t.op = op => Has(labels, t.key, t.value)
             /\ (\A k \in DOMAIN f : ~Has(labels, k, f[k]))
                 <=> \A t \in Range(terms) : t.op = op => ~Has(labels, t.key, t.value)
  <2>1. \A t \in Range(terms) : t.op = op => t.key \in Keys(op)
    OBVIOUS
  <2>2. \A k \in Keys(op) : \E t \in Range(terms) : t.op = op /\ t.key = k
    OBVIOUS
  <2> HIDE DEF Keys
  <2>3. DOMAIN f = Keys(op)
    BY <1>3
  <2>4. ASSUME NEW t \in Range(terms), t.op = op PROVE f[t.key] = t.value
    BY <1>2, <1>3, <2>1, <2>4, Zenon
  <2> QED
    BY <2>1, <2>2, <2>3, <2>4
<1> HIDE DEF s, Keys
<1>4. Meant(terms, labels) <=>
          /\ \A t \in Range(terms) : t.op = "=" => Has(labels, t.key, t.value)
          /\ \A t \in Range(terms) : t.op = "!=" => ~Has(labels, t.key, t.value)
  BY <1>1 DEF Meant
<1>5. /\ (\A k \in DOMAIN s.positive : Has(labels, k, s.positive[k]))
          <=> \A t \in Range(terms) : t.op = "=" => Has(labels, t.key, t.value)
      /\ (\A k \in DOMAIN s.negative : ~Has(labels, k, s.negative[k]))
          <=> \A t \in Range(terms) : t.op = "!=" => ~Has(labels, t.key, t.value)
  BY <1>1, <1>3, Zenon
<1> QED
  BY <1>4, <1>5, Zenon DEF SelectorSelects, s

\* The flags select the components a user expects.
LEMMA SelectedAreExpected ==
    ASSUME flags \in Flags, Parsed, KeysDistinct, NEW i \in DOMAIN platform
    PROVE  IsSelected(platform[i].labels, Selectors) <=> i \in Expected
<1>1. flags \in Seq(Range(flags)) /\ \A terms \in Range(flags) : terms \in Seq(Range(terms))
  BY ShowAssumption
<1>2. Selectors = [j \in DOMAIN flags |-> SetSelector(flags[j])]
  BY DEF Selectors
<1>3. DOMAIN flags = 1 .. Len(flags) /\ Len(flags) \in Nat
  BY <1>1
<1>4. Selectors = <<>> <=> flags = <<>>
  BY <1>1, <1>2, <1>3
<1>5. ASSUME NEW j \in DOMAIN flags
      PROVE  SelectorSelects(Selectors[j], platform[i].labels) <=> Meant(flags[j], platform[i].labels)
  <2>1. flags[j] \in Range(flags) /\ Selectors[j] \in Range(Selectors) /\ Selectors[j] = SetSelector(flags[j])
    BY <1>2 DEF Range
  <2> QED
    BY <1>1, <2>1, SelectorMeans DEF Parsed, KeysDistinct
<1>6. DOMAIN Selectors = DOMAIN flags
  BY <1>2
<1>7. (\E s \in Range(Selectors) : SelectorSelects(s, platform[i].labels))
      <=> \E terms \in Range(flags) : Meant(terms, platform[i].labels)
  BY <1>5, <1>6 DEF Range
<1> QED
  BY <1>4, <1>7 DEF IsSelected, Expected

\* How many elements of a set of numbers are not above i.
Rank(S, i) == Cardinality({k \in S : k <= i})

\* The ranks of the elements of S are the numbers from 1 to m, in their order.
Ranked(S, m) ==
    /\ \A i \in S : Rank(S, i) \in 1 .. m
    /\ \A i, j \in S : i < j => Rank(S, i) < Rank(S, j)
    /\ \A i, j \in S : Rank(S, i) = Rank(S, j) => i = j
    /\ \A j \in 1 .. m : \E i \in S : Rank(S, i) = j

\* The j-th element of a finite set of numbers is the one of rank j: there is one
\* for each j, and ranks grow with the elements.
LEMMA RanksAreOnto ==
    ASSUME NEW n \in Nat, NEW S \in SUBSET (1 .. n)
    PROVE  IsFiniteSet(S) /\ Cardinality(S) \in Nat /\ Ranked(S, Cardinality(S))
<1>1. IsFiniteSet(S) /\ Cardinality(S) \in Nat /\ S \subseteq Int
  <2>1. IsFiniteSet(1 .. n)
    BY FS_Interval
  <2>2. IsFiniteSet(S)
    BY <2>1, FS_Subset
  <2>3. Cardinality(S) \in Nat
    BY <2>2, FS_CardinalityType
  <2>4. S \subseteq Int
    OBVIOUS
  <2> QED
    BY <2>2, <2>3, <2>4
<1>2. ASSUME NEW i \in S PROVE Rank(S, i) \in 1 .. Cardinality(S)
  <2> DEFINE low == {k \in S : k <= i}
  <2>1. low \in SUBSET S /\ i \in low
    BY <1>1
  <2>2. IsFiniteSet(low) /\ Cardinality(low) <= Cardinality(S) /\ Cardinality(low) \in Nat
    BY <1>1, <2>1, FS_Subset, FS_CardinalityType
  <2>3. Cardinality(low) # 0
    BY <2>1, <2>2, FS_EmptySet
  <2> HIDE DEF low
  <2>4. Cardinality(low) \in 1 .. Cardinality(S)
    BY <1>1, <2>2, <2>3
  <2> QED
    BY <2>4 DEF Rank, low
<1>3. ASSUME NEW i \in S, NEW j \in S, i < j PROVE Rank(S, i) < Rank(S, j)
  <2> DEFINE low == {k \in S : k <= i}
             high == {k \in S : k <= j}
  <2>1. high \in SUBSET S /\ low \in SUBSET high /\ j \in high /\ j \notin low
    <3>1. \A k \in S : k <= i => k <= j
      BY <1>1, <1>3
    <3>2. j <= j /\ ~(j <= i)
      BY <1>1, <1>3
    <3> QED
      BY <3>1, <3>2
  <2>2. IsFiniteSet(high)
    BY <1>1, <2>1, FS_Subset
  <2>3. /\ Cardinality(low) \in Nat /\ Cardinality(high) \in Nat
        /\ Cardinality(low) <= Cardinality(high) /\ Cardinality(low) # Cardinality(high)
    BY <2>1, <2>2, FS_Subset, FS_CardinalityType
  <2> HIDE DEF low, high
  <2>4. Cardinality(low) < Cardinality(high)
    BY <2>3
  <2> QED
    BY <2>4 DEF Rank, low, high
<1>4. ASSUME NEW i \in S, NEW j \in S, Rank(S, i) = Rank(S, j) PROVE i = j
  <2>1. Rank(S, i) \in Int /\ i \in Int /\ j \in Int
    BY <1>1, <1>2
  <2>2. ~(i < j) /\ ~(j < i)
    BY <1>3, <1>4, <2>1
  <2> QED
    BY <2>1, <2>2
<1>5. PICK m \in Nat : m = Cardinality(S)
  BY <1>1
<1>6. IsFiniteSet(1 .. m) /\ Cardinality(1 .. m) = m
  BY FS_Interval
<1> DEFINE rank == [i \in S |-> Rank(S, i)]
<1>7. rank \in Injection(S, 1 .. m)
  BY <1>2, <1>4, <1>5 DEF Injection, IsInjective
<1>8. rank \in Surjection(S, 1 .. m)
  BY <1>5, <1>6, <1>7, FS_Injection
<1>9. \A j \in 1 .. m : \E i \in S : Rank(S, i) = j
  BY <1>8 DEF Surjection
<1> QED
  BY <1>1, <1>2, <1>3, <1>4, <1>5, <1>9 DEF Ranked

\* The elements of a set of numbers in increasing order.
Enumerates(s, S) ==
    /\ DOMAIN s = 1 .. Len(s) /\ Len(s) \in Nat
    /\ \A j \in DOMAIN s : s[j] \in S /\ {i \in S : i < s[j]} = {s[k] : k \in 1 .. (j - 1)}
    /\ S = {s[j] : j \in DOMAIN s}

\* Platform.Select gives the selected components in the order of the platform.
LEMMA SelectIsOrdered ==
    ASSUME NEW components, components \in Seq(Range(components)), NEW selectors
    PROVE  Enumerates(Select(components, selectors),
                      {i \in DOMAIN components : IsSelected(components[i].labels, selectors)})
<1>0. PICK S, s : /\ S = {i \in DOMAIN components : IsSelected(components[i].labels, selectors)}
                  /\ s = Select(components, selectors)
  OBVIOUS
<1>1. S \in SUBSET (1 .. Len(components)) /\ Len(components) \in Nat
  BY <1>0
<1>a. PICK m : m \in Nat /\ m = Cardinality(S) /\ Ranked(S, m)
  BY <1>1, RanksAreOnto, Zenon
<1>2. /\ m \in Nat /\ m = Cardinality(S)
      /\ \A i \in S : Rank(S, i) \in 1 .. m
      /\ \A i, j \in S : i < j => Rank(S, i) < Rank(S, j)
      /\ \A i, j \in S : Rank(S, i) = Rank(S, j) => i = j
      /\ \A j \in 1 .. m : \E i \in S : Rank(S, i) = j
  BY <1>a, Zenon DEF Ranked
<1>3. s = [j \in 1 .. m |-> CHOOSE i \in S : Rank(S, i) = j]
  BY <1>0, <1>2 DEF Select, Rank
<1>4. DOMAIN s = 1 .. m /\ Len(s) = m
  BY <1>2, <1>3
<1>5. ASSUME NEW j \in 1 .. m PROVE s[j] \in S /\ Rank(S, s[j]) = j
  <2>1. \E i \in S : Rank(S, i) = j
    BY <1>2
  <2> QED
    BY <1>3, <2>1
<1>6. ASSUME NEW i \in S PROVE Rank(S, i) \in 1 .. m /\ s[Rank(S, i)] = i
  <2>1. Rank(S, i) \in 1 .. m
    BY <1>2
  <2>2. s[Rank(S, i)] \in S /\ Rank(S, s[Rank(S, i)]) = Rank(S, i)
    BY <1>5, <2>1
  <2> QED
    BY <1>2, <2>1, <2>2
<1>7. ASSUME NEW j \in 1 .. m PROVE {i \in S : i < s[j]} = {s[k] : k \in 1 .. (j - 1)}
  <2>1. PICK x \in S : x = s[j] /\ Rank(S, x) = j
    BY <1>5
  <2>2. S \subseteq Int
    BY <1>1
  <2>3. ASSUME NEW i \in S, i < x PROVE i \in {s[k] : k \in 1 .. (j - 1)}
    <3>1. Rank(S, i) < j
      BY <1>2, <2>1, <2>3
    <3>2. Rank(S, i) \in 1 .. (j - 1) /\ s[Rank(S, i)] = i
      BY <1>6, <3>1
    <3> QED
      BY <3>2
  <2>4. ASSUME NEW k \in 1 .. (j - 1) PROVE s[k] \in S /\ s[k] < x
    <3>1. k \in 1 .. m /\ k < j
      BY <1>2
    <3>2. PICK y \in S : y = s[k] /\ Rank(S, y) = k
      BY <1>5, <3>1
    <3>3. ~(x < y)
      BY <1>2, <2>1, <3>1, <3>2
    <3>4. x # y
      BY <2>1, <3>1, <3>2
    <3> QED
      BY <2>2, <3>2, <3>3, <3>4
  <2> QED
    BY <2>1, <2>3, <2>4
<1>8. S = {s[j] : j \in 1 .. m}
  BY <1>5, <1>6
<1>9. Enumerates(s, S)
  BY <1>2, <1>4, <1>5, <1>7, <1>8, Zenon DEF Enumerates
<1> QED
  BY <1>0, <1>9, Zenon

-----------------------------------------------------------------------------

\* The command compiles, then prints what it selected from the first on; nothing
\* is printed before Compile has returned nil.
PrintInv ==
    /\ platform \in Platforms /\ flags \in Flags
    /\ Parsed => Len(Selected) = Requests
    /\ phase \in {"flags", "compile", "print", "nil", "error"}
    /\ phase \in {"flags", "compile"} => printed = <<>>
    /\ phase \in {"compile", "print", "nil"} \/ printed # <<>> => Parsed
    /\ phase \in {"print", "nil"} \/ printed # <<>> => Returned /\ err = NoErr
    /\ DOMAIN printed = 1 .. Len(printed)
    /\ Len(printed) \in 0 .. Requests
    /\ \A j \in DOMAIN printed : printed[j] = Selected[j]
    /\ phase = "nil" => Len(printed) = Requests

\* Flags and platform do not change, and neither does anything that is computed
\* from them.
LEMMA InputStays ==
    ASSUME UNCHANGED input
    PROVE  Parsed' = Parsed /\ Selected' = Selected
<1>1. platform' = platform /\ flags' = flags
  BY DEF input
<1>2. Selectors' = Selectors
  BY <1>1 DEF Selectors
<1> QED
  BY <1>1, <1>2 DEF Parsed, Selected

LEMMA ShowInitPrintInv == ShowInit => PrintInv
<1> SUFFICES ASSUME ShowInit PROVE PrintInv
  OBVIOUS
<1>1. printed = <<>> /\ phase = "flags" /\ DOMAIN printed = {} /\ Len(printed) = 0
  BY DEF ShowInit
<1> QED
  BY <1>1, SizeType DEF ShowInit, PrintInv

LEMMA ShowNextPrintInv == ASSUME IInv, PrintInv, [ShowNext]_showVars PROVE PrintInv'
<1>0. UNCHANGED input
  BY DEF ShowNext, Command, BadFlag, Request, Compiled, ShowOne, ShowFails, ShowEnds, To,
         Pool, Compiling, ShowTerminated, showVars
<1>1. Parsed' = Parsed /\ Selected' = Selected /\ platform' = platform /\ flags' = flags
  BY <1>0, InputStays DEF input
<1>2. CASE Pool
  <2>1. phase = "compile" /\ phase' = phase /\ printed' = printed
    BY <1>2 DEF Pool, Compiling
  <2> QED
    BY <1>1, <2>1 DEF PrintInv
<1>3. CASE UNCHANGED showVars \/ ShowTerminated
  BY <1>1, <1>3 DEF PrintInv, ShowTerminated, showVars, vars, parent, Returned
<1>4. CASE ShowOne
  <2>1. /\ phase = "print" /\ phase' = phase /\ Returned' = Returned /\ err' = err
        /\ printed' = Append(printed, Selected[resp[Len(printed) + 1]])
        /\ Len(printed) + 1 <= Requests
    BY <1>4 DEF ShowOne, Response, vars, parent, Returned
  <2>2. Len(printed) \in Nat /\ Len(printed) + 1 \in 1 .. Requests
    BY <2>1, SizeType DEF PrintInv
  <2>3. resp[Len(printed) + 1] = Len(printed) + 1
    BY <2>1, <2>2, NilMeansAllCompiledStep DEF PrintInv, NilMeansAllCompiled
  <2>4. /\ DOMAIN printed' = 1 .. (Len(printed) + 1) /\ Len(printed') = Len(printed) + 1
        /\ \A j \in 1 .. Len(printed) : printed'[j] = printed[j]
        /\ printed'[Len(printed) + 1] = Selected[Len(printed) + 1]
    BY <2>1, <2>2, <2>3 DEF PrintInv
  <2>5. \A j \in DOMAIN printed' : printed'[j] = Selected[j]
    BY <2>2, <2>4 DEF PrintInv
  <2> QED
    BY <1>1, <2>1, <2>2, <2>4, <2>5, SizeType DEF PrintInv
<1>5. CASE BadFlag \/ Request \/ Compiled \/ ShowFails \/ ShowEnds
  <2>1. Returned' = Returned /\ err' = err /\ printed' = printed
    BY <1>5 DEF BadFlag, Request, Compiled, ShowFails, ShowEnds, To, vars, parent, Returned
  <2>2. phase' = "nil" => phase = "print" /\ Len(printed) + 1 > Requests
    BY <1>5 DEF BadFlag, Request, Compiled, ShowFails, ShowEnds, To, Response
  <2>3. phase' \in {"compile", "print"} => Parsed /\ printed = <<>>
    BY <1>5 DEF BadFlag, Request, Compiled, ShowFails, ShowEnds, To, PrintInv
  <2>4. phase' = "print" => Returned /\ err = NoErr
    BY <1>5 DEF BadFlag, Request, Compiled, ShowFails, ShowEnds, To
  <2>5. phase' \in {"compile", "print", "nil", "error"}
    BY <1>5 DEF BadFlag, Request, Compiled, ShowFails, ShowEnds, To
  <2>6. phase' = "nil" => Parsed /\ Returned /\ err = NoErr /\ Len(printed) = Requests
    <3>1. Len(printed) \in 0 .. Requests /\ (phase = "print" => Parsed /\ Returned /\ err = NoErr)
      BY DEF PrintInv
    <3> QED
      BY <2>2, <3>1, SizeType
  <2>7. printed # <<>> => Parsed /\ Returned /\ err = NoErr
    BY DEF PrintInv
  <2>8. /\ phase' \in {"flags", "compile"} => printed' = <<>>
        /\ phase' \in {"compile", "print", "nil"} \/ printed' # <<>> => Parsed'
        /\ phase' \in {"print", "nil"} \/ printed' # <<>> => Returned' /\ err' = NoErr
        /\ phase' = "nil" => Len(printed') = Requests
    BY <1>1, <2>1, <2>3, <2>4, <2>5, <2>6, <2>7
  <2> QED
    BY <1>1, <2>1, <2>5, <2>8 DEF PrintInv
<1> QED
  BY <1>2, <1>3, <1>4, <1>5 DEF ShowNext, Command

\* Every response is the one of its request and requests are the selected
\* components in order, so what is printed is in the order of the platform and
\* made of expected components only, of all of them at a success, and nothing is
\* printed when Compile failed.
THEOREM ShownInOrderHolds == ShowSpec => []ShownInOrder
<1>1. ASSUME PrintInv, KeysDistinct, Parsed
      PROVE  /\ \A j \in DOMAIN printed :
                 /\ printed[j] \in Expected
                 /\ {i \in Expected : i < printed[j]} = {printed[k] : k \in 1 .. (j - 1)}
             /\ phase = "nil" => Range(printed) = Expected
  <2>1. platform \in Seq(Range(platform))
    BY <1>1, ShowAssumption DEF PrintInv
  <2>2. Expected = {i \in DOMAIN platform : IsSelected(platform[i].labels, Selectors)}
    BY <1>1, SelectedAreExpected DEF PrintInv, Expected
  <2>3. /\ DOMAIN Selected = 1 .. Len(Selected)
        /\ \A j \in DOMAIN Selected :
               Selected[j] \in Expected /\ {i \in Expected : i < Selected[j]} = {Selected[k] : k \in 1 .. (j - 1)}
        /\ Expected = {Selected[j] : j \in DOMAIN Selected}
    <3>1. Enumerates(Selected, Expected)
      BY <2>1, <2>2, SelectIsOrdered, Zenon DEF Selected
    <3> QED
      BY <3>1, Zenon DEF Enumerates
  <2>4. /\ DOMAIN Selected = 1 .. Requests /\ DOMAIN printed = 1 .. Len(printed)
        /\ Len(printed) \in 0 .. Requests /\ \A j \in 1 .. Len(printed) : printed[j] = Selected[j]
    BY <1>1, <2>3 DEF PrintInv
  <2>5. ASSUME NEW j \in DOMAIN printed
        PROVE  printed[j] \in Expected /\ {i \in Expected : i < printed[j]} = {printed[k] : k \in 1 .. (j - 1)}
    <3>1. j \in DOMAIN Selected /\ printed[j] = Selected[j] /\ \A k \in 1 .. (j - 1) : printed[k] = Selected[k]
      BY <2>4, SizeType
    <3>2. {printed[k] : k \in 1 .. (j - 1)} = {Selected[k] : k \in 1 .. (j - 1)}
      BY <3>1
    <3> QED
      BY <2>3, <3>1, <3>2
  <2>6. ASSUME phase = "nil" PROVE Range(printed) = Expected
    <3>1. Len(printed) = Requests
      BY <1>1, <2>6 DEF PrintInv
    <3> QED
      BY <2>3, <2>4, <3>1 DEF Range
  <2> QED
    BY <2>5, <2>6
<1>2. ASSUME PrintInv, printed = <<>>, phase # "nil" PROVE ShownInOrder
  <2>1. DOMAIN printed = {}
    BY <1>2
  <2> QED
    BY <1>2, <2>1 DEF ShownInOrder
<1>3. ASSUME PrintInv, printed # <<>> \/ phase = "nil" PROVE ShownInOrder
  <2>1. Parsed /\ err = NoErr
    BY <1>3 DEF PrintInv
  <2> QED
    BY <1>1, <1>3, <2>1, Zenon DEF ShownInOrder
<1>4. PrintInv => ShownInOrder
  BY <1>2, <1>3
<1>5. IInv /\ PrintInv /\ [ShowNext]_showVars => PrintInv'
  BY ShowNextPrintInv
<1> QED
  BY <1>4, <1>5, ShowInitPrintInv, Inductive, ShowImplementsPool, PTL DEF ShowSpec
=============================================================================
