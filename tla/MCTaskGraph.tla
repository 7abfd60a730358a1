---------------------------- MODULE MCTaskGraph -----------------------------
(***************************************************************************)
(* TLC instance of TaskGraph: every task set of three tasks drawn from a   *)
(* small set of declarations over a directory "a", two files in it, and a  *)
(* file beside it.                                                         *)
(***************************************************************************)
EXTENDS TaskGraph

A == <<"a">>
AX == <<"a", "x">>
AY == <<"a", "y">>
B == <<"b">>
Escape == <<"a", "..", "..", "b">>

Decl(kind, inputs, output, sink, dependsOn) ==
    [kind |-> kind, inputs |-> inputs, output |-> output, sink |-> sink,
     stdin |-> NoPath, stdout |-> FALSE, dependsOn |-> dependsOn]

\* Producers, transformers and validators over the four plain paths.
Generators == {Decl("File", {}, o, NoPath, {}) : o \in {A, AX, AY, B, Escape}}
Joins == {Decl("Join", {i}, o, NoPath, {}) : i \in {A, AX, AY}, o \in {A, AY, B}}
Validators == {Decl("Command", is, NoPath, NoPath, d) :
                  is \in {{}, {A}, {AX}, {AX, AY}, {AX, B}}, d \in {{}, {1}, {9}}}
Writers == {Decl("Artifact", {i}, NoPath, s, {}) : i \in {A, AX}, s \in {NoPath, B}}
            \cup {[Decl("Command", {B}, AX, NoPath, {2}) EXCEPT !.stdin = A],
                  [Decl("Command", {B}, AX, NoPath, {2}) EXCEPT !.stdin = B, !.stdout = TRUE]}

MCTaskSets == [Task -> Generators \cup Joins \cup Validators \cup Writers]

MCListings == {{}, {AX, AY, B}}
=============================================================================
