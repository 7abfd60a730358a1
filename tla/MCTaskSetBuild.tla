--------------------------- MODULE MCTaskSetBuild ---------------------------
(***************************************************************************)
(* TLC instances of TaskSetBuild: pipelines of four tasks over a component *)
(* file, a directory with two files and a second plain file.               *)
(***************************************************************************)
EXTENDS TaskSetBuild

A == <<"a">>
AX == <<"a", "x">>
AY == <<"a", "y">>
B == <<"b">>
C == <<"c">>

MCLeaf == {"x", "y"}

\* What the previous render left: a file of the same directory, and another.
MCPrevious == {<<"a", "old">>, B}

MCListings == {{}, {AX, AY, B}}

Decl(kind, inputs, output, dependsOn) ==
    [kind |-> kind, inputs |-> inputs, output |-> output, sink |-> NoPath,
     stdin |-> NoPath, stdout |-> FALSE, dependsOn |-> dependsOn]

Sink(input, path, dependsOn) ==
    [Decl("Artifact", {input}, NoPath, dependsOn) EXCEPT !.sink = path]

\* A generator, a validator that gates the sink, and a second pipeline.
Gated == <<Decl("Helm", {}, A, {}), Decl("Command", {A}, NoPath, {}),
           Sink(A, NoPath, {2}), Decl("File", {}, C, {})>>

\* A directory output read through one of its files and as a whole, renamed by
\* its sink.
Sliced == <<Decl("Command", {}, A, {}), Decl("Join", {AX}, C, {}),
            Decl("Kustomize", {A}, B, {1}), Sink(A, C, {})>>

\* Two producers under one directory input, and a command that filters it.
Gathered == <<Decl("Resources", {}, AX, {}), Decl("Helm", {}, AY, {}),
              [Decl("Command", {A, B}, C, {}) EXCEPT !.stdin = B, !.stdout = TRUE],
              Sink(A, NoPath, {})>>

\* Commands that share a directory of the component.
Shared == <<Decl("Command", {A}, NoPath, {}), Decl("Command", {A, B}, C, {}),
            Sink(C, B, {1}), Sink(A, NoPath, {})>>

\* Commands that read the directory another command left in the shared one.
Chained == <<Decl("Command", {}, A, {}), Decl("Command", {A}, C, {}),
             Decl("Command", {A}, NoPath, {}), Sink(C, B, {3})>>

\* A component file spelled with a dot: it exists, but cannot be loaded.
Dotted == <<Decl("Command", {<<".", "b">>}, NoPath, {}), Decl("File", {}, A, {}),
            Sink(A, NoPath, {}), Sink(A, C, {})>>

\* An output spelled with a dot: graph accepts it, and join cannot load it.
DottedOutput == <<Decl("File", {}, A, {}), Decl("Join", {A}, <<".", "c">>, {}),
                  Sink(A, NoPath, {}), Sink(<<".", "c">>, C, {})>>

\* The same of a file: it is kept as ./c, and lies on the disk as c.
DotC == <<".", "c">>
DottedFile == <<Decl("File", {}, DotC, {}), Decl("Command", {DotC}, NoPath, {}),
                Sink(DotC, NoPath, {2}), Sink(DotC, B, {})>>

MCTaskSets == {Gated, Sliced, Gathered, Shared, Chained, Dotted, DottedOutput, DottedFile}

\* Two outputs that are one file of the shared directory, each with its reader.
AliasedInputs == {<<Decl("File", {}, C, {}), Decl("File", {}, DotC, {}),
                    Decl("Command", {C}, NoPath, {}), Decl("Command", {DotC}, NoPath, {})>>}

\* Two sinks that are one file of the write-to directory, and a key that leaves
\* the directory of its sink.
AliasedSinks == {<<Decl("File", {}, A, {}), Decl("File", {}, C, {}),
                   Sink(A, B, {}), Sink(C, <<".", "b">>, {})>>,
                 <<Decl("File", {}, <<"a", "..", "b">>, {}), Decl("File", {}, C, {}),
                   Sink(A, NoPath, {}), Sink(C, B, {})>>}

\* Commands whose inputs overlap without being the same path.
Overlapping == {<<Decl("Command", {AX}, NoPath, {}), Decl("Command", {A}, NoPath, {})>>}
=============================================================================
