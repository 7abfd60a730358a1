---------------------------- MODULE MCBuildPlan -----------------------------
(***************************************************************************)
(* TLC instance of BuildPlanFiles: an artifact with a list of transformers *)
(* and one with two validators, built by two workers, in the plans below.  *)
(***************************************************************************)
EXTENDS BuildPlanFiles

MCGenerators == [a \in Artifact |-> 1]
MCValidators == [a \in Artifact |-> IF a = 1 THEN 0 ELSE 2]
MCLeaf == {"x"}

A == <<"a">>
AX == <<"a", "x">>
AY == <<"a", "y">>
B == <<"b">>
C == <<"c">>
D == <<"d">>

U(kind, inputs, output) == [kind |-> kind, inputs |-> inputs, output |-> output, stdout |-> FALSE]
Stdout(u) == [u EXCEPT !.stdout = TRUE]
Val(inputs) == U("Validator", inputs, NoPath)

Plan(api, a1, a2) == [api |-> api, artifacts |-> <<a1, a2>>]
Art(path, generators, transformers, validators) ==
    [path |-> path, generators |-> generators, transformers |-> transformers, validators |-> validators]

\* A file transformed twice, and a file two validators read.
Transformed == Art(C, <<U("Resources", <<>>, AX)>>,
                   <<U("Kustomize", <<A>>, B), U("Join", <<AX, B>>, C)>>, <<>>)
Checked == Art(D, <<U("File", <<>>, D)>>, <<>>, <<Val(<<D>>), Val(<<D>>)>>)

\* The commands of v1alpha6: a file or a directory, filtered to stdout.
Filtered == Art(C, <<U("Command", <<>>, A)>>, <<Stdout(U("Command", <<A>>, C))>>, <<>>)
Helm == Art(D, <<U("Helm", <<>>, D)>>, <<>>, <<Val(<<>>), Val(<<>>)>>)

\* A directory of two files, saved as a whole.
Gathered == Art(A, <<U("File", <<>>, AX)>>, <<U("Join", <<AX>>, AY)>>, <<>>)

\* Against the API: an output declared twice.
Twice == Art(C, <<U("Helm", <<>>, D)>>, <<U("Join", <<D>>, C)>>, <<>>)

\* One file in two spellings: written by a command, and by a validator.
DotD == <<".", "d">>
Spelled == Art(D, <<Stdout(U("Command", <<>>, D))>>, <<>>, <<>>)
Respelled == Art(DotD, <<U("File", <<>>, DotD)>>, <<>>, <<Val(<<DotD>>), Val(<<>>)>>)

\* The fourth has a kind that v1alpha5 does not support.
MCPlans == {Plan("v1alpha5", Transformed, Checked), Plan("v1alpha6", Gathered, Checked),
            Plan("v1alpha6", Filtered, Helm), Plan("v1alpha5", Filtered, Checked),
            Plan("v1alpha6", Twice, Helm), Plan("v1alpha6", Spelled, Respelled)}
=============================================================================
