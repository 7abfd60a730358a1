--------------------------- MODULE MCCompilePool ----------------------------
(***************************************************************************)
(* TLC instance of Show and CompilePool: three requests for a pool of two  *)
(* children, any of which may fail.  The components that the selectors     *)
(* leave out stand at every place of the platform; one platform has a      *)
(* component of an unknown version, one a build plan of the wrong kind,    *)
(* and the first has five components, so one selector chooses four.        *)
(***************************************************************************)
EXTENDS Show

Labelled(labels) ==
    [labels |-> labels, file |-> "v1alpha6", version |-> "v1alpha6", kind |-> "BuildPlan"]

TaskSetOf(labels) ==
    [labels |-> labels, file |-> "v1beta1", version |-> "v1beta1", kind |-> "TaskSet"]

a == "team" :> "a"
b == "team" :> "b"
none == <<>>
prodA == a @@ ("tier" :> "prod")

MCPlatforms == {
    <<Labelled(a), Labelled(none), TaskSetOf(prodA), Labelled(b), Labelled(a)>>,
    <<Labelled(prodA), TaskSetOf(b), Labelled(none), Labelled(a)>>,
    <<TaskSetOf(b), [Labelled(a) EXCEPT !.file = ""], Labelled(none), Labelled(prodA)>>,
    <<Labelled(prodA), [Labelled(a) EXCEPT !.file = "v2"], Labelled(none), Labelled(b)>>,
    <<Labelled(a), [TaskSetOf(prodA) EXCEPT !.kind = "BuildPlan"], Labelled(none), Labelled(b)>>}

Eq(k, v) == [op |-> "=", key |-> k, value |-> v]
Ne(k, v) == [op |-> "!=", key |-> k, value |-> v]
Bad == [op |-> "", key |-> "team", value |-> ""]

\* "team!=b"; "team=a" or "team!=b,tier!=prod"; and "team=a,team", a bad term.
MCFlags == {
    <<<<Ne("team", "b")>>>>,
    <<<<Eq("team", "a")>>, <<Ne("team", "b"), Ne("tier", "prod")>>>>,
    <<<<Eq("team", "a"), Bad>>>>}
=============================================================================
