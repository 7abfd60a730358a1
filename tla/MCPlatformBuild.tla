-------------------------- MODULE MCPlatformBuild ---------------------------
(***************************************************************************)
(* TLC instance of RenderPlatform and PlatformBuild: three components, at  *)
(* a concurrency that is not set, at one, and at two.  One platform has    *)
(* only components that can be rendered, the other a TaskSet where a       *)
(* BuildPlan is wanted and a version nobody knows.                         *)
(***************************************************************************)
EXTENDS RenderPlatform

MCConcurrencies == {-1, 1, 2}

Meta(version, kind) == [version |-> version, kind |-> kind]

MCPlatforms == {
    <<Meta("", ""), Meta("v1alpha6", "BuildPlan"), Meta("v1beta1", "TaskSet")>>,
    <<Meta("v1alpha6", "TaskSet"), Meta("v1alpha5", "BuildPlan"), Meta("v2", "BuildPlan")>>}
=============================================================================
