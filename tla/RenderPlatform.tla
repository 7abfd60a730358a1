--------------------------- MODULE RenderPlatform ---------------------------
(***************************************************************************)
(* "holos render platform" with its children: renderPlatform.Run of        *)
(* src/internal/cli/render/render.go starts one "holos render component"   *)
(* process for each component of PlatformBuild, which is Component.Render  *)
(* of src/internal/component/component.go.                                 *)
(*                                                                         *)
(* A child holds a temporary directory from MkdirTemp to the deferred      *)
(* util.Remove.  Cancellation kills it with exec.CommandContext, so that   *)
(* no deferred function runs.  Every step is one of PlatformBuild or none  *)
(* of its steps; a component's goroutine ends with its child.              *)
(***************************************************************************)
EXTENDS PlatformBuild

CONSTANT Platforms  \* the typemeta.yaml of each component: its version and kind

VARIABLES
    typeMeta,  \* of each component; the version is "" without the file
    child,     \* "none", "started", "temp", "load", "build", "remove" or "exited"
    code,      \* how it ended: "", "ok", "error" or "killed"
    temp       \* its temporary directory: "none", "exists", "stuck" or "removed"

childVars == <<typeMeta, child, code, temp>>
renderVars == <<vars, childVars>>

-----------------------------------------------------------------------------

\* Component.TypeMeta: a BuildPlan of v1alpha5 when there is no typemeta.yaml.
Discriminated(i) ==
    IF typeMeta[i].version = "" THEN [version |-> "v1alpha5", kind |-> "BuildPlan"]
                                ELSE typeMeta[i]

\* Render knows the version; render wants the kind of that version, and
\* renderAlpha5 does not look at it.
Supported(i) ==
    LET tm == Discriminated(i)
    IN  \/ tm.version = "v1alpha5"
        \/ tm.version = "v1alpha6" /\ tm.kind = "BuildPlan"
        \/ tm.version = "v1beta1" /\ tm.kind = "TaskSet"

RenderInit ==
    /\ Init
    /\ typeMeta \in Platforms
    /\ child = [i \in Component |-> "none"]
    /\ code = [i \in Component |-> ""]
    /\ temp = [i \in Component |-> "none"]

-----------------------------------------------------------------------------
(***************************************************************************)
(* The child.                                                              *)
(***************************************************************************)

Becomes(i, from, to) ==
    /\ child[i] = from
    /\ child' = [child EXCEPT ![i] = to]
    /\ UNCHANGED <<vars, typeMeta>>

Dies(i, how) == code' = [code EXCEPT ![i] = how]

\* The version and the kind are looked at before there is anything to clean up.
Discriminate(i) ==
    \/ Supported(i) /\ Becomes(i, "started", "temp") /\ UNCHANGED <<code, temp>>
    \/ Becomes(i, "started", "exited") /\ Dies(i, "error") /\ UNCHANGED temp

\* os.MkdirTemp
MakeTemp(i) ==
    \/ Becomes(i, "temp", "load") /\ temp' = [temp EXCEPT ![i] = "exists"] /\ UNCHANGED code
    \/ Becomes(i, "temp", "exited") /\ Dies(i, "error") /\ UNCHANGED temp

\* BUG: the deferred function is set up after the build plan is loaded.
LoadUnguarded(i) ==
    \/ Becomes(i, "load", "build") /\ UNCHANGED <<code, temp>>
    \/ Becomes(i, "load", "exited") /\ Dies(i, "error") /\ UNCHANGED temp

\* Component.BuildPlan
Load(i) ==
    \/ Becomes(i, "load", "build") /\ UNCHANGED <<code, temp>>
    \/ Becomes(i, "load", "remove") /\ Dies(i, "error") /\ UNCHANGED temp

\* bp.Build
Build(i) ==
    /\ Becomes(i, "build", "remove")
    /\ Dies(i, "ok") \/ Dies(i, "error")
    /\ UNCHANGED temp

\* util.Remove only warns when it fails.
Remove(i) ==
    /\ Becomes(i, "remove", "exited")
    /\ \E t \in {"removed", "stuck"} : temp' = [temp EXCEPT ![i] = t]
    /\ UNCHANGED code

\* SIGKILL
Kill(i) ==
    /\ Cancelled
    /\ \E from \in {"started", "temp", "load", "build", "remove"} : Becomes(i, from, "exited")
    /\ Dies(i, "killed")
    /\ UNCHANGED temp

Child(i) == Discriminate(i) \/ MakeTemp(i) \/ Load(i) \/ Build(i) \/ Remove(i)

-----------------------------------------------------------------------------
(***************************************************************************)
(* The component's goroutine in the parent.                                *)
(***************************************************************************)

\* RunCmdA starts the child, or cannot.
Launch(i) ==
    /\ Begin(i)
    /\ child' = child \/ child' = [child EXCEPT ![i] = "started"]
    /\ UNCHANGED <<typeMeta, code, temp>>

\* RunCmdA returns once the child is gone, with the child's result.
Reap(i) ==
    /\ \/ child[i] = "none" /\ Fail(i)
       \/ child[i] = "exited" /\ code[i] = "ok" /\ Succeed(i)
       \/ child[i] = "exited" /\ code[i] = "error" /\ Fail(i)
       \/ child[i] = "exited" /\ code[i] = "killed" /\ Killed(i)
    /\ UNCHANGED childVars

Goroutine(i) ==
    \/ Launch(i) \/ Reap(i)
    \/ (Refuse(i) \/ Record(i) \/ Exit(i)) /\ UNCHANGED childVars

RenderNext ==
    \/ (Produce \/ Return \/ Terminated) /\ UNCHANGED childVars
    \/ \E i \in Component : Goroutine(i) \/ Child(i) \/ Kill(i)

\* Goroutines and children go on; a component's build ends.
RenderSpec ==
    /\ RenderInit /\ [][RenderNext]_renderVars
    /\ WF_renderVars(Produce /\ UNCHANGED childVars)
    /\ WF_renderVars(Return /\ UNCHANGED childVars)
    /\ \A i \in Component : WF_renderVars(Goroutine(i)) /\ WF_renderVars(Child(i))

-----------------------------------------------------------------------------

\* When "render platform" returns no child is running, and the temporary
\* directory of every child is gone, whether the build plan loaded and built or
\* not, except where a child was killed or the removal itself failed; after a
\* success every component was of a supported version and kind and none is left
\* to a kill.
TempDirsRemoved ==
    returned =>
        /\ \A i \in Component :
            /\ child[i] \in {"none", "exited"}
            /\ temp[i] = "exists" => code[i] = "killed"
        /\ err = NoErr => \A i \in Component : Supported(i) /\ temp[i] \in {"removed", "stuck"}
=============================================================================
