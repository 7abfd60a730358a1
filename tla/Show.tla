-------------------------------- MODULE Show --------------------------------
(***************************************************************************)
(* "holos show buildplans": showBuildPlans.Run of src/internal/cli/show.go *)
(* around Compile.  The label selectors of src/internal/holos/types.go     *)
(* choose components, the pool of CompilePool compiles them, and the       *)
(* responses are printed in order.                                         *)
(*                                                                         *)
(* A component is a record of its labels, the version its typemeta.yaml    *)
(* names ("" without the file), and the version and kind its build plan    *)
(* carries, which are data of the CUE configuration: nothing before        *)
(* printing compares them with typemeta.yaml.  A selector flag is the      *)
(* sequence of its comma separated terms, each with its operator: "=" (the *)
(* code reads "==" as "="), "!=", or "" when it has none.                  *)
(*                                                                         *)
(* Every step of the pool is one of CompilePool, where a child answers     *)
(* only for a component it can compile.  Requests is the number of         *)
(* components selected, so the platforms looked at are those where the     *)
(* selectors, when they parse, select that many.                           *)
(***************************************************************************)
EXTENDS CompilePool, SequencesExt

CONSTANTS
    Platforms,  \* the sequences of components a platform may have
    Flags,      \* the sequences of --selector values given
    Formats     \* the values of --format

ASSUME ShowAssumption ==
    /\ \A p \in Platforms : p \in Seq(Range(p))
    /\ \A f \in Flags : f \in Seq(Range(f)) /\ \A terms \in Range(f) : terms \in Seq(Range(terms))

VARIABLES
    platform,   \* the components of the platform, in its order
    flags,
    format,
    phase,      \* "flags", "compile", "print", "nil" or "error"
    printed     \* the positions in platform of the build plans printed

input == <<platform, flags, format>>
showVars == <<vars, input, phase, printed>>

-----------------------------------------------------------------------------

\* Selector.Set: the last term for a key is the one that counts.  A term without
\* an operator is an error, which ends the command.
LastValue(terms, op, key) ==
    terms[Max({i \in DOMAIN terms : terms[i].op = op /\ terms[i].key = key})].value

SetSelector(terms) ==
    LET Values(op) == [key \in {t.key : t \in {u \in Range(terms) : u.op = op}} |-> LastValue(terms, op, key)]
    IN  [positive |-> Values("="), negative |-> Values("!="),
         ok |-> \A t \in Range(terms) : t.op \in {"=", "!="}]

Has(labels, k, v) == k \in DOMAIN labels /\ labels[k] = v

\* BUG: a component without the label does not pass a negative term.
SelectorNeedsLabel(selector, labels) ==
    /\ \A k \in DOMAIN selector.positive : Has(labels, k, selector.positive[k])
    /\ \A k \in DOMAIN selector.negative :
           k \in DOMAIN labels /\ ~Has(labels, k, selector.negative[k])

\* Selector.IsSelected
SelectorSelects(selector, labels) ==
    /\ \A k \in DOMAIN selector.positive : Has(labels, k, selector.positive[k])
    /\ \A k \in DOMAIN selector.negative : ~Has(labels, k, selector.negative[k])

\* Any one selector is enough; none at all selects everything.
IsSelected(labels, selectors) ==
    selectors = <<>> \/ \E s \in Range(selectors) : SelectorSelects(s, labels)

\* Platform.Select: the positions of the selected components, in order.  The j-th
\* is the one with j of them up to itself.
Select(components, selectors) ==
    LET chosen == {i \in DOMAIN components : IsSelected(components[i].labels, selectors)}
    IN  [j \in 1 .. Cardinality(chosen) |-> CHOOSE i \in chosen : Cardinality({k \in chosen : k <= i}) = j]

Selectors == [i \in DOMAIN flags |-> SetSelector(flags[i])]

Parsed == \A s \in Range(Selectors) : s.ok

Selected == Select(platform, Selectors)

\* The component of a request.
Asked(request) == platform[Selected[request]]

\* Component.TypeMeta: v1alpha5 when the directory has no typemeta.yaml.
TypeMeta(component) == IF component.file = "" THEN "v1alpha5" ELSE component.file

\* The versions Component.BuildPlan knows.
Compiles(component) == TypeMeta(component) \in {"v1alpha5", "v1alpha6", "v1beta1"}

\* What printing wants; an unknown version is taken for v1alpha6.
WantKind(version) == IF version = "v1beta1" THEN "TaskSet" ELSE "BuildPlan"

-----------------------------------------------------------------------------

ShowInit ==
    /\ Init
    /\ platform \in Platforms /\ flags \in Flags /\ format \in Formats
    /\ Parsed => Len(Selected) = Requests
    /\ phase = "flags"
    /\ printed = <<>>

To(p) == phase' = p /\ UNCHANGED <<vars, input, printed>>

\* A selector cannot be parsed: the command does not run.
BadFlag ==
    /\ phase = "flags"
    /\ ~Parsed
    /\ To("error")

\* One request for every selected component.
Request ==
    /\ phase = "flags"
    /\ Parsed
    /\ To("compile")

\* A child answers a request for a component it can compile.
Answer(c) == ChildAnswers(c) /\ Compiles(Asked(Head(inbox[c])))

\* Compile is under way.
Compiling == phase = "compile" /\ UNCHANGED <<input, phase, printed>>

ShowChild(c) == ChildReads(c) \/ Answer(c) \/ ChildFails(c) \/ ChildEnds(c) \/ ChildKilled(c)

Pool ==
    /\ Compiling
    /\ Produce \/ \E c \in Compilers : Compiler(c) \/ ShowChild(c)

\* Nothing is printed unless everything was compiled and the format is known.
Compiled ==
    /\ phase = "compile" /\ Returned
    /\ To(IF err = NoErr /\ format \in {"yaml", "json"} THEN "print" ELSE "error")

\* The response to print next: the elements of resp in turn.
Response == Len(printed) + 1

Printable(i) == Asked(resp[i]).kind = WantKind(Asked(resp[i]).version)

\* encoder.Encode(buildPlan)
ShowOne ==
    /\ phase = "print" /\ Response <= Requests
    /\ Printable(Response)
    /\ printed' = Append(printed, Selected[resp[Response]])
    /\ UNCHANGED <<vars, input, phase>>

\* The kind is not the one of the version, or standard output is closed.
ShowFails ==
    /\ phase = "print" /\ Response <= Requests
    /\ To("error")

ShowEnds ==
    /\ phase = "print" /\ Response > Requests
    /\ To("nil")

Ended == phase \in {"nil", "error"}

ShowTerminated == Ended /\ UNCHANGED showVars

Command == BadFlag \/ Request \/ Compiled \/ ShowOne \/ ShowFails \/ ShowEnds

ShowNext == Command \/ Pool \/ ShowTerminated

\* The command goes on, as do the goroutines and children of the pool.
ShowSpec ==
    /\ ShowInit /\ [][ShowNext]_showVars
    /\ WF_showVars(Command) /\ WF_showVars(Compiling /\ Produce)
    /\ \A c \in Compilers :
        WF_showVars(Compiling /\ Compiler(c)) /\ WF_showVars(Compiling /\ ShowChild(c))

-----------------------------------------------------------------------------

\* No flag gives one key two values with one operator: of "a!=x,a!=y" only the last
\* term counts.
KeysDistinct ==
    \A terms \in Range(flags) : \A t, u \in Range(terms) :
        t.op = u.op /\ t.key = u.key => t.value = u.value

\* What a selector flag says of labels, term by term.
Meant(terms, labels) ==
    \A t \in Range(terms) :
        IF t.op = "=" THEN Has(labels, t.key, t.value) ELSE ~Has(labels, t.key, t.value)

\* The components a user who reads the flags expects.
Expected ==
    {i \in DOMAIN platform :
        flags = <<>> \/ \E terms \in Range(flags) : Meant(terms, platform[i].labels)}

\* "Results are output in the same order as listed in the Platform spec"
\* (long-show-buildplans.txt), though the children answer in any order: what is
\* printed is at all times the beginning of the expected components in platform
\* order, all of them at a success, and nothing when Compile failed.
ShownInOrder ==
    /\ KeysDistinct =>
        /\ \A j \in DOMAIN printed :
            /\ printed[j] \in Expected
            /\ {i \in Expected : i < printed[j]} = {printed[k] : k \in 1 .. (j - 1)}
        /\ phase = "nil" => Range(printed) = Expected
    /\ err # NoErr => printed = <<>>

\* The command ends, whether or not the selectors parse, a component is of a
\* known version, or a child survives.
ShowReturns == <>Ended
=============================================================================
