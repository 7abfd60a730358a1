------------------------------- MODULE Paths --------------------------------
(***************************************************************************)
(* The declared paths of a TaskSet or a BuildPlan.  A path is the sequence *)
(* of its segments, so strings.HasPrefix(p, d + "/") is "p lies under d".  *)
(* Segments are kept as they are spelled: "." and ".." may occur, and the  *)
(* empty one, of a leading, trailing or double slash.                      *)
(***************************************************************************)
EXTENDS Integers, SequencesExt

Path == Seq(STRING)

\* An empty declaration: "" in the code.
NoPath == <<>>

\* strings.HasPrefix(p, d + "/")
Under(p, d) == IsStrictPrefix(d, p)

AtOrUnder(p, d) == p = d \/ Under(p, d)

\* One of the two is, or contains, the other.
Overlap(p, q) == p = q \/ Under(p, q) \/ Under(q, p)

\* filepath.Join(dir, p) as a path below dir: "" and "." are dropped, and ".."
\* cancels the segment before it.  cleaned[n] is what is made of n segments.
CleanStep(clean, seg) ==
    IF seg \in {"", "."} THEN clean
    ELSE IF seg = ".." /\ clean # <<>> /\ Last(clean) # ".." THEN Front(clean)
    ELSE Append(clean, seg)

Clean(p) ==
    LET cleaned[n \in 0 .. Len(p)] == IF n = 0 THEN <<>> ELSE CleanStep(cleaned[n - 1], p[n])
    IN  cleaned[Len(p)]

\* validLocalPath: filepath.IsLocal(p) and not the root itself.
ValidLocalPath(p) == p # NoPath /\ p[1] # "" /\ Clean(p) # <<>> /\ Clean(p)[1] # ".."

\* The segments that are spelled and not meant.
DotSegment == {"", ".", ".."}

\* fs.ValidPath, which fs.WalkDir requires of the path a Load is given.
ValidFSPath(p) == \A i \in DOMAIN p : p[i] \notin DotSegment
=============================================================================
