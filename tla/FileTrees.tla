----------------------------- MODULE FileTrees ------------------------------
(***************************************************************************)
(* The files below a directory, as Store.Save of                           *)
(* src/internal/artifact/artifact.go and the task bodies write them.  The  *)
(* store keeps its keys as they are spelled; on the way to the disk        *)
(* filepath.Join cleans them, so that two keys may be one file.            *)
(*                                                                         *)
(* A file is its cleaned path with its content, and a content is named by  *)
(* the store key it belongs to, which is set once.  Empty directories and  *)
(* symbolic links are left out.                                            *)
(***************************************************************************)
EXTENDS Paths

File == [path : Path, content : Path]

\* BUG: a key is the name of its file.
SavedAsSpelled(k) == [path |-> k, content |-> k]

\* The file Store.Save writes for a key, and those for a set of keys.
SavedFile(k) == [path |-> Clean(k), content |-> k]
SavedFiles(keys) == {SavedFile(k) : k \in keys}

\* Files written over those that are there.
Overwrite(tree, new) == {f \in tree : \A g \in new : f.path # g.path} \cup new

\* What remains of files written one after the other in an order that is not
\* defined (Store.Keys ranges over a map): of those with one path, any.
OnePerPath(new) == \A f, g \in new : f.path = g.path => f = g
Outcomes(new) ==
    {S \in SUBSET new : OnePerPath(S) /\ \A f \in new : \E g \in S : f.path = g.path}

\* The files can be written: none is the directory itself or lies below another.
Fits(tree, new) ==
    \A f, g \in tree \cup new : f.path # <<>> /\ ~Under(f.path, g.path)

\* Store.Save refuses a path that ends in a slash.
Refused(p) == Len(p) > 1 /\ Last(p) = ""
=============================================================================
