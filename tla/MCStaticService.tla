--------------------------- MODULE MCStaticService ---------------------------
(***************************************************************************)
(* Instances of StaticService for TLC.                                     *)
(***************************************************************************)
EXTENDS StaticService

\* A file too large for the cache, one that is not, and an empty one, which
\* compression makes longer.
Lengths == [b \in Body |-> CASE b = "empty" -> 0 [] b = "small" -> 3 [] b = "large" -> 4]
GzipLengths == [b \in Body |-> CASE b = "empty" -> 1 [] b = "small" -> 2 [] b = "large" -> 3]

Files == [body : Body, mtime : Time] \cup {NoFile}

\* No range, and the ranges with a first byte, up to one beyond the file.
FirstByteRanges ==
    [from : 0 .. 4, to : {Unbounded} \cup 0 .. 5] \cup {NoRange}

WholeFile == {NoRange}
=============================================================================
