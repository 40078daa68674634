----------------------------- MODULE MCMkrofs -------------------------------
(* Instances of Mkrofs for TLC. *)
EXTENDS Mkrofs, TLC

\* The stored names: whole, or some of them trimmed.
Untrimmed(kind) == [e \in DOMAIN kind |-> e]
Tree(kind, kids, sizes, trim) ==
    [root |-> "r", kind |-> kind, kids |-> kids, size |-> sizes, trim |-> trim @@ Untrimmed(kind)]

\* A tree with all kinds of entries; files on and off the chunks; a directory
\* that contains a link to itself; one too deep; contents past 32 bits.  Of Flat,
\* two names are the same when trimmed; of Mixed, two in different directories.
Mixed == Tree("r" :> "dir" @@ "d" :> "dir" @@ "f" :> "file" @@ "g" :> "file" @@ "s" :> "other",
              "r" :> {"d", "f"} @@ "d" :> {"g", "s"}, "f" :> 3 @@ "g" :> 1, "f" :> "t" @@ "g" :> "t")
Flat  == Tree("r" :> "dir" @@ "f" :> "file" @@ "g" :> "file" @@ "h" :> "file",
              "r" :> {"f", "g", "h"}, "f" :> 4 @@ "g" :> 0 @@ "h" :> 3, "f" :> "t" @@ "h" :> "t")
Loop  == Tree("r" :> "dir" @@ "d" :> "dir" @@ "f" :> "file",
              "r" :> {"d", "f"} @@ "d" :> {"r"}, "f" :> 2, <<>>)
Deep  == Tree("r" :> "dir" @@ "d" :> "dir" @@ "e" :> "dir" @@ "c" :> "dir" @@ "f" :> "file",
              "r" :> {"d"} @@ "d" :> {"e", "f"} @@ "e" :> {"c"} @@ "c" :> {}, "f" :> 2, <<>>)
Large == Tree("r" :> "dir" @@ "f" :> "file" @@ "g" :> "file",
              "r" :> {"f", "g"}, "f" :> 18 @@ "g" :> 3, <<>>)

MCTrees == {Mixed, Flat, Loop, Deep, Large}
=============================================================================
