--------------------------- MODULE MCWorkspaceSync ---------------------------
(* An instance of WorkspaceSync for TLC: a path d that is a file, a link to f,
   or a directory with at most one entry d/x, and a path f that is a file or a
   directory with the file f/x. *)
EXTENDS WorkspaceSync, TLC

CONSTANTS d, dx, f, fx, a, b

MCPaths == {d, dx, f, fx}
MCAbove == (d :> {}) @@ (dx :> {d}) @@ (f :> {}) @@ (fx :> {f})
MCRank == (f :> 1) @@ (fx :> 2) @@ (d :> 3) @@ (dx :> 4)

Tree(atD, inD, atF, inF) == (d :> atD) @@ (dx :> inD) @@ (f :> atF) @@ (fx :> inF)
MCTrees ==
  {Tree(x, Absent, y, Absent) : x \in {Absent, File(<<a>>), Link(f)}, y \in {Absent, File(<<a>>)}}
  \cup {Tree(Directory, x, y, Absent) : x \in {Absent, File(<<a>>), File(<<>>)},
                                        y \in {Absent, File(<<b, a>>)}}
  \cup {Tree(x, Absent, Directory, File(<<a>>)) : x \in {File(<<a>>), Link(f)}}
=============================================================================
