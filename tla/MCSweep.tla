------------------------------ MODULE MCSweep ------------------------------
(***************************************************************************)
(* Trees of two directories, two files and a link.                         *)
(***************************************************************************)
EXTENDS Sweep

CONSTANTS a, b, x, y, l

ByPaths == [debris |-> FALSE, depth |-> 0, match |-> {}]
Partials == [debris |-> TRUE, depth |-> 1, match |-> {1}]
Logs == [debris |-> TRUE, depth |-> 0, match |-> 1..MaxName]

Tree(entries, on, bound) ==
  [slots |-> [s \in Slots |->
                IF \E e \in entries : <<e[1], e[2]>> = s
                THEN (CHOOSE e \in entries : <<e[1], e[2]>> = s)[3]
                ELSE None],
   mounts |-> on,
   target |-> [k \in Links |-> Outside],
   sweep |-> ByPaths,
   acts |-> bound]

\* A file in a directory: the owner acts twice.
Small == Tree({<<Root, 1, a>>, <<a, 1, x>>}, {}, 2)
\* An empty directory and a link, an excluded one; a protected directory.
Shallow == Tree({<<Root, 1, a>>, <<a, 1, x>>, <<a, 2, l>>, <<Root, 2, b>>}, {}, 1)
Spare == Tree({<<Root, 1, a>>, <<a, 2, x>>, <<Root, 2, b>>, <<b, 1, y>>}, {}, 0)
\* Nested directories with a file each.
Nested == Tree({<<Root, 1, a>>, <<a, 1, b>>, <<b, 1, x>>, <<a, 0, y>>}, {}, 0)
Deep == Tree({<<Root, 1, a>>, <<a, 1, b>>, <<b, 1, x>>, <<b, 2, y>>}, {}, 1)
\* A work tree beside a file, a file with two names, a root with .git.
WorkTree == Tree({<<Root, 1, a>>, <<a, 1, b>>, <<b, 0, x>>, <<Root, 0, y>>}, {}, 0)
InnerWorkTree == Tree({<<Root, 1, a>>, <<a, 1, b>>, <<b, 0, x>>, <<b, 1, y>>}, {}, 1)
TwoNames == Tree({<<Root, 1, x>>, <<Root, 2, a>>, <<a, 2, x>>, <<a, 1, y>>}, {}, 1)
\* A mount after a file and before another.
Mounted == Tree({<<Root, 1, a>>, <<a, 1, x>>, <<a, 2, b>>, <<Root, 2, y>>}, {b}, 1)

\* Debris: a partial download beside a file and one level too deep; logs.
Downloads == [Tree({<<Root, 1, x>>, <<Root, 2, a>>, <<a, 1, y>>}, {}, 1)
                EXCEPT !.sweep = Partials]
Lone == [Tree({<<Root, 1, x>>}, {}, 2) EXCEPT !.sweep = Partials]
LogDir == [Tree({<<Root, 1, a>>, <<a, 1, x>>, <<a, 2, y>>}, {}, 1)
             EXCEPT !.sweep = Logs]
SpareLogs == [Tree({<<Root, 1, y>>, <<Root, 2, a>>, <<a, 1, x>>, <<a, 2, b>>}, {}, 0)
                EXCEPT !.sweep = Logs]

AllTrees == {Small, Shallow, Spare, Nested, Deep, WorkTree, InnerWorkTree,
             TwoNames, Mounted, Downloads, Lone, LogDir, SpareLogs}

KeepList == {<<2, 1>>}
Excluded == {<<1, 2>>}
============================================================================
