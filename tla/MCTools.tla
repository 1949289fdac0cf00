------------------------------ MODULE MCTools -------------------------------
(***************************************************************************)
(* Two users, their homes and the directories of the system.               *)
(***************************************************************************)
EXTENDS ToolPrune

\* home/p/r is the root; home/x holds a second r and a link out of the home;
\* home/b has the user's binary, /u the system's, /n is the system's root.
AllDirs == {"/", "home", "p", "r", "x", "s", "out", "t", "b", "u", "n", "foreign", "g"}
AllFiles == {"file", "mine", "other", "tool", "new"}
AllLinks == {"link"}

FsOf == [x \in AllDirs \cup AllFiles \cup AllLinks |->
           IF x \in {"foreign", "g"} THEN "foreign" ELSE "home"]
LinksTo == [l \in AllLinks |-> "out"]
OwnerOf == [x \in AllDirs \cup AllFiles |->
              IF x \in {"/", "u", "n", "tool", "new"} THEN 0 ELSE 1]

Usual == {<<"home", "p", "p">>, <<"home", "l", "x">>, <<"p", "r", "r">>,
          <<"x", "r", "s">>, <<"x", "l", "link">>, <<"out", "r", "t">>,
          <<"foreign", "r", "g">>, <<"home", "u", "b">>,
          <<"b", "t", "mine">>, <<"b", "l", "other">>,
          <<"/", "u", "u">>, <<"/", "n", "n">>, <<"u", "t", "tool">>, <<"u", "l", "new">>}

AllPlaces == {<<e[1], e[2]>> : e \in Usual}

Entry(S) ==
  [x \in AllPlaces |->
     IF \E e \in S : <<e[1], e[2]>> = x
     THEN (CHOOSE e \in S : <<e[1], e[2]>> = x)[3] ELSE None]

UsualTree == Entry(Usual)
FileTree == Entry((Usual \ {<<"p", "r", "r">>, <<"b", "t", "mine">>}) \cup {<<"p", "r", "file">>})

HomeSlots == <<<<"home", "p">>, <<"home", "l">>, <<"p", "r">>, <<"x", "r">>, <<"x", "l">>,
               <<"out", "r">>>>
HomeSwaps == {<<HomeSlots[x[1]], HomeSlots[x[2]]>> :
                x \in {y \in (1..6) \X (1..6) : y[1] < y[2]}}
ToolSwaps == {<<<<"home", "p">>, <<"home", "l">>>>, <<<<"home", "p">>, <<"x", "l">>>>,
              <<<<"p", "r">>, <<"x", "r">>>>, <<<<"p", "r">>, <<"x", "l">>>>,
              <<<<"b", "t">>, <<"b", "l">>>>, <<<<"b", "t">>, <<"x", "l">>>>,
              <<<<"u", "t">>, <<"u", "l">>>>}
AllSwaps == [w \in Callers |-> IF w = "tool" THEN ToolSwaps ELSE HomeSwaps]

Binaries == [system \in BOOLEAN |->
   <<[from |-> IF system THEN "/" ELSE "home", names |-> <<"u", "t">>],
     [from |-> "/", names |-> <<"u", "t">>]>>]

HomePath == [from |-> "home", names |-> <<"p", "r">>]
Cache == [system |-> FALSE, nativeDryRun |-> TRUE, path |-> HomePath]
Store == [system |-> FALSE, nativeDryRun |-> FALSE, path |-> HomePath]
SystemRoot == [system |-> TRUE, nativeDryRun |-> TRUE, path |-> [from |-> "/", names |-> <<"n">>]]
AllProfiles == {Cache, Store, SystemRoot}

----------------------------------------------------------------------------
Account(id, group, also, name, home) ==
  [uid |-> id, gid |-> group, groups |-> also, name |-> name, home |-> home]

\* The second has root's group, the third the home of the first, the fourth
\* shares the name of the first.
PasswdLines == {
  Account(1, 1, {1, 5}, "ann", "ann"), Account(2, 2, {0, 2}, "bob", "bob"),
  Account(3, 0, {3}, "eve", "ann"), Account(4, 4, {4}, "ann", "dan")}
Passwd(order) == [i \in DOMAIN order |-> CHOOSE a \in PasswdLines : a.uid = order[i]]

AllHomes == [h \in {"ann", "bob", "dan", "/root"} |->
  [kind |-> IF h = "dan" THEN "link" ELSE "dir",
   owner |-> CASE h = "ann" -> 1 [] h = "bob" -> 2 [] h = "dan" -> 4 [] h = "/root" -> 0]]

Process(id) == [uid |-> id, gid |-> id, groups |-> {id}]
Flags(system, all, rootHome, user) ==
  [system |-> system, all |-> all, rootHome |-> rootHome, user |-> user]

Situation(id, sudoUid, sudoUser, home, flags, order) ==
  [proc |-> Process(id), sudo |-> [uid |-> sudoUid, user |-> sudoUser], home |-> home,
   flags |-> flags, accounts |-> Passwd(order), homes |-> AllHomes]

Plain == Flags(FALSE, FALSE, FALSE, Unknown)
Ann == Situation(1, Unknown, Unknown, "ann", Plain, <<1, 2>>)
AnnBySudo == Situation(0, 1, "ann", "/root", Flags(FALSE, TRUE, FALSE, Unknown), <<1, 2>>)
RootOnly == Situation(0, Unknown, Unknown, "/root", Flags(TRUE, FALSE, FALSE, Unknown), <<1, 2>>)

AllSituations ==
  {Ann, AnnBySudo, RootOnly} \cup
  {Situation(id, sudoUid, sudoUser, home, flags, order) :
     id \in {0, 1, 2}, sudoUid \in {Unknown, 0, 1, 2, 4}, sudoUser \in {Unknown, "ann", "bob"},
     home \in {"ann"},
     flags \in {Plain, Flags(TRUE, FALSE, FALSE, Unknown), Flags(FALSE, TRUE, FALSE, Unknown),
                Flags(FALSE, FALSE, TRUE, Unknown), Flags(FALSE, TRUE, FALSE, "ann"),
                Flags(FALSE, TRUE, FALSE, "eve"), Flags(TRUE, TRUE, FALSE, Unknown)},
     order \in {<<1, 2, 3>>, <<4, 1, 2>>}}

Task(caller, p, s, tree, dry_, bound) ==
  [who |-> caller, profile |-> p, situation |-> s, tree |-> tree, dry |-> dry_, acts |-> bound]

AllTasks ==
  {Task(caller, Cache, Ann, UsualTree, FALSE, 3) : caller \in {"paths", "rustup"}} \cup
  {Task(caller, Cache, Ann, UsualTree, FALSE, 2) : caller \in {"debris", "managed"}} \cup
  {Task(caller, Cache, Ann, FileTree, FALSE, 2) : caller \in Callers \ {"tool"}} \cup
  {Task("tool", Cache, Ann, UsualTree, FALSE, 2), Task("tool", Cache, AnnBySudo, UsualTree, TRUE, 2),
   Task("tool", Store, Ann, FileTree, TRUE, 1), Task("tool", Store, Ann, UsualTree, TRUE, 1),
   Task("tool", SystemRoot, AnnBySudo, UsualTree, FALSE, 2)} \cup
  {Task("tool", p, s, UsualTree, FALSE, 0) : p \in {Cache, SystemRoot}, s \in AllSituations}
=============================================================================
