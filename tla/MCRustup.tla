----------------------------- MODULE MCRustup ------------------------------
(***************************************************************************)
(* Homes with dated and plain nightlies, versions on two platforms.        *)
(***************************************************************************)
EXTENDS Rustup

CONSTANTS i1, i2, i3, i4

Leaf(base, date, version, triple, spelling) ==
  [base |-> base, date |-> date, version |-> version, triple |-> triple,
   spelling |-> spelling]

\* Spelled so that 1.85.10 comes before 1.85.9, as strings do.
V10 == Leaf("version", 0, <<1, 85, 10>>, "gnu", 1)
V9 == Leaf("version", 0, <<1, 85, 9>>, "gnu", 2)
Musl == Leaf("version", 0, <<1, 85, 9>>, "musl", 3)
N1 == Leaf("nightly", 1, <<>>, "gnu", 4)
N2 == Leaf("nightly", 2, <<>>, "gnu", 5)
N == Leaf("nightly", 0, <<>>, "gnu", 6)

AllLeaves == {V10, V9, Musl, N1, N2, N}

Home(at, def, young, stuckOn, odd, bound) ==
  [dir |-> [l \in AllLeaves |->
              IF \E e \in at : e[1] = l THEN (CHOOSE e \in at : e[1] = l)[2] ELSE None],
   kind |-> [i \in Inodes |-> IF i \in DOMAIN odd THEN odd[i] ELSE "toolchain"],
   age |-> [i \in Inodes |-> IF i \in young THEN "young" ELSE "old"],
   stuck |-> stuckOn, chosen |-> def, acts |-> bound]

Plain == [i \in {} |-> "file"]

Versions == {<<V10, i1>>, <<V9, i2>>, <<Musl, i3>>}
Nightlies == {<<N1, i1>>, <<N2, i2>>, <<N, i3>>}

AllHomes == {
  Home({<<N1, i1>>, <<N2, i2>>}, N2, {}, {}, Plain, 4),
  Home({<<N1, i1>>, <<N, i2>>}, None, {}, {}, Plain, 4),
  Home(Versions, Musl, {}, {}, Plain, 2),
  Home(Nightlies, N2, {}, {}, Plain, 3),
  Home(Nightlies, N1, {i2}, {}, Plain, 1),
  Home(Nightlies, None, {}, {i2}, Plain, 2),
  Home(Nightlies \cup {<<V9, i4>>}, V10, {}, {}, [i \in {i3} |-> "link"], 1),
  Home(Versions \cup {<<N2, i4>>}, None, {}, {}, [i \in {i1} |-> "others"], 1)}

KeepList == {V9}
=============================================================================
