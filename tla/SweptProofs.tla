---------------------------- MODULE SweptProofs -----------------------------
(***************************************************************************)
(* What a sweep that is left alone removes, for every tree: exactly what   *)
(* the rules, which look at the tree as a whole, say should go.            *)
(***************************************************************************)
EXTENDS SweepProofs

\* A directory has one name, as in every tree a run starts from.
IsTree(t) ==
  /\ t \in [Slots -> Dirs \cup Files \cup Links \cup {None}]
  /\ \A s, u \in Slots : t[s] = t[u] /\ t[s] \in Dirs => s = u

\* The first k names of the path p.
Pre(p, k) == SubSeq(p, 1, k)

\* The slot in which the path p ends.
HomeIn(t, p) == <<At(t, Pre(p, Len(p) - 1)), p[Len(p)]>>

----------------------------------------------------------------------------
(***************************************************************************)
(* Paths.                                                                  *)
(***************************************************************************)
\* Induction over 0..n, with the property given as the set of those that have
\* it: the smallest that has it not would have a predecessor that has.
LEMMA UpTo ==
  ASSUME NEW n \in Nat, NEW S, 0 \in S, \A k \in 1..n : k - 1 \in S => k \in S
  PROVE  0..n \subseteq S
<1> SUFFICES ASSUME (0..n) \ S # {} PROVE FALSE
  OBVIOUS
<1>1. PICK k \in (0..n) \ S : \A j \in (0..n) \ S : k <= j
  <2>1. (0..n) \ S \in SUBSET Nat
    OBVIOUS
  <2> QED
    BY <2>1, Smallest
<1>2. k \in 1..n
  BY <1>1
<1>3. k - 1 \in S
  <2>1. k - 1 \in 0..n /\ ~(k <= k - 1)
    BY <1>2
  <2> QED
    BY <1>1, <2>1
<1> QED
  BY <1>1, <1>2, <1>3

\* The beginnings of a path.
LEMMA PreType ==
  ASSUME NEW p \in Seq(Names), NEW k \in 0..Len(p)
  PROVE  /\ Pre(p, k) \in Seq(Names) /\ Len(Pre(p, k)) = k
         /\ \A i \in 1..k : Pre(p, k)[i] = p[i]
<1>1. \A i \in 1..k : p[i] \in Names
  BY ElementOfSeq, LenProperties
<1>2. 1 \in Int /\ k \in Int
  OBVIOUS
<1>3. /\ SubSeq(p, 1, k) \in Seq(Names)
      /\ Len(SubSeq(p, 1, k)) = IF 1 <= k THEN k - 1 + 1 ELSE 0
      /\ \A i \in 1..k - 1 + 1 : SubSeq(p, 1, k)[i] = p[1 + i - 1]
  BY <1>1, <1>2, SubSeqProperties
<1> QED
  BY <1>3 DEF Pre

\* All of a path, and none of it.
LEMMA PreSelf ==
  ASSUME NEW p \in Seq(Names)
  PROVE  Pre(p, Len(p)) = p /\ Pre(p, 0) = <<>>
BY SubSeqFull, SubSeqEmpty DEF Pre

\* Sequences that agree in length and elements are the same.
LEMMA SamePath ==
  ASSUME NEW p \in Seq(Names), NEW q \in Seq(Names), Len(p) = Len(q),
         \A i \in 1..Len(p) : p[i] = q[i]
  PROVE  p = q
BY SeqEqual

\* One name more.
LEMMA PreStep ==
  ASSUME NEW p \in Seq(Names), NEW k \in 1..Len(p)
  PROVE  Pre(p, k) = Append(Pre(p, k - 1), p[k])
<1>1. p[k] \in Names /\ k - 1 \in 0..Len(p) /\ k \in 0..Len(p) /\ k - 1 \in Nat
  BY ElementOfSeq, LenProperties
<1>2. Pre(p, k - 1) \in Seq(Names) /\ Len(Pre(p, k - 1)) = k - 1
      /\ \A i \in 1..k - 1 : Pre(p, k - 1)[i] = p[i]
  BY <1>1, PreType
<1>3. Pre(p, k) \in Seq(Names) /\ Len(Pre(p, k)) = k
      /\ \A i \in 1..k : Pre(p, k)[i] = p[i]
  BY <1>1, PreType
<1> DEFINE a == Append(Pre(p, k - 1), p[k])
<1>4. /\ a \in Seq(Names) /\ Len(a) = k - 1 + 1
      /\ \A i \in 1..k - 1 : a[i] = Pre(p, k - 1)[i]
      /\ a[k - 1 + 1] = p[k]
  BY <1>1, <1>2, AppendProperties
<1> HIDE DEF a
<1>5. Len(a) = k /\ \A i \in 1..k : a[i] = p[i]
  BY <1>1, <1>2, <1>4
<1>6. Pre(p, k) = a
  BY <1>3, <1>4, <1>5, SamePath
<1> QED
  BY <1>6 DEF a

\* The beginnings of a beginning.
LEMMA PreOfPre ==
  ASSUME NEW p \in Seq(Names), NEW k \in 0..Len(p), NEW j \in 0..k
  PROVE  Pre(Pre(p, k), j) = Pre(p, j)
<1> DEFINE q == Pre(p, k)
<1>1. q \in Seq(Names) /\ Len(q) = k /\ \A i \in 1..k : q[i] = p[i]
  BY PreType
<1>2. Len(p) \in Nat /\ k \in Nat /\ j \in 0..Len(p)
  BY LenProperties
<1> HIDE DEF q
<1>3. Pre(q, j) \in Seq(Names) /\ Len(Pre(q, j)) = j
      /\ \A i \in 1..j : Pre(q, j)[i] = q[i]
  BY <1>1, PreType
<1>4. Pre(p, j) \in Seq(Names) /\ Len(Pre(p, j)) = j
      /\ \A i \in 1..j : Pre(p, j)[i] = p[i]
  BY <1>2, PreType
<1>5. \A i \in 1..j : Pre(q, j)[i] = Pre(p, j)[i]
  BY <1>1, <1>2, <1>3, <1>4
<1>6. Pre(q, j) = Pre(p, j)
  BY <1>3, <1>4, <1>5, SamePath
<1> QED
  BY <1>6 DEF q

\* What a path and one more name have for beginnings.
LEMMA PreAppend ==
  ASSUME NEW p \in Seq(Names), NEW n \in Names
  PROVE  /\ Append(p, n) \in Seq(Names) /\ Len(Append(p, n)) = Len(p) + 1
         /\ Append(p, n) # <<>> /\ Append(p, n)[Len(p) + 1] = n
         /\ \A k \in 0..Len(p) : Pre(Append(p, n), k) = Pre(p, k)
         /\ \A k \in 1..Len(p) : Append(p, n)[k] = p[k]
<1> DEFINE a == Append(p, n)
<1>1. /\ a \in Seq(Names) /\ a # <<>> /\ Len(a) = Len(p) + 1
      /\ \A i \in 1..Len(p) : a[i] = p[i]
      /\ a[Len(p) + 1] = n
  BY AppendProperties
<1>2. Len(p) \in Nat
  BY LenProperties
<1> HIDE DEF a
<1>3. ASSUME NEW k \in 0..Len(p)
      PROVE  Pre(a, k) = Pre(p, k)
  <2>1. Pre(a, k) \in Seq(Names) /\ Len(Pre(a, k)) = k
        /\ \A i \in 1..k : Pre(a, k)[i] = a[i]
    BY <1>1, <1>2, PreType
  <2>2. Pre(p, k) \in Seq(Names) /\ Len(Pre(p, k)) = k
        /\ \A i \in 1..k : Pre(p, k)[i] = p[i]
    BY PreType
  <2>3. ASSUME NEW i \in 1..k
        PROVE  Pre(a, k)[i] = Pre(p, k)[i]
    <3>1. i \in 1..Len(p)
      BY <1>2
    <3> QED
      BY <3>1, <1>1, <2>1, <2>2
  <2> QED
    BY <2>1, <2>2, <2>3, SamePath
<1>4. /\ a \in Seq(Names) /\ Len(a) = Len(p) + 1
      /\ a # <<>> /\ a[Len(p) + 1] = n
      /\ \A k \in 0..Len(p) : Pre(a, k) = Pre(p, k)
      /\ \A k \in 1..Len(p) : a[k] = p[k]
  BY <1>1, <1>3
<1> QED
  BY <1>4 DEF a

\* A path is a prefix of another if it is one of its beginnings.
LEMMA PrefixIsPre ==
  ASSUME NEW p \in Seq(Names), NEW q \in Seq(Names)
  PROVE  /\ IsPrefix(q, p) <=> Len(q) <= Len(p) /\ q = Pre(p, Len(q))
         /\ Len(p) \in Nat /\ Len(q) \in Nat
BY SubSeqFull, LenProperties DEF IsPrefix, Pre

\* A path that is not empty is one more name after its parent.
LEMMA LastName ==
  ASSUME NEW p \in Seq(Names), p # <<>>
  PROVE  /\ Len(p) \in Nat \ {0} /\ Len(p) \in 1..Len(p)
         /\ p[Len(p)] \in Names
         /\ Pre(p, Len(p) - 1) \in Seq(Names)
         /\ Len(Pre(p, Len(p) - 1)) = Len(p) - 1
         /\ p = Append(Pre(p, Len(p) - 1), p[Len(p)])
<1>1. Len(p) \in Nat \ {0}
  BY EmptySeq, LenProperties
<1>2. Len(p) \in 1..Len(p) /\ Len(p) - 1 \in 0..Len(p)
  BY <1>1
<1>3. p[Len(p)] \in Names
  BY <1>2, ElementOfSeq
<1>4. Pre(p, Len(p)) = Append(Pre(p, Len(p) - 1), p[Len(p)])
  BY <1>2, PreStep
<1> QED
  BY <1>1, <1>2, <1>3, <1>4, PreType, PreSelf

----------------------------------------------------------------------------
(***************************************************************************)
(* Where paths lead.                                                       *)
(***************************************************************************)
\* h is the sequence of inodes from the root along the first n names of p.
IsWay(h, t, p, n) ==
  h = [k \in 0..n |->
         IF k = 0 THEN Root
         ELSE IF h[k - 1] \in Folders THEN t[<<h[k - 1], p[k]>>] ELSE None]

\* The recursion of At has a solution.
LEMMA WayExists ==
  ASSUME NEW t, NEW p, NEW n \in Nat
  PROVE  \E h : IsWay(h, t, p, n)
<1> DEFINE S == {k \in 0..n : \E h : IsWay(h, t, p, k)}
<1>1. 0 \in S
  <2>1. IsWay([k \in 0..0 |-> Root], t, p, 0)
    BY DEF IsWay
  <2> QED
    BY <2>1
<1>2. ASSUME NEW k \in 1..n, k - 1 \in S
      PROVE  k \in S
  <2>1. PICK g : IsWay(g, t, p, k - 1)
    BY <1>2
  <2> DEFINE last1 == IF g[k - 1] \in Folders THEN t[<<g[k - 1], p[k]>>]
                                               ELSE None
             h == [j \in 0..k |-> IF j = k THEN last1 ELSE g[j]]
  <2>2. \A j \in 0..k - 1 : h[j] = g[j]
    OBVIOUS
  <2>3. h[k] = last1
    OBVIOUS
  <2>4. \A j \in 0..k - 1 :
          g[j] = IF j = 0 THEN Root
                 ELSE IF g[j - 1] \in Folders THEN t[<<g[j - 1], p[j]>>]
                                              ELSE None
    BY <2>1 DEF IsWay
  <2>5. ASSUME NEW j \in 0..k
        PROVE  h[j] = IF j = 0 THEN Root
                      ELSE IF h[j - 1] \in Folders THEN t[<<h[j - 1], p[j]>>]
                                                   ELSE None
    <3>1. CASE j = k
      <4>1. h[j - 1] = g[k - 1] /\ j # 0
        BY <3>1, <2>2
      <4> QED
        BY <3>1, <4>1, <2>3
    <3>2. CASE j # k
      <4>1. j \in 0..k - 1
        BY <3>2
      <4>2. j # 0 => h[j - 1] = g[j - 1]
        BY <4>1, <2>2
      <4> QED
        BY <4>1, <4>2, <2>2, <2>4
    <3> QED
      BY <3>1, <3>2
  <2>6. h = [j \in 0..k |-> h[j]]
    OBVIOUS
  <2> HIDE DEF h
  <2>7. IsWay(h, t, p, k)
    BY <2>5, <2>6 DEF IsWay
  <2> QED
    BY <2>7
<1>3. 0..n \subseteq S
  <2> HIDE DEF S
  <2> QED
    BY <1>1, <1>2, UpTo
<1> QED
  BY <1>3

\* Along the way, each directory leads on by the next name.
LeadsOn(h, t, p, n) ==
  /\ h[0] = Root
  /\ \A k \in 1..n :
       h[k] = IF h[k - 1] \in Folders THEN t[<<h[k - 1], p[k]>>] ELSE None

\* A way leads on from the root.
LEMMA WayStep ==
  ASSUME NEW t, NEW p, NEW n \in Nat, NEW h, IsWay(h, t, p, n)
  PROVE  LeadsOn(h, t, p, n)
<1>1. \A k \in 0..n :
        h[k] = IF k = 0 THEN Root
               ELSE IF h[k - 1] \in Folders THEN t[<<h[k - 1], p[k]>>] ELSE None
  BY DEF IsWay
<1>2. 0 \in 0..n /\ \A k \in 1..n : k \in 0..n /\ k # 0
  OBVIOUS
<1> QED
  BY <1>1, <1>2 DEF LeadsOn

\* The way to a path ends where the path leads.
LEMMA AtWay ==
  ASSUME NEW t, NEW p \in Seq(Names)
  PROVE  \E h : IsWay(h, t, p, Len(p)) /\ At(t, p) = h[Len(p)]
<1>1. Len(p) \in Nat
  BY LenProperties
<1>2. \E h : IsWay(h, t, p, Len(p))
  BY <1>1, WayExists
<1> DEFINE to == CHOOSE h : IsWay(h, t, p, Len(p))
<1>3. IsWay(to, t, p, Len(p))
  BY <1>2
<1>4. At(t, p) = to[Len(p)]
  BY DEF At, IsWay
<1> QED
  BY <1>3, <1>4

\* The root is at the empty path, and each name leads one step further.
LEMMA AtStep ==
  ASSUME NEW t, NEW p \in Seq(Names)
  PROVE  /\ At(t, <<>>) = Root
         /\ \A n \in Names :
              At(t, Append(p, n)) =
                IF At(t, p) \in Folders THEN t[<<At(t, p), n>>] ELSE None
<1>1. At(t, <<>>) = Root
  <2>1. <<>> \in Seq(Names) /\ Len(<<>>) = 0
    BY EmptySeq
  <2>2. PICK h : IsWay(h, t, <<>>, 0) /\ At(t, <<>>) = h[0]
    BY <2>1, AtWay
  <2> QED
    BY <2>2 DEF IsWay
<1>2. ASSUME NEW n \in Names
      PROVE  At(t, Append(p, n)) =
               IF At(t, p) \in Folders THEN t[<<At(t, p), n>>] ELSE None
  <2> DEFINE q == Append(p, n)
             m == Len(p)
  <2>1. /\ q \in Seq(Names) /\ Len(q) = m + 1 /\ q[m + 1] = n /\ m \in Nat
        /\ \A k \in 1..m : q[k] = p[k]
    BY PreAppend, LenProperties
  <2> HIDE DEF q
  <2>2. PICK h : IsWay(h, t, p, m) /\ At(t, p) = h[m]
    BY AtWay
  <2>3. PICK g : IsWay(g, t, q, m + 1) /\ At(t, q) = g[m + 1]
    BY <2>1, AtWay
  <2> HIDE DEF m
  <2>4. LeadsOn(h, t, p, m)
    <3>1. m \in Nat
      BY <2>1
    <3>2. IsWay(h, t, p, m)
      BY <2>2
    <3> QED
      BY <3>1, <3>2, WayStep
  <2>5. LeadsOn(g, t, q, m + 1)
    <3>1. m + 1 \in Nat
      BY <2>1
    <3>2. IsWay(g, t, q, m + 1)
      BY <2>3
    <3> QED
      BY <3>1, <3>2, WayStep
  <2> DEFINE S == {k \in 0..m : h[k] = g[k]}
  <2>6. 0 \in S
    BY <2>1, <2>4, <2>5 DEF LeadsOn
  <2>7. ASSUME NEW k \in 1..m, k - 1 \in S
        PROVE  k \in S
    <3>1. k \in 1..m + 1 /\ h[k - 1] = g[k - 1] /\ p[k] = q[k] /\ k \in 0..m
      BY <2>1, <2>7
    <3>2. h[k] = IF h[k - 1] \in Folders THEN t[<<h[k - 1], p[k]>>] ELSE None
      BY <2>4, <2>7 DEF LeadsOn
    <3>3. g[k] = IF g[k - 1] \in Folders THEN t[<<g[k - 1], q[k]>>] ELSE None
      BY <3>1, <2>5 DEF LeadsOn
    <3> QED
      BY <3>1, <3>2, <3>3
  <2>8. 0..m \subseteq S
    <3> HIDE DEF S
    <3> QED
      BY <2>1, <2>6, <2>7, UpTo
  <2>9. h[m] = g[m]
    BY <2>1, <2>8
  <2>10. g[m + 1] = IF g[m] \in Folders THEN t[<<g[m], n>>] ELSE None
    <3>1. m + 1 \in 1..m + 1 /\ (m + 1) - 1 = m /\ q[m + 1] = n
      BY <2>1
    <3>2. g[m + 1] =
            IF g[(m + 1) - 1] \in Folders THEN t[<<g[(m + 1) - 1], q[m + 1]>>]
                                          ELSE None
      BY <3>1, <2>5 DEF LeadsOn
    <3> QED
      BY <3>1, <3>2
  <2> QED
    BY <2>2, <2>3, <2>9, <2>10 DEF q
<1> QED
  BY <1>1, <1>2

\* What the beginnings of a path lead to.
LEMMA AtPre ==
  ASSUME NEW t, NEW p \in Seq(Names), NEW k \in 1..Len(p)
  PROVE  At(t, Pre(p, k)) =
           IF At(t, Pre(p, k - 1)) \in Folders
           THEN t[<<At(t, Pre(p, k - 1)), p[k]>>] ELSE None
<1>1. p[k] \in Names /\ k - 1 \in 0..Len(p)
  BY ElementOfSeq, LenProperties
<1>2. Pre(p, k - 1) \in Seq(Names)
  BY <1>1, PreType
<1>3. Pre(p, k) = Append(Pre(p, k - 1), p[k])
  BY PreStep
<1> QED
  BY <1>1, <1>2, <1>3, AtStep

\* The kinds of inodes, apart as SweepAssumption has them.
LEMMA Kindly ==
  /\ Root \in Folders /\ Outside \in Folders /\ Dirs \subseteq Folders
  /\ Root \notin Dirs \cup Files \cup Links \cup {None}
  /\ None \notin Folders \cup Files \cup Links
  /\ Folders \cap (Dirs \cup Files \cup Links \cup {None}) = Dirs
BY SweepAssumption DEF Folders, Inodes

\* Only the empty path leads to the root.
LEMMA AtType ==
  ASSUME NEW t, IsTree(t), NEW p \in Seq(Names)
  PROVE  IF p = <<>> THEN At(t, p) = Root
                     ELSE At(t, p) \in Dirs \cup Files \cup Links \cup {None}
<1>1. CASE p = <<>>
  BY <1>1, AtStep
<1>2. CASE p # <<>>
  <2> DEFINE q == Pre(p, Len(p) - 1)
             n == p[Len(p)]
  <2>1. n \in Names /\ q \in Seq(Names) /\ p = Append(q, n)
    BY <1>2, LastName
  <2> HIDE DEF q, n
  <2>2. At(t, p) = IF At(t, q) \in Folders THEN t[<<At(t, q), n>>] ELSE None
    BY <2>1, AtStep
  <2>3. At(t, q) \in Folders => <<At(t, q), n>> \in Slots
    BY <2>1 DEF Slots
  <2> QED
    BY <1>2, <2>2, <2>3 DEF IsTree
<1> QED
  BY <1>1, <1>2

\* What lies on the way to something is a directory, and holds the next name.
LEMMA OnTheWay ==
  ASSUME NEW t, IsTree(t), NEW p \in Seq(Names), At(t, p) # None,
         NEW k \in 0..Len(p), k < Len(p)
  PROVE  /\ At(t, Pre(p, k)) \in Folders
         /\ At(t, Pre(p, k + 1)) = t[<<At(t, Pre(p, k)), p[k + 1]>>]
         /\ At(t, Pre(p, k + 1)) # None
<1>1. Len(p) \in Nat /\ k \in Nat
  BY LenProperties
<1>2. ASSUME NEW m \in 0..Len(p), m < Len(p), At(t, Pre(p, m)) \notin Folders
      PROVE  FALSE
  <2> DEFINE S == {j \in 0..Len(p) : j <= m \/ At(t, Pre(p, j)) = None}
  <2>1. 0 \in S
    BY <1>1
  <2>2. ASSUME NEW j \in 1..Len(p), j - 1 \in S
        PROVE  j \in S
    <3>1. At(t, Pre(p, j)) =
            IF At(t, Pre(p, j - 1)) \in Folders
            THEN t[<<At(t, Pre(p, j - 1)), p[j]>>] ELSE None
      BY AtPre
    <3>2. CASE j <= m
      BY <3>2
    <3>3. CASE j = m + 1
      <4>1. At(t, Pre(p, j - 1)) \notin Folders
        BY <1>1, <1>2, <3>3
      <4> QED
        BY <3>1, <4>1
    <3>4. CASE j > m + 1
      <4>1. At(t, Pre(p, j - 1)) = None
        BY <1>1, <2>2, <3>4
      <4> QED
        BY <3>1, <4>1, Kindly
    <3> QED
      BY <1>1, <3>2, <3>3, <3>4
  <2>3. 0..Len(p) \subseteq S
    <3> HIDE DEF S
    <3> QED
      BY <1>1, <2>1, <2>2, UpTo
  <2>4. At(t, Pre(p, Len(p))) = None
    BY <1>1, <1>2, <2>3
  <2> QED
    BY <2>4, PreSelf
<1>3. At(t, Pre(p, k)) \in Folders
  BY <1>2
<1>4. At(t, Pre(p, k + 1)) = t[<<At(t, Pre(p, k)), p[k + 1]>>]
  <2>1. k + 1 \in 1..Len(p) /\ k + 1 - 1 = k
    BY <1>1
  <2> QED
    BY <2>1, <1>3, AtPre
<1>5. At(t, Pre(p, k + 1)) # None
  <2>1. CASE k + 1 = Len(p)
    BY <2>1, PreSelf
  <2>2. CASE k + 1 < Len(p)
    <3>1. At(t, Pre(p, k + 1)) \in Folders
      BY <1>1, <1>2, <2>2
    <3> QED
      BY <3>1, Kindly
  <2> QED
    BY <1>1, <2>1, <2>2
<1> QED
  BY <1>3, <1>4, <1>5

\* What a path leads to is what its parent holds under its last name.
LEMMA LastStep ==
  ASSUME NEW t, IsTree(t), NEW p \in Seq(Names), p # <<>>, At(t, p) # None
  PROVE  /\ At(t, Pre(p, Len(p) - 1)) \in Folders
         /\ HomeIn(t, p) \in Slots /\ t[HomeIn(t, p)] = At(t, p)
<1>1. Len(p) \in Nat \ {0} /\ p[Len(p)] \in Names
  BY LastName
<1> DEFINE k == Len(p) - 1
<1>2. k \in 0..Len(p) /\ k < Len(p) /\ k + 1 = Len(p)
  BY <1>1
<1> HIDE DEF k
<1>3. /\ At(t, Pre(p, k)) \in Folders
      /\ At(t, Pre(p, k + 1)) = t[<<At(t, Pre(p, k)), p[k + 1]>>]
  BY <1>2, OnTheWay
<1>4. /\ At(t, Pre(p, k)) \in Folders
      /\ At(t, p) = t[<<At(t, Pre(p, k)), p[Len(p)]>>]
  BY <1>2, <1>3, PreSelf
<1> QED
  BY <1>1, <1>4 DEF HomeIn, Slots, k

\* Two paths to one directory are the same.
LEMMA OnePath ==
  ASSUME NEW t, IsTree(t), NEW p \in Seq(Names), NEW q \in Seq(Names),
         At(t, p) = At(t, q), At(t, p) \in Folders
  PROVE  p = q
<1> DEFINE Same(u, v) == At(t, u) = At(t, v) /\ At(t, u) \in Folders => u = v
           S == {k \in Nat : \A u, v \in Seq(Names) : Len(u) = k => Same(u, v)}
<1>1. 0 \in S
  <2> SUFFICES ASSUME NEW u \in Seq(Names), NEW v \in Seq(Names), Len(u) = 0,
                      At(t, u) = At(t, v)
               PROVE  u = v
    OBVIOUS
  <2>1. u = <<>>
    BY EmptySeq
  <2> QED
    BY <2>1, AtType, Kindly
<1>2. ASSUME NEW k \in 1..Len(p), k - 1 \in S
      PROVE  k \in S
  <2> SUFFICES ASSUME NEW u \in Seq(Names), NEW v \in Seq(Names), Len(u) = k,
                      At(t, u) = At(t, v), At(t, u) \in Folders
               PROVE  u = v
    OBVIOUS
  <2>1. u # <<>>
    BY EmptySeq
  <2>2. At(t, u) \in Dirs
    BY <2>1, AtType, Kindly
  <2>3. v # <<>>
    BY <2>2, AtType, Kindly
  <2> DEFINE a == Pre(u, Len(u) - 1)
             b == Pre(v, Len(v) - 1)
             m == u[Len(u)]
             n == v[Len(v)]
  <2>4. a \in Seq(Names) /\ Len(a) = k - 1 /\ u = Append(a, m)
    BY <2>1, LastName
  <2>5. b \in Seq(Names) /\ v = Append(b, n)
    BY <2>3, LastName
  <2>6. /\ At(t, a) \in Folders /\ <<At(t, a), m>> \in Slots
        /\ t[<<At(t, a), m>>] = At(t, u)
    BY <2>1, <2>2, Kindly, LastStep DEF HomeIn
  <2>7. /\ <<At(t, b), n>> \in Slots
        /\ t[<<At(t, b), n>>] = At(t, v)
    BY <2>2, <2>3, Kindly, LastStep DEF HomeIn
  <2> HIDE DEF a, b, m, n
  <2>8. <<At(t, a), m>> = <<At(t, b), n>>
    BY <2>2, <2>6, <2>7 DEF IsTree
  <2>9. a = b
    BY <1>2, <2>4, <2>5, <2>6, <2>8
  <2> QED
    BY <2>4, <2>5, <2>8, <2>9
<1>3. 0..Len(p) \subseteq S
  <2>1. Len(p) \in Nat
    BY LenProperties
  <2> HIDE DEF S
  <2> QED
    BY <1>1, <1>2, <2>1, UpTo
<1>4. Len(p) \in S
  BY <1>3, LenProperties
<1> QED
  BY <1>4

\* Two paths that end in one slot are the same.
LEMMA OneHome ==
  ASSUME NEW t, IsTree(t), NEW p \in Seq(Names), NEW q \in Seq(Names),
         p # <<>>, q # <<>>, At(t, p) # None, HomeIn(t, p) = HomeIn(t, q)
  PROVE  p = q
<1> DEFINE a == Pre(p, Len(p) - 1)
           b == Pre(q, Len(q) - 1)
           m == p[Len(p)]
           n == q[Len(q)]
<1>1. a \in Seq(Names) /\ p = Append(a, m)
  BY LastName
<1>2. b \in Seq(Names) /\ q = Append(b, n)
  BY LastName
<1>3. At(t, a) \in Folders
  BY LastStep
<1>4. At(t, a) = At(t, b) /\ m = n
  BY DEF HomeIn
<1> HIDE DEF a, b, m, n
<1>5. a = b
  BY <1>1, <1>2, <1>3, <1>4, OnePath
<1> QED
  BY <1>1, <1>2, <1>4, <1>5

\* A path to something is no longer than there are directories to pass.
LEMMA Shallow ==
  ASSUME NEW t, IsTree(t), NEW p \in Seq(Names), At(t, p) # None
  PROVE  p \in Paths
<1>1. Len(p) \in Nat /\ Cardinality(Dirs) \in Nat
  BY LenProperties, SweepAssumption, FS_CardinalityType
<1>2. Len(p) <= Cardinality(Dirs) + 1
  <2>1. CASE p = <<>>
    BY <1>1, <2>1, EmptySeq
  <2>2. CASE p # <<>>
    <3> DEFINE n == Len(p) - 1
               f == [k \in 1..n |-> At(t, Pre(p, k))]
    <3>1. n \in Nat
      BY <2>2, LastName
    <3>2. ASSUME NEW k \in 1..n
          PROVE  /\ k \in 0..Len(p) /\ k < Len(p) /\ k # 0
                 /\ At(t, Pre(p, k)) \in Folders
      <4>1. k \in 0..Len(p) /\ k < Len(p) /\ k # 0
        BY <1>1, <3>1
      <4> QED
        BY <4>1, OnTheWay
    <3>3. ASSUME NEW k \in 1..n
          PROVE  f[k] \in Dirs
      <4>1. Pre(p, k) \in Seq(Names) /\ Len(Pre(p, k)) = k
        BY <3>2, PreType
      <4>2. Pre(p, k) # <<>>
        BY <3>2, <4>1, EmptySeq
      <4> QED
        BY <3>2, <4>1, <4>2, AtType, Kindly
    <3>4. ASSUME NEW j \in 1..n, NEW k \in 1..n, f[j] = f[k]
          PROVE  j = k
      <4>1. /\ Pre(p, k) \in Seq(Names) /\ Len(Pre(p, k)) = k
            /\ Pre(p, j) \in Seq(Names) /\ Len(Pre(p, j)) = j
        BY <3>2, PreType
      <4>2. At(t, Pre(p, j)) = At(t, Pre(p, k))
        BY <3>4
      <4>3. Pre(p, j) = Pre(p, k)
        BY <3>2, <4>1, <4>2, OnePath
      <4> QED
        BY <4>1, <4>3
    <3>5. f \in Injection(1..n, Dirs)
      <4>1. f \in [1..n -> Dirs]
        BY <3>3
      <4>2. \A j, k \in 1..n : f[j] = f[k] => j = k
        BY <3>4
      <4> HIDE DEF f
      <4> QED
        BY <4>1, <4>2 DEF Injection, IsInjective
    <3> HIDE DEF f
    <3>6. Cardinality(1..n) <= Cardinality(Dirs)
      BY <3>5, FS_Injection, SweepAssumption
    <3>7. n <= Cardinality(Dirs)
      <4>1. \A a, b \in Int :
              Cardinality(a..b) = IF a > b THEN 0 ELSE b - a + 1
        BY FS_Interval
      <4>2. 1 \in Int /\ n \in Int
        BY <3>1
      <4>3. Cardinality(1..n) = IF 1 > n THEN 0 ELSE n - 1 + 1
        BY <4>1, <4>2
      <4> QED
        BY <1>1, <3>1, <3>6, <4>3
    <3> QED
      BY <1>1, <3>7
  <2> QED
    BY <2>1, <2>2
<1>3. p \in [1..Len(p) -> Names]
  BY LenProperties
<1> QED
  BY <1>1, <1>2, <1>3 DEF Paths

\* Paths are sequences of names.
LEMMA PathsType ==
  ASSUME NEW p \in Paths
  PROVE  p \in Seq(Names) /\ Len(p) \in Nat
<1>1. Cardinality(Dirs) \in Nat
  BY SweepAssumption, FS_CardinalityType
<1>2. PICK k \in 0..Cardinality(Dirs) + 1 : p \in [1..k -> Names]
  BY DEF Paths
<1>3. k \in Nat
  BY <1>1
<1>4. p \in Seq(Names)
  BY <1>2, <1>3, SeqDef
<1> QED
  BY <1>4, LenProperties
----------------------------------------------------------------------------
(***************************************************************************)
(* The tree before the run, and what the walk makes of it.                 *)
(***************************************************************************)
Rooted == IsTree(before.slots) /\ sweep.depth \in Nat

\* The slot in which the path p ended before the run.
Home(p) == HomeIn(before.slots, p)

Links0(i) == Cardinality({s \in Slots : before.slots[s] = i})

\* The paths to what lies below the root.
Known == {p \in Paths : p # <<>> /\ There(p) # None}

\* OutOfGit, along the path.
Clean(p) ==
  \A k \in 0..Len(p) :
    There(Pre(p, k)) \in Folders =>
      before.slots[<<There(Pre(p, k)), Git>>] = None

\* What the walk sees at p when nobody interferes.
AsFirstSeen(p) ==
  [path |-> p, ino |-> There(p), ver |-> 0, age |-> before.age[There(p)],
   nlink |-> Links0(There(p))]

\* What the walk hands over, and what of it AgePlan condemns.
Listed == {p \in Known : There(p) \in Files \cup Dirs /\ OutOfGit(p)}

Ripe(p) ==
  /\ before.age[There(p)] = "old"
  /\ There(p) \in Folders =>
       \A q \in Listed : IsPrefix(p, q) => before.age[There(q)] = "old"

\* What should go.
Target(p) == ShouldGo(p) \/ IsDebris(p)

\* What is known of a path below the root.
LEMMA KnownFacts ==
  ASSUME Rooted, NEW p \in Known
  PROVE  /\ p \in Seq(Names) /\ p # <<>> /\ p \in Paths
         /\ Len(p) \in Nat \ {0} /\ p[Len(p)] \in Names
         /\ There(p) \in Dirs \cup Files \cup Links
         /\ There(Pre(p, Len(p) - 1)) \in Folders
         /\ Home(p) \in Slots /\ before.slots[Home(p)] = There(p)
         /\ Home(p) = <<There(Pre(p, Len(p) - 1)), p[Len(p)]>>
<1>1. p \in Seq(Names) /\ p # <<>> /\ p \in Paths /\ There(p) # None
  BY PathsType DEF Known
<1>2. Len(p) \in Nat \ {0} /\ p[Len(p)] \in Names
  BY <1>1, LastName
<1>3. There(p) \in Dirs \cup Files \cup Links
  BY <1>1, AtType DEF There, Rooted
<1>4. /\ There(Pre(p, Len(p) - 1)) \in Folders
      /\ Home(p) \in Slots /\ before.slots[Home(p)] = There(p)
  BY <1>1, LastStep DEF There, Home, Rooted
<1>5. Home(p) = <<There(Pre(p, Len(p) - 1)), p[Len(p)]>>
  BY DEF Home, HomeIn, There
<1> QED
  BY <1>1, <1>2, <1>3, <1>4, <1>5

\* What a directory below the root holds is below the root.
LEMMA Grown ==
  ASSUME Rooted, NEW p \in Seq(Names), There(p) \in Folders, NEW n \in Names
  PROVE  /\ There(Append(p, n)) = before.slots[<<There(p), n>>]
         /\ before.slots[<<There(p), n>>] # None =>
              Append(p, n) \in Known /\ Home(Append(p, n)) = <<There(p), n>>
<1>1. There(Append(p, n)) = before.slots[<<There(p), n>>]
  BY AtStep DEF There
<1> DEFINE q == Append(p, n)
<1>2. /\ q \in Seq(Names) /\ Len(q) = Len(p) + 1 /\ q # <<>>
      /\ q[Len(p) + 1] = n /\ Pre(q, Len(p)) = Pre(p, Len(p))
      /\ Len(p) \in Nat
  <2>1. Len(p) \in Nat /\ Len(p) \in 0..Len(p)
    BY LenProperties
  <2> QED
    BY <2>1, PreAppend
<1> HIDE DEF q
<1>3. There(q) # None => q \in Known
  BY <1>2, Shallow DEF Known, There, Rooted
<1>4. Home(q) = <<There(p), n>>
  <2>1. Len(q) - 1 = Len(p)
    BY <1>2
  <2> QED
    BY <1>2, <2>1, PreSelf DEF Home, HomeIn, There
<1> QED
  BY <1>1, <1>3, <1>4 DEF q

\* A slot belongs to one path.
LEMMA OneSlot ==
  ASSUME Rooted, NEW p \in Known, NEW q \in Known, Home(p) = Home(q)
  PROVE  p = q
<1>1. /\ p \in Seq(Names) /\ q \in Seq(Names) /\ p # <<>> /\ q # <<>>
      /\ There(p) # None
  BY KnownFacts DEF Known
<1> QED
  BY <1>1, OneHome DEF Home, Rooted, There

\* The beginnings of a path that leads somewhere.
LEMMA WayKnown ==
  ASSUME Rooted, NEW p \in Seq(Names), There(p) # None, NEW k \in 0..Len(p)
  PROVE  /\ Pre(p, k) \in Paths /\ There(Pre(p, k)) # None
         /\ Pre(p, k) \in Seq(Names) /\ Len(Pre(p, k)) = k
         /\ k < Len(p) => There(Pre(p, k)) \in Folders
         /\ k # 0 => Pre(p, k) \in Known
<1>1. Len(p) \in Nat
  BY LenProperties
<1>2. k < Len(p) => There(Pre(p, k)) \in Folders
  BY OnTheWay DEF There, Rooted
<1>3. There(Pre(p, k)) # None
  <2>1. CASE k = Len(p)
    BY <2>1, PreSelf
  <2>2. CASE k # Len(p)
    BY <1>1, <1>2, <2>2, Kindly
  <2> QED
    BY <2>1, <2>2
<1>4. Pre(p, k) \in Seq(Names) /\ Len(Pre(p, k)) = k
  BY PreType
<1>5. Pre(p, k) \in Paths
  BY <1>3, <1>4, Shallow DEF There, Rooted
<1>6. k # 0 => Pre(p, k) # <<>>
  BY <1>4, EmptySeq
<1> QED
  BY <1>2, <1>3, <1>4, <1>5, <1>6 DEF Known

\* OutOfGit looks at the directories along the path.
LEMMA CleanIs ==
  ASSUME Rooted, NEW p \in Seq(Names), There(p) # None
  PROVE  OutOfGit(p) <=> Clean(p)
<1>1. ASSUME OutOfGit(p), NEW k \in 0..Len(p), There(Pre(p, k)) \in Folders
      PROVE  before.slots[<<There(Pre(p, k)), Git>>] = None
  <2>1. /\ Pre(p, k) \in Paths /\ Pre(p, k) \in Seq(Names)
        /\ Len(Pre(p, k)) = k /\ k <= Len(p)
    BY WayKnown, LenProperties
  <2>2. IsPrefix(Pre(p, k), p)
    BY <2>1, PrefixIsPre
  <2> QED
    BY <1>1, <2>1, <2>2 DEF OutOfGit
<1>2. ASSUME Clean(p), NEW q \in Paths, IsPrefix(q, p), There(q) \in Folders
      PROVE  before.slots[<<There(q), Git>>] = None
  <2>1. /\ q \in Seq(Names) /\ Len(q) \in Nat /\ Len(p) \in Nat
        /\ Len(q) <= Len(p) /\ q = Pre(p, Len(q))
    BY <1>2, PathsType, PrefixIsPre
  <2>2. Len(q) \in 0..Len(p)
    BY <2>1
  <2> QED
    BY <1>2, <2>1, <2>2 DEF Clean
<1> QED
  BY <1>1, <1>2 DEF OutOfGit, Clean

\* A path is clean if the one before it is and, when it leads to a directory,
\* there is no .git in it.
LEMMA CleanStep ==
  ASSUME Rooted, NEW p \in Seq(Names), There(p) \in Folders, NEW n \in Names,
         before.slots[<<There(p), n>>] # None
  PROVE  Clean(Append(p, n)) <=>
           /\ Clean(p)
           /\ before.slots[<<There(p), n>>] \in Folders =>
                before.slots[<<before.slots[<<There(p), n>>], Git>>] = None
<1> DEFINE q == Append(p, n)
<1>1. /\ q \in Seq(Names) /\ Len(q) = Len(p) + 1 /\ Len(p) \in Nat
      /\ \A k \in 0..Len(p) : Pre(q, k) = Pre(p, k)
  BY PreAppend, LenProperties
<1>2. Pre(q, Len(p) + 1) = q
  BY <1>1, PreSelf
<1>3. There(q) = before.slots[<<There(p), n>>]
  BY Grown
<1> HIDE DEF q
<1> DEFINE Free(v) ==
             There(v) \in Folders => before.slots[<<There(v), Git>>] = None
<1>4. Clean(p) <=> \A k \in 0..Len(p) : Free(Pre(p, k))
  BY DEF Clean
<1>5. Clean(q) <=> \A k \in 0..Len(p) + 1 : Free(Pre(q, k))
  BY <1>1 DEF Clean
<1>6. Clean(q) <=> (\A k \in 0..Len(p) : Free(Pre(q, k)))
                   /\ Free(Pre(q, Len(p) + 1))
  <2>1. 0..Len(p) + 1 = (0..Len(p)) \cup {Len(p) + 1}
    BY <1>1
  <2> HIDE DEF Free
  <2> QED
    BY <1>5, <2>1
<1>7. (\A k \in 0..Len(p) : Free(Pre(q, k)))
        <=> (\A k \in 0..Len(p) : Free(Pre(p, k)))
  <2> HIDE DEF Free
  <2> QED
    BY <1>1
<1>8. Clean(q) <=> Clean(p) /\ Free(q)
  <2> HIDE DEF Free
  <2> QED
    BY <1>2, <1>4, <1>6, <1>7
<1> QED
  BY <1>3, <1>8 DEF q

\* The beginnings of a clean path are clean.
LEMMA CleanPre ==
  ASSUME NEW p \in Seq(Names), Clean(p), NEW k \in 0..Len(p)
  PROVE  Clean(Pre(p, k))
<1>1. Len(Pre(p, k)) = k /\ \A j \in 0..k : Pre(Pre(p, k), j) = Pre(p, j)
  BY PreType, PreOfPre
<1>2. \A j \in 0..k : j \in 0..Len(p)
  BY LenProperties
<1> QED
  BY <1>1, <1>2 DEF Clean

----------------------------------------------------------------------------
(***************************************************************************)
(* The rules, read along the tree.                                         *)
(***************************************************************************)
\* What extends p by at least one name is below one entry of p.
LEMMA Beyond ==
  ASSUME Rooted, NEW p \in Seq(Names), NEW q \in Seq(Names), There(q) # None,
         IsPrefix(p, q), p # q
  PROVE  /\ Len(p) < Len(q) /\ Len(p) + 1 \in 1..Len(q)
         /\ There(p) \in Folders /\ q[Len(p) + 1] \in Names
         /\ before.slots[<<There(p), q[Len(p) + 1]>>] # None
         /\ IsPrefix(Append(p, q[Len(p) + 1]), q)
<1> DEFINE k == Len(p)
<1>1. k \in Nat /\ Len(q) \in Nat /\ k <= Len(q) /\ p = Pre(q, k)
  BY PrefixIsPre
<1>2. k # Len(q)
  BY <1>1, PreSelf
<1>3. k \in 0..Len(q) /\ k < Len(q) /\ k + 1 \in 1..Len(q) /\ k + 1 - 1 = k
      /\ k + 1 \in 0..Len(q)
  BY <1>1, <1>2
<1>4. q[k + 1] \in Names
  BY <1>3, ElementOfSeq
<1>5. /\ There(p) \in Folders
      /\ There(Pre(q, k + 1)) = before.slots[<<There(p), q[k + 1]>>]
      /\ There(Pre(q, k + 1)) # None
  <2> HIDE DEF k
  <2> QED
    BY <1>1, <1>3, OnTheWay DEF There, Rooted
<1>6. Pre(q, k + 1) = Append(p, q[k + 1])
  <2> HIDE DEF k
  <2>1. k + 1 \in 1..Len(q)
    BY <1>3
  <2>2. Pre(q, k + 1) = Append(Pre(q, (k + 1) - 1), q[k + 1])
    BY <2>1, PreStep
  <2>3. (k + 1) - 1 = k /\ p = Pre(q, k)
    BY <1>1
  <2> QED
    BY <2>2, <2>3
<1>7. Pre(q, k + 1) \in Seq(Names) /\ Len(Pre(q, k + 1)) = k + 1
  <2> HIDE DEF k
  <2> QED
    BY <1>3, PreType
<1>8. IsPrefix(Pre(q, k + 1), q)
  <2> HIDE DEF k
  <2>1. k + 1 <= Len(q)
    BY <1>3
  <2> QED
    BY <2>1, <1>7, PrefixIsPre
<1> QED
  BY <1>3, <1>4, <1>5, <1>6, <1>8

\* Prefixes of prefixes.
LEMMA PrefixTrans ==
  ASSUME NEW p \in Seq(Names), NEW q \in Seq(Names), NEW r \in Seq(Names),
         IsPrefix(p, q), IsPrefix(q, r)
  PROVE  IsPrefix(p, r)
<1>1. /\ Len(p) \in Nat /\ Len(q) \in Nat /\ Len(r) \in Nat
      /\ Len(p) <= Len(q) /\ p = Pre(q, Len(p))
      /\ Len(q) <= Len(r) /\ q = Pre(r, Len(q))
  BY PrefixIsPre
<1>2. Len(p) \in 0..Len(q) /\ Len(q) \in 0..Len(r) /\ Len(p) <= Len(r)
  BY <1>1
<1>3. Pre(Pre(r, Len(q)), Len(p)) = Pre(r, Len(p))
  BY <1>2, PreOfPre
<1> QED
  BY <1>1, <1>2, <1>3, PrefixIsPre

\* A path is a prefix of itself, and of itself with one more name.
LEMMA PrefixAppend ==
  ASSUME NEW p \in Seq(Names), NEW n \in Names
  PROVE  IsPrefix(p, p) /\ IsPrefix(p, Append(p, n))
<1>1. /\ Append(p, n) \in Seq(Names) /\ Len(Append(p, n)) = Len(p) + 1
      /\ Len(p) \in Nat /\ Len(p) \in 0..Len(p)
  BY PreAppend, LenProperties
<1>2. Pre(Append(p, n), Len(p)) = p /\ Pre(p, Len(p)) = p
  BY <1>1, PreAppend, PreSelf
<1>3. Len(p) <= Len(Append(p, n)) /\ Len(p) <= Len(p)
  BY <1>1
<1>4. IsPrefix(p, p)
  BY <1>2, <1>3, PrefixIsPre
<1>5. IsPrefix(p, Append(p, n))
  BY <1>1, <1>2, <1>3, PrefixIsPre
<1> QED
  BY <1>4, <1>5

\* What should go is in the list, and no recent entry is below it.
LEMMA GoesFact ==
  ASSUME Rooted, NEW p \in Known, ShouldGo(p)
  PROVE  p \in Listed /\ Ripe(p) /\ ~Spared(p) /\ Removable(p) /\ ~sweep.debris
<1>1. p \in Seq(Names) /\ p \in Paths /\ There(p) # None
  BY KnownFacts DEF Known
<1>2. IsPrefix(p, p)
  BY <1>1, PrefixIsPre, PreSelf
<1>3. There(p) \in Files \cup Dirs /\ Removable(p) /\ ~sweep.debris
  BY <1>1, <1>2 DEF ShouldGo
<1>4. p \in Listed /\ ~Spared(p) /\ before.age[There(p)] = "old"
  BY <1>3 DEF Listed, Removable
<1>5. ASSUME NEW q \in Listed, IsPrefix(p, q)
      PROVE  before.age[There(q)] = "old"
  <2>1. q \in Paths /\ There(q) # None
    BY DEF Listed, Known
  <2>2. Removable(q)
    BY <1>5, <2>1 DEF ShouldGo
  <2> QED
    BY <2>2 DEF Removable
<1> QED
  BY <1>3, <1>4, <1>5 DEF Ripe

\* A file goes if it is removable.
LEMMA FileGoes ==
  ASSUME Rooted, NEW p \in Known, There(p) \in Files, ~sweep.debris,
         Removable(p)
  PROVE  ShouldGo(p)
<1>1. p \in Seq(Names) /\ There(p) \notin Folders
  BY KnownFacts, SweepAssumption
<1>2. ASSUME NEW q \in Paths, IsPrefix(p, q), There(q) # None
      PROVE  q = p
  <2>1. q \in Seq(Names)
    BY PathsType
  <2> QED
    BY <1>1, <1>2, <2>1, Beyond
<1> QED
  BY <1>2 DEF ShouldGo

\* A directory goes if it is removable and all that it holds goes.
LEMMA DirGoes ==
  ASSUME Rooted, NEW p \in Known, There(p) \in Dirs, ~sweep.debris,
         Removable(p),
         \A n \in Names : before.slots[<<There(p), n>>] # None =>
           ShouldGo(Append(p, n))
  PROVE  ShouldGo(p)
<1>1. p \in Seq(Names)
  BY KnownFacts
<1>2. ASSUME NEW q \in Paths, IsPrefix(p, q), There(q) # None
      PROVE  There(q) \in Files \cup Dirs /\ Removable(q)
  <2>1. q \in Seq(Names)
    BY PathsType
  <2>2. CASE q = p
    BY <2>2
  <2>3. CASE q # p
    <3>1. PICK n \in Names : /\ before.slots[<<There(p), n>>] # None
                             /\ IsPrefix(Append(p, n), q)
      BY <1>1, <1>2, <2>1, <2>3, Beyond
    <3>2. ShouldGo(Append(p, n))
      BY <3>1
    <3> QED
      BY <1>2, <3>1, <3>2 DEF ShouldGo
  <2> QED
    BY <2>2, <2>3
<1> QED
  BY <1>2 DEF ShouldGo

\* All that a directory holds goes with it.
LEMMA ContentGoes ==
  ASSUME Rooted, NEW p \in Known, There(p) \in Dirs, ShouldGo(p),
         NEW n \in Names, before.slots[<<There(p), n>>] # None
  PROVE  Append(p, n) \in Known /\ ShouldGo(Append(p, n))
<1> DEFINE c == Append(p, n)
<1>1. p \in Seq(Names) /\ There(p) \in Folders
  BY KnownFacts, Kindly
<1>2. c \in Known
  BY <1>1, Grown
<1>3. c \in Seq(Names) /\ c \in Paths /\ There(c) # None /\ IsPrefix(p, c)
  BY <1>1, <1>2, KnownFacts, PrefixAppend DEF Known
<1> HIDE DEF c
<1>4. There(c) \in Files \cup Dirs
  BY <1>3 DEF ShouldGo
<1>5. ASSUME NEW q \in Paths, IsPrefix(c, q), There(q) # None
      PROVE  There(q) \in Files \cup Dirs /\ Removable(q)
  <2>1. q \in Seq(Names)
    BY PathsType
  <2>2. IsPrefix(p, q)
    BY <1>1, <1>3, <1>5, <2>1, PrefixTrans
  <2> QED
    BY <1>5, <2>2 DEF ShouldGo
<1>6. ShouldGo(c)
  BY <1>4, <1>5 DEF ShouldGo
<1> QED
  BY <1>2, <1>6 DEF c

\* What the callback of debris asks of a file is what makes it debris.
LEMMA DebrisFact ==
  ASSUME Rooted, NEW p \in Known, There(p) \in Files, sweep.debris
  PROVE  IsDebris(p) <=> /\ There(p) \notin openf /\ OutOfGit(p)
                         /\ Debris(AsFirstSeen(p))
<1>1. p \in Seq(Names) /\ Len(p) \in Nat
  BY KnownFacts
<1> DEFINE e == AsFirstSeen(p)
<1>2. /\ e.path = p /\ e.nlink = Links0(There(p))
      /\ e.age = before.age[There(p)]
  BY DEF AsFirstSeen
<1>3. (\E k \in Keep : IsPrefix(k, p))
        <=> \E q \in Paths : IsPrefix(q, p) /\ q \in Keep
  <2>1. ASSUME NEW k \in Keep, IsPrefix(k, p)
        PROVE  k \in Paths
    <3>1. k \in Seq(Names)
      BY SweepAssumption
    <3>2. /\ Len(k) \in Nat /\ Len(k) <= Len(p) /\ k = Pre(p, Len(k))
      BY <1>1, <2>1, <3>1, PrefixIsPre
    <3>3. Len(k) \in 0..Len(p)
      BY <1>1, <3>2
    <3>4. There(p) # None
      BY DEF Known
    <3> QED
      BY <1>1, <3>2, <3>3, <3>4, WayKnown
  <2> QED
    BY <2>1
<1>4. (sweep.depth > 0 => Len(p) = sweep.depth) <=> sweep.depth \in {0, Len(p)}
  BY <1>1 DEF Rooted
<1> HIDE DEF e
<1>5. Debris(e) <=> /\ sweep.depth \in {0, Len(p)} /\ Links0(There(p)) = 1
                    /\ p[Len(p)] \in sweep.match
                    /\ before.age[There(p)] = "old"
                    /\ ~\E k \in Keep : IsPrefix(k, p)
  BY <1>2, <1>4 DEF Debris
<1>6. IsDebris(p) <=> /\ There(p) \notin openf /\ sweep.depth \in {0, Len(p)}
                      /\ p[Len(p)] \in sweep.match
                      /\ before.age[There(p)] = "old" /\ OutOfGit(p)
                      /\ \A q \in Paths : IsPrefix(q, p) => q \notin Keep
                      /\ Links0(There(p)) = 1
  BY DEF IsDebris, Links0
<1> QED
  BY <1>3, <1>5, <1>6 DEF e

\* What should go is a file of one name, or a directory.
LEMMA TargetFact ==
  ASSUME Rooted, NEW p \in Known, Target(p)
  PROVE  /\ There(p) \in Files \cup Dirs
         /\ There(p) \in Files => Links0(There(p)) = 1
         /\ sweep.debris => There(p) \in Files /\ IsDebris(p)
         /\ ~sweep.debris => ShouldGo(p)
<1>1. CASE ShouldGo(p)
  <2>1. Removable(p) /\ ~sweep.debris /\ There(p) \in Files \cup Dirs
    BY <1>1, GoesFact DEF ShouldGo
  <2> QED
    BY <1>1, <2>1 DEF Removable, Links0
<1>2. CASE IsDebris(p)
  BY <1>2 DEF IsDebris, Links0
<1> QED
  BY <1>1, <1>2 DEF Target

\* The slots that refer to one inode are finitely many.
LEMMA SlotsFinite == IsFiniteSet(Slots)
<1>1. IsFiniteSet(Folders)
  <2>1. IsFiniteSet(Dirs \cup {Root})
    BY SweepAssumption, FS_AddElement
  <2>2. IsFiniteSet((Dirs \cup {Root}) \cup {Outside})
    BY <2>1, FS_AddElement
  <2>3. Folders = (Dirs \cup {Root}) \cup {Outside}
    BY DEF Folders
  <2> QED
    BY <2>2, <2>3
<1>2. IsFiniteSet(Names)
  BY SweepAssumption, FS_Interval DEF Names
<1> QED
  BY <1>1, <1>2, FS_Product DEF Slots

\* A file with one link has one path.
LEMMA OneLink ==
  ASSUME Rooted, NEW p \in Known, Links0(There(p)) = 1,
         NEW s \in Slots, before.slots[s] = There(p)
  PROVE  s = Home(p)
<1> DEFINE L == {u \in Slots : before.slots[u] = There(p)}
<1>1. IsFiniteSet(L) /\ Cardinality(L) = 1
  BY SlotsFinite, FS_Subset DEF Links0
<1>2. s \in L /\ Home(p) \in L
  BY KnownFacts
<1> HIDE DEF L
<1>3. PICK x : L = {x}
  BY <1>1, FS_Singleton
<1> QED
  BY <1>2, <1>3

----------------------------------------------------------------------------
(***************************************************************************)
(* What holds as long as nobody interferes.                                *)
(***************************************************************************)
Walking == pc \in {"walk", "mount", "descend"}
Removing == pc \in {"open", "list", "unlink"}

\* The walk with the stack stk will still come to p.
PendingIn(stk, p) ==
  \E k \in DOMAIN stk :
    /\ k <= Len(p) + 1 /\ stk[k].path = Pre(p, k - 1)
    /\ Len(p) = k - 1 \/ p[k] \in stk[k].left

\* beav is through with p.
Finished(p) ==
  /\ IF sweep.debris THEN ~PendingIn(stack, p)
                     ELSE ~Walking /\ AsFirstSeen(p) \notin plan
  /\ Busy => cur.path # p

\* What has been removed.
Gone == {p \in Known : Target(p) /\ Finished(p)}

Quiet == last = "never" /\ mounts = {} /\ ~dry /\ ~cancelled

\* The stack is a path from the root, each directory as it was found.
FramedIn(stk) ==
  \A k \in DOMAIN stk :
    /\ Len(stk[k].path) = k - 1
    /\ There(stk[k].path) = stk[k].dir /\ Clean(stk[k].path)
    /\ \A n \in stk[k].left : before.slots[<<stk[k].dir, n>>] # None
    /\ ~sweep.debris =>
         stk[k].self = IF k = 1 THEN NoEntry ELSE AsFirstSeen(stk[k].path)

\* A directory on the stack is not left in those it lies in.
ChainIn(stk) ==
  \A k \in DOMAIN stk : \A j \in 1..k - 1 :
    /\ stk[j].path = Pre(stk[k].path, j - 1)
    /\ stk[k].path[j] \notin stk[j].left

\* Where the walk is.
Next1 == Append(Top.path, NextName)

Looking ==
  pc \in {"mount", "descend"} =>
    /\ look.path = Next1 /\ look.ino = There(Next1)
    /\ look.ino \in Files \/ ~sweep.debris => look = AsFirstSeen(Next1)

\* What is to be listed has been or will be.
Listing ==
  Walking /\ ~sweep.debris =>
    /\ \A e \in list : \E p \in Listed : e = AsFirstSeen(p)
    /\ \A p \in Listed : AsFirstSeen(p) \in list \/ PendingIn(stack, p)

\* What has left the plan is not less deep than what is in it.
Planned ==
  ~sweep.debris /\ ~Walking =>
    /\ \A e \in plan : \E p \in Listed : Ripe(p) /\ e = AsFirstSeen(p)
    /\ \A p \in Listed : \A f \in plan :
         Ripe(p) /\ AsFirstSeen(p) \notin plan => Len(p) >= Len(f.path)

\* What is being removed.
Working ==
  Busy =>
    /\ cur = AsFirstSeen(cur.path) /\ cur.path \in Listed
    /\ sweep.debris => /\ Debris(cur) /\ cur.ino \in Files
                       /\ ~PendingIn(stack, cur.path)
                       /\ pc # "inspect" => cur.ino \notin openf
    /\ ~sweep.debris =>
         /\ Ripe(cur.path) /\ ~Spared(cur.path) /\ cur \notin plan
         /\ \A f \in plan : Len(f.path) <= Len(cur.path)
         /\ \A p \in Listed :
              Ripe(p) /\ AsFirstSeen(p) \notin plan => Len(p) >= Len(cur.path)

Holding ==
  Removing =>
    /\ opened < Len(cur.path) /\ held = There(Pre(cur.path, opened))
    /\ pc # "open" => opened = Len(cur.path) - 1
    /\ pc = "list" => cur.ino \in Dirs
    /\ pc = "unlink" => Target(cur.path)

\* The file system is as before, without what is gone.
Emptied ==
  \A s \in Slots :
    slot[s] = IF \E p \in Gone : Home(p) = s THEN None ELSE before.slots[s]

Lost == {x.ino : x \in removed} = {There(p) : p \in Gone}

AsBefore ==
  /\ \A i \in Inodes : ver[i] = 0 \/ \E p \in Gone : There(p) = i
  /\ \A f \in Files : age[f] = before.age[f]
  /\ Walking /\ ~sweep.debris => age = before.age

Ended ==
  /\ pc \in {"next", "done"} => stack = <<>>
  /\ Busy /\ ~sweep.debris => stack = <<>>
  /\ pc = "done" => plan = {}

World == Emptied /\ Lost /\ AsBefore

Calm ==
  /\ FramedIn(stack) /\ ChainIn(stack) /\ Looking /\ Listing
  /\ Planned /\ Working /\ Holding /\ World /\ Ended

SweptInv == Rooted /\ (Quiet => Calm)

----------------------------------------------------------------------------
(***************************************************************************)
(* The tree as it is by now.                                               *)
(***************************************************************************)
\* What is gone is gone, and all else is in its place.
LEMMA InPlace ==
  ASSUME Rooted, Emptied
  PROVE  /\ \A p \in Gone : slot[Home(p)] = None
         /\ \A p \in Known \ Gone : slot[Home(p)] = There(p)
         /\ \A s \in Slots : slot[s] # None => slot[s] = before.slots[s]
<1>1. ASSUME NEW p \in Gone
      PROVE  slot[Home(p)] = None
  <2>1. p \in Known
    BY DEF Gone
  <2>2. Home(p) \in Slots
    BY <2>1, KnownFacts
  <2> QED
    BY <2>2 DEF Emptied
<1>2. ASSUME NEW p \in Known \ Gone
      PROVE  slot[Home(p)] = There(p)
  <2>1. Home(p) \in Slots /\ before.slots[Home(p)] = There(p)
    BY KnownFacts
  <2>2. ~\E q \in Gone : Home(q) = Home(p)
    <3> SUFFICES ASSUME NEW q \in Gone, Home(q) = Home(p) PROVE FALSE
      OBVIOUS
    <3>1. q \in Known
      BY DEF Gone
    <3>2. q = p
      BY <3>1, OneSlot
    <3> QED
      BY <3>2
  <2> QED
    BY <2>1, <2>2 DEF Emptied
<1>3. \A s \in Slots : slot[s] # None => slot[s] = before.slots[s]
  BY DEF Emptied
<1> QED
  BY <1>1, <1>2, <1>3

\* A file that is not gone is as it was.
LEMMA FileAsSeen ==
  ASSUME Rooted, Emptied, AsBefore, NEW p \in Known \ Gone, There(p) \in Files
  PROVE  /\ Nlink(There(p)) = Links0(There(p)) /\ ver[There(p)] = 0
         /\ age[There(p)] = before.age[There(p)]
<1> DEFINE i == There(p)
<1>1. ASSUME NEW q \in Gone
      PROVE  There(q) # i
  <2> SUFFICES ASSUME There(q) = i PROVE FALSE
    OBVIOUS
  <2>1. q \in Known /\ Target(q)
    BY DEF Gone
  <2>2. Links0(There(q)) = 1
    BY <2>1, TargetFact
  <2>3. Home(p) \in Slots /\ before.slots[Home(p)] = There(q)
    BY KnownFacts
  <2>4. Home(p) = Home(q)
    BY <2>1, <2>2, <2>3, OneLink
  <2>5. p = q
    BY <2>1, <2>4, OneSlot
  <2> QED
    BY <2>5
<1>2. \A s \in Slots : slot[s] = i <=> before.slots[s] = i
  <2> SUFFICES ASSUME NEW s \in Slots PROVE slot[s] = i <=> before.slots[s] = i
    OBVIOUS
  <2>1. i # None
    BY DEF Known
  <2>2. ASSUME NEW q \in Gone, Home(q) = s
        PROVE  before.slots[s] # i
    <3>1. q \in Known
      BY DEF Gone
    <3>2. before.slots[s] = There(q)
      BY <2>2, <3>1, KnownFacts
    <3> QED
      BY <1>1, <3>2
  <2> QED
    BY <2>1, <2>2 DEF Emptied
<1>3. Nlink(i) = Links0(i)
  BY <1>2 DEF Nlink, Links0
<1>4. i \in Inodes
  BY DEF Inodes
<1>5. ver[i] = 0
  BY <1>1, <1>4 DEF AsBefore
<1> QED
  BY <1>3, <1>5 DEF AsBefore

\* Without debris, nothing is removed during the walk.
LEMMA WalkOnly ==
  ASSUME Rooted, TypeOK, World, Walking, ~sweep.debris
  PROVE  /\ Gone = {} /\ slot = before.slots /\ age = before.age
         /\ \A i \in Inodes : ver[i] = 0 /\ Nlink(i) = Links0(i)
<1>1. Gone = {}
  BY DEF Gone, Finished
<1>2. \A s \in Slots : slot[s] = before.slots[s]
  BY <1>1 DEF World, Emptied
<1>3. slot = before.slots
  <2>1. slot \in [Slots -> Dirs \cup Files \cup Links \cup {None}]
    BY DEF TypeOK
  <2>2. before.slots \in [Slots -> Dirs \cup Files \cup Links \cup {None}]
    BY DEF Rooted, IsTree
  <2> QED
    BY <1>2, <2>1, <2>2
<1> QED
  BY <1>1, <1>3 DEF World, AsBefore, Nlink, Links0

----------------------------------------------------------------------------
(***************************************************************************)
(* What the rules say does not change during a quiet run.                  *)
(***************************************************************************)
Same == before' = before /\ sweep' = sweep /\ openf' = openf

\* The tree before the run, and what is read off it, stays.
LEMMA TreeSame ==
  ASSUME Same
  PROVE  /\ \A p : There(p)' = There(p) /\ Home(p)' = Home(p)
         /\ \A p : AsFirstSeen(p)' = AsFirstSeen(p)
         /\ \A p : Clean(p)' <=> Clean(p)
         /\ \A p : OutOfGit(p)' <=> OutOfGit(p)
         /\ Known' = Known /\ Listed' = Listed
<1>1. before' = before
  BY DEF Same
<1>2. \A p : There(p)' = There(p)
  BY <1>1 DEF There
<1>3. \A p : Home(p)' = Home(p)
  BY <1>1 DEF Home
<1>4. \A p : AsFirstSeen(p)' = AsFirstSeen(p)
  BY <1>1, <1>2 DEF AsFirstSeen, Links0
<1>5. \A p : Clean(p)' <=> Clean(p)
  BY <1>1, <1>2 DEF Clean
<1>6. \A p : OutOfGit(p)' <=> OutOfGit(p)
  BY <1>1, <1>2 DEF OutOfGit
<1>7. Known' = Known
  BY <1>2 DEF Known
<1>8. Listed' = Listed
  BY <1>2, <1>6, <1>7 DEF Listed
<1> QED
  BY <1>2, <1>3, <1>4, <1>5, <1>6, <1>7, <1>8

\* So do the rules.
LEMMA RulesSame ==
  ASSUME Same
  PROVE  /\ \A p : Ripe(p)' <=> Ripe(p)
         /\ \A p : Target(p)' <=> Target(p)
         /\ \A e : Debris(e)' <=> Debris(e)
         /\ Rooted' <=> Rooted
<1>1. before' = before /\ sweep' = sweep /\ openf' = openf
  BY DEF Same
<1>2. \A p : There(p)' = There(p)
  BY TreeSame
<1>3. \A p : OutOfGit(p)' <=> OutOfGit(p)
  BY TreeSame
<1>4. \A p : Ripe(p)' <=> Ripe(p)
  BY <1>1, <1>2, TreeSame DEF Ripe
<1>5. \A p : Removable(p)' <=> Removable(p)
  BY <1>1, <1>2, <1>3 DEF Removable
<1>6. \A p : ShouldGo(p)' <=> ShouldGo(p)
  BY <1>1, <1>2, <1>5 DEF ShouldGo
<1>7. \A p : IsDebris(p)' <=> IsDebris(p)
  BY <1>1, <1>2, <1>3 DEF IsDebris
<1>8. \A p : Target(p)' <=> Target(p)
  BY <1>6, <1>7 DEF Target
<1>9. \A e : Debris(e)' <=> Debris(e)
  BY <1>1 DEF Debris
<1>10. Rooted' <=> Rooted
  BY <1>1 DEF Rooted
<1> QED
  BY <1>4, <1>8, <1>9, <1>10

\* Nothing is removed by a step that leaves what is gone as it is.
LEMMA WorldSame ==
  ASSUME Same, World, Gone' = Gone, UNCHANGED <<slot, ver, age, removed>>,
         Walking' /\ ~sweep.debris => Walking
  PROVE  World'
<1>1. sweep' = sweep /\ before' = before
  BY DEF Same
<1>2. Emptied'
  BY <1>1, TreeSame DEF World, Emptied
<1>3. Lost'
  BY TreeSame DEF World, Lost
<1>4. AsBefore'
  BY <1>1, TreeSame DEF World, AsBefore
<1> QED
  BY <1>2, <1>3, <1>4 DEF World

----------------------------------------------------------------------------
(***************************************************************************)
(* The stack of the walk.                                                  *)
(***************************************************************************)
\* Where the walk is: at the next name of its innermost directory.
LEMMA Here ==
  ASSUME TypeOK, Rooted, FramedIn(stack), stack # <<>>, Top.left # {}
  PROVE  /\ Len(stack) \in Nat \ {0} /\ DOMAIN stack = 1..Len(stack)
         /\ Top = stack[Len(stack)] /\ Len(stack) \in 1..Len(stack)
         /\ NextName \in Top.left /\ NextName \in Names
         /\ Top.path \in Seq(Names) /\ Len(Top.path) = Len(stack) - 1
         /\ Top.dir = There(Top.path) /\ There(Top.path) \in Folders
         /\ Clean(Top.path)
         /\ Next1 \in Known /\ Len(Next1) = Len(stack)
         /\ There(Next1) = before.slots[<<Top.dir, NextName>>]
         /\ Home(Next1) = <<Top.dir, NextName>>
<1>1. stack \in Seq(Frames)
  BY DEF TypeOK, Frames
<1>2. Top \in Frames /\ Len(stack) \in 1..Len(stack)
  BY <1>1, TopType
<1>3. Len(stack) \in Nat \ {0} /\ DOMAIN stack = 1..Len(stack)
  BY <1>1, <1>2, LenProperties
<1>4. NextName \in Top.left
  BY <1>1, NextNameLeft DEF NextName, Top
<1>5. NextName \in Names /\ Top.path \in Seq(Names) /\ Top.dir \in Folders
  BY <1>2, <1>4 DEF Frames
<1>6. Top = stack[Len(stack)]
  BY DEF Top
<1>7. /\ Len(Top.path) = Len(stack) - 1
      /\ There(Top.path) = Top.dir /\ Clean(Top.path)
      /\ before.slots[<<Top.dir, NextName>>] # None
  BY <1>2, <1>3, <1>4, <1>6 DEF FramedIn
<1>8. /\ There(Next1) = before.slots[<<Top.dir, NextName>>]
      /\ Next1 \in Known /\ Home(Next1) = <<Top.dir, NextName>>
  BY <1>5, <1>7, Grown DEF Next1
<1>9. Len(Next1) = Len(stack)
  <2>1. Len(Next1) = Len(Top.path) + 1
    BY <1>5, PreAppend DEF Next1
  <2> DEFINE n == Len(stack)
             k == Len(Top.path)
             i == Len(Next1)
  <2>2. n \in Nat \ {0} /\ k = n - 1 /\ i = k + 1
    BY <1>3, <1>7, <2>1
  <2> HIDE DEF n, k, i
  <2>3. i = n
    BY <2>2
  <2> QED
    BY <2>3 DEF n, i
<1> QED
  BY <1>2, <1>3, <1>4, <1>5, <1>6, <1>7, <1>8, <1>9

\* All that lies there is still to come, ...
LEMMA StillPending ==
  ASSUME TypeOK, Rooted, FramedIn(stack), stack # <<>>, Top.left # {},
         NEW p \in Known, IsPrefix(Next1, p)
  PROVE  PendingIn(stack, p)
<1> DEFINE m == Len(stack)
<1>1. /\ m \in Nat \ {0} /\ m \in DOMAIN stack /\ Top = stack[m]
      /\ NextName \in Top.left /\ NextName \in Names
      /\ Top.path \in Seq(Names) /\ Len(Top.path) = m - 1
      /\ Next1 \in Known /\ Len(Next1) = m
  BY Here
<1> HIDE DEF m
<1>2. p \in Seq(Names) /\ Next1 \in Seq(Names)
  BY <1>1, KnownFacts
<1>3. Len(p) \in Nat /\ m <= Len(p) /\ Next1 = Pre(p, m)
  BY <1>1, <1>2, PrefixIsPre
<1>4. m \in 0..Len(p) /\ m - 1 \in 0..m /\ m \in 1..m /\ m <= Len(p) + 1
  BY <1>1, <1>3
<1>5. Pre(Next1, m - 1) = Pre(p, m - 1)
  BY <1>2, <1>3, <1>4, PreOfPre
<1>6. Pre(Next1, m - 1) = Top.path /\ Next1[m] = NextName
  <2>1. m - 1 \in 0..m - 1 /\ m - 1 + 1 = m
    BY <1>1
  <2>2. Pre(Append(Top.path, NextName), m - 1) = Pre(Top.path, m - 1)
    BY <1>1, <2>1, PreAppend
  <2>3. Append(Top.path, NextName)[m - 1 + 1] = NextName
    BY <1>1, PreAppend
  <2> QED
    BY <1>1, <2>1, <2>2, <2>3, PreSelf DEF Next1
<1>7. p[m] = NextName
  <2>1. Pre(p, m)[m] = p[m]
    BY <1>2, <1>4, PreType
  <2> QED
    BY <1>3, <1>6, <2>1
<1> QED
  BY <1>1, <1>4, <1>5, <1>6, <1>7 DEF PendingIn

\* ... so none of it is gone, and the next entry is in its place.
LEMMA StillThere ==
  ASSUME TypeOK, Rooted, FramedIn(stack), Emptied, Walking,
         stack # <<>>, Top.left # {}
  PROVE  /\ \A p \in Known : IsPrefix(Next1, p) => p \notin Gone
         /\ slot[<<Top.dir, NextName>>] = There(Next1)
         /\ There(Next1) \in Dirs \cup Files \cup Links
         /\ \A p \in Known : IsPrefix(Next1, p) /\ There(Next1) \notin Folders
              => p = Next1
         /\ IsPrefix(Next1, Next1)
<1>1. \A p \in Known : IsPrefix(Next1, p) => p \notin Gone
  BY StillPending DEF Gone, Finished
<1>2. Next1 \in Known /\ Home(Next1) = <<Top.dir, NextName>>
  BY Here
<1>3. Next1 \in Seq(Names) /\ There(Next1) \in Dirs \cup Files \cup Links
  BY <1>2, KnownFacts
<1>4. IsPrefix(Next1, Next1)
  BY <1>3, PrefixIsPre, PreSelf
<1>5. slot[<<Top.dir, NextName>>] = There(Next1)
  BY <1>1, <1>2, <1>4, InPlace
<1>6. \A p \in Known : IsPrefix(Next1, p) /\ There(Next1) \notin Folders
         => p = Next1
  <2> SUFFICES ASSUME NEW p \in Known, IsPrefix(Next1, p), p # Next1
               PROVE  There(Next1) \in Folders
    OBVIOUS
  <2>1. p \in Seq(Names) /\ There(p) # None
    BY KnownFacts DEF Known
  <2> QED
    BY <1>3, <2>1, Beyond
<1> QED
  BY <1>1, <1>3, <1>4, <1>5, <1>6

\* When the next name is consumed, what lies there is no longer to come.
LEMMA AfterConsumed ==
  ASSUME TypeOK, Rooted, FramedIn(stack), ChainIn(stack), stack # <<>>,
         Top.left # {}
  PROVE  /\ Consumed # <<>> /\ FramedIn(Consumed) /\ ChainIn(Consumed)
         /\ DOMAIN Consumed = DOMAIN stack
         /\ \A k \in DOMAIN stack : Consumed[k].path = stack[k].path
         /\ NextName \notin Consumed[Len(stack)].left
         /\ \A k \in DOMAIN stack : Consumed[k].left \subseteq stack[k].left
         /\ \A p \in Known : PendingIn(Consumed, p) <=>
              PendingIn(stack, p) /\ ~IsPrefix(Next1, p)
<1> DEFINE m == Len(stack)
           new == Consumed
<1>1. /\ m \in Nat \ {0} /\ DOMAIN stack = 1..m /\ Top = stack[m] /\ m \in 1..m
      /\ NextName \in Top.left /\ NextName \in Names
      /\ Top.path \in Seq(Names) /\ Len(Top.path) = m - 1
      /\ Next1 \in Known /\ Len(Next1) = m
  BY Here
<1>2. stack \in Seq(Frames)
  BY DEF TypeOK, Frames
<1> HIDE DEF m
<1>3. /\ new \in Seq(Frames) /\ Len(new) = m
      /\ \A k \in 1..m : new[k] =
           IF k = m THEN [stack[m] EXCEPT !.left = @ \ {NextName}] ELSE stack[k]
  <2> DEFINE f == [stack[m] EXCEPT !.left = @ \ {NextName}]
  <2>1. stack[m] \in Frames
    BY <1>1, <1>2, ElementOfSeq DEF m
  <2>2. f \in Frames
    BY <2>1 DEF Frames
  <2>3. new = [stack EXCEPT ![m] = f]
    BY DEF Consumed, m
  <2>4. m = Len(stack)
    BY DEF m
  <2> HIDE DEF f, new
  <2>5. m \in 1..Len(stack)
    BY <1>1, <2>4
  <2>6. /\ [stack EXCEPT ![m] = f] \in Seq(Frames)
        /\ Len([stack EXCEPT ![m] = f]) = Len(stack)
        /\ \A k \in 1..Len(stack) :
             [stack EXCEPT ![m] = f][k] = IF k = m THEN f ELSE stack[k]
    BY <1>2, <2>2, <2>5, ExceptSeq
  <2> QED
    BY <2>3, <2>4, <2>6 DEF f
<1> HIDE DEF new
<1>4. DOMAIN new = 1..m /\ new # <<>>
  BY <1>1, <1>3, LenProperties, EmptySeq
<1>5. ASSUME NEW k \in 1..m
      PROVE  /\ new[k].path = stack[k].path /\ new[k].dir = stack[k].dir
             /\ new[k].self = stack[k].self
             /\ new[k].left \subseteq stack[k].left
             /\ new[k].left = IF k = m THEN stack[k].left \ {NextName}
                                       ELSE stack[k].left
  <2>1. stack[k] \in Frames
    BY <1>2, ElementOfSeq DEF m
  <2>2. CASE k = m
    <3>1. new[k] = [stack[k] EXCEPT !.left = @ \ {NextName}]
      BY <1>3, <2>2
    <3> QED
      BY <2>1, <2>2, <3>1 DEF Frames
  <2>3. CASE k # m
    <3>1. new[k] = stack[k]
      BY <1>3, <2>3
    <3> QED
      BY <2>3, <3>1
  <2> QED
    BY <2>2, <2>3
<1>6. FramedIn(new)
  <2> SUFFICES ASSUME NEW k \in 1..m
               PROVE  /\ Len(new[k].path) = k - 1
                      /\ There(new[k].path) = new[k].dir /\ Clean(new[k].path)
                      /\ \A n \in new[k].left :
                           before.slots[<<new[k].dir, n>>] # None
                      /\ ~sweep.debris =>
                           new[k].self = IF k = 1 THEN NoEntry
                                         ELSE AsFirstSeen(new[k].path)
    BY <1>4 DEF FramedIn
  <2>1. /\ Len(stack[k].path) = k - 1
        /\ There(stack[k].path) = stack[k].dir /\ Clean(stack[k].path)
        /\ \A n \in stack[k].left : before.slots[<<stack[k].dir, n>>] # None
        /\ ~sweep.debris => stack[k].self =
             IF k = 1 THEN NoEntry ELSE AsFirstSeen(stack[k].path)
    BY <1>1 DEF FramedIn
  <2> QED
    BY <1>5, <2>1
<1>7. ChainIn(new)
  <2> SUFFICES ASSUME NEW k \in 1..m, NEW j \in 1..k - 1
               PROVE  /\ new[j].path = Pre(new[k].path, j - 1)
                      /\ new[k].path[j] \notin new[j].left
    BY <1>4 DEF ChainIn
  <2>1. j \in 1..m
    BY <1>1
  <2>2. /\ stack[j].path = Pre(stack[k].path, j - 1)
        /\ stack[k].path[j] \notin stack[j].left
    BY <1>1 DEF ChainIn
  <2> QED
    BY <1>5, <2>1, <2>2
<1>8. ASSUME NEW p \in Known, PendingIn(stack, p), ~IsPrefix(Next1, p)
      PROVE  PendingIn(new, p)
  <2>1. PICK k \in 1..m :
          /\ k <= Len(p) + 1 /\ stack[k].path = Pre(p, k - 1)
          /\ Len(p) = k - 1 \/ p[k] \in stack[k].left
    BY <1>1, <1>8 DEF PendingIn
  <2>2. p \in Seq(Names) /\ Len(p) \in Nat
    BY KnownFacts
  <2>3. ASSUME k = m, Len(p) # k - 1
        PROVE  p[k] # NextName
    <3> SUFFICES ASSUME p[k] = NextName PROVE FALSE
      OBVIOUS
    <3>1. k \in 1..Len(p) /\ k \in 0..Len(p)
      BY <1>1, <2>1, <2>2, <2>3
    <3>2. Pre(p, k) = Next1
      BY <1>1, <2>1, <2>2, <2>3, <3>1, PreStep DEF Next1
    <3>3. m <= Len(p) /\ Next1 \in Seq(Names)
      BY <1>1, <2>3, <3>1, KnownFacts
    <3>4. IsPrefix(Next1, p)
      BY <1>1, <2>2, <2>3, <3>2, <3>3, PrefixIsPre
    <3> QED
      BY <1>8, <3>4
  <2>4. new[k].path = Pre(p, k - 1) /\ (Len(p) = k - 1 \/ p[k] \in new[k].left)
    BY <1>5, <2>1, <2>3
  <2> QED
    BY <1>4, <2>1, <2>4 DEF PendingIn
<1>9. ASSUME NEW p \in Known, PendingIn(new, p)
      PROVE  PendingIn(stack, p) /\ ~IsPrefix(Next1, p)
  <2>1. PICK k \in 1..m :
          /\ k <= Len(p) + 1 /\ new[k].path = Pre(p, k - 1)
          /\ Len(p) = k - 1 \/ p[k] \in new[k].left
    BY <1>4, <1>9 DEF PendingIn
  <2>2. PendingIn(stack, p)
    BY <1>1, <1>5, <2>1 DEF PendingIn
  <2>3. p \in Seq(Names) /\ Len(p) \in Nat /\ Next1 \in Seq(Names)
    BY <1>1, KnownFacts
  <2>4. ASSUME IsPrefix(Next1, p)
        PROVE  FALSE
    <3>1. m <= Len(p) /\ Next1 = Pre(p, m)
      BY <1>1, <2>3, <2>4, PrefixIsPre
    <3>2. m \in 0..Len(p) /\ k # Len(p) + 1 /\ k - 1 # Len(p)
      BY <1>1, <2>3, <3>1
    <3>3. \A i \in 1..m : Next1[i] = p[i]
      BY <2>3, <3>1, <3>2, PreType
    <3>4. p[k] \in new[k].left
      BY <2>1, <3>2
    <3>5. CASE k = m
      <4>1. Next1[m - 1 + 1] = NextName /\ m - 1 + 1 = m
        BY <1>1, PreAppend DEF Next1
      <4>2. p[k] = NextName
        BY <1>1, <3>3, <3>5, <4>1
      <4> QED
        BY <1>1, <1>5, <3>4, <3>5, <4>2
    <3>6. CASE k # m
      <4>1. k \in 1..m - 1
        BY <1>1, <3>6
      <4>2. Next1[k] = Top.path[k]
        BY <1>1, <4>1, PreAppend DEF Next1
      <4>3. Top.path[k] \notin stack[k].left
        BY <1>1, <4>1 DEF ChainIn
      <4> QED
        BY <1>5, <3>3, <3>4, <4>2, <4>3
    <3> QED
      BY <3>5, <3>6
  <2> QED
    BY <2>2, <2>4
<1>10. NextName \notin new[m].left
  BY <1>1, <1>5
<1>11. /\ DOMAIN new = DOMAIN stack
       /\ \A k \in DOMAIN stack : new[k].path = stack[k].path
       /\ \A k \in DOMAIN stack : new[k].left \subseteq stack[k].left
  BY <1>1, <1>4, <1>5
<1> QED
  BY <1>4, <1>6, <1>7, <1>8, <1>9, <1>10, <1>11 DEF new, m

\* When the directory at the next name is entered, all of it is still to come.
LEMMA AfterEntered ==
  ASSUME TypeOK, Rooted, FramedIn(stack), ChainIn(stack), stack # <<>>,
         Top.left # {}, There(Next1) \in Folders, Clean(Next1), NEW e,
         ~sweep.debris => e = AsFirstSeen(Next1),
         NEW left,
         left = {n \in Names : before.slots[<<There(Next1), n>>] # None},
         NEW new,
         new = Append(Consumed, [dir |-> There(Next1), path |-> Next1,
                                 left |-> left, self |-> e]),
         Consumed \in Seq(Frames), e \in Entry \cup {NoEntry}
  PROVE  /\ FramedIn(new) /\ ChainIn(new) /\ new # <<>>
         /\ \A p \in Known : PendingIn(new, p) <=> PendingIn(stack, p)
<1> DEFINE m == Len(stack)
           f == [dir |-> There(Next1), path |-> Next1, left |-> left,
                 self |-> e]
<1>1. /\ m \in Nat \ {0} /\ DOMAIN stack = 1..m /\ Top = stack[m] /\ m \in 1..m
      /\ NextName \in Top.left /\ NextName \in Names
      /\ Top.path \in Seq(Names) /\ Len(Top.path) = m - 1
      /\ Next1 \in Known /\ Len(Next1) = m
  BY Here
<1>2. /\ FramedIn(Consumed) /\ ChainIn(Consumed)
      /\ DOMAIN Consumed = DOMAIN stack
      /\ \A k \in DOMAIN stack : Consumed[k].path = stack[k].path
      /\ NextName \notin Consumed[m].left
      /\ \A k \in DOMAIN stack : Consumed[k].left \subseteq stack[k].left
      /\ \A p \in Known : PendingIn(Consumed, p) <=>
              PendingIn(stack, p) /\ ~IsPrefix(Next1, p)
  BY AfterConsumed
<1> HIDE DEF m
<1>3. Next1 \in Seq(Names)
  BY <1>1, KnownFacts
<1>4. f \in Frames
  BY <1>3 DEF Frames
<1>5. /\ new \in Seq(Frames) /\ new # <<>> /\ DOMAIN new = 1..m + 1
      /\ \A k \in 1..m : new[k] = Consumed[k]
      /\ new[m + 1] = f
  <2>1. DOMAIN Consumed = 1..Len(Consumed) /\ Len(Consumed) \in Nat
    BY LenProperties
  <2>2. Len(Consumed) = m
    BY <1>1, <1>2, <2>1
  <2> HIDE DEF f
  <2>3. /\ new \in Seq(Frames) /\ new # <<>> /\ Len(new) = Len(Consumed) + 1
        /\ \A k \in 1..Len(Consumed) : new[k] = Consumed[k]
        /\ new[Len(Consumed) + 1] = f
    BY <1>4, AppendProperties DEF f
  <2>4. DOMAIN new = 1..Len(new)
    BY <2>3, LenProperties
  <2> QED
    BY <2>2, <2>3, <2>4
<1>a. /\ f.path = Next1 /\ f.dir = There(Next1) /\ f.left = left /\ f.self = e
  OBVIOUS
<1> HIDE DEF f
<1>6. FramedIn(new)
  <2> SUFFICES ASSUME NEW k \in 1..m + 1
               PROVE  /\ Len(new[k].path) = k - 1
                      /\ There(new[k].path) = new[k].dir /\ Clean(new[k].path)
                      /\ \A n \in new[k].left :
                           before.slots[<<new[k].dir, n>>] # None
                      /\ ~sweep.debris =>
                           new[k].self = IF k = 1 THEN NoEntry
                                         ELSE AsFirstSeen(new[k].path)
    BY <1>5 DEF FramedIn
  <2>1. CASE k = m + 1
    <3>1. new[k] = f /\ Len(Next1) = k - 1 /\ k # 1
      BY <1>1, <1>5, <2>1
    <3>2. /\ new[k].path = Next1 /\ new[k].dir = There(Next1)
          /\ new[k].left = left /\ new[k].self = e
      BY <1>a, <3>1
    <3>3. \A n \in left : before.slots[<<There(Next1), n>>] # None
      OBVIOUS
    <3> QED
      BY <3>1, <3>2, <3>3
  <2>2. CASE k # m + 1
    <3>1. k \in 1..m /\ new[k] = Consumed[k] /\ k \in DOMAIN Consumed
      BY <1>1, <1>2, <1>5, <2>2
    <3> QED
      BY <1>2, <3>1 DEF FramedIn
  <2> QED
    BY <2>1, <2>2
<1>7. ChainIn(new)
  <2> SUFFICES ASSUME NEW k \in 1..m + 1, NEW j \in 1..k - 1
               PROVE  /\ new[j].path = Pre(new[k].path, j - 1)
                      /\ new[k].path[j] \notin new[j].left
    BY <1>5 DEF ChainIn
  <2>1. j \in 1..m /\ new[j] = Consumed[j] /\ j \in DOMAIN stack
    BY <1>1, <1>5
  <2>2. CASE k # m + 1
    <3>1. k \in 1..m /\ new[k] = Consumed[k] /\ k \in DOMAIN Consumed
      BY <1>1, <1>2, <1>5, <2>2
    <3>2. /\ Consumed[j].path = Pre(Consumed[k].path, j - 1)
          /\ Consumed[k].path[j] \notin Consumed[j].left
      BY <1>2, <3>1 DEF ChainIn
    <3> QED
      BY <2>1, <3>1, <3>2
  <2>3. CASE k = m + 1
    <3>1. new[k].path = Next1
      BY <1>a, <1>5, <2>3
    <3>2. j - 1 \in 0..m - 1 /\ j - 1 \in 0..Len(Top.path)
      BY <1>1, <2>1
    <3>3. Pre(Next1, j - 1) = Pre(Top.path, j - 1)
      <4> DEFINE i == j - 1
      <4>1. i \in 0..Len(Top.path)
        BY <3>2
      <4> HIDE DEF i
      <4>2. Pre(Append(Top.path, NextName), i) = Pre(Top.path, i)
        BY <1>1, <4>1, PreAppend
      <4> QED
        BY <4>2 DEF Next1, i
    <3>4. CASE j = m
      <4>1. Next1[m - 1 + 1] = NextName /\ m - 1 + 1 = m
        BY <1>1, PreAppend DEF Next1
      <4>2. Pre(Top.path, m - 1) = Top.path
        BY <1>1, PreSelf
      <4> QED
        BY <1>1, <1>2, <2>1, <3>1, <3>3, <3>4, <4>1, <4>2
    <3>5. CASE j # m
      <4>1. j \in 1..m - 1 /\ m \in DOMAIN stack
        BY <1>1, <2>1, <3>5
      <4>2. /\ stack[j].path = Pre(Top.path, j - 1)
            /\ Top.path[j] \notin stack[j].left
        BY <1>1, <4>1 DEF ChainIn
      <4>3. j \in 1..Len(Top.path)
        BY <1>1, <4>1
      <4>4. Next1[j] = Top.path[j]
        BY <1>1, <4>3, PreAppend DEF Next1
      <4> QED
        BY <1>2, <2>1, <3>1, <3>3, <4>2, <4>4
    <3> QED
      BY <3>4, <3>5
  <2> QED
    BY <2>2, <2>3
<1>8. ASSUME NEW p \in Known, PendingIn(new, p)
      PROVE  PendingIn(stack, p)
  <2>1. PICK k \in 1..m + 1 :
          /\ k <= Len(p) + 1 /\ new[k].path = Pre(p, k - 1)
          /\ Len(p) = k - 1 \/ p[k] \in new[k].left
    BY <1>5, <1>8 DEF PendingIn
  <2>2. CASE k # m + 1
    <3>1. k \in 1..m /\ new[k] = Consumed[k]
      BY <1>1, <1>5, <2>2
    <3>2. PendingIn(Consumed, p)
      BY <1>1, <1>2, <2>1, <3>1 DEF PendingIn
    <3> QED
      BY <1>2, <3>2
  <2>3. CASE k = m + 1
    <3>1. p \in Seq(Names) /\ Len(p) \in Nat
      BY KnownFacts
    <3>2. m <= Len(p) /\ k - 1 = m
      BY <1>1, <2>1, <2>3, <3>1
    <3>3. Next1 = Pre(p, m)
      BY <1>a, <1>5, <2>1, <2>3, <3>2
    <3>4. IsPrefix(Next1, p)
      BY <1>1, <1>3, <3>1, <3>2, <3>3, PrefixIsPre
    <3> QED
      BY <3>4, StillPending
  <2> QED
    BY <2>2, <2>3
<1>9. ASSUME NEW p \in Known, PendingIn(stack, p)
      PROVE  PendingIn(new, p)
  <2>1. CASE ~IsPrefix(Next1, p)
    <3>1. PendingIn(Consumed, p)
      BY <1>2, <1>9, <2>1
    <3>2. PICK k \in 1..m :
            /\ k <= Len(p) + 1 /\ Consumed[k].path = Pre(p, k - 1)
            /\ Len(p) = k - 1 \/ p[k] \in Consumed[k].left
      BY <1>1, <1>2, <3>1 DEF PendingIn
    <3>3. k \in 1..m + 1 /\ new[k] = Consumed[k]
      BY <1>1, <1>5
    <3> QED
      BY <1>5, <3>2, <3>3 DEF PendingIn
  <2>2. CASE IsPrefix(Next1, p)
    <3>1. p \in Seq(Names) /\ Len(p) \in Nat /\ There(p) # None
      BY KnownFacts DEF Known
    <3>2. m <= Len(p) /\ Next1 = Pre(p, m)
      BY <1>1, <1>3, <2>2, <3>1, PrefixIsPre
    <3>3. m + 1 \in 1..m + 1 /\ m + 1 <= Len(p) + 1 /\ m + 1 - 1 = m
      BY <1>1, <3>1, <3>2
    <3>4. ASSUME Len(p) # m
          PROVE  p[m + 1] \in left
      <4>1. Next1 # p
        BY <1>1, <3>4
      <4> QED
        BY <1>1, <1>3, <2>2, <3>1, <4>1, Beyond
    <3>5. new[m + 1].path = Next1 /\ new[m + 1].left = left
      BY <1>a, <1>5
    <3>6. PICK k \in 1..m + 1 : k = m + 1
      BY <3>3
    <3>7. k - 1 = m
      BY <1>1, <3>6
    <3>8. k \in DOMAIN new /\ k <= Len(p) + 1
      BY <1>5, <3>3, <3>6
    <3>9. new[k].path = Pre(p, k - 1)
      BY <3>2, <3>5, <3>6, <3>7
    <3>10. Len(p) = k - 1 \/ p[k] \in new[k].left
      BY <3>4, <3>5, <3>6, <3>7
    <3> QED
      BY <3>8, <3>9, <3>10 DEF PendingIn
  <2> QED
    BY <2>1, <2>2
<1> QED
  BY <1>5, <1>6, <1>7, <1>8, <1>9

\* When the innermost directory is left, only itself was still to come.
LEMMA AfterLeft ==
  ASSUME TypeOK, Rooted, FramedIn(stack), ChainIn(stack), stack # <<>>,
         Top.left = {}
  PROVE  /\ FramedIn(Front(stack)) /\ ChainIn(Front(stack))
         /\ Len(stack) \in Nat \ {0} /\ Top = stack[Len(stack)]
         /\ Len(stack) \in DOMAIN stack /\ Top.path \in Seq(Names)
         /\ Len(Top.path) = Len(stack) - 1
         /\ \A p \in Known :
              PendingIn(Front(stack), p) <=> PendingIn(stack, p) /\ p # Top.path
<1> DEFINE m == Len(stack)
           new == Front(stack)
<1>1. stack \in Seq(Frames)
  BY DEF TypeOK, Frames
<1>2. /\ Top \in Frames /\ m \in 1..m
      /\ new \in Seq(Frames) /\ Len(new) = m - 1
      /\ \A k \in 1..m - 1 : new[k] = stack[k]
  BY <1>1, TopType
<1>3. m \in Nat \ {0} /\ DOMAIN stack = 1..m /\ Top = stack[m]
  BY <1>1, <1>2, LenProperties DEF Top
<1>4. DOMAIN new = 1..m - 1
  <2>1. DOMAIN new = 1..Len(new)
    BY <1>2, LenProperties
  <2> QED
    BY <1>2, <2>1
<1>5. Top.path \in Seq(Names) /\ Len(Top.path) = m - 1
  BY <1>2, <1>3 DEF FramedIn, Frames
<1> HIDE DEF m, new
<1>6. FramedIn(new)
  <2>1. \A k \in 1..m - 1 : k \in 1..m
    BY <1>3
  <2> QED
    BY <1>2, <1>3, <1>4, <2>1 DEF FramedIn
<1>7. ChainIn(new)
  <2>1. \A k \in 1..m - 1 : k \in 1..m /\ \A j \in 1..k - 1 : j \in 1..m - 1
    BY <1>3
  <2> QED
    BY <1>2, <1>3, <1>4, <2>1 DEF ChainIn
<1>8. ASSUME NEW p \in Known, PendingIn(stack, p), p # Top.path
      PROVE  PendingIn(new, p)
  <2>1. PICK k \in 1..m :
          /\ k <= Len(p) + 1 /\ stack[k].path = Pre(p, k - 1)
          /\ Len(p) = k - 1 \/ p[k] \in stack[k].left
    BY <1>3, <1>8 DEF PendingIn
  <2>2. k # m
    <3> SUFFICES ASSUME k = m PROVE FALSE
      OBVIOUS
    <3>1. Len(p) = k - 1
      BY <1>3, <2>1
    <3>2. Pre(p, Len(p)) = p
      BY KnownFacts, PreSelf
    <3> QED
      BY <1>3, <1>8, <2>1, <3>1, <3>2
  <2>3. k \in 1..m - 1
    BY <1>3, <2>2
  <2> QED
    BY <1>2, <1>4, <2>1, <2>3 DEF PendingIn
<1>9. ASSUME NEW p \in Known, PendingIn(new, p)
      PROVE  PendingIn(stack, p) /\ p # Top.path
  <2>1. PICK k \in 1..m - 1 :
          /\ k <= Len(p) + 1 /\ new[k].path = Pre(p, k - 1)
          /\ Len(p) = k - 1 \/ p[k] \in new[k].left
    BY <1>4, <1>9 DEF PendingIn
  <2>2. k \in 1..m /\ new[k] = stack[k] /\ m \in 1..m
    BY <1>2, <1>3
  <2>3. PendingIn(stack, p)
    BY <1>3, <2>1, <2>2 DEF PendingIn
  <2>4. ASSUME p = Top.path
        PROVE  FALSE
    <3>1. Len(p) # k - 1
      BY <1>3, <1>5, <2>4
    <3>2. Top.path[k] \notin stack[k].left
      BY <1>3, <2>1, <2>2 DEF ChainIn
    <3> QED
      BY <2>1, <2>2, <2>4, <3>1, <3>2
  <2> QED
    BY <2>3, <2>4
<1> QED
  BY <1>2, <1>3, <1>5, <1>6, <1>7, <1>8, <1>9 DEF m, new

----------------------------------------------------------------------------
(***************************************************************************)
(* What most steps have in common.                                         *)
(***************************************************************************)
\* The empty path leads to the root.
LEMMA AtRoot ==
  /\ <<>> \in Seq(Names) /\ Len(<<>>) = 0 /\ There(<<>>) = Root
  /\ \A p \in Seq(Names) : Pre(p, 0) = <<>>
<1>1. <<>> \in Seq(Names) /\ Len(<<>>) = 0
  BY EmptySeq
<1>2. There(<<>>) = Root
  BY <1>1, Kindly, AtStep DEF There
<1>3. \A p \in Seq(Names) : Pre(p, 0) = <<>>
  BY PreSelf
<1> QED
  BY <1>1, <1>2, <1>3

\* What should go is among what the walk hands over.
LEMMA TargetListed ==
  ASSUME Rooted, NEW p \in Known, Target(p)
  PROVE  p \in Listed
<1>1. CASE ShouldGo(p)
  BY <1>1, GoesFact
<1>2. CASE IsDebris(p)
  BY <1>2 DEF IsDebris, Listed
<1> QED
  BY <1>1, <1>2, TargetFact DEF Target

\* The stack keeps its shape in the next state if its new value has it.
LEMMA StackSame ==
  ASSUME Same, FramedIn(stack'), ChainIn(stack')
  PROVE  FramedIn(stack)' /\ ChainIn(stack)'
<1>1. sweep' = sweep
  BY DEF Same
<1>2. FramedIn(stack)'
  BY <1>1, TreeSame DEF FramedIn, Same
<1>3. ChainIn(stack)'
  BY DEF ChainIn
<1> QED
  BY <1>2, <1>3

\* During the walk nothing is worked on.
LEMMA WalkOn ==
  ASSUME Walking'
  PROVE  Planned' /\ Working' /\ Holding' /\ Ended'
BY DEF Walking, Planned, Working, Holding, Ended, Busy, Removing

\* A step of the walk leaves the world as it is if what should go is still to
\* come whenever it was.
LEMMA WalkWorld ==
  ASSUME Rooted, Same, World, Walking, Walking',
         UNCHANGED <<slot, ver, age, removed>>,
         \A p \in Known : sweep.debris /\ Target(p) =>
           (PendingIn(stack', p) <=> PendingIn(stack, p))
  PROVE  World'
<1>1. sweep' = sweep
  BY DEF Same
<1>2. Known' = Known /\ \A p : Target(p)' <=> Target(p)
  BY TreeSame, RulesSame
<1>3. ASSUME NEW p \in Known, Target(p)
      PROVE  Finished(p)' <=> Finished(p)
  <2>1. ~Busy /\ ~Busy'
    BY DEF Walking, Busy
  <2>2. CASE sweep.debris
    <3>1. Finished(p) <=> ~PendingIn(stack, p)
      BY <2>1, <2>2 DEF Finished
    <3>2. Finished(p)' <=> ~PendingIn(stack', p)
      BY <1>1, <2>1, <2>2 DEF Finished, PendingIn
    <3> QED
      BY <1>3, <2>2, <3>1, <3>2
  <2>3. CASE ~sweep.debris
    BY <1>1, <2>3 DEF Finished
  <2> QED
    BY <2>2, <2>3
<1>4. Gone' = Gone
  BY <1>2, <1>3 DEF Gone
<1> QED
  BY <1>4, WorldSame

\* Where beav works: in its place, as it is not gone.
LEMMA AtHand ==
  ASSUME TypeOK, Rooted, AtWork, Calm, Busy
  PROVE  /\ cur.path \in Listed /\ cur.path \in Known /\ cur.path \in Seq(Names)
         /\ cur = AsFirstSeen(cur.path) /\ cur.ino = There(cur.path)
         /\ cur.ino \in Files \cup Dirs /\ cur.path \notin Gone
         /\ Len(cur.path) \in Nat \ {0} /\ Leaf \in Names
         /\ Home(cur.path) \in Slots /\ slot[Home(cur.path)] = cur.ino
         /\ Removing /\ opened = Parents =>
              /\ held = There(Pre(cur.path, Len(cur.path) - 1))
              /\ held \in Folders /\ <<held, Leaf>> = Home(cur.path)
<1> DEFINE p == cur.path
<1>1. p \in Listed /\ cur = AsFirstSeen(p)
  BY DEF Calm, Working
<1>2. cur.ino = There(p)
  BY <1>1 DEF AsFirstSeen
<1>3. p \in Known /\ There(p) \in Files \cup Dirs
  BY <1>1 DEF Listed
<1>4. /\ p \in Seq(Names) /\ Len(p) \in Nat \ {0} /\ p[Len(p)] \in Names
      /\ Home(p) \in Slots /\ There(Pre(p, Len(p) - 1)) \in Folders
      /\ Home(p) = <<There(Pre(p, Len(p) - 1)), p[Len(p)]>>
  BY <1>3, KnownFacts
<1>5. p \notin Gone
  BY DEF Gone, Finished
<1>6. slot[Home(p)] = There(p)
  BY <1>3, <1>5, InPlace DEF Calm, World
<1>7. ASSUME Removing, opened = Parents
      PROVE  held = There(Pre(p, Len(p) - 1))
  BY <1>7 DEF Calm, Holding, Parents
<1>8. Leaf = p[Len(p)]
  BY DEF Leaf
<1> QED
  BY <1>1, <1>2, <1>3, <1>4, <1>5, <1>6, <1>7, <1>8

\* beav goes on without a removal if the entry should stay.
LEMMA Onwards ==
  ASSUME TypeOK, Rooted, Calm, Same, Busy, ~Target(cur.path), Onward,
         UNCHANGED <<slot, ver, age, removed, walkVars, plan, cur>>
  PROVE  Calm'
<1>1. sweep' = sweep /\ stack' = stack /\ plan' = plan /\ list' = list
  BY DEF Same, walkVars
<1>2. ~Busy' /\ ~Removing' /\ pc' = IF sweep.debris THEN "walk" ELSE "next"
  BY DEF Onward, Resume, Busy, Removing
<1>3. FramedIn(stack)' /\ ChainIn(stack)'
  <2>1. FramedIn(stack) /\ ChainIn(stack)
    BY DEF Calm
  <2> QED
    BY <1>1, <2>1, StackSame
<1>4. Looking' /\ Listing' /\ Working' /\ Holding'
  BY <1>1, <1>2 DEF Looking, Listing, Working, Holding, Walking
<1>5. ~Walking
  BY DEF Busy, Walking
<1>6. Planned'
  <2>1. Planned
    BY DEF Calm
  <2> QED
    BY <1>1, <1>5, <2>1, TreeSame, RulesSame DEF Planned
<1>7. Gone' = Gone
  <2>1. Known' = Known /\ \A p : Target(p)' <=> Target(p)
    BY TreeSame, RulesSame
  <2>2. ASSUME NEW p \in Known, Target(p)
        PROVE  Finished(p)' <=> Finished(p)
    <3>1. p # cur.path
      BY <2>2
    <3>2. ~sweep.debris => ~Walking'
      BY <1>2 DEF Walking
    <3>3. AsFirstSeen(p)' = AsFirstSeen(p)
      BY TreeSame
    <3>4. PendingIn(stack, p)' <=> PendingIn(stack, p)
      BY <1>1 DEF PendingIn
    <3> QED
      BY <1>1, <1>2, <1>5, <3>1, <3>2, <3>3, <3>4 DEF Finished
  <2> QED
    BY <2>1, <2>2 DEF Gone
<1>8. World'
  <2>1. Walking' /\ ~sweep.debris => Walking
    BY <1>2 DEF Walking
  <2> QED
    BY <1>7, <2>1, WorldSame DEF Calm
<1>9. Ended'
  <2>1. ~sweep.debris => stack = <<>>
    BY DEF Calm, Ended
  <2> QED
    BY <1>1, <1>2, <2>1 DEF Ended
<1> QED
  BY <1>3, <1>4, <1>6, <1>8, <1>9 DEF Calm

----------------------------------------------------------------------------
(***************************************************************************)
(* The steps of the walk.                                                  *)
(***************************************************************************)
\* The next entry is seen as it was before the run.
LEMMA WalkEntryCalm ==
  ASSUME TypeOK, Rooted, Calm, Quiet, WalkEntry
  PROVE  Calm'
<1> DEFINE i == slot[<<Top.dir, NextName>>]
<1>1. pc = "walk" /\ Walking /\ stack # <<>> /\ Top.left # {} /\ mounts = {}
  BY DEF WalkEntry, Walking, Quiet
<1>2. /\ FramedIn(stack) /\ ChainIn(stack) /\ World /\ Emptied /\ AsBefore
  BY DEF Calm, World
<1>3. Same /\ UNCHANGED <<slot, ver, age, removed, list>>
  BY DEF WalkEntry, Same, fsVars, history
<1>4. i = There(Next1) /\ There(Next1) \in Dirs \cup Files \cup Links
      /\ Next1 \notin Gone /\ Next1 \in Known
  BY <1>1, <1>2, StillThere, Here
<1>5. i # None /\ i \notin mounts
  BY <1>1, <1>4, Kindly
<1>6. /\ pc' = "mount" /\ stack' = stack
      /\ look' = Seen(Append(Top.path, NextName), i)
  BY <1>5 DEF WalkEntry
<1>7. Walking'
  BY <1>6 DEF Walking
<1>8. ASSUME i \in Files \/ ~sweep.debris
      PROVE  Nlink(i) = Links0(i) /\ ver[i] = 0 /\ age[i] = before.age[i]
  <2>1. CASE ~sweep.debris
    <3>1. i \in Inodes
      BY <1>4 DEF Inodes, Folders
    <3> QED
      BY <1>1, <1>2, <2>1, <3>1, WalkOnly
  <2>2. CASE i \in Files
    BY <1>2, <1>4, <2>2, FileAsSeen
  <2> QED
    BY <1>8, <2>1, <2>2
<1>9. /\ look'.path = Next1 /\ look'.ino = i
      /\ look' = [path |-> Next1, ino |-> i, ver |-> ver[i], age |-> age[i],
                  nlink |-> Nlink(i)]
  BY <1>6 DEF Seen, Next1
<1>10. i \in Files \/ ~sweep.debris => look' = AsFirstSeen(Next1)
  <2> HIDE DEF i
  <2> QED
    BY <1>4, <1>8, <1>9 DEF AsFirstSeen
<1>11. Next1' = Next1
  BY <1>6 DEF Next1, Top, NextName
<1>12. Looking'
  <2>1. There(Next1)' = There(Next1) /\ AsFirstSeen(Next1)' = AsFirstSeen(Next1)
    BY <1>3, <1>11, TreeSame DEF Same, There, AsFirstSeen, Links0
  <2>2. sweep' = sweep
    BY <1>3 DEF Same
  <2> HIDE DEF i
  <2> QED
    BY <1>4, <1>9, <1>10, <1>11, <2>1, <2>2 DEF Looking
<1>13. Listing'
  <2>1. Listing
    BY DEF Calm
  <2>2. sweep' = sweep
    BY <1>3 DEF Same
  <2> QED
    BY <1>1, <1>3, <1>6, <2>1, <2>2, TreeSame DEF Listing, PendingIn
<1>14. FramedIn(stack)' /\ ChainIn(stack)'
  BY <1>2, <1>3, <1>6, StackSame
<1>15. World'
  BY <1>1, <1>2, <1>3, <1>6, <1>7, WalkWorld
<1> QED
  BY <1>7, <1>12, <1>13, <1>14, <1>15, WalkOn DEF Calm

\* The entry is listed, considered, passed over, or to be entered.
LEMMA WalkMountCalm ==
  ASSUME TypeOK, Rooted, AtWork, Kinds, Calm, Quiet, WalkMount
  PROVE  Calm'
<1>1. /\ pc = "mount" /\ Walking /\ stack # <<>> /\ Top.left # {}
      /\ mounts = {} /\ last = "never"
  BY DEF WalkMount, Walking, Quiet, AtWork
<1>2. /\ FramedIn(stack) /\ ChainIn(stack) /\ World /\ Emptied /\ AsBefore
      /\ Listing /\ Looking
  BY DEF Calm, World
<1>3. Same /\ UNCHANGED <<slot, ver, age, removed, plan>> /\ sweep' = sweep
  BY DEF WalkMount, Same, fsVars, history
<1>4. /\ slot[<<Top.dir, NextName>>] = There(Next1)
      /\ There(Next1) \in Dirs \cup Files \cup Links
      /\ Next1 \notin Gone /\ Next1 \in Known /\ IsPrefix(Next1, Next1)
      /\ There(Next1) \notin Folders =>
           \A p \in Known : IsPrefix(Next1, p) => p = Next1
  BY <1>1, <1>2, StillThere, Here
<1>5. /\ look.path = Next1 /\ look.ino = There(Next1)
      /\ look.ino \in Files \/ ~sweep.debris => look = AsFirstSeen(Next1)
  BY <1>1, <1>2 DEF Looking
<1>6. slot[<<Top.dir, NextName>>] \notin mounts \cup {None}
  BY <1>1, <1>4, Kindly
<1>7. /\ Consumed # <<>> /\ FramedIn(Consumed) /\ ChainIn(Consumed)
      /\ \A p \in Known : PendingIn(Consumed, p) <=>
              PendingIn(stack, p) /\ ~IsPrefix(Next1, p)
  BY <1>1, <1>2, AfterConsumed
<1>8. Next1 \in Listed <=> There(Next1) \in Files \cup Dirs /\ OutOfGit(Next1)
  BY <1>4 DEF Listed
<1>9. CASE There(Next1) \in Files
  <2>1. There(Next1) \notin Folders /\ There(Next1) # None
    BY <1>9, SweepAssumption, Kindly
  <2>2. look = AsFirstSeen(Next1)
    BY <1>5, <1>9
  <2>3. Next1 \in Listed
    <3>1. /\ There(Top.path) \in Folders /\ Top.path \in Seq(Names)
          /\ NextName \in Names /\ Clean(Top.path) /\ Top.dir = There(Top.path)
          /\ There(Next1) = before.slots[<<Top.dir, NextName>>]
      BY <1>1, <1>2, Here
    <3>2. Clean(Next1)
      BY <2>1, <3>1, CleanStep DEF Next1
    <3>3. Next1 \in Seq(Names)
      BY <1>4, KnownFacts
    <3>4. OutOfGit(Next1)
      BY <2>1, <3>2, <3>3, CleanIs
    <3> QED
      BY <1>8, <1>9, <3>4
  <2>4. /\ stack' = Consumed /\ look' = NoEntry
        /\ IF sweep.debris
           THEN UNCHANGED list /\ Consider(look)
           ELSE list' = list \cup {look} /\ NotConsidered
    BY <1>5, <1>6, <1>9, <2>1, SweepAssumption DEF WalkMount
  <2>5. FramedIn(stack)' /\ ChainIn(stack)'
    BY <1>3, <1>7, <2>4, StackSame
  <2>6. \A p \in Known :
          PendingIn(stack', p) <=> PendingIn(stack, p) /\ p # Next1
    BY <1>4, <1>7, <2>1, <2>4
  <2>7. CASE ~sweep.debris
    <3>1. /\ list' = list \cup {look} /\ pc' = "walk"
      BY <2>4, <2>7 DEF NotConsidered
    <3>2. Walking' /\ Looking'
      BY <3>1 DEF Walking, Looking
    <3>3. Listing'
      <4>1. \A e \in list' : \E p \in Listed : e = AsFirstSeen(p)
        BY <1>1, <1>2, <2>2, <2>3, <2>7, <3>1 DEF Listing
      <4>2. ASSUME NEW p \in Listed
            PROVE  AsFirstSeen(p) \in list' \/ PendingIn(stack', p)
        <5>1. p \in Known
          BY DEF Listed
        <5>2. AsFirstSeen(p) \in list \/ PendingIn(stack, p)
          BY <1>1, <1>2, <2>7 DEF Listing
        <5> QED
          BY <2>2, <2>6, <3>1, <5>1, <5>2
      <4> QED
        BY <1>3, <4>1, <4>2, TreeSame DEF Listing, PendingIn
    <3>4. World'
      BY <1>1, <1>2, <1>3, <2>7, <3>2, WalkWorld
    <3> QED
      BY <2>5, <3>2, <3>3, <3>4, WalkOn DEF Calm
  <2>8. CASE sweep.debris /\ ~Debris(look)
    <3>1. pc' = "walk" /\ list' = list
      BY <2>4, <2>8 DEF Consider, NotConsidered
    <3>2. Walking' /\ Looking' /\ Listing'
      BY <1>3, <2>8, <3>1 DEF Walking, Looking, Listing
    <3>3. ~Target(Next1)
      BY <1>4, <1>9, <2>2, <2>8, TargetFact, DebrisFact
    <3>4. World'
      BY <1>1, <1>2, <1>3, <2>6, <3>2, <3>3, WalkWorld
    <3> QED
      BY <2>5, <3>2, <3>4, WalkOn DEF Calm
  <2>9. CASE sweep.debris /\ Debris(look)
    <3>1. /\ pc' = "inspect" /\ list' = list /\ cur' = look /\ held' = Root
          /\ opened' = 0
      BY <2>4, <2>9 DEF Consider, TurnTo
    <3>2. Looking' /\ Listing' /\ Holding'
      BY <3>1 DEF Walking, Looking, Listing, Holding, Removing
    <3>3. Planned' /\ Ended'
      BY <1>3, <2>9, <3>1 DEF Planned, Ended
    <3>4. cur' = AsFirstSeen(Next1) /\ cur'.path = Next1
      BY <1>5, <2>2, <3>1
    <3>5. Working'
      <4>1. cur' = AsFirstSeen(cur'.path) /\ cur'.path \in Listed
        BY <2>3, <3>4
      <4>2. Debris(cur') /\ cur'.ino \in Files
        BY <1>5, <1>9, <2>9, <3>1
      <4>3. ~PendingIn(stack', cur'.path)
        BY <1>4, <2>6, <3>4
      <4>4. Debris(cur)'
        BY <1>3, <4>2 DEF Debris
      <4>5. (AsFirstSeen(cur.path))' = AsFirstSeen(cur'.path)
        BY <1>3 DEF AsFirstSeen, There, Links0, Same
      <4>6. Listed' = Listed
        BY <1>3, TreeSame
      <4>7. ~PendingIn(stack, cur.path)'
        BY <4>3 DEF PendingIn
      <4> QED
        BY <1>3, <2>9, <3>1, <4>1, <4>2, <4>4, <4>5, <4>6, <4>7 DEF Working
    <3>6. Gone' = Gone
      <4>1. Known' = Known /\ \A p : Target(p)' <=> Target(p)
        BY <1>3, TreeSame, RulesSame
      <4>2. ASSUME NEW p \in Known
            PROVE  Finished(p)' <=> Finished(p)
        <5>1. Finished(p) <=> ~PendingIn(stack, p)
          BY <1>1, <2>9 DEF Finished, Busy
        <5>2. Finished(p)' <=> ~PendingIn(stack', p) /\ p # Next1
          BY <1>3, <2>9, <3>1, <3>4 DEF Finished, Busy, PendingIn
        <5>3. PendingIn(stack, Next1)
          BY <1>1, <1>2, <1>4, StillPending
        <5> QED
          BY <2>6, <5>1, <5>2, <5>3
      <4> QED
        BY <4>1, <4>2 DEF Gone
    <3>7. World'
      <4>1. ~Walking'
        BY <3>1 DEF Walking
      <4> QED
        BY <1>2, <1>3, <3>6, <4>1, WorldSame
    <3> QED
      BY <2>5, <3>2, <3>3, <3>5, <3>7 DEF Calm
  <2> QED
    BY <2>7, <2>8, <2>9
<1>10. CASE There(Next1) \in Dirs
  <2>1. pc' = "descend" /\ UNCHANGED <<stack, look, list>>
    BY <1>5, <1>6, <1>10, SweepAssumption, Kindly DEF WalkMount
  <2>2. FramedIn(stack)' /\ ChainIn(stack)'
    BY <1>2, <1>3, <2>1, StackSame
  <2>3. Walking'
    BY <2>1 DEF Walking
  <2>4. Next1' = Next1
    BY <2>1 DEF Next1, Top, NextName
  <2>5. Looking'
    <3>1. There(Next1)' = There(Next1)
          /\ AsFirstSeen(Next1)' = AsFirstSeen(Next1)
      BY <1>3, <2>4, TreeSame DEF Same, There, AsFirstSeen, Links0
    <3> QED
      BY <1>3, <1>5, <2>1, <2>4, <3>1 DEF Looking
  <2>6. Listing'
    BY <1>1, <1>2, <1>3, <2>1, TreeSame DEF Listing, PendingIn
  <2>7. World'
    BY <1>1, <1>2, <1>3, <2>1, <2>3, WalkWorld
  <2> QED
    BY <2>2, <2>3, <2>5, <2>6, <2>7, WalkOn DEF Calm
<1>11. CASE There(Next1) \in Links
  <2>1. There(Next1) \notin Folders \cup Files
    BY <1>11, SweepAssumption
  <2>2. stack' = Consumed /\ list' = list /\ pc' = "walk"
    BY <1>5, <1>6, <2>1 DEF WalkMount, NotConsidered
  <2>3. FramedIn(stack)' /\ ChainIn(stack)'
    BY <1>3, <1>7, <2>2, StackSame
  <2>4. Walking' /\ Looking'
    BY <2>2 DEF Walking, Looking
  <2>5. Next1 \notin Listed
    BY <1>8, <2>1, Kindly
  <2>6. \A p \in Known :
          PendingIn(stack', p) <=> PendingIn(stack, p) /\ p # Next1
    BY <1>4, <1>7, <2>1, <2>2
  <2>7. Listing'
    <3>1. \A p \in Listed : p \in Known
      BY DEF Listed
    <3>2. ~sweep.debris =>
            \A p \in Listed : AsFirstSeen(p) \in list \/ PendingIn(stack', p)
      BY <1>1, <1>2, <2>5, <2>6, <3>1 DEF Listing
    <3>3. ~sweep.debris => \A e \in list : \E p \in Listed : e = AsFirstSeen(p)
      BY <1>1, <1>2 DEF Listing
    <3> QED
      BY <1>3, <2>2, <3>2, <3>3, TreeSame DEF Listing, PendingIn
  <2>8. ~Target(Next1)
    BY <1>4, <2>5, TargetListed
  <2>9. World'
    BY <1>1, <1>2, <1>3, <2>4, <2>6, <2>8, WalkWorld
  <2> QED
    BY <2>3, <2>4, <2>7, <2>9, WalkOn DEF Calm
<1> QED
  BY <1>4, <1>9, <1>10, <1>11

\* What lies in a directory that is still to come is what lay there before.
LEMMA EntriesOfNext ==
  ASSUME TypeOK, Rooted, FramedIn(stack), Emptied, Walking, stack # <<>>,
         Top.left # {}, There(Next1) \in Folders
  PROVE  EntriesOf(There(Next1)) =
           {n \in Names : before.slots[<<There(Next1), n>>] # None}
<1> DEFINE d == There(Next1)
<1>1. Next1 \in Known /\ Next1 \in Seq(Names)
  BY Here, KnownFacts
<1>2. ASSUME NEW n \in Names, before.slots[<<d, n>>] # None
      PROVE  slot[<<d, n>>] # None
  <2> DEFINE c == Append(Next1, n)
  <2>1. c \in Known /\ Home(c) = <<d, n>> /\ There(c) # None
    BY <1>1, <1>2, Grown
  <2>2. IsPrefix(Next1, c)
    BY <1>1, PrefixAppend
  <2> HIDE DEF c
  <2>3. c \notin Gone
    BY <2>1, <2>2, StillThere
  <2> QED
    BY <2>1, <2>3, InPlace
<1>3. ASSUME NEW n \in Names, slot[<<d, n>>] # None
      PROVE  before.slots[<<d, n>>] # None
  <2>1. <<d, n>> \in Slots
    BY DEF Slots
  <2> QED
    BY <1>3, <2>1, InPlace
<1> QED
  BY <1>2, <1>3 DEF EntriesOf

\* A directory with .git in it is passed over, any other one entered.
LEMMA WalkDescendCalm ==
  ASSUME TypeOK, Rooted, AtWork, Calm, Quiet, WalkDescend
  PROVE  Calm'
<1>1. /\ pc = "descend" /\ Walking /\ stack # <<>> /\ Top.left # {}
      /\ look.ino \in Dirs
  BY DEF WalkDescend, Walking, AtWork
<1>2. /\ FramedIn(stack) /\ ChainIn(stack) /\ World /\ Emptied /\ AsBefore
      /\ Listing /\ Looking
  BY DEF Calm, World
<1>3. /\ Same /\ UNCHANGED <<slot, ver, age, removed, list>> /\ sweep' = sweep
      /\ pc' = "walk"
  BY DEF WalkDescend, Same, fsVars, history
<1>4. /\ slot[<<Top.dir, NextName>>] = There(Next1)
      /\ Next1 \in Known /\ IsPrefix(Next1, Next1)
  BY <1>1, <1>2, StillThere, Here
<1>5. look.path = Next1 /\ look.ino = There(Next1)
      /\ (~sweep.debris => look = AsFirstSeen(Next1))
  BY <1>1, <1>2 DEF Looking
<1>6. There(Next1) \in Dirs /\ There(Next1) \in Folders
  BY <1>1, <1>5, Kindly
<1>7. OpenDir(Top.dir, NextName) = There(Next1) /\ There(Next1) # NoDir
  BY <1>4, <1>6, SweepAssumption DEF OpenDir, Inodes
<1> DEFINE left == {n \in Names : before.slots[<<There(Next1), n>>] # None}
<1>8. EntriesOf(There(Next1)) = left
  BY <1>1, <1>2, <1>6, EntriesOfNext
<1>9. stack' = IF Git \in left THEN Consumed
               ELSE Append(Consumed, Frame(There(Next1), Next1, look))
  BY <1>5, <1>7, <1>8 DEF WalkDescend
<1>10. Walking' /\ Looking'
  BY <1>3 DEF Walking, Looking
<1>11. Git \in Names
  BY SweepAssumption DEF Git, Names
<1>12. CASE Git \in left
  <2>1. stack' = Consumed
    BY <1>9, <1>12
  <2>2. /\ Consumed # <<>> /\ FramedIn(Consumed) /\ ChainIn(Consumed)
        /\ \A p \in Known : PendingIn(Consumed, p) <=>
                PendingIn(stack, p) /\ ~IsPrefix(Next1, p)
    BY <1>1, <1>2, AfterConsumed
  <2>3. ASSUME NEW p \in Known, IsPrefix(Next1, p)
        PROVE  p \notin Listed
    <3>1. p \in Seq(Names) /\ Next1 \in Seq(Names) /\ There(p) # None
      BY <1>4, KnownFacts DEF Known
    <3>2. /\ Len(Next1) <= Len(p) /\ Next1 = Pre(p, Len(Next1))
          /\ Len(Next1) \in Nat /\ Len(p) \in Nat
      BY <2>3, <3>1, PrefixIsPre
    <3>3. Len(Next1) \in 0..Len(p)
      BY <3>2
    <3>4. before.slots[<<There(Next1), Git>>] # None
      BY <1>12
    <3>5. ~Clean(p)
      BY <1>6, <3>2, <3>3, <3>4 DEF Clean
    <3> QED
      BY <3>1, <3>5, CleanIs DEF Listed
  <2>4. FramedIn(stack)' /\ ChainIn(stack)'
    BY <1>3, <2>1, <2>2, StackSame
  <2>5. Listing'
    <3>1. \A p \in Listed : p \in Known
      BY DEF Listed
    <3>2. ~sweep.debris =>
            \A p \in Listed : AsFirstSeen(p) \in list \/ PendingIn(stack', p)
      BY <1>1, <1>2, <2>1, <2>2, <2>3, <3>1 DEF Listing
    <3>3. ~sweep.debris => \A e \in list : \E p \in Listed : e = AsFirstSeen(p)
      BY <1>1, <1>2 DEF Listing
    <3> QED
      BY <1>3, <3>2, <3>3, TreeSame DEF Listing, PendingIn
  <2>6. \A p \in Known :
          Target(p) => (PendingIn(stack', p) <=> PendingIn(stack, p))
    BY <2>1, <2>2, <2>3, TargetListed
  <2>7. World'
    BY <1>1, <1>2, <1>3, <1>10, <2>6, WalkWorld
  <2> QED
    BY <1>10, <2>4, <2>5, <2>7, WalkOn DEF Calm
<1>13. CASE Git \notin left
  <2>1. /\ stack \in Seq(Frames) /\ Consumed \in Seq(Frames)
        /\ look \in Entry \cup {NoEntry}
    BY <1>1, TopType DEF TypeOK, Frames
  <2>2. /\ There(Top.path) \in Folders /\ Top.path \in Seq(Names)
        /\ NextName \in Names /\ Clean(Top.path) /\ Top.dir = There(Top.path)
        /\ There(Next1) = before.slots[<<Top.dir, NextName>>]
    BY <1>1, <1>2, Here
  <2>3. before.slots[<<There(Next1), Git>>] = None
    BY <1>11, <1>13
  <2>4. Clean(Next1)
    <3>1. before.slots[<<There(Top.path), NextName>>] # None
      BY <1>6, <2>2, Kindly
    <3> QED
      BY <2>2, <2>3, <3>1, CleanStep DEF Next1
  <2>5. stack' = Append(Consumed, [dir |-> There(Next1), path |-> Next1,
                                   left |-> left, self |-> look])
    BY <1>8, <1>9, <1>13 DEF Frame
  <2> HIDE DEF left
  <2>6. left = {n \in Names : before.slots[<<There(Next1), n>>] # None}
    BY DEF left
  <2>7. /\ FramedIn(stack') /\ ChainIn(stack')
        /\ \A p \in Known : PendingIn(stack', p) <=> PendingIn(stack, p)
    BY <1>1, <1>2, <1>5, <1>6, <2>1, <2>4, <2>5, <2>6, AfterEntered
  <2>8. FramedIn(stack)' /\ ChainIn(stack)'
    BY <1>3, <2>7, StackSame
  <2>9. Listing'
    <3>1. \A p \in Listed : p \in Known
      BY DEF Listed
    <3>2. ~sweep.debris =>
            \A p \in Listed : AsFirstSeen(p) \in list \/ PendingIn(stack', p)
      BY <1>1, <1>2, <2>7, <3>1 DEF Listing
    <3>3. ~sweep.debris => \A e \in list : \E p \in Listed : e = AsFirstSeen(p)
      BY <1>1, <1>2 DEF Listing
    <3> QED
      BY <1>3, <3>2, <3>3, TreeSame DEF Listing, PendingIn
  <2>10. World'
    BY <1>1, <1>2, <1>3, <1>10, <2>7, WalkWorld
  <2> QED
    BY <1>10, <2>8, <2>9, <2>10, WalkOn DEF Calm
<1> QED
  BY <1>12, <1>13

\* A directory is listed when all that it holds has been.
LEMMA WalkUpCalm ==
  ASSUME TypeOK, Rooted, Calm, Quiet, WalkUp
  PROVE  Calm'
<1>1. pc = "walk" /\ Walking /\ stack # <<>> /\ Top.left = {}
  BY DEF WalkUp, Walking
<1>2. /\ FramedIn(stack) /\ ChainIn(stack) /\ World /\ Listing
  BY DEF Calm
<1>3. /\ Same /\ UNCHANGED <<slot, ver, age, removed>> /\ sweep' = sweep
      /\ pc' = "walk" /\ stack' = Front(stack)
      /\ list' = IF Top.self = NoEntry \/ sweep.debris THEN list
                 ELSE list \cup {Top.self}
  BY <1>1 DEF WalkUp, Same, fsVars, history
<1> DEFINE m == Len(stack)
           p0 == Top.path
<1>4. /\ FramedIn(Front(stack)) /\ ChainIn(Front(stack))
      /\ m \in Nat \ {0} /\ Top = stack[m]
      /\ m \in DOMAIN stack /\ p0 \in Seq(Names)
      /\ Len(p0) = m - 1
      /\ \A p \in Known :
           PendingIn(Front(stack), p) <=> PendingIn(stack, p) /\ p # p0
  BY <1>1, <1>2, AfterLeft
<1>5. /\ There(p0) = Top.dir /\ Clean(p0)
      /\ ~sweep.debris =>
           Top.self = IF m = 1 THEN NoEntry ELSE AsFirstSeen(p0)
  BY <1>2, <1>4 DEF FramedIn
<1>6. Top.dir \in Folders
  <2>1. stack \in Seq(Frames)
    BY DEF TypeOK, Frames
  <2>2. Top \in Frames
    BY <1>1, <2>1, TopType
  <2> QED
    BY <2>2 DEF Frames
<1> HIDE DEF m, p0
<1>7. p0 \in Known => There(p0) \in Dirs
  BY <1>5, <1>6, KnownFacts, Kindly
<1>8. m # 1 => p0 \in Listed
  <2> SUFFICES ASSUME m # 1 PROVE p0 \in Listed
    OBVIOUS
  <2>1. There(p0) # None
    BY <1>5, <1>6, Kindly
  <2>2. Len(p0) \in 0..Len(p0) /\ Len(p0) # 0
    BY <1>4
  <2>3. p0 \in Known
    BY <1>4, <2>1, <2>2, WayKnown, PreSelf
  <2>4. OutOfGit(p0)
    BY <1>4, <1>5, <2>1, CleanIs
  <2> QED
    BY <1>7, <2>3, <2>4 DEF Listed
<1>9. p0 \in Known => m # 1
  <2> SUFFICES ASSUME p0 \in Known, m = 1 PROVE FALSE
    OBVIOUS
  <2>1. Len(p0) \in Nat \ {0}
    BY KnownFacts
  <2> QED
    BY <1>4, <2>1
<1>10. m # 1 => AsFirstSeen(p0) # NoEntry
  <2> SUFFICES ASSUME m # 1 PROVE AsFirstSeen(p0) # NoEntry
    OBVIOUS
  <2>1. p0 # <<>>
    BY <1>8, KnownFacts DEF Listed
  <2>2. AsFirstSeen(p0).path = p0 /\ NoEntry.path = <<>>
    BY DEF AsFirstSeen, NoEntry
  <2> QED
    BY <2>1, <2>2
<1>11. Walking' /\ Looking'
  BY <1>3 DEF Walking, Looking
<1>12. FramedIn(stack)' /\ ChainIn(stack)'
  BY <1>3, <1>4, StackSame
<1>13. Listing'
  <2>1. CASE sweep.debris
    BY <1>3, <2>1 DEF Listing
  <2>2. CASE ~sweep.debris
    <3>1. list' = IF m = 1 THEN list ELSE list \cup {AsFirstSeen(p0)}
      BY <1>3, <1>5, <1>10, <2>2
    <3>2. \A e \in list' : \E p \in Listed : e = AsFirstSeen(p)
      BY <1>1, <1>2, <1>8, <2>2, <3>1 DEF Listing
    <3>3. ASSUME NEW p \in Listed
          PROVE  AsFirstSeen(p) \in list' \/ PendingIn(stack', p)
      <4>1. p \in Known
        BY DEF Listed
      <4>2. AsFirstSeen(p) \in list \/ PendingIn(stack, p)
        BY <1>1, <1>2, <2>2 DEF Listing
      <4>3. CASE p = p0
        BY <1>9, <3>1, <4>1, <4>3
      <4>4. CASE p # p0
        BY <1>3, <1>4, <3>1, <4>1, <4>2, <4>4
      <4> QED
        BY <4>3, <4>4
    <3> QED
      BY <1>3, <3>2, <3>3, TreeSame DEF Listing, PendingIn
  <2> QED
    BY <2>1, <2>2
<1>14. World'
  <2>1. ASSUME NEW p \in Known, sweep.debris, Target(p)
        PROVE  p # p0
    <3>1. There(p) \in Files
      BY <2>1, TargetFact
    <3> QED
      BY <1>5, <1>6, <3>1, SweepAssumption
  <2>2. \A p \in Known : sweep.debris /\ Target(p) =>
          (PendingIn(stack', p) <=> PendingIn(stack, p))
    BY <1>3, <1>4, <2>1
  <2> QED
    BY <1>1, <1>2, <1>3, <1>11, <2>2, WalkWorld
<1> QED
  BY <1>11, <1>12, <1>13, <1>14, WalkOn DEF Calm

----------------------------------------------------------------------------
(***************************************************************************)
(* The plan, and the loop over it.                                         *)
(***************************************************************************)
\* What the walk listed is condemned by the rules, as AgePlan reads them.
LEMMA DoomedIs ==
  ASSUME Rooted, NEW p \in Listed,
         \A e \in list : \E q \in Listed : e = AsFirstSeen(q),
         \A q \in Listed : AsFirstSeen(q) \in list
  PROVE  AsFirstSeen(p) \in Doomed <=> Ripe(p)
<1> DEFINE e == AsFirstSeen(p)
<1>1. /\ \A q : /\ AsFirstSeen(q).path = q /\ AsFirstSeen(q).ino = There(q)
                /\ AsFirstSeen(q).age = before.age[There(q)]
      /\ e \in list
  BY DEF AsFirstSeen
<1>2. KeptFor(e) <=>
        \E q \in Listed : before.age[There(q)] # "old" /\ IsPrefix(p, q)
  BY <1>1 DEF KeptFor, Passed
<1>3. e \in Doomed <=> /\ before.age[There(p)] = "old"
                       /\ There(p) \in Folders => ~KeptFor(e)
  BY <1>1 DEF Doomed, Passed, IsDir
<1> QED
  BY <1>2, <1>3 DEF Ripe

\* What should go is planned.
LEMMA MakePlanCalm ==
  ASSUME TypeOK, Rooted, Kinds, Calm, Quiet, MakePlan
  PROVE  Calm'
<1>1. pc = "walk" /\ Walking /\ stack = <<>>
  BY DEF MakePlan, Walking
<1>2. World /\ Listing /\ FramedIn(stack) /\ ChainIn(stack)
  BY DEF Calm
<1>3. /\ Same /\ UNCHANGED <<slot, ver, age, removed, stack>> /\ sweep' = sweep
      /\ pc' = "next" /\ plan' = Doomed
  BY DEF MakePlan, Same, fsVars, history
<1>4. ~Walking' /\ ~Busy' /\ ~Removing' /\ Looking' /\ Listing' /\ Working'
      /\ Holding'
  BY <1>3 DEF Walking, Busy, Removing, Looking, Listing, Working, Holding
<1>5. FramedIn(stack)' /\ ChainIn(stack)'
  BY <1>2, <1>3, StackSame
<1>6. Ended'
  BY <1>1, <1>3, <1>4 DEF Ended
<1>7. ~\E p : PendingIn(stack, p)
  <2>1. DOMAIN stack = {}
    BY <1>1, EmptyStacked
  <2> QED
    BY <2>1 DEF PendingIn
<1>8. CASE sweep.debris
  <2>1. Planned'
    BY <1>3, <1>8 DEF Planned
  <2>2. Gone' = Gone
    <3>1. Known' = Known /\ \A p : Target(p)' <=> Target(p)
      BY <1>3, TreeSame, RulesSame
    <3>2. ASSUME NEW p \in Known
          PROVE  Finished(p)' <=> Finished(p)
      <4>1. ~PendingIn(stack, p) /\ ~PendingIn(stack, p)'
        BY <1>3, <1>7 DEF PendingIn
      <4>2. ~Busy
        BY <1>1 DEF Busy
      <4> QED
        BY <1>3, <1>4, <1>8, <4>1, <4>2 DEF Finished
    <3> QED
      BY <3>1, <3>2 DEF Gone
  <2>3. World'
    BY <1>2, <1>3, <1>4, <2>2, WorldSame
  <2> QED
    BY <1>4, <1>5, <1>6, <2>1, <2>3 DEF Calm
<1>9. CASE ~sweep.debris
  <2>1. /\ \A e \in list : \E p \in Listed : e = AsFirstSeen(p)
        /\ \A p \in Listed : AsFirstSeen(p) \in list
    BY <1>1, <1>2, <1>7, <1>9 DEF Listing
  <2>2. \A p \in Listed : AsFirstSeen(p) \in plan' <=> Ripe(p)
    BY <1>3, <2>1, DoomedIs
  <2>3. \A e \in plan' : e \in list
    BY <1>3 DEF Doomed
  <2>4. \A e \in plan' : \E p \in Listed : Ripe(p) /\ e = AsFirstSeen(p)
    BY <2>1, <2>2, <2>3
  <2>5. Planned'
    BY <1>3, <2>2, <2>4, TreeSame, RulesSame DEF Planned
  <2>6. Gone = {} /\ Gone' = {}
    <3>1. Gone = {}
      BY <1>1, <1>9 DEF Gone, Finished
    <3>2. Known' = Known /\ \A p : Target(p)' <=> Target(p)
      BY <1>3, TreeSame, RulesSame
    <3>3. ASSUME NEW p \in Known, Target(p)
          PROVE  ~Finished(p)'
      <4>1. ShouldGo(p)
        BY <1>9, <3>3, TargetFact
      <4>2. p \in Listed /\ Ripe(p)
        BY <4>1, GoesFact
      <4>3. AsFirstSeen(p)' \in plan'
        BY <1>3, <2>2, <4>2, TreeSame
      <4> QED
        BY <1>3, <1>9, <4>3 DEF Finished
    <3> QED
      BY <3>1, <3>2, <3>3 DEF Gone
  <2>7. World'
    BY <1>2, <1>3, <1>4, <2>6, WorldSame
  <2> QED
    BY <1>4, <1>5, <1>6, <2>5, <2>7 DEF Calm
<1> QED
  BY <1>8, <1>9

\* Entries leave the plan deepest first; the spared ones are left alone.
LEMMA NextEntryCalm ==
  ASSUME TypeOK, Rooted, Kinds, Calm, Quiet, NextEntry
  PROVE  Calm'
<1>1. pc = "next" /\ ~Walking /\ ~Busy /\ ~dry
  BY DEF NextEntry, Walking, Busy, Quiet
<1>2. PICK e \in plan :
        /\ \A f \in plan : ComesFirst(e, f)
        /\ plan' = plan \ {e}
        /\ IF Spared(e.path) \/ dry
           THEN UNCHANGED <<pc, curVars>>
           ELSE cur' = e /\ held' = Root /\ opened' = 0 /\ pc' = "open"
  BY DEF NextEntry
<1>3. ~sweep.debris
  BY <1>2 DEF Kinds
<1>4. World /\ Planned /\ Ended /\ FramedIn(stack) /\ ChainIn(stack)
      /\ stack = <<>>
  BY <1>1 DEF Calm, Ended
<1>5. /\ Same /\ UNCHANGED <<slot, ver, age, removed, stack>> /\ sweep' = sweep
  BY DEF NextEntry, Same, fsVars, history, walkVars
<1>6. FramedIn(stack)' /\ ChainIn(stack)'
  BY <1>4, <1>5, StackSame
<1>7. PICK p0 \in Listed : Ripe(p0) /\ e = AsFirstSeen(p0)
  BY <1>1, <1>2, <1>3, <1>4 DEF Planned
<1>8. /\ \A q : AsFirstSeen(q).path = q
      /\ e.path = p0
  BY <1>7 DEF AsFirstSeen
<1>9. p0 \in Known /\ p0 \in Seq(Names) /\ Len(p0) \in Nat \ {0}
  BY KnownFacts DEF Listed
<1>10. \A q \in Listed : Len(q) \in Nat
  BY KnownFacts DEF Listed
<1>11. ASSUME NEW f \in plan
       PROVE  /\ Len(p0) >= Len(f.path)
              /\ \E q \in Listed : f = AsFirstSeen(q) /\ f.path = q
  <2>1. PICK q \in Listed : f = AsFirstSeen(q)
    BY <1>1, <1>3, <1>4 DEF Planned
  <2>2. f.path = q
    BY <1>8, <2>1
  <2>3. ComesFirst(e, f)
    BY <1>2
  <2>4. Len(q) \in Nat
    BY <1>10
  <2> QED
    BY <1>8, <1>9, <2>1, <2>2, <2>3, <2>4 DEF ComesFirst
<1>12. ASSUME NEW p \in Listed, Ripe(p), AsFirstSeen(p) \notin plan'
       PROVE  Len(p) >= Len(p0)
  <2>1. CASE p = p0
    BY <1>9, <2>1
  <2>2. CASE p # p0
    <3>1. AsFirstSeen(p) # e
      BY <1>8, <2>2
    <3>2. AsFirstSeen(p) \notin plan
      BY <1>2, <1>12, <3>1
    <3> QED
      BY <1>1, <1>2, <1>3, <1>4, <1>8, <1>12, <3>2 DEF Planned
  <2> QED
    BY <2>1, <2>2
<1>13. pc' \in {"next", "open"} /\ ~Walking' /\ Looking' /\ Listing'
  BY <1>1, <1>2 DEF Walking, Looking, Listing
<1>14. Planned'
  <2>1. \A f \in plan' : \E p \in Listed : Ripe(p) /\ f = AsFirstSeen(p)
    BY <1>1, <1>2, <1>3, <1>4 DEF Planned
  <2>2. ASSUME NEW p \in Listed, NEW f \in plan', Ripe(p),
               AsFirstSeen(p) \notin plan'
        PROVE  Len(p) >= Len(f.path)
    <3>1. f \in plan
      BY <1>2
    <3>2. Len(p) >= Len(p0) /\ Len(p0) >= Len(f.path) /\ Len(f.path) \in Nat
      BY <1>10, <1>11, <1>12, <2>2, <3>1
    <3> QED
      BY <1>9, <1>10, <3>2
  <2> QED
    BY <1>5, <2>1, <2>2, TreeSame, RulesSame DEF Planned
<1>15. Known' = Known /\ Listed' = Listed /\ (\A p : Target(p)' <=> Target(p))
       /\ \A p : AsFirstSeen(p)' = AsFirstSeen(p)
  BY <1>5, TreeSame, RulesSame
<1>16. CASE Spared(p0)
  <2>1. pc' = "next"
    BY <1>1, <1>2, <1>8, <1>16
  <2>2. Working' /\ Holding' /\ Ended'
    BY <1>4, <1>5, <2>1 DEF Working, Holding, Ended, Busy, Removing
  <2>3. Gone' = Gone
    <3>1. ASSUME NEW p \in Known, Target(p)
          PROVE  Finished(p)' <=> Finished(p)
      <4>1. ShouldGo(p)
        BY <1>3, <3>1, TargetFact
      <4>2. p # p0
        BY <1>16, <4>1, GoesFact
      <4>3. AsFirstSeen(p) # e
        BY <1>8, <4>2
      <4>4. AsFirstSeen(p)' \in plan' <=> AsFirstSeen(p) \in plan
        BY <1>2, <1>15, <4>3
      <4>5. ~Busy'
        BY <2>1 DEF Busy
      <4> QED
        BY <1>1, <1>3, <1>5, <1>13, <4>4, <4>5 DEF Finished
    <3> QED
      BY <1>15, <3>1 DEF Gone
  <2>4. World'
    BY <1>4, <1>5, <1>13, <2>3, WorldSame
  <2> QED
    BY <1>6, <1>13, <1>14, <2>2, <2>4 DEF Calm
<1>17. CASE ~Spared(p0)
  <2>1. cur' = e /\ held' = Root /\ opened' = 0 /\ pc' = "open"
    BY <1>1, <1>2, <1>8, <1>17
  <2>2. cur'.path = p0 /\ cur' = AsFirstSeen(p0)
    BY <1>7, <1>8, <2>1
  <2>3. Working'
    <3>1. e \notin plan'
      BY <1>2
    <3>2. \A f \in plan' : Len(f.path) <= Len(p0)
      <4> SUFFICES ASSUME NEW f \in plan' PROVE Len(f.path) <= Len(p0)
        OBVIOUS
      <4>1. f \in plan
        BY <1>2
      <4>2. Len(p0) >= Len(f.path) /\ Len(f.path) \in Nat
        BY <1>10, <1>11, <4>1
      <4> QED
        BY <1>9, <4>2
    <3>3. Ripe(p0)' /\ ~Spared(p0)'
      BY <1>5, <1>7, <1>17, RulesSame DEF Spared
    <3>4. Ripe(cur.path)' /\ ~Spared(cur.path)'
      BY <1>5, <1>7, <1>15, <1>17, <2>2, TreeSame DEF Ripe, Spared, Same, There
    <3>5. cur' = AsFirstSeen(cur.path)'
      BY <1>5, <2>2 DEF AsFirstSeen, There, Links0, Same
    <3>6. \A p \in Listed :
            Ripe(p)' /\ AsFirstSeen(p)' \notin plan' => Len(p) >= Len(p0)
      BY <1>5, <1>12, <1>15, RulesSame
    <3> QED
      BY <1>3, <1>5, <1>15, <2>1, <2>2, <3>1, <3>2, <3>4, <3>5, <3>6 DEF Working
  <2>4. Holding'
    <3>1. Pre(p0, 0) = <<>> /\ There(<<>>) = Root /\ 0 < Len(p0)
      BY <1>9, AtRoot
    <3>2. There(Pre(cur.path, opened))' = Root
      BY <1>5, <2>1, <2>2, <3>1 DEF There, Same
    <3> QED
      BY <2>1, <2>2, <3>1, <3>2 DEF Holding
  <2>5. Ended'
    BY <1>4, <1>5, <2>1 DEF Ended
  <2>6. Gone' = Gone
    <3>1. ASSUME NEW p \in Known
          PROVE  Finished(p)' <=> Finished(p)
      <4>1. Finished(p) <=> AsFirstSeen(p) \notin plan
        BY <1>1, <1>3 DEF Finished
      <4>2. Finished(p)' <=> AsFirstSeen(p) \notin plan' /\ p # p0
        BY <1>3, <1>5, <1>13, <1>15, <2>1, <2>2 DEF Finished, Busy
      <4>3. AsFirstSeen(p) = e <=> p = p0
        BY <1>7, <1>8
      <4> QED
        BY <1>2, <4>1, <4>2, <4>3
    <3> QED
      BY <1>15, <3>1 DEF Gone
  <2>7. World'
    BY <1>4, <1>5, <1>13, <2>6, WorldSame
  <2> QED
    BY <1>6, <1>13, <1>14, <2>3, <2>4, <2>5, <2>7 DEF Calm
<1> QED
  BY <1>16, <1>17

\* The loop ends with the plan.
LEMMA FinishCalm ==
  ASSUME TypeOK, Rooted, Calm, Quiet, Finish
  PROVE  Calm'
<1>1. /\ pc = "next" /\ pc' = "done" /\ plan = {} /\ plan' = {}
      /\ ~Walking /\ ~Walking' /\ ~Busy /\ ~Busy' /\ ~Removing'
  BY DEF Finish, Walking, Busy, Removing
<1>2. World /\ Planned /\ Ended /\ FramedIn(stack) /\ ChainIn(stack)
      /\ stack = <<>>
  BY <1>1 DEF Calm, Ended
<1>3. /\ Same /\ UNCHANGED <<slot, ver, age, removed, stack>> /\ sweep' = sweep
  BY DEF Finish, Same, fsVars, history, walkVars
<1>4. FramedIn(stack)' /\ ChainIn(stack)'
  BY <1>2, <1>3, StackSame
<1>5. Looking' /\ Listing' /\ Planned' /\ Working' /\ Holding' /\ Ended'
  BY <1>1, <1>2, <1>3 DEF Looking, Listing, Planned, Working, Holding, Ended
<1>6. Gone' = Gone
  <2>1. Known' = Known /\ \A p : Target(p)' <=> Target(p)
    BY <1>3, TreeSame, RulesSame
  <2>2. \A p : Finished(p)' <=> Finished(p)
    BY <1>1, <1>3 DEF Finished, PendingIn
  <2> QED
    BY <2>1, <2>2 DEF Gone
<1>7. World'
  BY <1>1, <1>2, <1>3, <1>6, WorldSame
<1> QED
  BY <1>4, <1>5, <1>7 DEF Calm

----------------------------------------------------------------------------
(***************************************************************************)
(* The removal of one entry.                                               *)
(***************************************************************************)
\* beav goes on with the same entry.
LEMMA StillBusy ==
  ASSUME TypeOK, Rooted, Calm, Same, Busy, Busy',
         UNCHANGED <<slot, ver, age, removed, walkVars, plan, cur>>, Holding',
         sweep.debris /\ pc' # "inspect" => cur.ino \notin openf
  PROVE  Calm'
<1>1. /\ sweep' = sweep /\ stack' = stack /\ plan' = plan /\ list' = list
      /\ openf' = openf /\ cur' = cur
  BY DEF Same, walkVars
<1>2. ~Walking /\ ~Walking' /\ pc' \notin {"mount", "descend", "next", "done"}
  BY DEF Busy, Walking
<1>3. World /\ Planned /\ Ended /\ FramedIn(stack) /\ ChainIn(stack) /\ Working
  BY DEF Calm
<1>4. FramedIn(stack)' /\ ChainIn(stack)'
  BY <1>1, <1>3, StackSame
<1>5. Looking' /\ Listing' /\ Ended'
  BY <1>1, <1>2, <1>3 DEF Looking, Listing, Ended
<1>6. Planned'
  BY <1>1, <1>2, <1>3, TreeSame, RulesSame DEF Planned
<1>7. Known' = Known /\ Listed' = Listed /\ (\A p : Target(p)' <=> Target(p))
      /\ (\A p : AsFirstSeen(p)' = AsFirstSeen(p))
      /\ (\A p : Ripe(p)' <=> Ripe(p))
      /\ (\A e : Debris(e)' <=> Debris(e))
  BY TreeSame, RulesSame
<1>8. Working'
  <2>1. AsFirstSeen(cur.path)' = AsFirstSeen(cur.path)
    BY <1>1 DEF AsFirstSeen, There, Links0, Same
  <2>2. Debris(cur)' <=> Debris(cur)
    BY <1>1 DEF Debris
  <2>3. PendingIn(stack, cur.path)' <=> PendingIn(stack, cur.path)
    BY <1>1 DEF PendingIn
  <2>4. Ripe(cur.path)' <=> Ripe(cur.path)
    BY <1>1, TreeSame DEF Ripe, There, Same
  <2>5. Spared(cur.path)' <=> Spared(cur.path)
    BY <1>1 DEF Spared
  <2> QED
    BY <1>1, <1>3, <1>7, <2>1, <2>2, <2>3, <2>4, <2>5 DEF Working
<1>9. Gone' = Gone
  <2>1. ASSUME NEW p \in Known
        PROVE  Finished(p)' <=> Finished(p)
    <3>1. PendingIn(stack, p)' <=> PendingIn(stack, p)
      BY <1>1 DEF PendingIn
    <3> QED
      BY <1>1, <1>2, <1>7, <3>1 DEF Finished
  <2> QED
    BY <1>7, <2>1 DEF Gone
<1>10. World'
  BY <1>2, <1>3, <1>9, WorldSame
<1> QED
  BY <1>4, <1>5, <1>6, <1>8, <1>10 DEF Calm

\* A file that someone has open is no debris; any other is.
LEMMA InspectCalm ==
  ASSUME TypeOK, Rooted, AtWork, Kinds, Calm, Quiet, Inspect, Quiet'
  PROVE  Calm'
<1>1. pc = "inspect" /\ Busy /\ sweep.debris /\ held = Root /\ opened = 0
      /\ ~dry
  BY DEF Inspect, Busy, Kinds, AtWork, Quiet
<1>2. /\ Same
      /\ UNCHANGED <<slot, ver, age, removed, walkVars, plan, cur>>
      /\ UNCHANGED <<held, opened>>
      /\ sweep' = sweep
  BY DEF Inspect, Same, fsVars, curVars
<1>3. PICK verdict \in {IF cur.ino \in openf THEN "open" ELSE "free",
                        "failed"} :
        /\ pc' = IF Clear(verdict) /\ ~dry THEN "open" ELSE Resume
        /\ verdict = "failed" => last' = "before"
  BY DEF Inspect
<1>4. verdict # "failed"
  BY <1>3 DEF Quiet
<1>5. /\ cur.path \in Known /\ cur.ino = There(cur.path)
      /\ cur.path \in Seq(Names)
      /\ Len(cur.path) \in Nat \ {0}
  BY <1>1, AtHand
<1>6. CASE cur.ino \in openf
  <2>1. Onward
    BY <1>3, <1>4, <1>6 DEF Clear, Onward
  <2>2. ~Target(cur.path)
    BY <1>1, <1>5, <1>6, TargetFact DEF IsDebris
  <2> QED
    BY <1>1, <1>2, <2>1, <2>2, Onwards
<1>7. CASE cur.ino \notin openf
  <2>1. pc' = "open" /\ Busy'
    BY <1>1, <1>3, <1>4, <1>7 DEF Clear, Busy
  <2>2. Holding'
    <3>1. /\ Pre(cur.path, 0) = <<>> /\ There(<<>>) = Root /\ 0 < Len(cur.path)
      BY <1>5, AtRoot
    <3>2. There(Pre(cur.path, opened))' = Root
      BY <1>1, <1>2, <3>1 DEF There, Same
    <3> QED
      BY <1>1, <1>2, <2>1, <3>1, <3>2 DEF Holding
  <2> QED
    BY <1>1, <1>2, <1>7, <2>1, <2>2, StillBusy
<1> QED
  BY <1>6, <1>7

\* The parents are in their places: none is gone before what it holds.
LEMMA ReopenCalm ==
  ASSUME TypeOK, Rooted, AtWork, Kinds, Calm, Quiet, Reopen
  PROVE  Calm'
<1> DEFINE p == cur.path
           k == opened + 1
           q == Pre(p, k)
<1>1. pc = "open" /\ Busy /\ Removing /\ opened < Parents /\ mounts = {}
  BY DEF Reopen, Busy, Removing, Quiet
<1>2. /\ Same /\ UNCHANGED <<slot, ver, age, removed, walkVars, plan, cur>>
      /\ sweep' = sweep
  BY DEF Reopen, Same, fsVars, history
<1>3. /\ p \in Known /\ cur.ino = There(p) /\ p \in Seq(Names)
      /\ Len(p) \in Nat \ {0} /\ There(p) # None /\ p \in Listed
  BY <1>1, AtHand DEF Known
<1>4. opened \in Nat /\ held = There(Pre(p, opened)) /\ opened < Len(p) - 1
  BY <1>1 DEF TypeOK, Calm, Holding, Parents
<1> HIDE DEF p
<1>5. /\ k \in 0..Len(p) /\ k \in 1..Len(p) /\ k < Len(p) /\ k # 0
      /\ k - 1 = opened
      /\ k = opened + 1 /\ k \in Nat
  BY <1>3, <1>4
<1> HIDE DEF k
<1>6. q \in Known /\ There(q) \in Folders /\ q \in Seq(Names) /\ Len(q) = k
  BY <1>3, <1>5, WayKnown
<1>7. Home(q) = <<held, p[k]>>
  <2>1. Home(q) = <<There(Pre(q, Len(q) - 1)), q[Len(q)]>>
    BY <1>6, KnownFacts
  <2>2. Len(q) - 1 = opened /\ opened \in 0..k
    BY <1>4, <1>5, <1>6
  <2>3. Pre(q, opened) = Pre(p, opened)
    BY <1>3, <1>5, <2>2, PreOfPre
  <2>4. q[k] = p[k]
    <3>1. k \in 1..k
      BY <1>5
    <3> QED
      BY <1>3, <1>5, <3>1, PreType
  <2> QED
    BY <1>4, <1>6, <2>1, <2>2, <2>3, <2>4
<1> HIDE DEF q
<1>8. q \notin Gone
  <2> SUFFICES ASSUME q \in Gone PROVE FALSE
    OBVIOUS
  <2>1. Target(q) /\ Finished(q)
    BY DEF Gone
  <2>2. ~sweep.debris
    <3>1. There(q) \notin Files
      BY <1>6, SweepAssumption
    <3> QED
      BY <1>6, <2>1, <3>1, TargetFact
  <2>3. ShouldGo(q)
    BY <1>6, <2>1, <2>2, TargetFact
  <2>4. q \in Listed /\ Ripe(q)
    BY <1>6, <2>3, GoesFact
  <2>5. AsFirstSeen(q) \notin plan
    BY <2>1, <2>2 DEF Finished
  <2>6. Len(q) >= Len(p)
    BY <1>1, <2>2, <2>4, <2>5 DEF Calm, Working, p
  <2> QED
    BY <1>3, <1>5, <1>6, <2>6
<1>9. slot[<<held, p[k]>>] = There(q)
  BY <1>6, <1>7, <1>8, InPlace DEF Calm, World
<1>10. OpenDir(held, p[k]) = There(q) /\ There(q) # NoDir
       /\ There(q) \notin mounts
  BY <1>1, <1>6, <1>9, SweepAssumption DEF OpenDir, Inodes
<1>11. held' = There(q) /\ opened' = k /\ pc' = "open"
  BY <1>1, <1>5, <1>10 DEF Reopen, p
<1>12. Holding'
  <2>1. There(Pre(cur.path, opened))' = There(q)
    BY <1>2, <1>11 DEF There, Same, p, q
  <2> QED
    BY <1>2, <1>5, <1>11, <2>1 DEF Holding, p
<1>13. sweep.debris => cur.ino \notin openf
  BY <1>1 DEF Calm, Working
<1>14. Busy'
  BY <1>11 DEF Busy
<1> QED
  BY <1>1, <1>2, <1>12, <1>13, <1>14, StillBusy

\* A file that is about to be removed has one link, or stays.
LEMMA RecheckCalm ==
  ASSUME TypeOK, Rooted, AtWork, Kinds, Calm, Quiet, Recheck
  PROVE  Calm'
<1> DEFINE p == cur.path
           i == slot[<<held, Leaf>>]
<1>1. /\ pc = "open" /\ Busy /\ Removing /\ opened = Parents /\ mounts = {}
      /\ ~Walking
  BY DEF Recheck, Busy, Removing, Quiet, Walking
<1>2. /\ Same
      /\ UNCHANGED <<slot, ver, age, removed, walkVars, plan, cur>>
      /\ UNCHANGED <<held, opened>>
      /\ sweep' = sweep
  BY DEF Recheck, Same, fsVars, history, curVars
<1>3. /\ p \in Known /\ cur.ino = There(p) /\ p \in Seq(Names) /\ p \in Listed
      /\ Len(p) \in Nat \ {0} /\ cur = AsFirstSeen(p) /\ p \notin Gone
      /\ cur.ino \in Files \cup Dirs /\ <<held, Leaf>> = Home(p)
      /\ slot[Home(p)] = cur.ino
  BY <1>1, AtHand
<1>4. i = cur.ino
  BY <1>3
<1>5. World /\ Emptied /\ AsBefore /\ Working /\ Holding
  BY DEF Calm, World
<1>6. sweep.debris => cur.ino \notin openf
  BY <1>1, <1>5 DEF Working
<1>7. Target(p) /\ ~IsDir(cur) => cur.nlink = 1
  <2>1. cur.nlink = Links0(There(p))
    BY <1>3 DEF AsFirstSeen
  <2>2. ~IsDir(cur) => There(p) \in Files
    BY <1>3, Kindly DEF IsDir
  <2> QED
    BY <1>3, <2>1, <2>2, TargetFact
<1>8. CASE IsDir(cur)
  <2>1. cur.ino \in Dirs
    BY <1>3, <1>8, SweepAssumption DEF IsDir
  <2>2. pc' = "list"
    BY <1>1, <1>4, <1>8 DEF Recheck, Unchanged
  <2>3. Busy'
    BY <2>2 DEF Busy
  <2>4. Holding'
    <3>1. There(Pre(cur.path, opened))' = There(Pre(cur.path, opened))
      BY <1>2 DEF There, Same
    <3> QED
      BY <1>1, <1>2, <1>5, <2>1, <2>2, <3>1 DEF Holding, Parents
  <2> QED
    BY <1>1, <1>2, <1>6, <2>3, <2>4, StillBusy
<1>9. CASE ~IsDir(cur)
  <2>1. There(p) \in Files
    BY <1>3, <1>9, Kindly DEF IsDir
  <2>2. Nlink(i) = Links0(There(p)) /\ ver[i] = 0
    BY <1>3, <1>4, <1>5, <2>1, FileAsSeen
  <2>3. cur.ver = 0 /\ cur.nlink = Links0(There(p))
    BY <1>3 DEF AsFirstSeen
  <2>4. Unchanged(cur, i) <=> Links0(There(p)) = 1
    BY <1>4, <1>9, <2>2, <2>3 DEF Unchanged
  <2>5. CASE Links0(There(p)) = 1
    <3>1. pc' = "unlink" /\ Busy'
      BY <1>1, <1>9, <2>4, <2>5 DEF Recheck, Busy
    <3>2. Target(p)
      <4>1. OutOfGit(p) /\ p # <<>>
        BY <1>3 DEF Listed, Known
      <4>2. CASE sweep.debris
        <5>1. Debris(AsFirstSeen(p)) /\ There(p) \notin openf
          BY <1>1, <1>3, <1>5, <4>2 DEF Working
        <5> QED
          BY <1>3, <2>1, <4>1, <4>2, <5>1, DebrisFact DEF Target
      <4>3. CASE ~sweep.debris
        <5>1. Ripe(p) /\ ~Spared(p)
          BY <1>1, <1>5, <4>3 DEF Working
        <5>2. Removable(p)
          BY <2>5, <4>1, <5>1 DEF Removable, Ripe, Links0
        <5> QED
          BY <1>3, <2>1, <4>3, <5>2, FileGoes DEF Target
      <4> QED
        BY <4>2, <4>3
    <3>3. Holding'
      <4>1. There(Pre(cur.path, opened))' = There(Pre(cur.path, opened))
        BY <1>2 DEF There, Same
      <4>2. Target(cur.path)'
        <5>1. Target(p)' <=> Target(p)
          BY <1>2, RulesSame
        <5>2. Target(cur.path)' <=> Target(p)'
          BY <1>2
          DEF Target, ShouldGo, IsDebris, There, Removable, OutOfGit, Spared
        <5> QED
          BY <3>2, <5>1, <5>2
      <4> QED
        BY <1>1, <1>2, <1>5, <3>1, <4>1, <4>2 DEF Holding, Parents
    <3> QED
      BY <1>1, <1>2, <1>6, <3>1, <3>3, StillBusy
  <2>6. CASE Links0(There(p)) # 1
    <3>1. Onward
      BY <2>4, <2>6 DEF Recheck, Onward
    <3>2. ~Target(p)
      BY <1>7, <1>9, <2>3, <2>6
    <3> QED
      BY <1>1, <1>2, <3>1, <3>2, Onwards
  <2> QED
    BY <2>5, <2>6
<1> QED
  BY <1>8, <1>9

\* A directory is empty when beav comes to it if it should go.
LEMMA EmptyIfGoes ==
  ASSUME TypeOK, Rooted, AtWork, Calm, Busy, ~sweep.debris,
         There(cur.path) \in Dirs
  PROVE  /\ EntriesOf(There(cur.path)) = {} <=> ShouldGo(cur.path)
         /\ Target(cur.path) <=> ShouldGo(cur.path)
<1> DEFINE p == cur.path
           d == There(p)
<1>1. /\ p \in Known /\ p \in Seq(Names) /\ p \in Listed /\ Len(p) \in Nat \ {0}
      /\ cur = AsFirstSeen(p)
  BY AtHand
<1>2. Emptied /\ Working /\ d \in Folders /\ ~Walking
  BY Kindly DEF Calm, World, Busy, Walking
<1>3. /\ Ripe(p) /\ ~Spared(p)
      /\ \A f \in plan : Len(f.path) <= Len(p)
  BY <1>2 DEF Working
<1>4. Target(p) <=> ShouldGo(p)
  BY <1>1, TargetFact DEF Target
<1>5. ASSUME NEW n \in Names
      PROVE  slot[<<d, n>>] # None => before.slots[<<d, n>>] # None
  <2>1. <<d, n>> \in Slots
    BY <1>2 DEF Slots
  <2> QED
    BY <1>2, <2>1, InPlace
<1>6. ASSUME NEW n \in Names, before.slots[<<d, n>>] # None
      PROVE  /\ Append(p, n) \in Known /\ Home(Append(p, n)) = <<d, n>>
             /\ slot[<<d, n>>] = None <=> ShouldGo(Append(p, n))
  <2> DEFINE c == Append(p, n)
  <2>1. c \in Known /\ Home(c) = <<d, n>> /\ There(c) # None
    BY <1>1, <1>2, <1>6, Grown
  <2>2. Len(c) = Len(p) + 1
    BY <1>1, PreAppend
  <2> HIDE DEF c
  <2>3. slot[<<d, n>>] = None <=> c \in Gone
    BY <1>2, <2>1, InPlace
  <2>4. c \in Gone => ShouldGo(c)
    BY <2>1, TargetFact DEF Gone
  <2>5. c # p
    BY <1>1, <2>2
  <2>6. AsFirstSeen(c) \notin plan
    <3>1. AsFirstSeen(c).path = c
      BY DEF AsFirstSeen
    <3> QED
      BY <1>1, <1>3, <2>2, <3>1
  <2>7. Finished(c)
    BY <1>2, <2>5, <2>6 DEF Finished
  <2>8. ShouldGo(c) => c \in Gone
    BY <2>1, <2>7 DEF Gone, Target
  <2> QED
    BY <2>1, <2>3, <2>4, <2>8 DEF c
<1>7. ASSUME ShouldGo(p)
      PROVE  EntriesOf(d) = {}
  <2> SUFFICES ASSUME NEW n \in Names, slot[<<d, n>>] # None PROVE FALSE
    BY DEF EntriesOf
  <2>1. before.slots[<<d, n>>] # None
    BY <1>5
  <2>2. ShouldGo(Append(p, n))
    BY <1>1, <1>7, <2>1, ContentGoes
  <2> QED
    BY <1>6, <2>1, <2>2
<1>8. ASSUME EntriesOf(d) = {}
      PROVE  ShouldGo(p)
  <2>1. \A n \in Names : before.slots[<<d, n>>] # None => ShouldGo(Append(p, n))
    BY <1>6, <1>8 DEF EntriesOf
  <2>2. Removable(p)
    <3>1. d \notin Files
      BY SweepAssumption DEF Folders
    <3> QED
      BY <1>1, <1>3, <3>1 DEF Removable, Ripe, Listed, Known
  <2> QED
    BY <1>1, <2>1, <2>2, DirGoes
<1> QED
  BY <1>4, <1>7, <1>8

\* A directory that still holds something stays.
LEMMA ListDirCalm ==
  ASSUME TypeOK, Rooted, AtWork, Kinds, Calm, Quiet, ListDir
  PROVE  Calm'
<1> DEFINE p == cur.path
<1>1. pc = "list" /\ Busy /\ Removing
  BY DEF ListDir, Busy, Removing
<1>2. /\ Same
      /\ UNCHANGED <<slot, ver, age, removed, walkVars, plan, cur>>
      /\ UNCHANGED <<held, opened>>
      /\ sweep' = sweep
  BY DEF ListDir, Same, fsVars, history, curVars
<1>3. Working /\ Holding
  BY DEF Calm
<1>4. opened = Parents /\ cur.ino \in Dirs
  BY <1>1, <1>3 DEF Holding, Parents
<1>5. ~sweep.debris
  <2>1. cur.ino \notin Files
    BY <1>4, SweepAssumption DEF Folders
  <2> QED
    BY <1>1, <1>3, <2>1 DEF Working
<1>6. /\ p \in Known /\ cur.ino = There(p) /\ <<held, Leaf>> = Home(p)
      /\ slot[Home(p)] = cur.ino
  BY <1>1, <1>4, AtHand
<1>7. OpenDir(held, Leaf) = There(p) /\ There(p) # NoDir
  BY <1>4, <1>6, SweepAssumption, Kindly DEF OpenDir, Inodes
<1>8. /\ EntriesOf(There(p)) = {} <=> ShouldGo(p)
      /\ Target(p) <=> ShouldGo(p)
  BY <1>1, <1>4, <1>5, <1>6, EmptyIfGoes
<1>9. CASE ShouldGo(p)
  <2>1. pc' = "unlink" /\ Busy'
    BY <1>7, <1>8, <1>9 DEF ListDir, Busy
  <2>2. Holding'
    <3>1. There(Pre(cur.path, opened))' = There(Pre(cur.path, opened))
      BY <1>2 DEF There, Same
    <3>2. Target(cur.path)'
      <4>1. Target(p)' <=> Target(p)
        BY <1>2, RulesSame
      <4>2. Target(cur.path)' <=> Target(p)'
        BY <1>2
        DEF Target, ShouldGo, IsDebris, There, Removable, OutOfGit, Spared
      <4> QED
        BY <1>8, <1>9, <4>1, <4>2
    <3> QED
      BY <1>1, <1>2, <1>3, <2>1, <3>1, <3>2 DEF Holding, Removing
  <2> QED
    BY <1>1, <1>2, <1>5, <2>1, <2>2, StillBusy
<1>10. CASE ~ShouldGo(p)
  <2>1. Onward
    BY <1>7, <1>8, <1>10 DEF ListDir, Onward
  <2> QED
    BY <1>1, <1>2, <1>8, <1>10, <2>1, Onwards
<1> QED
  BY <1>9, <1>10

\* What is removed is what should go.
LEMMA UnlinkCalm ==
  ASSUME TypeOK, Rooted, AtWork, Kinds, Calm, Quiet, Unlink
  PROVE  Calm'
<1> DEFINE p == cur.path
           h == <<held, Leaf>>
           i == slot[h]
<1>1. /\ pc = "unlink" /\ Busy /\ Removing /\ mounts = {} /\ ~Walking
  BY DEF Unlink, Busy, Removing, Quiet, Walking
<1>2. /\ Same /\ UNCHANGED <<walkVars, plan, cur, stack, list>>
      /\ sweep' = sweep
      /\ Onward
  BY DEF Unlink, Same, history, curVars, walkVars
<1>3. World /\ Emptied /\ Lost /\ AsBefore /\ Working /\ Holding /\ Planned
      /\ Ended
      /\ FramedIn(stack) /\ ChainIn(stack)
  BY DEF Calm, World
<1>4. opened = Parents /\ Target(p)
  BY <1>1, <1>3 DEF Holding, Parents
<1>5. /\ p \in Known /\ cur.ino = There(p) /\ p \in Seq(Names) /\ p \in Listed
      /\ cur = AsFirstSeen(p) /\ p \notin Gone /\ cur.ino \in Files \cup Dirs
      /\ h = Home(p) /\ h \in Slots /\ i = cur.ino /\ held \in Folders
  BY <1>1, <1>4, AtHand
<1>6. Unlinkable(i)
  <2>1. CASE IsDir(cur)
    <3>1. cur.ino \in Dirs /\ cur.ino \notin Files
      BY <1>5, <2>1, SweepAssumption DEF IsDir
    <3>2. ~sweep.debris
      BY <1>1, <1>3, <3>1 DEF Working
    <3>3. EntriesOf(There(p)) = {}
      BY <1>1, <1>4, <1>5, <3>1, <3>2, EmptyIfGoes
    <3> QED
      BY <1>1, <1>5, <2>1, <3>3 DEF Unlinkable, IsDir
  <2>2. CASE ~IsDir(cur)
    BY <1>5, <2>2, Kindly DEF Unlinkable, IsDir
  <2> QED
    BY <2>1, <2>2
<1>7. /\ slot' = [slot EXCEPT ![h] = None]
      /\ age' = [age EXCEPT ![held] = "young"]
      /\ ver' = [ver EXCEPT ![i] = @ + 1]
      /\ removed' = removed \cup {Loss(i)}
  BY <1>6 DEF Unlink
<1>8. ~Busy' /\ ~Removing' /\ pc' = IF sweep.debris THEN "walk" ELSE "next"
  BY <1>2 DEF Onward, Resume, Busy, Removing
<1>9. FramedIn(stack)' /\ ChainIn(stack)'
  BY <1>2, <1>3, StackSame
<1>10. Looking' /\ Listing' /\ Working' /\ Holding'
  BY <1>2, <1>8 DEF Looking, Listing, Working, Holding, Walking
<1>11. Planned'
  BY <1>1, <1>2, <1>3, TreeSame, RulesSame DEF Planned
<1>12. Ended'
  BY <1>1, <1>2, <1>3, <1>8 DEF Ended
<1>13. /\ Known' = Known /\ (\A q : Target(q)' <=> Target(q))
       /\ (\A q : AsFirstSeen(q)' = AsFirstSeen(q))
       /\ (\A q : There(q)' = There(q)) /\ (\A q : Home(q)' = Home(q))
       /\ before' = before
  BY <1>2, TreeSame, RulesSame DEF Same
<1>14. Gone' = Gone \cup {p}
  <2>1. ASSUME NEW q \in Known, q # p
        PROVE  Finished(q)' <=> Finished(q)
    <3>1. PendingIn(stack, q)' <=> PendingIn(stack, q)
      BY <1>2 DEF PendingIn
    <3>2. ~sweep.debris => ~Walking'
      BY <1>8 DEF Walking
    <3> QED
      BY <1>1, <1>2, <1>8, <1>13, <2>1, <3>1, <3>2 DEF Finished
  <2>2. ASSUME NEW q \in Known, q = p
        PROVE  Finished(q)'
    <3>1. PendingIn(stack, q)' <=> PendingIn(stack, q)
      BY <1>2 DEF PendingIn
    <3>2. ~sweep.debris => ~Walking'
      BY <1>8 DEF Walking
    <3>3. sweep.debris => ~PendingIn(stack, q)
      BY <1>1, <1>3, <2>2 DEF Working
    <3>4. ~sweep.debris => AsFirstSeen(q) \notin plan
      BY <1>1, <1>3, <1>5, <2>2 DEF Working
    <3>5. AsFirstSeen(q)' \notin plan' <=> AsFirstSeen(q) \notin plan
      BY <1>2, <1>13
    <3> QED
      BY <1>2, <1>8, <3>1, <3>2, <3>3, <3>4, <3>5 DEF Finished
  <2>3. p \in Known /\ Target(p) /\ p \notin Gone
    BY <1>4, <1>5
  <2> HIDE DEF p
  <2>4. \A q \in Known : Finished(q)' <=> Finished(q) \/ q = p
    BY <2>1, <2>2
  <2> QED
    BY <1>13, <2>3, <2>4 DEF Gone
<1> HIDE DEF p, h, i
<1>15. Emptied'
  <2> SUFFICES ASSUME NEW s \in Slots
               PROVE  slot'[s] = IF \E q \in Gone' : Home(q) = s THEN None
                                 ELSE before.slots[s]
    BY <1>13 DEF Emptied
  <2>1. slot[s] = IF \E q \in Gone : Home(q) = s THEN None ELSE before.slots[s]
    BY <1>3 DEF Emptied
  <2>2. slot'[s] = IF s = h THEN None ELSE slot[s]
    <3>1. s \in DOMAIN slot
      BY DEF TypeOK
    <3> QED
      BY <1>7, <3>1
  <2> QED
    BY <1>5, <1>14, <2>1, <2>2
<1>16. Lost'
  <2>1. Loss(i).ino = i
    BY DEF Loss
  <2>2. {x.ino : x \in removed'} = {x.ino : x \in removed} \cup {i}
    BY <1>7, <2>1
  <2>3. {There(q) : q \in Gone'} = {There(q) : q \in Gone} \cup {i}
    BY <1>5, <1>14 DEF p
  <2> QED
    BY <1>3, <1>13, <2>2, <2>3 DEF Lost
<1>17. AsBefore'
  <2>1. ASSUME NEW j \in Inodes
        PROVE  ver'[j] = 0 \/ \E q \in Gone' : There(q) = j
    <3>1. ver[j] = 0 \/ \E q \in Gone : There(q) = j
      BY <1>3 DEF AsBefore
    <3>2. CASE j = i
      BY <1>5, <1>14, <3>2 DEF p
    <3>3. CASE j # i
      <4>1. ver'[j] = ver[j]
        BY <1>7, <3>3 DEF TypeOK
      <4> QED
        BY <1>14, <3>1, <4>1
    <3> QED
      BY <3>2, <3>3
  <2>2. ASSUME NEW f \in Files
        PROVE  age'[f] = before.age[f]
    <3>1. f # held
      BY <1>5, SweepAssumption
    <3>2. age'[f] = age[f]
      BY <1>7, <3>1 DEF TypeOK
    <3> QED
      BY <1>3, <3>2 DEF AsBefore
  <2>3. Walking' => sweep'.debris
    BY <1>2, <1>8 DEF Walking
  <2> QED
    BY <1>13, <2>1, <2>2, <2>3 DEF AsBefore
<1> QED
  BY <1>9, <1>10, <1>11, <1>12, <1>15, <1>16, <1>17 DEF Calm, World

----------------------------------------------------------------------------
(***************************************************************************)
(* The invariant.                                                          *)
(***************************************************************************)
\* Nothing has been done.
LEMMA StutterCalm ==
  ASSUME TypeOK, Rooted, Calm, UNCHANGED vars
  PROVE  Calm'
<1>1. /\ Same /\ UNCHANGED <<slot, ver, age, removed, walkVars, plan, cur, pc>>
      /\ UNCHANGED <<held, opened>>
      /\ sweep' = sweep /\ stack' = stack /\ look' = look /\ list' = list
  BY DEF vars, Same, fsVars, history, curVars, walkVars
<1>2. FramedIn(stack)' /\ ChainIn(stack)'
  <2>1. FramedIn(stack) /\ ChainIn(stack)
    BY DEF Calm
  <2> QED
    BY <1>1, <2>1, StackSame
<1>3. Looking'
  <2>1. Next1' = Next1
    BY <1>1 DEF Next1, Top, NextName
  <2>2. There(Next1)' = There(Next1) /\ AsFirstSeen(Next1)' = AsFirstSeen(Next1)
    BY <1>1, <2>1 DEF Same, There, AsFirstSeen, Links0
  <2> QED
    BY <1>1, <2>1, <2>2 DEF Calm, Looking
<1>4. Listing'
  BY <1>1, TreeSame DEF Calm, Listing, Walking, PendingIn
<1>5. Planned'
  BY <1>1, TreeSame, RulesSame DEF Calm, Planned, Walking
<1>6. Gone' = Gone
  BY <1>1, TreeSame, RulesSame DEF Gone, Finished, PendingIn, Busy, Walking
<1>7. World'
  <2>1. Walking' <=> Walking
    BY <1>1 DEF Walking
  <2> QED
    BY <1>1, <1>6, <2>1, WorldSame DEF Calm
<1>8. Ended'
  BY <1>1 DEF Calm, Ended, Busy
<1>9. Holding'
  <2>1. There(Pre(cur.path, opened))' = There(Pre(cur.path, opened))
    BY <1>1 DEF There, Same
  <2>2. Target(cur.path)' <=> Target(cur.path)
    <3> DEFINE p == cur.path
    <3>1. Target(p)' <=> Target(p)
      BY <1>1, RulesSame
    <3> QED
      BY <1>1
      DEF Target, ShouldGo, IsDebris, There, Removable, OutOfGit, Spared, Same
  <2> QED
    BY <1>1, <2>1, <2>2 DEF Calm, Holding, Removing
<1>10. CASE Busy
  <2>1. Busy'
    BY <1>1, <1>10 DEF Busy
  <2>2. sweep.debris /\ pc' # "inspect" => cur.ino \notin openf
    BY <1>1, <1>10 DEF Calm, Working
  <2> QED
    BY <1>1, <1>9, <1>10, <2>1, <2>2, StillBusy
<1>11. CASE ~Busy
  <2>1. Working'
    BY <1>1, <1>11 DEF Working, Busy
  <2> QED
    BY <1>2, <1>3, <1>4, <1>5, <1>7, <1>8, <1>9, <2>1 DEF Calm
<1> QED
  BY <1>10, <1>11

\* Only the owner, and a search that failed, disturb a quiet run; what others
\* do to the file system is not the tree the run began with.
LEMMA QuietBefore ==
  ASSUME [Next]_vars
  PROVE  /\ before' = before /\ sweep' = sweep
         /\ Quiet' => Quiet /\ ([BeavStep]_vars)
<1>1. CASE UNCHANGED vars
  BY <1>1 DEF vars, fsVars, history, Quiet
<1>2. CASE BeavStep
  <2>1. CASE WalkEntry
    BY <1>2, <2>1 DEF WalkEntry, fsVars, history, Quiet
  <2>2. CASE WalkMount
    BY <1>2, <2>2
    DEF WalkMount, Consider, NotConsidered, TurnTo, fsVars, history, Quiet
  <2>3. CASE WalkDescend
    BY <1>2, <2>3 DEF WalkDescend, fsVars, history, Quiet
  <2>4. CASE WalkUp
    BY <1>2, <2>4 DEF WalkUp, fsVars, history, Quiet
  <2>5. CASE MakePlan
    BY <1>2, <2>5 DEF MakePlan, fsVars, history, Quiet
  <2>6. CASE NextEntry
    BY <1>2, <2>6 DEF NextEntry, fsVars, history, Quiet
  <2>7. CASE Cancelled
    BY <1>2, <2>7 DEF Cancelled, fsVars, history, Quiet
  <2>8. CASE Finish
    BY <1>2, <2>8 DEF Finish, fsVars, history, Quiet
  <2>9. CASE Inspect
    BY <1>2, <2>9 DEF Inspect, fsVars, Quiet
  <2>10. CASE Reopen
    BY <1>2, <2>10 DEF Reopen, fsVars, history, Quiet
  <2>11. CASE Recheck
    BY <1>2, <2>11 DEF Recheck, fsVars, history, Quiet
  <2>12. CASE ListDir
    BY <1>2, <2>12 DEF ListDir, fsVars, history, Quiet
  <2>13. CASE Unlink
    BY <1>2, <2>13 DEF Unlink, history, Quiet
  <2> QED
    BY <1>2, <2>1, <2>2, <2>3, <2>4, <2>5, <2>6, <2>7, <2>8, <2>9, <2>10, <2>11,
       <2>12, <2>13 DEF BeavStep
<1>3. CASE OwnerStep
  <2>1. Act /\ UNCHANGED beavVars
    <3>1. CASE \E f \in Files : Write(f) \/ OpenFile(f) \/ CloseFile(f)
      BY <3>1 DEF Write, OpenFile, CloseFile
    <3>2. CASE \E d \in Folders, n \in Names, i \in Inodes : Create(d, n, i)
      BY <3>2 DEF Create
    <3>3. CASE \E f \in Files, d \in Folders, n \in Names : HardLink(f, d, n)
      BY <3>3 DEF HardLink
    <3>4. CASE \E d \in Folders, n \in Names : Delete(d, n)
      BY <3>4 DEF Delete
    <3>5. CASE \E d, e \in Folders, n, m \in Names : Move(d, n, e, m)
      BY <3>5 DEF Move
    <3> QED
      BY <1>3, <3>1, <3>2, <3>3, <3>4, <3>5 DEF OwnerStep
  <2>2. last' # "never"
    BY <2>1 DEF Act
  <2> QED
    BY <2>1, <2>2 DEF beavVars, Quiet
<1> QED
  BY <1>1, <1>2, <1>3 DEF Next

\* Every step of a quiet run keeps it as the rules say.
LEMMA CalmKept ==
  ASSUME TypeOK, AtWork, Kinds, Rooted, Calm, Quiet, Quiet', [BeavStep]_vars
  PROVE  Calm'
<1>1. CASE UNCHANGED vars
  BY <1>1, StutterCalm
<1>2. CASE WalkEntry \/ WalkMount \/ WalkDescend \/ WalkUp
  BY <1>2, WalkEntryCalm, WalkMountCalm, WalkDescendCalm, WalkUpCalm
<1>3. CASE MakePlan \/ NextEntry \/ Finish
  BY <1>3, MakePlanCalm, NextEntryCalm, FinishCalm
<1>4. CASE Cancelled
  BY <1>4 DEF Cancelled, Quiet
<1>5. CASE Inspect \/ Reopen \/ Recheck \/ ListDir \/ Unlink
  BY <1>5, InspectCalm, ReopenCalm, RecheckCalm, ListDirCalm, UnlinkCalm
<1> QED
  BY <1>1, <1>2, <1>3, <1>4, <1>5 DEF BeavStep

\* What the walk begins with: all that it is to hand over is still to come.
LEMMA InitCalm == Init => Rooted /\ Calm
<1> SUFFICES ASSUME Init PROVE Rooted /\ Calm
  OBVIOUS
<1>1. PICK t \in Trees :
        slot = t.slots /\ mounts = t.mounts /\ target = t.target
        /\ acts = t.acts /\ sweep = t.sweep
  BY DEF Init
<1>2. /\ before = [slots |-> slot, age |-> age] /\ pc = "walk" /\ list = {}
      /\ ver = [j \in Inodes |-> 0] /\ removed = {}
      /\ stack = IF Git \in EntriesOf(Root) THEN <<>>
                 ELSE <<Frame(Root, <<>>, NoEntry)>>
  BY DEF Init
<1>3. before.slots = slot /\ before.age = age
  BY <1>2
<1>4. Rooted
  BY <1>1, <1>3, SweepAssumption DEF Rooted, IsTree
<1>5. Git \in Names
  BY SweepAssumption DEF Git, Names
<1>6. Walking /\ ~Busy /\ ~Removing
  BY <1>2 DEF Walking, Busy, Removing
<1>7. Looking /\ Planned /\ Working /\ Holding /\ Ended
  BY <1>2, <1>6 DEF Looking, Planned, Working, Holding, Ended
<1> DEFINE f == Frame(Root, <<>>, NoEntry)
<1>8. /\ f.dir = Root /\ f.path = <<>> /\ f.left = EntriesOf(Root)
      /\ f.self = NoEntry
  BY DEF Frame
<1> HIDE DEF f
<1>9. stack # <<>> => /\ DOMAIN stack = {1} /\ stack[1] = f
                      /\ before.slots[<<Root, Git>>] = None
  <2>1. DOMAIN <<f>> = {1} /\ <<f>>[1] = f
    OBVIOUS
  <2> QED
    BY <1>2, <1>3, <1>5, <2>1 DEF EntriesOf, f
<1>10. FramedIn(stack) /\ ChainIn(stack)
  <2>1. CASE stack = <<>>
    BY <2>1, EmptyStacked DEF FramedIn, ChainIn
  <2>2. CASE stack # <<>>
    <3>1. DOMAIN stack = {1} /\ stack[1] = f
      BY <1>9, <2>2
    <3>2. Clean(<<>>)
      <4> SUFFICES ASSUME NEW k \in 0..Len(<<>>)
                   PROVE  There(Pre(<<>>, k)) \in Folders =>
                            before.slots[<<There(Pre(<<>>, k)), Git>>] = None
        BY DEF Clean
      <4>1. k = 0
        BY AtRoot
      <4>2. There(Pre(<<>>, k)) = Root
        BY <4>1, AtRoot
      <4> QED
        BY <1>9, <2>2, <4>2
    <3>3. \A n \in f.left : before.slots[<<Root, n>>] # None
      BY <1>3, <1>8 DEF EntriesOf
    <3>4. FramedIn(stack)
      BY <1>8, <3>1, <3>2, <3>3, AtRoot DEF FramedIn
    <3>5. ChainIn(stack)
      <4>1. 1..1 - 1 = {}
        OBVIOUS
      <4> QED
        BY <3>1, <4>1 DEF ChainIn
    <3> QED
      BY <3>4, <3>5
  <2> QED
    BY <2>1, <2>2
<1>11. ASSUME NEW p \in Listed
       PROVE  PendingIn(stack, p)
  <2>1. p \in Known /\ OutOfGit(p) /\ p \in Seq(Names) /\ There(p) # None
        /\ p # <<>>
        /\ Len(p) \in Nat
    BY <1>4, KnownFacts DEF Listed, Known
  <2>2. stack # <<>>
    <3> SUFFICES ASSUME stack = <<>> PROVE FALSE
      OBVIOUS
    <3>1. <<f>> # <<>>
      OBVIOUS
    <3>2. before.slots[<<Root, Git>>] # None
      BY <1>2, <1>3, <3>1 DEF EntriesOf, f
    <3>3. Clean(p)
      BY <1>4, <2>1, CleanIs
    <3>4. 0 \in 0..Len(p) /\ There(Pre(p, 0)) = Root /\ Root \in Folders
      BY <2>1, AtRoot, Kindly
    <3> QED
      BY <3>2, <3>3, <3>4 DEF Clean
  <2>3. DOMAIN stack = {1} /\ stack[1] = f
    BY <1>9, <2>2
  <2>4. /\ before.slots[<<Root, p[1]>>] # None /\ p[1] \in Names
    <3>1. IsPrefix(<<>>, p)
      <4>1. <<>> \in Seq(Names) /\ Len(<<>>) <= Len(p) /\ <<>> = Pre(p, 0)
        BY <2>1, AtRoot
      <4> QED
        BY <2>1, <4>1, AtRoot, PrefixIsPre
    <3>2. /\ before.slots[<<There(<<>>), p[Len(<<>>) + 1]>>] # None
          /\ p[Len(<<>>) + 1] \in Names
      BY <1>4, <2>1, <3>1, AtRoot, Beyond
    <3>3. Len(<<>>) + 1 = 1
      BY AtRoot
    <3> QED
      BY <3>2, <3>3, AtRoot
  <2>5. p[1] \in f.left
    BY <1>3, <1>8, <2>4 DEF EntriesOf
  <2>6. 1 <= Len(p) + 1 /\ f.path = Pre(p, 1 - 1)
    BY <1>8, <2>1, AtRoot
  <2> QED
    BY <2>3, <2>5, <2>6 DEF PendingIn
<1>12. Listing
  BY <1>2, <1>11 DEF Listing
<1>13. Gone = {}
  <2> SUFFICES ASSUME NEW p \in Known, Target(p), Finished(p) PROVE FALSE
    BY DEF Gone
  <2>1. PendingIn(stack, p)
    BY <1>4, <1>11, TargetListed
  <2> QED
    BY <1>6, <2>1 DEF Finished
<1>14. World
  BY <1>2, <1>3, <1>13 DEF World, Emptied, Lost, AsBefore
<1> QED
  BY <1>4, <1>7, <1>10, <1>12, <1>14 DEF Calm

\* As long as nobody interferes, the sweep is on its way to what it should do.
THEOREM StaysCalm == Spec => []SweptInv
<1>1. Init => SweptInv
  BY InitCalm DEF SweptInv
<1>2. IndInv /\ SweptInv /\ [Next]_vars => SweptInv'
  <2> SUFFICES ASSUME IndInv, SweptInv, [Next]_vars
               PROVE  SweptInv'
    OBVIOUS
  <2>1. TypeOK /\ AtWork /\ Kinds /\ Rooted
    BY DEF IndInv, SweptInv
  <2>2. before' = before /\ sweep' = sweep
        /\ (Quiet' => Quiet /\ [BeavStep]_vars)
    BY QuietBefore
  <2>3. Rooted'
    BY <2>1, <2>2 DEF Rooted
  <2>4. Quiet' => Calm'
    BY <2>1, <2>2, CalmKept DEF SweptInv
  <2> QED
    BY <2>3, <2>4 DEF SweptInv
<1> QED
  BY <1>1, <1>2, Invariance, PTL DEF Spec

\* Left alone, a sweep removes what the rules say and nothing else: AgePlan
\* and its order, the check that a directory is empty and the callback of the
\* debris executor agree, on every tree, with the rules, which look at the
\* tree as a whole.
THEOREM RemovesWhatShouldGo == Spec => []Swept
<1>1. SweptInv => Swept
  <2> SUFFICES ASSUME SweptInv, Undisturbed, mounts = {}
               PROVE  {x.ino : x \in removed} =
                        {There(p) : p \in {q \in Paths :
                          ShouldGo(q) \/ IsDebris(q)}}
    BY DEF Swept
  <2>1. Rooted /\ Calm /\ pc = "done"
    BY DEF SweptInv, Quiet, Undisturbed
  <2>2. stack = <<>> /\ plan = {} /\ Lost
    BY <2>1 DEF Calm, Ended, World
  <2>3. \A p : Finished(p)
    <3>1. DOMAIN stack = {}
      BY <2>2, EmptyStacked
    <3> QED
      BY <2>1, <2>2, <3>1 DEF Finished, PendingIn, Walking, Busy
  <2>4. ASSUME NEW q \in Paths, Target(q)
        PROVE  q \in Known
    <3>1. There(q) \in Files \cup Dirs
      BY <2>4 DEF Target, ShouldGo, IsDebris
    <3>2. There(q) # Root /\ There(q) # None
      BY <3>1, Kindly
    <3> QED
      BY <3>2, AtRoot DEF Known
  <2>5. Gone = {q \in Paths : ShouldGo(q) \/ IsDebris(q)}
    BY <2>3, <2>4 DEF Gone, Known, Target
  <2> QED
    BY <2>2, <2>5 DEF Lost
<1> QED
  BY <1>1, StaysCalm, PTL

============================================================================
